----------------------------- MODULE TaskRunner -----------------------------
(***************************************************************************)
(* One autonomy runner (runner.py, main): the loop which selects a task,   *)
(* runs its agent, validates the result and records the verdict, with the  *)
(* three copies of the task book it keeps -- memory, the state file and    *)
(* the checkpoint -- and with kills and restarts between any two writes.   *)
(*                                                                         *)
(* All runs use one run id (ORXAQ_AUTONOMY_RUN_ID, or the id resumed), so  *)
(* there is one checkpoint file.  RunnerLock is the subject of module      *)
(* Lifecycle: here at most one runner is alive.                            *)
(***************************************************************************)
EXTENDS TaskBook

CONSTANTS
  NoTask,           \* no task is being executed
  Signals,          \* delivery signal records an agent may report
  Usage,            \* tokens one agent call may report
  MaxCycles,        \* --max-cycles
  MaxAttempts,      \* --max-attempts
  MaxRetryable,     \* --max-retryable-blocked-retries
  MaxTotalTokens,   \* --max-total-tokens, 0 disables
  MaxTotalRetries,  \* --max-total-retries, 0 disables
  RuntimeLimited,   \* --max-runtime-sec is not 0
  IdleSleep,        \* --idle-sleep-sec, in ticks
  ResumeModes,      \* subset of BOOLEAN: may a run be started with --resume?
  DryModes,         \* subset of BOOLEAN: may a run be started with --dry-run?
  MaxStarts         \* bound of the model: number of runs started

SignalRecord ==
  [commit : BOOLEAN, tests : BOOLEAN, pr : BOOLEAN, todo : BOOLEAN,
   review : {"none", "passed", "failed"}, score : BOOLEAN,
   urgent_fix : BOOLEAN, branch_gone : BOOLEAN]

ASSUME RunnerAssumption ==
  /\ NoTask \notin Tasks
  /\ Signals \subseteq SignalRecord /\ Signals # {}
  /\ Usage \subseteq Nat
  /\ MaxCycles \in Nat
  /\ MaxAttempts \in Nat
  /\ MaxRetryable \in Nat
  /\ MaxTotalTokens \in Nat
  /\ MaxTotalRetries \in Nat
  /\ RuntimeLimited \in BOOLEAN
  /\ IdleSleep \in Nat \ {0}
  /\ ResumeModes \subseteq BOOLEAN
  /\ DryModes \subseteq BOOLEAN
  /\ MaxStarts \in Nat

VARIABLES
  mem,       \* state: the book in memory (EmptyBook while no runner is alive)
  disk,      \* the state file
  ckpt,      \* contents of the checkpoint file when it is whole
  ckptFile,  \* "missing", "torn" (truncated, not yet rewritten) or "whole"
  pc,        \* where the runner is; "off" when no runner is alive
  then,      \* where it goes once the book is persisted
  exit,      \* exit code of the last run, by name
  task,      \* the task whose cycle is running
  outcome,   \* what its agent and its validation commands returned
  cycle, tokens, retries, overtime,   \* loop counter and budget totals
  resume, dry,                        \* options of this run
  starts,
  requeued   \* history: how many starts found each task in progress

copies == <<mem, disk, ckpt, ckptFile>>
budget == <<tokens, retries, overtime>>
options == <<resume, dry, starts, requeued>>
vars == <<mem, disk, ckpt, ckptFile, pc, then, exit, task, outcome,
          cycle, tokens, retries, overtime, resume, dry, starts, requeued>>

Places == {"off", "save", "truncate", "write", "cycle", "agent", "decide"}

\* 0, 1 (an exception), 2, 3, 4, and death by a signal.
Exits == {"none", "completed", "error", "stalled", "max_cycles", "budget", "killed"}

\* How the validation commands of a finished task came out.  "quiet": a
\* command kept failing without writing anything to stdout or stderr.
Checks == {"passed", "quiet", "failed"}

Outcomes ==
  [status : {"none", "blocked", "partial", "done"}, transient : BOOLEAN,
   checks : Checks, signals : SignalRecord]

NoSignals ==
  [commit |-> FALSE, tests |-> FALSE, pr |-> FALSE, todo |-> FALSE,
   review |-> "none", score |-> FALSE, urgent_fix |-> FALSE, branch_gone |-> FALSE]

NoOutcome == [status |-> "none", transient |-> FALSE, checks |-> "passed", signals |-> NoSignals]

\* A failed agent command and unparsable codex output count as "blocked", an
\* unknown status as "partial" (run_*_task, normalize_outcome).  transient is
\* is_retryable_error of the blocker text, or of the validation details.
AgentOutcomes ==
  [status : {"blocked"}, transient : BOOLEAN, checks : {"passed"}, signals : {NoSignals}]
  \cup [status : {"partial"}, transient : {FALSE}, checks : {"passed"}, signals : {NoSignals}]
  \cup [status : {"done"}, transient : {FALSE}, checks : {"passed", "quiet"}, signals : Signals]
  \cup [status : {"done"}, transient : BOOLEAN, checks : {"failed"}, signals : Signals]

----------------------------------------------------------------------------
(* Verdicts.                                                                *)

\* run_validations: the output of a failing command is its failure report,
\* and a command whose report is empty counts as passed.
Valid(o) == o.checks \in {"passed", "quiet"}

\* evaluate_delivery_contract.
ContractOk(owner, s) ==
  IF owner = "gemini"
  THEN /\ s.review = "none" \/ s.score
       /\ s.review # "failed" \/ s.urgent_fix
  ELSE /\ s.commit /\ s.tests /\ s.pr /\ s.todo
       /\ s.review = "passed" /\ s.score
       /\ s.branch_gone

Accepted == outcome.status = "done" /\ Valid(outcome) /\ ContractOk(Owner[task], outcome.signals)

ContractUnmet ==
  outcome.status = "done" /\ Valid(outcome) /\ ~ContractOk(Owner[task], outcome.signals)

\* Failures retried with exponential backoff.  A blocked agent has a cap on
\* them, a transient validation failure has none.
BacksOff ==
  \/ /\ outcome.status = "blocked" /\ outcome.transient
     /\ mem[task].retryable_failures < MaxRetryable
  \/ outcome.status = "done" /\ ~Valid(outcome) /\ outcome.transient

\* Mutant of OverBudget: the retry cap is not evaluated.
OverBudget_NoRetryCap == overtime \/ (MaxTotalTokens > 0 /\ tokens > MaxTotalTokens)

\* evaluate_budget_violations is not empty.
OverBudget ==
  \/ overtime
  \/ MaxTotalTokens > 0 /\ tokens > MaxTotalTokens
  \/ MaxTotalRetries > 0 /\ retries > MaxTotalRetries

----------------------------------------------------------------------------
Init ==
  /\ mem = EmptyBook /\ disk = EmptyBook /\ ckpt = EmptyBook /\ ckptFile = "missing"
  /\ pc = "off" /\ then = "cycle" /\ exit = "none"
  /\ task = NoTask /\ outcome = NoOutcome
  /\ cycle = 0 /\ tokens = 0 /\ retries = 0 /\ overtime = FALSE
  /\ resume = FALSE /\ dry = FALSE /\ starts = 0 /\ requeued = [t \in Tasks |-> 0]

\* persist(cycle), continuing at p.
PersistThen(p) == pc' = "save" /\ then' = p

\* The process is gone, and its memory with it.
Gone ==
  /\ pc' = "off" /\ mem' = EmptyBook /\ task' = NoTask /\ outcome' = NoOutcome
  /\ then' = "cycle" /\ cycle' = 0
  /\ tokens' = 0 /\ retries' = 0 /\ overtime' = FALSE
  /\ resume' = FALSE /\ dry' = FALSE

----------------------------------------------------------------------------
(* Start and stop of the process.                                           *)

Start(r, d) ==
  /\ pc = "off" /\ starts < MaxStarts
  /\ r => ckptFile = "whole"
  /\ LET source == IF r THEN ckpt ELSE disk
     IN /\ mem' = Loaded(source)
        /\ requeued' = [t \in Tasks |->
                         requeued[t] + (IF source[t].status = "in_progress" THEN 1 ELSE 0)]
  /\ PersistThen("cycle")
  /\ exit' = "none"
  /\ resume' = r /\ dry' = d /\ starts' = starts + 1
  /\ UNCHANGED <<disk, ckpt, ckptFile, task, outcome, cycle, budget>>

\* --resume with no checkpoint, or with one that does not parse.
StartFails ==
  /\ pc = "off" /\ starts < MaxStarts
  /\ TRUE \in ResumeModes /\ ckptFile # "whole"
  /\ exit' = "error" /\ starts' = starts + 1
  /\ UNCHANGED <<copies, pc, then, task, outcome, cycle, budget, resume, dry, requeued>>

\* SIGKILL (the supervisor's, after SIGTERM), a power loss, an uncaught exception.
Kill ==
  /\ pc # "off"
  /\ exit' = "killed"
  /\ Gone
  /\ UNCHANGED <<disk, ckpt, ckptFile, starts, requeued>>

----------------------------------------------------------------------------
(* persist: an atomic replacement of the state file, then a checkpoint      *)
(* written in place.                                                        *)

\* Mutant of SaveState: the checkpoint is written on claims and exits only.
SaveState_LazyCheckpoint ==
  /\ pc = "save"
  /\ disk' = mem
  /\ pc' = IF then = "cycle" THEN "cycle" ELSE "truncate"
  /\ UNCHANGED <<mem, ckpt, ckptFile, then, exit, task, outcome, cycle, budget, options>>

SaveState ==
  /\ pc = "save"
  /\ disk' = mem
  /\ pc' = "truncate"
  /\ UNCHANGED <<mem, ckpt, ckptFile, then, exit, task, outcome, cycle, budget, options>>

TruncateCheckpoint ==
  /\ pc = "truncate"
  /\ ckpt' = EmptyBook /\ ckptFile' = "torn"
  /\ pc' = "write"
  /\ UNCHANGED <<mem, disk, then, exit, task, outcome, cycle, budget, options>>

\* Mutant of WriteCheckpoint: the loop goes on after the last persist.
WriteCheckpoint_NoReturn ==
  /\ pc = "write"
  /\ ckpt' = mem /\ ckptFile' = "whole"
  /\ pc' = IF then = "exit" THEN "cycle" ELSE then
  /\ UNCHANGED <<mem, disk, then, exit, task, outcome, cycle, budget, options>>

WriteCheckpoint ==
  /\ pc = "write"
  /\ ckpt' = mem /\ ckptFile' = "whole"
  /\ IF then = "exit"
     THEN Gone
     ELSE pc' = then /\ UNCHANGED <<mem, then, task, outcome, cycle, budget, resume, dry>>
  /\ UNCHANGED <<disk, exit, starts, requeued>>

----------------------------------------------------------------------------
(* The head of the loop.                                                    *)

OutOfCycles ==
  /\ pc = "cycle" /\ cycle = MaxCycles
  /\ PersistThen("exit") /\ exit' = "max_cycles"
  /\ UNCHANGED <<copies, task, outcome, cycle, budget, options>>

StopOverBudget ==
  /\ pc = "cycle" /\ cycle < MaxCycles /\ OverBudget
  /\ exit' = "budget"
  /\ Gone
  /\ UNCHANGED <<disk, ckpt, ckptFile, starts, requeued>>

NewCycle == pc = "cycle" /\ cycle < MaxCycles /\ ~OverBudget /\ cycle' = cycle + 1

FinishAll ==
  /\ NewCycle /\ AllDone(mem)
  /\ PersistThen("exit") /\ exit' = "completed"
  /\ UNCHANGED <<copies, task, outcome, budget, options>>

\* Every eligible task is cooling down: sleep and spend the cycle.
Idle ==
  /\ NewCycle /\ ~AllDone(mem)
  /\ Eligible(mem) # {} /\ Ready(mem) = {}
  /\ \E d \in 1..IdleSleep :
       /\ \A t \in Eligible(mem) : d <= mem[t].not_before
       /\ d = IdleSleep \/ \E t \in Eligible(mem) : d = mem[t].not_before
       /\ mem' = Elapsed(mem, d) /\ disk' = Elapsed(disk, d) /\ ckpt' = Elapsed(ckpt, d)
  /\ UNCHANGED <<ckptFile, pc, then, exit, task, outcome, budget, options>>

\* Mutant of Stall: tasks in their retry cooldown are not waited for.
Stall_Impatient ==
  /\ NewCycle /\ ~AllDone(mem) /\ Ready(mem) = {}
  /\ PersistThen("exit") /\ exit' = "stalled"
  /\ UNCHANGED <<copies, task, outcome, budget, options>>

Stall ==
  /\ NewCycle /\ ~AllDone(mem) /\ Eligible(mem) = {}
  /\ PersistThen("exit") /\ exit' = "stalled"
  /\ UNCHANGED <<copies, task, outcome, budget, options>>

\* Mutant of SelectTask: the agent is launched before the claim is persisted.
SelectTask_Unsaved(t) ==
  /\ NewCycle /\ ~AllDone(mem) /\ IsNext(mem, t)
  /\ task' = t
  /\ mem' = [mem EXCEPT ![t] = Claimed(mem[t])]
  /\ pc' = "agent"
  /\ UNCHANGED <<disk, ckpt, ckptFile, then, exit, outcome, budget, options>>

SelectTask(t) ==
  /\ NewCycle /\ ~AllDone(mem) /\ IsNext(mem, t)
  /\ task' = t
  /\ mem' = [mem EXCEPT ![t] = Claimed(mem[t])]
  /\ PersistThen("agent")
  /\ UNCHANGED <<disk, ckpt, ckptFile, exit, outcome, budget, options>>

----------------------------------------------------------------------------
(* The body of the loop.                                                    *)

SkipDryRun ==
  /\ pc = "agent" /\ dry
  /\ mem' = [mem EXCEPT ![task].status = "pending"]
  /\ task' = NoTask
  /\ PersistThen("cycle")
  /\ UNCHANGED <<disk, ckpt, ckptFile, exit, outcome, cycle, budget, options>>

RunAgent(o, used) ==
  /\ pc = "agent" /\ ~dry
  /\ outcome' = o /\ tokens' = tokens + used
  /\ pc' = "decide"
  /\ UNCHANGED <<copies, then, exit, task, cycle, retries, overtime, options>>

\* The verdict replaces the entry of the task and the book is persisted.
Record(entry) ==
  /\ mem' = [mem EXCEPT ![task] = entry]
  /\ task' = NoTask /\ outcome' = NoOutcome
  /\ PersistThen("cycle")
  /\ UNCHANGED <<disk, ckpt, ckptFile, exit, cycle, tokens, overtime, options>>

RetryTransient ==
  /\ pc = "decide" /\ BacksOff
  /\ retries' = retries + 1
  /\ Record(BackedOff(mem[task]))

\* Mutant of RetryAttempt: a task whose contract is unmet is retried, uncounted,
\* whatever max_attempts says.
RetryAttempt_Uncapped ==
  /\ pc = "decide" /\ ~BacksOff /\ ~Accepted
  /\ ContractUnmet \/ mem[task].attempts < MaxAttempts
  /\ retries' = IF ContractUnmet THEN retries ELSE retries + 1
  /\ Record(Rescheduled(mem[task]))

\* Blocked, partial, invalid, or done without the evidence the contract asks
\* for; only in the last case increment_retry_events is not called.
RetryAttempt ==
  /\ pc = "decide" /\ ~BacksOff /\ ~Accepted
  /\ mem[task].attempts < MaxAttempts
  /\ retries' = IF ContractUnmet THEN retries ELSE retries + 1
  /\ Record(Rescheduled(mem[task]))

\* Mutant of GiveUp: one attempt too early.
GiveUp_Early ==
  /\ pc = "decide" /\ ~BacksOff /\ ~Accepted
  /\ mem[task].attempts + 1 >= MaxAttempts
  /\ Record(Blocked(mem[task]))
  /\ UNCHANGED retries

GiveUp ==
  /\ pc = "decide" /\ ~BacksOff /\ ~Accepted
  /\ mem[task].attempts >= MaxAttempts
  /\ Record(Blocked(mem[task]))
  /\ UNCHANGED retries

Complete ==
  /\ pc = "decide" /\ Accepted
  /\ Record(Completed(mem[task]))
  /\ UNCHANGED retries

----------------------------------------------------------------------------
(* Time.                                                                    *)

Cooling(book) == \E t \in Tasks : book[t].not_before > 0

Tick ==
  /\ Cooling(mem) \/ Cooling(disk) \/ Cooling(ckpt)
  /\ mem' = Elapsed(mem, 1) /\ disk' = Elapsed(disk, 1) /\ ckpt' = Elapsed(ckpt, 1)
  /\ UNCHANGED <<ckptFile, pc, then, exit, task, outcome, cycle, budget, options>>

\* The wall clock of this run passes --max-runtime-sec.
RunTooLong ==
  /\ RuntimeLimited /\ pc # "off"
  /\ overtime' = TRUE
  /\ UNCHANGED <<copies, pc, then, exit, task, outcome, cycle, tokens, retries, options>>

----------------------------------------------------------------------------
Persist == SaveState \/ TruncateCheckpoint \/ WriteCheckpoint

LoopHead ==
  OutOfCycles \/ StopOverBudget \/ FinishAll \/ Idle \/ Stall \/ \E t \in Tasks : SelectTask(t)

LoopBody ==
  \/ SkipDryRun
  \/ \E o \in AgentOutcomes, used \in Usage : RunAgent(o, used)
  \/ RetryTransient \/ RetryAttempt \/ GiveUp \/ Complete

RunnerStep == Persist \/ LoopHead \/ LoopBody

Next ==
  \/ \E r \in ResumeModes, d \in DryModes : Start(r, d)
  \/ StartFails \/ Kill
  \/ RunnerStep
  \/ Tick \/ RunTooLong

\* A live runner keeps executing, or is killed: sleeps end and run_command kills
\* a command at its timeout.  That is an assumption on the commands: after the
\* kill run_command waits for the pipes without a timeout, so a grandchild
\* which keeps them open hangs the runner, and only somebody who kills it (a
\* supervisor whose heartbeat file goes stale, Lifecycle) ends that run.
\* Nothing obliges anybody to start a runner, and nothing is assumed of the clock.
Fairness == WF_vars(RunnerStep \/ Kill)

Spec == Init /\ [][Next]_vars /\ Fairness

----------------------------------------------------------------------------
(* Type invariant.                                                          *)

\* Every variable has its type; the checkpoint's contents are the empty book
\* while the file is not whole.
TypeOK ==
  /\ mem \in Book /\ disk \in Book /\ ckpt \in Book
  /\ ckptFile \in {"missing", "torn", "whole"}
  /\ pc \in Places /\ then \in {"cycle", "agent", "exit"} /\ exit \in Exits
  /\ task \in Tasks \cup {NoTask}
  /\ outcome \in Outcomes
  /\ cycle \in 0..MaxCycles /\ tokens \in Nat /\ retries \in Nat
  /\ overtime \in BOOLEAN /\ resume \in BOOLEAN /\ dry \in BOOLEAN
  /\ starts \in 0..MaxStarts /\ requeued \in [Tasks -> Nat]

----------------------------------------------------------------------------
(* Safety.                                                                  *)

Copies == {mem, disk, ckpt}

\* No task is ever attempted before all its dependencies are done (never, if one
\* is not in the tasks file), and what was attempted keeps its dependencies done
\* in memory, in the state file and in the checkpoint, whatever is killed,
\* restarted or resumed in between.
DependenciesFirst ==
  \A book \in Copies : \A t \in Tasks :
    book[t].attempts > 0 => \A d \in Deps[t] : d \in Tasks /\ book[d].status = "done"

\* At most one task is in progress, it is the one the runner works on, and
\* before an agent is launched, and until its verdict, the state file and the
\* checkpoint already show the claim: whatever the runner does at the head or
\* in the body of its loop, a kill loses nothing it knew.
PersistedBeforeActing ==
  /\ \A t \in Tasks : mem[t].status = "in_progress" <=> t = task
  /\ pc \in {"cycle", "agent", "decide"} =>
       ckptFile = "whole" /\ disk = mem /\ ckpt = mem

\* A whole checkpoint differs from the state file in one task at most: resuming
\* from it undoes at most the last verdict or the last claim.
CheckpointLag ==
  ckptFile = "whole" =>
    \A t, u \in Tasks : ckpt[t] # disk[t] /\ ckpt[u] # disk[u] => t = u

\* Tasks are blocked only after max_attempts attempts.
BlockedOnlyWhenSpent ==
  \A book \in Copies : \A t \in Tasks :
    book[t].status = "blocked" => book[t].attempts >= MaxAttempts

\* The budget totals pass their caps by one cycle at most.
BoundedOvershoot ==
  /\ MaxTotalRetries > 0 => retries <= MaxTotalRetries + 1
  /\ MaxTotalTokens > 0 =>
       tokens <= MaxTotalTokens \/ \E used \in Usage : tokens <= MaxTotalTokens + used

\* What the exit code tells the supervisor is true of the state file: 0 means
\* that every task is done, 2 that no task can run and, dependencies being
\* acyclic, that some task is blocked or waits for one which is not in the tasks
\* file (then the run ends with 2 although nothing is blocked); after a regular
\* exit nothing is left in progress and the checkpoint can be resumed; only a
\* kill tears it.
ExitCodeTruth ==
  pc = "off" =>
    /\ exit = "completed" => \A t \in Tasks : disk[t].status = "done"
    /\ exit = "stalled" =>
         /\ \E t \in Tasks :
              \/ disk[t].status = "blocked"
              \/ disk[t].status = "pending" /\ Deps[t] \ Tasks # {}
         /\ \A t \in Tasks : disk[t].status = "pending" =>
              \E d \in Deps[t] : d \notin Tasks \/ disk[d].status # "done"
    /\ exit \in {"completed", "stalled", "max_cycles", "budget"} =>
         /\ ckptFile = "whole" /\ ckpt = disk
         /\ \A t \in Tasks : disk[t].status # "in_progress"
    /\ ckptFile = "torn" => exit \in {"killed", "error"}

\* The first attempt is made even if max_attempts is 0.
AllowedAttempts == IF MaxAttempts = 0 THEN 1 ELSE MaxAttempts

\* Each attempt of an unfinished task beyond max_attempts is paid for by a
\* retryable failure, or by a start which found the task in progress: no other
\* path through the loop, the uncounted retry of an unmet contract among them,
\* runs a task again.  (Runs without --dry-run.)
AttemptsPaidFor ==
  \A book \in Copies : \A t \in Tasks :
    book[t].status # "done" =>
      book[t].attempts <= AllowedAttempts + book[t].retryable_failures + requeued[t]

\* A task recorded as done in the state file stays done, through kills and
\* restarts, unless the run is one that resumes from a checkpoint.
DoneIsFinal ==
  [][\A t \in Tasks :
       disk[t].status = "done" => disk'[t].status = "done" \/ resume]_vars

\* Every run ends: the loop cannot spin, whatever the agents answer and however
\* often tasks are retried.
RunsEnd == pc # "off" ~> pc = "off"

\* The state file behaves as a TaskBoard (runs which do not resume).
Board == INSTANCE TaskBoard
  WITH status <- [t \in Tasks |-> disk[t].status],
       attempts <- [t \in Tasks |-> disk[t].attempts]

\* Each write of the state file is one step of the board: claims are exclusive
\* and counted exactly once across kills and restarts, done and blocked are final.
StateFileIsBoard == Board!Spec

=============================================================================
