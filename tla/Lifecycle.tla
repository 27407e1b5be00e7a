------------------------------ MODULE Lifecycle ------------------------------
(***************************************************************************)
(* The service around the runner (manager.py): supervisors which launch    *)
(* runners and watch their heartbeat, and the commands start, stop, ensure *)
(* and run which operators and keepalive schedulers issue, all of which    *)
(* know each other only through two pid files, the heartbeat and the lock  *)
(* file of RunnerLock.                                                     *)
(*                                                                         *)
(* The supervisor's loop condition, _pid_running(child.pid), is not there: *)
(* its child stays a zombie, which answers signal 0, until the supervisor  *)
(* waits for it after the loop, so the condition is always true.  Delays   *)
(* (poll interval, backoff) are the time any step may take.                *)
(*                                                                         *)
(* A pid file is written in two steps: opening it empties it, and a reader *)
(* which comes between the two finds no pid.                               *)
(***************************************************************************)
EXTENDS RunnerLock

CONSTANTS
  Sups,          \* supervisor processes
  Blank,         \* a pid file without a pid in it, yet or for ever
  Commands,      \* command invocations
  Kind,          \* [Commands -> {"start", "stop", "ensure", "run"}]
  Overlap,       \* may a command be issued while another is under way?
  MaxRestarts,   \* ORXAQ_AUTONOMY_SUPERVISOR_MAX_RESTARTS, 0 for no limit
  MayFail,       \* may runners fail by themselves?
  FaultKinds,    \* which of "hang", "runner" and "supervisor" (a crash) may happen
  MaxFaults      \* bound of the model: number of faults

ASSUME LifecycleAssumption ==
  /\ Nobody \notin Sups /\ Blank \notin Runners \cup Sups \cup {Nobody}
  /\ Kind \in [Commands -> {"start", "stop", "ensure", "run"}]
  /\ MaxRestarts \in Nat /\ MaxFaults \in Nat
  /\ FaultKinds \subseteq {"hang", "runner", "supervisor"}
  /\ MayFail \in BOOLEAN /\ Overlap \in BOOLEAN

VARIABLES
  supPid, runPid,    \* the two pid files
  hbBy, hbStale,     \* who wrote the heartbeat file last, and whether that is too long ago
  svAt,              \* where each supervisor is
  child,             \* the runner it launched last
  restarts,          \* its restart_count
  cmd,               \* where each command is, and the pids it has read
  crossed,           \* history: two commands have been under way at once
  blind,             \* history: a command read the emptied pid file of a live supervisor
  hung, faults       \* runners which stopped making progress; faults so far

files == <<supPid, runPid>>
beat == <<hbBy, hbStale>>
svVars == <<svAt, child, restarts>>
cmdVars == <<cmd, crossed, blind>>
faultVars == <<hung, faults>>
vars == <<lockFile, written, at, seen, reaped, overlapped, supPid, runPid, hbBy, hbStale,
          svAt, child, restarts, cmd, crossed, blind, hung, faults>>

SvLive == {s \in Sups : svAt[s] \notin {"new", "ended", "killed"}}
Dead(r) == at[r] \in Ended

\* _write_pid: Blank is the file it has opened, Filled what its write leaves (nothing, where
\* the file was unlinked in between; that a third process has created it anew is left out).
Filled(file, pid) == IF file = Nobody THEN Nobody ELSE pid

\* Processes which have not been created yet are interchangeable: the next one.
Fresh(pids) == IF pids = {} THEN {} ELSE {CHOOSE p \in pids : TRUE}
FreshRunners == Fresh({r \in Runners : at[r] = "new"})
FreshSups == Fresh({s \in Sups : svAt[s] = "new"})
CmdMidway == {c \in Commands : cmd[c].at \notin {"new", "done"}}

Init ==
  /\ LockInit
  /\ supPid = Nobody /\ runPid = Nobody /\ hbBy = Nobody /\ hbStale = FALSE
  /\ svAt = [s \in Sups |-> "new"] /\ child = [s \in Sups |-> Nobody]
  /\ restarts = [s \in Sups |-> 0]
  /\ cmd = [c \in Commands |-> [at |-> "new", sup |-> Nobody, run |-> Nobody]]
  /\ crossed = FALSE /\ blind = FALSE /\ hung = {} /\ faults = 0

----------------------------------------------------------------------------
(* The runner: run_foreground around runner.main.                           *)

\* It writes its own pid, and removes the file when main returns or raises.
RunnerRun(r) ==
  /\ \/ Boot(r) /\ runPid' = IF at[r] = "boot" THEN Blank ELSE Filled(runPid, r)
     \/ /\ Acquire(r) \/ (MayFail /\ Abort(r))
        /\ runPid' = IF at'[r] = "failed" THEN Nobody ELSE runPid
     \/ r \notin hung /\ Return(r) /\ runPid' = Nobody
     \/ /\ \E code \in IF MayFail THEN {"done", "failed"} ELSE {"done"} : Release(r, code)
        /\ UNCHANGED runPid
  /\ UNCHANGED <<supPid, beat, svVars, cmdVars, faultVars>>

Heartbeat(r) ==
  /\ at[r] = "work" /\ r \notin hung /\ (hbBy # r \/ hbStale)
  /\ hbBy' = r /\ hbStale' = FALSE
  /\ UNCHANGED <<lockVars, files, svVars, cmdVars, faultVars>>

\* Nobody has written for longer than heartbeat_stale_sec.
Silence ==
  /\ hbBy # Nobody /\ ~hbStale /\ (Dead(hbBy) \/ hbBy \in hung)
  /\ hbStale' = TRUE
  /\ UNCHANGED <<lockVars, files, hbBy, svVars, cmdVars, faultVars>>

\* init waits for the runners whose parent is not a supervisor any more.
ReapOrphan(r) ==
  /\ \A s \in SvLive : child[s] # r
  /\ Reap(r)
  /\ UNCHANGED <<files, beat, svVars, cmdVars, faultVars>>

----------------------------------------------------------------------------
(* The supervisor: supervise_foreground.                                    *)

SvGo(s, place) == svAt' = [svAt EXCEPT ![s] = place]

Supervise(s) ==
  /\ \/ svAt[s] = "boot" /\ SvGo(s, "sign") /\ supPid' = Blank
     \/ svAt[s] = "sign" /\ SvGo(s, "launch") /\ supPid' = Filled(supPid, s)
  /\ UNCHANGED <<lockVars, runPid, beat, child, restarts, cmdVars, faultVars>>

Launch(s, r) ==
  /\ svAt[s] = "launch" /\ SvGo(s, "record")
  /\ Begin(r) /\ child' = [child EXCEPT ![s] = r]
  /\ UNCHANGED <<files, beat, restarts, cmdVars, faultVars>>

\* Mutant of Record: the runner is left to write its pid itself.
Record_Later(s) ==
  /\ svAt[s] = "record" /\ SvGo(s, "poll")
  /\ UNCHANGED <<lockVars, files, beat, child, restarts, cmdVars, faultVars>>

Record(s) ==
  /\ \/ svAt[s] = "record" /\ SvGo(s, "fill") /\ runPid' = Blank
     \/ svAt[s] = "fill" /\ SvGo(s, "poll") /\ runPid' = Filled(runPid, child[s])
  /\ UNCHANGED <<lockVars, supPid, beat, child, restarts, cmdVars, faultVars>>

\* Mutants of Judge: a runner is launched at every poll; an exited runner is
\* not noticed; the age of the heartbeat is not looked at.
Judge_Relaunch(s) ==
  /\ svAt[s] = "poll" /\ SvGo(s, "launch")
  /\ UNCHANGED <<lockVars, files, beat, child, restarts, cmdVars, faultVars>>
Judge_Alive(s) ==
  /\ svAt[s] = "poll" /\ SvGo(s, "terminate")
  /\ hbBy # Nobody /\ hbStale
  /\ hbBy = child[s] /\ ~Dead(child[s])
  /\ UNCHANGED <<lockVars, files, beat, child, restarts, cmdVars, faultVars>>
Judge_AnyBeat(s) ==
  /\ svAt[s] = "poll" /\ SvGo(s, "terminate")
  /\ hbBy # Nobody
  /\ UNCHANGED <<lockVars, files, beat, child, restarts, cmdVars, faultVars>>

\* The heartbeat file exists and is stale, whoever wrote it: a runner launched after
\* one which hung or died silently has a poll interval to replace its predecessor's.
Judge(s) ==
  /\ svAt[s] = "poll" /\ SvGo(s, "terminate")
  /\ hbBy # Nobody /\ hbStale
  /\ UNCHANGED <<lockVars, files, beat, child, restarts, cmdVars, faultVars>>

\* _terminate_pid, which has no effect on the dead.
Terminated(r) == IF r \in Runners /\ ~Dead(r) THEN Kill(r) ELSE UNCHANGED lockVars

Terminate(s) ==
  /\ svAt[s] = "terminate" /\ SvGo(s, "wait")
  /\ Terminated(child[s])
  /\ UNCHANGED <<files, beat, child, restarts, cmdVars, faultVars>>

\* Mutant of Wait: the return code is not looked at.
Wait_AnyCode(s) ==
  /\ svAt[s] = "wait" /\ Reap(child[s])
  /\ runPid' = Nobody
  /\ restarts' = [restarts EXCEPT ![s] = @ + 1]
  /\ SvGo(s, IF MaxRestarts > 0 /\ restarts'[s] >= MaxRestarts THEN "leave" ELSE "launch")
  /\ UNCHANGED <<supPid, beat, child, cmdVars, faultVars>>

\* child.wait() and what its return code decides.
Wait(s) ==
  /\ svAt[s] = "wait" /\ Reap(child[s])
  /\ runPid' = Nobody
  /\ IF at[child[s]] = "done"
     THEN SvGo(s, "leave") /\ UNCHANGED restarts
     ELSE /\ restarts' = [restarts EXCEPT ![s] = @ + 1]
          /\ SvGo(s, IF MaxRestarts > 0 /\ restarts'[s] >= MaxRestarts THEN "leave" ELSE "launch")
  /\ UNCHANGED <<supPid, beat, child, cmdVars, faultVars>>

Leave(s) ==
  /\ svAt[s] = "leave" /\ SvGo(s, "ended")
  /\ supPid' = Nobody
  /\ UNCHANGED <<lockVars, runPid, beat, child, restarts, cmdVars, faultVars>>

SvStep(s) ==
  \/ Supervise(s) \/ (\E r \in FreshRunners : Launch(s, r)) \/ Record(s)
  \/ Judge(s) \/ Terminate(s) \/ Wait(s) \/ Leave(s)

----------------------------------------------------------------------------
(* The commands.                                                            *)

CmdGo(c, place) == cmd' = [cmd EXCEPT ![c].at = place]

Issue(c) ==
  /\ cmd[c].at = "new" /\ CmdGo(c, Kind[c])
  /\ Overlap \/ CmdMidway = {}
  /\ crossed' = (crossed \/ CmdMidway # {})
  /\ UNCHANGED <<lockVars, files, beat, svVars, blind, faultVars>>

\* _read_pid of the supervisor's file: None where it is missing or holds no pid.
ReadSup == IF supPid = Blank THEN Nobody ELSE supPid
Blinded == blind' = (blind \/ (supPid = Blank /\ SvLive # {}))

\* Mutant of StartCheck: start does not look for a supervisor.
StartCheck_Blind(c) ==
  /\ cmd[c].at = "start"
  /\ CmdGo(c, "spawn")
  /\ UNCHANGED <<lockVars, files, beat, svVars, crossed, blind, faultVars>>

StartCheck(c) ==
  /\ cmd[c].at = "start"
  /\ CmdGo(c, IF ReadSup \in SvLive THEN "done" ELSE "spawn") /\ Blinded
  /\ UNCHANGED <<lockVars, files, beat, svVars, crossed, faultVars>>

Spawn(c, s) ==
  /\ cmd[c].at = "spawn"
  /\ SvGo(s, "boot") /\ cmd' = [cmd EXCEPT ![c].at = "save", ![c].sup = s]
  /\ UNCHANGED <<lockVars, files, beat, child, restarts, crossed, blind, faultVars>>

\* Mutant of SavePid: the supervisor is left to write its pid itself.
SavePid_Later(c) ==
  /\ cmd[c].at = "save" /\ CmdGo(c, "done")
  /\ UNCHANGED <<lockVars, files, beat, svVars, crossed, blind, faultVars>>

SavePid(c) ==
  /\ \/ cmd[c].at = "save" /\ CmdGo(c, "fill") /\ supPid' = Blank
     \/ cmd[c].at = "fill" /\ CmdGo(c, "done") /\ supPid' = Filled(supPid, cmd[c].sup)
  /\ UNCHANGED <<lockVars, runPid, beat, svVars, crossed, blind, faultVars>>

Ensure(c) ==
  /\ cmd[c].at = "ensure"
  /\ CmdGo(c, IF ReadSup \in SvLive THEN "inspect" ELSE "start") /\ Blinded
  /\ UNCHANGED <<lockVars, files, beat, svVars, crossed, faultVars>>

Inspect(c) ==
  /\ cmd[c].at = "inspect"
  /\ IF Running(runPid) /\ hbBy # Nobody /\ hbStale
     THEN cmd' = [cmd EXCEPT ![c].at = "hit", ![c].run = runPid]
     ELSE CmdGo(c, "done")
  /\ UNCHANGED <<lockVars, files, beat, svVars, crossed, blind, faultVars>>

StopReadSup(c) ==
  /\ cmd[c].at = "stop"
  /\ cmd' = [cmd EXCEPT ![c].at = "read_run", ![c].sup = ReadSup] /\ Blinded
  /\ UNCHANGED <<lockVars, files, beat, svVars, crossed, faultVars>>

StopReadRun(c) ==
  /\ cmd[c].at = "read_run"
  /\ cmd' = [cmd EXCEPT ![c].at = "stop_sup", ![c].run = IF runPid = Blank THEN Nobody ELSE runPid]
  /\ UNCHANGED <<lockVars, files, beat, svVars, crossed, blind, faultVars>>

StopSup(c) ==
  /\ cmd[c].at = "stop_sup" /\ CmdGo(c, "stop_run")
  /\ svAt' = IF cmd[c].sup \in SvLive THEN [svAt EXCEPT ![cmd[c].sup] = "killed"] ELSE svAt
  /\ UNCHANGED <<lockVars, files, beat, child, restarts, crossed, blind, faultVars>>

\* stop and ensure terminate the runner whose pid they have read.
StopRunner(c) ==
  /\ cmd[c].at \in {"stop_run", "hit"}
  /\ CmdGo(c, IF cmd[c].at = "hit" THEN "done" ELSE "unlink")
  /\ Terminated(cmd[c].run)
  /\ UNCHANGED <<files, beat, svVars, crossed, blind, faultVars>>

StopUnlink(c) ==
  /\ cmd[c].at = "unlink" /\ CmdGo(c, "done")
  /\ supPid' = Nobody /\ runPid' = Nobody
  /\ UNCHANGED <<lockVars, beat, svVars, crossed, blind, faultVars>>

RunForeground(c, r) ==
  /\ cmd[c].at = "run" /\ CmdGo(c, "done")
  /\ Begin(r)
  /\ UNCHANGED <<files, beat, svVars, crossed, blind, faultVars>>

CmdStep(c) ==
  \/ StartCheck(c) \/ (\E s \in FreshSups : Spawn(c, s)) \/ SavePid(c)
  \/ Ensure(c) \/ Inspect(c)
  \/ StopReadSup(c) \/ StopReadRun(c) \/ StopSup(c) \/ StopRunner(c) \/ StopUnlink(c)
  \/ \E r \in FreshRunners : RunForeground(c, r)

----------------------------------------------------------------------------
(* Faults.                                                                  *)

Fault(kind) == kind \in FaultKinds /\ faults < MaxFaults /\ faults' = faults + 1

Hang(r) ==
  /\ Fault("hang")
  /\ at[r] = "work" /\ hbBy = r /\ r \notin hung /\ hung' = hung \cup {r}
  /\ UNCHANGED <<lockVars, files, beat, svVars, cmdVars>>

CrashRunner(r) ==
  /\ Fault("runner") /\ Kill(r)
  /\ UNCHANGED <<files, beat, svVars, cmdVars, hung>>

CrashSupervisor(s) ==
  /\ Fault("supervisor") /\ s \in SvLive /\ SvGo(s, "killed")
  /\ UNCHANGED <<lockVars, files, beat, child, restarts, cmdVars, hung>>

Next ==
  \/ \E r \in Runners : RunnerRun(r) \/ Heartbeat(r) \/ ReapOrphan(r)
  \/ Silence
  \/ \E s \in Sups : SvStep(s)
  \/ \E c \in Commands : Issue(c) \/ CmdStep(c)
  \/ (\E r \in Runners : Hang(r) \/ CrashRunner(r)) \/ \E s \in Sups : CrashSupervisor(s)

\* Processes which are not hung go on (a run ends: TaskRunner), zombies are
\* waited for and time passes.  Nothing makes anybody issue a command, and
\* faults need not happen.
Fairness ==
  /\ \A r \in Runners : WF_vars(RunnerRun(r)) /\ WF_vars(Heartbeat(r)) /\ WF_vars(ReapOrphan(r))
  /\ WF_vars(Silence)
  /\ \A s \in Sups : WF_vars(SvStep(s))
  /\ \A c \in Commands : WF_vars(CmdStep(c))

Spec == Init /\ [][Next]_vars /\ Fairness

----------------------------------------------------------------------------
SvPlaces ==
  {"new", "boot", "sign", "launch", "record", "fill", "poll", "terminate", "wait", "leave", "ended", "killed"}
CmdPlaces ==
  {"new", "start", "spawn", "save", "fill", "ensure", "inspect", "hit", "stop", "read_run", "stop_sup",
   "stop_run", "unlink", "run", "done"}

\* Every variable has its type.
TypeOK ==
  /\ LockTypeOK
  /\ supPid \in Sups \cup {Nobody, Blank} /\ runPid \in Runners \cup {Nobody, Blank}
  /\ hbBy \in Runners \cup {Nobody} /\ hbStale \in BOOLEAN
  /\ svAt \in [Sups -> SvPlaces] /\ child \in [Sups -> Runners \cup {Nobody}]
  /\ restarts \in [Sups -> Nat]
  /\ cmd \in [Commands -> [at : CmdPlaces, sup : Sups \cup {Nobody}, run : Runners \cup {Nobody}]]
  /\ crossed \in BOOLEAN /\ blind \in BOOLEAN /\ hung \subseteq Runners /\ faults \in 0..MaxFaults

\* The pid file is enough to keep supervisors apart as long as commands do not overlap
\* and none reads the file of a live supervisor while it is being written: two supervisors
\* never live at the same time, whoever is killed.
OneSupervisor == ~crossed /\ ~blind => \A s, t \in SvLive : s = t

\* A stop which does not overlap another command, in a service whose pid file was never
\* read empty, leaves no supervisor, however far the one that was starting, restarting
\* its runner or leaving had got.
StopEnds ==
  [][\A c \in Commands :
       cmd[c].at = "unlink" /\ cmd'[c].at = "done" /\ ~crossed /\ ~blind => SvLive' = {}]_vars

\* A supervisor whose runner completed its work launches no other, although it
\* hears of the exit only through a stale heartbeat and signals a zombie first.
CompletedNotRestarted ==
  [][\A s \in Sups : \A r \in Runners :
       child[s] = r /\ at[r] = "done" => child'[s] = r]_vars

\* A supervisor gives up only on a runner which is dead, or hung, or has not written a
\* heartbeat of its own yet: whatever the file said of earlier runners, one which has
\* begun to work and goes on is never terminated for it.
HealthyNotTerminated ==
  [][\A s \in Sups : \A r \in Runners :
       child[s] = r /\ svAt[s] = "poll" /\ svAt'[s] = "terminate"
       => Dead(r) \/ r \in hung \/ hbBy # r]_vars

\* Once there is a heartbeat file a dead runner does not go unnoticed.
DeadRunnerNoticed ==
  \A s \in Sups : \A r \in Runners :
    svAt[s] = "poll" /\ child[s] = r /\ Dead(r) /\ hbBy # Nobody ~> svAt[s] # "poll"

\* What may disturb a service: commands which overlap or read an emptied pid file, a
\* supervisor which is killed (its runner is an orphan then), a runner run from a shell.
Disturbed ==
  \/ crossed \/ blind \/ \E s \in Sups : svAt[s] = "killed"
  \/ \E c \in Commands : Kind[c] = "run" /\ cmd[c].at = "done"

\* Undisturbed, a supervisor never has two runners acquiring the lock at once, so that
\* RunnerLock keeps its promise.
SupervisionKeepsLockSafe == overlapped => Disturbed

\* The variables have their types (the pid files hold pids of the right processes), and
\* supervision keeps the lock safe.
SupervisionSound == TypeOK /\ SupervisionKeepsLockSafe

\* What stop and ensure rely on to reach the runner: undisturbed, the pid file names the
\* runner a supervisor watches, from the runner's own writing of it until it returns, over
\* any number of restarts.  (Between the launch and the supervisor's writing, and while
\* the runner writes, it need not: a stop which reads it then leaves an orphan.)
RunnerReachable ==
  Disturbed \/
  \A s \in Sups : \A r \in Runners :
    /\ svAt[s] \in {"poll", "terminate"} /\ child[s] = r
    /\ at[r] \in {"boot", "look", "work"} \cup Midway
    => runPid = r

----------------------------------------------------------------------------
(* What the documentation says and the code does not do.                    *)

\* docs/autonomy-halt-mitigation.md: "Supervisor restarts runner with
\* exponential backoff."
DeadRunnerRestarted ==
  \A s \in Sups : \A r \in Runners :
    svAt[s] = "poll" /\ child[s] = r /\ Dead(r) ~> svAt[s] # "poll"

=============================================================================
