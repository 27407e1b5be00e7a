# Formal models of orxaq-ops

TLA+ specifications of the autonomy tooling in this repository: what its
processes, files and retries promise, checked by TLC on small instances and,
where a proof is within reach, proved with TLAPS for every task set, graph,
number of processes and option value.

Paths below are relative to the repository; `A/` stands for
`src/orxaq_autonomy/`.

## 1. Inventory

| part | state it keeps | operations | interacts with |
|---|---|---|---|
| Task runner, `A/runner.py`, `A/task_queue.py` | task book (memory, state file, checkpoint), budget totals, loop counter | load, resume, select, claim, run agent, validate, judge the delivery contract, retry, block, complete, persist, exit | agents and validation commands (subprocesses), supervisor (exit code, heartbeat), lock file |
| Runner lock, `A/runner.py` `RunnerLock` | lock file with a pid | acquire, release (atexit) | other runners, reused pids |
| Supervision, `A/manager.py` | pid files of runner and supervisor, heartbeat age, restart count, backoff | run, supervise, start, stop, ensure, status, health, reset | runner, operators' concurrent commands |
| Validation, `A/runner.py` `run_validations` | none | retries per command, fallbacks | task runner |
| Coordination, `A/distributed_coordinator.py` | lease file (holder, epoch, expiry), execution DAG and its saved file, policy rules | acquire, renew, release, fence, mark nodes, causal gate, save, load | event mesh, several coordinators over one file |
| Event mesh, `A/event_mesh.py` | subscriptions, bounded history, node registry, ledger file | publish, subscribe, register, heartbeat, append | coordinators, GitHub |
| Swarm, `A/swarm_orchestrator.py`, `A/network_status.py` | deferred queue, lane occupancy, cached network status | route, process deferred, enter and leave a lane, check | local models, clouds |
| RPA scheduler, `A/rpa_scheduler.py` | semaphore, next free time per domain, results | reserve slot, run job, retry | browser runner |
| Git operations, `A/gitops.py` | none of its own (the pull request is remote) | wait for checks, merge, close, swarm cycle | GitHub through `gh` |
| Health gates, `A/swarm_health_gate.py` and others | reports | scoring | dashboards, CI |
| Autopilot cleanup, `A/autopilot_cleanup.py` | prompts table of another tool | find orphans, fail them | autopilot |
| Process watchdog, `scripts/process_watchdog.py` | last restart and counters per process, history | check, restart, record | cron, processes |
| Resilience scripts, `scripts/resilience/` | lock file, last backup | backup, restore, encrypt | cron |
| CASS kernel gate, `tools/cass-kernel-gate` | policy, leases on disk and cached, audit log, activation report | decide, load and revoke leases, activate | endpoint security, control app |
| the rest | nothing that outlives a call | routing probes, dashboards, reports, the command line | |

What is hard, and what makes each part correct:

* **Task runner.** It may die between any two writes, and three copies of the
  book must still agree on who did what. A task must not run before its
  dependencies, must not be lost, must not run again for free, and must not be
  blocked early. "Nothing is ready" means wait or give up, and taking one for
  the other either kills the run or spins. Caps are tested once per cycle. Exit
  codes drive the supervisor, so they must be true.
* **Lock and supervision.** Check-then-act on files by concurrent commands, a
  zombie that looks alive, a heartbeat left by the previous process. One runner
  at a time, a dead runner restarted, a stop which leaves nothing running.
* **Coordination.** Read-decide-write on a lease file; epochs which must never
  be used twice; an operation outliving its lease; a DAG restored with nodes
  nobody runs.
* **Event mesh.** Lost appends, handlers which publish, bounded history.
* **Swarm.** A queue consumed while it grows, a stale network status, a
  conversion between an enum and its name.
* **RPA scheduler.** Domain spacing and concurrency bound under threads, a
  runner which raises.
* **Git operations.** Checks read before the merge may belong to another commit.
* **Cleanup, watchdog, backup.** Check in one transaction, act in another;
  overlapping cron runs.
* **CASS.** Leases cached across a change of time, three critical sections
  where one was meant.

`PROJECT.json` lists each of these under `hazards`, at the line where it bites,
with the properties which would catch it.

## 2. The task runner

```
TaskBook          a task book as a value: loading, selection, backoff, entry updates
  TaskRunner      one runner process: loop, three copies of the book, kills, restarts
    TaskRunnerProofs   invariants proved for every value of the constants
      StateFileProofs    the files, budgets, attempts and exit codes, and that
                         TaskRunner implements TaskBoard
    MCTaskRunner       the instances TLC checks
TaskBoard         what the state file promises, without runner, memory or checkpoint
```

**Correspondence.** `mem`, `disk` and `ckpt` are `main`'s `state`, the state
file and the checkpoint. `pc` and `then` are the position in `main`: the loop's
head (`cycle`), between the claim and the agent call (`agent`), between the
agent's answer and the verdict (`decide`), and the three moments of
`persist` -- before the atomic replacement of the state file (`save`), before
`write_checkpoint` truncates the checkpoint (`truncate`), before its new text
is there (`write`). `cycle`, `tokens`, `retries`, `overtime` are the loop
counter and the budget totals, `exit` the return code of the last run.

| action | code |
|---|---|
| `Start`, `StartFails` | load, resume, first `persist`; a resume without a readable checkpoint |
| `SaveState`, `TruncateCheckpoint`, `WriteCheckpoint` | `persist` |
| `OutOfCycles`, `StopOverBudget`, `FinishAll`, `Idle`, `Stall` | the ways the head of the loop does not pick a task; exits 3, 4, 0, sleep, 2 |
| `SelectTask` | `select_next_task` and the claim |
| `SkipDryRun`, `RunAgent` | dry run; agent, usage, validation and delivery signals |
| `RetryTransient`, `RetryAttempt`, `GiveUp`, `Complete` | the verdict: `schedule_retry` with and without backoff, `mark_blocked`, done |
| `Kill` | SIGKILL, an unhandled SIGTERM, power loss, an exception, anywhere |
| `Tick`, `RunTooLong` | time |

Abstractions. `not_before` is the number of ticks left, so time passing is
subtraction and needs no clock. An agent's answer is a status, whether its
failure text is retryable, how validation came out (`passed`; `failed`;
`quiet`, a command which fails without output) and the delivery signals as
booleans. `transient` stands for `is_retryable_error`. `Deps` may name tasks which are not in
the tasks file (`Ids` without `Tasks`), because `load_tasks` does not check
`depends_on`; such a dependency is never done. All runs use one run id,
so there is one checkpoint file, as when `ORXAQ_AUTONOMY_RUN_ID` is set. At most
one runner lives: what ensures it, and when it does not, is section 3.

**Properties.** Each is commented where it is defined.

* `DependenciesFirst`: in no copy of the book has a task been attempted while
  one of its dependencies is not done, however often runs are killed or resumed.
* `PersistedBeforeActing`: one task in progress, and its claim on disk and in
  the checkpoint before its agent runs.
* `CheckpointLag`: a whole checkpoint and the state file differ in one task at
  most.
* `BlockedOnlyWhenSpent`, `AttemptsPaidFor`: never blocked before
  `max_attempts`; each attempt beyond it is paid for by a retryable failure or by a
  start which found the task in progress (`requeued`), and by nothing else: the
  retry of an unmet contract, which no total counts, is held by `max_attempts` too.
* `BoundedOvershoot`: the totals pass their caps by one cycle at most.
* `ExitCodeTruth`: what each exit code says is true of the files left behind. A
  stalled run has a blocked task or one which waits for a task that is missing: then
  it exits with 2, which is documented as blocked, although nothing is blocked.
* `DoneIsFinal`: done stays done on disk unless a run resumes from a checkpoint.
* `RunsEnd`: every run ends, provided that `run_command` returns or somebody kills the
  runner: after a timeout it waits for the pipes of what it has killed, for ever if
  need be (`runner.py:632`). What then notices is in section 3.
* `StateFileIsBoard`: the state file refines `TaskBoard`: claims are exclusive
  and counted once, done and blocked are final.

## 3. The lock and the service around the runner

```
RunnerLock         the lock file: acquire and release, one file operation at a time
  RunnerLockProofs   its invariant, for any number of processes
  Lifecycle          supervisors, commands, pid files, heartbeat, zombies, faults
    LifecycleProofs    it uses the lock as RunnerLock allows; what a supervisor promises
    MCLifecycle
```

**RunnerLock.** `lockFile` is the process which created the file now on disk,
`written` the processes which got as far as writing their pid into theirs: a
file whose creator has not is empty and reads as no pid. `at` is where each
process is, between any two file operations of `acquire`, at work, or ended;
`seen` the pid it has read. A dead process answers signal 0 until it is in
`reaped`. `overlapped` is a history variable: two processes have been between
the first and the last step of `acquire` at once. Before `acquire` a runner writes its
pid file (`boot`, `sign`), which is `Lifecycle`'s.

**Lifecycle** adds what `manager.py` keeps. `supPid` and `runPid` are the pid
files, `Blank` while they are empty: `_write_pid` opens, which empties the file, and
then writes, in two steps of whoever writes (`Filled` is the second; where the file was
unlinked in between, nothing of it is left), and `_read_pid` takes an empty file for
none (`ReadSup`). `hbBy` and `hbStale` say who wrote the heartbeat file last and whether
`heartbeat_stale_sec` have passed since; `svAt`, `child`, `restarts` are the
position and locals of each `supervise_foreground`; `cmd` the position of each
command and the pids it has read. `crossed` is a history variable like
`overlapped`, for commands; `blind` is another: a command has read the emptied pid
file of a live supervisor (`Blinded`). `hung` holds runners whose agent command does not
end; they keep their lock and write no heartbeat.

| action | code |
|---|---|
| `Look`, `Read`, `Refuse`, `FindStale`, `Unlink`, `Create`, `Write` | `RunnerLock.acquire`, in its order |
| `Return`, `Release` | `main` returns; `release`, which `atexit` runs later |
| `Boot`, `RunnerRun` | `run_foreground` around `main`: the runner's pid file, opened and filled, and unlinked when `main` returns, also when the lock is refused |
| `Supervise`, `Launch`, `Record`, `Judge`, `Terminate`, `Wait`, `Leave` | `supervise_foreground`: pid (two steps), `Popen`, runner's pid (two steps), the heartbeat loop, `_terminate_pid`, `wait` and the return code, `finally` |
| `StartCheck`, `Spawn`, `SavePid` | `start_background` |
| `Ensure`, `Inspect`, `StopRunner` | `ensure_background` |
| `StopReadSup`, `StopReadRun`, `StopSup`, `StopRunner`, `StopUnlink` | `stop_background` |
| `RunForeground` | the command `run`, from a shell |
| `Hang`, `CrashRunner`, `CrashSupervisor` | faults, at most `MaxFaults` of `FaultKinds` |

The loop condition of the supervisor, `_pid_running(child.pid)`, is not in the
model because it is always true: the child remains a zombie, and answers, until
the supervisor waits for it after the loop. All that ends the loop is a stale
heartbeat, so a runner which has completed is noticed only when its last
heartbeat has grown old. Processes not yet created are interchangeable
(`Fresh`), so that pids are given out in one order.

**Properties.**

* `OneRunnerIfSerial`: two runners work at once only after two acquisitions
  overlapped, whoever was killed before. `LockLeftOnlyByKill`: only a killed
  runner leaves its lock file behind.
* `OneSupervisor`, `StopEnds`: as long as commands do not overlap, and none reads the
  file of a live supervisor while it is being written, there is one supervisor at most,
  and none after a stop, at whatever step the stop hit it.
* `SupervisionSound`, besides the types: a supervisor by itself never makes
  acquisitions overlap; it takes one of those two, a killed supervisor or a
  `run` (`Disturbed`).
* `RunnerReachable`: in a service nothing has disturbed, the runner's pid file names
  the runner which is watched, over any number of restarts, but for the moments at which
  the supervisor or the runner writes it. A `stop` or `ensure` which reads it at one of
  those leaves the runner alive.
* `CompletedNotRestarted`, `HealthyNotTerminated`: a runner which completed is not
  restarted, and one which has written a heartbeat of its own and goes on is not
  terminated, although each is decided from a file which any runner may have written.
* `DeadRunnerNoticed`: once there is a heartbeat file, no exit goes unnoticed.

Two things the properties have to leave room for, because the code does them. The
supervisor writes its own pid when it boots, after `start` has returned
(`manager.py:724`, `801`): a command which comes just then sees an empty file, and an
`ensure` starts a second supervisor although no two commands overlapped
(`docs/autonomy-halt-mitigation.md:36` has it restart a service "if stopped or stale").
And nothing resets the heartbeat file when a runner is launched: after an exit which was
noticed by its stale heartbeat, the next runner has one poll interval
(`manager.py:744`) to write its first, or is terminated for its predecessor's, as is
the one after it, up to the last restart.

## 4. The distributed coordinator

```
FileLease          FileLease and EpochFence of distributed_coordinator.py
ExecutionDAG       ExecutionDAG, its state file, crashes and restores
CoordinationProofs their invariants, for any number of coordinators and every graph
MCCoordination     both, one at a time
```

**FileLease.** `file` is what the lease file says and `live` whether its expiry lies ahead;
a missing file and a truncated one are the same value, `Blank`, because both
read as `{}`. Each coordinator is at one place (`doing`) between reading the file and
having changed it, with the text it is going to write in `data`; `epoch` is its
lease object's `_epoch`, 0 after a restart. The record also counts acquisitions
(`nth`), which the code does not: it says which of two grants is the later one.
`overlapped` and `forgotten` are history variables: an operation has read the
file while another was changing it; a release, or a crash between truncating and
writing, has left a file without an epoch.

| action | code |
|---|---|
| `AcquireLease`, `Renew`, `ReleaseLease` | the read and the decision of each operation |
| `Truncate`, `WriteLease`, `UnlinkLease` | `_write`, `unlink` |
| `Pass`, `Execute` | `fenced_execute`: `validate_epoch`, then `fn` |
| `Expire`, `Crash`, `Restart` | time; a process ends at any step; a new one |

Operations present any epoch that has been given out to their coordinator, however
long ago. Nothing in the repository calls these classes but their tests, so a
coordinator here is any caller which uses one lease object from one thread, with
a holder name of its own.

* `EpochsIncrease`: acquisitions never get the same or a smaller epoch again.
* `OnlyLatestPasses`: the fence passes operations of the latest grant only,
  although it compares the epoch with its own object's and not the file's.
* `LiveLeaseKept`: nobody is about to overwrite or unlink somebody else's
  unexpired lease.
* `LeaseReclaimed`: the lease of a leader which stays down is taken over.

The first three hold unless operations overlap, the first two also unless the
file is lost: those are the two assumptions a caller has to provide. `release`
itself breaks the second: the epoch is nowhere but in the file it unlinks
(`distributed_coordinator.py:119`), so after a release epochs start at 1 again,
and an operation which presents the epoch of a first term passes in a later one,
although the docstring of `fenced_execute` says that a stale epoch is rejected.

**ExecutionDAG.** `dag` is the graph in memory, `saved` what its file holds
(`Torn` when a save was cut short, `None` without a file), `working` what the
coordinator executes. It starts what `ready_nodes` offers and
`check_causal_gate` passes, records the end of each node, saves whenever it
likes, and dies anywhere; a restart loads what was saved. A dependency may name
a node which does not exist, which the code treats as pending for ever.
`orphans` are the nodes a load found running: nothing in the code ever takes
them up again.

* `DagSound`: in memory and in the file, a node has been started only with
  everything it waits for done; and when nothing is left to do the graph is
  complete, or waits behind a failed, an orphaned or a missing node.
* `ReplaySafe`: a node the file has as started is not started again.
* `DagSettles`: a coordinator which stays up comes to an end with the graph.

## 5. The event mesh

`MeshLedger`: coordinators with a bus and a node registry each, and one ledger
file. `publish` calls its handlers before it returns, so an event and the read of
the ledger by its handler are one step (`Record`); the append then opens, which empties
the file, and writes (`stage`, `draft`). A ledger which cannot be read is the empty list,
as in `GitHubLedger.read`, also where the read fails for another reason (an `OSError`):
the append then writes a ledger of its own entry alone. `publish` swallows an append's
own `OSError`. Entries tell the event's id, the node and the action, as `LedgerEntry`
does, and not which coordinator wrote them; any event may also be emitted by hand, joins
and leaves of nodes that nobody has registered among them (`Emit`).

`crossed`, `spoiled`, `lossy`, `speakers` and `forged` are history variables: an append
has overlapped another one or a clear; a read has failed or a write was cut short; which
coordinators have crashed or lost an append; who has registered or deregistered a node;
of which nodes a join or leave was emitted by hand. `appended` is what has been appended,
until crossed or spoiled; what the file holds after appends which cross is not modelled
byte by byte, it reads as the last whole text or as nothing.

* `LedgerSound`: as long as appends do not overlap, no read fails and none is cut short,
  the ledger is the last `max_entries` entries whose append has returned; whatever
  overlaps or fails, the entries of the events which a coordinator's history still holds
  stand in the order of the events, and none is there twice; and without faults, until
  entries are dropped, the ledger tells whether a node is registered, provided that one
  coordinator alone registers and deregisters it and nobody forges its events. Since an
  entry does not name its coordinator, no more can be read from it.

Appends which do overlap lose entries; nothing in the code prevents that. The heartbeats
of nodes and what derives from them (active, stale) are readers of a clock and not in the
model.

## 6. The swarm orchestrator

`Swarm`: `route`, `process_deferred` and `status_snapshot` over the cached
network status of `network_status.py` and LM Studio's inventory. `place` is where
the orchestrator is: probing the endpoints one by one (`probe`), before the health
check (`health`), before the decision (`decide`), at the gate of a pass (`gate`)
or between two entries of one (`pass`). The world, `up` and `lm`, changes between
any two calls. `Str` is what `str()` makes of a member of `RoutingTier`, its
qualified name: the candidates the loop goes through equal no tier, so that all
that is ever selected is the last resort, `L1`, and lane occupancy counts under
names no candidate has. The loop and the lanes are modelled all the same, as what
they do.

* `QueueSound`: no task given to `route` is lost, although a pass replaces the
  queue it walks through while `route` appends to it; and none is routed twice
  unless a pass refused one entry of it and routed another. That happens: a
  refused entry is appended to the list the pass iterates over, is tried again in
  the same pass, may be routed then, and is kept all the same.
* `CachedStatusRecent`: a status from the cache counts only endpoints which
  answered less than a TTL ago.
* `PassEnds`: if LM Studio comes back for good, the orchestrator becomes idle. A
  pass by itself need not end: while nothing can be routed every entry is
  appended again to the list it iterates over.

The queue is in memory only: with its process every deferred task is gone.

## 7. Health

`HealthGate` is `run_health_gate` over everything its inputs can be: reports of
two tools or none, or of no provider at all, required providers up and down, tasks at
work, a heartbeat that ages or is lost, limits that are used up, and a runner's state and
budget which are given or not (`supplied`). `Meters` are the limits whose excess is a
violation, the retry cap among them; `Scored` are those the budget score reads. Scores are hundredths, and `Round` is the code's
rounding; on 20000 random inputs the operators and the Python functions gave the
same numbers. `HealthMonitor` is `CollaborationHealthMonitor`: its five detectors,
the score and grade they come to, and the remediation tasks.

* `GatePassMeans`: what a passed gate guarantees of each input which was given, the
  weights and the marks for missing inputs notwithstanding, and what it leaves possible
  where nothing is known of the providers. Of a state or a budget which was not given it
  guarantees nothing: each scores full marks. All up to what the scores' rounding to
  hundredths hides: with seven thousand tasks and no report one undone task still passes,
  and "half of the tasks" means 49.985 %. With the few tasks TLC tries the exact shares
  hold as well; the attempt to prove them for any number showed that they do not.
* `WorseNeverScoresHigher`: no change for the worse, the loss of any of the four inputs
  among them, raises the gate's score or opens it, but for the four losses which
  `LossHelps` names: a report which scored less than the 50 a missing one does or which
  told of a required provider that is down, a state or a budget below the 100 of a missing
  one, a heartbeat below 50. Each of the four does occur.
* `GradeMatchesRemedies`: the grade, which comes from penalties, and the
  remediation tasks, which come from severities, tell the same.

What the model shows besides: a report of `providers-check` already counts the
required providers which are up, and `parse_connectivity_report` takes those which
are down off once more (`swarm_health_gate.py:334`). Without a report the
provider gate is skipped, and the composite is 85.0 at most, the very bound of the
gate. `swarm_health.json` nests its score where `read_swarm_health_score` of
`gitops.py` does not look. `detect_budget_issues` reads `total_cost_usd` and
`limit_usd`, which the runner's budget report does not have.

## 8. The RPA scheduler

`RpaScheduler`: one thread per job, step by step where threads can interleave:
reserve a slot of the domain (`slot`), take the semaphore (`acquire`), count
oneself (`enter`), run, count oneself out and release, read and write the shared
tally, judge. Times are ticks left or ticks gone by. `lag` is a history variable:
how long ago a thread which waits for the semaphore has reserved its slot.

* `CapHeld`: the semaphore's cap holds, the reported peak is below it, and no
  permit is lost, although a runner may raise at any attempt.
* `RpaSound`: starts in a domain are an interval apart less the time one of the
  two has waited for the semaphore; the report's verdict and counts are true, job
  by job, up to the counters that two jobs with one id share without a lock; and a
  job fails only after all its attempts, unless its runner raised: that attempt is
  neither retried nor recorded, because the exception ends its thread.

## 9. Pull requests

`PullRequest`: `pr-open`, `pr-wait` and `pr-merge`, each at any moment of the
other two, against pushes, CI, people and the writer of the health file. A request
to GitHub goes through `gh` and, when that fails, through the API; each try is
answered, refused, or takes effect and is reported as failed. The API's status is two
requests, the request and then the statuses of the head it had (`got` is what the first
has returned); a push in between makes them those of a head which is no longer the
request's (`OfOldHead`). `moved` and `hidden`
are history variables about what `pr-merge` has read: what changed afterwards, and
whether the read did not show a check which had not passed, or showed those of an old head.

* `CommandsSound`: a wait stops a request only after polls which justify it, all
  attempts or a row of failures; a command which reports success tells the truth.
* `IssueAfterClose`: an issue is filed only about a request which is no longer
  open, where it was to be closed.
* `MergedByPolicy`: what is merged has a high score and is green, up to `moved` and
  `hidden`.

Known and modelled: commit statuses have no conclusion, so through `gh` they are
pending for ever; the API path sees nothing but commit statuses, and an empty list
is green; a wait which times out closes the request whatever its last look has
shown; the API path does not delete the branch but reports that it does. A retry
through the API after a `gh` which took effect may open a second issue.

## 10. Watchdog and cleanup

`Watchdog`: `process_watchdog.py` for one process of any configuration. Pids are
numbers which are used again; `conf` says whether there is a pid file, a pid in the
configuration, a command pattern, a health check, a detached restart command. The pid
looked for is the pid file's, else the configured one, else the one the last run has
written down. A run (`run[w]`) reads the
state file, looks, restarts perhaps, looks again, truncates and fills the state
file; runs overlap and are killed. `excuse` and `gap` are history variables: runs
overlapped or a record was lost since the last restart (with a run which was killed after
it had restarted and before it had recorded it, or with a torn file), and how long ago the
run which made it has started.

* `RestartsJustified`: restarts are a cooldown apart, and a service whose pid file
  names it is left alone, with exactly those excuses.
* `RestartTried`: a service which stays down is restarted again and again, unless
  the state file stays torn.

Known and modelled: a torn state file ends every later run with a `ValueError`; two
overlapping runs both restart; without a pid file the remembered or configured pid
shadows the one just spawned, so a restart which worked is recorded as `restart_failed`,
and another service is spawned after each cooldown, with a configured pid for ever.

`AutopilotCleanup`: the rows of the autopilot's table, the autopilot, and cleanups
which read in one connection and update in another. `found[c]` is what cleaner `c`
has read; `finished[c]`, a history variable, what of it the autopilot has finished
since.

* `OnlyOrphansFailed`: only rows which have run too long are failed, by a cleaner
  which has read them so, and a result of the autopilot is overwritten only by one
  whose two connections it came between.

## 11. Runs

Where a run's module holds several systems, its initial states choose one of them
and the others stay as they are: the behaviours are those of each system by
itself, checked in one go.

| run | instance | what it shows |
|---|---|---|
| `runner_resume` | a gemini task depending on a codex task; 3 runs, with and without `--resume` and `--dry-run`; 2 attempts, 1 retryable failure, retry and token caps of 1 | the safety properties of the runner and `DoneIsFinal` |
| `runner_board` | four tasks, both owners, one of them waiting for a task which is missing, 2 runs which do not resume | `AttemptsPaidFor`, `RunsEnd`, `ExitCodeTruth` where nothing is blocked, refinement of `TaskBoard` |
| `service_commands` | one each of start, ensure, stop and run, overlapping freely, two supervisors, one runner, a supervisor which may crash | `OneSupervisor`, `StopEnds` |
| `service_supervise` | one supervisor, three runners which fail, two faults, start and ensure | what a supervisor promises |
| `service_first_failure` | one supervisor, a runner which fails at once | finding: without a heartbeat file its exit is never noticed |
| `coordination` | two coordinators, acquisitions, renewals, releases, expiries, crashes; a graph of four nodes with a chain and a causal gate, two crashes; three jobs of one domain, two browsers, with and without a shared id | sections 4 and 8 |
| `interleavings` | runner processes killed anywhere; two coordinators over one ledger; a check run and a commit status, three polls | the properties of the lock, of the mesh and of the pull requests |
| `lock_exclusive` | two runner processes | finding: the second takes the first one's lock file, still empty, for a stale one |
| `gitops_green` | a check run and a commit status | finding: a request is merged whose check has failed |
| `processes` | two runs of the watchdog, five configurations, two pids, a cooldown; two rows and two cleanups | section 10 |
| `swarm` | two tasks, two endpoints, a retry, two passes; three providers, two tasks, two limits; three lanes | sections 6 and 7 |
| `swarm_cloud` | one task | finding: with the network online it is deferred |

The findings are in `PROJECT.json`, each with the line of code and the line of
documentation it contradicts. Six divergences more are described here and are not
runs, the two of section 3 among them. The contract-unmet retry is not counted as a retry event
(`runner.py:1582`), so the cap of `--max-total-retries` (README.md:97) does not
see it. A validation command which keeps failing without output counts as passed
(`runner.py:669-673`). `ensure` starts a supervisor without looking at a runner
which outlived the last one, so a hung orphan keeps the lock (`manager.py:857`).
And a release makes old epochs pass again, as section 4 says.

Why the bounds are enough. Two tasks are enough to set a dependency against its
dependent, three to have both owners compete, a fourth to wait for one which is missing; two attempts
separate "first", "last allowed" and "one too many"; three runs let a run be
interrupted, resumed, and its result be resumed again. Backoffs of one and two
ticks with sleeps of one let a task cool down while another runs. The number of
runs and `max_cycles` bound every counter, so no other state constraint is used.
For the lock, the race needs two processes and a killed one to leave a stale file
(what more do is proved). For the service, three runners give a first one which
crashes, a second which hangs and a third which completes, with `MaxRestarts` no
larger than the runners there are, so that no launch waits for a process the
instance does not have; in `service_commands`, where no temporal property needs
restarts, one runner and two supervisors suffice because `OneSupervisor` is about
supervisors. `FaultKinds` and `Overlap` narrow the scenarios of
the findings to the faults they are about. For the lease, each of two coordinators
leads twice, with a crash, a release and an expiry in between. For the graph, a
chain of three whose last node has a gate besides has every way to wait. Three
jobs exceed two browsers and let the waiting one be overtaken; two of them share
an id in half of the initial states. Three polls and a threshold of two have a row
of failures, a broken row and a timeout. Three events with room for two
let the ledger and the history overflow. Two endpoints are all of offline, degraded and online; a
TTL of two and a queue of two let a snapshot age in a pass and a pass refuse and
route the same task. Levels of 7, 8, 10 and 11 tenths lie on both sides of every
limit of the budget score. In `Watchdog`, ages saturate at `Cooldown + MaxRan`,
runs overlap for less than a tick, and a pid is used again only if somebody
remembers it. The largest instances have some 3.8 million states
(`service_commands`), 1.9 million (`interleavings`) and 1.0 million (`swarm`,
`runner_resume`); each run takes TLC between half a minute and three and a half.
`CHECK_DEADLOCK FALSE` is right: when the last run, thread or
command has ended, nothing is left to happen.

**Fairness.** `WF_vars(RunnerStep \/ Kill)`: a live runner goes on, because
agents and validation commands run under timeouts and sleeps end; and when a
command hangs it in spite of its timeout (its children keep the pipes open), which the
code does not prevent, somebody kills it: that is an assumption about the operator or the
supervisor, who sees a stale heartbeat then (`Hang` of `Lifecycle`). Nothing is assumed of starts, of the clock, or of which of
an agent's answers is given.

In `Lifecycle`: live processes which do not hang go on (`RunnerRun`,
`Heartbeat`, `SvStep`, `CmdStep`), because every step is a system call or a
bounded sleep and a run ends (`RunsEnd`); the stale age passes (`Silence`); init
waits for orphans (`ReapOrphan`). Commands and faults are never forced.

In `FileLease`: an operation once begun ends, the ttl passes, and coordinators go
on trying to acquire (`SF_vars(AcquireLease(p))`), which is a duty of the caller.
In `ExecutionDAG`: a coordinator which is up goes on, and one which can be
restarted is. In `Swarm`: every call the orchestrator makes has a timeout. In
`Watchdog`: cron starts runs again and again, a run goes on until it is killed,
and time passes (strongly fair, because the bounds of the model disable `Tick`
now and then).

## 12. Proofs

Every safety property a passing run checks, invariant or action property, is a
theorem too: the run shows it on its instance, the theorem for every value of the
constants. Two are theorems only, `LockLeftOnlyByKill` and `IssueAfterClose`. Eight
modules hold the proofs.

| module | about | theorems |
|---|---|---|
| `TaskRunnerProofs` | `TaskRunner` | `TypeCorrect`, `DependenciesFirstHolds`, `PersistedBeforeActingHolds`, `BlockedOnlyWhenSpentHolds` |
| `StateFileProofs` | `TaskRunner`, `TaskBoard` | `CheckpointLagHolds`, `DoneIsFinalHolds`, `BoundedOvershootHolds`, `AttemptsPaidForHolds`, `ExitCodeTruthHolds`, `StateFileIsBoardHolds` |
| `RunnerLockProofs` | `RunnerLock` | `LockTypeCorrect`, `OneRunnerIfSerialHolds`, `LockLeftOnlyByKillHolds` |
| `LifecycleProofs` | `Lifecycle` | `ServiceUsesLock`, `OneSupervisorHolds`, `SupervisionSoundHolds`, `ServiceRunsOne`, `StopEndsHolds`, `RunnerReachableHolds`, `CompletedNotRestartedHolds`, `HealthyNotTerminatedHolds` |
| `CoordinationProofs` | `FileLease`, `ExecutionDAG` | `TypeCorrect`, `EpochsIncreaseHolds`, `LiveLeaseKeptHolds`, `OnlyLatestPassesHolds`, `DagSoundHolds`, `ReplaySafeHolds` |
| `AutomationProofs` | `RpaScheduler`, `PullRequest`, `MeshLedger` | `CapHeldHolds`, `SpacedUpToLagHolds`, `RpaSoundHolds`, `MergedByPolicyHolds`, `IssueAfterCloseHolds`, `CommandsSoundHolds`, `LedgerSoundHolds` |
| `ProcessesProofs` | `Watchdog`, `AutopilotCleanup` | `RestartsJustifiedHolds`, `OnlyOrphansFailedHolds` |
| `SwarmProofs` | `Swarm`, `HealthGate`, `HealthMonitor` | `QueueSoundHolds`, `CachedStatusRecentHolds`, `GatePassMeansHolds`, `WorseNeverScoresHigherHolds`, `GradeMatchesRemediesHolds` |

**The task runner.** The invariant is `IInv == TypeOK /\ Sound(mem) /\ Sound(disk) /\
Sound(ckpt) /\ PlaceOK`. `Sound(book)` says that an attempted task has its
dependencies done, that a blocked one has its attempts, and that an in-progress one
was attempted; every copy needs it, because a start makes memory of either file. It
is preserved by loading, by time, by a claim and by each verdict: lemmas about
books, stated once. A verdict changes one entry and never makes a done task undone,
which is what keeps its dependents' entries sound. `PlaceOK` ties `pc` to the
copies: which task is in progress at each place, and that between two persists the
three copies are equal; without it nothing says that `task` is pending work when its
verdict is recorded. `StateFileProofs` builds on it:

* `CheckpointLagHolds`. That the files differ in one task at most is not inductive:
  a start recovers the task in progress of the file it loads and then claims another
  one. `LagInv` adds that a copy has one task in progress at most (`Single`), and
  that a whole checkpoint differs from the state file and from memory in at most
  that one (`Near`); recovery then changes only what already differed.
* `DoneIsFinalHolds`, from `KeepsDone`: memory of a run which did not resume has
  every done task of the state file.
* `BoundedOvershootHolds`, from `UnderCaps`: a task is picked under the caps, and its
  cycle adds one agent call and one retry.
* `AttemptsPaidForHolds`, assuming `DryModes = {FALSE}`, from `PaidInv`: what the
  runner may still claim must be paid for before the claim, by `max_attempts`, a
  retryable failure or a start which requeues. Dry runs are excluded because each counts an attempt and pays for
  none.
* `ExitCodeTruthHolds`, assuming `AcyclicDeps`. `CodeInv` carries what the loop found
  out when it chose the code (`Told`) through the three writes of the last `persist`,
  where the code is set but not yet returned, to the files of a run which is off, and
  through time, which changes only delays. That something is blocked when nothing can
  run, or waits for a missing task, follows by taking, from the unfinished tasks, one
  which depends on none of them; with a cycle it is false, because the runner does not
  look for cycles.
* `StateFileIsBoardHolds`, assuming `ResumeModes = {FALSE}` (a resume may take a done
  task back, which the board does not do). `Follows` says that a book comes from
  another by one board step or none, and `BoardInv` that what is about to be saved
  follows the state file: a verdict or a claim because the files agreed with memory
  before it, a load because one task at most was in progress (`Single`).

**The lock.** The invariant is

    LockInv == LockTypeOK /\ reaped \subseteq Ended /\ LockLeftOnlyByKill
               /\ (~overlapped => Serial)

where `Serial` says what holds while acquisitions have not overlapped: one process
at most acquires, one at most holds, the holder's file is the one on disk with its
pid in it, and whoever has got past the check has found no live holder. That last
part is what makes `Unlink` harmless; it is exactly what two overlapping
acquisitions break.

**The service** contains the lock and does more with it: it starts and kills runners.
`ServiceUsesLock`, `Spec => LockSpec`, says that each of its steps is one of the lock
or leaves the lock's variables alone, so `LockInv` holds in it too. The rest of

    ServiceInv == TypedInv /\ PidFileInv /\ WatchInv /\ ChildInv /\ ReachInv

* `PidFileInv`: until commands cross or one is blind, one is under way at most; the pid
  file names every live supervisor, or is empty because the supervisor or the command
  that started it is writing it, or is about to be written by that command; and what a command knows at each of its places (`Stage`) leaves no other.
  `OneSupervisor` alone says nothing of a supervisor whose pid is not written yet,
  or of one which is leaving. `StopEnds` follows from the same.
* `WatchInv`: a heartbeat is stale only if whoever wrote it is dead or hung, and a
  supervisor launches only if its child, if any, failed or was killed.
* `ReachInv`: unless disturbed, the runner's pid file is empty or names the child of the
  live supervisor from the moment the supervisor opens it, and names it once both have
  written; `RunnerReachable` is its second half.
* `ChildInv`: unless disturbed, every runner which lives is watched by a supervisor
  which lives. With `OneSupervisor` there is one such runner, so acquisitions do not
  overlap, and `ServiceRunsOne` follows from the lock's own theorem: unless commands
  overlapped or read an emptied pid file, a supervisor was killed or a runner was started
  from a shell, two runners never work at once, although the lock alone does not promise it.

**The coordinator.** The lease's invariant has three layers. `Owned` holds always:
what a coordinator writes is its own grant, and its lease object knows that grant's
epoch or none. `Alone` holds until operations overlap: one coordinator at a time
changes the file. `Ordered` holds until the file is lost as well: the file, or what
the one coordinator between truncating and writing is about to put there, is the
latest grant. The fence is right because of all three: `Owned` turns a match with the
lease object into a match with the file, `Ordered` makes that the latest grant, and
since no two grants share an epoch, the operation's.

For the graph, `DagSound` assumes `Acyclic`: every set of nodes has one which waits
for none of the set. In a graph with a cycle it is false, since the code does not look
for cycles. The invariant is `DInv == DagTypeOK /\ PrerequisitesDone /\ Held /\
FileBehind`. `Held`: what is at work is running, and what is running is at work or an
orphan. It makes `PrerequisitesDone` inductive: a node which ends was running, so
nothing which waits for it has started, even if it fails. `FileBehind`: what memory
has as pending the file has too; a start, which needs a pending node, is therefore one
the file does not know. `DagSound` follows by taking, from the nodes which are not
done, one which waits for none of them.

**The RPA scheduler.** For the cap, `active` is the number of threads that run, and
those have permits. For the spacing, `SInv` relates four clocks per domain: a
reservation which waits is as old as the last one or older, and so is that of the last
start; any two reservations are an interval apart. For the report, `ReportInv` says what each thread
has recorded so far, that an id of one job is counted as that job, and, since
the counters are increased without a lock, that neither a counter nor a value which a
thread has read and is about to increase exceeds what the jobs of that id have
recorded (`TallyBounded`): updates get lost, none is made up. Sums are cardinalities
of sets of pairs (`Units`), because a sum would need an induction.

**Pull requests.** What `pr-merge` knows of the score and the checks at each place
(`ScoreKnown`, `ChecksKnown`); that a wait comes to the issue through an answered close,
after which nobody opens the request again (`IssueDue`); and that attempt and streak
tell what the polls have seen (`PollsTell`): the streak counts exactly the last failed
polls (`Streaking`), so that a row is noticed at the poll which completes it; and `got` is
kept by all but who has asked (`GotTyped`).

**The ledger.** `MeshInv` has, besides the types: until appends cross, no read has failed
and none was cut short, the file is the tail of what was appended and a draft is that tail
with one entry more (`TailKept`); ids in the file and in every draft which a coordinator's
history still holds increase, and none is larger than what has been published, whatever
overlaps (`OrderKept`); and the registry of a coordinator which has lost nothing and speaks
of a node alone is what the entries, the one under way included, say (`RegistryTold`).
Lemmas on `LastN` and `Append` carry it.

**Watchdog and cleanup.** `Recorded` says that what a run or the state file remembers
of the last restart is no older than it; without an excuse runs do not overlap
(`OneRun`), so a run which has found the service cool and down (`Cooled`, `SeenDown`)
may still restart it. For the cleanup, `FoundOld`: what a cleaner has read was overdue,
and what has finished since is in its `finished`.

**The swarm.** `QueueInv == Typed /\ Placed /\ Told`. `Placed` says what is at hand at
each place and that the index of a pass lies in the queue. `NothingLost` is not
inductive, because the end of a pass throws the old queue away: `Handled` says that
every entry before the index is routed or kept. That nothing is routed twice
needs `Fresh1`: until a pass has relapsed, what is still to come has not been routed,
and what has been kept is still to come, since a refused entry was appended again; so a
pass which keeps anything can only end by a relapse. `StatusInv` adds that an endpoint
of the cached status answered no longer ago than the cache is old, or, during a probe,
than the probe has taken.

**The health gate and the monitor** have no history: their types are inductive, and the
rest is arithmetic about `Round`. Every bound is proved for the rounded quotient
from the exact one (`RoundAtLeast`, `RoundAtMost`) and back; `WorseNeverScoresHigher`
uses that rounding keeps the order of quotients (`RoundOrder`), also where a step for the
worse changes the divisor or loses an input, whose score is then a constant. The monitor's score is 100 less five costs, each of at
most one group of diagnoses (`Costs`), which `GradeTells` compares with their severities.

Assumptions of the proofs: the named `ASSUME`s of the modules, which TLC evaluates in
every run, and where said above `DryModes = {FALSE}`, `ResumeModes = {FALSE}`,
`AcyclicDeps`, `Acyclic`.

**Only model-checked:** the liveness properties `RunsEnd`, `DeadRunnerNoticed`,
`LeaseReclaimed`, `DagSettles`, `PassEnds` and `RestartTried`, and those of the runs which
show a violation. Liveness under fairness is beyond the prover. Not proved either: that
the operators `MonitorScore` and `Score` are the Python functions; that they are a
translation is for the reader to see, and random inputs agree.

## 13. Not modelled

Text: prompts, parsing of agents' answers, retryable patterns, reports. The
operator's `reset` command, which empties the state file by design. Healing of
git lock files. Of the service: `supervise` from a shell, `ensure_runtime`,
status and health snapshots (readers), keepalive installation, the length of
backoffs, reuse of pids by the operating system, a pid file that vanishes between
`_read_pid`'s look and its read, or is created anew by a third process between the two
steps of a writer. `run_validations` as a sequence of
commands: it is an outcome of `RunAgent`. `DMNPolicyEngine`, a first-match table, and
`CoordinatorObserver`, a log. Of the swarm: the contents of the cost ledger. Of
pull requests: repository detection, titles, bodies. Of the watchdog: several
processes in one run and its counters.

The resilience scripts, the CASS tools and app, the routers, the dashboard and
reports, the command line, profiles and versioning are not modelled: they are shell
around `cp`, `tar` and `openssl`, callbacks of macOS frameworks whose order this
repository does not define, or readers and writers without state of their own. Each
is listed in `PROJECT.json` with its reason, and so are the hazards they have.

## 14. What could come next

1. `Lifecycle` as a user of `RunnerLock` is proved; `TaskRunner` started and killed by
   `Lifecycle`, instead of by itself, would tie the two refinements together.
2. Proofs for the configurations left out above: `AttemptsPaidFor` with a separate
   count for dry runs, `StateFileIsBoard` with a board which knows resumes.
3. The backup script's lock and counters; several processes in one watchdog run.
4. The CASS lease cache, once the order of its callbacks is documented.
