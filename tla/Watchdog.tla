------------------------------ MODULE Watchdog ------------------------------
(***************************************************************************)
(* scripts/process_watchdog.py for one process of its configuration.  A    *)
(* run reads the state file, looks at the process, restarts it perhaps,    *)
(* and writes the state file at its end.  Runs may overlap and be killed;  *)
(* services die, and their pids are used again.                            *)
(*                                                                         *)
(* Pid 0 stands for none.  The statistics of the state file are left out.  *)
(***************************************************************************)
EXTENDS Integers, FiniteSets

CONSTANTS
  Runs,        \* runs of the watchdog which can overlap
  MaxPid,      \* pids are 1..MaxPid
  Cooldown,    \* restart_cooldown_sec, in ticks
  MaxRan,      \* bound: how many ticks a run takes
  Confs        \* what may be configured of the process: see Fields

Pids == 1..MaxPid

\* pid is the one which is written in the configuration itself, or none.
Fields == [pidFile : BOOLEAN, pid : Pids \cup {0}, match : BOOLEAN, check : BOOLEAN,
           detached : BOOLEAN, restart : BOOLEAN]

ASSUME WatchdogAssumption ==
  /\ IsFiniteSet(Runs) /\ MaxPid \in Nat \ {0} /\ Confs \subseteq Fields
  /\ Cooldown \in Nat /\ MaxRan \in Nat

VARIABLES
  conf,      \* the configuration of the process
  owner,     \* what runs under each pid: nothing, the service, something else
  pidFile,   \* what the service has written in it
  fresh,     \* services which have not written it yet
  file,      \* the state file: torn, last_pid, ticks since last_restart_ts
  run,       \* each run: where it is, what it knows (blind is history: at its look a
             \* service had not written its pid file)
  gap,       \* history: ticks since the run which restarted last has started
  excuse     \* history: since then runs overlapped or a record was lost

vars == <<conf, owner, pidFile, fresh, file, run, gap, excuse>>

Far == Cooldown + MaxRan
Later(n) == IF n < Far THEN n + 1 ELSE n

Idle == [at |-> "idle", lastPid |-> 0, since |-> Far, ran |-> 0, spawned |-> 0, ok |-> FALSE,
         blind |-> FALSE, status |-> ""]
Clean == [torn |-> FALSE, lastPid |-> 0, since |-> Far]

Init ==
  /\ conf \in Confs
  /\ \E up \in BOOLEAN :
       /\ owner = [p \in Pids |-> IF up /\ p = 1 THEN "service" ELSE "free"]
       /\ pidFile = IF up /\ conf.pidFile THEN 1 ELSE 0
  /\ fresh = {} /\ file = Clean /\ run = [w \in Runs |-> Idle]
  /\ gap = Far /\ excuse = FALSE

Live == {p \in Pids : owner[p] = "service"}
Up == Live # {}
Active == {w \in Runs : run[w].at # "idle"}

----------------------------------------------------------------------------
(* The machine.                                                             *)

\* The service writes its pid when it has come up.
WritePid(p) ==
  /\ conf.pidFile /\ p \in fresh
  /\ pidFile' = p /\ fresh' = fresh \ {p}
  /\ UNCHANGED <<conf, owner, file, run, gap, excuse>>

Exit(p) ==
  /\ owner[p] # "free"
  /\ owner' = [owner EXCEPT ![p] = "free"] /\ fresh' = fresh \ {p}
  /\ UNCHANGED <<conf, pidFile, file, run, gap, excuse>>

\* Another process gets a pid which is written somewhere; under any other it is of no account.
Reuse(p) ==
  /\ owner[p] = "free"
  /\ p \in {pidFile, conf.pid, file.lastPid} \cup {run[w].lastPid : w \in Runs}
  /\ owner' = [owner EXCEPT ![p] = "other"]
  /\ UNCHANGED <<conf, pidFile, fresh, file, run, gap, excuse>>

\* A bound: runs overlap for less than a tick.
Tick ==
  /\ Cardinality(Active) <= 1
  /\ \A w \in Active : run[w].ran < MaxRan
  /\ file' = [file EXCEPT !.since = Later(@)]
  /\ run' = [w \in Runs |-> IF w \in Active
                            THEN [run[w] EXCEPT !.since = Later(@), !.ran = @ + 1]
                            ELSE Idle]
  /\ gap' = Later(gap)
  /\ UNCHANGED <<conf, owner, pidFile, fresh, excuse>>

\* Someone removes a state file which cannot be read.
RemoveFile ==
  /\ file.torn /\ Active = {}
  /\ file' = Clean /\ excuse' = TRUE
  /\ UNCHANGED <<conf, owner, pidFile, fresh, run, gap>>

----------------------------------------------------------------------------
(* What a run sees.                                                         *)

\* Mutant: the pid file is asked last.
Resolve_FileLast(w) ==
  IF conf.pid # 0 THEN conf.pid ELSE IF run[w].lastPid # 0 THEN run[w].lastPid
  ELSE IF conf.pidFile THEN pidFile ELSE 0

\* _resolve_pid: the pid file, the configured pid, the remembered one.
Resolve(w) ==
  IF conf.pidFile /\ pidFile # 0 THEN pidFile
  ELSE IF conf.pid # 0 THEN conf.pid
  ELSE run[w].lastPid

\* _pid_running and _command_matches
Alive(p) == p # 0 /\ owner[p] # "free" /\ (conf.match => owner[p] = "service")

\* _run_check: it passes only if the service is there to answer, and may time out then.
Checks == IF conf.check THEN (IF Up THEN BOOLEAN ELSE {FALSE}) ELSE {TRUE}

\* A check which passes stands for a pid which is not found.
Healthy(p, checkOk) == checkOk /\ (Alive(p) \/ conf.check)

----------------------------------------------------------------------------
(* run_watchdog.                                                            *)

\* _load_json; a run which finds the file torn ends with a ValueError, and changes nothing.
Start(w) ==
  /\ run[w].at = "idle" /\ ~file.torn
  /\ run' = [run EXCEPT ![w] = [Idle EXCEPT !.at = "look", !.lastPid = file.lastPid, !.since = file.since]]
  /\ excuse' = (excuse \/ Active # {})
  /\ UNCHANGED <<conf, owner, pidFile, fresh, file, gap>>

Finish(w, status, p) ==
  [run EXCEPT ![w].at = "write", ![w].status = status, ![w].lastPid = p,
              ![w].spawned = 0, ![w].ok = FALSE]

\* Ticks from the last restart to the start of this run: now_ts - last_restart_ts.
SinceRestart(w) == run[w].since - run[w].ran
\* Mutant: a tick too early.
Cooling_Early(w) == SinceRestart(w) < Cooldown - 1
Cooling(w) == SinceRestart(w) < Cooldown

Inspect(w, checkOk) ==
  /\ run[w].at = "look"
  /\ LET p == Resolve(w)
     IN  run' = IF Healthy(p, checkOk) THEN Finish(w, "healthy", p)
                ELSE IF ~conf.restart THEN Finish(w, "down_no_restart", p)
                ELSE IF Cooling(w) THEN Finish(w, "down_cooldown", p)
                ELSE [run EXCEPT ![w].at = "restart", ![w].blind = fresh # {}]
  /\ UNCHANGED <<conf, owner, pidFile, fresh, file, gap, excuse>>

\* What the restart command can do: one which is detached spawns the service or fails to,
\* the other starts it if it is not up, and may fail or time out either way.
Spawns(p, ok) ==
  IF conf.detached THEN ok = (p # 0) ELSE (p # 0 => ~Up)

Restart(w, p, ok) ==
  /\ run[w].at = "restart"
  /\ p # 0 => owner[p] = "free"
  /\ Spawns(p, ok)
  /\ owner' = IF p = 0 THEN owner ELSE [owner EXCEPT ![p] = "service"]
  /\ fresh' = IF p # 0 /\ conf.pidFile THEN fresh \cup {p} ELSE fresh
  /\ run' = [run EXCEPT ![w].at = "after", ![w].since = run[w].ran, ![w].ok = ok,
                        ![w].blind = FALSE,
                        ![w].spawned = IF conf.detached THEN p ELSE 0]
  /\ gap' = run[w].ran /\ excuse' = (Active # {w})
  /\ UNCHANGED <<conf, pidFile, file>>

\* After the grace period; a pid which is configured or remembered comes before the one
\* just spawned.
InspectAgain(w, checkOk) ==
  /\ run[w].at = "after"
  /\ LET p == IF Resolve(w) = 0 THEN run[w].spawned ELSE Resolve(w)
         won == run[w].ok /\ Healthy(p, checkOk)
     IN  run' = Finish(w, IF won THEN "restarted" ELSE "restart_failed", p)
  /\ UNCHANGED <<conf, owner, pidFile, fresh, file, gap, excuse>>

\* _write_json: opening the file empties it.
Truncate(w) ==
  /\ run[w].at = "write"
  /\ file' = [file EXCEPT !.torn = TRUE]
  /\ run' = [run EXCEPT ![w].at = "fill", ![w].status = ""]
  /\ UNCHANGED <<conf, owner, pidFile, fresh, gap, excuse>>

\* Mutant: every run stamps the file with the time it writes it.
Fill_Stamped(w) ==
  /\ run[w].at = "fill"
  /\ file' = [torn |-> FALSE, lastPid |-> run[w].lastPid, since |-> 0]
  /\ run' = [run EXCEPT ![w] = Idle]
  /\ UNCHANGED <<conf, owner, pidFile, fresh, gap, excuse>>

Fill(w) ==
  /\ run[w].at = "fill"
  /\ file' = [torn |-> FALSE, lastPid |-> run[w].lastPid, since |-> run[w].since]
  /\ run' = [run EXCEPT ![w] = Idle]
  /\ UNCHANGED <<conf, owner, pidFile, fresh, gap, excuse>>

\* The record of a restart is lost with a run which has made one and has not begun to
\* write; one which was writing leaves the file torn.
Unrecorded(r) ==
  r.at = "after" \/ (r.at = "write" /\ r.status \in {"restarted", "restart_failed"})

KillRun(w) ==
  /\ w \in Active
  /\ run' = [run EXCEPT ![w] = Idle]
  /\ excuse' = (excuse \/ Unrecorded(run[w]))
  /\ UNCHANGED <<conf, owner, pidFile, fresh, file, gap>>

Step(w) ==
  \/ Start(w) \/ Truncate(w) \/ Fill(w)
  \/ \E checkOk \in Checks : Inspect(w, checkOk) \/ InspectAgain(w, checkOk)
  \/ \E p \in Pids \cup {0}, ok \in BOOLEAN : Restart(w, p, ok)

Next ==
  \/ Tick \/ RemoveFile
  \/ \E p \in Pids : WritePid(p) \/ Exit(p) \/ Reuse(p)
  \/ \E w \in Runs : Step(w) \/ KillRun(w)

\* Time passes, whatever the bounds of Tick; the watchdog is run again and again, and a
\* run which is not killed goes on.
Spec == Init /\ [][Next]_vars /\ SF_vars(Tick) /\ \A w \in Runs : WF_vars(Step(w))

----------------------------------------------------------------------------
(* Properties.                                                              *)

Restarting(w) == run[w].at = "restart" /\ run'[w].at = "after"

\* Every variable keeps its type.
TypeOK ==
  /\ conf \in Confs /\ owner \in [Pids -> {"free", "service", "other"}]
  /\ pidFile \in Pids \cup {0} /\ fresh \subseteq Live
  /\ file \in [torn : BOOLEAN, lastPid : Pids \cup {0}, since : 0..Far]
  /\ run \in [Runs -> [at : {"idle", "look", "restart", "after", "write", "fill"},
                       lastPid : Pids \cup {0}, since : 0..Far, ran : 0..MaxRan,
                       spawned : Pids \cup {0}, ok : BOOLEAN, blind : BOOLEAN,
                       status : {"", "healthy", "down_no_restart", "down_cooldown", "restarted",
                                 "restart_failed"}]]
  /\ gap \in 0..Far /\ excuse \in BOOLEAN

Spaced(w) == gap - run[w].ran >= Cooldown
Needed(w) == pidFile \in Live => conf.check \/ run[w].blind

\* Unless runs overlapped, or the record of a restart was lost (with a run which had
\* restarted it and was killed, or with a state file which was torn), runs which restart
\* the process start Cooldown apart, and a service whose pid file names it is left alone,
\* unless its check has failed, or the run has looked before that pid was written.  And
\* every variable keeps its type.
RestartsJustified ==
  []TypeOK /\ [][\A w \in Runs : Restarting(w) => excuse \/ (Spaced(w) /\ Needed(w))]_vars

\* The pid of another process is taken for the service only where neither a pattern nor
\* a check is configured.
Masked == ~conf.match /\ ~conf.check /\ \E p \in Pids : owner[p] = "other"

\* A service which stays down is restarted again and again, unless the state file stays
\* torn, which no run of the watchdog gets past, or runs are killed for ever.
RestartTried ==
  [](conf.restart) /\ []<>(~file.torn) /\ <>[][\A w \in Runs : ~KillRun(w)]_vars
    => []<>(Up \/ Masked \/ \E w \in Runs : run[w].at = "after")

=============================================================================
