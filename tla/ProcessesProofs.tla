--------------------------- MODULE ProcessesProofs ----------------------------
(***************************************************************************)
(* Safety of the process watchdog, for any number of runs which overlap and *)
(* are killed, any configurations and any cooldown; and of the cleanup of  *)
(* the autopilot's rows, for any number of rows and cleaners.              *)
(***************************************************************************)
EXTENDS Watchdog, AutopilotCleanup, TLAPS

\* A run's place, and what it carries, by type.
Ats == {"idle", "look", "restart", "after", "write", "fill"}
Statuses == {"", "healthy", "down_no_restart", "down_cooldown", "restarted", "restart_failed"}
RunType == [at : Ats, lastPid : Pids \cup {0}, since : 0..Far, ran : 0..MaxRan,
            spawned : Pids \cup {0}, ok : BOOLEAN, blind : BOOLEAN, status : Statuses]

\* Without an excuse runs do not overlap.
OneRun == ~excuse => \A v, w \in Active : v = w

\* Without an excuse what is remembered of the last restart, by a run and in the file, is
\* no older than that restart; what a run has yet to record, or is writing, only it knows.
Recorded ==
  ~excuse =>
    /\ \A w \in Active : run[w].since <= gap
    /\ ~file.torn /\ (\A w \in Runs : ~Unrecorded(run[w])) => file.since <= gap

\* A run which goes on to restart the service has found it cool,
Cooled == \A w \in Runs : run[w].at = "restart" => run[w].since - run[w].ran >= Cooldown

\* and not there; without an excuse nobody else can have brought it up since.
SeenDown ==
  /\ ~conf.pidFile => pidFile = 0
  /\ ~excuse =>
       \A w \in Runs : run[w].at = "restart" =>
         conf.check \/ run[w].blind \/ (fresh = {} /\ pidFile \notin Live)

WatchInv == TypeOK /\ OneRun /\ Recorded /\ Cooled /\ SeenDown

\* Numbers of ticks.
LEMMA Ticks ==
  /\ Far \in Nat /\ Cooldown \in Nat /\ MaxRan \in Nat /\ Far = Cooldown + MaxRan
  /\ \A n \in 0..Far : Later(n) \in 0..Far /\ Later(n) >= n /\ (Later(n) = n + 1 \/ (Later(n) = n /\ n = Far))
  /\ \A n \in 0..MaxRan : n \in 0..Far
BY WatchdogAssumption DEF Far, Later

LEMMA LaterKeepsOrder ==
  \A m, n \in 0..Far : m <= n => Later(m) <= Later(n)
BY Ticks DEF Later

LEMMA TypesOfRuns ==
  TypeOK <=> /\ conf \in Confs /\ owner \in [Pids -> {"free", "service", "other"}]
             /\ pidFile \in Pids \cup {0} /\ fresh \subseteq Live
             /\ file \in [torn : BOOLEAN, lastPid : Pids \cup {0}, since : 0..Far]
             /\ run \in [Runs -> RunType]
             /\ gap \in 0..Far /\ excuse \in BOOLEAN
BY DEF TypeOK, RunType, Ats, Statuses

LEMMA IdleTyped == Idle \in RunType /\ Clean \in [torn : BOOLEAN, lastPid : Pids \cup {0}, since : 0..Far]
BY Ticks DEF Idle, Clean, RunType, Ats, Statuses

LEMMA WatchInit == Init => WatchInv
<1> SUFFICES ASSUME Init PROVE WatchInv
  OBVIOUS
<1>1. TypeOK
  <2>1. 1 \in Pids
    BY WatchdogAssumption DEF Pids
  <2>2. owner \in [Pids -> {"free", "service", "other"}] /\ pidFile \in Pids \cup {0} /\ fresh \subseteq Live
    BY <2>1 DEF Init
  <2>3. file = Clean /\ run \in [Runs -> RunType] /\ gap \in 0..Far
    BY Ticks, IdleTyped DEF Init
  <2> QED BY <2>2, <2>3, IdleTyped, TypesOfRuns DEF Init
<1>2. Active = {} /\ \A w \in Runs : run[w].at = "idle"
  BY DEF Init, Active, Idle
<1>3. file.since <= gap
  BY Ticks DEF Init, Clean
<1>4. ~conf.pidFile => pidFile = 0
  BY DEF Init
<1> QED BY <1>1, <1>2, <1>3, <1>4 DEF WatchInv, OneRun, Recorded, Cooled, SeenDown

\* A step of the machine: no run moves, and nobody comes up.
LEMMA MachineKeeps ==
  ASSUME WatchInv, conf' = conf, run' = run, file' = file, gap' = gap, excuse' = excuse,
         pidFile' = pidFile \/ (conf.pidFile /\ fresh # {}),
         fresh' \subseteq fresh, pidFile' \in Pids \cup {0},
         \A p \in Pids : owner'[p] = owner[p] \/ (owner'[p] # "service" /\ p \notin fresh'),
         owner' \in [Pids -> {"free", "service", "other"}]
  PROVE  WatchInv'
<1>1. Active' = Active /\ Live' \subseteq Live
  BY DEF Active, Live
<1>2. TypeOK'
  <2>1. fresh' \subseteq Live'
    BY DEF WatchInv, TypeOK, Live
  <2> QED BY <2>1 DEF WatchInv, TypeOK
<1>3. OneRun' /\ Recorded' /\ Cooled'
  BY <1>1 DEF WatchInv, OneRun, Recorded, Cooled
<1>4. SeenDown'
  BY <1>1 DEF WatchInv, SeenDown
<1> QED BY <1>2, <1>3, <1>4 DEF WatchInv

LEMMA TickKeeps ==
  ASSUME WatchInv, Tick
  PROVE  WatchInv'
<1> USE DEF WatchInv
<1> DEFINE next(w) == [run[w] EXCEPT !.since = Later(@), !.ran = @ + 1]
<1>1. \A w \in Active : /\ run[w] \in RunType /\ run[w].ran + 1 \in 0..MaxRan
                        /\ Later(run[w].since) \in 0..Far /\ run[w].since \in 0..Far /\ run[w].ran \in 0..MaxRan
  <2> SUFFICES ASSUME NEW w \in Active
               PROVE  /\ run[w] \in RunType /\ run[w].ran + 1 \in 0..MaxRan
                      /\ Later(run[w].since) \in 0..Far /\ run[w].since \in 0..Far /\ run[w].ran \in 0..MaxRan
    OBVIOUS
  <2>1. run[w] \in RunType
    BY TypesOfRuns DEF Active
  <2>2. run[w].since \in 0..Far /\ run[w].ran \in 0..MaxRan
    BY <2>1 DEF RunType
  <2>3. run[w].ran < MaxRan
    BY DEF Tick
  <2> QED BY <2>1, <2>2, <2>3, Ticks
<1>2. \A w \in Active : next(w) \in RunType
  BY <1>1 DEF RunType
<1>3. \A w \in Active : run'[w] = next(w) /\ w \in Runs
  BY DEF Tick, Active
<1>4. \A w \in Runs \ Active : run'[w] = Idle /\ run[w].at = "idle"
  BY DEF Tick, Active
<1>5. run' \in [Runs -> RunType]
  BY <1>2, IdleTyped DEF Tick
<1>6. \A w \in Active : /\ next(w).at = run[w].at /\ next(w).blind = run[w].blind
                        /\ next(w).status = run[w].status
                        /\ next(w).since = Later(run[w].since) /\ next(w).ran = run[w].ran + 1
  BY <1>1 DEF RunType
<1>7. Active' = Active /\ \A w \in Runs : run'[w].at = run[w].at
  <2>1. \A w \in Runs : run'[w].at = run[w].at
    <3>1. Idle.at = "idle"
      BY DEF Idle
    <3> HIDE DEF next
    <3> QED BY <3>1, <1>3, <1>4, <1>6
  <2> QED BY <2>1 DEF Active
<1>8. file.since \in 0..Far /\ file'.since = Later(file.since) /\ file'.torn = file.torn
      /\ gap \in 0..Far /\ gap' = Later(gap)
  BY DEF Tick, TypeOK
<1>9. TypeOK'
  <2>1. file' \in [torn : BOOLEAN, lastPid : Pids \cup {0}, since : 0..Far] /\ gap' \in 0..Far
    BY <1>8, Ticks DEF Tick, TypeOK
  <2>2. Live' = Live
    BY DEF Tick, Live
  <2> QED BY <1>5, <2>1, <2>2 DEF Tick, TypeOK, RunType, Ats, Statuses
<1>10. OneRun'
  BY <1>7 DEF Tick, OneRun
<1>11. Recorded'
  <2> SUFFICES ASSUME ~excuse PROVE Recorded'
    BY DEF Recorded, Tick
  <2>1. \A w \in Active : run'[w].since <= gap'
    <3> HIDE DEF next
    <3>1. \A w \in Active : run[w].since <= gap /\ run'[w].since = Later(run[w].since)
      BY <1>3, <1>6 DEF Recorded
    <3> QED BY <3>1, <1>1, <1>8, LaterKeepsOrder
  <2>2. \A w \in Runs : Unrecorded(run[w]) => Unrecorded(run'[w])
    <3> HIDE DEF next
    <3>1. \A w \in Active : run'[w].at = run[w].at /\ run'[w].status = run[w].status
      BY <1>3, <1>6
    <3> QED BY <3>1 DEF Unrecorded, Active
  <2>3. ~file.torn /\ (\A w \in Runs : ~Unrecorded(run[w])) => file'.since <= gap'
    BY <1>8, LaterKeepsOrder DEF Recorded
  <2> QED BY <1>7, <1>8, <2>1, <2>2, <2>3 DEF Recorded
<1>12. Cooled'
  <2> SUFFICES ASSUME NEW w \in Runs, run[w].at = "restart" PROVE run'[w].since - run'[w].ran >= Cooldown
    BY <1>7 DEF Cooled
  <2>1. w \in Active /\ run[w].since - run[w].ran >= Cooldown
    BY DEF Active, Cooled
  <2>2. run'[w].since = Later(run[w].since) /\ run'[w].ran = run[w].ran + 1
    BY <1>3, <1>6, <2>1
  <2>3. CASE Later(run[w].since) = run[w].since + 1
    BY <1>1, <2>1, <2>2, <2>3, Ticks
  <2>4. CASE Later(run[w].since) = Far
    BY <1>1, <2>1, <2>2, <2>4, Ticks
  <2> QED BY <1>1, <2>1, <2>3, <2>4, Ticks
<1>13. SeenDown'
  <2>1. \A w \in Runs : run[w].at = "restart" => run'[w].blind = run[w].blind
    BY <1>3, <1>6 DEF Active
  <2> QED BY <1>7, <2>1 DEF Tick, SeenDown, Live
<1> QED BY <1>9, <1>10, <1>11, <1>12, <1>13

\* What a step of one run, or its end, has to show.
LEMMA RunKeeps ==
  ASSUME WatchInv, NEW w \in Runs, NEW r \in RunType, run' = [run EXCEPT ![w] = r],
         UNCHANGED <<conf, owner, pidFile, fresh, gap>>,
         file' \in [torn : BOOLEAN, lastPid : Pids \cup {0}, since : 0..Far],
         excuse' \in BOOLEAN /\ (excuse => excuse'),
         ~excuse' => /\ Active \subseteq {w}
                     /\ r.at # "idle" => r.since <= gap
                     /\ ~file'.torn /\ ~Unrecorded(r) => file'.since <= gap,
         r.at = "restart" => /\ r.since - r.ran >= Cooldown
                             /\ conf.check \/ r.blind \/ (fresh = {} /\ pidFile \notin Live)
  PROVE  WatchInv'
<1>1. run'[w] = r /\ \A v \in Runs \ {w} : run'[v] = run[v]
  BY TypesOfRuns DEF WatchInv
<1>2. TypeOK'
  <2>1. run' \in [Runs -> RunType]
    BY TypesOfRuns DEF WatchInv
  <2> QED BY <2>1 DEF WatchInv, TypeOK, Live, RunType, Ats, Statuses
<1>3. Active' \subseteq Active \cup {w} /\ \A v \in Active' : v = w \/ v \in Active
  BY <1>1 DEF Active
<1>4. OneRun'
  BY <1>3 DEF OneRun
<1>5. Recorded'
  <2> SUFFICES ASSUME ~excuse' PROVE Recorded'
    BY DEF Recorded
  <2>1. \A v \in Active' : v = w /\ r.at # "idle"
    BY <1>1, <1>3 DEF Active
  <2>2. \A v \in Active' : run'[v].since <= gap
    BY <1>1, <2>1
  <2>3. ~file'.torn /\ (\A v \in Runs : ~Unrecorded(run'[v])) => file'.since <= gap
    BY <1>1
  <2> QED BY <2>2, <2>3 DEF Recorded
<1>6. Cooled'
  BY <1>1 DEF WatchInv, Cooled
<1>7. SeenDown'
  BY <1>1 DEF WatchInv, SeenDown, Live
<1> QED BY <1>2, <1>4, <1>5, <1>6, <1>7 DEF WatchInv

\* Starting, looking, writing and being killed.
LEMMA StartKeeps ==
  ASSUME WatchInv, NEW w \in Runs, Start(w)
  PROVE  WatchInv'
<1> DEFINE r == [Idle EXCEPT !.at = "look", !.lastPid = file.lastPid, !.since = file.since]
<1>1. file.lastPid \in Pids \cup {0} /\ file.since \in 0..Far
  BY DEF WatchInv, TypeOK
<1>2. r \in RunType /\ r.at = "look" /\ r.since = file.since
  BY <1>1, IdleTyped DEF RunType, Ats
<1>3. run' = [run EXCEPT ![w] = r] /\ excuse' = (excuse \/ Active # {})
  BY DEF Start
<1> HIDE DEF r
<1>4. ~excuse' => Active = {} /\ file.since <= gap
  <2>1. Active = {} => \A v \in Runs : ~Unrecorded(run[v])
    BY DEF Active, Unrecorded
  <2> QED BY <1>3, <2>1 DEF Start, WatchInv, Recorded
<1>5. UNCHANGED <<conf, owner, pidFile, fresh, gap>> /\ file' = file
  BY DEF Start
<1>6. file' \in [torn : BOOLEAN, lastPid : Pids \cup {0}, since : 0..Far] /\ excuse' \in BOOLEAN /\ (excuse => excuse')
  BY <1>3, <1>5 DEF WatchInv, TypeOK
<1> QED BY <1>2, <1>3, <1>4, <1>5, <1>6, RunKeeps

\* Whichever of the three pids is taken.
LEMMA ResolvedPid ==
  ASSUME TypeOK, NEW w \in Runs PROVE Resolve(w) \in Pids \cup {0}
<1>1. conf.pid \in Pids \cup {0}
  BY WatchdogAssumption DEF TypeOK, Fields
<1>2. run[w].lastPid \in Pids \cup {0}
  BY DEF TypeOK
<1> QED BY <1>1, <1>2 DEF Resolve, TypeOK

LEMMA LookKeeps ==
  ASSUME WatchInv, NEW w \in Runs, NEW checkOk \in Checks, Inspect(w, checkOk)
  PROVE  WatchInv'
<1> DEFINE p == Resolve(w)
<1>0. /\ UNCHANGED <<conf, owner, pidFile, fresh, gap>> /\ file' = file /\ excuse' = excuse
      /\ file' \in [torn : BOOLEAN, lastPid : Pids \cup {0}, since : 0..Far]
      /\ excuse' \in BOOLEAN /\ (excuse => excuse')
  BY DEF Inspect, WatchInv, TypeOK
<1>1. w \in Active /\ run[w] \in RunType /\ run[w].at = "look"
  BY TypesOfRuns DEF Inspect, Active, WatchInv
<1>2. p \in Pids \cup {0} /\ (fresh # {}) \in BOOLEAN
  BY ResolvedPid DEF WatchInv
<1>3. ~excuse => /\ Active \subseteq {w} /\ run[w].since <= gap
                 /\ ~file.torn => file.since <= gap
  <2>1. ~excuse => Active \subseteq {w} /\ run[w].since <= gap
    BY <1>1 DEF WatchInv, OneRun, Recorded
  <2>2. ~excuse => \A v \in Runs : ~Unrecorded(run[v])
    BY <1>1, <2>1 DEF Active, Unrecorded
  <2> QED BY <2>1, <2>2 DEF WatchInv, Recorded
<1>4. ASSUME NEW s \in Statuses, run' = Finish(w, s, p)
      PROVE  WatchInv'
  <2> DEFINE r == [run[w] EXCEPT !.at = "write", !.status = s, !.lastPid = p, !.spawned = 0, !.ok = FALSE]
  <2>1. r \in RunType /\ r.at = "write" /\ r.since = run[w].since
    BY <1>1, <1>2 DEF RunType, Ats
  <2>2. run' = [run EXCEPT ![w] = r]
    BY <1>4, TypesOfRuns DEF Finish, WatchInv
  <2> HIDE DEF r
  <2>3. ~excuse' => Active \subseteq {w} /\ r.since <= gap /\ (~file'.torn => file'.since <= gap)
    BY <1>0, <1>3, <2>1
  <2> QED BY <1>0, <2>1, <2>2, <2>3, RunKeeps
<1>5. CASE Healthy(p, checkOk)
  BY <1>4, <1>5 DEF Inspect, Statuses
<1>6. CASE ~Healthy(p, checkOk) /\ ~conf.restart
  BY <1>4, <1>6 DEF Inspect, Statuses
<1>7. CASE ~Healthy(p, checkOk) /\ conf.restart /\ Cooling(w)
  BY <1>4, <1>7 DEF Inspect, Statuses
<1>8. CASE ~Healthy(p, checkOk) /\ conf.restart /\ ~Cooling(w)
  <2> DEFINE r == [run[w] EXCEPT !.at = "restart", !.blind = fresh # {}]
  <2>1. r \in RunType /\ r.at = "restart" /\ r.since = run[w].since /\ r.ran = run[w].ran /\ r.blind = (fresh # {})
    BY <1>1, <1>2 DEF RunType, Ats
  <2>2. run' = [run EXCEPT ![w] = r]
    BY <1>8, TypesOfRuns DEF Inspect, WatchInv
  <2> HIDE DEF r
  <2>3. r.since - r.ran >= Cooldown
    BY <1>1, <1>8, <2>1, Ticks DEF Cooling, SinceRestart, RunType
  <2>4. conf.check \/ pidFile \notin Live
    <3> SUFFICES ASSUME ~conf.check, pidFile \in Live PROVE FALSE
      OBVIOUS
    <3>1. ~Alive(p)
      BY <1>8 DEF Healthy, Checks
    <3>2. pidFile # 0 /\ owner[pidFile] = "service"
      BY WatchdogAssumption DEF Live, Pids
    <3>3. p = pidFile
      BY <3>2 DEF Resolve, WatchInv, SeenDown
    <3> QED BY <3>1, <3>2, <3>3 DEF Alive
  <2>6. ~excuse' => Active \subseteq {w} /\ r.since <= gap /\ (~file'.torn => file'.since <= gap)
    BY <1>0, <1>3, <2>1
  <2>7. conf.check \/ r.blind \/ (fresh = {} /\ pidFile \notin Live)
    BY <2>1, <2>4
  <2> QED BY <1>0, <2>1, <2>2, <2>3, <2>6, <2>7, RunKeeps
<1> QED BY <1>5, <1>6, <1>7, <1>8

LEMMA AgainKeeps ==
  ASSUME WatchInv, NEW w \in Runs, NEW checkOk \in Checks, InspectAgain(w, checkOk)
  PROVE  WatchInv'
<1> DEFINE p == IF Resolve(w) = 0 THEN run[w].spawned ELSE Resolve(w)
           won == run[w].ok /\ Healthy(p, checkOk)
           r == [run[w] EXCEPT !.at = "write", !.status = IF won THEN "restarted" ELSE "restart_failed",
                               !.lastPid = p, !.spawned = 0, !.ok = FALSE]
<1>1. w \in Active /\ run[w] \in RunType /\ run[w].at = "after"
  BY TypesOfRuns DEF InspectAgain, Active, WatchInv
<1>2. p \in Pids \cup {0}
  BY <1>1, ResolvedPid DEF WatchInv, RunType
<1>3. ~excuse => Active \subseteq {w} /\ run[w].since <= gap
  BY <1>1 DEF WatchInv, OneRun, Recorded
<1> HIDE DEF p, won
<1>4. r \in RunType /\ r.at = "write" /\ r.since = run[w].since /\ r.status \in {"restarted", "restart_failed"}
  BY <1>1, <1>2 DEF RunType, Ats, Statuses
<1>5. run' = [run EXCEPT ![w] = r]
  BY TypesOfRuns DEF InspectAgain, Finish, WatchInv, p, won
<1> HIDE DEF r
<1>6. /\ UNCHANGED <<conf, owner, pidFile, fresh, gap>>
      /\ file' \in [torn : BOOLEAN, lastPid : Pids \cup {0}, since : 0..Far]
      /\ excuse' \in BOOLEAN /\ (excuse => excuse') /\ (~excuse' => ~excuse)
  BY DEF InspectAgain, WatchInv, TypeOK
<1>7. ~excuse' => Active \subseteq {w} /\ r.since <= gap
  BY <1>3, <1>4, <1>6
<1>8. Unrecorded(r)
  BY <1>4 DEF Unrecorded
<1> QED BY <1>4, <1>5, <1>6, <1>7, <1>8, RunKeeps

LEMMA WriteKeeps ==
  ASSUME WatchInv, NEW w \in Runs, Truncate(w) \/ Fill(w) \/ KillRun(w)
  PROVE  WatchInv'
<1>1. w \in Active /\ run[w] \in RunType
  BY TypesOfRuns DEF Truncate, Fill, KillRun, Active, WatchInv
<1>2. ~excuse => Active \subseteq {w} /\ run[w].since <= gap
  BY <1>1 DEF WatchInv, OneRun, Recorded
<1>3. file \in [torn : BOOLEAN, lastPid : Pids \cup {0}, since : 0..Far]
  BY DEF WatchInv, TypeOK
<1>4. CASE Truncate(w)
  <2> DEFINE r == [run[w] EXCEPT !.at = "fill", !.status = ""]
  <2>1. r \in RunType /\ r.at = "fill" /\ r.since = run[w].since
    BY <1>1 DEF RunType, Ats, Statuses
  <2>2. run' = [run EXCEPT ![w] = r]
    BY <1>4, TypesOfRuns DEF Truncate, WatchInv
  <2>3. file' \in [torn : BOOLEAN, lastPid : Pids \cup {0}, since : 0..Far]
    BY <1>3, <1>4 DEF Truncate
  <2>6. file'.torn
    BY <1>3, <1>4 DEF Truncate
  <2> HIDE DEF r
  <2>4. UNCHANGED <<conf, owner, pidFile, fresh, gap>> /\ excuse' = excuse /\ excuse' \in BOOLEAN
    BY <1>4 DEF Truncate, WatchInv, TypeOK
  <2>5. ~excuse' => Active \subseteq {w} /\ r.since <= gap
    BY <1>2, <2>1, <2>4
  <2> QED BY <2>1, <2>2, <2>3, <2>4, <2>5, <2>6, RunKeeps
<1>5. CASE Fill(w)
  <2>1. run' = [run EXCEPT ![w] = Idle] /\ Idle.at = "idle"
    BY <1>5 DEF Fill, Idle
  <2>2. file' \in [torn : BOOLEAN, lastPid : Pids \cup {0}, since : 0..Far] /\ file'.since = run[w].since
    BY <1>1, <1>5 DEF Fill, RunType
  <2>3. UNCHANGED <<conf, owner, pidFile, fresh, gap>> /\ excuse' = excuse /\ excuse' \in BOOLEAN
    BY <1>5 DEF Fill, WatchInv, TypeOK
  <2>4. ~excuse' => Active \subseteq {w} /\ file'.since <= gap
    BY <1>2, <2>2, <2>3
  <2> QED BY <2>1, <2>2, <2>3, <2>4, IdleTyped, RunKeeps
<1>6. CASE KillRun(w)
  <2>1. run' = [run EXCEPT ![w] = Idle] /\ Idle.at = "idle" /\ excuse' = (excuse \/ Unrecorded(run[w]))
    BY <1>6 DEF KillRun, Idle
  <2>2. ~excuse' => (~file.torn => file.since <= gap)
    <3>1. ~excuse' => \A v \in Runs : ~Unrecorded(run[v])
      BY <1>2, <2>1 DEF Active, Unrecorded
    <3> QED BY <2>1, <3>1 DEF WatchInv, Recorded
  <2>3. UNCHANGED <<conf, owner, pidFile, fresh, gap>> /\ file' = file /\ excuse' \in BOOLEAN
    BY <1>6 DEF KillRun, WatchInv, TypeOK
  <2>4. ~excuse' => Active \subseteq {w} /\ (~file'.torn => file'.since <= gap)
    BY <1>2, <2>1, <2>2, <2>3
  <2> QED BY <1>3, <2>1, <2>3, <2>4, IdleTyped, RunKeeps
<1> QED BY <1>4, <1>5, <1>6

\* The restart itself: what was remembered gives way, unless another run is under way.
LEMMA RestartKeeps ==
  ASSUME WatchInv, NEW w \in Runs, NEW p \in Pids \cup {0}, NEW ok \in BOOLEAN, Restart(w, p, ok)
  PROVE  WatchInv'
<1> DEFINE r == [run[w] EXCEPT !.at = "after", !.since = run[w].ran, !.ok = ok, !.blind = FALSE,
                               !.spawned = IF conf.detached THEN p ELSE 0]
<1>1. w \in Active /\ run[w] \in RunType
  BY TypesOfRuns DEF Restart, Active, WatchInv
<1>2. r \in RunType /\ r.at = "after" /\ r.since = run[w].ran /\ run[w].ran \in 0..MaxRan
  BY <1>1, Ticks DEF RunType, Ats
<1>3. run' = [run EXCEPT ![w] = r]
  BY TypesOfRuns DEF Restart, WatchInv
<1> HIDE DEF r
<1>4. run'[w] = r /\ (\A v \in Runs \ {w} : run'[v] = run[v]) /\ run' \in [Runs -> RunType]
  BY <1>2, <1>3, TypesOfRuns DEF WatchInv
<1>5. Active' = Active /\ excuse' = (Active # {w}) /\ gap' = run[w].ran
  BY <1>1, <1>2, <1>4 DEF Active, Restart
<1>6. TypeOK'
  <2>1. owner' \in [Pids -> {"free", "service", "other"}]
    BY DEF Restart, WatchInv, TypeOK
  <2>2. fresh' \subseteq Live'
    <3>1. CASE p = 0
      BY <3>1 DEF Restart, WatchInv, TypeOK, Live
    <3>2. CASE p # 0
      <4>1. owner' = [owner EXCEPT ![p] = "service"] /\ fresh' \subseteq fresh \cup {p} /\ p \in Pids
        BY <3>2 DEF Restart
      <4>2. \A q \in Pids : owner'[q] = IF q = p THEN "service" ELSE owner[q]
        BY <4>1 DEF WatchInv, TypeOK
      <4> QED BY <4>1, <4>2 DEF WatchInv, TypeOK, Live
    <3> QED BY <3>1, <3>2
  <2>3. gap' \in 0..Far /\ excuse' \in BOOLEAN
    BY <1>2, <1>5, Ticks
  <2> QED BY <1>4, <2>1, <2>2, <2>3 DEF Restart, WatchInv, TypeOK, RunType, Ats, Statuses
<1>7. ~excuse' => \A v \in Active' : v = w
  BY <1>5
<1>8. OneRun' /\ Recorded'
  <2>1. Unrecorded(run'[w])
    BY <1>2, <1>4 DEF Unrecorded
  <2>2. run'[w].since <= gap'
    BY <1>2, <1>4, <1>5
  <2> QED BY <1>5, <1>7, <2>1, <2>2 DEF OneRun, Recorded
<1>9. Cooled'
  BY <1>2, <1>4 DEF WatchInv, Cooled
<1>10. SeenDown'
  BY <1>2, <1>4, <1>7 DEF Restart, WatchInv, SeenDown, Active
<1> QED BY <1>6, <1>8, <1>9, <1>10 DEF WatchInv

LEMMA WatchNext == WatchInv /\ [Next]_vars => WatchInv'
<1> SUFFICES ASSUME WatchInv, [Next]_vars PROVE WatchInv'
  OBVIOUS
<1>1. CASE Tick
  BY <1>1, TickKeeps
<1>2. CASE RemoveFile
  <2>1. TypeOK'
    BY <1>2, IdleTyped DEF RemoveFile, WatchInv, TypeOK, Live
  <2> QED BY <1>2, <2>1 DEF RemoveFile, WatchInv, OneRun, Recorded, Cooled, SeenDown
<1>3. ASSUME NEW p \in Pids, WritePid(p) \/ Exit(p) \/ Reuse(p) PROVE WatchInv'
  <2>1. fresh' \subseteq fresh /\ pidFile' \in Pids \cup {0} /\ (pidFile' = pidFile \/ (conf.pidFile /\ fresh # {}))
    BY <1>3 DEF WritePid, Exit, Reuse, WatchInv, TypeOK
  <2>2. owner' \in [Pids -> {"free", "service", "other"}]
    BY <1>3 DEF WritePid, Exit, Reuse, WatchInv, TypeOK
  <2>3. \A q \in Pids : owner'[q] = owner[q] \/ (owner'[q] # "service" /\ q \notin fresh')
    BY <1>3 DEF WritePid, Exit, Reuse, WatchInv, TypeOK, Live
  <2> QED BY <1>3, <2>1, <2>2, <2>3, MachineKeeps DEF WritePid, Exit, Reuse
<1>4. ASSUME NEW w \in Runs, Step(w) \/ KillRun(w) PROVE WatchInv'
  BY <1>4, StartKeeps, LookKeeps, AgainKeeps, WriteKeeps, RestartKeeps DEF Step
<1>5. CASE UNCHANGED vars
  BY <1>5 DEF vars, WatchInv, TypeOK, OneRun, Recorded, Cooled, SeenDown, Active, Live
<1> QED BY <1>1, <1>2, <1>3, <1>4, <1>5 DEF Next

\* Unless runs overlapped, or the record of a restart was lost, the watchdog's restarts are
\* at least the cooldown apart, and a service whose pid file names it is not restarted
\* unless its check failed or it came up after the look: for any number of runs, any
\* cooldown and whatever is configured.
THEOREM RestartsJustifiedHolds == Spec => RestartsJustified
<1>1. WatchInv /\ Next => \A w \in Runs : Restarting(w) => excuse \/ (Spaced(w) /\ Needed(w))
  <2> SUFFICES ASSUME WatchInv, NEW w \in Runs, run[w].at = "restart", ~excuse
               PROVE  Spaced(w) /\ Needed(w)
    BY DEF Restarting
  <2>1. run[w] \in RunType /\ gap \in 0..Far
    BY TypesOfRuns DEF WatchInv
  <2>2. run[w].since \in Int /\ run[w].ran \in Int /\ gap \in Int
    BY <2>1, Ticks DEF RunType
  <2>3. run[w].since <= gap /\ run[w].since - run[w].ran >= Cooldown
    BY DEF WatchInv, Recorded, Cooled, Active
  <2>4. Spaced(w)
    BY <2>2, <2>3, Ticks DEF Spaced
  <2>5. Needed(w)
    BY DEF WatchInv, SeenDown, Needed
  <2> QED BY <2>4, <2>5
<1>2. ASSUME UNCHANGED vars PROVE \A w \in Runs : ~Restarting(w)
  BY <1>2 DEF vars, Restarting
<1>3. WatchInv => TypeOK
  BY DEF WatchInv
<1> QED BY <1>1, <1>2, <1>3, WatchInit, WatchNext, PTL DEF Spec, RestartsJustified

----------------------------------------------------------------------------
(* The cleanup.                                                             *)

\* What a cleaner has read has been running for too long, and runs still, has finished
\* since, or has been failed by another one.
FoundOld ==
  \A c \in Cleaners : \A t \in found[c] :
    /\ status[t] # "pending" /\ age[t] >= Threshold
    /\ writer[t] = "autopilot" => t \in finished[c]

CleanInv ==
  /\ age \in [Prompts -> 0..Threshold]
  /\ status \in [Prompts -> {"pending", "running", "completed", "failed"}]
  /\ writer \in [Prompts -> {"nobody", "autopilot", "cleanup"}]
  /\ found \in [Cleaners -> SUBSET Prompts] /\ finished \in [Cleaners -> SUBSET Prompts]
  /\ \A t \in Prompts : status[t] \in {"pending", "running"} => writer[t] = "nobody"
  /\ FoundOld

LEMMA CleanNext == CleanInv /\ [CleanupNext]_cleanupVars => CleanInv'
<1> SUFFICES ASSUME CleanInv, [CleanupNext]_cleanupVars PROVE CleanInv'
  OBVIOUS
<1> USE CleanupAssumption DEF CleanInv, FoundOld
<1>1. ASSUME NEW t \in Prompts, NEW ticks \in {0, Threshold}, BeginPrompt(t, ticks) PROVE CleanInv'
  <2>1. Threshold \in 0..Threshold /\ 0 \in 0..Threshold
    OBVIOUS
  <2>2. /\ age' \in [Prompts -> 0..Threshold]
        /\ status' \in [Prompts -> {"pending", "running", "completed", "failed"}]
        /\ \A s \in Prompts \ {t} : age'[s] = age[s] /\ status'[s] = status[s]
        /\ status[t] = "pending" /\ UNCHANGED <<writer, found, finished>>
    BY <1>1, <2>1 DEF BeginPrompt
  <2>3. \A c \in Cleaners : t \notin found[c]
    BY <2>2
  <2> QED BY <2>2, <2>3
<1>2. ASSUME NEW t \in Prompts, FinishPrompt(t) PROVE CleanInv'
  BY <1>2 DEF FinishPrompt
<1>3. CASE GrowOld
  BY <1>3 DEF GrowOld
<1>4. ASSUME NEW c \in Cleaners, Detect(c) PROVE CleanInv'
  BY <1>4 DEF Detect, Orphaned
<1>5. ASSUME NEW c \in Cleaners, MarkFailed(c) PROVE CleanInv'
  BY <1>5 DEF MarkFailed
<1>6. CASE UNCHANGED cleanupVars
  BY <1>6 DEF cleanupVars
<1> QED BY <1>1, <1>2, <1>3, <1>4, <1>5, <1>6 DEF CleanupNext

\* Only rows which a cleaner has read as running for too long are marked failed by it, and
\* the autopilot's own result is overwritten only if the row finished after it was read:
\* for any number of rows and cleaners.
THEOREM OnlyOrphansFailedHolds == CleanupSpec => OnlyOrphansFailed
<1>1. CleanupInit => CleanInv
  BY CleanupAssumption DEF CleanupInit, CleanInv, FoundOld
<1>2. CleanInv /\ CleanupNext =>
        \A t \in Prompts : writer'[t] = "cleanup" /\ writer[t] # "cleanup" =>
          \E c \in Cleaners :
            Fails(c, t) /\ age[t] >= Threshold /\ (writer[t] = "autopilot" => t \in finished[c])
  <2> SUFFICES ASSUME CleanInv, CleanupNext, NEW t \in Prompts, writer'[t] = "cleanup", writer[t] # "cleanup"
               PROVE  \E c \in Cleaners :
                        Fails(c, t) /\ age[t] >= Threshold /\ (writer[t] = "autopilot" => t \in finished[c])
    OBVIOUS
  <2>1. PICK c \in Cleaners : MarkFailed(c)
    BY DEF CleanupNext, BeginPrompt, FinishPrompt, GrowOld, Detect, CleanInv
  <2>2. t \in found[c] /\ t \notin found'[c]
    BY <2>1 DEF MarkFailed, CleanInv
  <2> QED BY <2>2 DEF CleanInv, FoundOld, Fails
<1>3. UNCHANGED cleanupVars => \A t \in Prompts : ~(writer'[t] = "cleanup" /\ writer[t] # "cleanup")
  BY DEF cleanupVars
<1> QED BY <1>1, <1>2, <1>3, CleanNext, PTL DEF CleanupSpec, OnlyOrphansFailed

=============================================================================
