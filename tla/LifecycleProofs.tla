--------------------------- MODULE LifecycleProofs ---------------------------
(***************************************************************************)
(* Lifecycle, for any supervisors, runners and commands: what the service  *)
(* does with the lock is what RunnerLock allows, and what its pid files    *)
(* are worth.                                                              *)
(***************************************************************************)
EXTENDS Lifecycle, RunnerLockProofs

\* A supervisor which has launched a runner knows it; a command is at run only if it is one.
Launched ==
  /\ \A s \in Sups : svAt[s] \in {"record", "fill", "poll", "terminate", "wait"} => child[s] \in Runners
  /\ \A c \in Commands : cmd[c].at = "run" => Kind[c] = "run"

TypedInv == TypeOK /\ Launched /\ LockInv

\* As long as commands neither overlap nor read an emptied file: the pid file names the live
\* supervisor, unless it or the command which has started it is writing it, or neither has
\* begun to; a command which starts one has found none; and one that stops knows the only
\* one there is, and has killed it before it unlinks.
Known ==
  \A s \in SvLive :
    \/ supPid = s
    \/ supPid = Blank /\ (svAt[s] = "sign" \/ \E c \in Commands : cmd[c].at = "fill" /\ cmd[c].sup = s)
    \/ svAt[s] = "boot" /\ \E c \in Commands : cmd[c].at = "save" /\ cmd[c].sup = s

Stage(c) ==
  /\ cmd[c].at \in {"spawn", "stop_run", "unlink"} => SvLive = {}
  /\ cmd[c].at \in {"save", "fill", "read_run", "stop_sup"} => SvLive \subseteq {cmd[c].sup}

PidFileInv ==
  ~crossed /\ ~blind => /\ \A c, d \in CmdMidway : c = d
                       /\ \A s, t \in SvLive : s = t
                       /\ Known
                       /\ \A c \in Commands : Stage(c)

\* A supervisor about to launch a runner has had none, or one which failed or was killed;
\* a heartbeat that is stale is that of a dead or hung runner.
Heir ==
  \A s \in Sups :
    /\ svAt[s] \in {"new", "boot", "sign"} => child[s] = Nobody
    /\ svAt[s] = "launch" => child[s] = Nobody \/ at[child[s]] \in {"failed", "killed"}

Judged == hbStale => hbBy \in Runners /\ (Dead(hbBy) \/ hbBy \in hung)

WatchInv == Heir /\ Judged

\* Undisturbed, a runner which lives is watched by a supervisor which lives; and the pid
\* file the supervisor has opened stays there, and names the runner once both have written.
Alive == {r \in Runners : at[r] \notin {"new"} \cup Ended}
Watched(r) == \E s \in SvLive : child[s] = r /\ svAt[s] \in {"record", "fill", "poll", "terminate"}
ChildInv == ~Disturbed => ~overlapped /\ \A r \in Alive : Watched(r)

Reachable(s) ==
  /\ svAt[s] \in {"fill", "poll", "terminate"} /\ at[child[s]] \in {"boot", "sign", "look", "work"} \cup Midway
     => runPid \in {Blank, child[s]}
  /\ svAt[s] \in {"poll", "terminate"} /\ at[child[s]] \in {"boot", "look", "work"} \cup Midway
     => runPid = child[s]
ReachInv == ~Disturbed => \A s \in Sups : Reachable(s)

ServiceInv == TypedInv /\ PidFileInv /\ WatchInv /\ ChildInv /\ ReachInv

USE DEF Ended, Dead

----------------------------------------------------------------------------
(* The lock.                                                                *)

\* Every step of the service is a step of RunnerLock, or leaves the lock alone.
LEMMA LockStep ==
  ASSUME TypedInv, [Next]_vars
  PROVE  [LockNext]_lockVars
<1> USE DEF TypedInv, TypeOK
<1>1. ASSUME NEW r \in Runners, RunnerRun(r) \/ Heartbeat(r) \/ ReapOrphan(r) PROVE [LockNext]_lockVars
  <2>1. CASE RunnerRun(r)   BY <2>1 DEF RunnerRun, LockNext
  <2>2. CASE Heartbeat(r)   BY <2>2 DEF Heartbeat
  <2>3. CASE ReapOrphan(r)  BY <2>3 DEF ReapOrphan, LockNext
  <2> QED BY <1>1, <2>1, <2>2, <2>3
<1>2. CASE Silence
  BY <1>2 DEF Silence
<1>3. ASSUME NEW s \in Sups, SvStep(s) PROVE [LockNext]_lockVars
  <2>1. CASE \E r \in FreshRunners : Launch(s, r)
    BY <2>1 DEF Launch, FreshRunners, Fresh, LockNext
  <2>2. CASE Terminate(s)
    BY <2>2 DEF Terminate, Terminated, LockNext
  <2>3. CASE Wait(s)
    BY <2>3 DEF Wait, Launched, LockNext
  <2>4. CASE Supervise(s) \/ Record(s) \/ Judge(s) \/ Leave(s)
    BY <2>4 DEF Supervise, Record, Judge, Leave
  <2> QED BY <1>3, <2>1, <2>2, <2>3, <2>4 DEF SvStep
<1>4. ASSUME NEW c \in Commands, Issue(c) \/ CmdStep(c) PROVE [LockNext]_lockVars
  <2>1. CASE \E r \in FreshRunners : RunForeground(c, r)
    BY <2>1 DEF RunForeground, FreshRunners, Fresh, LockNext
  <2>2. CASE StopRunner(c)
    BY <2>2 DEF StopRunner, Terminated, LockNext
  <2>3. CASE \/ Issue(c) \/ StartCheck(c) \/ (\E s \in FreshSups : Spawn(c, s)) \/ SavePid(c)
             \/ Ensure(c) \/ Inspect(c) \/ StopReadSup(c) \/ StopReadRun(c) \/ StopSup(c) \/ StopUnlink(c)
    BY <2>3 DEF Issue, StartCheck, Spawn, SavePid, Ensure, Inspect, StopReadSup, StopReadRun,
       StopSup, StopUnlink
  <2> QED BY <1>4, <2>1, <2>2, <2>3 DEF CmdStep
<1>5. ASSUME NEW r \in Runners, Hang(r) \/ CrashRunner(r) PROVE [LockNext]_lockVars
  BY <1>5 DEF Hang, CrashRunner, LockNext
<1>6. ASSUME NEW s \in Sups, CrashSupervisor(s) PROVE [LockNext]_lockVars
  BY <1>6 DEF CrashSupervisor
<1>7. CASE UNCHANGED vars
  BY <1>7 DEF vars, lockVars
<1> QED BY <1>1, <1>2, <1>3, <1>4, <1>5, <1>6, <1>7 DEF Next

\* A runner which has ended stays as it is.
LEMMA EndedForGood ==
  ASSUME LockTypeOK, [LockNext]_lockVars, NEW r \in Runners, at[r] \in Ended
  PROVE  at'[r] = at[r]
  BY DEF LockTypeOK, LockNext, lockVars, Begin, Boot, Abort, Acquire, Look, Read, Refuse,
     FindStale, Unlink, Create, Write, Return, Release, Kill, Reap, Go

----------------------------------------------------------------------------
(* Types.                                                                   *)

\* FreshRunners and FreshSups are runners and supervisors which do not exist yet.
LEMMA FreshOnes ==
  /\ \A r \in FreshRunners : r \in Runners /\ at[r] = "new"
  /\ \A s \in FreshSups : s \in Sups /\ svAt[s] = "new"
  BY DEF FreshRunners, FreshSups, Fresh

\* A command which has spawned a supervisor.
LEMMA SpawnTyped ==
  ASSUME TypeOK, NEW c \in Commands, NEW s \in Sups, Spawn(c, s)
  PROVE  /\ cmd' \in [Commands -> [at : CmdPlaces, sup : Sups \cup {Nobody}, run : Runners \cup {Nobody}]]
         /\ cmd'[c].at = "save" /\ \A d \in Commands \ {c} : cmd'[d] = cmd[d]
<1>1. cmd[c] \in [at : CmdPlaces, sup : Sups \cup {Nobody}, run : Runners \cup {Nobody}]
  BY DEF TypeOK
<1>2. cmd'[c].at = "save" /\ cmd'[c] \in [at : CmdPlaces, sup : Sups \cup {Nobody}, run : Runners \cup {Nobody}]
  BY <1>1 DEF Spawn, TypeOK, CmdPlaces
<1>3. cmd' = [cmd EXCEPT ![c] = cmd'[c]]
  BY DEF Spawn, TypeOK
<1> QED BY <1>2, <1>3 DEF TypeOK

\* Every step keeps the types, the lock's included.
LEMMA TypedNext ==
  ASSUME TypedInv, [Next]_vars
  PROVE  TypedInv'
<1>1. LockInv' /\ LockTypeOK'
  BY LockStep, LockNextInv DEF TypedInv, LockInv
<1> USE LifecycleAssumption, LockAssumption DEF TypedInv, TypeOK, Launched, SvPlaces, CmdPlaces
<1> DEFINE T == (TypeOK /\ Launched)'
<1>2. ASSUME NEW r \in Runners, RunnerRun(r) \/ Heartbeat(r) \/ ReapOrphan(r) PROVE T
  BY <1>1, <1>2 DEF RunnerRun, Filled, Heartbeat, ReapOrphan, files, beat, svVars, cmdVars, faultVars
<1>3. CASE Silence
  BY <1>1, <1>3 DEF Silence, files, svVars, cmdVars, faultVars
<1>4. ASSUME NEW s \in Sups, SvStep(s) PROVE T
  <2> USE DEF SvGo, files, beat, cmdVars, faultVars
  <2>1. CASE \E r \in FreshRunners : Launch(s, r)
    BY <1>1, <2>1, FreshOnes DEF Launch
  <2>2. CASE Wait(s)
    BY <1>1, <2>2 DEF Wait
  <2>3. CASE Supervise(s) \/ Record(s) \/ Leave(s)
    BY <1>1, <2>3 DEF Supervise, Record, Leave, Filled
  <2>4. CASE Judge(s) \/ Terminate(s)
    BY <1>1, <2>4 DEF Judge, Terminate
  <2> QED BY <1>4, <2>1, <2>2, <2>3, <2>4 DEF SvStep
<1>5. ASSUME NEW c \in Commands, Issue(c) \/ CmdStep(c) PROVE T
  <2> USE DEF CmdGo, SvGo, files, beat, svVars, faultVars
  <2>1. CASE Issue(c)
    BY <1>1, <2>1 DEF Issue
  <2>2. CASE \E s \in FreshSups : Spawn(c, s)
    <3>1. PICK s \in Sups : Spawn(c, s)
      BY <2>2, FreshOnes
    <3>2. cmd' \in [Commands -> [at : CmdPlaces, sup : Sups \cup {Nobody}, run : Runners \cup {Nobody}]]
          /\ cmd'[c].at = "save" /\ \A d \in Commands \ {c} : cmd'[d] = cmd[d]
      BY <3>1, SpawnTyped
    <3> QED BY <1>1, <3>1, <3>2 DEF Spawn
  <2>b. blind' \in BOOLEAN
    BY <1>5 DEF Blinded, Issue, CmdStep, StartCheck, Spawn, SavePid, Ensure, Inspect, StopReadSup, StopReadRun,
       StopSup, StopRunner, StopUnlink, RunForeground
  <2>3. CASE StartCheck(c) \/ Ensure(c)
    <3>1. cmd' \in [Commands -> [at : CmdPlaces, sup : Sups \cup {Nobody}, run : Runners \cup {Nobody}]]
          /\ cmd'[c].at \in {"done", "spawn", "inspect", "start"}
          /\ \A d \in Commands \ {c} : cmd'[d] = cmd[d]
      BY <2>3 DEF StartCheck, Ensure
    <3> QED BY <1>1, <2>b, <2>3, <3>1 DEF StartCheck, Ensure
  <2>t. cmd[c] \in [at : CmdPlaces, sup : Sups \cup {Nobody}, run : Runners \cup {Nobody}]
    OBVIOUS
  <2>4. CASE Inspect(c)
    <3>1. Running(runPid) => runPid \in Runners
      BY DEF Running
    <3>2. cmd'[c] \in [at : CmdPlaces, sup : Sups \cup {Nobody}, run : Runners \cup {Nobody}]
          /\ cmd'[c].at \in {"hit", "done"}
      BY <2>4, <2>t, <3>1 DEF Inspect
    <3>3. cmd' = [cmd EXCEPT ![c] = cmd'[c]]
      BY <2>4 DEF Inspect
    <3>4. cmd' \in [Commands -> [at : CmdPlaces, sup : Sups \cup {Nobody}, run : Runners \cup {Nobody}]]
          /\ cmd'[c].at \in {"hit", "done"} /\ \A d \in Commands \ {c} : cmd'[d] = cmd[d]
      BY <3>2, <3>3
    <3> QED BY <1>1, <2>b, <2>4, <3>4 DEF Inspect
  <2>7. CASE SavePid(c)
    <3>1. cmd' \in [Commands -> [at : CmdPlaces, sup : Sups \cup {Nobody}, run : Runners \cup {Nobody}]]
          /\ cmd'[c].at \in {"done", "fill"}
          /\ \A d \in Commands \ {c} : cmd'[d] = cmd[d]
      BY <2>7 DEF SavePid
    <3>2. supPid' \in Sups \cup {Nobody, Blank}
      BY <2>7 DEF SavePid, Filled
    <3> QED BY <1>1, <2>b, <2>7, <3>1, <3>2 DEF SavePid
  <2>8. CASE StopReadSup(c)
    <3>1. cmd'[c] \in [at : CmdPlaces, sup : Sups \cup {Nobody}, run : Runners \cup {Nobody}]
          /\ cmd'[c].at = "read_run"
      BY <2>8, <2>t DEF StopReadSup, ReadSup
    <3>2. cmd' = [cmd EXCEPT ![c] = cmd'[c]]
      BY <2>8 DEF StopReadSup
    <3> QED BY <1>1, <2>b, <2>8, <3>1, <3>2 DEF StopReadSup
  <2>9. CASE StopReadRun(c)
    <3>1. cmd'[c] \in [at : CmdPlaces, sup : Sups \cup {Nobody}, run : Runners \cup {Nobody}]
          /\ cmd'[c].at = "stop_sup"
      BY <2>9, <2>t DEF StopReadRun
    <3>2. cmd' = [cmd EXCEPT ![c] = cmd'[c]]
      BY <2>9 DEF StopReadRun
    <3> QED BY <1>1, <2>b, <2>9, <3>1, <3>2 DEF StopReadRun
  <2>5. CASE StopSup(c)
    <3>1. svAt' \in [Sups -> SvPlaces] /\ \A s \in Sups : svAt'[s] = svAt[s] \/ svAt'[s] = "killed"
      BY <2>5 DEF StopSup
    <3> QED BY <1>1, <2>b, <2>5, <3>1 DEF StopSup
  <2>10. CASE StopRunner(c) \/ StopUnlink(c)
    <3>1. cmd' \in [Commands -> [at : CmdPlaces, sup : Sups \cup {Nobody}, run : Runners \cup {Nobody}]]
          /\ cmd'[c].at \in {"done", "unlink"}
          /\ \A d \in Commands \ {c} : cmd'[d] = cmd[d]
      BY <2>10 DEF StopRunner, StopUnlink
    <3> QED BY <1>1, <2>b, <2>10, <3>1 DEF StopRunner, StopUnlink
  <2>6. CASE \E r \in FreshRunners : RunForeground(c, r)
    BY <1>1, <2>6 DEF RunForeground
  <2> QED BY <1>5, <2>1, <2>2, <2>3, <2>4, <2>5, <2>6, <2>7, <2>8, <2>9, <2>10 DEF CmdStep
<1>6. ASSUME NEW r \in Runners, Hang(r) \/ CrashRunner(r) PROVE T
  BY <1>1, <1>6 DEF Hang, CrashRunner, Fault, files, beat, svVars, cmdVars
<1>7. ASSUME NEW s \in Sups, CrashSupervisor(s) PROVE T
  BY <1>1, <1>7 DEF CrashSupervisor, SvGo, Fault, files, beat, cmdVars
<1>8. CASE UNCHANGED vars
  BY <1>1, <1>8 DEF vars
<1> QED BY <1>1, <1>2, <1>3, <1>4, <1>5, <1>6, <1>7, <1>8 DEF Next

----------------------------------------------------------------------------
(* The pid file.                                                            *)

\* Two supervisors never live at the same time until then.
LEMMA OneLives == PidFileInv => OneSupervisor
  BY DEF PidFileInv, OneSupervisor

\* A step of a supervisor, or of nobody here: no command moves, no supervisor is started.
LEMMA PidFileKept ==
  ASSUME TypedInv, PidFileInv, UNCHANGED <<cmd, crossed, blind>>, SvLive' \subseteq SvLive,
         ~crossed /\ ~blind => Known'
  PROVE  PidFileInv'
<1> SUFFICES ASSUME ~crossed, ~blind
             PROVE  /\ (\A c, d \in CmdMidway : c = d)' /\ (\A s, t \in SvLive : s = t)'
                    /\ Known' /\ (\A c \in Commands : Stage(c))'
  BY DEF PidFileInv
<1>1. (\A c, d \in CmdMidway : c = d)' /\ (\A s, t \in SvLive : s = t)'
  BY DEF PidFileInv, CmdMidway
<1>2. (\A c \in Commands : Stage(c))'
  BY DEF PidFileInv, Stage
<1> QED BY <1>1, <1>2

\* Nor does a supervisor which lives and has not just begun to write its pid.
LEMMA PidFileSame ==
  ASSUME TypedInv, PidFileInv, UNCHANGED <<cmd, crossed, blind, supPid>>, SvLive' \subseteq SvLive,
         \A s \in SvLive' : svAt[s] \in {"boot", "sign"} => svAt'[s] = svAt[s]
  PROVE  PidFileInv'
<1>1. ~crossed /\ ~blind => Known'
  BY DEF PidFileInv, Known
<1> QED BY <1>1, PidFileKept

\* A command other than one that spawns moves on, alone.
LEMMA CommandMoves ==
  ASSUME TypedInv, PidFileInv, NEW c \in Commands, cmd[c].at \notin {"new", "done"},
         UNCHANGED crossed, blind => blind', SvLive' \subseteq SvLive,
         cmd' \in [Commands -> [at : CmdPlaces, sup : Sups \cup {Nobody}, run : Runners \cup {Nobody}]],
         \A d \in Commands \ {c} : cmd'[d] = cmd[d],
         ~crossed /\ ~blind' => Known' /\ Stage(c)'
  PROVE  PidFileInv'
<1> SUFFICES ASSUME ~crossed, ~blind'
             PROVE  /\ (\A d, e \in CmdMidway : d = e)' /\ (\A s, t \in SvLive : s = t)'
                    /\ Known' /\ (\A d \in Commands : Stage(d))'
  BY DEF PidFileInv
<1>1. \A d \in Commands \ {c} : cmd'[d].at \in {"new", "done"}
  BY DEF PidFileInv, CmdMidway
<1>2. (\A s, t \in SvLive : s = t)'
  BY DEF PidFileInv
<1> QED BY <1>1, <1>2 DEF CmdMidway, Stage

\* Every step of a command keeps it.
LEMMA PidFileCommand ==
  ASSUME TypedInv, PidFileInv, NEW c \in Commands, CmdStep(c), TypedInv'
  PROVE  PidFileInv'
<1> DEFINE Alone == \A d \in Commands \ {c} : cmd[d].at \in {"new", "done"}
<1>0. ~crossed /\ ~blind /\ cmd[c].at \notin {"new", "done"} =>
        /\ Alone
        /\ cmd[c].at \notin {"save", "fill"} =>
             \A s \in SvLive : supPid = s \/ (supPid = Blank /\ svAt[s] = "sign")
  BY DEF PidFileInv, CmdMidway, Known
<1>t. /\ cmd' \in [Commands -> [at : CmdPlaces, sup : Sups \cup {Nobody}, run : Runners \cup {Nobody}]]
      /\ cmd \in [Commands -> [at : CmdPlaces, sup : Sups \cup {Nobody}, run : Runners \cup {Nobody}]]
      /\ svAt \in [Sups -> SvPlaces] /\ blind \in BOOLEAN
      /\ Blank # Nobody
  BY LifecycleAssumption DEF TypedInv, TypeOK
<1> USE DEF CmdGo, svVars, files
<1>1. CASE StartCheck(c) \/ Ensure(c)
  <2>1. SvLive' = SvLive /\ supPid' = supPid /\ svAt' = svAt /\ (blind => blind')
    BY <1>1 DEF StartCheck, Ensure, Blinded, SvLive
  <2>2. ~crossed /\ ~blind' => Known'
    BY <1>0, <1>1, <2>1 DEF StartCheck, Ensure, Known
  <2>3. ~crossed /\ ~blind' => \A s \in SvLive : ReadSup = s
    BY <1>0, <1>1, <1>t DEF StartCheck, Ensure, Blinded, ReadSup
  <2>4. ~crossed /\ ~blind' => Stage(c)'
    BY <1>1, <1>t, <2>1, <2>3 DEF StartCheck, Ensure, Stage
  <2> QED BY <1>1, <1>t, <2>1, <2>2, <2>4, CommandMoves DEF StartCheck, Ensure
<1>2. CASE \E s \in FreshSups : Spawn(c, s)
  <2>1. PICK s \in Sups : Spawn(c, s)
    BY <1>2, FreshOnes
  <2>2. ~crossed /\ ~blind => SvLive' = {s}
    BY <1>t, <2>1 DEF PidFileInv, Stage, Spawn, SvGo, SvLive
  <2>3. cmd'[c].at = "save" /\ cmd'[c].sup = s /\ \A d \in Commands \ {c} : cmd'[d] = cmd[d]
    BY <1>t, <2>1 DEF Spawn
  <2>4. crossed' = crossed /\ blind' = blind /\ cmd[c].at = "spawn" /\ svAt'[s] = "boot"
    BY <1>t, <2>1 DEF Spawn, SvGo
  <2> QED BY <1>0, <2>2, <2>3, <2>4 DEF PidFileInv, Known, Stage, CmdMidway
<1>3. CASE SavePid(c)
  <2>1. SvLive' = SvLive /\ svAt' = svAt /\ blind' = blind
    BY <1>3 DEF SavePid, SvLive
  <2>2. CASE cmd[c].at = "save"
    <3>1. supPid' = Blank /\ cmd'[c].at = "fill" /\ cmd'[c].sup = cmd[c].sup
      BY <1>3, <1>t, <2>2 DEF SavePid
    <3>2. ~crossed /\ ~blind => SvLive \subseteq {cmd[c].sup}
      BY <2>2 DEF PidFileInv, Stage
    <3>3. ~crossed /\ ~blind => Known' /\ Stage(c)'
      BY <2>1, <3>1, <3>2 DEF Known, Stage
    <3> QED BY <1>3, <1>t, <2>1, <3>3, CommandMoves DEF SavePid
  <2>3. CASE cmd[c].at = "fill"
    <3>1. supPid' = Filled(supPid, cmd[c].sup) /\ cmd'[c].at = "done"
      BY <1>3, <1>t, <2>3 DEF SavePid
    <3>2. ~crossed /\ ~blind => \A s \in SvLive : s = cmd[c].sup /\ supPid \in {s, Blank}
      BY <1>0, <2>3 DEF PidFileInv, Stage, Known
    <3>3. ~crossed /\ ~blind => \A s \in SvLive : supPid' = s
      BY <1>t, <3>1, <3>2, LifecycleAssumption DEF Filled, SvLive
    <3>4. ~crossed /\ ~blind => Known' /\ Stage(c)'
      BY <2>1, <3>1, <3>3 DEF Known, Stage
    <3> QED BY <1>3, <1>t, <2>1, <3>4, CommandMoves DEF SavePid
  <2> QED BY <1>3, <2>2, <2>3 DEF SavePid
<1>4. CASE Inspect(c) \/ StopReadRun(c) \/ (\E r \in FreshRunners : RunForeground(c, r))
  <2>1. SvLive' = SvLive /\ supPid' = supPid /\ svAt' = svAt /\ blind' = blind
    BY <1>4 DEF Inspect, StopReadRun, RunForeground, SvLive
  <2>2. ~crossed /\ ~blind => Known'
    BY <1>0, <1>4, <2>1 DEF Inspect, StopReadRun, RunForeground, Known
  <2>3. cmd[c].at \notin {"new", "done"} /\ \A d \in Commands \ {c} : cmd'[d] = cmd[d]
    BY <1>4, <1>t DEF Inspect, StopReadRun, RunForeground
  <2>4. ~crossed /\ ~blind => Stage(c)'
    BY <1>4, <1>t, <2>1 DEF Inspect, StopReadRun, RunForeground, Stage, PidFileInv
  <2> QED BY <1>4, <1>t, <2>1, <2>2, <2>3, <2>4, CommandMoves DEF Inspect, StopReadRun, RunForeground
<1>5. CASE StopReadSup(c)
  <2>1. SvLive' = SvLive /\ supPid' = supPid /\ svAt' = svAt /\ (blind => blind')
    BY <1>5 DEF StopReadSup, Blinded, SvLive
  <2>2. cmd'[c].at = "read_run" /\ cmd'[c].sup = ReadSup /\ \A d \in Commands \ {c} : cmd'[d] = cmd[d]
    BY <1>5, <1>t DEF StopReadSup
  <2>3. ~crossed /\ ~blind' => \A s \in SvLive : supPid = s /\ ReadSup = s
    BY <1>0, <1>5, <1>t DEF StopReadSup, Blinded, ReadSup
  <2>4. ~crossed /\ ~blind' => Known' /\ Stage(c)'
    BY <2>1, <2>2, <2>3 DEF Known, Stage
  <2> QED BY <1>5, <1>t, <2>1, <2>2, <2>4, CommandMoves DEF StopReadSup
<1>6. CASE StopSup(c)
  <2>1. SvLive' = SvLive \ {cmd[c].sup}
    BY <1>6, <1>t DEF StopSup, SvLive
  <2>2. ~crossed /\ ~blind => SvLive' = {}
    BY <1>6, <2>1 DEF StopSup, PidFileInv, Stage
  <2> QED BY <1>6, <1>t, <2>1, <2>2, CommandMoves DEF StopSup, Known, Stage
<1>7. CASE StopRunner(c) \/ StopUnlink(c)
  <2>1. SvLive' = SvLive /\ svAt' = svAt /\ blind' = blind
    BY <1>7 DEF StopRunner, StopUnlink, SvLive
  <2>2. ~crossed /\ ~blind => Known'
    BY <1>0, <1>7, <2>1 DEF StopRunner, StopUnlink, PidFileInv, Stage, Known
  <2>3. ~crossed /\ ~blind => Stage(c)'
    BY <1>7, <1>t, <2>1 DEF StopRunner, StopUnlink, PidFileInv, Stage
  <2> QED BY <1>7, <1>t, <2>1, <2>2, <2>3, CommandMoves DEF StopRunner, StopUnlink
<1> QED BY <1>1, <1>2, <1>3, <1>4, <1>5, <1>6, <1>7 DEF CmdStep

\* Every step keeps it.
LEMMA PidFileNext ==
  ASSUME TypedInv, PidFileInv, [Next]_vars, TypedInv'
  PROVE  PidFileInv'
<1>t. svAt \in [Sups -> SvPlaces]
  BY DEF TypedInv, TypeOK
<1>1. ASSUME NEW r \in Runners, RunnerRun(r) \/ Heartbeat(r) \/ ReapOrphan(r) PROVE PidFileInv'
  BY <1>1, PidFileSame DEF RunnerRun, Heartbeat, ReapOrphan, files, svVars, cmdVars, SvLive
<1>2. CASE Silence
  BY <1>2, PidFileSame DEF Silence, files, svVars, cmdVars, SvLive
<1>3. ASSUME NEW s \in Sups, SvStep(s) PROVE PidFileInv'
  <2> USE DEF SvGo, files, cmdVars, SvLive
  <2>1. CASE \E r \in FreshRunners : Launch(s, r)
    BY <1>t, <2>1, PidFileSame DEF Launch
  <2>2. CASE Wait(s)
    BY <1>t, <2>2, PidFileSame DEF Wait
  <2>3. CASE Record(s) \/ Judge(s) \/ Terminate(s)
    BY <1>t, <2>3, PidFileSame DEF Record, Judge, Terminate
  <2>4. CASE Supervise(s)
    <3>1. ~crossed /\ ~blind => SvLive' = {s} /\ SvLive = {s}
      BY <1>t, <2>4 DEF Supervise, PidFileInv
    <3>2. ~crossed /\ ~blind /\ svAt[s] = "sign" => supPid \in {s, Blank}
      BY DEF PidFileInv, Known
    <3>3. ~crossed /\ ~blind => (supPid' = Blank /\ svAt'[s] = "sign") \/ supPid' = s
      BY <1>t, <2>4, <3>2, LifecycleAssumption DEF Supervise, Filled
    <3>4. ~crossed /\ ~blind => Known'
      BY <3>1, <3>3 DEF Known
    <3> QED BY <1>t, <2>4, <3>4, PidFileKept DEF Supervise
  <2>5. CASE Leave(s)
    <3>1. ~crossed /\ ~blind => SvLive' = {}
      BY <1>t, <2>5 DEF Leave, PidFileInv
    <3>2. ~crossed /\ ~blind => Known'
      BY <3>1 DEF Known
    <3> QED BY <1>t, <2>5, <3>2, PidFileKept DEF Leave
  <2> QED BY <1>3, <2>1, <2>2, <2>3, <2>4, <2>5 DEF SvStep
<1>4. ASSUME NEW c \in Commands, Issue(c) PROVE PidFileInv'
  <2>1. SvLive' = SvLive /\ supPid' = supPid /\ svAt' = svAt /\ blind' = blind
    BY <1>4 DEF Issue, svVars, files, SvLive
  <2>2. ~crossed' => CmdMidway = {} /\ ~crossed
    BY <1>4 DEF Issue, TypedInv, TypeOK
  <2>3. /\ \A d \in Commands \ {c} : cmd'[d] = cmd[d]
        /\ cmd'[c].at \in {"start", "stop", "ensure", "run"}
    BY <1>4, LifecycleAssumption DEF Issue, CmdGo, TypedInv, TypeOK
  <2> QED BY <2>1, <2>2, <2>3 DEF PidFileInv, CmdMidway, Known, Stage
<1>5. ASSUME NEW c \in Commands, CmdStep(c) PROVE PidFileInv'
  BY <1>5, PidFileCommand
<1>6. ASSUME NEW r \in Runners, Hang(r) \/ CrashRunner(r) PROVE PidFileInv'
  BY <1>6, PidFileSame DEF Hang, CrashRunner, files, svVars, cmdVars, SvLive
<1>7. ASSUME NEW s \in Sups, CrashSupervisor(s) PROVE PidFileInv'
  BY <1>t, <1>7, PidFileSame DEF CrashSupervisor, SvGo, files, cmdVars, SvLive
<1>8. CASE UNCHANGED vars
  BY <1>8, PidFileSame DEF vars, SvLive
<1> QED BY <1>1, <1>2, <1>3, <1>4, <1>5, <1>6, <1>7, <1>8 DEF Next

----------------------------------------------------------------------------
(* What supervisors make of heartbeats and exits.                           *)

\* Steps which move no supervisor, launch nothing and make no heartbeat stale.
LEMMA WatchKept ==
  ASSUME TypedInv, WatchInv, [Next]_vars, child' = child, hung \subseteq hung',
         \A s \in Sups : svAt'[s] = svAt[s] \/ svAt'[s] \notin {"new", "boot", "sign", "launch"},
         hbStale' => hbStale /\ hbBy' = hbBy
  PROVE  WatchInv'
<1>1. \A r \in Runners : Dead(r) => at'[r] = at[r]
  BY LockStep, EndedForGood DEF TypedInv, TypeOK
<1>2. \A s \in Sups : child[s] \in Runners \cup {Nobody}
  BY DEF TypedInv, TypeOK
<1>3. Heir'
  BY <1>1, <1>2 DEF WatchInv, Heir
<1>4. Judged'
  BY <1>1 DEF WatchInv, Judged
<1> QED BY <1>3, <1>4 DEF WatchInv

\* Every step keeps it.
LEMMA WatchNext ==
  ASSUME TypedInv, WatchInv, [Next]_vars
  PROVE  WatchInv'
<1>0. \A r \in Runners : Dead(r) => at'[r] = at[r]
  BY LockStep, EndedForGood DEF TypedInv, TypeOK
<1>t. /\ svAt \in [Sups -> SvPlaces] /\ child \in [Sups -> Runners \cup {Nobody}] /\ LockTypeOK
      /\ hbStale \in BOOLEAN /\ hbBy \in Runners \cup {Nobody}
      /\ \A s \in Sups : svAt[s] \in {"terminate", "wait"} => child[s] \in Runners
  BY LifecycleAssumption DEF TypedInv, TypeOK, Launched
<1> USE DEF files, beat, svVars, cmdVars, faultVars
<1>1. ASSUME NEW r \in Runners, RunnerRun(r) \/ Heartbeat(r) \/ ReapOrphan(r) PROVE WatchInv'
  BY <1>1, WatchKept DEF RunnerRun, Heartbeat, ReapOrphan
<1>2. CASE Silence
  BY <1>2, <1>t DEF Silence, WatchInv, Heir, Judged, lockVars
<1>3. ASSUME NEW s \in Sups, SvStep(s) PROVE WatchInv'
  <2> USE DEF SvGo
  <2>1. CASE \E r \in FreshRunners : Launch(s, r)
    <3>1. PICK r \in Runners : Launch(s, r)
      BY <2>1, FreshOnes
    <3>2. Heir'
      BY <3>1, <1>0, <1>t DEF Launch, WatchInv, Heir
    <3>3. Judged'
      BY <3>1, <1>0, <1>t DEF Launch, WatchInv, Judged
    <3> QED BY <3>2, <3>3 DEF WatchInv
  <2>2. CASE Wait(s)
    <3>1. at' = at /\ at[child[s]] \in Ended /\ child' = child
      BY <2>2 DEF Wait, Reap
    <3>2. at[child[s]] # "done" \/ svAt'[s] = "leave"
      BY <2>2, <1>t DEF Wait
    <3>3. /\ svAt'[s] \in {"leave", "launch"} /\ UNCHANGED <<hbBy, hbStale, hung>>
          /\ \A t \in Sups \ {s} : svAt'[t] = svAt[t]
      BY <2>2, <1>t DEF Wait
    <3> QED BY <3>1, <3>2, <3>3 DEF WatchInv, Heir, Judged
  <2>4. CASE Supervise(s)
    BY <1>0, <1>t, <2>4 DEF Supervise, WatchInv, Heir, Judged, lockVars
  <2>5. CASE Record(s) \/ Judge(s) \/ Terminate(s) \/ Leave(s)
    BY <1>t, <2>5, WatchKept DEF Record, Judge, Terminate, Leave
  <2> QED BY <1>3, <2>1, <2>2, <2>4, <2>5 DEF SvStep
<1>4. ASSUME NEW c \in Commands, Issue(c) \/ CmdStep(c) PROVE WatchInv'
  <2>1. CASE \E s \in FreshSups : Spawn(c, s)
    BY <1>0, <1>t, <2>1, FreshOnes DEF Spawn, SvGo, WatchInv, Heir, Judged, lockVars
  <2>2. CASE StopSup(c)
    BY <1>t, <2>2, WatchKept DEF StopSup
  <2>3. CASE \/ Issue(c) \/ StartCheck(c) \/ SavePid(c) \/ Ensure(c) \/ Inspect(c) \/ StopReadSup(c)
             \/ StopReadRun(c) \/ StopRunner(c) \/ StopUnlink(c) \/ \E r \in FreshRunners : RunForeground(c, r)
    BY <2>3, WatchKept DEF Issue, StartCheck, SavePid, Ensure, Inspect, StopReadSup, StopReadRun,
       StopRunner, StopUnlink, RunForeground
  <2> QED BY <1>4, <2>1, <2>2, <2>3 DEF CmdStep
<1>5. ASSUME NEW r \in Runners, Hang(r) \/ CrashRunner(r) PROVE WatchInv'
  BY <1>5, WatchKept DEF Hang, CrashRunner
<1>6. ASSUME NEW s \in Sups, CrashSupervisor(s) PROVE WatchInv'
  BY <1>t, <1>6, WatchKept DEF CrashSupervisor, SvGo
<1>7. CASE UNCHANGED vars
  BY <1>7, WatchKept DEF vars
<1> QED BY <1>1, <1>2, <1>3, <1>4, <1>5, <1>6, <1>7 DEF Next

----------------------------------------------------------------------------
(* The runners of supervisors.                                              *)

\* The exceptions last.
LEMMA DisturbedForGood ==
  ASSUME TypedInv, [Next]_vars, Disturbed
  PROVE  Disturbed'
<1>t. /\ svAt \in [Sups -> SvPlaces]
      /\ cmd \in [Commands -> [at : CmdPlaces, sup : Sups \cup {Nobody}, run : Runners \cup {Nobody}]]
  BY DEF TypedInv, TypeOK
<1>1. (crossed => crossed') /\ (blind => blind')
  <2>1. blind \in BOOLEAN /\ crossed \in BOOLEAN
    BY DEF TypedInv, TypeOK
  <2> QED BY <2>1 DEF Blinded, Next, vars, RunnerRun, Heartbeat, Silence, ReapOrphan, SvStep, Supervise, Launch, Record, Judge,
     Terminate, Wait, Leave, CmdStep, Issue, StartCheck, Spawn, SavePid, Ensure, Inspect, StopReadSup,
     StopReadRun, StopSup, StopRunner, StopUnlink, RunForeground, Hang, CrashRunner, CrashSupervisor, cmdVars
<1>2. ASSUME NEW s \in Sups, svAt[s] = "killed" PROVE svAt'[s] = "killed"
  BY <1>2, <1>t, FreshOnes DEF Next, vars, RunnerRun, Heartbeat, Silence, ReapOrphan, SvStep, Supervise, Launch,
     Record, Judge, Terminate, Wait, Leave, CmdStep, Issue, StartCheck, Spawn, SavePid, Ensure, Inspect,
     StopReadSup, StopReadRun, StopSup, StopRunner, StopUnlink, RunForeground, Hang, CrashRunner,
     CrashSupervisor, svVars, SvGo, SvLive
<1>3. ASSUME NEW c \in Commands, cmd[c].at = "done" PROVE cmd'[c].at = "done"
  <2>1. ASSUME NEW d \in Commands, Issue(d) \/ CmdStep(d) PROVE cmd'[c].at = "done"
    <3>1. d # c
      BY <1>3, <2>1 DEF CmdStep, Issue, StartCheck, Spawn, SavePid, Ensure, Inspect, StopReadSup,
         StopReadRun, StopSup, StopRunner, StopUnlink, RunForeground
    <3> QED BY <1>3, <1>t, <2>1, <3>1 DEF CmdStep, CmdGo, Issue, StartCheck, Spawn, SavePid, Ensure, Inspect,
         StopReadSup, StopReadRun, StopSup, StopRunner, StopUnlink, RunForeground
  <2> QED BY <1>3, <2>1 DEF Next, vars, RunnerRun, Heartbeat, Silence, ReapOrphan, SvStep, Supervise, Launch,
     Record, Judge, Terminate, Wait, Leave, Hang, CrashRunner, CrashSupervisor, cmdVars
<1> QED BY <1>1, <1>2, <1>3 DEF Disturbed

\* Runners go on, or end: nobody new, and the supervisors of the living stay.
LEMMA ChildKept ==
  ASSUME TypedInv, PidFileInv, ChildInv, [Next]_vars, Alive' \subseteq Alive,
         ~Disturbed' /\ ~Disturbed => \A r \in Alive' : Watched(r) => Watched(r)'
  PROVE  ChildInv'
<1> SUFFICES ASSUME ~Disturbed' PROVE ~overlapped' /\ \A r \in Alive' : Watched(r)'
  BY DEF ChildInv
<1>1. ~Disturbed /\ ~overlapped /\ \A r \in Alive : Watched(r)
  BY DisturbedForGood DEF ChildInv
<1>2. \A q, r \in Alive : q = r
  <2>1. \A s, t \in SvLive : s = t
    BY <1>1, OneLives DEF OneSupervisor, Disturbed
  <2> QED BY <1>1, <2>1 DEF Watched
<1>3. \A r \in Runners : at[r] = "look" => Acquiring = {}
  BY <1>2 DEF Alive, Acquiring, Midway
<1>4. ~overlapped'
  BY <1>1, <1>3, LockStep DEF TypedInv, TypeOK, LockTypeOK, LockNext, lockVars, Begin, Boot, Abort,
     Acquire, Look, Read, Refuse, FindStale, Unlink, Create, Write, Return, Release, Kill, Reap
<1> QED BY <1>1, <1>4

\* A step of the lock other than a launch lets nobody live who did not.
LEMMA NobodyNew ==
  ASSUME LockTypeOK, NEW r \in Runners,
         \/ Boot(r) \/ Abort(r) \/ Acquire(r) \/ Return(r) \/ (\E code \in {"done", "failed"} : Release(r, code))
         \/ Kill(r) \/ Reap(r)
  PROVE  Alive' \subseteq Alive
  BY DEF LockTypeOK, Alive, Boot, Abort, Acquire, Look, Read, Refuse, FindStale, Unlink, Create, Write,
     Return, Release, Kill, Reap, Go

\* Every step keeps it.
LEMMA ChildNext ==
  ASSUME TypedInv, PidFileInv, ChildInv, [Next]_vars
  PROVE  ChildInv'
<1>t. /\ svAt \in [Sups -> SvPlaces] /\ child \in [Sups -> Runners \cup {Nobody}] /\ LockTypeOK
      /\ cmd \in [Commands -> [at : CmdPlaces, sup : Sups \cup {Nobody}, run : Runners \cup {Nobody}]]
      /\ \A s \in Sups : svAt[s] \in {"terminate", "wait"} => child[s] \in Runners
      /\ \A c \in Commands : cmd[c].at = "run" => Kind[c] = "run"
  BY DEF TypedInv, TypeOK, Launched
<1>0. ~Disturbed => \A s, t \in SvLive : s = t
  BY OneLives DEF OneSupervisor, Disturbed
<1> USE DEF files, beat, svVars, cmdVars, faultVars
<1>1. ASSUME NEW r \in Runners, RunnerRun(r) \/ Heartbeat(r) \/ ReapOrphan(r) PROVE ChildInv'
  <2>1. Alive' \subseteq Alive
    BY <1>1, <1>t, NobodyNew DEF RunnerRun, Heartbeat, ReapOrphan, Alive, lockVars
  <2>2. svAt' = svAt /\ child' = child
    BY <1>1 DEF RunnerRun, Heartbeat, ReapOrphan
  <2> QED BY <2>1, <2>2, ChildKept DEF Watched, SvLive
<1>2. CASE Silence
  BY <1>2, ChildKept DEF Silence, Watched, SvLive, Alive, lockVars
<1>3. ASSUME NEW s \in Sups, SvStep(s) PROVE ChildInv'
  <2> USE DEF SvGo
  <2>1. CASE \E r \in FreshRunners : Launch(s, r)
    <3>1. PICK r \in Runners : Launch(s, r)
      BY <2>1, FreshOnes
    <3> SUFFICES ASSUME ~Disturbed' PROVE ~overlapped' /\ \A q \in Alive' : Watched(q)'
      BY DEF ChildInv
    <3>2. ~Disturbed
      BY DisturbedForGood
    <3>3. Alive = {}
      BY <1>0, <1>t, <3>1, <3>2 DEF ChildInv, Watched, Launch, SvLive
    <3>4. Alive' = {r} /\ overlapped' = overlapped
      BY <1>t, <3>1, <3>3 DEF Launch, Begin, Go, Alive, LockTypeOK
    <3>5. Watched(r)'
      BY <1>t, <3>1 DEF Launch, Watched, SvLive
    <3> QED BY <3>2, <3>4, <3>5 DEF ChildInv
  <2>2. CASE Wait(s)
    <3>1. Alive' \subseteq Alive
      BY <2>2, <1>t, NobodyNew DEF Wait
    <3>2. ASSUME NEW r \in Alive, Watched(r) PROVE Watched(r)'
      BY <2>2, <3>2, <1>t DEF Wait, Watched, SvLive, Alive
    <3> QED BY <3>1, <3>2, ChildKept
  <2>3. CASE Supervise(s) \/ Record(s) \/ Judge(s) \/ Leave(s)
    <3>1. at' = at /\ child' = child
      BY <2>3 DEF Supervise, Record, Judge, Leave, lockVars
    <3>2. ASSUME NEW r \in Alive, Watched(r) PROVE Watched(r)'
      BY <2>3, <3>1, <3>2, <1>t DEF Supervise, Record, Judge, Leave, Watched, SvLive
    <3> QED BY <3>1, <3>2, ChildKept DEF Alive
  <2>4. CASE Terminate(s)
    <3>1. Alive' \subseteq Alive /\ child[s] \notin Alive'
      BY <2>4, <1>t, NobodyNew DEF Terminate, Terminated, Alive, lockVars, Kill, Go, LockTypeOK
    <3>2. ASSUME NEW r \in Alive', Watched(r) PROVE Watched(r)'
      BY <2>4, <3>1, <3>2, <1>t DEF Terminate, Watched, SvLive
    <3> QED BY <3>1, <3>2, ChildKept
  <2> QED BY <1>3, <2>1, <2>2, <2>3, <2>4 DEF SvStep
<1>4. ASSUME NEW c \in Commands, Issue(c) \/ CmdStep(c) PROVE ChildInv'
  <2>1. CASE \E s \in FreshSups : Spawn(c, s)
    <3>1. PICK s \in Sups : Spawn(c, s) /\ svAt[s] = "new"
      BY <2>1, FreshOnes
    <3>2. ASSUME NEW r \in Alive, Watched(r) PROVE Watched(r)'
      BY <3>1, <3>2, <1>t DEF Spawn, SvGo, Watched, SvLive
    <3> QED BY <3>1, <3>2, ChildKept DEF Spawn, Alive, lockVars
  <2>2. CASE StopSup(c)
    <3>1. ~Disturbed' => svAt' = svAt
      BY <2>2, <1>t DEF StopSup, Disturbed, SvLive
    <3> QED BY <2>2, <3>1, ChildKept DEF StopSup, Watched, SvLive, Alive, lockVars
  <2>3. CASE StopRunner(c)
    <3>1. Alive' \subseteq Alive
      BY <2>3, <1>t, NobodyNew DEF StopRunner, Terminated, Alive, lockVars
    <3> QED BY <2>3, <3>1, ChildKept DEF StopRunner, Watched, SvLive
  <2>4. CASE \E r \in FreshRunners : RunForeground(c, r)
    <3>1. Disturbed'
      BY <2>4, <1>t DEF RunForeground, CmdGo, Disturbed
    <3> QED BY <3>1 DEF ChildInv
  <2>5. CASE \/ Issue(c) \/ StartCheck(c) \/ SavePid(c) \/ Ensure(c) \/ Inspect(c) \/ StopReadSup(c)
             \/ StopReadRun(c) \/ StopUnlink(c)
    <3>1. UNCHANGED <<svAt, child, at>>
      BY <2>5 DEF Issue, StartCheck, SavePid, Ensure, Inspect, StopReadSup, StopReadRun, StopUnlink, lockVars
    <3> QED BY <3>1, ChildKept DEF Watched, SvLive, Alive
  <2> QED BY <1>4, <2>1, <2>2, <2>3, <2>4, <2>5 DEF CmdStep
<1>5. ASSUME NEW r \in Runners, Hang(r) \/ CrashRunner(r) PROVE ChildInv'
  <2>1. Alive' \subseteq Alive
    BY <1>5, <1>t, NobodyNew DEF Hang, CrashRunner, Alive, lockVars
  <2> QED BY <1>5, <2>1, ChildKept DEF Hang, CrashRunner, Watched, SvLive
<1>6. ASSUME NEW s \in Sups, CrashSupervisor(s) PROVE ChildInv'
  <2>1. Disturbed'
    BY <1>6, <1>t DEF CrashSupervisor, SvGo, Disturbed
  <2> QED BY <2>1 DEF ChildInv
<1>7. CASE UNCHANGED vars
  BY <1>7, ChildKept DEF vars, Watched, SvLive, Alive
<1> QED BY <1>1, <1>2, <1>3, <1>4, <1>5, <1>6, <1>7 DEF Next

----------------------------------------------------------------------------
(* The runner's pid file.                                                   *)

\* Steps after which no supervisor has a runner it did not have and nobody has written the
\* file of a runner which goes on.
LEMMA ReachKept ==
  ASSUME TypedInv, ReachInv, [Next]_vars, runPid' = runPid,
         ~Disturbed' => \A s \in Sups :
           /\ svAt'[s] \in {"fill", "poll", "terminate"} => child'[s] = child[s] /\ svAt[s] \in {"fill", "poll", "terminate"}
           /\ svAt'[s] \in {"poll", "terminate"} => svAt[s] \in {"poll", "terminate"},
         \A r \in Runners : at'[r] = at[r] \/ at'[r] \notin {"boot", "sign", "look", "work"} \cup Midway
  PROVE  ReachInv'
<1> SUFFICES ASSUME ~Disturbed', NEW s \in Sups, svAt'[s] \in {"fill", "poll", "terminate"}
             PROVE  Reachable(s)'
  BY DEF ReachInv, Reachable
<1>1. ~Disturbed /\ Reachable(s)
  BY DisturbedForGood DEF ReachInv
<1>2. child[s] \in Runners /\ child'[s] = child[s]
  BY DEF TypedInv, Launched
<1> QED BY <1>1, <1>2 DEF Reachable

\* The runner's own steps.
LEMMA ReachRunner ==
  ASSUME TypedInv, PidFileInv, ChildInv, ReachInv, [Next]_vars, NEW r \in Runners, RunnerRun(r)
  PROVE  ReachInv'
<1> SUFFICES ASSUME ~Disturbed', NEW s \in Sups, svAt[s] \in {"fill", "poll", "terminate"}
             PROVE  Reachable(s)'
  BY DEF ReachInv, Reachable, RunnerRun, svVars
<1>0. svAt' = svAt /\ child' = child
  BY DEF RunnerRun, svVars
<1>1. ~Disturbed /\ Reachable(s)
  BY DisturbedForGood DEF ReachInv
<1> USE DEF Midway
<1>t. at \in [Runners -> LockPlaces] /\ Blank # Nobody /\ child[s] \in Runners
  BY LifecycleAssumption DEF TypedInv, TypeOK, LockTypeOK, Launched
<1>2. r \in Alive
  BY <1>t DEF RunnerRun, Alive, Boot, Acquire, Abort, Look, Read, Refuse, FindStale, Unlink, Create,
     Write, Return, Release, Midway
<1>3. child[s] = r
  <2>1. s \in SvLive /\ \A t \in SvLive : t = s
    BY <1>1, OneLives DEF OneSupervisor, Disturbed, SvLive
  <2> QED BY <1>1, <1>2, <2>1 DEF ChildInv, Watched
<1>4. CASE Boot(r) /\ runPid' = IF at[r] = "boot" THEN Blank ELSE Filled(runPid, r)
  BY <1>0, <1>1, <1>3, <1>4, <1>t DEF Boot, Go, Filled, Reachable
<1>5. CASE /\ Acquire(r) \/ (MayFail /\ Abort(r))
           /\ runPid' = IF at'[r] = "failed" THEN Nobody ELSE runPid
  <2>1. at'[r] = "failed" \/ (runPid' = runPid /\ at[r] \in {"look"} \cup Midway)
    BY <1>5, <1>t DEF Acquire, Abort, Look, Read, Refuse, FindStale, Unlink, Create, Write, Go
  <2> QED BY <1>0, <1>1, <1>3, <1>t, <2>1 DEF Reachable
<1>6. CASE Return(r) \/ \E code \in {"done", "failed"} : Release(r, code)
  BY <1>0, <1>3, <1>6, <1>t DEF Return, Release, Go, Reachable
<1> QED BY <1>4, <1>5, <1>6 DEF RunnerRun

\* Every step keeps it.
LEMMA ReachNext ==
  ASSUME TypedInv, PidFileInv, ChildInv, ReachInv, [Next]_vars
  PROVE  ReachInv'
<1>t. /\ svAt \in [Sups -> SvPlaces] /\ child \in [Sups -> Runners \cup {Nobody}] /\ at \in [Runners -> LockPlaces]
      /\ \A s \in Sups : svAt[s] \in {"fill", "poll", "terminate", "wait"} => child[s] \in Runners
      /\ Blank # Nobody
  BY LifecycleAssumption DEF TypedInv, TypeOK, LockTypeOK, Launched
<1>0. ~Disturbed' => ~Disturbed /\ \A s, t \in SvLive : s = t
  BY DisturbedForGood, OneLives DEF OneSupervisor, Disturbed
<1> USE DEF files, beat, svVars, cmdVars, faultVars, lockVars
<1>1. ASSUME NEW r \in Runners, Heartbeat(r) \/ ReapOrphan(r) PROVE ReachInv'
  BY <1>1, ReachKept DEF Heartbeat, ReapOrphan, Reap
<1>2. CASE Silence
  BY <1>2, ReachKept DEF Silence
<1>3. ASSUME NEW s \in Sups, SvStep(s) PROVE ReachInv'
  <2> USE DEF SvGo
  <2>1. CASE (\E r \in FreshRunners : Launch(s, r)) \/ Supervise(s) \/ Leave(s) \/ Wait(s)
    <3>1. \A t \in SvLive : svAt'[t] \in {"fill", "poll", "terminate"} => t # s
      BY <1>t, <2>1 DEF Launch, Supervise, Leave, Wait
    <3>2. s \in SvLive /\ \A t \in Sups \ {s} : svAt'[t] = svAt[t]
      BY <1>t, <2>1 DEF Launch, Supervise, Leave, Wait, SvLive
    <3>3. ~Disturbed' => \A t \in Sups : svAt'[t] \notin {"fill", "poll", "terminate"}
      BY <1>0, <3>1, <3>2 DEF SvLive
    <3> QED BY <3>3 DEF ReachInv, Reachable
  <2>2. CASE Record(s)
    <3> SUFFICES ASSUME ~Disturbed', NEW t \in Sups, svAt'[t] \in {"fill", "poll", "terminate"}
                 PROVE  Reachable(t)'
      BY DEF ReachInv, Reachable
    <3>1. t = s
      BY <1>0, <1>t, <2>2 DEF Record, SvLive
    <3>2. at' = at /\ child' = child /\ Reachable(s)
      BY <1>0, <2>2 DEF Record, ReachInv
    <3>3. CASE svAt[s] = "record"
      BY <1>t, <2>2, <3>1, <3>3 DEF Record, Reachable
    <3>4. CASE svAt[s] = "fill"
      BY <1>t, <2>2, <3>1, <3>2, <3>4 DEF Record, Reachable, Filled
    <3> QED BY <2>2, <3>3, <3>4 DEF Record
  <2>3. CASE Judge(s)
    BY <1>t, <2>3, ReachKept DEF Judge
  <2>4. CASE Terminate(s)
    <3>1. \A r \in Runners : at'[r] = at[r] \/ at'[r] = "killed"
      BY <1>t, <2>4 DEF Terminate, Terminated, Kill, Go
    <3>2. /\ runPid' = runPid /\ child' = child
          /\ \A t \in Sups : svAt'[t] = svAt[t] \/ svAt'[t] = "wait"
      BY <1>t, <2>4 DEF Terminate
    <3> QED BY <3>1, <3>2, ReachKept DEF Midway
  <2> QED BY <1>3, <2>1, <2>2, <2>3, <2>4 DEF SvStep
<1>4. ASSUME NEW c \in Commands, Issue(c) \/ CmdStep(c) PROVE ReachInv'
  <2>1. CASE \E s \in FreshSups : Spawn(c, s)
    BY <1>t, <2>1, FreshOnes, ReachKept DEF Spawn, SvGo
  <2>2. CASE StopSup(c)
    BY <1>t, <2>2, ReachKept DEF StopSup
  <2>3. CASE StopRunner(c)
    <3>1. \A r \in Runners : at'[r] = at[r] \/ at'[r] = "killed"
      BY <1>t, <2>3 DEF StopRunner, Terminated, Kill, Go
    <3>2. UNCHANGED <<runPid, child, svAt>>
      BY <2>3 DEF StopRunner
    <3> QED BY <3>1, <3>2, ReachKept DEF Midway
  <2>4. CASE \E r \in FreshRunners : RunForeground(c, r)
    <3>1. Disturbed'
      <4>1. cmd \in [Commands -> [at : CmdPlaces, sup : Sups \cup {Nobody}, run : Runners \cup {Nobody}]]
            /\ (cmd[c].at = "run" => Kind[c] = "run")
        BY DEF TypedInv, TypeOK, Launched
      <4> QED BY <2>4, <4>1 DEF RunForeground, CmdGo, Disturbed
    <3> QED BY <3>1 DEF ReachInv
  <2>5. CASE \/ Issue(c) \/ StartCheck(c) \/ SavePid(c) \/ Ensure(c) \/ Inspect(c) \/ StopReadSup(c)
             \/ StopReadRun(c)
    BY <2>5, ReachKept DEF Issue, StartCheck, SavePid, Ensure, Inspect, StopReadSup, StopReadRun
  <2>6. CASE StopUnlink(c)
    <3>1. ~Disturbed' => SvLive = {} /\ svAt' = svAt
      BY <1>0, <2>6 DEF StopUnlink, PidFileInv, Stage, Disturbed
    <3> QED BY <3>1 DEF ReachInv, Reachable, SvLive
  <2> QED BY <1>4, <2>1, <2>2, <2>3, <2>4, <2>5, <2>6 DEF CmdStep
<1>5. ASSUME NEW r \in Runners, Hang(r) \/ CrashRunner(r) PROVE ReachInv'
  <2>1. \A q \in Runners : at'[q] = at[q] \/ at'[q] = "killed"
    BY <1>5, <1>t DEF Hang, CrashRunner, Kill, Go
  <2>2. UNCHANGED <<runPid, child, svAt>>
    BY <1>5 DEF Hang, CrashRunner
  <2> QED BY <2>1, <2>2, ReachKept DEF Midway
<1>6. ASSUME NEW s \in Sups, CrashSupervisor(s) PROVE ReachInv'
  <2>1. Disturbed'
    BY <1>6, <1>t DEF CrashSupervisor, SvGo, Disturbed
  <2> QED BY <2>1 DEF ReachInv
<1>7. CASE UNCHANGED vars
  BY <1>7, ReachKept DEF vars
<1>8. ASSUME NEW r \in Runners, RunnerRun(r) PROVE ReachInv'
  BY <1>8, ReachRunner
<1> QED BY <1>1, <1>2, <1>3, <1>4, <1>5, <1>6, <1>7, <1>8 DEF Next

----------------------------------------------------------------------------
(* The theorems.                                                            *)

\* ServiceInv is an invariant of the service.
THEOREM ServiceInvariant == Spec => []ServiceInv
<1>1. Init => ServiceInv
  <2> SUFFICES ASSUME Init PROVE ServiceInv
    OBVIOUS
  <2>1. LockInv /\ LockTypeOK
    BY LockInitInv DEF Init, LockInv
  <2>2. TypedInv
    <3>1. cmd \in [Commands -> [at : CmdPlaces, sup : Sups \cup {Nobody}, run : Runners \cup {Nobody}]]
      BY DEF Init, CmdPlaces
    <3>2. TypeOK
      <4>1. supPid \in Sups \cup {Nobody, Blank} /\ runPid \in Runners \cup {Nobody, Blank}
            /\ hbBy \in Runners \cup {Nobody} /\ hbStale \in BOOLEAN /\ crossed \in BOOLEAN /\ blind \in BOOLEAN
        BY DEF Init
      <4>2. svAt \in [Sups -> SvPlaces] /\ child \in [Sups -> Runners \cup {Nobody}]
        BY DEF Init, SvPlaces
      <4>3. restarts \in [Sups -> Nat] /\ hung \subseteq Runners /\ faults \in 0..MaxFaults
        BY LifecycleAssumption DEF Init
      <4> QED BY <2>1, <3>1, <4>1, <4>2, <4>3 DEF TypeOK
    <3>3. Launched
      BY DEF Init, Launched
    <3> QED BY <2>1, <3>2, <3>3 DEF TypedInv
  <2>3. SvLive = {} /\ CmdMidway = {} /\ Alive = {} /\ ~overlapped
    BY DEF Init, LockInit, SvLive, CmdMidway, Alive
  <2>4. PidFileInv /\ ChildInv /\ ReachInv
    BY <2>3 DEF Init, PidFileInv, Known, Stage, ChildInv, ReachInv, Reachable
  <2>5. WatchInv
    BY DEF Init, WatchInv, Heir, Judged
  <2> QED BY <2>2, <2>4, <2>5 DEF ServiceInv
<1>2. ServiceInv /\ [Next]_vars => ServiceInv'
  BY TypedNext, PidFileNext, WatchNext, ChildNext, ReachNext DEF ServiceInv
<1> QED BY <1>1, <1>2, PTL DEF Spec

\* Every behaviour of the service is one of RunnerLock: what is proved of the lock for
\* processes started and killed at will holds for those the service starts and kills.
THEOREM ServiceUsesLock == Spec => LockSpec
<1>1. Init => LockInit
  BY DEF Init
<1>2. ServiceInv /\ [Next]_vars => [LockNext]_lockVars
  BY LockStep DEF ServiceInv
<1> QED BY <1>1, <1>2, ServiceInvariant, PTL DEF Spec, LockSpec

\* Two supervisors live at the same time only after two commands overlapped, or one read
\* the file of a live supervisor while it was being written.
THEOREM OneSupervisorHolds == Spec => []OneSupervisor
<1>1. ServiceInv => OneSupervisor
  BY OneLives DEF ServiceInv
<1> QED BY <1>1, ServiceInvariant, PTL

\* Undisturbed, a supervisor has one runner which acquires the lock.
THEOREM SupervisionSoundHolds == Spec => []SupervisionSound
<1>1. ServiceInv => SupervisionSound
  BY DEF ServiceInv, TypedInv, ChildInv, Disturbed, SupervisionSound, SupervisionKeepsLockSafe
<1> QED BY <1>1, ServiceInvariant, PTL

\* And then two runners never work at the same time: the lock, which two acquisitions
\* that overlap can both get, is enough for the service.
THEOREM ServiceRunsOne == Spec => [](Disturbed \/ NoConcurrentRunners)
<1>1. ServiceInv => Disturbed \/ NoConcurrentRunners
  <2>1. LockInv => OneRunnerIfSerial
    BY DEF LockInv, Serial, OneRunnerIfSerial, Holders
  <2> QED BY <2>1 DEF ServiceInv, TypedInv, ChildInv, OneRunnerIfSerial, NoConcurrentRunners
<1> QED BY <1>1, ServiceInvariant, PTL

\* When a stop has ended, no supervisor lives, unless commands overlapped or a supervisor's
\* file was read while it was being written.
THEOREM StopEndsHolds == Spec => StopEnds
<1>1. ASSUME ServiceInv, [Next]_vars, NEW c \in Commands, cmd[c].at = "unlink", cmd'[c].at = "done", ~crossed, ~blind
      PROVE  SvLive' = {}
  <2>t. cmd \in [Commands -> [at : CmdPlaces, sup : Sups \cup {Nobody}, run : Runners \cup {Nobody}]]
    BY <1>1 DEF ServiceInv, TypedInv, TypeOK
  <2>1. SvLive = {}
    BY <1>1 DEF ServiceInv, PidFileInv, Stage
  <2>2. PICK d \in Commands : Issue(d) \/ CmdStep(d)
    BY <1>1 DEF Next, vars, RunnerRun, Heartbeat, Silence, ReapOrphan, SvStep, Supervise, Launch,
       Record, Judge, Terminate, Wait, Leave, Hang, CrashRunner, CrashSupervisor, cmdVars
  <2>3. d = c
    BY <1>1, <2>t, <2>2 DEF CmdStep, CmdGo, Issue, StartCheck, Spawn, SavePid, Ensure, Inspect,
       StopReadSup, StopReadRun, StopSup, StopRunner, StopUnlink, RunForeground
  <2>4. StopUnlink(c)
    BY <1>1, <2>2, <2>3 DEF CmdStep, Issue, StartCheck, Spawn, SavePid, Ensure, Inspect,
       StopReadSup, StopReadRun, StopSup, StopRunner, StopUnlink, RunForeground
  <2> QED BY <2>1, <2>4 DEF StopUnlink, SvLive, svVars
<1>2. ServiceInv /\ [Next]_vars =>
        [\A c \in Commands :
           cmd[c].at = "unlink" /\ cmd'[c].at = "done" /\ ~crossed /\ ~blind => SvLive' = {}]_vars
  BY <1>1
<1> QED BY <1>2, ServiceInvariant, PTL DEF Spec, StopEnds

\* A supervisor whose runner completed its work launches no other.
THEOREM CompletedNotRestartedHolds == Spec => CompletedNotRestarted
<1>1. ASSUME ServiceInv, [Next]_vars, NEW s \in Sups, NEW r \in Runners, child[s] = r, at[r] = "done"
      PROVE  child'[s] = r
  <2>1. ASSUME NEW t \in Sups, NEW q \in Runners, Launch(t, q) PROVE child'[s] = r
    <3>1. t # s
      BY <1>1, <2>1, LockAssumption DEF Launch, ServiceInv, WatchInv, Heir
    <3> QED BY <1>1, <2>1, <3>1 DEF Launch, ServiceInv, TypedInv, TypeOK
  <2>2. ASSUME NEW t \in Sups, SvStep(t) PROVE child'[s] = r
    BY <1>1, <2>1, <2>2, FreshOnes DEF SvStep, Supervise, Record, Judge, Terminate, Wait, Leave
  <2> QED BY <1>1, <2>2 DEF Next, vars, RunnerRun, Heartbeat, Silence, ReapOrphan, CmdStep, Issue, StartCheck,
       Spawn, SavePid, Ensure, Inspect, StopReadSup, StopReadRun, StopSup, StopRunner, StopUnlink,
       RunForeground, Hang, CrashRunner, CrashSupervisor, svVars
<1>2. ServiceInv /\ [Next]_vars =>
        [\A s \in Sups : \A r \in Runners : child[s] = r /\ at[r] = "done" => child'[s] = r]_vars
  BY <1>1
<1> QED BY <1>2, ServiceInvariant, PTL DEF Spec, CompletedNotRestarted

\* Only runners which are dead, hung or have not written a heartbeat are given up.
THEOREM HealthyNotTerminatedHolds == Spec => HealthyNotTerminated
<1>1. ServiceInv /\ [Next]_vars =>
        [\A s \in Sups : \A r \in Runners :
           child[s] = r /\ svAt[s] = "poll" /\ svAt'[s] = "terminate"
           => Dead(r) \/ r \in hung \/ hbBy # r]_vars
  <2> SUFFICES ASSUME ServiceInv, [Next]_vars, NEW s \in Sups, svAt[s] = "poll", svAt'[s] = "terminate"
               PROVE  hbStale
    BY DEF ServiceInv, WatchInv, Judged
  <2>t. svAt \in [Sups -> SvPlaces]
    BY DEF ServiceInv, TypedInv, TypeOK
  <2>1. \A t \in Sups : SvStep(t) => Judge(t) \/ svAt'[s] # "terminate"
    BY <2>t DEF SvStep, SvGo, Supervise, Launch, Record, Terminate, Wait, Leave
  <2> QED BY <2>t, <2>1, FreshOnes DEF Judge, Next, vars, RunnerRun, Heartbeat, Silence, ReapOrphan, CmdStep,
       Issue, StartCheck, Spawn, SavePid, Ensure, Inspect, StopReadSup, StopReadRun, StopSup, StopRunner,
       StopUnlink, RunForeground, Hang, CrashRunner, CrashSupervisor, svVars, SvGo
<1> QED BY <1>1, ServiceInvariant, PTL DEF Spec, HealthyNotTerminated

\* Undisturbed, the pid file names the runner its supervisor watches.
THEOREM RunnerReachableHolds == Spec => []RunnerReachable
<1>1. ServiceInv => RunnerReachable
  BY DEF ServiceInv, ReachInv, Reachable, RunnerReachable
<1> QED BY <1>1, ServiceInvariant, PTL

=============================================================================
