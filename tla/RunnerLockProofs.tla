-------------------------- MODULE RunnerLockProofs --------------------------
(***************************************************************************)
(* Invariants of RunnerLock, for every set of runner processes.            *)
(***************************************************************************)
EXTENDS RunnerLock, TLAPS

\* As long as acquisitions have not overlapped: one process at most is
\* acquiring, the lock file is that of whoever is about to work or works, its
\* pid is in it and answers, and a process acquiring meanwhile has not got
\* beyond asking for that very pid.
Serial ==
  /\ \A q, r \in Acquiring : q = r
  /\ \A q \in Runners : at[q] \in {"write"} \cup Holding => lockFile = q
  /\ \A q \in Holders : q \in written
  /\ \A r \in Acquiring, q \in Holders :
       at[r] = "read" \/ (at[r] = "check" /\ seen[r] = q)

LockInv ==
  /\ LockTypeOK
  /\ \A r \in reaped : at[r] \in Ended
  /\ LockLeftOnlyByKill
  /\ ~overlapped => Serial

USE DEF Midway, Holding, Ended, LockPlaces, Go

\* The invariant holds before any process has been started.
LEMMA LockInitInv == LockInit => LockInv
  BY LockAssumption DEF LockInit, LockInv, LockTypeOK, LockLeftOnlyByKill, Serial, Acquiring, Holders

\* Types, reaped processes and the owner of the lock file.
LEMMA LockFrame ==
  ASSUME LockInv, [LockNext]_lockVars
  PROVE  LockTypeOK' /\ (\A r \in reaped : at[r] \in Ended)' /\ LockLeftOnlyByKill'
<1> USE LockAssumption DEF LockInv, LockTypeOK, LockLeftOnlyByKill
<1>1. ASSUME NEW r \in Runners, Begin(r) \/ Boot(r) \/ Abort(r)
      PROVE  LockTypeOK' /\ (\A q \in reaped : at[q] \in Ended)' /\ LockLeftOnlyByKill'
  BY <1>1 DEF Begin, Boot, Abort
<1>2. ASSUME NEW r \in Runners, Acquire(r)
      PROVE  LockTypeOK' /\ (\A q \in reaped : at[q] \in Ended)' /\ LockLeftOnlyByKill'
  <2>1. CASE Look(r)       BY <2>1 DEF Look
  <2>2. CASE Read(r)       BY <2>2 DEF Read
  <2>3. CASE Refuse(r)     BY <2>3 DEF Refuse
  <2>4. CASE FindStale(r)  BY <2>4 DEF FindStale
  <2>5. CASE Unlink(r)     BY <2>5 DEF Unlink
  <2>6. CASE Create(r)     BY <2>6 DEF Create
  <2>7. CASE Write(r)      BY <2>7 DEF Write
  <2> QED BY <1>2, <2>1, <2>2, <2>3, <2>4, <2>5, <2>6, <2>7 DEF Acquire
<1>3. ASSUME NEW r \in Runners, NEW code \in {"done", "failed"}, Return(r) \/ Release(r, code)
      PROVE  LockTypeOK' /\ (\A q \in reaped : at[q] \in Ended)' /\ LockLeftOnlyByKill'
  BY <1>3 DEF Return, Release
<1>4. ASSUME NEW r \in Runners, Kill(r) \/ Reap(r)
      PROVE  LockTypeOK' /\ (\A q \in reaped : at[q] \in Ended)' /\ LockLeftOnlyByKill'
  BY <1>4 DEF Kill, Reap
<1>5. CASE UNCHANGED lockVars
  BY <1>5 DEF lockVars
<1> QED BY <1>1, <1>2, <1>3, <1>4, <1>5 DEF LockNext

\* One step of acquire, taken while no other process is acquiring.
LEMMA AcquireSerial ==
  ASSUME LockInv, Serial, NEW r \in Runners, Acquire(r), ~overlapped'
  PROVE  Serial'
<1> USE LockAssumption DEF LockInv, LockTypeOK, Serial, Acquiring, Holders
<1>1. CASE Look(r)
  <2>1. Acquiring = {}
    BY <1>1 DEF Look
  <2> QED BY <1>1, <2>1 DEF Look
<1>2. CASE Read(r)       BY <1>2 DEF Read
<1>3. CASE Refuse(r)     BY <1>3 DEF Refuse
<1>4. CASE FindStale(r)
  <2>1. \A q \in Holders : Running(q)
    BY DEF Running
  <2> QED BY <1>4, <2>1 DEF FindStale
<1>5. CASE Unlink(r)     BY <1>5 DEF Unlink
<1>6. CASE Create(r)     BY <1>6 DEF Create
<1>7. CASE Write(r)      BY <1>7 DEF Write
<1> QED BY <1>1, <1>2, <1>3, <1>4, <1>5, <1>6, <1>7 DEF Acquire

\* Each step of a runner keeps the invariant.
LEMMA LockNextInv ==
  ASSUME LockInv, [LockNext]_lockVars
  PROVE  LockInv'
<1>1. LockTypeOK' /\ (\A r \in reaped : at[r] \in Ended)' /\ LockLeftOnlyByKill'
  BY LockFrame
<1>2. ASSUME ~overlapped' PROVE Serial'
  <2>1. ~overlapped /\ Serial
    BY <1>2 DEF LockInv, LockTypeOK, LockNext, lockVars, Begin, Boot, Abort, Acquire, Look, Read, Refuse,
       FindStale, Unlink, Create, Write, Return, Release, Kill, Reap
  <2> USE LockAssumption DEF LockInv, LockTypeOK, Acquiring, Holders
  <2>2. ASSUME NEW r \in Runners, Begin(r) \/ Boot(r) \/ Abort(r) PROVE Serial'
    BY <2>1, <2>2 DEF Begin, Boot, Abort, Serial
  <2>3. ASSUME NEW r \in Runners, Acquire(r) PROVE Serial'
    BY <1>2, <2>1, <2>3, AcquireSerial
  <2>4. ASSUME NEW r \in Runners, Return(r) PROVE Serial'
    BY <2>1, <2>4 DEF Return, Serial
  <2>5. ASSUME NEW r \in Runners, NEW code \in {"done", "failed"}, Release(r, code) PROVE Serial'
    BY <2>1, <2>5 DEF Release, Serial
  <2>6. ASSUME NEW r \in Runners, Kill(r) PROVE Serial'
    BY <2>1, <2>6 DEF Kill, Serial
  <2>7. ASSUME NEW r \in Runners, Reap(r) PROVE Serial'
    BY <2>1, <2>7 DEF Reap, Serial
  <2>8. CASE UNCHANGED lockVars
    BY <2>1, <2>8 DEF lockVars, Serial
  <2> QED BY <2>2, <2>3, <2>4, <2>5, <2>6, <2>7, <2>8 DEF LockNext
<1> QED BY <1>1, <1>2 DEF LockInv

\* LockInv is an invariant.
THEOREM LockInvariant == LockSpec => []LockInv
  BY LockInitInv, LockNextInv, PTL DEF LockSpec

\* Every variable of the lock keeps its type.
THEOREM LockTypeCorrect == LockSpec => []LockTypeOK
<1>1. LockInv => LockTypeOK  BY DEF LockInv
<1> QED BY <1>1, LockInvariant, PTL

\* Two runners work at the same time only after two acquisitions overlapped.
THEOREM OneRunnerIfSerialHolds == LockSpec => []OneRunnerIfSerial
<1>1. LockInv => OneRunnerIfSerial
  BY DEF LockInv, Serial, OneRunnerIfSerial, Holders
<1> QED BY <1>1, LockInvariant, PTL

\* Runners which end by themselves leave no lock file behind.
THEOREM LockLeftOnlyByKillHolds == LockSpec => []LockLeftOnlyByKill
<1>1. LockInv => LockLeftOnlyByKill  BY DEF LockInv
<1> QED BY <1>1, LockInvariant, PTL

=============================================================================
