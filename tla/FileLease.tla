----------------------------- MODULE FileLease -----------------------------
(***************************************************************************)
(* FileLease and EpochFence of distributed_coordinator.py: coordinators    *)
(* which elect a leader through one JSON file, on a disk they share, and   *)
(* execute operations which present an epoch.                              *)
(*                                                                         *)
(* Every operation of a lease reads the file, decides, and only then       *)
(* truncates and writes it, or unlinks it.  A file which is missing and    *)
(* one which is truncated read alike, as {}.  Each coordinator is one      *)
(* thread with a holder name of its own.                                   *)
(***************************************************************************)
EXTENDS Integers

CONSTANTS
  Procs,         \* coordinators, which are also the holder names
  NoLeader,      \* no holder
  MaxAcquires    \* bound of the model: acquisitions

ASSUME LeaseAssumption == NoLeader \notin Procs /\ MaxAcquires \in Nat

VARIABLES
  file,          \* what the lease file says: holder and epoch; nth is history
  live,          \* its expiry_utc is not over
  doing,         \* where each coordinator is
  data,          \* what it is about to write
  epoch,         \* its lease object's _epoch
  op,            \* the grant whose epoch the operation it executes presented
  count,         \* acquisitions decided so far
  grants,        \* history: the acquisitions which have been written
  overlapped,       \* history: an operation has read the file during another one
  forgotten      \* history: a release or a crash has left no epoch to count from

vars == <<file, live, doing, data, epoch, op, count, grants, overlapped, forgotten>>

Blank == [holder |-> NoLeader, epoch |-> 0, nth |-> 0]
Changing == {p \in Procs : doing[p] \in {"truncate", "write", "unlink"}}
HeldBy(p) == file.holder = p /\ live

Turn(p, place) == doing' = [doing EXCEPT ![p] = place]
Reads(p) == doing[p] = "idle" /\ overlapped' = (overlapped \/ Changing # {})

Init ==
  /\ file = Blank /\ live = FALSE
  /\ doing = [p \in Procs |-> "idle"] /\ data = [p \in Procs |-> Blank]
  /\ epoch = [p \in Procs |-> 0] /\ op = [p \in Procs |-> Blank]
  /\ count = 0 /\ grants = {} /\ overlapped = FALSE /\ forgotten = FALSE

----------------------------------------------------------------------------
(* The lease.  What returns False changes nothing.                          *)

\* With what acquire finds free, the epoch of the lease object and of the file.
Take(p, free, e, inFile) ==
  /\ Reads(p) /\ free
  /\ count < MaxAcquires /\ count' = count + 1
  /\ epoch' = [epoch EXCEPT ![p] = e]
  /\ data' = [data EXCEPT ![p] = [holder |-> p, epoch |-> inFile, nth |-> count + 1]]
  /\ Turn(p, "truncate")
  /\ UNCHANGED <<file, live, op, grants, forgotten>>

Free(p) == file.holder \in {p, NoLeader} \/ ~live

\* Mutants of AcquireLease: a lease acquired again keeps its epoch; one is taken
\* which has not expired; only free ones are taken.
AcquireLease_Same(p) ==
  LET e == IF file.holder = p THEN file.epoch ELSE file.epoch + 1
  IN  Take(p, Free(p), e, e)
AcquireLease_Live(p) == Take(p, TRUE, file.epoch + 1, file.epoch + 1)
AcquireLease_Never(p) == Take(p, file.holder \in {p, NoLeader}, file.epoch + 1, file.epoch + 1)

\* acquire: free, its own, or expired.
AcquireLease(p) == Take(p, Free(p), file.epoch + 1, file.epoch + 1)

\* renew asks for the holder's name only, and keeps the epoch it has read.
Renew(p) ==
  /\ Reads(p) /\ file.holder = p
  /\ data' = [data EXCEPT ![p] = file]
  /\ Turn(p, "truncate")
  /\ UNCHANGED <<file, live, epoch, op, count, grants, forgotten>>

\* write_text opens the file, which empties it, ...
Truncate(p) ==
  /\ doing[p] = "truncate" /\ Turn(p, "write")
  /\ file' = Blank /\ live' = FALSE
  /\ UNCHANGED <<data, epoch, op, count, grants, overlapped, forgotten>>

\* ... and writes.
WriteLease(p) ==
  /\ doing[p] = "write" /\ Turn(p, "idle")
  /\ file' = data[p] /\ live' = TRUE
  /\ grants' = grants \cup {data[p]}
  /\ data' = [data EXCEPT ![p] = Blank]
  /\ UNCHANGED <<epoch, op, count, overlapped, forgotten>>

ReleaseLease(p) ==
  /\ Reads(p) /\ file.holder = p
  /\ Turn(p, "unlink")
  /\ UNCHANGED <<file, live, data, epoch, op, count, grants, forgotten>>

UnlinkLease(p) ==
  /\ doing[p] = "unlink" /\ Turn(p, "idle")
  /\ file' = Blank /\ live' = FALSE /\ forgotten' = TRUE
  /\ UNCHANGED <<data, epoch, op, count, grants, overlapped>>

----------------------------------------------------------------------------
(* The fence.                                                               *)

\* Mutant of Pass: the epoch is not compared.
Pass_AnyEpoch(p, g) ==
  /\ doing[p] = "idle" /\ HeldBy(p)
  /\ op' = [op EXCEPT ![p] = g] /\ Turn(p, "execute")
  /\ UNCHANGED <<file, live, data, epoch, count, grants, overlapped, forgotten>>

\* fenced_execute when validate_epoch accepts: it reads the file for the
\* holder, but compares the epoch with that of its own lease object.
Pass(p, g) ==
  /\ doing[p] = "idle" /\ HeldBy(p) /\ g.epoch = epoch[p]
  /\ op' = [op EXCEPT ![p] = g] /\ Turn(p, "execute")
  /\ UNCHANGED <<file, live, data, epoch, count, grants, overlapped, forgotten>>

\* fn returns or raises.
Execute(p) ==
  /\ doing[p] = "execute" /\ Turn(p, "idle")
  /\ op' = [op EXCEPT ![p] = Blank]
  /\ UNCHANGED <<file, live, data, epoch, count, grants, overlapped, forgotten>>

----------------------------------------------------------------------------
(* Time and crashes.                                                        *)

Expire ==
  /\ live /\ live' = FALSE
  /\ UNCHANGED <<file, doing, data, epoch, op, count, grants, overlapped, forgotten>>

\* A new process makes a new lease object.
Crash(p) ==
  /\ doing[p] # "down" /\ Turn(p, "down")
  /\ forgotten' = (forgotten \/ doing[p] = "write")
  /\ data' = [data EXCEPT ![p] = Blank] /\ op' = [op EXCEPT ![p] = Blank]
  /\ epoch' = [epoch EXCEPT ![p] = 0]
  /\ UNCHANGED <<file, live, count, grants, overlapped>>

Restart(p) ==
  /\ doing[p] = "down" /\ Turn(p, "idle")
  /\ UNCHANGED <<file, live, data, epoch, op, count, grants, overlapped, forgotten>>

LeaseStep(p) == Truncate(p) \/ WriteLease(p) \/ UnlinkLease(p) \/ Execute(p)

Next ==
  \/ \E p \in Procs :
       \/ AcquireLease(p) \/ Renew(p) \/ ReleaseLease(p) \/ LeaseStep(p)
       \/ \E g \in grants : g.holder = p /\ Pass(p, g)
       \/ Crash(p) \/ Restart(p)
  \/ Expire

\* A started operation ends, time passes, and coordinators want to lead.
Fairness ==
  /\ WF_vars(Expire)
  /\ \A p \in Procs : WF_vars(LeaseStep(p)) /\ SF_vars(AcquireLease(p))

Spec == Init /\ [][Next]_vars /\ Fairness

----------------------------------------------------------------------------
Grants == [holder : Procs \cup {NoLeader}, epoch : 0..MaxAcquires, nth : 0..MaxAcquires]

\* Every variable has its type.
TypeOK ==
  /\ file \in Grants /\ live \in BOOLEAN
  /\ doing \in [Procs -> {"idle", "truncate", "write", "unlink", "execute", "down"}]
  /\ data \in [Procs -> Grants] /\ op \in [Procs -> Grants]
  /\ epoch \in [Procs -> 0..MaxAcquires] /\ count \in 0..MaxAcquires
  /\ grants \subseteq Grants /\ overlapped \in BOOLEAN /\ forgotten \in BOOLEAN

\* Epochs count acquisitions: a later one never has the same or a smaller epoch,
\* however leaders lapse, crash and return, as long as no operation reads the
\* file during another one and the file itself is not lost.
EpochsIncrease ==
  ~overlapped /\ ~forgotten =>
    \A g, h \in grants : g.nth < h.nth => g.epoch < h.epoch

\* Under the same conditions the fence passes operations of the latest leader
\* only, although it compares epochs with its own lease object, not the file.
OnlyLatestPasses ==
  [][\A p \in Procs :
       /\ doing[p] = "idle" /\ doing'[p] = "execute" /\ ~overlapped /\ ~forgotten
       => \A g \in grants : g.nth <= op'[p].nth]_vars

\* Nobody is about to overwrite or unlink an unexpired lease of somebody else,
\* whatever was renewed, taken over or crashed before, unless operations overlap.
LiveLeaseKept ==
  ~overlapped =>
    \A p, q \in Procs : HeldBy(p) /\ doing[q] \in {"truncate", "unlink"} => p = q

\* The lease of a leader which is down and stays down goes to somebody else, as
\* long as somebody else is up.
LeaseReclaimed ==
  \A p \in Procs :
    file.holder = p /\ doing[p] = "down"
      ~> file.holder # p \/ doing[p] # "down" \/ count = MaxAcquires
           \/ \A q \in Procs : doing[q] = "down"

=============================================================================
