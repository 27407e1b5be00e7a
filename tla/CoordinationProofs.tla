-------------------------- MODULE CoordinationProofs --------------------------
(***************************************************************************)
(* Safety of FileLease, for any number of coordinators and acquisitions, and *)
(* of ExecutionDAG, for every graph, with or without nodes which do not    *)
(* exist, and any number of saves, crashes and restores.                   *)
(***************************************************************************)
EXTENDS FileLease, ExecutionDAG, TLAPS

Older(g, h) == g.nth < h.nth /\ g.epoch < h.epoch

\* What a coordinator is about to write is new, or the latest grant again.
Good(r) ==
  \/ \A g \in grants : Older(g, r)
  \/ r \in grants /\ \A g \in grants : g = r \/ Older(g, r)

\* At most one coordinator is changing the file.
Alone == \A p, q \in Changing : p = q

\* What an untouched file and its history look like.
Ordered ==
  /\ \A g, h \in grants : g.nth < h.nth => g.epoch < h.epoch
  /\ \A p \in Procs : doing[p] \in {"truncate", "write"} => Good(data[p])
  /\ \A p \in Procs : doing[p] = "write" => file = Blank
  /\ (\A p \in Procs : doing[p] # "write") =>
       \/ file = Blank /\ grants = {}
       \/ file \in grants /\ \A g \in grants : g = file \/ Older(g, file)

\* Grants and what is about to become one belong to their coordinator, and its
\* lease object knows their epoch unless it was made after them.
Owned ==
  /\ \A g \in grants : g.holder \in Procs /\ g.epoch \in 1..count /\ g.nth <= count
  /\ file = Blank \/ file \in grants
  /\ live => file # Blank
  /\ \A p \in Procs : doing[p] \in {"truncate", "write"} =>
       /\ data[p].holder = p /\ data[p].epoch \in 1..count /\ data[p].nth <= count
       /\ epoch[p] \in {0, data[p].epoch}
  /\ \A p \in Procs : file.holder = p /\ doing[p] \notin {"truncate", "write"} =>
       epoch[p] \in {0, file.epoch}

LInv ==
  /\ TypeOK /\ Owned /\ LiveLeaseKept
  /\ ~overlapped => Alone
  /\ ~overlapped /\ ~forgotten => Ordered

USE DEF Turn

\* The invariant holds when no file exists yet.
LEMMA LeaseInitInv == Init => LInv
<1> SUFFICES ASSUME Init PROVE LInv
  OBVIOUS
<1> USE LeaseAssumption DEF Init
<1>1. TypeOK
  <2>1. Blank \in Grants
    BY DEF Blank, Grants
  <2>2. live \in BOOLEAN /\ overlapped \in BOOLEAN /\ forgotten \in BOOLEAN
    BY Zenon
  <2>3. file \in Grants /\ data \in [Procs -> Grants] /\ op \in [Procs -> Grants]
    BY <2>1
  <2>4. epoch \in [Procs -> 0..MaxAcquires] /\ count \in 0..MaxAcquires
    OBVIOUS
  <2>5. doing \in [Procs -> {"idle", "truncate", "write", "unlink", "execute", "down"}]
    OBVIOUS
  <2>6. grants \subseteq Grants
    OBVIOUS
  <2> QED BY <2>2, <2>3, <2>4, <2>5, <2>6 DEF TypeOK
<1>2. Owned /\ LiveLeaseKept /\ Alone /\ Ordered
  BY DEF Owned, LiveLeaseKept, HeldBy, Alone, Changing, Ordered, Blank
<1> QED BY <1>1, <1>2 DEF LInv

\* What reading the file yields is in range.
LEMMA FileInRange ==
  ASSUME LInv
  PROVE  /\ file.epoch \in 0..count /\ file.nth \in 0..count /\ file.holder \in Procs \cup {NoLeader}
         /\ file.holder \in Procs => file \in grants
         /\ live => file \in grants
  BY LeaseAssumption DEF LInv, TypeOK, Owned, Grants, Blank

\* Types survive every step.
LEMMA TypeStep == LInv /\ [Next]_vars => TypeOK'
<1> SUFFICES ASSUME LInv, [Next]_vars PROVE TypeOK'
  OBVIOUS
<1> USE LeaseAssumption DEF LInv, TypeOK
<1>f. file.epoch \in 0..count
  BY FileInRange
<1>b. Blank \in Grants
  BY DEF Blank, Grants
<1>1. ASSUME NEW p \in Procs, AcquireLease(p) PROVE TypeOK'
  <2>1. file.epoch + 1 \in 0..MaxAcquires /\ count + 1 \in 0..MaxAcquires
    BY <1>1, <1>f DEF AcquireLease, Take
  <2>2. [holder |-> p, epoch |-> file.epoch + 1, nth |-> count + 1] \in Grants
    BY <2>1 DEF Grants
  <2> QED BY <1>1, <2>1, <2>2 DEF AcquireLease, Take, Reads
<1>2. ASSUME NEW p \in Procs, Renew(p) \/ ReleaseLease(p) PROVE TypeOK'
  BY <1>2 DEF Renew, ReleaseLease, Reads
<1>3. ASSUME NEW p \in Procs, LeaseStep(p) PROVE TypeOK'
  <2>1. CASE Truncate(p)  BY <2>1, <1>b DEF Truncate
  <2>2. CASE WriteLease(p)     BY <2>2, <1>b DEF WriteLease
  <2>3. CASE UnlinkLease(p)    BY <2>3, <1>b DEF UnlinkLease
  <2>4. CASE Execute(p)   BY <2>4, <1>b DEF Execute
  <2> QED BY <1>3, <2>1, <2>2, <2>3, <2>4 DEF LeaseStep
<1>4. ASSUME NEW p \in Procs, NEW g \in grants, Pass(p, g) PROVE TypeOK'
  BY <1>4 DEF Pass
<1>5. ASSUME NEW p \in Procs, Crash(p) PROVE TypeOK'
  <2>1. forgotten' \in BOOLEAN
    BY <1>5, Zenon DEF Crash
  <2> QED BY <1>5, <1>b, <2>1 DEF Crash
<1>6. ASSUME NEW p \in Procs, Restart(p) PROVE TypeOK'
  BY <1>6 DEF Restart
<1>7. CASE Expire
  BY <1>7 DEF Expire
<1>8. CASE UNCHANGED vars
  BY <1>8 DEF vars
<1> QED BY <1>1, <1>2, <1>3, <1>4, <1>5, <1>6, <1>7, <1>8 DEF Next

\* Epochs and owners survive every step, overlapping or not.
LEMMA OwnedStep == LInv /\ [Next]_vars => Owned'
<1> SUFFICES ASSUME LInv, [Next]_vars PROVE Owned'
  OBVIOUS
<1> USE LeaseAssumption DEF LInv, Owned
<1>f. /\ file.epoch \in 0..count /\ count \in Nat
      /\ file.holder \in Procs => file \in grants
  BY FileInRange DEF TypeOK
<1>1. ASSUME NEW p \in Procs, AcquireLease(p) PROVE Owned'
  <2>1. file.epoch + 1 \in 1..(count + 1) /\ count' = count + 1
    BY <1>1, <1>f DEF AcquireLease, Take
  <2>2. \A g \in grants' : g.holder \in Procs /\ g.epoch \in 1..count' /\ g.nth <= count'
    BY <1>1, <1>f, <2>1 DEF AcquireLease, Take, TypeOK, Grants
  <2>3. \A q \in Procs \ {p} :
          doing'[q] = doing[q] /\ data'[q] = data[q] /\ epoch'[q] = epoch[q]
    BY <1>1 DEF AcquireLease, Take, TypeOK
  <2>4. /\ data'[p].holder = p /\ data'[p].epoch \in 1..count' /\ data'[p].nth <= count'
        /\ epoch'[p] = data'[p].epoch /\ doing'[p] = "truncate"
    BY <1>1, <1>f, <2>1 DEF AcquireLease, Take, Reads, TypeOK
  <2>5. \A q \in Procs \ {p} : data[q].epoch \in 1..count => data[q].epoch \in 1..count'
    BY <2>1, <1>f
  <2>6. \A q \in Procs : data[q].nth \in Nat
    BY DEF TypeOK, Grants
  <2>7. UNCHANGED <<file, live, grants>>
    BY <1>1 DEF AcquireLease, Take
  <2>8. \A q \in Procs : doing'[q] \in {"truncate", "write"} =>
          /\ data'[q].holder = q /\ data'[q].epoch \in 1..count' /\ data'[q].nth <= count'
          /\ epoch'[q] \in {0, data'[q].epoch}
    BY <1>f, <2>1, <2>3, <2>4, <2>5, <2>6
  <2> QED BY <2>2, <2>3, <2>4, <2>7, <2>8
<1>2. ASSUME NEW p \in Procs, Renew(p) PROVE Owned'
  BY <1>2, <1>f DEF Renew, Reads, TypeOK
<1>3. ASSUME NEW p \in Procs, ReleaseLease(p) PROVE Owned'
  BY <1>3 DEF ReleaseLease, Reads, TypeOK
<1>4. ASSUME NEW p \in Procs, Truncate(p) PROVE Owned'
  BY <1>4 DEF Truncate, TypeOK, Blank
<1>5. ASSUME NEW p \in Procs, WriteLease(p) PROVE Owned'
  <2>1. /\ data[p].holder = p /\ data[p].epoch \in 1..count /\ data[p].nth <= count
        /\ epoch[p] \in {0, data[p].epoch} /\ data[p] # Blank
    BY <1>5 DEF WriteLease, Blank
  <2>2. file' = data[p] /\ file' \in grants' /\ UNCHANGED <<epoch, count>>
    BY <1>5 DEF WriteLease
  <2>3. \A g \in grants' : g.holder \in Procs /\ g.epoch \in 1..count' /\ g.nth <= count'
    BY <1>5, <2>1 DEF WriteLease
  <2>4. \A q \in Procs : doing'[q] \in {"truncate", "write"} =>
          q # p /\ doing[q] \in {"truncate", "write"} /\ data'[q] = data[q]
    BY <1>5 DEF WriteLease, TypeOK
  <2> QED BY <2>1, <2>2, <2>3, <2>4
<1>6. ASSUME NEW p \in Procs, UnlinkLease(p) PROVE Owned'
  BY <1>6 DEF UnlinkLease, TypeOK, Blank
<1>7. ASSUME NEW p \in Procs, Execute(p) \/ (\E g \in grants : Pass(p, g)) PROVE Owned'
  BY <1>7 DEF Execute, Pass, TypeOK
<1>8. ASSUME NEW p \in Procs, Crash(p) PROVE Owned'
  BY <1>8 DEF Crash, TypeOK
<1>9. ASSUME NEW p \in Procs, Restart(p) PROVE Owned'
  BY <1>9 DEF Restart, TypeOK
<1>10. CASE Expire
  BY <1>10 DEF Expire
<1>11. CASE UNCHANGED vars
  BY <1>11 DEF vars
<1> QED BY <1>1, <1>2, <1>3, <1>4, <1>5, <1>6, <1>7, <1>8, <1>9, <1>10, <1>11 DEF Next, LeaseStep

\* While operations do not overlap, one coordinator at a time changes the file,
\* and none a live lease of another.
LEMMA AloneStep == LInv /\ [Next]_vars /\ ~overlapped' => Alone' /\ LiveLeaseKept'
<1> SUFFICES ASSUME LInv, [Next]_vars, ~overlapped' PROVE Alone' /\ LiveLeaseKept'
  OBVIOUS
<1> USE LeaseAssumption DEF LInv, Alone, LiveLeaseKept, Changing, HeldBy
<1>1. ASSUME NEW p \in Procs, AcquireLease(p) PROVE Alone' /\ LiveLeaseKept'
  BY <1>1 DEF AcquireLease, Take, Free, Reads, TypeOK
<1>2. ASSUME NEW p \in Procs, Renew(p) \/ ReleaseLease(p) PROVE Alone' /\ LiveLeaseKept'
  BY <1>2 DEF Renew, ReleaseLease, Reads, TypeOK
<1>3. ASSUME NEW p \in Procs, LeaseStep(p) PROVE Alone' /\ LiveLeaseKept'
  <2>1. CASE Truncate(p)  BY <2>1 DEF Truncate, TypeOK
  <2>2. CASE WriteLease(p)     BY <2>2 DEF WriteLease, Owned, TypeOK
  <2>3. CASE UnlinkLease(p)    BY <2>3 DEF UnlinkLease, TypeOK
  <2>4. CASE Execute(p)   BY <2>4 DEF Execute, TypeOK
  <2> QED BY <1>3, <2>1, <2>2, <2>3, <2>4 DEF LeaseStep
<1>4. ASSUME NEW p \in Procs, NEW g \in grants, Pass(p, g) PROVE Alone' /\ LiveLeaseKept'
  BY <1>4 DEF Pass, TypeOK
<1>5. ASSUME NEW p \in Procs, Crash(p) \/ Restart(p) PROVE Alone' /\ LiveLeaseKept'
  BY <1>5 DEF Crash, Restart, TypeOK
<1>6. CASE Expire
  BY <1>6 DEF Expire
<1>7. CASE UNCHANGED vars
  BY <1>7 DEF vars
<1> QED BY <1>1, <1>2, <1>3, <1>4, <1>5, <1>6, <1>7 DEF Next

\* As long as the file is not lost either, it says who led last.
LEMMA OrderedStep == LInv /\ [Next]_vars /\ ~overlapped' /\ ~forgotten' => Ordered'
<1> SUFFICES ASSUME LInv, [Next]_vars, ~overlapped', ~forgotten' PROVE Ordered'
  OBVIOUS
<1>h. ~overlapped /\ ~forgotten
  <2>1. ASSUME NEW p \in Procs, Reads(p), UNCHANGED forgotten PROVE ~overlapped /\ ~forgotten
    BY <2>1, Zenon DEF Reads
  <2>2. ASSUME NEW p \in Procs, Crash(p) PROVE ~overlapped /\ ~forgotten
    BY <2>2, Zenon DEF Crash
  <2>3. ASSUME NEW p \in Procs, NEW g \in grants, Pass(p, g) PROVE ~overlapped /\ ~forgotten
    BY <2>3 DEF Pass
  <2>4. CASE Expire \/ UNCHANGED vars
    BY <2>4 DEF Expire, vars
  <2>5. ASSUME NEW p \in Procs, LeaseStep(p) \/ Restart(p) PROVE ~overlapped /\ ~forgotten
    BY <2>5 DEF LeaseStep, Truncate, WriteLease, UnlinkLease, Execute, Restart
  <2>6. ASSUME NEW p \in Procs, AcquireLease(p) \/ Renew(p) \/ ReleaseLease(p) PROVE ~overlapped /\ ~forgotten
    BY <2>6, <2>1 DEF AcquireLease, Take, Renew, ReleaseLease
  <2> QED BY <2>2, <2>3, <2>4, <2>5, <2>6 DEF Next
<1>o. Ordered /\ Alone
  BY <1>h DEF LInv
<1> USE LeaseAssumption, <1>h, <1>o DEF LInv, Ordered, Good, Older
<1>f. /\ file.epoch \in Nat /\ file.nth \in Nat /\ count \in Nat
      /\ \A g \in grants : g.nth <= count /\ g.nth \in Nat /\ g.epoch \in Nat
  BY FileInRange DEF TypeOK, Owned, Grants
<1>1. ASSUME NEW p \in Procs, AcquireLease(p) PROVE Ordered'
  <2>1. \A q \in Procs : doing[q] # "write" /\ doing[q] # "truncate"
    BY <1>1 DEF AcquireLease, Take, Reads, Changing
  <2>2. \A g \in grants : Older(g, data'[p])
    BY <1>1, <1>f, <2>1 DEF AcquireLease, Take, TypeOK
  <2> QED BY <1>1, <2>1, <2>2 DEF AcquireLease, Take, Reads, TypeOK
<1>2. ASSUME NEW p \in Procs, Renew(p) PROVE Ordered'
  <2>1. \A q \in Procs : doing[q] # "write" /\ doing[q] # "truncate"
    BY <1>2 DEF Renew, Reads, Changing
  <2>2. file \in grants
    BY <1>2, FileInRange DEF Renew
  <2>3. Good(file)
    BY <2>1, <2>2 DEF Blank
  <2> QED BY <1>2, <2>1, <2>3 DEF Renew, Reads, TypeOK
<1>3. ASSUME NEW p \in Procs, ReleaseLease(p) PROVE Ordered'
  BY <1>3 DEF ReleaseLease, Reads, TypeOK
<1>4. ASSUME NEW p \in Procs, Truncate(p) PROVE Ordered'
  BY <1>4 DEF Truncate, TypeOK
<1>5. ASSUME NEW p \in Procs, WriteLease(p) PROVE Ordered'
  <2>1. \A q \in Procs \ {p} : doing[q] # "write" /\ doing[q] # "truncate"
    BY <1>5 DEF WriteLease, Alone, Changing
  <2>2. Good(data[p]) /\ data[p].nth \in Nat /\ data[p].epoch \in Nat
    BY <1>5 DEF WriteLease, TypeOK, Grants
  <2>3. \A g \in grants' : g = data[p] \/ Older(g, data[p])
    BY <1>5, <2>2 DEF WriteLease
  <2>4. \A g, h \in grants' : g.nth < h.nth => g.epoch < h.epoch
    BY <1>5, <1>f, <2>2, <2>3 DEF WriteLease
  <2> QED BY <1>5, <2>1, <2>3, <2>4 DEF WriteLease, TypeOK
<1>6. ASSUME NEW p \in Procs, UnlinkLease(p) PROVE Ordered'
  BY <1>6 DEF UnlinkLease
<1>7. ASSUME NEW p \in Procs, Execute(p) \/ (\E g \in grants : Pass(p, g)) PROVE Ordered'
  BY <1>7 DEF Execute, Pass, TypeOK
<1>8. ASSUME NEW p \in Procs, Crash(p) PROVE Ordered'
  BY <1>8 DEF Crash, TypeOK
<1>9. ASSUME NEW p \in Procs, Restart(p) PROVE Ordered'
  BY <1>9 DEF Restart, TypeOK
<1>10. CASE Expire
  BY <1>10 DEF Expire
<1>11. CASE UNCHANGED vars
  BY <1>11 DEF vars
<1> QED BY <1>1, <1>2, <1>3, <1>4, <1>5, <1>6, <1>7, <1>8, <1>9, <1>10, <1>11 DEF Next, LeaseStep

\* The invariant holds in every behaviour of the specification.
THEOREM LeaseInvariant == Spec => []LInv
<1>1. LInv /\ [Next]_vars => LInv'
  <2> SUFFICES ASSUME LInv, [Next]_vars PROVE LInv'
    OBVIOUS
  <2>1. TypeOK' /\ Owned'
    BY TypeStep, OwnedStep
  <2>2. ~overlapped' => Alone' /\ LiveLeaseKept'
    BY AloneStep
  <2>3. LiveLeaseKept'
    BY <2>2 DEF LiveLeaseKept
  <2>4. ~overlapped' /\ ~forgotten' => Ordered'
    BY OrderedStep
  <2> QED BY <2>1, <2>2, <2>3, <2>4 DEF LInv
<1> QED BY LeaseInitInv, <1>1, PTL DEF Spec

\* Every variable keeps its type, for any coordinators and any bound.
THEOREM TypeCorrect == Spec => []TypeOK
<1>1. LInv => TypeOK
  BY DEF LInv
<1> QED BY <1>1, LeaseInvariant, PTL

\* Later acquisitions have larger epochs.
THEOREM EpochsIncreaseHolds == Spec => []EpochsIncrease
<1>1. LInv => EpochsIncrease
  BY DEF LInv, Ordered, EpochsIncrease
<1> QED BY <1>1, LeaseInvariant, PTL

\* Live leases are overwritten by their holder only.
THEOREM LiveLeaseKeptHolds == Spec => []LiveLeaseKept
<1>1. LInv => LiveLeaseKept
  BY DEF LInv
<1> QED BY <1>1, LeaseInvariant, PTL

\* Whoever passes the fence presents the latest grant: it holds the lease, so the
\* file has its latest epoch, and no two grants share one.
LEMMA PassLatest ==
  ASSUME LInv, NEW p \in Procs, NEW g \in grants, g.holder = p, Pass(p, g),
         ~overlapped, ~forgotten
  PROVE  \A h \in grants : h.nth <= g.nth
<1> USE DEF LInv
<1>1. file \in grants /\ file.holder = p /\ Ordered /\ Alone
  BY FileInRange DEF Pass, HeldBy
<1>2. \A h \in grants : h.nth \in Nat /\ h.epoch \in Nat /\ h.epoch > 0
  BY DEF TypeOK, Grants, Owned
<1>3. g.epoch = file.epoch
  BY <1>1, <1>2 DEF Pass, Owned
<1>4. \A q \in Procs : doing[q] # "write"
  <2>1. SUFFICES ASSUME NEW q \in Procs, doing[q] = "write" PROVE FALSE
    OBVIOUS
  <2> QED BY <2>1, <1>1, LeaseAssumption DEF Ordered, Blank
<1>5. \A h \in grants : h = file \/ Older(h, file)
  BY <1>1, <1>4, <1>2 DEF Ordered, Blank
<1>6. g = file
  BY <1>2, <1>3, <1>5 DEF Older
<1> QED BY <1>2, <1>5, <1>6 DEF Older

\* Only Pass begins to execute.
LEMMA OnlyPassExecutes ==
  ASSUME TypeOK, Next, NEW p \in Procs, doing[p] = "idle", doing'[p] = "execute"
  PROVE  \E g \in grants : g.holder = p /\ Pass(p, g)
<1> USE DEF TypeOK
<1>1. ASSUME NEW q \in Procs, AcquireLease(q) \/ Renew(q) \/ ReleaseLease(q) PROVE FALSE
  BY <1>1 DEF AcquireLease, Take, Renew, ReleaseLease, Reads
<1>2. ASSUME NEW q \in Procs, LeaseStep(q) \/ Crash(q) \/ Restart(q) PROVE FALSE
  BY <1>2 DEF LeaseStep, Truncate, WriteLease, UnlinkLease, Execute, Crash, Restart
<1>3. ASSUME NEW q \in Procs, NEW g \in grants, g.holder = q, Pass(q, g) PROVE q = p
  BY <1>3 DEF Pass
<1>4. CASE Expire
  BY <1>4 DEF Expire
<1> QED BY <1>1, <1>2, <1>3, <1>4 DEF Next

\* The fence passes operations of the latest leader only.
THEOREM OnlyLatestPassesHolds == Spec => OnlyLatestPasses
<1> DEFINE Latest ==
      \A p \in Procs :
        /\ doing[p] = "idle" /\ doing'[p] = "execute" /\ ~overlapped /\ ~forgotten
        => \A g \in grants : g.nth <= op'[p].nth
<1>1. LInv /\ [Next]_vars => Latest
  <2> SUFFICES ASSUME LInv, [Next]_vars, NEW p \in Procs,
                      doing[p] = "idle", doing'[p] = "execute", ~overlapped, ~forgotten
               PROVE  \A h \in grants : h.nth <= op'[p].nth
    OBVIOUS
  <2>1. Next
    BY DEF vars
  <2>2. PICK g \in grants : g.holder = p /\ Pass(p, g)
    BY <2>1, OnlyPassExecutes DEF LInv
  <2>3. op'[p] = g
    BY <2>2 DEF Pass, LInv, TypeOK
  <2> QED BY <2>2, <2>3, PassLatest
<1> QED BY <1>1, LeaseInvariant, PTL DEF Spec, OnlyLatestPasses

----------------------------------------------------------------------------
(* ExecutionDAG.                                                            *)

Books == [DagNodes -> {"pending", "running", "done", "failed"}]

\* Every variable keeps its type.
DagTypeOK ==
  /\ dag \in Books /\ saved \in Books \union {Torn, None}
  /\ phase \in {"up", "saving", "down"}
  /\ working \subseteq DagNodes /\ orphans \subseteq DagNodes

\* What is at work is running, what is running is at work or has been left by a crash,
\* and a coordinator which is down works on nothing.
Held ==
  /\ phase = "down" => working = {}
  /\ \A n \in working : dag[n] = "running"
  /\ \A n \in DagNodes : dag[n] = "running" => n \in working \union orphans

\* The file never has as started what memory has as pending.
FileBehind ==
  phase = "up" /\ saved \notin {Torn, None} =>
    \A n \in DagNodes : dag[n] = "pending" => saved[n] = "pending"

DInv == DagTypeOK /\ PrerequisitesDone /\ Held /\ FileBehind

\* A new graph has nothing started.
LEMMA DagInitInv == DagInit => DInv
<1> SUFFICES ASSUME DagInit PROVE DInv
  OBVIOUS
<1>1. \A n \in DagNodes : dag[n] = "pending"
  BY DEF DagInit, Fresh
<1>2. dag \in Books
  BY DEF DagInit, Fresh, Books
<1>3. DagTypeOK
  BY <1>2 DEF DagInit, DagTypeOK
<1>4. PrerequisitesDone
  BY <1>1 DEF DagInit, PrerequisitesDone, Prerequisites
<1>5. Held /\ FileBehind
  BY <1>1 DEF DagInit, Held, FileBehind
<1> QED
  BY <1>3, <1>4, <1>5 DEF DInv

\* A node is started only when everything it waits for is done.
LEMMA StartKeeps ==
  ASSUME DInv, NEW n \in DagNodes, MarkRunning(n)
  PROVE  DInv'
<1> USE DEF DInv, DagTypeOK, Books
<1>1. /\ phase = "up" /\ dag[n] = "pending" /\ dag' = [dag EXCEPT ![n] = "running"]
      /\ working' = working \union {n} /\ UNCHANGED <<saved, phase, crashes, orphans>>
  BY DEF MarkRunning, Startable, ReadyNodes
<1>2. \A d \in DependsOn[n] \union RequiresDone[n] : d \in DagNodes /\ dag[d] = "done"
  BY DEF MarkRunning, Startable, ReadyNodes, CausalGate, Status
<1>3. DagTypeOK'
  BY <1>1
<1>4. \A m \in DagNodes : dag[m] = "done" => dag'[m] = "done"
  BY <1>1
<1>5. Prerequisites(dag)'
  <2> SUFFICES ASSUME NEW m \in DagNodes, dag'[m] # "pending",
                      NEW d \in DependsOn[m] \union RequiresDone[m]
               PROVE  d \in DagNodes /\ dag'[d] = "done"
    BY DEF Prerequisites
  <2>1. CASE m = n
    BY <2>1, <1>2, <1>4
  <2>2. CASE m # n
    BY <2>2, <1>1, <1>4 DEF PrerequisitesDone, Prerequisites
  <2> QED
    BY <2>1, <2>2
<1>6. PrerequisitesDone'
  BY <1>1, <1>5 DEF PrerequisitesDone, Prerequisites
<1>7. Held'
  BY <1>1 DEF Held
<1>8. FileBehind'
  BY <1>1 DEF FileBehind
<1> QED
  BY <1>3, <1>6, <1>7, <1>8

\* A node which ends was running, so that nothing which waits for it has started.
LEMMA EndKeeps ==
  ASSUME DInv, NEW n \in DagNodes, NEW s \in {"done", "failed"}, MarkEnded(n, s)
  PROVE  DInv'
<1> USE DEF DInv, DagTypeOK, Books
<1>1. /\ phase = "up" /\ n \in working /\ dag' = [dag EXCEPT ![n] = s]
      /\ working' = working \ {n} /\ UNCHANGED <<saved, phase, crashes, orphans>>
  BY DEF MarkEnded
<1>2. dag[n] = "running"
  BY <1>1 DEF Held
<1>3. DagTypeOK'
  BY <1>1
<1>4. \A m \in DagNodes : dag[m] = "done" => dag'[m] = "done"
  BY <1>1, <1>2
<1>5. Prerequisites(dag)'
  <2> SUFFICES ASSUME NEW m \in DagNodes, dag'[m] # "pending",
                      NEW d \in DependsOn[m] \union RequiresDone[m]
               PROVE  d \in DagNodes /\ dag'[d] = "done"
    BY DEF Prerequisites
  <2>1. dag[m] # "pending"
    BY <1>1, <1>2
  <2> QED
    BY <2>1, <1>4 DEF PrerequisitesDone, Prerequisites
<1>6. PrerequisitesDone'
  BY <1>1, <1>5 DEF PrerequisitesDone, Prerequisites
<1>7. Held'
  BY <1>1, <1>2 DEF Held
<1>8. FileBehind'
  BY <1>1, <1>2 DEF FileBehind
<1> QED
  BY <1>3, <1>6, <1>7, <1>8

\* A crash leaves the file as it is, and a new coordinator has a new graph at first.
LEMMA CrashKeeps ==
  ASSUME DInv, DagCrash
  PROVE  DInv'
<1> USE DEF DInv, DagTypeOK, Books
<1>1. /\ dag' = [n \in DagNodes |-> "pending"] /\ phase' = "down"
      /\ working' = {} /\ orphans' = {} /\ UNCHANGED saved
  BY DEF DagCrash, Fresh
<1>2. DagTypeOK'
  BY <1>1
<1>3. PrerequisitesDone'
  BY <1>1 DEF PrerequisitesDone, Prerequisites
<1>4. Held' /\ FileBehind'
  BY <1>1 DEF Held, FileBehind
<1> QED
  BY <1>2, <1>3, <1>4

\* What is saved is what is in memory.
LEMMA SaveKeeps ==
  ASSUME DInv, DagTruncate \/ DagSave \/ RemoveFile
  PROVE  DInv'
<1> USE DEF DInv, DagTypeOK
<1>1. /\ UNCHANGED <<dag, working, orphans>> /\ phase' \in {"up", "saving", "down"}
      /\ saved' \in {dag, Torn, None} /\ (phase' = "down" => phase = "down")
  BY DEF DagTruncate, DagSave, RemoveFile
<1>2. DagTypeOK'
  BY <1>1
<1>3. PrerequisitesDone'
  BY <1>1 DEF PrerequisitesDone, Prerequisites
<1>4. Held'
  BY <1>1 DEF Held
<1>5. FileBehind'
  BY DEF DagTruncate, DagSave, RemoveFile, FileBehind
<1> QED
  BY <1>2, <1>3, <1>4, <1>5

\* What is loaded is what was saved, or a new graph.
LEMMA RestartKeeps ==
  ASSUME DInv, DagRestart
  PROVE  DInv'
<1> USE DEF DInv, DagTypeOK
<1>1. /\ saved # Torn /\ dag' = Loaded /\ phase' = "up" /\ working = {}
      /\ orphans' = {n \in DagNodes : Loaded[n] = "running"}
      /\ UNCHANGED <<saved, working>>
  BY DEF DagRestart, Held
<1>2. dag' \in Books /\ Prerequisites(dag)'
  <2>1. CASE saved = None
    BY <1>1, <2>1 DEF Loaded, Fresh, Books, Prerequisites
  <2>2. CASE saved # None
    BY <1>1, <2>2 DEF Loaded, PrerequisitesDone, Prerequisites
  <2> QED
    BY <2>1, <2>2
<1>3. DagTypeOK'
  BY <1>1, <1>2
<1>4. PrerequisitesDone'
  BY <1>1, <1>2 DEF PrerequisitesDone, Prerequisites
<1>5. Held'
  BY <1>1 DEF Held
<1>6. FileBehind'
  BY <1>1 DEF FileBehind, Loaded
<1> QED
  BY <1>3, <1>4, <1>5, <1>6

\* Every step keeps the invariant.
LEMMA DagNextInv == DInv /\ [DagNext]_dagVars => DInv'
<1> SUFFICES ASSUME DInv, [DagNext]_dagVars PROVE DInv'
  OBVIOUS
<1>1. CASE UNCHANGED dagVars
  BY <1>1 DEF dagVars, DInv, DagTypeOK, PrerequisitesDone, Prerequisites, Held, FileBehind
<1>2. ASSUME NEW n \in DagNodes, MarkRunning(n) PROVE DInv'
  BY <1>2, StartKeeps
<1>3. ASSUME NEW n \in DagNodes, NEW s \in {"done", "failed"}, MarkEnded(n, s) PROVE DInv'
  BY <1>3, EndKeeps
<1>4. CASE DagTruncate \/ DagSave \/ RemoveFile
  BY <1>4, SaveKeeps
<1>5. CASE DagCrash
  BY <1>5, CrashKeeps
<1>6. CASE DagRestart
  BY <1>6, RestartKeeps
<1> QED
  BY <1>1, <1>2, <1>3, <1>4, <1>5, <1>6 DEF DagNext, DagStep

\* The invariant holds of every behaviour.
LEMMA DagInvariant == DagSpec => []DInv
<1> QED
  BY DagInitInv, DagNextInv, PTL DEF DagSpec

----------------------------------------------------------------------------
\* In memory and in the file, a node has been started only with everything it waits for
\* done: ready_nodes, check_causal_gate, save_state and load_state together.
THEOREM PrerequisitesDoneHolds == DagSpec => []PrerequisitesDone
<1>1. DInv => PrerequisitesDone
  BY DEF DInv
<1> QED
  BY <1>1, DagInvariant, PTL

\* A node which the file has as started is not started again by whatever coordinator
\* goes on from that file (mark_running, save_state, load_state).
THEOREM ReplaySafeHolds == DagSpec => ReplaySafe
<1> DEFINE Again == \A n \in working' \ working : saved \notin {Torn, None} => saved[n] = "pending"
<1>1. DInv /\ [DagNext]_dagVars => [Again]_dagVars
  <2> SUFFICES ASSUME DInv, [DagNext]_dagVars, NEW n \in working' \ working,
                      saved \notin {Torn, None}
               PROVE  saved[n] = "pending"
    OBVIOUS
  <2>1. MarkRunning(n)
    <3>1. dagVars' # dagVars
      BY DEF dagVars
    <3>2. DagNext
      BY <3>1
    <3>3. CASE \E m \in DagNodes : MarkRunning(m)
      BY <3>3 DEF MarkRunning
    <3>4. ASSUME NEW m \in DagNodes, NEW s \in {"done", "failed"}, MarkEnded(m, s) PROVE FALSE
      BY <3>4 DEF MarkEnded
    <3>5. CASE DagTruncate \/ DagSave \/ RemoveFile \/ DagRestart \/ DagCrash
      BY <3>5 DEF DagTruncate, DagSave, RemoveFile, DagRestart, DagCrash
    <3> QED
      BY <3>2, <3>3, <3>4, <3>5 DEF DagNext, DagStep
  <2>2. n \in DagNodes /\ dag[n] = "pending" /\ phase = "up"
    BY <2>1 DEF MarkRunning, Startable, ReadyNodes
  <2> QED
    BY <2>2 DEF DInv, FileBehind
<1> QED
  BY <1>1, DagInvariant, PTL DEF DagSpec, ReplaySafe

\* What waits for what is well-founded: some node of every set waits for none of the set.
Acyclic ==
  \A T \in SUBSET DagNodes : T # {} =>
    \E n \in T : (DependsOn[n] \union RequiresDone[n]) \intersect T = {}

\* In a graph without cycles nothing is stuck but behind a node which failed, which a
\* crash has left running, or which does not exist: what ready_nodes and
\* check_causal_gate offer is enough to complete every other graph.
THEOREM DagSoundHolds == Acyclic => (DagSpec => []DagSound)
<1> SUFFICES ASSUME Acyclic PROVE DagSpec => []DagSound
  OBVIOUS
<1>1. DInv => DagSound
  <2> SUFFICES ASSUME DInv, phase = "up", Startable = {}, working = {},
                      ~IsComplete,
                      \A n \in DagNodes : dag[n] # "failed" /\ n \notin orphans
               PROVE  \E n \in DagNodes : ~((DependsOn[n] \union RequiresDone[n]) \subseteq DagNodes)
    BY DEF DagSound, StuckOnlyBehind, DInv
  <2> DEFINE T == {n \in DagNodes : dag[n] # "done"}
  <2>1. \A n \in T : dag[n] = "pending"
    BY DEF DInv, DagTypeOK, Books, Held
  <2>2. T # {}
    BY DEF IsComplete, Finished
  <2>3. PICK n \in T : (DependsOn[n] \union RequiresDone[n]) \intersect T = {}
    BY <2>2 DEF Acyclic
  <2>4. n \in DagNodes /\ dag[n] = "pending" /\ n \notin Startable
    BY <2>1
  <2>5. PICK d \in DependsOn[n] \union RequiresDone[n] : Status(d) # "done"
    BY <2>4 DEF Startable, ReadyNodes, CausalGate
  <2>6. d \notin DagNodes
    BY <2>3, <2>5 DEF Status
  <2> QED
    BY <2>4, <2>5, <2>6
<1> QED
  BY <1>1, DagInvariant, PTL

=============================================================================
