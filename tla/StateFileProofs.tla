--------------------------- MODULE StateFileProofs ----------------------------
(***************************************************************************)
(* More theorems about TaskRunner: how far its files may be apart, what a  *)
(* restart may undo, how far budgets are overrun, what pays for an attempt, *)
(* and that the state file implements TaskBoard.  All rest on IInv.        *)
(***************************************************************************)
EXTENDS TaskRunnerProofs

\* One task at most is in progress in a copy of the book.
Single(book) ==
  \A t, u \in Tasks :
    book[t].status = "in_progress" /\ book[u].status = "in_progress" => t = u

\* A copy c differs from b in one task at most, and if b has a task in
\* progress, then in that one.
Near(c, b) ==
  \A t, u \in Tasks :
    c[t] # b[t] /\ (c[u] # b[u] \/ b[u].status = "in_progress") => t = u

LagInv ==
  /\ Single(disk) /\ Single(ckpt)
  /\ ckptFile = "whole" => Near(ckpt, disk) /\ (pc # "off" => Near(ckpt, mem))

\* Without a resume memory never forgets what the state file says is done.
KeepsDone ==
  pc # "off" /\ ~resume => \A t \in Tasks : disk[t].status = "done" => mem[t].status = "done"

\* A cycle begins under the caps and raises each total at most once.
UnderCaps ==
  /\ MaxTotalRetries > 0 =>
       retries <= MaxTotalRetries + 1 /\ (task \in Tasks => retries <= MaxTotalRetries)
  /\ MaxTotalTokens > 0 =>
       /\ tokens <= MaxTotalTokens \/ \E used \in Usage : tokens <= MaxTotalTokens + used
       /\ task \in Tasks /\ pc # "decide" => tokens <= MaxTotalTokens

\* What an entry may have used when n starts found its task in progress.
Credit(e, n) == AllowedAttempts + e.retryable_failures + n

\* The attempts of an entry are paid for, the next one of a pending task in advance.
PaidEntry(e, n) ==
  /\ e.status # "done" => e.attempts <= Credit(e, n)
  /\ e.status = "pending" => e.attempts + 1 <= Credit(e, n)

Paid(book, found) == \A t \in Tasks : PaidEntry(book[t], found[t])

PaidInv == ~dry /\ Paid(mem, requeued) /\ Paid(disk, requeued) /\ Paid(ckpt, requeued)

----------------------------------------------------------------------------
(* Books.                                                                   *)

\* Loading changes at most the one task in progress.
LEMMA LoadedNear ==
  ASSUME NEW c, NEW b \in Book, Sound(b), Near(c, b), Single(b)
  PROVE  Near(c, Loaded(b))
<1> DEFINE new == Loaded(b)
<1>1. \A t \in Tasks : /\ new[t].status # "in_progress"
                       /\ b[t].status # "in_progress" => new[t] = b[t]
  BY LoadedSound
<1> HIDE DEF new
<1>2. \A t, u \in Tasks : c[t] # new[t] /\ c[u] # new[u] => t = u
  BY <1>1 DEF Near, Single
<1>3. Near(c, new)
  BY <1>1, <1>2 DEF Near
<1> QED BY <1>3 DEF new

\* A book is near itself, and near itself with one entry changed, if nothing
\* else is in progress there.
LEMMA PutNear ==
  ASSUME NEW b \in Book, NEW t \in Tasks, NEW e \in Entry,
         \A u \in Tasks \ {t} : b[u].status # "in_progress"
  PROVE  Near(b, Put(b, t, e)) /\ Near(b, b)
<1>1. /\ Put(b, t, e)[t] = e
      /\ \A u \in Tasks \ {t} : Put(b, t, e)[u] = b[u]
  BY PutEntry
<1> QED BY <1>1 DEF Near

\* Time passes alike in two copies.
LEMMA ElapsedNear ==
  ASSUME NEW c \in Book, NEW b \in Book, Sound(c), Sound(b), NEW d \in Nat
  PROVE  /\ Near(c, b) => Near(Elapsed(c, d), Elapsed(b, d))
         /\ Single(b) => Single(Elapsed(b, d))
<1>1. \A t \in Tasks : Elapsed(b, d)[t].status = b[t].status
  BY ElapsedSound
<1>2. \A t \in Tasks : c[t] = b[t] => Elapsed(c, d)[t] = Elapsed(b, d)[t]
  BY DEF Elapsed
<1> QED BY <1>1, <1>2 DEF Near, Single

----------------------------------------------------------------------------
(* Every step keeps LagInv.                                                 *)

\* At first everything is pending everywhere.
LEMMA LagInit == Init => LagInv
<1>1. \A t \in Tasks : EmptyBook[t].status = "pending"
  BY EmptyBookSound
<1> QED BY <1>1 DEF Init, LagInv, Single, Near

\* What IInv says of the three copies, for use below.
LEMMA IInvBooks ==
  ASSUME IInv
  PROVE  /\ mem \in Book /\ disk \in Book /\ ckpt \in Book
         /\ Sound(mem) /\ Sound(disk) /\ Sound(ckpt) /\ Single(mem)
  BY DEF IInv, TypeOK, PlaceOK, Single

\* A change of memory which begins a persist, from a state where all copies
\* agree: a claim or a verdict.
LEMMA ChangeLag ==
  ASSUME IInv, LagInv, pc \in {"cycle", "agent", "decide"}, NEW t \in Tasks, NEW e \in Entry,
         \A u \in Tasks \ {t} : mem[u].status # "in_progress",
         mem' = Put(mem, t, e), UNCHANGED <<disk, ckpt, ckptFile>>
  PROVE  LagInv'
<1>1. disk = mem /\ ckpt = mem /\ mem \in Book
  BY DEF IInv, PlaceOK, TypeOK
<1>2. Near(mem, Put(mem, t, e)) /\ Near(mem, mem)
  BY <1>1, PutNear
<1> QED BY <1>1, <1>2 DEF LagInv, Single, Near

\* Every step keeps the files at most one task apart.
LEMMA LagStep == IInv /\ LagInv /\ [Next]_vars => LagInv'
<1> SUFFICES ASSUME IInv, LagInv, [Next]_vars PROVE LagInv'
  OBVIOUS
<1>b. /\ mem \in Book /\ disk \in Book /\ ckpt \in Book
      /\ Sound(mem) /\ Sound(disk) /\ Sound(ckpt) /\ Single(mem)
  BY IInvBooks
<1>1. ASSUME NEW r \in ResumeModes, NEW d \in DryModes, Start(r, d) PROVE LagInv'
  <2>1. UNCHANGED <<disk, ckpt, ckptFile>> /\ mem' = IF r THEN Loaded(ckpt) ELSE Loaded(disk)
    BY <1>1 DEF Start
  <2>2. Near(ckpt, ckpt) => Near(ckpt, Loaded(ckpt))
    BY <1>b, LoadedNear DEF LagInv
  <2>3. Near(ckpt, ckpt)
    BY DEF Near
  <2>4. ckptFile = "whole" => Near(ckpt, Loaded(disk))
    BY <1>b, LoadedNear DEF LagInv
  <2>5. ckptFile = "whole" => Near(ckpt, mem')
    BY <2>1, <2>2, <2>3, <2>4
  <2> QED BY <2>1, <2>5 DEF LagInv, Single, Near
<1>2. CASE StartFails \/ UNCHANGED vars \/ RunTooLong
  BY <1>2 DEF StartFails, RunTooLong, vars, copies, LagInv, Single, Near
<1>3. CASE Kill \/ StopOverBudget
  BY <1>3 DEF Kill, StopOverBudget, Gone, LagInv, Single, Near
<1>4. CASE SaveState
  BY <1>4, <1>b DEF SaveState, LagInv, Single, Near
<1>5. CASE TruncateCheckpoint
  <2>1. \A t \in Tasks : EmptyBook[t].status = "pending"
    BY EmptyBookSound
  <2> QED BY <1>5, <2>1 DEF TruncateCheckpoint, LagInv, Single
<1>6. CASE WriteCheckpoint
  <2>1. disk = mem /\ disk' = mem /\ ckpt' = mem /\ (pc' = "off" \/ mem' = mem)
    BY <1>6 DEF WriteCheckpoint, Gone, IInv, PlaceOK
  <2> QED BY <2>1, <1>b DEF LagInv, Single, Near
<1>7. CASE OutOfCycles \/ FinishAll \/ Stall \/ \E o \in AgentOutcomes, used \in Usage : RunAgent(o, used)
  <2>1. UNCHANGED <<mem, disk, ckpt, ckptFile>> /\ pc \in {"cycle", "agent"}
    BY <1>7 DEF OutOfCycles, FinishAll, Stall, RunAgent, NewCycle, copies
  <2> QED BY <2>1 DEF LagInv, Single, Near
<1>8. ASSUME NEW d \in Nat, mem' = Elapsed(mem, d), disk' = Elapsed(disk, d),
             ckpt' = Elapsed(ckpt, d), UNCHANGED <<ckptFile, pc>>
      PROVE  LagInv'
  <2>1. /\ Near(ckpt, disk) => Near(ckpt', disk')
        /\ Near(ckpt, mem) => Near(ckpt', mem')
        /\ Single(disk') /\ Single(ckpt')
    BY <1>8, <1>b, ElapsedNear DEF LagInv
  <2> QED BY <1>8, <2>1 DEF LagInv, Single, Near
<1>9. CASE Idle
  <2>1. PICK d \in 1..IdleSleep :
          mem' = Elapsed(mem, d) /\ disk' = Elapsed(disk, d) /\ ckpt' = Elapsed(ckpt, d)
    BY <1>9 DEF Idle
  <2>2. d \in Nat /\ UNCHANGED <<ckptFile, pc>>
    BY <1>9 DEF Idle
  <2> QED BY <2>1, <2>2, <1>8
<1>10. CASE Tick
  <2>1. 1 \in Nat
    OBVIOUS
  <2> QED BY <1>10, <2>1, <1>8 DEF Tick
<1>11. ASSUME NEW t \in Tasks, SelectTask(t) PROVE LagInv'
  <2>1. mem' = Put(mem, t, Claimed(mem[t])) /\ UNCHANGED <<disk, ckpt, ckptFile>> /\ pc = "cycle"
    BY <1>11 DEF SelectTask, NewCycle, Put
  <2>2. Claimed(mem[t]) \in Entry
    BY <1>b, ChangedEntries DEF Book
  <2>3. \A u \in Tasks : mem[u].status # "in_progress"
    BY <2>1, RunnerAssumption DEF IInv, PlaceOK
  <2> QED BY <2>1, <2>2, <2>3, ChangeLag
<1>12. ASSUME NEW e \in Entry, pc \in {"agent", "decide"}, mem' = Put(mem, task, e),
              UNCHANGED <<disk, ckpt, ckptFile>>
       PROVE  LagInv'
  <2>1. task \in Tasks /\ \A u \in Tasks \ {task} : mem[u].status # "in_progress"
    BY <1>12 DEF IInv, PlaceOK
  <2> QED BY <1>12, <2>1, ChangeLag
<1>13. CASE SkipDryRun
  <2>1. task \in Tasks
    BY <1>13 DEF SkipDryRun, IInv, PlaceOK
  <2>2. [mem[task] EXCEPT !.status = "pending"] \in Entry
    BY <2>1, <1>b DEF Book, Entry, Statuses
  <2> QED BY <1>13, <2>2, <1>12 DEF SkipDryRun, Put
<1>14. CASE RetryTransient \/ RetryAttempt \/ GiveUp \/ Complete
  <2>1. pc = "decide" /\ task \in Tasks /\ mem[task] \in Entry
    BY <1>14, <1>b DEF RetryTransient, RetryAttempt, GiveUp, Complete, IInv, PlaceOK, Book
  <2>2. PICK e \in {BackedOff(mem[task]), Rescheduled(mem[task]), Blocked(mem[task]), Completed(mem[task])} :
          Record(e)
    BY <1>14 DEF RetryTransient, RetryAttempt, GiveUp, Complete
  <2>3. e \in Entry
    BY <2>1, <2>2, ChangedEntries
  <2> QED BY <2>1, <2>2, <2>3, <1>12 DEF Record, Put
<1> QED BY <1>1, <1>2, <1>3, <1>4, <1>5, <1>6, <1>7, <1>9, <1>10, <1>11, <1>13, <1>14
        DEF Next, RunnerStep, Persist, LoopHead, LoopBody

----------------------------------------------------------------------------
(* What is done.                                                            *)

\* Every step keeps in memory what the state file says is done.
LEMMA KeepsDoneStep == IInv /\ KeepsDone /\ [Next]_vars => KeepsDone'
<1> SUFFICES ASSUME IInv, KeepsDone, [Next]_vars PROVE KeepsDone'
  OBVIOUS
<1> USE DEF KeepsDone
<1>b. /\ mem \in Book /\ disk \in Book /\ Sound(mem) /\ Sound(disk)
  BY IInvBooks
<1>1. ASSUME NEW r \in ResumeModes, NEW d \in DryModes, Start(r, d) PROVE KeepsDone'
  <2>1. \A t \in Tasks : disk[t].status = "done" => Loaded(disk)[t].status = "done"
    BY <1>b, LoadedSound
  <2>2. CASE r
    BY <1>1, <2>2 DEF Start
  <2>3. CASE ~r
    BY <1>1, <2>1, <2>3 DEF Start
  <2> QED BY <2>2, <2>3
<1>2. CASE StartFails \/ UNCHANGED vars \/ RunTooLong
  BY <1>2 DEF StartFails, RunTooLong, vars, copies, options
<1>3. CASE Kill \/ StopOverBudget
  BY <1>3 DEF Kill, StopOverBudget, Gone
<1>4. CASE SaveState \/ TruncateCheckpoint
  BY <1>4 DEF SaveState, TruncateCheckpoint, options
<1>6. CASE WriteCheckpoint
  <2>1. disk = mem /\ disk' = mem /\ (pc' = "off" \/ mem' = mem)
    BY <1>6 DEF WriteCheckpoint, Gone, IInv, PlaceOK
  <2> QED BY <2>1
<1>7. CASE OutOfCycles \/ FinishAll \/ Stall \/ \E o \in AgentOutcomes, used \in Usage : RunAgent(o, used)
  <2>1. UNCHANGED <<mem, disk, resume>> /\ pc # "off"
    BY <1>7 DEF OutOfCycles, FinishAll, Stall, RunAgent, NewCycle, copies, options
  <2> QED BY <2>1
<1>8. ASSUME NEW d \in Nat, mem' = Elapsed(mem, d), disk' = Elapsed(disk, d), UNCHANGED <<pc, resume>>
      PROVE  KeepsDone'
  <2>1. \A t \in Tasks : mem'[t].status = mem[t].status /\ disk'[t].status = disk[t].status
    BY <1>8, <1>b, ElapsedSound
  <2> QED BY <1>8, <2>1
<1>9. CASE Idle
  <2>1. PICK d \in 1..IdleSleep : mem' = Elapsed(mem, d) /\ disk' = Elapsed(disk, d)
    BY <1>9 DEF Idle
  <2>2. d \in Nat /\ UNCHANGED <<pc, resume>>
    BY <1>9 DEF Idle, options
  <2> QED BY <2>1, <2>2, <1>8
<1>10. CASE Tick
  <2>1. 1 \in Nat
    OBVIOUS
  <2> QED BY <1>10, <2>1, <1>8 DEF Tick, options
<1>11. ASSUME NEW t \in Tasks, disk[t].status # "done", \A u \in Tasks \ {t} : mem'[u] = mem[u],
              disk = mem, UNCHANGED disk
       PROVE  KeepsDone'
  BY <1>11
<1>12. ASSUME NEW t \in Tasks, SelectTask(t) PROVE KeepsDone'
  <2>1. disk = mem /\ UNCHANGED disk /\ mem[t].status = "pending"
    BY <1>12 DEF SelectTask, NewCycle, IsNext, Ready, Eligible, IInv, PlaceOK
  <2>2. \A u \in Tasks \ {t} : mem'[u] = mem[u]
    BY <1>12, <1>b DEF SelectTask, Book
  <2> QED BY <2>1, <2>2, <1>11
<1>13. CASE SkipDryRun \/ RetryTransient \/ RetryAttempt \/ GiveUp \/ Complete
  <2>1. disk = mem /\ UNCHANGED disk /\ task \in Tasks /\ mem[task].status = "in_progress"
    BY <1>13 DEF SkipDryRun, RetryTransient, RetryAttempt, GiveUp, Complete, Record, IInv, PlaceOK
  <2>2. \A u \in Tasks \ {task} : mem'[u] = mem[u]
    BY <1>13, <1>b DEF SkipDryRun, RetryTransient, RetryAttempt, GiveUp, Complete, Record, Book
  <2> QED BY <2>1, <2>2, <1>11
<1> QED BY <1>1, <1>2, <1>3, <1>4, <1>6, <1>7, <1>9, <1>10, <1>12, <1>13
        DEF Next, RunnerStep, Persist, LoopHead, LoopBody

\* Only saving and time change the state file.
LEMMA DiskStep ==
  ASSUME IInv, KeepsDone, [Next]_vars, NEW t \in Tasks, disk[t].status = "done"
  PROVE  disk'[t].status = "done" \/ resume
<1>b. disk \in Book /\ Sound(disk)
  BY IInvBooks
<1>1. CASE SaveState
  BY <1>1 DEF SaveState, KeepsDone
<1>2. ASSUME NEW d \in Nat, disk' = Elapsed(disk, d) PROVE disk'[t].status = "done"
  BY <1>2, <1>b, ElapsedSound
<1>3. CASE Idle
  <2>1. PICK d \in 1..IdleSleep : disk' = Elapsed(disk, d)
    BY <1>3 DEF Idle
  <2>2. d \in Nat
    OBVIOUS
  <2> QED BY <2>1, <2>2, <1>2
<1>4. CASE Tick
  <2>1. 1 \in Nat
    OBVIOUS
  <2> QED BY <1>4, <2>1, <1>2 DEF Tick
<1>5. CASE TruncateCheckpoint \/ WriteCheckpoint \/ Kill \/ StartFails \/ RunTooLong \/ UNCHANGED vars
           \/ \E r \in ResumeModes, d \in DryModes : Start(r, d)
  BY <1>5 DEF TruncateCheckpoint, WriteCheckpoint, Kill, StartFails, RunTooLong, vars, Start, copies
<1>6. CASE OutOfCycles \/ StopOverBudget \/ FinishAll \/ Stall \/ \E u \in Tasks : SelectTask(u)
  BY <1>6 DEF OutOfCycles, StopOverBudget, FinishAll, Stall, SelectTask, copies
<1>7. CASE LoopBody
  BY <1>7 DEF LoopBody, SkipDryRun, RunAgent, RetryTransient, RetryAttempt, GiveUp, Complete, Record, copies
<1> QED BY <1>1, <1>3, <1>4, <1>5, <1>6, <1>7 DEF Next, RunnerStep, Persist, LoopHead

----------------------------------------------------------------------------
(* The budgets.                                                             *)

\* Whatever keeps or resets the totals, and does not take up a task or go on
\* from "decide" with one, keeps them under the caps.
LEMMA CapsKept ==
  ASSUME IInv, UnderCaps, (retries' = retries /\ tokens' = tokens) \/ (retries' = 0 /\ tokens' = 0),
         task' \in Tasks => task' = task /\ (pc = "decide" => pc' = "decide")
  PROVE  UnderCaps'
  BY RunnerAssumption DEF UnderCaps

\* Every step keeps the totals under the caps, or a cycle's worth above them.
LEMMA CapsStep == IInv /\ UnderCaps /\ [Next]_vars => UnderCaps'
<1> SUFFICES ASSUME IInv, UnderCaps, [Next]_vars PROVE UnderCaps'
  OBVIOUS
<1>n. tokens \in Nat /\ retries \in Nat /\ NoTask \notin Tasks /\ MaxTotalRetries \in Nat /\ MaxTotalTokens \in Nat
  BY RunnerAssumption DEF IInv, TypeOK
<1>1. CASE (\E r \in ResumeModes, d \in DryModes : Start(r, d)) \/ StartFails \/ UNCHANGED vars
  BY <1>1, CapsKept DEF Start, StartFails, PersistThen, vars, budget
<1>2. CASE Kill \/ StopOverBudget
  BY <1>2, <1>n, CapsKept DEF Kill, StopOverBudget, Gone
<1>3. CASE SaveState \/ TruncateCheckpoint
  BY <1>3, CapsKept DEF SaveState, TruncateCheckpoint, budget
<1>4. CASE WriteCheckpoint
  BY <1>4, <1>n, CapsKept DEF WriteCheckpoint, Gone, budget
<1>5. CASE OutOfCycles \/ FinishAll \/ Stall \/ Idle
  BY <1>5, CapsKept DEF OutOfCycles, FinishAll, Stall, Idle, NewCycle, PersistThen, budget
<1>6. CASE Tick \/ RunTooLong
  BY <1>6, CapsKept DEF Tick, RunTooLong, budget
<1>7. CASE \E t \in Tasks : SelectTask(t)
  <2>1. ~OverBudget /\ tokens' = tokens /\ retries' = retries
    BY <1>7 DEF SelectTask, NewCycle, budget
  <2>2. /\ MaxTotalTokens > 0 => tokens <= MaxTotalTokens
        /\ MaxTotalRetries > 0 => retries <= MaxTotalRetries
    BY <2>1, <1>n DEF OverBudget
  <2> QED BY <2>1, <2>2, <1>n DEF UnderCaps
<1>8. CASE SkipDryRun
  BY <1>8, <1>n, CapsKept DEF SkipDryRun, budget
<1>9. ASSUME NEW o \in AgentOutcomes, NEW used \in Usage, RunAgent(o, used) PROVE UnderCaps'
  <2>1. /\ task \in Tasks /\ pc = "agent" /\ pc' = "decide" /\ task' = task
        /\ retries' = retries /\ tokens' = tokens + used
    BY <1>9 DEF RunAgent, IInv, PlaceOK
  <2>2. MaxTotalTokens > 0 => tokens + used <= MaxTotalTokens + used
    BY <2>1, <1>n, RunnerAssumption DEF UnderCaps
  <2> QED BY <2>1, <2>2 DEF UnderCaps
<1>10. CASE RetryTransient \/ RetryAttempt \/ GiveUp \/ Complete
  <2>1. task \in Tasks /\ task' = NoTask /\ tokens' = tokens /\ retries' \in {retries, retries + 1}
    BY <1>10 DEF RetryTransient, RetryAttempt, GiveUp, Complete, Record, IInv, PlaceOK
  <2>2. MaxTotalRetries > 0 => retries' <= MaxTotalRetries + 1
    BY <2>1, <1>n DEF UnderCaps
  <2> QED BY <2>1, <2>2, <1>n DEF UnderCaps
<1> QED BY <1>1, <1>2, <1>3, <1>4, <1>5, <1>6, <1>7, <1>8, <1>9, <1>10
        DEF Next, RunnerStep, Persist, LoopHead, LoopBody

----------------------------------------------------------------------------
(* Attempts.                                                                *)

\* Recovery and time leave the count of retryable failures alone, and verdicts
\* change it as they should.
LEMMA FailureCounts ==
  ASSUME NEW e \in Entry, NEW d \in Nat
  PROVE  /\ Requeued(e).retryable_failures = e.retryable_failures
         /\ Sooner(e, d).retryable_failures = e.retryable_failures
         /\ Claimed(e).retryable_failures = e.retryable_failures
         /\ BackedOff(e).retryable_failures = e.retryable_failures + 1
         /\ Rescheduled(e).retryable_failures = e.retryable_failures
         /\ Blocked(e).retryable_failures = e.retryable_failures
<1>1. /\ Requeued(e).retryable_failures = e.retryable_failures
      /\ Sooner(e, d).retryable_failures = e.retryable_failures
  BY DEF Requeued, Sooner, Entry
<1>2. /\ Claimed(e).retryable_failures = e.retryable_failures
      /\ Rescheduled(e).retryable_failures = e.retryable_failures
      /\ Blocked(e).retryable_failures = e.retryable_failures
  BY DEF Claimed, Rescheduled, Blocked, Entry
<1>3. BackedOff(e).retryable_failures = e.retryable_failures + 1
  BY DEF BackedOff, Entry
<1> QED BY <1>1, <1>2, <1>3

\* What a start may find.
Found(book) == [t \in Tasks |-> requeued[t] + (IF book[t].status = "in_progress" THEN 1 ELSE 0)]

\* A start pays for what it finds in progress.
LEMMA LoadedPaid ==
  ASSUME NEW b \in Book, requeued \in [Tasks -> Nat], Paid(b, requeued)
  PROVE  Paid(Loaded(b), Found(b))
<1> SUFFICES ASSUME NEW t \in Tasks PROVE PaidEntry(Loaded(b)[t], Found(b)[t])
  BY DEF Paid
<1> DEFINE e == b[t]
           e2 == Loaded(b)[t]
           n == requeued[t]
           n2 == Found(b)[t]
<1>1. e \in Entry /\ e2 = Requeued(e) /\ PaidEntry(e, n) /\ n \in Nat
  BY DEF Book, Loaded, Paid
<1>2. n2 = n + (IF e.status = "in_progress" THEN 1 ELSE 0)
  BY DEF Found
<1> HIDE DEF e, e2, n, n2
<1>3. /\ e2.attempts = e.attempts /\ e2.retryable_failures = e.retryable_failures
      /\ e2.status = IF e.status = "in_progress" THEN "pending" ELSE e.status
  BY <1>1, RequeuedEntry, FailureCounts
<1>4. e.attempts \in Nat /\ e.retryable_failures \in Nat /\ AllowedAttempts \in Nat
  BY <1>1, RunnerAssumption DEF Entry, AllowedAttempts
<1>5. PaidEntry(e2, n2)
  BY <1>1, <1>2, <1>3, <1>4 DEF PaidEntry, Credit
<1> QED BY <1>5 DEF e2, n2

\* What is found later pays no less.
LEMMA FoundPaid ==
  ASSUME NEW b \in Book, NEW c \in Book, requeued \in [Tasks -> Nat], Paid(b, requeued)
  PROVE  Paid(b, Found(c))
<1> SUFFICES ASSUME NEW t \in Tasks PROVE PaidEntry(b[t], Found(c)[t])
  BY DEF Paid
<1>1. b[t] \in Entry /\ PaidEntry(b[t], requeued[t]) /\ requeued[t] \in Nat
  BY DEF Book, Paid
<1>2. Found(c)[t] \in Nat /\ requeued[t] <= Found(c)[t]
  BY <1>1 DEF Found
<1>3. b[t].attempts \in Nat /\ b[t].retryable_failures \in Nat /\ AllowedAttempts \in Nat
  BY <1>1, RunnerAssumption DEF Entry, AllowedAttempts
<1> QED BY <1>1, <1>2, <1>3 DEF PaidEntry, Credit

\* Time costs nothing.
LEMMA ElapsedPaid ==
  ASSUME NEW b \in Book, NEW d \in Nat, Paid(b, requeued)
  PROVE  Paid(Elapsed(b, d), requeued)
<1> SUFFICES ASSUME NEW t \in Tasks PROVE PaidEntry(Elapsed(b, d)[t], requeued[t])
  BY DEF Paid
<1>1. b[t] \in Entry /\ Elapsed(b, d)[t] = Sooner(b[t], d) /\ PaidEntry(b[t], requeued[t])
  BY DEF Book, Elapsed, Paid
<1>2. /\ Sooner(b[t], d).status = b[t].status /\ Sooner(b[t], d).attempts = b[t].attempts
      /\ Sooner(b[t], d).retryable_failures = b[t].retryable_failures
  BY <1>1, SoonerEntry, FailureCounts
<1> QED BY <1>1, <1>2 DEF PaidEntry, Credit

\* Nothing has been tried yet.
LEMMA EmptyPaid ==
  ASSUME requeued \in [Tasks -> Nat]
  PROVE  Paid(EmptyBook, requeued)
<1>1. AllowedAttempts \in Nat /\ AllowedAttempts >= 1
  BY RunnerAssumption DEF AllowedAttempts
<1>2. Fresh.attempts = 0 /\ Fresh.retryable_failures = 0
  BY DEF Fresh
<1>3. \A t \in Tasks : PaidEntry(Fresh, requeued[t])
  BY <1>1, <1>2 DEF PaidEntry, Credit
<1> QED BY <1>3 DEF Paid, EmptyBook

\* One entry changes, into one that is paid for.
LEMMA PutPaid ==
  ASSUME IInv, PaidInv, NEW t \in Tasks, NEW e \in Entry, PaidEntry(e, requeued[t]),
         mem' = Put(mem, t, e), UNCHANGED <<disk, ckpt, requeued, dry>>
  PROVE  PaidInv'
<1>1. mem'[t] = e /\ \A u \in Tasks \ {t} : mem'[u] = mem[u]
  BY PutEntry DEF IInv, TypeOK
<1>2. Paid(mem', requeued)
  BY <1>1 DEF Paid, PaidInv
<1> QED BY <1>2 DEF PaidInv, Paid

\* Steps which copy books, or forget memory.
LEMMA SamePaid ==
  ASSUME IInv, PaidInv, requeued' = requeued, ~dry', mem' \in {mem, EmptyBook},
         disk' \in {disk, mem}, ckpt' \in {ckpt, mem, EmptyBook}
  PROVE  PaidInv'
<1>1. Paid(EmptyBook, requeued)
  BY EmptyPaid DEF IInv, TypeOK
<1>2. Paid(disk', requeued) /\ Paid(ckpt', requeued) /\ Paid(mem', requeued)
  BY <1>1 DEF PaidInv
<1> QED BY <1>2 DEF PaidInv, Paid

\* Every step keeps attempts paid for.
LEMMA PaidStep ==
  ASSUME DryModes = {FALSE}, IInv, PaidInv, [Next]_vars
  PROVE  PaidInv'
<1>b. /\ mem \in Book /\ disk \in Book /\ ckpt \in Book
      /\ requeued \in [Tasks -> Nat] /\ AllowedAttempts \in Nat /\ ~dry
  BY RunnerAssumption DEF IInv, TypeOK, PaidInv, AllowedAttempts
<1>1. ASSUME NEW r \in ResumeModes, NEW d \in DryModes, Start(r, d) PROVE PaidInv'
  <2> DEFINE source == IF r THEN ckpt ELSE disk
  <2>1. /\ mem' = Loaded(source) /\ disk' = disk /\ ckpt' = ckpt /\ requeued' = Found(source)
        /\ ~dry' /\ source \in Book /\ Paid(source, requeued)
    BY <1>1, <1>b DEF Start, PaidInv, Found
  <2> HIDE DEF source
  <2>2. Paid(mem', requeued')
    BY <1>b, <2>1, LoadedPaid
  <2>3. Paid(disk, Found(source)) /\ Paid(ckpt, Found(source))
    BY <1>b, <2>1, FoundPaid DEF PaidInv
  <2> QED BY <2>1, <2>2, <2>3 DEF PaidInv, Paid
<1>2. CASE StartFails \/ UNCHANGED vars \/ RunTooLong
  <2>1. UNCHANGED <<mem, disk, ckpt, requeued, dry>>
    BY <1>2 DEF StartFails, vars, RunTooLong, copies, options
  <2> QED BY <1>b, <2>1, SamePaid
<1>3. CASE Kill \/ StopOverBudget
  <2>1. UNCHANGED <<disk, ckpt, requeued>> /\ dry' = FALSE /\ mem' = EmptyBook
    BY <1>3 DEF Kill, StopOverBudget, Gone
  <2> QED BY <2>1, SamePaid
<1>5. CASE SaveState \/ TruncateCheckpoint
  <2>1. /\ UNCHANGED <<mem, requeued, dry>>
        /\ disk' \in {disk, mem} /\ ckpt' \in {ckpt, EmptyBook}
    BY <1>5 DEF SaveState, TruncateCheckpoint, options
  <2> QED BY <1>b, <2>1, SamePaid
<1>6. CASE WriteCheckpoint
  <2>1. disk' = disk /\ requeued' = requeued /\ ckpt' = mem
    BY <1>6 DEF WriteCheckpoint
  <2>2. CASE then = "exit"
    <3>1. mem' = EmptyBook /\ ~dry'
      BY <1>6, <2>2 DEF WriteCheckpoint, Gone
    <3> QED BY <2>1, <3>1, SamePaid
  <2>3. CASE then # "exit"
    <3>1. mem' = mem /\ dry' = dry
      BY <1>6, <2>3 DEF WriteCheckpoint
    <3> QED BY <1>b, <2>1, <3>1, SamePaid
  <2> QED BY <2>2, <2>3
<1>7. CASE OutOfCycles \/ FinishAll \/ Stall \/ \E o \in AgentOutcomes, used \in Usage : RunAgent(o, used)
  <2>1. UNCHANGED <<mem, disk, ckpt, requeued, dry>>
    BY <1>7 DEF OutOfCycles, FinishAll, Stall, RunAgent, NewCycle, copies, options
  <2> QED BY <1>b, <2>1, SamePaid
<1>8. ASSUME NEW d \in Nat, mem' = Elapsed(mem, d), disk' = Elapsed(disk, d),
             ckpt' = Elapsed(ckpt, d), UNCHANGED <<requeued, dry>>
      PROVE  PaidInv'
  <2>1. Paid(mem', requeued) /\ Paid(disk', requeued) /\ Paid(ckpt', requeued)
    BY <1>8, <1>b, ElapsedPaid DEF PaidInv
  <2> QED BY <1>8, <2>1 DEF PaidInv, Paid
<1>9. CASE Idle
  <2>1. PICK d \in 1..IdleSleep :
          mem' = Elapsed(mem, d) /\ disk' = Elapsed(disk, d) /\ ckpt' = Elapsed(ckpt, d)
    BY <1>9 DEF Idle
  <2>2. d \in Nat /\ UNCHANGED <<requeued, dry>>
    BY <1>9 DEF Idle, options
  <2> QED BY <2>1, <2>2, <1>8
<1>10. CASE Tick
  <2>1. 1 \in Nat
    OBVIOUS
  <2> QED BY <1>10, <2>1, <1>8 DEF Tick, options
<1>11. ASSUME NEW t \in Tasks, SelectTask(t) PROVE PaidInv'
  <2>1. /\ mem' = Put(mem, t, Claimed(mem[t])) /\ UNCHANGED <<disk, ckpt, requeued, dry>>
        /\ mem[t].status = "pending" /\ mem[t] \in Entry
    BY <1>11, <1>b DEF SelectTask, Put, IsNext, Ready, Eligible, options, Book
  <2>2. mem[t].attempts + 1 <= Credit(mem[t], requeued[t])
    BY <2>1 DEF PaidInv, Paid, PaidEntry
  <2>3. /\ Claimed(mem[t]) \in Entry /\ Claimed(mem[t]).status = "in_progress"
        /\ Claimed(mem[t]).attempts = mem[t].attempts + 1
        /\ Claimed(mem[t]).retryable_failures = mem[t].retryable_failures
    BY <1>b, <2>1, ChangedEntries, FailureCounts
  <2>4. PaidEntry(Claimed(mem[t]), requeued[t])
    BY <2>2, <2>3 DEF PaidEntry, Credit
  <2> QED BY <2>1, <2>3, <2>4, PutPaid
<1>12. ASSUME pc = "decide"
       PROVE  /\ task \in Tasks /\ mem[task] \in Entry /\ requeued[task] \in Nat
              /\ mem[task].attempts <= Credit(mem[task], requeued[task])
              /\ mem[task].attempts \in Nat /\ mem[task].retryable_failures \in Nat
  <2>1. task \in Tasks /\ mem[task].status = "in_progress"
    BY <1>12 DEF IInv, PlaceOK
  <2>2. mem[task] \in Entry /\ mem[task].attempts <= Credit(mem[task], requeued[task])
    BY <1>b, <2>1 DEF Book, PaidInv, Paid, PaidEntry
  <2> QED BY <1>b, <2>1, <2>2 DEF Entry
<1>13. ASSUME NEW e \in Entry, Record(e), pc = "decide", PaidEntry(e, requeued[task])
       PROVE  PaidInv'
  <2>1. mem' = Put(mem, task, e) /\ UNCHANGED <<disk, ckpt, requeued, dry>>
    BY <1>13 DEF Record, Put, options
  <2> QED BY <1>12, <1>13, <2>1, PutPaid
<1>14. CASE RetryTransient
  <2> DEFINE e == BackedOff(mem[task])
  <2>1. /\ e \in Entry /\ e.status = "pending" /\ e.attempts = mem[task].attempts
        /\ e.retryable_failures = mem[task].retryable_failures + 1
    BY <1>b, <1>12, <1>14, ChangedEntries, FailureCounts DEF RetryTransient
  <2>2. pc = "decide" /\ Record(e)
    BY <1>14 DEF RetryTransient
  <2> HIDE DEF e
  <2>3. PaidEntry(e, requeued[task])
    BY <1>b, <1>12, <2>1, <2>2 DEF PaidEntry, Credit
  <2> QED BY <1>13, <2>1, <2>2, <2>3
<1>15. CASE RetryAttempt
  <2> DEFINE e == Rescheduled(mem[task])
  <2>1. /\ e \in Entry /\ e.status = "pending" /\ e.attempts = mem[task].attempts
        /\ e.retryable_failures = mem[task].retryable_failures
    BY <1>b, <1>12, <1>15, ChangedEntries, FailureCounts DEF RetryAttempt
  <2>2. pc = "decide" /\ Record(e) /\ mem[task].attempts < MaxAttempts
    BY <1>15 DEF RetryAttempt
  <2>3. MaxAttempts \in Nat /\ MaxAttempts <= AllowedAttempts
    BY RunnerAssumption DEF AllowedAttempts
  <2> HIDE DEF e
  <2>4. PaidEntry(e, requeued[task])
    BY <1>b, <1>12, <2>1, <2>2, <2>3 DEF PaidEntry, Credit
  <2> QED BY <1>13, <2>1, <2>2, <2>4
<1>16. CASE GiveUp
  <2> DEFINE e == Blocked(mem[task])
  <2>1. /\ e \in Entry /\ e.status = "blocked" /\ e.attempts = mem[task].attempts
        /\ e.retryable_failures = mem[task].retryable_failures
    BY <1>b, <1>12, <1>16, ChangedEntries, FailureCounts DEF GiveUp
  <2>2. pc = "decide" /\ Record(e)
    BY <1>16 DEF GiveUp
  <2> HIDE DEF e
  <2>3. PaidEntry(e, requeued[task])
    BY <1>12, <2>1, <2>2 DEF PaidEntry, Credit
  <2> QED BY <1>13, <2>1, <2>2, <2>3
<1>17. CASE Complete
  <2>1. pc = "decide" /\ Record(Completed(mem[task])) /\ Completed(mem[task]) \in Entry
        /\ Completed(mem[task]).status = "done"
    BY <1>12, <1>17, ChangedEntries DEF Complete
  <2>2. PaidEntry(Completed(mem[task]), requeued[task])
    BY <2>1 DEF PaidEntry
  <2> QED BY <1>13, <2>1, <2>2
<1>18. ~SkipDryRun
  <2>1. ~dry
    BY <1>b
  <2> QED BY <2>1 DEF SkipDryRun
<1> QED BY <1>1, <1>2, <1>3, <1>5, <1>6, <1>7, <1>9, <1>10, <1>11, <1>14, <1>15, <1>16,
           <1>17, <1>18
        DEF Next, RunnerStep, Persist, LoopHead, LoopBody

----------------------------------------------------------------------------
(* The theorems.                                                            *)

\* All of it holds in every behaviour.
LEMMA FilesInvariant == Spec => [](IInv /\ LagInv /\ KeepsDone)
<1>1. Init => KeepsDone
  BY DEF Init, KeepsDone
<1> QED BY <1>1, InitIInv, NextIInv, LagInit, LagStep, KeepsDoneStep, PTL DEF Spec

\* A run goes over a total's cap by one retry, or by one agent call, at most.
THEOREM BoundedOvershootHolds == Spec => []BoundedOvershoot
<1>1. Init => UnderCaps
  BY RunnerAssumption DEF Init, UnderCaps
<1>2. UnderCaps => BoundedOvershoot
  BY DEF UnderCaps, BoundedOvershoot
<1> QED BY <1>1, <1>2, FilesInvariant, CapsStep, PTL DEF Spec

\* Without --dry-run no path through the loop, a kill or a resume runs a task
\* beyond max_attempts unless a retryable failure, or a start which found it in
\* progress, pays for it.
THEOREM AttemptsPaidForHolds ==
  ASSUME DryModes = {FALSE}
  PROVE  Spec => []AttemptsPaidFor
<1>1. Init => PaidInv
  <2>1. ASSUME Init PROVE PaidInv
    <3>1. requeued \in [Tasks -> Nat]
      BY <2>1 DEF Init
    <3> QED BY <2>1, <3>1, EmptyPaid DEF Init, PaidInv
  <2> QED BY <2>1
<1>2. IInv /\ PaidInv /\ [Next]_vars => PaidInv'
  BY PaidStep
<1>3. PaidInv => AttemptsPaidFor
  BY DEF PaidInv, Paid, PaidEntry, Credit, AttemptsPaidFor, Copies
<1> QED BY <1>1, <1>2, <1>3, FilesInvariant, PTL DEF Spec

\* A checkpoint which can be resumed is at most one task away from the state
\* file, wherever runs were killed and whatever they were started from.
THEOREM CheckpointLagHolds == Spec => []CheckpointLag
<1>1. LagInv => CheckpointLag
  BY DEF LagInv, Near, CheckpointLag
<1> QED BY <1>1, FilesInvariant, PTL

\* Only a run that resumes can take back a task recorded as done.
THEOREM DoneIsFinalHolds == Spec => DoneIsFinal
<1> DEFINE Kept == \A t \in Tasks : disk[t].status = "done" => disk'[t].status = "done" \/ resume
<1>1. IInv /\ KeepsDone /\ [Next]_vars => Kept
  BY DiskStep
<1> QED BY <1>1, FilesInvariant, PTL DEF Spec, DoneIsFinal

----------------------------------------------------------------------------
(* What exit codes tell.                                                    *)

\* What a code says of a book: nothing is left, or nothing can be run.
Told(code, book) ==
  /\ code = "completed" => AllDone(book)
  /\ code = "stalled" =>
       ~AllDone(book) /\ \A t \in Tasks : book[t].status = "pending" => ~DepsDone(book, t)

Regular == {"completed", "stalled", "max_cycles", "budget"}

\* The code is true of memory while it is persisted for the last time, and then of the files.
CodeInv ==
  /\ pc \in Persisting /\ then = "exit" => Told(exit, mem)
  /\ pc = "off" =>
       /\ exit \in Regular =>
            /\ ckptFile = "whole" /\ ckpt = disk /\ Told(exit, disk)
            /\ \A t \in Tasks : disk[t].status # "in_progress"
       /\ ckptFile = "torn" => exit \in {"killed", "error"}

\* No decision about codes reads the delays.
LEMMA ElapsedTold ==
  ASSUME NEW book \in Book, Sound(book), NEW d \in Nat, NEW code
  PROVE  Told(code, book) => Told(code, Elapsed(book, d))
<1> DEFINE new == Elapsed(book, d)
<1>1. \A t \in Tasks : new[t].status = book[t].status
  BY ElapsedSound
<1> HIDE DEF new
<1>3. Told(code, book) => Told(code, new)
  BY <1>1 DEF Told, AllDone, DepsDone
<1> QED BY <1>3 DEF new

LEMMA CodeStep == IInv /\ CodeInv /\ [Next]_vars => CodeInv'
<1> SUFFICES ASSUME IInv, CodeInv, [Next]_vars PROVE CodeInv'
  OBVIOUS
<1>1. CASE \E r \in ResumeModes, d \in DryModes : Start(r, d)
  BY <1>1 DEF Start, PersistThen, CodeInv
<1>2. CASE StartFails
  BY <1>2 DEF StartFails, CodeInv, copies, Persisting, Regular
<1>3. CASE Kill
  BY <1>3 DEF Kill, Gone, CodeInv, Persisting, Regular
<1>4. CASE SaveState \/ TruncateCheckpoint
  BY <1>4 DEF SaveState, TruncateCheckpoint, CodeInv, Persisting, Told, AllDone, DepsDone
<1>5. CASE WriteCheckpoint
  <2>1. CASE then = "exit"
    <3>1. pc' = "off" /\ ckpt' = mem /\ ckptFile' = "whole" /\ disk' = disk /\ exit' = exit /\ pc = "write"
      BY <1>5, <2>1 DEF WriteCheckpoint, Gone
    <3>2. disk = mem /\ \A t \in Tasks : mem[t].status # "in_progress"
      BY <2>1, <3>1 DEF IInv, PlaceOK, Persisting
    <3>3. Told(exit, mem)
      BY <2>1, <3>1 DEF CodeInv, Persisting
    <3> QED BY <3>1, <3>2, <3>3 DEF CodeInv, Persisting, Told, AllDone, DepsDone
  <2>2. CASE then # "exit"
    BY <1>5, <2>2 DEF WriteCheckpoint, IInv, TypeOK, CodeInv, Persisting
  <2> QED BY <2>1, <2>2
<1>6. CASE OutOfCycles
  BY <1>6 DEF OutOfCycles, PersistThen, CodeInv, Told
<1>7. CASE StopOverBudget
  <2>1. disk = mem /\ ckpt = mem /\ ckptFile = "whole" /\ \A t \in Tasks : mem[t].status # "in_progress"
    BY <1>7, RunnerAssumption DEF StopOverBudget, IInv, PlaceOK
  <2> QED BY <1>7, <2>1 DEF StopOverBudget, Gone, CodeInv, Persisting, Told
<1>8. CASE FinishAll
  BY <1>8 DEF FinishAll, PersistThen, CodeInv, Told, AllDone, copies
<1>9. CASE Stall
  BY <1>9 DEF Stall, PersistThen, CodeInv, Told, AllDone, DepsDone, Eligible, copies
<1>10. CASE Idle
  BY <1>10 DEF Idle, NewCycle, CodeInv, Persisting
<1>11. ASSUME NEW t \in Tasks, SelectTask(t) PROVE CodeInv'
  BY <1>11 DEF SelectTask, PersistThen, CodeInv
<1>12. CASE SkipDryRun
  BY <1>12 DEF SkipDryRun, PersistThen, CodeInv
<1>13. ASSUME NEW o \in AgentOutcomes, NEW used \in Usage, RunAgent(o, used) PROVE CodeInv'
  BY <1>13 DEF RunAgent, CodeInv, Persisting
<1>14. CASE RetryTransient \/ RetryAttempt \/ GiveUp \/ Complete
  BY <1>14 DEF RetryTransient, RetryAttempt, GiveUp, Complete, Record, PersistThen, CodeInv
<1>15. CASE Tick
  <2>1. /\ mem' = Elapsed(mem, 1) /\ disk' = Elapsed(disk, 1) /\ ckpt' = Elapsed(ckpt, 1)
        /\ UNCHANGED <<ckptFile, pc, then, exit>>
    BY <1>15 DEF Tick
  <2>2. Told(exit, mem) => Told(exit, mem')
    BY <2>1, ElapsedTold DEF IInv, TypeOK
  <2>3. Told(exit, disk) => Told(exit, disk')
    BY <2>1, ElapsedTold DEF IInv, TypeOK
  <2>4. \A t \in Tasks : disk'[t].status = disk[t].status
    <3>1. disk \in Book /\ Sound(disk) /\ 1 \in Nat
      BY DEF IInv, TypeOK
    <3>2. \A t \in Tasks : Elapsed(disk, 1)[t].status = disk[t].status
      BY <3>1, ElapsedSound
    <3> QED BY <2>1, <3>2
  <2> QED BY <2>1, <2>2, <2>3, <2>4 DEF CodeInv, Told, AllDone, DepsDone
<1>16. CASE RunTooLong
  BY <1>16 DEF RunTooLong, CodeInv, copies, Told, AllDone, DepsDone
<1>17. CASE UNCHANGED vars
  BY <1>17 DEF vars, CodeInv, Told, AllDone, DepsDone
<1> QED
  BY <1>1, <1>2, <1>3, <1>4, <1>5, <1>6, <1>7, <1>8, <1>9, <1>10, <1>11, <1>12, <1>13, <1>14,
     <1>15, <1>16, <1>17
  DEF Next, RunnerStep, Persist, LoopHead, LoopBody

\* No tasks depend on each other in a circle: some task of every set depends on none of it.
AcyclicDeps ==
  \A T \in SUBSET Tasks : T # {} => \E t \in T : Deps[t] \intersect T = {}

\* In a book where nothing is in progress or can be run, and something is left, something
\* is blocked, or waits for what is not in the tasks file.
LEMMA StalledShowsWhy ==
  ASSUME AcyclicDeps, NEW book \in Book, \A t \in Tasks : book[t].status # "in_progress", Told("stalled", book)
  PROVE  \E t \in Tasks :
           \/ book[t].status = "blocked"
           \/ book[t].status = "pending" /\ Deps[t] \ Tasks # {}
<1> DEFINE T == {t \in Tasks : book[t].status # "done"}
<1>1. T # {}
  BY DEF Told, AllDone
<1>2. PICK t \in T : Deps[t] \intersect T = {}
  BY <1>1 DEF AcyclicDeps
<1>3. CASE Deps[t] \ Tasks = {}
  <2>1. DepsDone(book, t)
    BY <1>2, <1>3 DEF DepsDone
  <2>2. book[t].status # "pending"
    BY <2>1 DEF Told
  <2>3. book[t].status \in Statuses
    BY DEF Book, Entry
  <2> QED BY <2>2, <2>3 DEF Statuses
<1>4. CASE Deps[t] \ Tasks # {}
  <2>1. book[t].status \in Statuses
    BY DEF Book, Entry
  <2> QED BY <1>4, <2>1 DEF Statuses
<1> QED BY <1>3, <1>4

\* Whatever was killed, resumed or retried before: when a run has ended by itself the
\* checkpoint equals the state file and nothing is in progress, and its exit code is true
\* of the file (0, all is done; 2, nothing can be run, and if dependencies do not go in a
\* circle, something is blocked or depends on what the tasks file does not have); and only a kill leaves a torn checkpoint.
THEOREM ExitCodeTruthHolds == AcyclicDeps => (Spec => []ExitCodeTruth)
<1> SUFFICES ASSUME AcyclicDeps PROVE Spec => []ExitCodeTruth
  OBVIOUS
<1>1. Init => CodeInv
  BY DEF Init, CodeInv, Persisting, Regular
<1>2. IInv /\ CodeInv => ExitCodeTruth
  <2> SUFFICES ASSUME IInv, CodeInv, pc = "off" PROVE ExitCodeTruth
    BY DEF ExitCodeTruth
  <2>1. exit = "stalled" => \E t \in Tasks :
          \/ disk[t].status = "blocked"
          \/ disk[t].status = "pending" /\ Deps[t] \ Tasks # {}
    BY StalledShowsWhy DEF CodeInv, Regular, IInv, TypeOK
  <2> QED BY <2>1 DEF ExitCodeTruth, CodeInv, Regular, Told, AllDone, DepsDone
<1> QED BY <1>1, <1>2, CodeStep, Invariant, PTL DEF Spec

----------------------------------------------------------------------------
(* TaskRunner implements TaskBoard: without --resume, every step of the     *)
(* runner, of a killer or of time is a step of the board or leaves it.      *)

\* The board does not tell two books apart.
SameBoard(b, c) == \A t \in Tasks : c[t].status = b[t].status /\ c[t].attempts = b[t].attempts

\* From b to c the entry of t alone changes, as the board lets it change.
ClaimOf(b, c, t) ==
  /\ b[t].status = "pending" /\ c[t].status = "in_progress"
  /\ c[t].attempts = b[t].attempts + 1
  /\ \A d \in Deps[t] : d \in Tasks /\ b[d].status = "done"
  /\ \A u \in Tasks : b[u].status # "in_progress"

VerdictOf(b, c, t) ==
  /\ b[t].status = "in_progress" /\ c[t].attempts = b[t].attempts
  /\ \/ c[t].status \in {"pending", "done"}
     \/ c[t].status = "blocked" /\ b[t].attempts >= MaxAttempts

Follows(b, c) ==
  \/ SameBoard(b, c)
  \/ \E t \in Tasks :
       /\ \A u \in Tasks \ {t} : c[u].status = b[u].status /\ c[u].attempts = b[u].attempts
       /\ ClaimOf(b, c, t) \/ VerdictOf(b, c, t)

\* What is about to be saved follows what the state file says.
BoardInv == ~resume /\ (pc = "save" => Follows(disk, mem))

----------------------------------------------------------------------------
(* Books.                                                                   *)

\* A load gives back the task in progress, if there is one.
LEMMA LoadedFollows ==
  ASSUME NEW b \in Book, Sound(b), Single(b)
  PROVE  Follows(b, Loaded(b))
<1> DEFINE new == Loaded(b)
<1>a. \A t \in Tasks : b[t] \in Entry /\ new[t] = Requeued(b[t])
  BY DEF Book, Loaded
<1> SUFFICES Follows(b, new)
  OBVIOUS
<1> HIDE DEF new
<1>1. \A t \in Tasks : /\ b[t].status # "in_progress" => new[t] = b[t]
                       /\ new[t].attempts = b[t].attempts
                       /\ b[t].status = "in_progress" => new[t].status = "pending"
  <2> TAKE t \in Tasks
  <2>1. b[t] \in Entry /\ new[t] = Requeued(b[t])
    BY <1>a
  <2> QED BY <2>1, RequeuedEntry
<1>2. CASE \A t \in Tasks : b[t].status # "in_progress"
  BY <1>1, <1>2 DEF Follows, SameBoard
<1>3. CASE \E t \in Tasks : b[t].status = "in_progress"
  <2>0. PICK t \in Tasks : b[t].status = "in_progress"
    BY <1>3
  <2>1. \A u \in Tasks \ {t} : new[u] = b[u]
    BY <1>1, <2>0 DEF Single
  <2>2. VerdictOf(b, new, t)
    BY <1>1, <2>0 DEF VerdictOf
  <2> QED BY <2>1, <2>2 DEF Follows
<1> QED BY <1>2, <1>3

\* The board does not see time pass.
LEMMA ElapsedFollows ==
  ASSUME NEW b \in Book, NEW c \in Book, Sound(b), Sound(c), NEW d \in Nat
  PROVE  /\ SameBoard(b, Elapsed(b, d))
         /\ Follows(b, c) => Follows(Elapsed(b, d), Elapsed(c, d))
<1> DEFINE b2 == Elapsed(b, d)
           c2 == Elapsed(c, d)
<1>1. SameBoard(b, b2) /\ SameBoard(c, c2)
  BY ElapsedSound DEF SameBoard
<1> HIDE DEF b2, c2
<1>2. ASSUME Follows(b, c) PROVE Follows(b2, c2)
  <2>1. CASE SameBoard(b, c)
    BY <1>1, <2>1 DEF Follows, SameBoard
  <2>2. ASSUME NEW t \in Tasks,
               \A u \in Tasks \ {t} : c[u].status = b[u].status /\ c[u].attempts = b[u].attempts,
               ClaimOf(b, c, t) \/ VerdictOf(b, c, t)
        PROVE  Follows(b2, c2)
    <3>1. \A u \in Tasks \ {t} : c2[u].status = b2[u].status /\ c2[u].attempts = b2[u].attempts
      BY <1>1, <2>2 DEF SameBoard
    <3>2. ClaimOf(b, c, t) => ClaimOf(b2, c2, t)
      BY <1>1, BookAssumption DEF SameBoard, ClaimOf
    <3>3. VerdictOf(b, c, t) => VerdictOf(b2, c2, t)
      BY <1>1 DEF SameBoard, VerdictOf
    <3> QED BY <2>2, <3>1, <3>2, <3>3 DEF Follows
  <2> QED BY <1>2, <2>1, <2>2 DEF Follows
<1> QED BY <1>1, <1>2 DEF b2, c2

\* Recording a verdict, when the files agree with memory, follows them.
LEMMA VerdictFollows ==
  ASSUME IInv, pc \in {"agent", "decide"}, NEW e \in Entry,
         mem' = Put(mem, task, e), disk' = disk, e.attempts = mem[task].attempts,
         e.status \in {"pending", "done"} \/ (e.status = "blocked" /\ e.attempts >= MaxAttempts)
  PROVE  Follows(disk', mem')
<1>1. /\ disk' = mem /\ task \in Tasks /\ mem[task].status = "in_progress" /\ mem \in Book
  BY DEF IInv, PlaceOK, TypeOK
<1>2. mem'[task] = e /\ \A u \in Tasks \ {task} : mem'[u] = mem[u]
  BY <1>1, PutEntry
<1>3. VerdictOf(mem, mem', task)
  BY <1>1, <1>2 DEF VerdictOf
<1> QED BY <1>1, <1>2, <1>3 DEF Follows

----------------------------------------------------------------------------
(* Every step keeps BoardInv.                                               *)

LEMMA BoardInvStep ==
  ASSUME ResumeModes = {FALSE}, IInv, LagInv, BoardInv, [Next]_vars
  PROVE  BoardInv'
<1>b. /\ mem \in Book /\ disk \in Book
      /\ Sound(mem) /\ Sound(disk) /\ Single(disk)
  BY IInvBooks DEF LagInv
<1>1. ASSUME NEW r \in ResumeModes, NEW d \in DryModes, Start(r, d) PROVE BoardInv'
  <2>1. disk' = disk /\ mem' = Loaded(disk) /\ ~resume'
    BY <1>1 DEF Start
  <2> QED BY <2>1, <1>b, LoadedFollows DEF BoardInv
<1>2. CASE StartFails \/ UNCHANGED vars \/ RunTooLong
  BY <1>2 DEF StartFails, RunTooLong, vars, copies, options, BoardInv
<1>3. CASE Kill \/ StopOverBudget
  BY <1>3 DEF Kill, StopOverBudget, Gone, BoardInv
<1>4. CASE SaveState \/ TruncateCheckpoint
  BY <1>4 DEF SaveState, TruncateCheckpoint, options, BoardInv
<1>5. CASE WriteCheckpoint
  BY <1>5 DEF WriteCheckpoint, Gone, BoardInv, IInv, TypeOK
<1>6. CASE OutOfCycles \/ FinishAll \/ Stall
  <2>1. UNCHANGED <<mem, disk, resume>> /\ disk = mem
    BY <1>6 DEF OutOfCycles, FinishAll, Stall, NewCycle, copies, options, IInv, PlaceOK
  <2> QED BY <2>1 DEF BoardInv, Follows, SameBoard
<1>7. ASSUME NEW d \in Nat, mem' = Elapsed(mem, d), disk' = Elapsed(disk, d), UNCHANGED <<pc, resume>>
      PROVE  BoardInv'
  <2>1. Follows(disk, mem) => Follows(disk', mem')
    BY <1>7, <1>b, ElapsedFollows
  <2> QED BY <1>7, <2>1 DEF BoardInv
<1>8. CASE Idle
  <2>1. PICK d \in 1..IdleSleep : mem' = Elapsed(mem, d) /\ disk' = Elapsed(disk, d)
    BY <1>8 DEF Idle
  <2>2. d \in Nat /\ UNCHANGED <<pc, resume>>
    BY <1>8 DEF Idle, options
  <2> QED BY <2>1, <2>2, <1>7
<1>9. CASE Tick
  <2>1. 1 \in Nat
    OBVIOUS
  <2> QED BY <1>9, <2>1, <1>7 DEF Tick, options
<1>10. ASSUME NEW t \in Tasks, SelectTask(t) PROVE BoardInv'
  <2>1. /\ mem' = Put(mem, t, Claimed(mem[t])) /\ disk' = mem /\ resume' = resume
        /\ t \in Eligible(mem) /\ \A u \in Tasks : mem[u].status # "in_progress"
    BY <1>10, RunnerAssumption
       DEF SelectTask, NewCycle, Put, IsNext, Ready, options, IInv, PlaceOK
  <2>2. /\ Claimed(mem[t]) \in Entry /\ Claimed(mem[t]).status = "in_progress"
        /\ Claimed(mem[t]).attempts = mem[t].attempts + 1
    BY <1>b, ChangedEntries DEF Book
  <2>3. mem'[t] = Claimed(mem[t]) /\ \A u \in Tasks \ {t} : mem'[u] = mem[u]
    BY <2>1, <2>2, <1>b, PutEntry
  <2>4. ClaimOf(mem, mem', t)
    BY <2>1, <2>2, <2>3 DEF ClaimOf, Eligible, DepsDone
  <2>5. Follows(disk', mem')
    BY <2>1, <2>3, <2>4 DEF Follows
  <2> QED BY <2>1, <2>5 DEF BoardInv
<1>11. CASE SkipDryRun
  <2>1. task \in Tasks /\ mem[task] \in Entry
    BY <1>11, <1>b DEF SkipDryRun, IInv, PlaceOK, Book
  <2> DEFINE e == [mem[task] EXCEPT !.status = "pending"]
  <2>2. e \in Entry /\ e.status = "pending" /\ e.attempts = mem[task].attempts
    BY <2>1 DEF Entry, Statuses
  <2>3. mem' = Put(mem, task, e) /\ disk' = disk /\ resume' = resume /\ pc = "agent"
    BY <1>11 DEF SkipDryRun, Put, options
  <2> HIDE DEF e
  <2> QED BY <2>2, <2>3, VerdictFollows DEF BoardInv
<1>12. CASE \E o \in AgentOutcomes, used \in Usage : RunAgent(o, used)
  BY <1>12 DEF RunAgent, options, BoardInv
<1>13. ASSUME NEW e \in Entry, Record(e), pc = "decide", e.attempts = mem[task].attempts,
              e.status \in {"pending", "done"} \/ (e.status = "blocked" /\ e.attempts >= MaxAttempts)
       PROVE  BoardInv'
  <2>1. mem' = Put(mem, task, e) /\ disk' = disk /\ resume' = resume
    BY <1>13 DEF Record, Put, options
  <2> QED BY <1>13, <2>1, VerdictFollows DEF BoardInv
<1>14. CASE RetryTransient \/ RetryAttempt \/ GiveUp \/ Complete
  <2>1. pc = "decide" /\ mem[task] \in Entry
    BY <1>14, <1>b DEF RetryTransient, RetryAttempt, GiveUp, Complete, IInv, PlaceOK, Book
  <2>2. CASE RetryTransient
    BY <2>1, <2>2, <1>13, ChangedEntries DEF RetryTransient
  <2>3. CASE RetryAttempt
    BY <2>1, <2>3, <1>13, ChangedEntries DEF RetryAttempt
  <2>4. CASE GiveUp
    BY <2>1, <2>4, <1>13, ChangedEntries DEF GiveUp
  <2>5. CASE Complete
    BY <2>1, <2>5, <1>13, ChangedEntries DEF Complete
  <2> QED BY <1>14, <2>2, <2>3, <2>4, <2>5
<1> QED BY <1>1, <1>2, <1>3, <1>4, <1>5, <1>6, <1>8, <1>9, <1>10, <1>11, <1>12, <1>14
        DEF Next, RunnerStep, Persist, LoopHead, LoopBody

----------------------------------------------------------------------------
(* Every step is a step of the board.                                       *)

\* A step of the state file which the board sees is a save.
LEMMA DiskFollows ==
  ASSUME IInv, LagInv, BoardInv, [Next]_vars
  PROVE  Follows(disk, disk')
<1>b. disk \in Book /\ Sound(disk)
  BY IInvBooks
<1>1. CASE SaveState
  BY <1>1 DEF SaveState, BoardInv
<1>2. ASSUME NEW d \in Nat, disk' = Elapsed(disk, d) PROVE Follows(disk, disk')
  BY <1>2, <1>b, ElapsedFollows DEF Follows
<1>3. CASE Idle
  <2>1. PICK d \in 1..IdleSleep : disk' = Elapsed(disk, d)
    BY <1>3 DEF Idle
  <2>2. d \in Nat
    OBVIOUS
  <2> QED BY <2>1, <2>2, <1>2
<1>4. CASE Tick
  <2>1. 1 \in Nat
    OBVIOUS
  <2> QED BY <1>4, <2>1, <1>2 DEF Tick
<1>5. ASSUME disk' = disk PROVE Follows(disk, disk')
  BY <1>5 DEF Follows, SameBoard
<1>6. CASE TruncateCheckpoint \/ WriteCheckpoint \/ Kill \/ StartFails \/ RunTooLong \/ UNCHANGED vars
           \/ \E r \in ResumeModes, d \in DryModes : Start(r, d)
  BY <1>5, <1>6 DEF TruncateCheckpoint, WriteCheckpoint, Kill, StartFails, RunTooLong, vars, Start, copies
<1>7. CASE OutOfCycles \/ StopOverBudget \/ FinishAll \/ Stall \/ \E u \in Tasks : SelectTask(u)
  BY <1>5, <1>7 DEF OutOfCycles, StopOverBudget, FinishAll, Stall, SelectTask, copies
<1>8. CASE LoopBody
  BY <1>5, <1>8
     DEF LoopBody, SkipDryRun, RunAgent, RetryTransient, RetryAttempt, GiveUp, Complete, Record, copies
<1> QED BY <1>1, <1>3, <1>4, <1>6, <1>7, <1>8 DEF Next, RunnerStep, Persist, LoopHead

\* Books which follow each other are a step of the board, or the same board.
LEMMA FollowsIsBoardStep ==
  ASSUME disk' \in Book, Follows(disk, disk')
  PROVE  [Board!Next]_(Board!boardVars)
<1> DEFINE s == [t \in Tasks |-> disk[t].status]
           s2 == [t \in Tasks |-> disk'[t].status]
           n == [t \in Tasks |-> disk[t].attempts]
           n2 == [t \in Tasks |-> disk'[t].attempts]
<1>1. CASE SameBoard(disk, disk')
  <2>1. s2 = s /\ n2 = n
    BY <1>1 DEF SameBoard
  <2> QED BY <2>1 DEF Board!boardVars
<1>2. ASSUME NEW t \in Tasks,
             \A u \in Tasks \ {t} :
               disk'[u].status = disk[u].status /\ disk'[u].attempts = disk[u].attempts,
             ClaimOf(disk, disk', t) \/ VerdictOf(disk, disk', t)
      PROVE  Board!Next
  <2>1. CASE ClaimOf(disk, disk', t)
    <3>1. s2 = [s EXCEPT ![t] = "in_progress"] /\ n2 = [n EXCEPT ![t] = n[t] + 1]
      BY <1>2, <2>1 DEF ClaimOf
    <3>2. s[t] = "pending" /\ (\A d \in Deps[t] : d \in Tasks /\ s[d] = "done") /\ \A u \in Tasks : s[u] # "in_progress"
      BY <2>1, BookAssumption DEF ClaimOf
    <3> QED BY <3>1, <3>2 DEF Board!Next, Board!Claim
  <2>2. CASE VerdictOf(disk, disk', t)
    <3>1. n2 = n /\ s[t] = "in_progress"
      BY <1>2, <2>2 DEF VerdictOf
    <3>2. CASE disk'[t].status = "pending"
      <4>1. s2 = [s EXCEPT ![t] = "pending"]
        BY <1>2, <3>2
      <4> QED BY <3>1, <4>1 DEF Board!Next, Board!GiveBack
    <3>3. CASE disk'[t].status = "done"
      <4>1. s2 = [s EXCEPT ![t] = "done"]
        BY <1>2, <3>3
      <4> QED BY <3>1, <4>1 DEF Board!Next, Board!Finish
    <3>4. CASE disk'[t].status = "blocked" /\ disk[t].attempts >= MaxAttempts
      <4>1. s2 = [s EXCEPT ![t] = "blocked"] /\ n[t] >= MaxAttempts
        BY <1>2, <3>4
      <4> QED BY <3>1, <4>1 DEF Board!Next, Board!Abandon
    <3> QED BY <2>2, <3>2, <3>3, <3>4 DEF VerdictOf
  <2> QED BY <1>2, <2>1, <2>2
<1> QED BY <1>1, <1>2 DEF Follows

\* Without --resume the state file is a TaskBoard, for every task set, every
\* option and any number of runs, wherever they are killed.
THEOREM StateFileIsBoardHolds ==
  ASSUME ResumeModes = {FALSE}
  PROVE  Spec => StateFileIsBoard
<1>1. Init => BoardInv /\ Board!Init
  <2>1. \A t \in Tasks : EmptyBook[t] = Fresh /\ Fresh.status = "pending" /\ Fresh.attempts = 0
    BY DEF EmptyBook, Fresh
  <2> QED BY <2>1 DEF Init, BoardInv, Board!Init
<1>2. IInv /\ LagInv /\ BoardInv /\ [Next]_vars => BoardInv'
  BY BoardInvStep
<1>3. IInv /\ IInv' /\ LagInv /\ BoardInv /\ [Next]_vars => [Board!Next]_(Board!boardVars)
  <2>1. IInv' => disk' \in Book
    BY DEF IInv, TypeOK
  <2> QED BY <2>1, DiskFollows, FollowsIsBoardStep
<1> QED BY <1>1, <1>2, <1>3, FilesInvariant, PTL DEF Spec, StateFileIsBoard, Board!Spec

=============================================================================
