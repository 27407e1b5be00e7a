-------------------------- MODULE TaskRunnerProofs --------------------------
(* Proofs about TaskRunner, for every value of its constants. *)
EXTENDS TaskRunner, TLAPS

----------------------------------------------------------------------------
(* The entries.                                                             *)

\* Retry delays are natural numbers, whatever the exponent.
LEMMA BackoffType == \A n \in Nat : Backoff(n) \in Nat
  BY BookAssumption DEF Backoff

\* Recovery changes a status only from in progress to pending, and no count.
LEMMA RequeuedEntry ==
  ASSUME NEW e \in Entry
  PROVE  /\ Requeued(e) \in Entry
         /\ Requeued(e).attempts = e.attempts
         /\ Requeued(e).status = IF e.status = "in_progress" THEN "pending" ELSE e.status
         /\ e.status # "in_progress" => Requeued(e) = e
  BY DEF Requeued, Entry, Statuses

\* The passing of time changes neither status nor counts.
LEMMA SoonerEntry ==
  ASSUME NEW e \in Entry, NEW d \in Nat
  PROVE  /\ Sooner(e, d) \in Entry
         /\ Sooner(e, d).attempts = e.attempts
         /\ Sooner(e, d).status = e.status
  BY DEF Sooner, Entry

\* What each verdict makes of an entry.
LEMMA ChangedEntries ==
  ASSUME NEW e \in Entry
  PROVE  /\ Claimed(e) \in Entry
         /\ Claimed(e).status = "in_progress" /\ Claimed(e).attempts = e.attempts + 1
         /\ BackedOff(e) \in Entry
         /\ BackedOff(e).status = "pending" /\ BackedOff(e).attempts = e.attempts
         /\ Rescheduled(e) \in Entry
         /\ Rescheduled(e).status = "pending" /\ Rescheduled(e).attempts = e.attempts
         /\ Completed(e) \in Entry
         /\ Completed(e).status = "done" /\ Completed(e).attempts = e.attempts
         /\ Blocked(e) \in Entry
         /\ Blocked(e).status = "blocked" /\ Blocked(e).attempts = e.attempts
  <1>1. /\ Claimed(e) \in Entry
        /\ Claimed(e).status = "in_progress" /\ Claimed(e).attempts = e.attempts + 1
    <2>1. e.attempts + 1 \in Nat
      BY DEF Entry
    <2>2. QED
      BY <2>1 DEF Claimed, Entry, Statuses
  <1>2. /\ BackedOff(e) \in Entry
        /\ BackedOff(e).status = "pending" /\ BackedOff(e).attempts = e.attempts
    <2>1. e.retryable_failures + 1 \in Nat
      BY DEF Entry
    <2>2. Backoff(e.retryable_failures + 1) \in Nat
      BY <2>1, BackoffType
    <2>3. QED
      BY <2>1, <2>2 DEF BackedOff, Entry, Statuses
  <1>3. /\ Rescheduled(e) \in Entry
        /\ Rescheduled(e).status = "pending" /\ Rescheduled(e).attempts = e.attempts
    BY BookAssumption DEF Rescheduled, Entry, Statuses
  <1>4. /\ Completed(e) \in Entry
        /\ Completed(e).status = "done" /\ Completed(e).attempts = e.attempts
    BY DEF Completed, Entry, Statuses
  <1>5. /\ Blocked(e) \in Entry
        /\ Blocked(e).status = "blocked" /\ Blocked(e).attempts = e.attempts
    BY DEF Blocked, Entry, Statuses
  <1>6. QED
    BY <1>1, <1>2, <1>3, <1>4, <1>5

----------------------------------------------------------------------------
(* The books.                                                               *)

\* What every copy of the book satisfies by itself.
Sound(book) ==
  /\ \A t \in Tasks : book[t].attempts > 0 => \A d \in Deps[t] : d \in Tasks /\ book[d].status = "done"
  /\ \A t \in Tasks : book[t].status # "pending" => book[t].attempts > 0
  /\ \A t \in Tasks : book[t].status = "blocked" => book[t].attempts >= MaxAttempts

LEMMA EmptyBookSound ==
  /\ EmptyBook \in Book
  /\ Sound(EmptyBook)
  /\ \A t \in Tasks : EmptyBook[t].status = "pending"
  <1>1. Fresh \in Entry /\ Fresh.status = "pending" /\ Fresh.attempts = 0
    BY DEF Fresh, Entry, Statuses
  <1>2. QED
    BY <1>1 DEF EmptyBook, Book, Sound

\* Loading a book leaves nothing in progress and changes nothing else.
LEMMA LoadedSound ==
  ASSUME NEW book \in Book, Sound(book)
  PROVE  /\ Loaded(book) \in Book
         /\ Sound(Loaded(book))
         /\ \A t \in Tasks :
              /\ Loaded(book)[t].status # "in_progress"
              /\ Loaded(book)[t].status = "done" <=> book[t].status = "done"
              /\ book[t].status # "in_progress" => Loaded(book)[t] = book[t]
  <1> DEFINE new == Loaded(book)
  <1>1. \A t \in Tasks : book[t] \in Entry /\ new[t] = Requeued(book[t])
    BY DEF Book, Loaded
  <1>2. \A t \in Tasks :
          /\ new[t] \in Entry
          /\ new[t].attempts = book[t].attempts
          /\ new[t].status = IF book[t].status = "in_progress" THEN "pending" ELSE book[t].status
          /\ book[t].status # "in_progress" => new[t] = book[t]
    <2> TAKE t \in Tasks
    <2> QED
      BY <1>1, RequeuedEntry
  <1>3. new \in Book
    BY <1>2 DEF Book, Loaded
  <1>4. \A t \in Tasks :
          /\ new[t].status # "in_progress"
          /\ new[t].status = "done" <=> book[t].status = "done"
    BY <1>2
  <1>5. Sound(new)
    BY <1>2, BookAssumption DEF Sound
  <1>6. QED
    BY <1>2, <1>3, <1>4, <1>5

\* The passing of time changes no status and no count.
LEMMA ElapsedSound ==
  ASSUME NEW book \in Book, Sound(book), NEW d \in Nat
  PROVE  /\ Elapsed(book, d) \in Book
         /\ Sound(Elapsed(book, d))
         /\ \A t \in Tasks : Elapsed(book, d)[t].status = book[t].status
         /\ \A t \in Tasks : Elapsed(book, d)[t].attempts = book[t].attempts
  <1> DEFINE new == Elapsed(book, d)
  <1>1. \A t \in Tasks : book[t] \in Entry /\ new[t] = Sooner(book[t], d)
    BY DEF Book, Elapsed
  <1>2. \A t \in Tasks :
          /\ new[t] \in Entry
          /\ new[t].attempts = book[t].attempts
          /\ new[t].status = book[t].status
    <2> TAKE t \in Tasks
    <2> HIDE DEF new
    <2> QED
      BY <1>1, SoonerEntry
  <1>3. new \in Book
    BY <1>2 DEF Book, Elapsed
  <1>4. Sound(new)
    BY <1>2, BookAssumption DEF Sound
  <1>5. QED
    BY <1>2, <1>3, <1>4

\* The book with a new entry for one task.
Put(book, t, e) == [book EXCEPT ![t] = e]

LEMMA PutEntry ==
  ASSUME NEW book \in Book, NEW t \in Tasks, NEW e \in Entry
  PROVE  /\ Put(book, t, e) \in Book
         /\ Put(book, t, e)[t] = e
         /\ \A u \in Tasks \ {t} : Put(book, t, e)[u] = book[u]
  BY DEF Put, Book

\* A claim of a task whose dependencies are done.
LEMMA ClaimSound ==
  ASSUME NEW book \in Book, Sound(book), NEW t \in Eligible(book)
  PROVE  /\ Put(book, t, Claimed(book[t])) \in Book
         /\ Sound(Put(book, t, Claimed(book[t])))
         /\ Put(book, t, Claimed(book[t]))[t].status = "in_progress"
         /\ \A u \in Tasks \ {t} : Put(book, t, Claimed(book[t]))[u] = book[u]
  <1> DEFINE new == Put(book, t, Claimed(book[t]))
  <1>1. t \in Tasks /\ book[t].status = "pending" /\ \A d \in Deps[t] : d \in Tasks /\ book[d].status = "done"
    BY DEF Eligible, DepsDone
  <1>2. book[t] \in Entry
    BY <1>1 DEF Book
  <1>3. /\ Claimed(book[t]) \in Entry
        /\ Claimed(book[t]).status = "in_progress"
        /\ Claimed(book[t]).attempts = book[t].attempts + 1
    BY <1>2, ChangedEntries
  <1>4. new \in Book
    BY <1>1, <1>3, PutEntry
  <1>5. new[t] = Claimed(book[t]) /\ \A u \in Tasks \ {t} : new[u] = book[u]
    BY <1>1, <1>3, PutEntry
  <1> HIDE DEF new
  <1>6. \A u, d \in Tasks : u # d /\ d \in Deps[u] /\ d = t => book[u].attempts = 0
    BY <1>1, <1>2 DEF Sound, Book, Entry
  <1>7. t \notin Deps[t]
    BY <1>1
  <1>8. Sound(new)
    <2>1. \A u \in Tasks : new[u].attempts > 0 => \A d \in Deps[u] : d \in Tasks /\ new[d].status = "done"
      <3> SUFFICES ASSUME NEW u \in Tasks, new[u].attempts > 0, NEW d \in Deps[u]
                   PROVE  d \in Tasks /\ new[d].status = "done"
        OBVIOUS
      <3>1. d \in Tasks
        BY <1>1, <1>5 DEF Sound
      <3>2. CASE u = t
        BY <3>1, <3>2, <1>1, <1>5, <1>7
      <3>3. CASE u # t
        BY <3>1, <3>3, <1>1, <1>5, <1>6 DEF Sound
      <3>4. QED
        BY <3>2, <3>3
    <2>2. new[t].attempts > 0 /\ new[t].status # "blocked"
      BY <1>2, <1>3, <1>5 DEF Entry
    <2>3. QED
      BY <2>1, <2>2, <1>5 DEF Sound
  <1>9. QED
    BY <1>3, <1>4, <1>5, <1>8 DEF new

\* A verdict on the task in progress.
LEMMA VerdictSound ==
  ASSUME NEW book \in Book, Sound(book), NEW t \in Tasks, book[t].status = "in_progress",
         NEW e \in Entry, e.attempts = book[t].attempts,
         e.status # "blocked" \/ e.attempts >= MaxAttempts
  PROVE  Sound(Put(book, t, e))
  <1> DEFINE new == Put(book, t, e)
  <1>2. new[t] = e /\ \A u \in Tasks \ {t} : new[u] = book[u]
    BY PutEntry
  <1> HIDE DEF new
  <1>3. \A u \in Tasks : new[u].attempts > 0 => \A d \in Deps[u] : d \in Tasks /\ new[d].status = "done"
    <2> SUFFICES ASSUME NEW u \in Tasks, new[u].attempts > 0, NEW d \in Deps[u]
                 PROVE  d \in Tasks /\ new[d].status = "done"
      OBVIOUS
    <2>1. book[u].attempts > 0
      BY <1>2
    <2>2. d \in Tasks /\ book[d].status = "done"
      BY <2>1 DEF Sound
    <2>3. QED
      BY <2>1, <2>2, <1>2
  <1>4. Sound(new)
    BY <1>2, <1>3 DEF Sound
  <1>5. QED
    BY <1>4 DEF new

----------------------------------------------------------------------------
(* The inductive invariant.                                                 *)

Persisting == {"save", "truncate", "write"}

\* Where the runner is tells which task it holds and which copies agree.
PlaceOK ==
  /\ pc \in {"off", "cycle"} => task = NoTask
  /\ pc \in {"agent", "decide"} => task \in Tasks
  /\ pc \in Persisting => (then = "agent" <=> task \in Tasks)
  /\ \A t \in Tasks : mem[t].status = "in_progress" <=> t = task
  /\ pc \in {"truncate", "write"} => disk = mem
  /\ pc \in {"cycle", "agent", "decide"} => ckptFile = "whole" /\ disk = mem /\ ckpt = mem

IInv == TypeOK /\ Sound(mem) /\ Sound(disk) /\ Sound(ckpt) /\ PlaceOK

LEMMA NoOutcomeType == NoOutcome \in Outcomes
  <1>1. NoSignals \in SignalRecord
    BY DEF NoSignals, SignalRecord
  <1>2. QED
    BY <1>1 DEF NoOutcome, Outcomes, Checks

LEMMA Bounds == 0 \in 0..MaxCycles /\ 0 \in 0..MaxStarts
  BY RunnerAssumption

LEMMA InitIInv == Init => IInv
  <1> SUFFICES ASSUME Init PROVE IInv
    OBVIOUS
  <1>3. TypeOK
    BY NoOutcomeType, EmptyBookSound, Bounds DEF Init, TypeOK, Places, Exits
  <1>4. PlaceOK
    BY EmptyBookSound, RunnerAssumption DEF Init, PlaceOK, Persisting
  <1>5. QED
    BY <1>3, <1>4, EmptyBookSound DEF Init, IInv

\* A dead runner's volatile state.
LEMMA GoneOK ==
  ASSUME TypeOK, Gone, disk' = disk, ckpt' \in Book, ckptFile' \in {"missing", "torn", "whole"},
         exit' \in Exits, starts' = starts, requeued' = requeued
  PROVE  TypeOK' /\ Sound(mem)' /\ PlaceOK'
  <1>3. TypeOK'
    BY NoOutcomeType, EmptyBookSound, Bounds DEF Gone, TypeOK, Places
  <1>4. PlaceOK'
    BY EmptyBookSound, RunnerAssumption DEF Gone, PlaceOK, Persisting
  <1>5. Sound(mem)'
    BY EmptyBookSound DEF Gone, Sound
  <1>6. QED
    BY <1>3, <1>4, <1>5

\* The four verdicts change memory in the same way.
LEMMA RecordOK ==
  ASSUME IInv, pc = "decide", NEW e \in Entry, Record(e), retries' \in Nat,
         e.attempts = mem[task].attempts, e.status # "in_progress",
         e.status # "blocked" \/ e.attempts >= MaxAttempts
  PROVE  IInv'
  <1>1. task \in Tasks /\ mem[task].status = "in_progress" /\ mem \in Book /\ Sound(mem)
    BY DEF IInv, PlaceOK, TypeOK
  <1>2. mem' = Put(mem, task, e)
    BY DEF Record, Put
  <1>3. /\ mem' \in Book /\ mem'[task] = e
        /\ \A u \in Tasks \ {task} : mem'[u] = mem[u]
    BY <1>1, <1>2, PutEntry
  <1>4. Sound(mem')
    BY <1>1, <1>2, VerdictSound
  <1>5. TypeOK'
    BY <1>3, NoOutcomeType DEF IInv, TypeOK, Record, PersistThen, Places, options
  <1>6. PlaceOK'
    <2>1. \A t \in Tasks : mem'[t].status = "in_progress" <=> t = task'
      BY <1>1, <1>3, RunnerAssumption DEF Record, IInv, PlaceOK
    <2>2. QED
      BY <2>1, RunnerAssumption DEF Record, PersistThen, PlaceOK, Persisting
  <1>7. QED
    BY <1>4, <1>5, <1>6 DEF IInv, Record, Sound

----------------------------------------------------------------------------
(* Every action preserves the inductive invariant.                          *)

LEMMA StartOK ==
  ASSUME IInv, NEW r \in ResumeModes, NEW d \in DryModes, Start(r, d)
  PROVE  IInv'
  <1> DEFINE source == IF r THEN ckpt ELSE disk
  <1>1. mem' = Loaded(source) /\ source \in Book /\ Sound(source)
    BY DEF Start, IInv, TypeOK
  <1>2. /\ mem' \in Book /\ Sound(mem')
        /\ \A t \in Tasks : mem'[t].status # "in_progress"
    <2> HIDE DEF source
    <2> QED
      BY <1>1, LoadedSound
  <1>3. r \in BOOLEAN /\ d \in BOOLEAN /\ starts + 1 \in 0..MaxStarts
    BY RunnerAssumption DEF Start, IInv, TypeOK
  <1>6. requeued' \in [Tasks -> Nat]
    BY DEF Start, IInv, TypeOK
  <1>4. TypeOK'
    BY <1>2, <1>3, <1>6 DEF Start, IInv, TypeOK, PersistThen, Places, Exits, budget
  <1>5. PlaceOK'
    BY <1>2, RunnerAssumption DEF Start, PersistThen, IInv, PlaceOK, Persisting
  <1>7. QED
    BY <1>2, <1>4, <1>5 DEF Start, IInv, Sound

LEMMA StartFailsOK ==
  ASSUME IInv, StartFails
  PROVE  IInv'
  <1>1. starts + 1 \in 0..MaxStarts
    BY RunnerAssumption DEF StartFails, IInv, TypeOK
  <1>2. TypeOK'
    BY <1>1 DEF StartFails, IInv, TypeOK, Exits, copies, budget
  <1>3. QED
    BY <1>2 DEF StartFails, IInv, PlaceOK, Sound, copies

LEMMA PersistOK ==
  ASSUME IInv, Persist
  PROVE  IInv'
  <1>1. CASE SaveState
    <2>1. TypeOK'
      BY <1>1 DEF SaveState, IInv, TypeOK, Places, budget, options
    <2>2. PlaceOK'
      BY <1>1 DEF SaveState, IInv, PlaceOK, Persisting
    <2>3. QED
      BY <1>1, <2>1, <2>2 DEF SaveState, IInv, Sound
  <1>2. CASE TruncateCheckpoint
    <2>1. TypeOK'
      BY <1>2, EmptyBookSound DEF TruncateCheckpoint, IInv, TypeOK, Places, budget, options
    <2>2. PlaceOK'
      BY <1>2 DEF TruncateCheckpoint, IInv, PlaceOK, Persisting
    <2>3. QED
      BY <1>2, <2>1, <2>2, EmptyBookSound DEF TruncateCheckpoint, IInv, Sound
  <1>3. CASE WriteCheckpoint
    <2>1. CASE then = "exit"
      <3>1. Gone /\ disk' = disk /\ ckpt' = mem /\ ckptFile' = "whole" /\ exit' = exit
           /\ starts' = starts /\ requeued' = requeued
        BY <1>3, <2>1 DEF WriteCheckpoint
      <3>2. TypeOK' /\ Sound(mem)' /\ PlaceOK'
        BY <3>1, GoneOK DEF IInv, TypeOK
      <3>3. QED
        BY <3>1, <3>2 DEF IInv, Sound
    <2>2. CASE then # "exit"
      <3>1. /\ pc' = then /\ ckpt' = mem /\ ckptFile' = "whole" /\ pc = "write"
            /\ UNCHANGED <<mem, disk, then, exit, starts, requeued, task, outcome, cycle, budget, resume, dry>>
        BY <1>3, <2>2 DEF WriteCheckpoint
      <3>2. TypeOK'
        BY <2>2, <3>1 DEF IInv, TypeOK, Places, budget
      <3>3. PlaceOK'
        BY <2>2, <3>1, RunnerAssumption DEF IInv, TypeOK, PlaceOK, Persisting
      <3>4. QED
        BY <3>1, <3>2, <3>3 DEF IInv, Sound
    <2>3. QED
      BY <2>1, <2>2
  <1>4. QED
    BY <1>1, <1>2, <1>3 DEF Persist

\* Kill and StopOverBudget lose the memory and touch no file.
LEMMA DeathOK ==
  ASSUME IInv, Gone, exit' \in Exits, UNCHANGED <<disk, ckpt, ckptFile, starts, requeued>>
  PROVE  IInv'
  <1>1. TypeOK' /\ Sound(mem)' /\ PlaceOK'
    BY GoneOK DEF IInv, TypeOK
  <1>2. QED
    BY <1>1 DEF IInv, Sound

\* The exits which persist first.
LEMMA LeaveOK ==
  ASSUME IInv, pc = "cycle", PersistThen("exit"), exit' \in Exits, cycle' \in 0..MaxCycles,
         UNCHANGED <<copies, task, outcome, budget, options>>
  PROVE  IInv'
  <1>1. TypeOK'
    BY DEF IInv, TypeOK, PersistThen, Places, copies, budget, options
  <1>2. PlaceOK'
    BY RunnerAssumption DEF IInv, PlaceOK, PersistThen, Persisting, copies
  <1>3. QED
    BY <1>1, <1>2 DEF IInv, Sound, copies

LEMMA NewCycleType == IInv /\ NewCycle => cycle' \in 0..MaxCycles /\ pc = "cycle"
  BY RunnerAssumption DEF IInv, TypeOK, NewCycle

LEMMA SelectTaskOK ==
  ASSUME IInv, NEW t \in Tasks, SelectTask(t)
  PROVE  IInv'
  <1>1. t \in Eligible(mem) /\ mem \in Book /\ Sound(mem)
    BY DEF SelectTask, IsNext, Ready, IInv, TypeOK
  <1>2. mem' = Put(mem, t, Claimed(mem[t]))
    BY DEF SelectTask, Put
  <1>3. /\ mem' \in Book /\ Sound(mem') /\ mem'[t].status = "in_progress"
        /\ \A u \in Tasks \ {t} : mem'[u] = mem[u]
    BY <1>1, <1>2, ClaimSound
  <1>4. NewCycle /\ PersistThen("agent") /\ task' = t
    BY DEF SelectTask
  <1>5. TypeOK'
    BY <1>3, <1>4, NewCycleType DEF SelectTask, IInv, TypeOK, PersistThen, Places, budget, options
  <1>6. PlaceOK'
    <2>1. task = NoTask
      BY <1>4 DEF NewCycle, IInv, PlaceOK
    <2>2. \A u \in Tasks : mem'[u].status = "in_progress" <=> u = task'
      BY <1>3, <1>4, <2>1, RunnerAssumption DEF IInv, PlaceOK
    <2>3. QED
      BY <1>4, <2>2 DEF PersistThen, PlaceOK, Persisting
  <1>7. QED
    BY <1>3, <1>5, <1>6 DEF SelectTask, IInv, Sound

\* Time passes for the three copies alike.
LEMMA TimeOK ==
  ASSUME IInv, NEW d \in Nat, cycle' \in 0..MaxCycles,
         mem' = Elapsed(mem, d), disk' = Elapsed(disk, d), ckpt' = Elapsed(ckpt, d),
         UNCHANGED <<ckptFile, pc, then, exit, task, outcome, budget, options>>
  PROVE  IInv'
  <1>1. /\ mem \in Book /\ disk \in Book /\ ckpt \in Book
        /\ Sound(mem) /\ Sound(disk) /\ Sound(ckpt)
    BY DEF IInv, TypeOK
  <1>2. mem' \in Book /\ disk' \in Book /\ ckpt' \in Book
    BY <1>1, ElapsedSound
  <1>3. Sound(mem') /\ Sound(disk') /\ Sound(ckpt')
    BY <1>1, ElapsedSound
  <1>4. \A t \in Tasks : mem'[t].status = mem[t].status
    BY <1>1, ElapsedSound
  <1>5. TypeOK'
    BY <1>2 DEF IInv, TypeOK, budget, options
  <1>6. PlaceOK'
    BY <1>4 DEF IInv, PlaceOK
  <1>7. QED
    BY <1>3, <1>5, <1>6 DEF IInv, Sound

LEMMA LoopHeadOK ==
  ASSUME IInv, LoopHead
  PROVE  IInv'
  <1>1. CASE OutOfCycles
    BY <1>1, LeaveOK DEF OutOfCycles, Exits, IInv, TypeOK
  <1>2. CASE StopOverBudget
    BY <1>2, DeathOK DEF StopOverBudget, Exits
  <1>3. CASE FinishAll
    BY <1>3, LeaveOK, NewCycleType DEF FinishAll, Exits
  <1>4. CASE Stall
    BY <1>4, LeaveOK, NewCycleType DEF Stall, Exits
  <1>5. CASE Idle
    <2>1. PICK d \in 1..IdleSleep :
            mem' = Elapsed(mem, d) /\ disk' = Elapsed(disk, d) /\ ckpt' = Elapsed(ckpt, d)
      BY <1>5 DEF Idle
    <2>2. d \in Nat
      OBVIOUS
    <2>3. cycle' \in 0..MaxCycles /\ UNCHANGED <<ckptFile, pc, then, exit, task, outcome, budget, options>>
      BY <1>5, NewCycleType DEF Idle
    <2>4. QED
      BY <2>1, <2>2, <2>3, TimeOK
  <1>6. CASE \E t \in Tasks : SelectTask(t)
    BY <1>6, SelectTaskOK
  <1>7. QED
    BY <1>1, <1>2, <1>3, <1>4, <1>5, <1>6 DEF LoopHead

LEMMA SkipDryRunOK ==
  ASSUME IInv, SkipDryRun
  PROVE  IInv'
  <1> DEFINE e == [mem[task] EXCEPT !.status = "pending"]
  <1>1. task \in Tasks /\ mem[task].status = "in_progress" /\ mem \in Book /\ Sound(mem)
    BY DEF SkipDryRun, IInv, PlaceOK, TypeOK
  <1>2. mem[task] \in Entry
    BY <1>1 DEF Book
  <1>3. e \in Entry /\ e.status = "pending" /\ e.attempts = mem[task].attempts
    BY <1>2 DEF Entry, Statuses
  <1>4. mem' = Put(mem, task, e)
    BY DEF SkipDryRun, Put
  <1> HIDE DEF e
  <1>5. /\ mem' \in Book /\ mem'[task] = e
        /\ \A u \in Tasks \ {task} : mem'[u] = mem[u]
    BY <1>1, <1>3, <1>4, PutEntry
  <1>6. Sound(mem')
    BY <1>1, <1>3, <1>4, VerdictSound
  <1>7. TypeOK'
    BY <1>5 DEF SkipDryRun, IInv, TypeOK, PersistThen, Places, budget, options
  <1>8. PlaceOK'
    <2>1. \A t \in Tasks : mem'[t].status = "in_progress" <=> t = task'
      BY <1>3, <1>5, RunnerAssumption DEF SkipDryRun, IInv, PlaceOK
    <2>2. QED
      BY <2>1, RunnerAssumption DEF SkipDryRun, PersistThen, PlaceOK, Persisting
  <1>9. QED
    BY <1>6, <1>7, <1>8 DEF SkipDryRun, IInv, Sound

LEMMA RunAgentOK ==
  ASSUME IInv, NEW o \in AgentOutcomes, NEW used \in Usage, RunAgent(o, used)
  PROVE  IInv'
  <1>1. o \in Outcomes
    <2>1. NoSignals \in SignalRecord /\ Signals \subseteq SignalRecord
      BY RunnerAssumption DEF NoSignals, SignalRecord
    <2>2. QED
      BY <2>1 DEF AgentOutcomes, Outcomes, Checks
  <1>2. tokens + used \in Nat
    BY RunnerAssumption DEF IInv, TypeOK
  <1>3. TypeOK'
    BY <1>1, <1>2 DEF RunAgent, IInv, TypeOK, Places, copies, options
  <1>4. PlaceOK'
    BY DEF RunAgent, IInv, PlaceOK, Persisting, copies
  <1>5. QED
    BY <1>3, <1>4 DEF RunAgent, IInv, Sound, copies

LEMMA LoopBodyOK ==
  ASSUME IInv, LoopBody
  PROVE  IInv'
  <1>1. CASE SkipDryRun
    BY <1>1, SkipDryRunOK
  <1>2. CASE \E o \in AgentOutcomes, used \in Usage : RunAgent(o, used)
    BY <1>2, RunAgentOK
  <1>3. ASSUME pc = "decide"
        PROVE  task \in Tasks /\ mem[task] \in Entry
    BY <1>3 DEF IInv, TypeOK, PlaceOK, Book
  <1>4. retries \in Nat /\ retries + 1 \in Nat
    BY DEF IInv, TypeOK
  <1>5. CASE RetryTransient
    <2>1. pc = "decide" /\ Record(BackedOff(mem[task])) /\ retries' \in Nat
      BY <1>4, <1>5 DEF RetryTransient
    <2>2. /\ BackedOff(mem[task]) \in Entry /\ BackedOff(mem[task]).status = "pending"
          /\ BackedOff(mem[task]).attempts = mem[task].attempts
      BY <1>3, <2>1, ChangedEntries
    <2>3. QED
      BY <2>1, <2>2, RecordOK
  <1>6. CASE RetryAttempt
    <2>1. pc = "decide" /\ Record(Rescheduled(mem[task])) /\ retries' \in Nat
      BY <1>4, <1>6 DEF RetryAttempt
    <2>2. /\ Rescheduled(mem[task]) \in Entry /\ Rescheduled(mem[task]).status = "pending"
          /\ Rescheduled(mem[task]).attempts = mem[task].attempts
      BY <1>3, <2>1, ChangedEntries
    <2>3. QED
      BY <2>1, <2>2, RecordOK
  <1>7. CASE GiveUp
    <2>1. /\ pc = "decide" /\ Record(Blocked(mem[task])) /\ retries' \in Nat
          /\ mem[task].attempts >= MaxAttempts
      BY <1>4, <1>7 DEF GiveUp
    <2>2. /\ Blocked(mem[task]) \in Entry /\ Blocked(mem[task]).status = "blocked"
          /\ Blocked(mem[task]).attempts = mem[task].attempts
      BY <1>3, <2>1, ChangedEntries
    <2>3. QED
      BY <2>1, <2>2, RecordOK
  <1>8. CASE Complete
    <2>1. pc = "decide" /\ Record(Completed(mem[task])) /\ retries' \in Nat
      BY <1>4, <1>8 DEF Complete
    <2>2. /\ Completed(mem[task]) \in Entry /\ Completed(mem[task]).status = "done"
          /\ Completed(mem[task]).attempts = mem[task].attempts
      BY <1>3, <2>1, ChangedEntries
    <2>3. QED
      BY <2>1, <2>2, RecordOK
  <1>9. QED
    BY <1>1, <1>2, <1>5, <1>6, <1>7, <1>8 DEF LoopBody

LEMMA NextIInv == IInv /\ [Next]_vars => IInv'
  <1> SUFFICES ASSUME IInv, [Next]_vars
               PROVE  IInv'
    OBVIOUS
  <1>1. CASE \E r \in ResumeModes, d \in DryModes : Start(r, d)
    BY <1>1, StartOK
  <1>2. CASE StartFails
    BY <1>2, StartFailsOK
  <1>3. CASE Kill
    BY <1>3, DeathOK DEF Kill, Exits
  <1>4. CASE RunnerStep
    BY <1>4, PersistOK, LoopHeadOK, LoopBodyOK DEF RunnerStep
  <1>5. CASE Tick
    <2>1. 1 \in Nat /\ cycle' \in 0..MaxCycles
      BY <1>5 DEF Tick, IInv, TypeOK
    <2>2. QED
      BY <1>5, <2>1, TimeOK DEF Tick
  <1>6. CASE RunTooLong
    <2>1. TypeOK'
      BY <1>6 DEF RunTooLong, IInv, TypeOK, copies, options
    <2>2. QED
      BY <1>6, <2>1 DEF RunTooLong, IInv, PlaceOK, Sound, copies
  <1>7. CASE UNCHANGED vars
    <2>1. TypeOK'
      BY <1>7 DEF IInv, TypeOK, vars
    <2>2. QED
      BY <1>7, <2>1 DEF IInv, PlaceOK, Sound, vars
  <1>8. QED
    BY <1>1, <1>2, <1>3, <1>4, <1>5, <1>6, <1>7 DEF Next

\* The invariant holds of every reachable state.
LEMMA Invariant == Spec => []IInv
  BY InitIInv, NextIInv, PTL DEF Spec

----------------------------------------------------------------------------
(* The theorems.                                                            *)

\* Every variable keeps its type; an empty checkpoint stands for one that is
\* not whole.
THEOREM TypeCorrect == Spec => []TypeOK
  <1>1. IInv => TypeOK
    BY DEF IInv
  <1>2. QED
    BY Invariant, <1>1, PTL

\* Nothing is attempted before its dependencies are done, in any copy of the
\* book, whatever is killed, restarted or resumed.
THEOREM DependenciesFirstHolds == Spec => []DependenciesFirst
  <1>1. IInv => DependenciesFirst
    BY DEF IInv, Sound, DependenciesFirst, Copies
  <1>2. QED
    BY Invariant, <1>1, PTL

\* One task at a time is in progress, and the claim is in both files before
\* its agent runs.
THEOREM PersistedBeforeActingHolds == Spec => []PersistedBeforeActing
  <1>1. IInv => PersistedBeforeActing
    BY DEF IInv, PlaceOK, PersistedBeforeActing
  <1>2. QED
    BY Invariant, <1>1, PTL

\* No path, across kills and resumes, blocks a task before max_attempts.
THEOREM BlockedOnlyWhenSpentHolds == Spec => []BlockedOnlyWhenSpent
  <1>1. IInv => BlockedOnlyWhenSpent
    BY DEF IInv, Sound, BlockedOnlyWhenSpent, Copies
  <1>2. QED
    BY Invariant, <1>1, PTL

=============================================================================
