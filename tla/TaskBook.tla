------------------------------ MODULE TaskBook ------------------------------
(***************************************************************************)
(* The task book of runner.py: the dictionary task id -> entry which the   *)
(* runner keeps in memory, writes to the state file and copies into its    *)
(* checkpoint, with the functions that read it and change it.  A book is a *)
(* value; TaskRunner holds three copies of it.                             *)
(*                                                                         *)
(* Time is counted in ticks.  not_before is the number of ticks left until *)
(* the entry's timestamp, 0 when the timestamp is empty or in the past, so *)
(* the passing of time is Elapsed.  last_update, last_summary and          *)
(* last_error carry text that no decision reads and are left out.          *)
(***************************************************************************)
EXTENDS Integers

CONSTANTS
  Tasks,            \* task ids of the tasks file
  Ids,              \* ids a tasks file may name
  Deps,             \* [Tasks -> SUBSET Ids], depends_on: any ids, load_tasks does not check them
  Owner,            \* [Tasks -> {"codex", "gemini"}]
  Priority,         \* [Tasks -> Nat], smaller runs first
  IdOrder,          \* [Tasks -> Nat], the lexicographic order of the ids
  BackoffBase,      \* --retry-backoff-base-sec, in ticks
  BackoffMax,       \* --retry-backoff-max-sec, in ticks
  AttemptDelay      \* max(5, min(60, base)) seconds, in ticks

ASSUME BookAssumption ==
  /\ Tasks \subseteq Ids
  /\ Deps \in [Tasks -> SUBSET Ids]
  /\ Owner \in [Tasks -> {"codex", "gemini"}]
  /\ Priority \in [Tasks -> Nat]
  /\ IdOrder \in [Tasks -> Nat]
  /\ BackoffBase \in Nat
  /\ BackoffMax \in Nat
  /\ AttemptDelay \in Nat \ {0}

Statuses == {"pending", "in_progress", "done", "blocked"}

Entry == [status : Statuses, attempts : Nat, retryable_failures : Nat, not_before : Nat]

Book == [Tasks -> Entry]

Fresh == [status |-> "pending", attempts |-> 0, retryable_failures |-> 0, not_before |-> 0]

\* The state file does not exist yet: every task gets the default entry.
EmptyBook == [t \in Tasks |-> Fresh]

----------------------------------------------------------------------------
(* Loading and the passing of time.                                         *)

\* Mutants of Requeued: every task but a blocked one is queued again; an
\* interrupted task keeps its status.
Requeued_TooMuch(e) == IF e.status # "blocked" THEN [e EXCEPT !.status = "pending"] ELSE e
Requeued_Never(e) == e

\* An entry as load_state and apply_checkpoint_state take it from a file: a
\* task some earlier run was executing goes back to the queue.
Requeued(e) == IF e.status = "in_progress" THEN [e EXCEPT !.status = "pending"] ELSE e

Loaded(book) == [t \in Tasks |-> Requeued(book[t])]

Sooner(e, d) == [e EXCEPT !.not_before = IF e.not_before > d THEN e.not_before - d ELSE 0]

Elapsed(book, d) == [t \in Tasks |-> Sooner(book[t], d)]

----------------------------------------------------------------------------
(* Selection.                                                               *)

AllDone(book) == \A t \in Tasks : book[t].status = "done"

\* Mutants of DepsDone: a blocked dependency counts as settled; one which is not
\* a task of the file is passed over.
DepsDone_Settled(book, t) == \A d \in Deps[t] : d \in Tasks /\ book[d].status \in {"done", "blocked"}
DepsDone_Lenient(book, t) == \A d \in Deps[t] \cap Tasks : book[d].status = "done"

\* A dependency which is not a task of the file is never done.
DepsDone(book, t) == \A d \in Deps[t] : d \in Tasks /\ book[d].status = "done"

\* Pending tasks with every dependency done: what remains to be waited for.
Eligible(book) == {t \in Tasks : book[t].status = "pending" /\ DepsDone(book, t)}

Ready(book) == {t \in Eligible(book) : book[t].not_before = 0}

OwnerRank(t) == IF Owner[t] = "codex" THEN 0 ELSE 1

\* The sort key (priority, owner rank, id).
Precedes(t, u) ==
  \/ Priority[t] < Priority[u]
  \/ /\ Priority[t] = Priority[u]
     /\ \/ OwnerRank(t) < OwnerRank(u)
        \/ OwnerRank(t) = OwnerRank(u) /\ IdOrder[t] < IdOrder[u]

\* The task select_next_task returns when some task is ready.
IsNext(book, t) ==
  /\ t \in Ready(book)
  /\ \A u \in Ready(book) \ {t} : Precedes(t, u)

----------------------------------------------------------------------------
(* The changes a cycle makes to the entry of its task.                      *)

Claimed(e) == [e EXCEPT !.status = "in_progress", !.attempts = e.attempts + 1, !.not_before = 0]

\* Delay of the n-th retryable failure in a row.
Backoff(n) ==
  LET doubled == BackoffBase * 2 ^ (n - 1)
  IN IF doubled \in 0..BackoffMax THEN doubled ELSE BackoffMax

\* schedule_retry with retryable=True and with retryable=False.
BackedOff(e) ==
  [e EXCEPT !.status = "pending",
            !.retryable_failures = e.retryable_failures + 1,
            !.not_before = Backoff(e.retryable_failures + 1)]

Rescheduled(e) == [e EXCEPT !.status = "pending", !.not_before = AttemptDelay]

Completed(e) == [e EXCEPT !.status = "done", !.retryable_failures = 0, !.not_before = 0]

Blocked(e) == [e EXCEPT !.status = "blocked"]

=============================================================================
