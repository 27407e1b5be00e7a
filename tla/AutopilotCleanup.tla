-------------------------- MODULE AutopilotCleanup --------------------------
(***************************************************************************)
(* autopilot_cleanup.py: at startup, tasks of the autopilot's database     *)
(* which have been running for too long are marked failed.  The rows are   *)
(* read in one connection and updated in another, and meanwhile the        *)
(* autopilot, and another cleanup, go on.                                  *)
(***************************************************************************)
EXTENDS Integers

CONSTANTS
  Prompts,       \* rows of the table prompts
  Cleaners,      \* processes which clean up
  Threshold      \* threshold_sec, in ticks

ASSUME CleanupAssumption == Threshold \in Nat \ {0}

VARIABLES
  status,        \* of each row
  age,           \* ticks since started_at; Threshold stands for more, and for no valid time
  writer,        \* who has written the row's result
  found,         \* the orphans each cleaner has read
  finished       \* history: of those, the ones which have finished since

cleanupVars == <<status, age, writer, found, finished>>

CleanupInit ==
  /\ status = [t \in Prompts |-> "pending"] /\ age = [t \in Prompts |-> 0]
  /\ writer = [t \in Prompts |-> "nobody"]
  /\ found = [c \in Cleaners |-> {}] /\ finished = [c \in Cleaners |-> {}]

----------------------------------------------------------------------------
(* The autopilot: a row begins, with or without a start time, and finishes; *)
(* the task of a row which is running may also be dead.                     *)

BeginPrompt(t, ticks) ==
  /\ status[t] = "pending"
  /\ status' = [status EXCEPT ![t] = "running"] /\ age' = [age EXCEPT ![t] = ticks]
  /\ UNCHANGED <<writer, found, finished>>

FinishPrompt(t) ==
  /\ status[t] = "running"
  /\ status' = [status EXCEPT ![t] = "completed"] /\ writer' = [writer EXCEPT ![t] = "autopilot"]
  /\ finished' = [c \in Cleaners |-> finished[c] \cup ({t} \cap found[c])]
  /\ UNCHANGED <<age, found>>

GrowOld ==
  /\ age' = [t \in Prompts |-> IF status[t] = "running" /\ age[t] < Threshold THEN age[t] + 1 ELSE age[t]]
  /\ UNCHANGED <<status, writer, found, finished>>

----------------------------------------------------------------------------
Orphaned(t) == status[t] = "running" /\ age[t] >= Threshold

\* detect_orphans
Detect(c) ==
  /\ found[c] = {}
  /\ found' = [found EXCEPT ![c] = {t \in Prompts : Orphaned(t)}]
  /\ UNCHANGED <<status, age, writer, finished>>

\* Mutant: the rows are looked for by their status alone.
MarkFailed_AnyRunning(c) ==
  /\ found[c] # {}
  /\ status' = [t \in Prompts |-> IF status[t] = "running" THEN "failed" ELSE status[t]]
  /\ writer' = [t \in Prompts |-> IF status[t] = "running" THEN "cleanup" ELSE writer[t]]
  /\ found' = [found EXCEPT ![c] = {}] /\ finished' = [finished EXCEPT ![c] = {}]
  /\ UNCHANGED age

\* The updates of cleanup_orphans, by id whatever has become of the row: one transaction.
MarkFailed(c) ==
  /\ found[c] # {}
  /\ status' = [t \in Prompts |-> IF t \in found[c] THEN "failed" ELSE status[t]]
  /\ writer' = [t \in Prompts |-> IF t \in found[c] THEN "cleanup" ELSE writer[t]]
  /\ found' = [found EXCEPT ![c] = {}] /\ finished' = [finished EXCEPT ![c] = {}]
  /\ UNCHANGED age

CleanupNext ==
  \/ \E t \in Prompts : BeginPrompt(t, 0) \/ BeginPrompt(t, Threshold) \/ FinishPrompt(t)
  \/ GrowOld
  \/ \E c \in Cleaners : Detect(c) \/ MarkFailed(c)

CleanupSpec == CleanupInit /\ [][CleanupNext]_cleanupVars

----------------------------------------------------------------------------
(* Properties.                                                              *)

Fails(c, t) == t \in found[c] /\ t \notin found'[c]

\* Only what has been running for too long is marked failed, by a cleaner which has read it
\* as such, and a result of the autopilot is overwritten only by one which has read the row
\* before it finished.
OnlyOrphansFailed ==
  [][\A t \in Prompts : writer'[t] = "cleanup" /\ writer[t] # "cleanup" =>
       \E c \in Cleaners :
         Fails(c, t) /\ age[t] >= Threshold /\ (writer[t] = "autopilot" => t \in finished[c])]_cleanupVars

=============================================================================
