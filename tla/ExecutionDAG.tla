---------------------------- MODULE ExecutionDAG ----------------------------
(***************************************************************************)
(* ExecutionDAG of distributed_coordinator.py, driven by a coordinator     *)
(* which starts what is ready and passes its causal gate, records how it   *)
(* ended, saves the state now and then, and may crash between any two      *)
(* steps.  save_state rewrites its file in place; load_state takes the     *)
(* statuses it finds as they are, and raises on a truncated file.          *)
(***************************************************************************)
EXTENDS Integers, FiniteSets

CONSTANTS
  DagNodes,
  DependsOn,     \* dependencies of each node, some of which may not exist
  RequiresDone,  \* requires_nodes_done of its causal metadata
  Torn, None,    \* a truncated file, no file
  MaxCrashes     \* bound of the model: crashes

ASSUME DagAssumption ==
  /\ DagNodes \subseteq DOMAIN DependsOn /\ DagNodes \subseteq DOMAIN RequiresDone
  /\ MaxCrashes \in Nat /\ Torn # None

VARIABLES
  dag,           \* the statuses in memory
  saved,         \* the statuses in the file
  phase,         \* the coordinator: up, in the middle of save_state, or down
  working,       \* the nodes it executes
  crashes,
  orphans        \* history: running nodes which nobody executes since a load

dagVars == <<dag, saved, phase, working, crashes, orphans>>

Fresh == [n \in DagNodes |-> "pending"]
Finished == {"done", "failed", "skipped"}
Status(n) == IF n \in DagNodes THEN dag[n] ELSE "pending"

ReadyNodes == {n \in DagNodes : dag[n] = "pending" /\ \A d \in DependsOn[n] : Status(d) = "done"}

\* Mutant of CausalGate: open as soon as nothing it requires has failed.
CausalGate_Open(n) == \A d \in RequiresDone[n] : Status(d) # "failed"

CausalGate(n) == \A d \in RequiresDone[n] : Status(d) = "done"

Startable == {n \in ReadyNodes : CausalGate(n)}
IsComplete == \A n \in DagNodes : dag[n] \in Finished

\* add_node of every node; no file yet.
DagInit ==
  /\ dag = Fresh /\ saved = None /\ phase = "up"
  /\ working = {} /\ crashes = 0 /\ orphans = {}

----------------------------------------------------------------------------
MarkRunning(n) ==
  /\ phase = "up" /\ n \in Startable
  /\ dag' = [dag EXCEPT ![n] = "running"]
  /\ working' = working \union {n}
  /\ UNCHANGED <<saved, phase, crashes, orphans>>

\* Mutants of MarkEnded: the status is not recorded; a failed node is queued again.
MarkEnded_Unrecorded(n, status) ==
  /\ phase = "up" /\ n \in working
  /\ working' = working \ {n}
  /\ UNCHANGED <<dag, saved, phase, crashes, orphans>>

MarkEnded_Requeued(n, status) ==
  /\ phase = "up" /\ n \in working
  /\ dag' = [dag EXCEPT ![n] = IF status = "failed" THEN "pending" ELSE status]
  /\ working' = working \ {n}
  /\ UNCHANGED <<saved, phase, crashes, orphans>>

\* mark_done, mark_failed.
MarkEnded(n, status) ==
  /\ phase = "up" /\ n \in working
  /\ dag' = [dag EXCEPT ![n] = status] /\ working' = working \ {n}
  /\ UNCHANGED <<saved, phase, crashes, orphans>>

DagTruncate ==
  /\ phase = "up" /\ saved # dag
  /\ saved' = Torn /\ phase' = "saving"
  /\ UNCHANGED <<dag, working, crashes, orphans>>

DagSave ==
  /\ phase = "saving"
  /\ saved' = dag /\ phase' = "up"
  /\ UNCHANGED <<dag, working, crashes, orphans>>

DagCrash ==
  /\ phase # "down" /\ crashes < MaxCrashes
  /\ phase' = "down" /\ crashes' = crashes + 1
  /\ dag' = Fresh /\ working' = {} /\ orphans' = {}
  /\ UNCHANGED saved

\* Mutant of Loaded: running nodes go back to the queue.
Loaded_Requeued == IF saved = None THEN Fresh
  ELSE [n \in DagNodes |-> IF saved[n] = "running" THEN "pending" ELSE saved[n]]

\* load_state into a graph just built; started_at and ended_at go along.
Loaded == IF saved = None THEN Fresh ELSE saved

\* A truncated file makes load_state raise: no restart until it is removed.
DagRestart ==
  /\ phase = "down" /\ saved # Torn
  /\ dag' = Loaded /\ phase' = "up"
  /\ orphans' = {n \in DagNodes : Loaded[n] = "running"}
  /\ UNCHANGED <<saved, working, crashes>>

RemoveFile ==
  /\ phase = "down" /\ saved = Torn
  /\ saved' = None
  /\ UNCHANGED <<dag, phase, working, crashes, orphans>>

DagStep ==
  \/ \E n \in DagNodes : MarkRunning(n) \/ \E s \in {"done", "failed"} : MarkEnded(n, s)
  \/ DagSave \/ DagRestart

DagNext == DagStep \/ DagTruncate \/ DagCrash \/ RemoveFile

\* A coordinator which is up goes on, and one which can be restarted is.
DagSpec == DagInit /\ [][DagNext]_dagVars /\ WF_dagVars(DagStep)

----------------------------------------------------------------------------
(* Properties.                                                              *)

Prerequisites(book) ==
  \A n \in DagNodes : book[n] # "pending" =>
    \A d \in DependsOn[n] \union RequiresDone[n] : d \in DagNodes /\ book[d] = "done"
PrerequisitesDone ==
  Prerequisites(dag) /\ (saved \notin {Torn, None} => Prerequisites(saved))

StuckOnlyBehind ==
  phase = "up" /\ Startable = {} /\ working = {} =>
    \/ IsComplete
    \/ \E n \in DagNodes : dag[n] = "failed" \/ n \in orphans
    \/ \E n \in DagNodes : ~((DependsOn[n] \union RequiresDone[n]) \subseteq DagNodes)

\* In memory and in the file, whatever was saved and loaded, a node has been started only
\* with its dependencies and what its gate requires done.  And with nothing left to start
\* and nothing at work the graph is complete, or a pending node waits for one which
\* failed, which a crash left running, or which does not exist.
DagSound == PrerequisitesDone /\ StuckOnlyBehind

\* Replay-safe: a node the file has as started is not started again, by whatever
\* coordinator goes on from that file.
ReplaySafe ==
  [][\A n \in working' \ working : saved \notin {Torn, None} => saved[n] = "pending"]_dagVars

\* A coordinator which stays up comes to an end with the graph.
DagSettles == <>[](phase # "down") => <>[](Startable = {} /\ working = {})

=============================================================================
