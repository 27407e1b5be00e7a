--------------------------- MODULE MCCoordination ---------------------------
(* Instances of FileLease, ExecutionDAG and RpaScheduler for TLC, one of    *)
(* the three at a time: the others stay as they are.                        *)
EXTENDS FileLease, ExecutionDAG, RpaScheduler

VARIABLE part

MCDependsOn == [n \in {"lint", "test", "docs", "ship"} |->
  IF n = "test" THEN {"lint"} ELSE IF n = "ship" THEN {"test"} ELSE {}]
MCRequiresDone == [n \in {"lint", "test", "docs", "ship"} |-> IF n = "ship" THEN {"docs"} ELSE {}]

\* Jobs of one domain, all with ids of their own or two of them with the same.
MCDomain == [j \in Jobs |-> "shop"]
MCNamings == {[j \in Jobs |-> j], [j \in Jobs |-> IF j = "c" THEN "a" ELSE j]}
MCRetries == [j \in Jobs |-> IF j = "b" THEN 1 ELSE 0]

NoCoordinator ==
  /\ dag = Fresh /\ saved = None /\ phase = "down"
  /\ working = {} /\ crashes = 0 /\ orphans = {}

MCInit ==
  /\ part \in {"lease", "dag", "rpa"}
  /\ Init /\ RpaInit
  /\ part # "rpa" => \A j \in Jobs : id[j] = j
  /\ IF part = "dag" THEN DagInit ELSE NoCoordinator

Lease(A) == part = "lease" /\ A /\ UNCHANGED <<part, dagVars, rpaVars>>
Dag(A) == part = "dag" /\ A /\ UNCHANGED <<part, vars, rpaVars>>

MCNext ==
  \/ part = "lease" /\ Next /\ UNCHANGED <<part, dagVars, rpaVars>>
  \/ part = "dag" /\ DagNext /\ UNCHANGED <<part, vars, rpaVars>>
  \/ part = "rpa" /\ RpaNext /\ UNCHANGED <<part, vars, dagVars>>

\* The fairness of FileLease and of ExecutionDAG.
MCSpec ==
  /\ MCInit /\ [][MCNext]_<<part, vars, dagVars, rpaVars>>
  /\ WF_vars(Lease(Expire))
  /\ \A p \in Procs : WF_vars(Lease(LeaseStep(p))) /\ SF_vars(Lease(AcquireLease(p)))
  /\ WF_dagVars(Dag(DagStep))

=============================================================================
