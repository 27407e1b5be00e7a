-------------------------- MODULE MCInterleavings --------------------------
(* Instances of RunnerLock, MeshLedger and PullRequest for TLC, one system  *)
(* at a time: the others stay as they are.  What is asked of all three is   *)
(* what their interleavings may never do.                                   *)
EXTENDS RunnerLock, MeshLedger, PullRequest

CONSTANT Parts   \* the systems looked at

VARIABLE part

MCInit ==
  /\ part \in Parts
  /\ LockInit /\ MeshInit /\ Init
  /\ part # "pr" => health = "high"

MCNext ==
  \/ part = "lock" /\ LockNext /\ UNCHANGED <<part, meshVars, vars>>
  \/ part = "mesh" /\ MeshNext /\ UNCHANGED <<part, lockVars, vars>>
  \/ part = "pr" /\ Next /\ UNCHANGED <<part, lockVars, meshVars>>

MCSpec == MCInit /\ [][MCNext]_<<part, lockVars, meshVars, vars>>

=============================================================================
