------------------------------ MODULE MCSwarm ------------------------------
(* Instances of Swarm, HealthGate and HealthMonitor for TLC, one system at  *)
(* a time: the others stay as they are.                                     *)
EXTENDS Swarm, HealthGate, HealthMonitor

CONSTANT Parts   \* the systems looked at

VARIABLE part

MCKeywords == [t \in Tasks |-> IF t = "build" THEN {"medium"} ELSE {"low", "high", "critical"}]
MCInventories == {{"coding", "embedding"}}

MCInit ==
  /\ part \in Parts
  /\ Init /\ HealthInit /\ MonitorInit
  /\ part # "swarm" => up = {} /\ lm = None
  /\ part # "monitor" => spending = -1

Swarming(A) == part = "swarm" /\ A /\ UNCHANGED <<part, healthVars, monitorVars>>

MCNext ==
  \/ part = "swarm" /\ Next /\ UNCHANGED <<part, healthVars, monitorVars>>
  \/ part = "gate" /\ HealthNext /\ UNCHANGED <<part, vars, monitorVars>>
  \/ part = "monitor" /\ MonitorNext /\ UNCHANGED <<part, vars, healthVars>>

\* Fairness is that of Swarm, the only part with a liveness property.
MCSpec == MCInit /\ [][MCNext]_<<part, vars, healthVars, monitorVars>> /\ WF_vars(Swarming(RouteStep))

=============================================================================
