--------------------------- MODULE HealthMonitor ---------------------------
(***************************************************************************)
(* CollaborationHealthMonitor of health_monitor.py: detectors which look   *)
(* at the runner's state, its heartbeat and a budget, each of which makes  *)
(* at most one diagnosis; the score and grade they come to; and the        *)
(* remediation tasks which are delegated for them.                         *)
(***************************************************************************)
EXTENDS Integers, FiniteSets, FiniteSetsExt

CONSTANTS
  Lanes,         \* the tasks of the state
  Spendings      \* shares of the budget which may be used, in tenths

ASSUME MonitorAssumption == IsFiniteSet(Lanes) /\ Spendings \subseteq Nat /\ Spendings # {}

VARIABLES
  state,         \* status of each task
  idle,          \* tasks not updated within idle_threshold_sec
  tired,         \* tasks with high_attempt_threshold attempts or more
  heartbeat,     \* missing, stale or fresh
  spending,      \* of the budget, -1 without one
  last           \* last_status, and collaboration_health.json

monitorVars == <<state, idle, tired, heartbeat, spending, last>>
inputs == <<state, idle, tired, heartbeat, spending>>

Nothing == [grade |-> "unknown", remedies |-> {}]

MonitorInit ==
  /\ state = [t \in Lanes |-> "pending"] /\ idle = {} /\ tired = {}
  /\ heartbeat = "missing" /\ spending \in Spendings \union {-1} /\ last = Nothing

----------------------------------------------------------------------------
(* What the runner and time do to the inputs.                               *)

Moves == {<<"pending", "in_progress">>, <<"in_progress", "pending">>, <<"in_progress", "done">>,
          <<"in_progress", "blocked">>}

Update(t) ==
  /\ \E m \in Moves : state[t] = m[1] /\ state' = [state EXCEPT ![t] = m[2]]
  /\ idle' = idle \ {t}
  /\ UNCHANGED <<tired, heartbeat, spending, last>>

GoIdle(t) ==
  /\ state[t] \in {"pending", "in_progress"} /\ idle' = idle \union {t}
  /\ UNCHANGED <<state, tired, heartbeat, spending, last>>

Tire(t) ==
  /\ state[t] = "in_progress" /\ tired' = tired \union {t}
  /\ UNCHANGED <<state, idle, heartbeat, spending, last>>

Pulse(h) == heartbeat' = h /\ UNCHANGED <<state, idle, tired, spending, last>>
Pay ==
  /\ spending >= 0 /\ \E s \in Spendings : s > spending
  /\ spending' = Min({s \in Spendings : s > spending})
  /\ UNCHANGED <<state, idle, tired, heartbeat, last>>

----------------------------------------------------------------------------
(* The detectors.                                                           *)

Diagnosis(signal, severity) == {[signal |-> signal, severity |-> severity]}
Stopped == {t \in Lanes : state[t] = "blocked"}

LaneStoppages ==
  IF Stopped = {} THEN {}
  ELSE Diagnosis("lane_stoppage", IF Cardinality(Stopped) >= 3 THEN "high" ELSE "medium")
IdleBehavior ==
  IF {t \in idle : state[t] \notin {"done", "blocked"}} = {} THEN {} ELSE Diagnosis("idle_behavior", "medium")
ValidationBottlenecks ==
  IF tired = {} THEN {} ELSE Diagnosis("validation_bottleneck", "high")
HeartbeatStaleness ==
  IF heartbeat = "fresh" THEN {} ELSE Diagnosis("heartbeat_stale", "high")
BudgetIssues ==
  IF spending >= 10 THEN Diagnosis("budget_exceeded", "critical")
  ELSE IF spending >= 9 THEN Diagnosis("budget_exceeded", "high") ELSE {}

Diagnoses == LaneStoppages \union IdleBehavior \union ValidationBottlenecks
               \union HeartbeatStaleness \union BudgetIssues

Penalty(d) == CASE d.severity = "critical" -> 40 [] d.severity = "high" -> 25 [] OTHER -> 10
\* Of what a detector has found, one diagnosis or none.
Cost(found) == IF found = {} THEN 0 ELSE Penalty(CHOOSE d \in found : TRUE)

\* compute_health_score.
MonitorScore ==
  LET score == 100 - Cost(LaneStoppages) - Cost(IdleBehavior) - Cost(ValidationBottlenecks)
                   - Cost(HeartbeatStaleness) - Cost(BudgetIssues)
  IN  IF score > 0 THEN score ELSE 0

\* Mutant of Grade: a score of 75 is healthy too.
Grade_Lenient(score) == IF score >= 75 THEN "healthy" ELSE IF score >= 50 THEN "degraded" ELSE "critical"

Grade(score) == IF score >= 80 THEN "healthy" ELSE IF score >= 50 THEN "degraded" ELSE "critical"

\* create_remediations: a task for each serious diagnosis, to the local lane if critical.
Remediations ==
  {[signal |-> d.signal, lane |-> IF d.severity = "critical" THEN "L0" ELSE "L1"] :
     d \in {e \in Diagnoses : e.severity \in {"high", "critical"}}}

MonitorCheck ==
  /\ last' = [grade |-> Grade(MonitorScore), remedies |-> Remediations]
  /\ UNCHANGED inputs

MonitorNext ==
  \/ \E t \in Lanes : Update(t) \/ GoIdle(t) \/ Tire(t)
  \/ \E h \in {"missing", "stale", "fresh"} : Pulse(h)
  \/ Pay \/ MonitorCheck

MonitorSpec == MonitorInit /\ [][MonitorNext]_monitorVars

----------------------------------------------------------------------------
(* Properties.                                                              *)

\* Every variable keeps its type.
MonitorTypeOK ==
  /\ state \in [Lanes -> {"pending", "in_progress", "done", "blocked"}]
  /\ idle \subseteq Lanes /\ tired \subseteq Lanes
  /\ heartbeat \in {"missing", "stale", "fresh"} /\ spending \in Spendings \union {-1}
  /\ last.grade \in {"unknown", "healthy", "degraded", "critical"}

\* The grade, which comes from penalties and thresholds, and the remediation tasks, which
\* come from severities, tell the same: a status is healthy exactly when nothing is
\* delegated, and a critical one delegates at least two tasks, or one for a spent budget.
GradeMatchesRemedies ==
  /\ MonitorTypeOK
  /\ last # Nothing =>
      /\ last.grade = "healthy" <=> last.remedies = {}
      /\ last.grade = "critical" =>
           Cardinality(last.remedies) >= 2 \/ \E r \in last.remedies : r.lane = "L0"

=============================================================================
