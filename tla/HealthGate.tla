----------------------------- MODULE HealthGate -----------------------------
(***************************************************************************)
(* run_health_gate of swarm_health_gate.py: four scores of what the other  *)
(* components have left behind (the connectivity report of the providers,  *)
(* the runner's state, budget and heartbeat), their weighted sum, and the  *)
(* gate on it.  Each of the four may be missing: the report and the        *)
(* heartbeat then score half marks, the state and the budget full marks.   *)
(*                                                                         *)
(* Scores are floats rounded to two places; here they are hundredths, and  *)
(* every round() is Round.                                                 *)
(***************************************************************************)
EXTENDS Integers, FiniteSets, FiniteSetsExt

CONSTANTS
  Providers,
  Required,      \* those whose loss closes the gate
  Todo,
  Meters,        \* runtime, tokens, cost, retries: what has a limit
  Scored,        \* those whose use lowers the score: all but retries
  Levels,        \* how much of a limit may be used up, in tenths of it
  Threshold,     \* heartbeat_stale_threshold_sec, in ticks
  MaxAge         \* bound of the model: ages told apart

ASSUME HealthAssumption ==
  /\ IsFiniteSet(Providers) /\ Required \subseteq Providers
  /\ IsFiniteSet(Todo) /\ Todo # {} /\ IsFiniteSet(Meters) /\ Scored \subseteq Meters
  /\ Levels \subseteq Nat /\ Levels # {} /\ Threshold \in Nat \ {0} /\ MaxAge \in Nat

VARIABLES
  report,        \* who made the connectivity report; "none" when it is missing or unreadable
  reached,       \* the providers it says are up
  status,        \* of each task
  supplied,      \* of "state" and "budget", what run_health_gate is given, not empty
  hbAge,         \* heartbeat_age_sec, in ticks; -1 without a heartbeat
  used           \* of each limit

healthVars == <<report, reached, status, supplied, hbAge, used>>

Round(a, b) == (2 * a + b) \div (2 * b)
Positive(n) == IF n > 0 THEN n ELSE 0
HowMany(s) == Cardinality({t \in Todo : status[t] = s})

HealthInit ==
  /\ report = "none" /\ reached = Providers
  /\ status = [t \in Todo |-> "pending"] /\ supplied = {}
  /\ hbAge = -1 /\ used = [m \in Meters |-> Min(Levels)]

----------------------------------------------------------------------------
(* The inputs: what the runner, the provider checks and time do to them.    *)

\* providers-check or router-check makes a new report.
Report(tool) ==
  /\ report' = tool
  /\ \/ UNCHANGED reached
     \/ \E p \in Providers : reached' = reached \ {p} \/ reached' = reached \union {p}
  /\ UNCHANGED <<status, supplied, hbAge, used>>

LoseReport ==
  /\ report' = "none"
  /\ UNCHANGED <<reached, status, supplied, hbAge, used>>

Steps == {<<"pending", "in_progress">>, <<"in_progress", "pending">>, <<"in_progress", "done">>,
          <<"in_progress", "blocked">>, <<"blocked", "pending">>}

Work(t) ==
  /\ \E s \in Steps : status[t] = s[1] /\ status' = [status EXCEPT ![t] = s[2]]
  /\ UNCHANGED <<report, reached, supplied, hbAge, used>>

\* What the caller has to give, and could read.
Supply(inputs) ==
  /\ supplied' = inputs
  /\ UNCHANGED <<report, reached, status, hbAge, used>>

Beat == hbAge' = 0 /\ UNCHANGED <<report, reached, status, supplied, used>>
Silent ==
  /\ hbAge \in 0..(MaxAge - 1) /\ hbAge' = hbAge + 1
  /\ UNCHANGED <<report, reached, status, supplied, used>>

LoseBeat == hbAge' = -1 /\ UNCHANGED <<report, reached, status, supplied, used>>

Spend(m) ==
  /\ \E l \in Levels : l > used[m] /\ used' = [used EXCEPT ![m] = Min({k \in Levels : k > @})]
  /\ UNCHANGED <<report, reached, status, supplied, hbAge>>

\* reset_state, and a run which starts anew.
Fresh ==
  /\ status' = [t \in Todo |-> "pending"] /\ supplied' = {}
  /\ used' = [m \in Meters |-> Min(Levels)]
  /\ UNCHANGED <<report, reached, hbAge>>

HealthNext ==
  \/ \E tool \in {"providers", "router"} : Report(tool)
  \/ LoseReport
  \/ \E t \in Todo : Work(t)
  \/ \E inputs \in SUBSET {"state", "budget"} : Supply(inputs)
  \/ Beat \/ Silent \/ LoseBeat
  \/ \E m \in Meters : Spend(m)
  \/ Fresh

HealthSpec == HealthInit /\ [][HealthNext]_healthVars

----------------------------------------------------------------------------
(* The four scores.                                                         *)

\* The budget report lists every limit which is exceeded.
Violations == {m \in Meters : "budget" \in supplied /\ used[m] > 10}

\* Nothing is known of any provider: no report, or one of none.
Unseen == report = "none" \/ Providers = {}

RequiredDown == Cardinality(Required \ reached)

\* parse_connectivity_report.  providers-check reports required_up too, and the required
\* providers which are down are taken off it once more.
RequiredUp ==
  (IF report = "providers" THEN Cardinality(Required \intersect reached) ELSE Cardinality(Required))
    - RequiredDown

Missing == IF report = "none" THEN 0 ELSE Positive(Cardinality(Required) - RequiredUp)

\* Mutant of ScoreProviders: without a report nothing is wrong.
ScoreProviders_Trusting ==
  IF Unseen THEN 10000
  ELSE LET n == Cardinality(Providers)
           r == IF Missing > 0 THEN Cardinality(Required) ELSE 1
       IN  Round(Positive(Cardinality(reached) * 10000 * r - Missing * 5000 * n), n * r)

ScoreProviders ==
  IF Unseen THEN 5000
  ELSE LET n == Cardinality(Providers)
           r == IF Missing > 0 THEN Cardinality(Required) ELSE 1
       IN  Round(Positive(Cardinality(reached) * 10000 * r - Missing * 5000 * n), n * r)

\* Mutant of ScoreTasks: a blocked task is no part of the work any more.
ScoreTasks_BlockedAside ==
  IF "state" \notin supplied \/ HowMany("blocked") = Cardinality(Todo) THEN 10000
  ELSE Positive(Round(HowMany("done") * 10000, Cardinality(Todo) - HowMany("blocked"))
                - Round(HowMany("blocked") * 3000, Cardinality(Todo)))

ScoreTasks ==
  IF "state" \notin supplied THEN 10000
  ELSE Round(Positive(HowMany("done") * 10000 - HowMany("blocked") * 3000), Cardinality(Todo))

\* Every limit which is nearly used up takes its deduction off.
Above(level) == Cardinality({m \in Scored : "budget" \in supplied /\ used[m] > level})
ScoreBudget ==
  IF Violations # {} THEN 0
  ELSE Positive(10000 - 3000 * Above(9) - 1000 * (Above(7) - Above(9)))

ScoreHeartbeat ==
  IF hbAge < 0 THEN 5000
  ELSE IF hbAge <= Threshold THEN 10000
  ELSE Round(Positive(Threshold - (hbAge - Threshold)) * 10000, Threshold)

\* compute_health_score, with the weights.
Score == Round(30 * ScoreProviders + 30 * ScoreTasks + 20 * ScoreBudget + 20 * ScoreHeartbeat, 100)

MinScore == 8500

\* evaluate_health_gate.
Passed == Missing = 0 /\ Violations = {} /\ Score >= MinScore

----------------------------------------------------------------------------
(* Properties.                                                              *)

\* Every input keeps its type.
HealthTypeOK ==
  /\ report \in {"none", "providers", "router"} /\ reached \subseteq Providers
  /\ status \in [Todo -> {"pending", "in_progress", "done", "blocked"}]
  /\ supplied \subseteq {"state", "budget"} /\ hbAge \in -1..MaxAge /\ used \in [Meters -> Levels]

\* What a passed gate is worth, the weights and the marks for missing inputs notwithstanding.
\* If there is a report, no required provider is known to be down; if the gate is given the
\* runner's state, half of the tasks are done; if it is given the budget, no limit is
\* exceeded; and a heartbeat, if there is one, is not three quarters of the threshold too
\* old.  Where nothing is known of the providers it passes only when nothing is wrong with
\* the rest: all tasks are done, if the state is given, no limit which counts is nearly used
\* up, if the budget is given, and there is a heartbeat, which is not too old.  Of the tasks
\* it says nothing without the state, of the limits nothing without the budget: each then
\* scores full marks.  The shares are less by what the roundings hide, less than three
\* hundredths of a percent: half means 49.985 %, and among seven thousand tasks one may be
\* left undone where all have to be done.
GatePassMeans ==
  /\ HealthTypeOK
  /\ Passed =>
      /\ report # "none" => Required \subseteq reached
      /\ "state" \in supplied => 20000 * HowMany("done") >= 9997 * Cardinality(Todo)
      /\ "budget" \in supplied => \A m \in Meters : used[m] <= 10
      /\ 20000 * hbAge <= 35005 * Threshold
      /\ Unseen =>
           /\ "state" \in supplied => 20000 * HowMany("done") >= 19997 * Cardinality(Todo)
           /\ "budget" \in supplied => \A m \in Scored : used[m] <= 7
           /\ hbAge >= 0 /\ 20000 * hbAge <= 20005 * Threshold

\* No input has got better; each may have been lost.
Rank == [s \in {"done", "pending", "in_progress", "blocked"} |->
          IF s = "done" THEN 2 ELSE IF s = "blocked" THEN 0 ELSE 1]
Worse ==
  /\ healthVars' # healthVars
  /\ report' \in {report, "none"} /\ reached' \subseteq reached
  /\ supplied' \subseteq supplied /\ \A t \in Todo : Rank[status'[t]] <= Rank[status[t]]
  /\ hbAge' = -1 \/ (hbAge >= 0 /\ hbAge' >= hbAge)
  /\ \A m \in Meters : used'[m] >= used[m]

\* An input is lost which scored less than its absence does, or closed the gate.
LossHelps ==
  \/ report' # report /\ (ScoreProviders < 5000 \/ Missing > 0)
  \/ "state" \in supplied \ supplied' /\ ScoreTasks < 10000
  \/ "budget" \in supplied \ supplied' /\ ScoreBudget < 10000
  \/ hbAge >= 0 /\ hbAge' < 0 /\ ScoreHeartbeat < 5000

\* No step for the worse, which may lose any of the four inputs, raises the score or opens
\* the gate, except by the loss of an input which counted for less than a missing one does:
\* a report which scored less than half marks or told of a required provider which is down,
\* a state or a budget which scored less than full marks, an old heartbeat which scored
\* less than half marks.
WorseNeverScoresHigher ==
  [][Worse /\ ~LossHelps => Score' <= Score /\ (Passed' => Passed)]_healthVars

=============================================================================
