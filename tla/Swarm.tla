------------------------------- MODULE Swarm -------------------------------
(***************************************************************************)
(* swarm_orchestrator.py and network_status.py: one orchestrator which     *)
(* routes tasks to model tiers, defers what it cannot route, and retries   *)
(* the deferred ones, from a network status it caches.                     *)
(*                                                                         *)
(* The world (endpoints, models of LM Studio, time) changes between any    *)
(* two calls the orchestrator makes.  RoutingTier is a (str, Enum): str()  *)
(* of a member is its qualified name, which equals no member.              *)
(***************************************************************************)
EXTENDS Integers, Sequences, FiniteSets, SequencesExt, FiniteSetsExt, Functions

CONSTANTS
  Endpoints,     \* how many cloud endpoints are probed
  Retries,       \* probes of one endpoint beyond the first
  TTL,           \* ticks a snapshot is served from the cache
  Tasks,
  Keywords,      \* the complexities each task's description has keywords of
  Inventories,   \* what LM Studio may have loaded: sets of capabilities
  WithinBudget,  \* the recorded costs are below the limit
  None,          \* no snapshot, no inventory (unreachable), no task
  MaxQueue,      \* bound of the model: entries of the deferred queue
  MaxPasses      \* bound of the model: passes over the deferred queue

ASSUME SwarmAssumption ==
  /\ Endpoints \in Nat /\ Retries \in Nat /\ TTL \in Nat /\ WithinBudget \in BOOLEAN
  /\ Keywords \in [Tasks -> SUBSET {"low", "medium", "high", "critical"}]
  /\ MaxQueue \in Nat /\ MaxPasses \in Nat /\ None \notin Tasks \union {"L1"}

VARIABLES
  up,            \* the endpoints which answer
  lm,            \* the capabilities loaded in LM Studio, None when unreachable
  lastUp,        \* history: ticks since an endpoint last answered
  snapshot,      \* NetworkProbe's cached snapshot
  age,           \* ticks since the probe which made it began
  place,         \* where the orchestrator is
  job,           \* what it routes: the task, and the pass's index or 0
  probe,         \* the endpoint to probe, failed probes of it, those which answered
  net, seen,     \* the snapshot and the inventory this decision is made from
  deferred,      \* the deferred queue
  remaining,     \* what the current pass will leave in it
  passes,        \* passes begun
  counts,        \* LaneOccupancy's routed_counts
  given,         \* history: the tasks route was called with
  routed,        \* history: how often each task has been routed
  relapsed       \* history: a pass routed one entry after deferring another of its task

world == <<up, lm, lastUp>>
cache == <<snapshot, age>>
queue == <<deferred, remaining, passes>>
lanes == <<counts, routed, relapsed>>
vars == <<world, cache, place, job, probe, net, seen, queue, lanes, given>>

----------------------------------------------------------------------------
(* The routing table.                                                       *)

Tiers == {"L0", "L1", "L2", "L3"}
LocalTiers == {"L0", "L1"}

\* str(t) of a RoutingTier.
Str(t) == CASE t = "L0" -> "RoutingTier.L0_LOCAL_SMALL"
            [] t = "L1" -> "RoutingTier.L1_LOCAL_STRONG"
            [] t = "L2" -> "RoutingTier.L2_CLOUD_STANDARD"
            [] t = "L3" -> "RoutingTier.L3_CLOUD_PREMIUM"

\* classify_complexity: the highest level with a keyword, low without one.
Complexity(task) ==
  IF "critical" \in Keywords[task] THEN "critical"
  ELSE IF "high" \in Keywords[task] THEN "high"
  ELSE IF "medium" \in Keywords[task] THEN "medium" ELSE "low"

\* Preferred tier and fallbacks of a complexity under a network status.
Table(complexity, status) ==
  CASE complexity = "low"  -> <<"L0", "L1">> \o (IF status = "online" THEN <<"L2">> ELSE <<>>)
    [] complexity = "medium" -> <<"L1", "L0">> \o (IF status = "online" THEN <<"L2">> ELSE <<>>)
    [] complexity = "high" -> IF status = "online" THEN <<"L2", "L1", "L3">>
                              ELSE IF status = "degraded" THEN <<"L1", "L2">> ELSE <<"L1", "L0">>
    [] complexity = "critical" -> IF status = "online" THEN <<"L3", "L2", "L1">>
                              ELSE IF status = "degraded" THEN <<"L2", "L1">> ELSE <<"L1">>

Classify(answers) ==
  IF Cardinality(answers) >= 2 THEN "online"
  ELSE IF Cardinality(answers) = 1 THEN "degraded" ELSE "offline"

----------------------------------------------------------------------------
(* Lanes.  The counts are kept by tier and looked up by whatever name the   *)
(* candidate has; a share above three fifths saturates.                     *)

Count(name) == IF name \in DOMAIN counts THEN counts[name] ELSE 0
Total == FoldFunctionOnSet(+, 0, counts, DOMAIN counts)
Saturated(name) == 5 * Count(name) > 3 * (IF Total > 1 THEN Total ELSE 1)

\* rebalance_candidates, as the order it leaves two candidates in: if the first of the
\* chain is saturated, those which are not go before those which are.
Before(chain, i, j) ==
  IF Saturated(chain[1]) /\ Saturated(chain[i]) # Saturated(chain[j])
  THEN Saturated(chain[j]) ELSE i < j

----------------------------------------------------------------------------
(* The choice of a tier.                                                    *)

\* Some model is loaded which is not for embeddings: best_model_for falls back on
\* any of them when none has the capability which the description asks for.
Usable(inventory) == inventory # None /\ inventory \ {"embedding"} # {}

\* A candidate the loop of route stops at.  The inventory is read again.
Fits(name) ==
  \/ name \in LocalTiers /\ seen # None /\ Usable(lm)
  \/ name \in Tiers \ LocalTiers /\ Classify(net) # "offline" /\ WithinBudget

Candidates(task) ==
  LET chain == Table(Complexity(task), Classify(net))
  IN  [i \in DOMAIN chain |-> Str(chain[i])]

\* The tier which is selected, the first in that order, or None: then the task is deferred.
Selected(task) ==
  LET chain == Candidates(task)
      fit == {i \in DOMAIN chain : Fits(chain[i])}
  IN  IF fit # {} THEN chain[CHOOSE i \in fit : \A j \in fit \ {i} : Before(chain, i, j)]
      ELSE IF Usable(seen) THEN "L1" ELSE None

----------------------------------------------------------------------------
(* The world.                                                               *)

Idle == [task |-> None, index |-> 0]
NoProbe == [next |-> 1, tries |-> 0, answers |-> {}]

Init ==
  /\ up \in SUBSET (1..Endpoints) /\ lm \in Inventories \union {None}
  /\ lastUp = [e \in 1..Endpoints |-> IF e \in up THEN 0 ELSE TTL]
  /\ snapshot = None /\ age = TTL
  /\ place = "idle" /\ job = Idle /\ probe = NoProbe /\ net = {} /\ seen = None
  /\ deferred = <<>> /\ remaining = <<>> /\ passes = 0
  /\ counts = <<>> /\ given = {}
  /\ routed = [t \in Tasks |-> 0] /\ relapsed = FALSE

code == <<place, job, probe, net, seen, queue, lanes, given>>
Later(n) == IF n < TTL THEN n + 1 ELSE TTL

Tick ==
  /\ age' = Later(age)
  /\ lastUp' = [e \in 1..Endpoints |-> IF e \in up THEN 0 ELSE Later(lastUp[e])]
  /\ UNCHANGED <<up, lm, snapshot, code>>

Link(e) ==
  /\ up' = IF e \in up THEN up \ {e} ELSE up \union {e}
  /\ lastUp' = [lastUp EXCEPT ![e] = 0]
  /\ UNCHANGED <<lm, cache, code>>

Load(inventory) ==
  /\ lm # inventory /\ lm' = inventory
  /\ UNCHANGED <<up, lastUp, cache, code>>

----------------------------------------------------------------------------
(* NetworkProbe.check: the cache, or one probe of every endpoint in turn.   *)

\* What follows a check: route's health check, the pass's gate, or nothing.
After(j) == IF j.task # None THEN "health" ELSE IF j.index > 0 THEN "gate" ELSE "idle"

Check(force, j) ==
  /\ job' = j
  /\ IF ~force /\ snapshot # None /\ age < TTL
     THEN net' = snapshot /\ place' = After(j) /\ UNCHANGED <<probe, age>>
     ELSE net' = {} /\ place' = "probe" /\ probe' = NoProbe /\ age' = 0

\* Mutant of EndProbe: the snapshot is dated from the end of the probe.
EndProbe_DatedLate ==
  /\ place = "probe" /\ probe.next > Endpoints
  /\ snapshot' = probe.answers /\ net' = probe.answers /\ age' = 0
  /\ place' = After(job) /\ probe' = NoProbe
  /\ UNCHANGED <<world, job, seen, queue, lanes, given>>

\* One attempt; a failed one is repeated Retries times.
ProbeEndpoint ==
  /\ place = "probe" /\ probe.next <= Endpoints
  /\ probe' = IF probe.next \in up
              THEN [next |-> probe.next + 1, tries |-> 0,
                    answers |-> probe.answers \union {probe.next}]
              ELSE IF probe.tries < Retries THEN [probe EXCEPT !.tries = @ + 1]
              ELSE [probe EXCEPT !.next = @ + 1, !.tries = 0]
  /\ UNCHANGED <<world, cache, place, job, net, seen, queue, lanes, given>>

\* The snapshot is dated from the start of the probe, where age was reset.
EndProbe ==
  /\ place = "probe" /\ probe.next > Endpoints
  /\ snapshot' = probe.answers /\ net' = probe.answers
  /\ place' = After(job) /\ probe' = NoProbe
  /\ UNCHANGED <<world, age, job, seen, queue, lanes, given>>

InvalidateCache ==
  /\ place = "idle" /\ snapshot # None
  /\ snapshot' = None /\ age' = TTL
  /\ UNCHANGED <<world, code>>

\* status_snapshot: what it reads besides is not kept.
StatusSnapshot ==
  /\ place = "idle" /\ Check(FALSE, Idle)
  /\ UNCHANGED <<world, snapshot, seen, queue, lanes, given>>

----------------------------------------------------------------------------
(* route: of a new task, or of the entry a pass is at.                      *)

Submit(task) ==
  /\ place = "idle" /\ task \notin given /\ Len(deferred) < MaxQueue
  /\ given' = given \union {task}
  /\ Check(FALSE, [task |-> task, index |-> 0])
  /\ UNCHANGED <<world, snapshot, seen, queue, lanes>>

\* The bound of the model: with the queue full, LM Studio comes back first.
HealthCheck ==
  /\ place = "health" /\ (Len(deferred) < MaxQueue \/ Usable(lm))
  /\ seen' = lm /\ place' = "decide"
  /\ UNCHANGED <<world, cache, job, probe, net, queue, lanes, given>>

RecordRouted(tier) ==
  /\ counts' = [t \in (DOMAIN counts) \union {tier} |-> Count(t) + (IF t = tier THEN 1 ELSE 0)]
  /\ routed' = [routed EXCEPT ![job.task] = @ + 1]
  /\ relapsed' = (relapsed \/ Contains(remaining, job.task))
  /\ UNCHANGED queue

\* route appends to the queue, and the pass keeps the entry it is at besides.
Defer ==
  /\ deferred' = Append(deferred, job.task)
  /\ remaining' = IF job.index > 0 THEN Append(remaining, job.task) ELSE remaining
  /\ UNCHANGED <<passes, lanes>>

Decide ==
  /\ place = "decide"
  /\ LET tier == Selected(job.task)
     IN  IF tier = None THEN Defer ELSE RecordRouted(tier)
  /\ IF job.index = 0 THEN place' = "idle" /\ job' = Idle
     ELSE place' = "pass" /\ job' = [task |-> None, index |-> job.index + 1]
  /\ UNCHANGED <<world, cache, probe, net, seen, given>>

----------------------------------------------------------------------------
(* process_deferred: a forced check, then every entry, those appended on    *)
(* the way included; what was refused then replaces the queue.              *)

BeginPass ==
  /\ place = "idle" /\ deferred # <<>> /\ passes < MaxPasses
  /\ passes' = passes + 1 /\ remaining' = <<>>
  /\ Check(TRUE, [task |-> None, index |-> 1])
  /\ UNCHANGED <<world, snapshot, seen, deferred, lanes, given>>

\* Mutants of Gate and EndPass: the queue is replaced when the network is offline
\* too; it is not replaced; the pass waits for one entry more than there is.
Gate_Cleared ==
  /\ place = "gate"
  /\ IF Classify(net) = "offline" THEN place' = "idle" /\ job' = Idle /\ deferred' = remaining
     ELSE place' = "pass" /\ UNCHANGED <<job, deferred>>
  /\ UNCHANGED <<world, cache, probe, net, seen, remaining, passes, lanes, given>>

EndPass_Kept ==
  /\ place = "pass" /\ job.index > Len(deferred)
  /\ remaining' = <<>> /\ place' = "idle" /\ job' = Idle
  /\ UNCHANGED <<world, cache, probe, net, seen, deferred, passes, lanes, given>>

EndPass_Late ==
  /\ place = "pass" /\ job.index > Len(deferred) + 1
  /\ deferred' = remaining /\ remaining' = <<>>
  /\ place' = "idle" /\ job' = Idle
  /\ UNCHANGED <<world, cache, probe, net, seen, passes, lanes, given>>

Gate ==
  /\ place = "gate"
  /\ IF Classify(net) = "offline" THEN place' = "idle" /\ job' = Idle
     ELSE place' = "pass" /\ UNCHANGED job
  /\ UNCHANGED <<world, cache, probe, net, seen, queue, lanes, given>>

NextEntry ==
  /\ place = "pass" /\ job.index <= Len(deferred)
  /\ Check(FALSE, [job EXCEPT !.task = deferred[job.index]])
  /\ UNCHANGED <<world, snapshot, seen, queue, lanes, given>>

EndPass ==
  /\ place = "pass" /\ job.index > Len(deferred)
  /\ deferred' = remaining /\ remaining' = <<>>
  /\ place' = "idle" /\ job' = Idle
  /\ UNCHANGED <<world, cache, probe, net, seen, passes, lanes, given>>

----------------------------------------------------------------------------
RouteStep == ProbeEndpoint \/ EndProbe \/ HealthCheck \/ Decide \/ Gate \/ NextEntry \/ EndPass

Next ==
  \/ Tick
  \/ \E e \in 1..Endpoints : Link(e)
  \/ \E inventory \in Inventories \union {None} : Load(inventory)
  \/ InvalidateCache \/ StatusSnapshot \/ BeginPass
  \/ \E task \in Tasks : Submit(task)
  \/ RouteStep

\* Every call of the orchestrator has a timeout.
Spec == Init /\ [][Next]_vars /\ WF_vars(RouteStep)

----------------------------------------------------------------------------
(* Properties.                                                              *)

\* Every variable keeps its type.
TypeOK ==
  /\ up \subseteq 1..Endpoints /\ lm \in Inventories \union {None}
  /\ lastUp \in [1..Endpoints -> 0..TTL] /\ age \in 0..TTL
  /\ snapshot \in (SUBSET (1..Endpoints)) \union {None} /\ net \subseteq 1..Endpoints
  /\ seen \in Inventories \union {None}
  /\ place \in {"idle", "probe", "health", "decide", "gate", "pass"}
  /\ probe \in [next : 1..(Endpoints + 1), tries : 0..Retries, answers : SUBSET (1..Endpoints)]
  /\ job \in [task : Tasks \union {None}, index : 0..(MaxQueue + 1)]
  /\ deferred \in BoundedSeq(Tasks, MaxQueue) /\ remaining \in BoundedSeq(Tasks, MaxQueue)
  /\ passes \in 0..MaxPasses /\ given \subseteq Tasks
  /\ DOMAIN counts \subseteq {"L1"} \union {Str(t) : t \in Tiers}
  /\ routed \in [Tasks -> Nat] /\ relapsed \in BOOLEAN

NothingLost ==
  \A t \in given : routed[t] > 0 \/ job.task = t \/ Contains(deferred, t) \/ Contains(remaining, t)

RoutedAgainOnlyAfterRelapse == (\E t \in Tasks : routed[t] > 1) => relapsed

\* A task which was given to route is never lost: it has been routed, or waits in the
\* queue, or is at hand, although a pass replaces the queue it walks through while route
\* appends to it.  And it is routed a second time only after a pass has refused one entry
\* of it and routed another: then the refused entry is kept although its task is under way.
\* And every variable keeps its type.
QueueSound == TypeOK /\ NothingLost /\ RoutedAgainOnlyAfterRelapse

\* A status served from the cache counts only endpoints which answered less than
\* TTL ago, however long the probe took and whatever has happened since.
CachedStatusRecent ==
  [][place' = "health" /\ place \in {"idle", "pass"} => \A e \in net' : lastUp[e] < TTL]_vars

\* If LM Studio comes back for good, whatever the orchestrator is doing ends.
PassEnds == <>[]Usable(lm) => []<>(place = "idle")

\* What docs/autonomy-halt-mitigation.md (section 6) says of the cloud tiers: with
\* the network online and the budget not spent a task is not deferred.
CloudWhenOnline ==
  [][place = "decide" /\ deferred' # deferred => Classify(net) # "online" \/ ~WithinBudget]_vars

=============================================================================
