----------------------------- MODULE SwarmProofs -----------------------------
(***************************************************************************)
(* Safety of the swarm: of the orchestrator's queue and its cached network *)
(* status, for any tasks, endpoints, retries and lifetimes of the cache; of *)
(* the health gate, for any providers, tasks, limits and thresholds; and of *)
(* the health monitor.                                                     *)
(***************************************************************************)
EXTENDS Swarm, HealthGate, HealthMonitor, FiniteSetTheorems, FunctionTheorems, SequenceTheorems, TLAPS

----------------------------------------------------------------------------
(* Types.  A pass's index is 0 when there is no pass.                       *)

Jobs == [task : Tasks \union {None}, index : 0..(MaxQueue + 1)]
Probes == [next : 1..(Endpoints + 1), tries : 0..Retries, answers : SUBSET (1..Endpoints)]
Names == {"L1"} \union {Str(t) : t \in Tiers}

\* TypeOK, with its sets named.
Typed ==
  /\ up \subseteq 1..Endpoints /\ lm \in Inventories \union {None}
  /\ lastUp \in [1..Endpoints -> 0..TTL] /\ age \in 0..TTL
  /\ snapshot \in (SUBSET (1..Endpoints)) \union {None} /\ net \subseteq 1..Endpoints
  /\ seen \in Inventories \union {None}
  /\ place \in {"idle", "probe", "health", "decide", "gate", "pass"}
  /\ probe \in Probes /\ job \in Jobs
  /\ deferred \in Seq(Tasks) /\ Len(deferred) <= MaxQueue
  /\ remaining \in Seq(Tasks) /\ Len(remaining) <= Len(deferred)
  /\ passes \in 0..MaxPasses /\ given \subseteq Tasks
  /\ DOMAIN counts \subseteq Names
  /\ routed \in [Tasks -> Nat] /\ relapsed \in BOOLEAN

\* What is at hand where.
Placed ==
  /\ place = "idle" => job = Idle
  /\ place \in {"health", "decide"} => job.task \in Tasks
  /\ place \in {"gate", "pass"} => job.task = None /\ job.index >= 1
  /\ place = "gate" => job.index = 1
  /\ place = "probe" /\ job.task = None => job.index <= 1
  /\ job.index > 0 /\ job.task # None =>
       job.index <= Len(deferred) /\ job.task = deferred[job.index]
  /\ job.index > 0 /\ job.task = None => job.index <= Len(deferred) + 1
  /\ place = "decide" => Len(deferred) < MaxQueue \/ Usable(seen)
  /\ job.index = 0 \/ place = "gate" \/ (place = "probe" /\ job.task = None) => remaining = <<>>

\* The entries a pass has been at are routed, or kept.
Handled ==
  \A i \in 1..Len(deferred) :
    i < job.index => routed[deferred[i]] > 0 \/ Contains(remaining, deferred[i])

\* A task which has not been given is nowhere.
Unknown ==
  \A t \in Tasks \ given :
    routed[t] = 0 /\ job.task # t /\ ~Contains(deferred, t) /\ ~Contains(remaining, t)

\* As long as no pass has relapsed, nothing which is still to come has been routed, only
\* what the pass has kept comes twice, and what it has kept is still to come: a pass which
\* keeps anything ends by a relapse.
ToCome == {i \in 1..Len(deferred) : i >= job.index}
Fresh1 ==
  ~relapsed =>
    /\ \A t \in Tasks : routed[t] <= 1
    /\ \A i \in ToCome : routed[deferred[i]] = 0
    /\ \A i, k \in ToCome : i < k /\ deferred[i] = deferred[k] => Contains(remaining, deferred[i])
    /\ \A t \in Tasks : Contains(remaining, t) => \E i \in ToCome : deferred[i] = t
    /\ job.index = 0 /\ job.task # None => routed[job.task] = 0 /\ ~Contains(deferred, job.task)

Told == NothingLost /\ Handled /\ Unknown /\ Fresh1
QueueInv == Typed /\ Placed /\ Told

\* An entry more.
LEMMA ContainsAppend ==
  ASSUME NEW S, NEW s \in Seq(S), NEW e \in S
  PROVE  /\ Append(s, e) \in Seq(S) /\ Len(Append(s, e)) = Len(s) + 1 /\ Len(s) \in Nat
         /\ \A i \in 1..Len(s) : Append(s, e)[i] = s[i]
         /\ Append(s, e)[Len(s) + 1] = e
         /\ \A t : Contains(Append(s, e), t) <=> Contains(s, t) \/ t = e
<1>1. /\ Append(s, e) \in Seq(S) /\ Len(Append(s, e)) = Len(s) + 1 /\ Len(s) \in Nat
      /\ \A i \in 1..Len(s) : Append(s, e)[i] = s[i]
      /\ Append(s, e)[Len(s) + 1] = e
  OBVIOUS
<1> DEFINE more == Append(s, e)
<1> HIDE DEF more
<1>2. ASSUME NEW t PROVE Contains(more, t) <=> Contains(s, t) \/ t = e
  <2>1. ASSUME Contains(s, t) PROVE Contains(more, t)
    BY <1>1, <2>1 DEF Contains, more
  <2>2. Contains(more, e)
    <3>1. Len(s) + 1 \in 1..Len(more)
      BY <1>1 DEF more
    <3> QED BY <3>1, <1>1 DEF Contains, more
  <2>3. ASSUME Contains(more, t) PROVE Contains(s, t) \/ t = e
    <3>1. PICK i \in 1..Len(more) : more[i] = t
      BY <2>3 DEF Contains
    <3>2. CASE i = Len(s) + 1
      BY <3>1, <3>2, <1>1 DEF more
    <3>3. CASE i # Len(s) + 1
      <4>1. i \in 1..Len(s)
        BY <3>1, <3>3, <1>1 DEF more
      <4> QED BY <3>1, <4>1, <1>1 DEF Contains, more
    <3> QED BY <3>2, <3>3
  <2> QED BY <2>1, <2>2, <2>3
<1> QED BY <1>1, <1>2 DEF more

LEMMA ContainsNone ==
  ASSUME NEW t
  PROVE  ~Contains(<<>>, t)
BY DEF Contains

\* No candidate is recognized as a tier, so only the last resort selects one.
LEMMA SelectedIs ==
  ASSUME NEW task
  PROVE  Selected(task) = IF Usable(seen) THEN "L1" ELSE None
<1> DEFINE netStatus == Classify(net)
           chain == Table(Complexity(task), netStatus)
<1>1. Complexity(task) \in {"low", "medium", "high", "critical"}
  BY DEF Complexity
<1>2. netStatus \in {"online", "degraded", "offline"}
  BY DEF Classify
<1> HIDE DEF netStatus
<1>3. \A i \in DOMAIN chain : chain[i] \in Tiers
  <2>1. CASE Complexity(task) = "low"
    BY <2>1, <1>2 DEF Table, Tiers
  <2>2. CASE Complexity(task) = "medium"
    BY <2>2, <1>2 DEF Table, Tiers
  <2>3. CASE Complexity(task) = "high"
    BY <2>3, <1>2 DEF Table, Tiers
  <2>4. CASE Complexity(task) = "critical"
    BY <2>4, <1>2 DEF Table, Tiers
  <2> QED BY <1>1, <2>1, <2>2, <2>3, <2>4
<1> HIDE DEF chain
<1>4. \A t \in Tiers : Str(t) \notin Tiers /\ Str(t) \notin LocalTiers
  BY DEF Tiers, LocalTiers, Str
<1>5. \A i \in DOMAIN chain : ~Fits(Str(chain[i]))
  BY <1>3, <1>4 DEF Fits
<1>6. Candidates(task) = [i \in DOMAIN chain |-> Str(chain[i])]
  BY DEF Candidates, chain, netStatus
<1>7. {i \in DOMAIN Candidates(task) : Fits(Candidates(task)[i])} = {}
  BY <1>5, <1>6
<1> QED BY <1>7 DEF Selected

\* What Decide does.
LEMMA DecideIs ==
  ASSUME Typed, Placed, Decide
  PROVE  /\ place = "decide" /\ job.task \in Tasks /\ Len(deferred) \in Nat
         /\ \/ RecordRouted("L1")
            \/ Defer /\ Len(deferred) < MaxQueue
         /\ \/ job.index = 0 /\ place' = "idle" /\ job' = Idle
            \/ /\ job.index \in 1..Len(deferred) /\ job.task = deferred[job.index]
               /\ place' = "pass" /\ job' = [task |-> None, index |-> job.index + 1]
         /\ UNCHANGED <<world, cache, probe, net, seen, given>>
<1> USE SwarmAssumption
<1>1. /\ place = "decide" /\ UNCHANGED <<world, cache, probe, net, seen, given>>
      /\ IF Selected(job.task) = None THEN Defer ELSE RecordRouted(Selected(job.task))
      /\ IF job.index = 0 THEN place' = "idle" /\ job' = Idle
         ELSE place' = "pass" /\ job' = [task |-> None, index |-> job.index + 1]
  BY DEF Decide
<1>2. job.task \in Tasks /\ (Len(deferred) < MaxQueue \/ Usable(seen)) /\ job.task # None
  BY <1>1 DEF Placed
<1>3. Usable(seen) => RecordRouted("L1")
  BY <1>1, SelectedIs
<1>4. ~Usable(seen) => Defer
  BY <1>1, SelectedIs
<1>5. job.index \in 0..(MaxQueue + 1) /\ Len(deferred) \in Nat
  BY DEF Typed, Jobs
<1>6. job.index # 0 => job.index \in 1..Len(deferred) /\ job.task = deferred[job.index]
  BY <1>2, <1>5 DEF Placed
<1> QED BY <1>1, <1>2, <1>3, <1>4, <1>5, <1>6

\* Nothing is known of the tasks yet.
LEMMA QueueInit == Init => QueueInv
<1> SUFFICES ASSUME Init PROVE QueueInv
  OBVIOUS
<1> USE SwarmAssumption
<1>1. /\ up \in SUBSET (1..Endpoints) /\ lm \in Inventories \union {None}
      /\ lastUp = [e \in 1..Endpoints |-> IF e \in up THEN 0 ELSE TTL]
      /\ snapshot = None /\ age = TTL
      /\ place = "idle" /\ job = [task |-> None, index |-> 0]
      /\ probe = [next |-> 1, tries |-> 0, answers |-> {}] /\ net = {} /\ seen = None
      /\ deferred = <<>> /\ remaining = <<>> /\ passes = 0
      /\ counts = <<>> /\ given = {}
      /\ routed = [t \in Tasks |-> 0] /\ relapsed = FALSE
  BY DEF Init, Idle, NoProbe
<1>2. Typed
  <2>1. lastUp \in [1..Endpoints -> 0..TTL]
    BY <1>1
  <2>2. job \in Jobs /\ probe \in Probes
    BY <1>1 DEF Jobs, Probes
  <2>3. deferred \in Seq(Tasks) /\ remaining \in Seq(Tasks) /\ Len(deferred) = 0 /\ Len(remaining) = 0
    BY <1>1
  <2>4. DOMAIN counts \subseteq Names
    BY <1>1
  <2>5. age \in 0..TTL /\ passes \in 0..MaxPasses /\ routed \in [Tasks -> Nat]
    BY <1>1
  <2>6. snapshot \in (SUBSET (1..Endpoints)) \union {None}
    BY <1>1, Zenon
  <2>9. up \subseteq 1..Endpoints /\ net \subseteq 1..Endpoints
    <3>1. up \subseteq 1..Endpoints
      BY <1>1
    <3>2. net \subseteq 1..Endpoints
      BY <1>1
    <3> QED BY <3>1, <3>2
  <2>7. Len(deferred) <= MaxQueue /\ Len(remaining) <= Len(deferred)
    BY <2>3
  <2>8. seen \in Inventories \union {None} /\ given \subseteq Tasks /\ relapsed \in BOOLEAN
    BY <1>1
  <2> QED BY <1>1, <2>1, <2>2, <2>3, <2>4, <2>5, <2>6, <2>7, <2>8, <2>9 DEF Typed
<1>3. Placed
  BY <1>1 DEF Placed, Idle
<1>4. Told
  <2>1. \A t : ~Contains(deferred, t) /\ ~Contains(remaining, t)
    BY <1>1, ContainsNone
  <2>2. Len(deferred) = 0 /\ relapsed = FALSE /\ given = {} /\ \A t \in Tasks : routed[t] = 0 /\ job.task # t
    BY <1>1
  <2>3. NothingLost /\ Handled
    BY <2>2 DEF NothingLost, Handled
  <2>4. Unknown
    BY <2>1, <2>2 DEF Unknown
  <2>5. ToCome = {} /\ job.task = None
    BY <1>1, <2>2 DEF ToCome
  <2>6. Fresh1
    BY <2>1, <2>2, <2>5 DEF Fresh1
  <2> QED BY <2>3, <2>4, <2>6 DEF Told
<1> QED BY <1>2, <1>3, <1>4 DEF QueueInv

\* Where the queue, the job and the history stay, what they tell does.
LEMMA QueueStays ==
  ASSUME Told, UNCHANGED <<job, deferred, remaining, given, routed, relapsed>>
  PROVE  Told'
BY DEF Told, NothingLost, Handled, Unknown, Fresh1, ToCome

\* The world and the cache.
LEMMA WorldKeeps ==
  ASSUME QueueInv, Tick \/ (\E e \in 1..Endpoints : Link(e))
                     \/ (\E inventory \in Inventories \union {None} : Load(inventory))
                     \/ InvalidateCache
  PROVE  QueueInv'
<1> USE SwarmAssumption
<1>1. UNCHANGED <<place, job, probe, net, seen, deferred, remaining, passes, counts, routed, relapsed, given>>
  BY DEF Tick, Link, Load, InvalidateCache, code, queue, lanes
<1>2. Typed /\ Placed /\ Told
  BY DEF QueueInv
<1>3. up' \subseteq 1..Endpoints /\ lm' \in Inventories \union {None}
  BY <1>2 DEF Tick, Link, Load, InvalidateCache, world, Typed
<1>4. lastUp' \in [1..Endpoints -> 0..TTL]
  <2>1. \A n \in 0..TTL : Later(n) \in 0..TTL
    BY DEF Later
  <2>2. CASE Tick
    BY <1>2, <2>1, <2>2 DEF Tick, Typed
  <2>3. ASSUME NEW e \in 1..Endpoints, Link(e) PROVE lastUp' \in [1..Endpoints -> 0..TTL]
    <3>1. lastUp' = [lastUp EXCEPT ![e] = 0] /\ lastUp \in [1..Endpoints -> 0..TTL] /\ 0 \in 0..TTL
      BY <1>2, <2>3 DEF Link, Typed
    <3> QED BY <3>1
  <2>4. CASE \E inventory \in Inventories \union {None} : Load(inventory)
    BY <1>2, <2>4 DEF Load, Typed
  <2>5. CASE InvalidateCache
    BY <1>2, <2>5 DEF InvalidateCache, world, Typed
  <2> QED BY <2>2, <2>3, <2>4, <2>5
<1>5. age' \in 0..TTL /\ snapshot' \in (SUBSET (1..Endpoints)) \union {None}
  <2>1. \A n \in 0..TTL : Later(n) \in 0..TTL
    BY DEF Later
  <2>2. age \in 0..TTL /\ snapshot \in (SUBSET (1..Endpoints)) \union {None} /\ TTL \in 0..TTL
    BY <1>2 DEF Typed
  <2>3. CASE Tick
    BY <2>1, <2>2, <2>3 DEF Tick
  <2>4. CASE InvalidateCache
    <3>1. snapshot' = None /\ age' = TTL
      BY <2>4 DEF InvalidateCache
    <3>2. snapshot' \in (SUBSET (1..Endpoints)) \union {None}
      BY <3>1, Zenon
    <3> QED BY <2>2, <3>1, <3>2
  <2>5. CASE (\E e \in 1..Endpoints : Link(e)) \/ (\E inventory \in Inventories \union {None} : Load(inventory))
    BY <2>2, <2>5 DEF Link, Load, cache
  <2> QED BY <2>3, <2>4, <2>5
<1>6. Typed'
  BY <1>1, <1>2, <1>3, <1>4, <1>5 DEF Typed
<1>7. Placed'
  BY <1>1, <1>2 DEF Placed
<1> QED BY <1>1, <1>2, <1>6, <1>7, QueueStays DEF QueueInv

\* What a check does before it probes anything.
LEMMA CheckTyped ==
  ASSUME Typed, NEW force, NEW j \in Jobs, Check(force, j)
  PROVE  /\ job' = j /\ net' \subseteq 1..Endpoints /\ probe' \in Probes /\ age' \in 0..TTL
         /\ place' = "probe" \/ place' = After(j)
         /\ place' \in {"idle", "probe", "health", "gate"}
<1>1. NoProbe \in Probes /\ 0 \in 0..TTL
  BY SwarmAssumption DEF NoProbe, Probes
<1>2. After(j) \in {"idle", "health", "gate"}
  BY DEF After
<1>3. CASE ~force /\ snapshot # None /\ age < TTL
  <2>1. job' = j /\ net' = snapshot /\ place' = After(j) /\ probe' = probe /\ age' = age
    BY <1>3 DEF Check
  <2>2. snapshot \in (SUBSET (1..Endpoints)) \union {None} /\ probe \in Probes /\ age \in 0..TTL
    BY DEF Typed
  <2>3. net' \subseteq 1..Endpoints
    BY <1>3, <2>1, <2>2, Zenon
  <2> QED BY <1>2, <2>1, <2>2, <2>3
<1>4. CASE ~(~force /\ snapshot # None /\ age < TTL)
  BY <1>1, <1>4 DEF Check
<1> QED BY <1>3, <1>4

\* Probes, and what follows them.
LEMMA ProbesKeep ==
  ASSUME QueueInv, ProbeEndpoint \/ EndProbe \/ HealthCheck \/ StatusSnapshot
  PROVE  QueueInv'
<1> USE SwarmAssumption
<1>1. Typed /\ Placed /\ Told
  BY DEF QueueInv
<1>2. CASE ProbeEndpoint
  <2>1. /\ place = "probe" /\ probe.next <= Endpoints
        /\ probe' = IF probe.next \in up
                    THEN [next |-> probe.next + 1, tries |-> 0, answers |-> probe.answers \union {probe.next}]
                    ELSE IF probe.tries < Retries THEN [probe EXCEPT !.tries = @ + 1]
                    ELSE [probe EXCEPT !.next = @ + 1, !.tries = 0]
        /\ UNCHANGED <<up, lm, lastUp, snapshot, age, place, job, net, seen, deferred, remaining, passes,
                       counts, routed, relapsed, given>>
    BY <1>2 DEF ProbeEndpoint, world, cache, queue, lanes
  <2>2. probe.next \in 1..(Endpoints + 1) /\ probe.tries \in 0..Retries /\ probe.answers \subseteq 1..Endpoints
    BY <1>1 DEF Typed, Probes
  <2>3. probe' \in Probes
    <3>1. CASE probe.next \in up
      BY <2>1, <2>2, <3>1 DEF Probes
    <3>2. CASE probe.next \notin up /\ probe.tries < Retries
      <4>1. probe' = [next |-> probe.next, tries |-> probe.tries + 1, answers |-> probe.answers]
        BY <1>1, <2>1, <3>2 DEF Typed, Probes
      <4> QED BY <2>2, <3>2, <4>1 DEF Probes
    <3>3. CASE probe.next \notin up /\ ~(probe.tries < Retries)
      <4>1. probe' = [next |-> probe.next + 1, tries |-> 0, answers |-> probe.answers]
        BY <1>1, <2>1, <3>3 DEF Typed, Probes
      <4>2. probe.next + 1 \in 1..(Endpoints + 1) /\ 0 \in 0..Retries
        BY <2>1, <2>2
      <4> QED BY <2>2, <4>1, <4>2 DEF Probes
    <3> QED BY <3>1, <3>2, <3>3
  <2>4. Typed' /\ Placed'
    BY <1>1, <2>1, <2>3 DEF Typed, Placed
  <2> QED BY <1>1, <2>1, <2>4, QueueStays DEF QueueInv
<1>3. CASE EndProbe
  <2>1. /\ place = "probe" /\ snapshot' = probe.answers /\ net' = probe.answers
        /\ place' = After(job) /\ probe' = NoProbe
        /\ UNCHANGED <<up, lm, lastUp, age, job, seen, deferred, remaining, passes, counts, routed, relapsed, given>>
    BY <1>3 DEF EndProbe, world, queue, lanes
  <2>2. probe' \in Probes /\ probe.answers \subseteq 1..Endpoints
    BY <1>1, <2>1 DEF Typed, Probes, NoProbe
  <2>3. Typed'
    BY <1>1, <2>1, <2>2 DEF Typed, After
  <2>4. job.task \in Tasks \union {None} /\ job.index \in 0..(MaxQueue + 1) /\ job = [task |-> job.task, index |-> job.index]
    BY <1>1 DEF Typed, Jobs
  <2>5. Placed'
    BY <1>1, <2>1, <2>4 DEF Placed, After, Idle
  <2> QED BY <1>1, <2>1, <2>3, <2>5, QueueStays DEF QueueInv
<1>4. CASE HealthCheck
  <2>1. /\ place = "health" /\ (Len(deferred) < MaxQueue \/ Usable(lm)) /\ seen' = lm /\ place' = "decide"
        /\ UNCHANGED <<up, lm, lastUp, snapshot, age, job, probe, net, deferred, remaining, passes,
                       counts, routed, relapsed, given>>
    BY <1>4 DEF HealthCheck, world, cache, queue, lanes
  <2>2. Typed'
    BY <1>1, <2>1 DEF Typed
  <2>3. Placed'
    BY <1>1, <2>1 DEF Placed, Usable
  <2> QED BY <1>1, <2>1, <2>2, <2>3, QueueStays DEF QueueInv
<1>5. CASE StatusSnapshot
  <2>1. /\ place = "idle" /\ Check(FALSE, Idle)
        /\ UNCHANGED <<up, lm, lastUp, snapshot, seen, deferred, remaining, passes, counts, routed, relapsed, given>>
    BY <1>5 DEF StatusSnapshot, world, queue, lanes
  <2>2. Idle \in Jobs /\ job = Idle
    BY <1>1, <2>1 DEF Idle, Jobs, Placed
  <2>3. job' = job /\ net' \subseteq 1..Endpoints /\ probe' \in Probes /\ age' \in 0..TTL /\ place' \in {"idle", "probe"}
    <3>1. After(Idle) = "idle"
      BY DEF After, Idle
    <3> QED BY <1>1, <2>1, <2>2, <3>1, CheckTyped
  <2>4. Typed'
    BY <1>1, <2>1, <2>3 DEF Typed
  <2>5. Placed'
    BY <1>1, <2>1, <2>2, <2>3 DEF Placed, Idle
  <2> QED BY <1>1, <2>1, <2>3, <2>4, <2>5, QueueStays DEF QueueInv
<1> QED BY <1>2, <1>3, <1>4, <1>5

\* What a task is routed for the first time, or asked again for.
LEMMA SubmitKeeps ==
  ASSUME QueueInv, NEW task \in Tasks, Submit(task)
  PROVE  QueueInv'
<1> USE SwarmAssumption
<1> DEFINE j == [task |-> task, index |-> 0]
<1>1. Typed /\ Placed /\ Told
  BY DEF QueueInv
<1>2. /\ place = "idle" /\ task \notin given /\ Len(deferred) < MaxQueue
      /\ given' = given \union {task} /\ Check(FALSE, j)
      /\ UNCHANGED <<up, lm, lastUp, snapshot, seen, deferred, remaining, passes, counts, routed, relapsed>>
  BY DEF Submit, world, queue, lanes
<1>3. j \in Jobs /\ job = Idle /\ task # None
  BY <1>1, <1>2 DEF Jobs, Placed
<1>4. After(j) = "health"
  BY <1>3 DEF After
<1>5. job' = j /\ net' \subseteq 1..Endpoints /\ probe' \in Probes /\ age' \in 0..TTL /\ place' \in {"health", "probe"}
  BY <1>1, <1>2, <1>3, <1>4, CheckTyped
<1>6. Typed'
  <2>1. given' \subseteq Tasks /\ job' \in Jobs
    BY <1>1, <1>2, <1>3, <1>5 DEF Typed
  <2> QED BY <1>1, <1>2, <1>5, <2>1 DEF Typed
<1>7. job.index = 0 /\ job.task = None /\ job'.index = 0 /\ job'.task = task
  BY <1>3, <1>5 DEF Idle
<1>8. Placed'
  BY <1>1, <1>2, <1>3, <1>5, <1>7 DEF Placed
<1>9. routed[task] = 0 /\ ~Contains(deferred, task) /\ ~Contains(remaining, task)
  BY <1>1, <1>2 DEF Told, Unknown
<1>10. Told'
  <2>1. NothingLost'
    BY <1>1, <1>2, <1>7, <1>3 DEF Told, NothingLost, Typed
  <2>2. Handled'
    BY <1>1, <1>2, <1>7 DEF Told, Handled
  <2>3. Unknown'
    BY <1>1, <1>2, <1>7 DEF Told, Unknown
  <2>4. ToCome' = ToCome
    BY <1>2, <1>7 DEF ToCome
  <2>5. Fresh1'
    BY <1>1, <1>2, <1>7, <1>9, <2>4 DEF Told, Fresh1
  <2> QED BY <2>1, <2>2, <2>3, <2>5 DEF Told
<1> QED BY <1>6, <1>8, <1>10 DEF QueueInv

\* The queue is as it was, and the pass at its first entry.
LEMMA BeginPassKeeps ==
  ASSUME QueueInv, BeginPass
  PROVE  QueueInv'
<1> USE SwarmAssumption
<1> DEFINE j == [task |-> None, index |-> 1]
<1>1. Typed /\ Placed /\ Told
  BY DEF QueueInv
<1>2. /\ place = "idle" /\ deferred # <<>> /\ passes < MaxPasses
      /\ passes' = passes + 1 /\ remaining' = <<>> /\ Check(TRUE, j)
      /\ UNCHANGED <<up, lm, lastUp, snapshot, seen, deferred, counts, routed, relapsed, given>>
  BY DEF BeginPass, world, lanes
<1>3. j \in Jobs /\ job = Idle /\ remaining = <<>> /\ job.index = 0 /\ job.task = None
  BY <1>1, <1>2 DEF Jobs, Placed, Idle
<1>4. job' = j /\ net' \subseteq 1..Endpoints /\ probe' \in Probes /\ age' \in 0..TTL /\ place' = "probe"
  <2>1. place' = "probe"
    BY <1>2 DEF Check
  <2> QED BY <1>1, <1>2, <1>3, <2>1, CheckTyped
<1>5. Len(deferred) \in Nat /\ Len(deferred) >= 1 /\ deferred \in Seq(Tasks)
  BY <1>1, <1>2 DEF Typed
<1>6. Typed'
  <2>1. job' \in Jobs /\ passes' \in 0..MaxPasses
    BY <1>1, <1>2, <1>3, <1>4 DEF Typed
  <2>2. remaining' \in Seq(Tasks) /\ Len(remaining') = 0
    BY <1>2
  <2> QED BY <1>1, <1>2, <1>4, <1>5, <2>1, <2>2 DEF Typed
<1>7. job'.index = 1 /\ job'.task = None /\ remaining' = remaining
  BY <1>2, <1>3, <1>4
<1>8. Placed'
  BY <1>1, <1>2, <1>4, <1>5, <1>7 DEF Placed
<1>9. Told'
  <2>1. NothingLost' /\ Handled' /\ Unknown'
    <3>1. NothingLost'
      BY <1>1, <1>2, <1>3, <1>7 DEF Told, NothingLost
    <3>2. Handled'
      BY <1>2, <1>5, <1>7 DEF Handled
    <3>3. Unknown'
      BY <1>1, <1>2, <1>3, <1>7 DEF Told, Unknown
    <3> QED BY <3>1, <3>2, <3>3
  <2>2. ToCome' = ToCome
    BY <1>2, <1>3, <1>5, <1>7 DEF ToCome
  <2>3. Fresh1'
    BY <1>1, <1>2, <1>3, <1>7, <2>2 DEF Told, Fresh1
  <2> QED BY <2>1, <2>3 DEF Told
<1> QED BY <1>6, <1>8, <1>9 DEF QueueInv

\* The gate, and the next entry of a pass.
LEMMA GateKeeps ==
  ASSUME QueueInv, Gate
  PROVE  QueueInv'
<1> USE SwarmAssumption
<1>1. Typed /\ Placed /\ Told
  BY DEF QueueInv
<1>2. /\ place = "gate"
      /\ \/ place' = "idle" /\ job' = Idle
         \/ place' = "pass" /\ job' = job
      /\ UNCHANGED <<up, lm, lastUp, snapshot, age, probe, net, seen, deferred, remaining, passes,
                     counts, routed, relapsed, given>>
  BY DEF Gate, world, cache, queue, lanes
<1>3. job.task = None /\ job.index = 1 /\ Idle \in Jobs /\ remaining = <<>>
  BY <1>1, <1>2 DEF Placed, Idle, Jobs
<1>4. Typed'
  BY <1>1, <1>2, <1>3 DEF Typed
<1>5. CASE place' = "pass" /\ job' = job
  <2>1. Placed'
    BY <1>1, <1>2, <1>3, <1>5 DEF Placed
  <2> QED BY <1>1, <1>2, <1>4, <1>5, <2>1, QueueStays DEF QueueInv
<1>6. CASE place' = "idle" /\ job' = Idle
  <2>1. job'.task = None /\ job'.index = 0
    BY <1>6 DEF Idle
  <2>2. Placed'
    BY <1>2, <1>3, <1>6, <2>1 DEF Placed
  <2>3. NothingLost'
    BY <1>1, <1>2, <1>3, <2>1 DEF Told, NothingLost
  <2>4. Handled' /\ Unknown'
    <3>1. Handled'
      BY <1>1, <1>2, <2>1 DEF Handled, Typed
    <3>2. Unknown'
      BY <1>1, <1>2, <1>3, <2>1 DEF Told, Unknown
    <3> QED BY <3>1, <3>2
  <2>5. ToCome' = ToCome
    BY <1>1, <1>2, <1>3, <2>1 DEF ToCome, Typed
  <2>6. Fresh1'
    BY <1>1, <1>2, <1>3, <2>1, <2>5 DEF Told, Fresh1
  <2> QED BY <1>4, <2>2, <2>3, <2>4, <2>6 DEF QueueInv, Told
<1> QED BY <1>2, <1>5, <1>6

LEMMA NextEntryKeeps ==
  ASSUME QueueInv, NextEntry
  PROVE  QueueInv'
<1> USE SwarmAssumption
<1> DEFINE j == [task |-> deferred[job.index], index |-> job.index]
<1>1. Typed /\ Placed /\ Told
  BY DEF QueueInv
<1>2. /\ place = "pass" /\ job.index <= Len(deferred)
      /\ UNCHANGED <<up, lm, lastUp, snapshot, seen, deferred, remaining, passes, counts, routed, relapsed, given>>
      /\ Check(FALSE, [job EXCEPT !.task = deferred[job.index]])
  BY DEF NextEntry, world, queue, lanes
<1>3. job.task = None /\ job.index \in 1..Len(deferred) /\ job.index \in 0..(MaxQueue + 1) /\ Len(deferred) \in Nat
  BY <1>1, <1>2 DEF Placed, Typed, Jobs
<1>4. deferred[job.index] \in Tasks
  BY <1>1, <1>3 DEF Typed
<1>5. [job EXCEPT !.task = deferred[job.index]] = j
  <2>1. job = [task |-> job.task, index |-> job.index]
    BY <1>1 DEF Typed, Jobs
  <2> QED BY <2>1
<1>6. j \in Jobs /\ j.task # None /\ After(j) = "health"
  BY <1>3, <1>4 DEF Jobs, After
<1>7. job' = j /\ net' \subseteq 1..Endpoints /\ probe' \in Probes /\ age' \in 0..TTL /\ place' \in {"health", "probe"}
  BY <1>1, <1>2, <1>5, <1>6, CheckTyped
<1>8. Typed'
  <2>1. job' \in Jobs
    BY <1>6, <1>7
  <2> QED BY <1>1, <1>2, <1>7, <2>1 DEF Typed
<1>9. job'.index = job.index /\ job'.task = deferred[job.index] /\ job'.task # None
  BY <1>6, <1>7
<1>10. Placed'
  BY <1>2, <1>3, <1>4, <1>7, <1>9 DEF Placed
<1>11. NothingLost'
  BY <1>1, <1>2, <1>3 DEF Told, NothingLost, Typed
<1>12. Handled'
  BY <1>1, <1>2, <1>9 DEF Told, Handled
<1>13. Contains(deferred, deferred[job.index])
  BY <1>3 DEF Contains
<1>14. Unknown'
  BY <1>1, <1>2, <1>9, <1>13 DEF Told, Unknown
<1>15. ToCome' = ToCome /\ job'.index # 0
  BY <1>2, <1>3, <1>9 DEF ToCome
<1>16. Fresh1'
  BY <1>1, <1>2, <1>15 DEF Told, Fresh1
<1> QED BY <1>8, <1>10, <1>11, <1>12, <1>14, <1>16 DEF QueueInv, Told

\* The pass is over: a pass which has not relapsed has kept nothing.
LEMMA EndPassKeeps ==
  ASSUME QueueInv, EndPass
  PROVE  QueueInv'
<1> USE SwarmAssumption
<1>1. Typed /\ Placed /\ Told
  BY DEF QueueInv
<1>2. /\ place = "pass" /\ job.index > Len(deferred)
      /\ deferred' = remaining /\ remaining' = <<>> /\ place' = "idle" /\ job' = Idle
      /\ UNCHANGED <<up, lm, lastUp, snapshot, age, probe, net, seen, passes, counts, routed, relapsed, given>>
  BY DEF EndPass, world, cache, lanes
<1>3. /\ job.task = None /\ Idle \in Jobs /\ Idle.task = None /\ Idle.index = 0
      /\ job'.task = None /\ job'.index = 0
  BY <1>1, <1>2 DEF Placed, Idle, Jobs
<1>4. /\ deferred \in Seq(Tasks) /\ remaining \in Seq(Tasks) /\ Len(deferred) \in Nat /\ Len(remaining) \in Nat
      /\ Len(remaining) <= Len(deferred) /\ Len(deferred) <= MaxQueue /\ job.index \in 0..(MaxQueue + 1)
  BY <1>1 DEF Typed, Jobs
<1>5. Typed'
  <2>1. deferred' \in Seq(Tasks) /\ Len(deferred') \in Nat /\ Len(deferred') <= MaxQueue
    BY <1>2, <1>4
  <2>2. remaining' \in Seq(Tasks) /\ Len(remaining') = 0
    BY <1>2
  <2>3. job' \in Jobs
    BY <1>2, <1>3
  <2> QED BY <1>1, <1>2, <2>1, <2>2, <2>3 DEF Typed
<1>6. Placed'
  BY <1>2, <1>3 DEF Placed
<1>7. \A t : ~Contains(<<>>, t)
  BY ContainsNone
<1>8. NothingLost'
  <2>1. ASSUME NEW t \in given PROVE routed[t] > 0 \/ Contains(remaining, t)
    <3>1. CASE Contains(deferred, t)
      <4>1. PICK i \in 1..Len(deferred) : deferred[i] = t
        BY <3>1 DEF Contains
      <4>2. i < job.index
        BY <1>2, <1>4, <4>1
      <4> QED BY <1>1, <4>1, <4>2 DEF Told, Handled
    <3>2. CASE ~Contains(deferred, t)
      BY <1>1, <1>3, <3>2, SwarmAssumption DEF Told, NothingLost, Typed
    <3> QED BY <3>1, <3>2
  <2> QED BY <1>2, <2>1 DEF NothingLost
<1>9. Handled'
  BY <1>2, <1>3, <1>4 DEF Handled
<1>10. Unknown'
  BY <1>1, <1>2, <1>3, <1>7 DEF Told, Unknown
<1>11. Fresh1'
  <2> SUFFICES ASSUME ~relapsed PROVE Fresh1'
    BY <1>2 DEF Fresh1
  <2>1. ToCome = {}
    BY <1>2, <1>4 DEF ToCome
  <2>2. \A t \in Tasks : routed[t] <= 1 /\ ~Contains(remaining, t)
    BY <1>1, <2>1 DEF Told, Fresh1
  <2>3. Len(remaining) = 0
    <3>1. ASSUME Len(remaining) # 0 PROVE FALSE
      <4>1. 1 \in 1..Len(remaining) /\ remaining[1] \in Tasks
        BY <1>4, <3>1
      <4> QED BY <2>2, <4>1 DEF Contains
    <3> QED BY <3>1
  <2>4. ToCome' = {}
    BY <1>2, <2>3 DEF ToCome
  <2> QED BY <1>2, <1>3, <1>7, <2>2, <2>4 DEF Fresh1
<1> QED BY <1>5, <1>6, <1>8, <1>9, <1>10, <1>11 DEF QueueInv, Told

\* A task is routed, and no entry which is still to come is of it.
LEMMA RoutedKeeps ==
  ASSUME QueueInv, Decide, RecordRouted("L1")
  PROVE  QueueInv'
<1> USE SwarmAssumption
<1> DEFINE tk == job.task
<1>1. Typed /\ Placed /\ Told
  BY DEF QueueInv
<1>2. /\ place = "decide" /\ tk \in Tasks /\ Len(deferred) \in Nat
      /\ \/ job.index = 0 /\ place' = "idle" /\ job' = Idle
         \/ /\ job.index \in 1..Len(deferred) /\ tk = deferred[job.index]
            /\ place' = "pass" /\ job' = [task |-> None, index |-> job.index + 1]
      /\ UNCHANGED <<up, lm, lastUp, snapshot, age, probe, net, seen, given>>
  BY <1>1, DecideIs DEF world, cache
<1>3. /\ counts' = [t \in (DOMAIN counts) \union {"L1"} |-> Count(t) + (IF t = "L1" THEN 1 ELSE 0)]
      /\ routed' = [routed EXCEPT ![tk] = @ + 1]
      /\ relapsed' = (relapsed \/ Contains(remaining, tk))
      /\ UNCHANGED <<deferred, remaining, passes>>
  BY DEF RecordRouted, queue
<1>4. routed \in [Tasks -> Nat] /\ given \subseteq Tasks
  BY <1>1 DEF Typed
<1> HIDE DEF tk
<1>5. routed' \in [Tasks -> Nat] /\ \A t \in Tasks : routed'[t] = IF t = tk THEN routed[t] + 1 ELSE routed[t]
  BY <1>2, <1>3, <1>4
<1>6. /\ job'.task = None /\ job' \in Jobs
      /\ \/ job'.index = 0 /\ job.index = 0
         \/ job'.index = job.index + 1 /\ job.index \in 1..Len(deferred)
  <2>1. Idle.task = None /\ Idle.index = 0 /\ Idle \in Jobs
    BY DEF Idle, Jobs
  <2>2. CASE job.index \in 1..Len(deferred) /\ job' = [task |-> None, index |-> job.index + 1]
    <3>1. job.index + 1 \in 0..(MaxQueue + 1)
      BY <1>1, <1>2, <2>2 DEF Typed
    <3>2. job'.task = None /\ job'.index = job.index + 1 /\ job' \in Jobs
      BY <2>2, <3>1 DEF Jobs
    <3> QED BY <2>2, <3>2
  <2>3. CASE job.index = 0 /\ job' = Idle
    <3>1. job' = Idle /\ job.index = 0
      BY <2>3
    <3>2. job'.task = None /\ job'.index = 0 /\ job' \in Jobs
      BY <2>1, <3>1
    <3> QED BY <3>1, <3>2
  <2> QED BY <1>2, <2>2, <2>3
<1>7. Typed'
  <2>1. DOMAIN counts' \subseteq Names
    <3>1. DOMAIN counts' = (DOMAIN counts) \union {"L1"}
      BY <1>3
    <3> QED BY <1>1, <3>1 DEF Typed, Names
  <2>2. relapsed' \in BOOLEAN
    <3>1. Contains(remaining, tk) \in BOOLEAN
      BY DEF Contains
    <3> QED BY <1>1, <1>3, <3>1 DEF Typed
  <2>3. place' \in {"idle", "pass"}
    BY <1>2
  <2> QED BY <1>1, <1>2, <1>3, <1>5, <1>6, <2>1, <2>2, <2>3 DEF Typed
<1>8. Placed'
  <2>1. remaining = <<>> \/ job.index # 0
    BY <1>1 DEF Placed
  <2> QED BY <1>2, <1>3, <1>6, <2>1 DEF Placed, Idle
<1>9. NothingLost'
  <2>1. ASSUME NEW t \in given PROVE routed'[t] > 0 \/ Contains(deferred, t) \/ Contains(remaining, t)
    BY <1>1, <1>4, <1>5 DEF Told, NothingLost, tk
  <2> QED BY <1>2, <1>3, <2>1 DEF NothingLost
<1>10. Handled'
  <2>1. ASSUME NEW i \in 1..Len(deferred), i < job'.index
        PROVE  routed'[deferred[i]] > 0 \/ Contains(remaining, deferred[i])
    <3>1. deferred[i] \in Tasks /\ job.index \in Nat
      BY <1>1 DEF Typed, Jobs
    <3>2. CASE i < job.index
      BY <1>1, <1>4, <1>5, <2>1, <3>1, <3>2 DEF Told, Handled
    <3>3. CASE ~(i < job.index)
      <4>1. i = job.index
        BY <1>6, <2>1, <3>1, <3>3
      <4>2. deferred[i] = tk
        BY <1>2, <1>6, <2>1, <4>1
      <4> QED BY <1>4, <1>5, <3>1, <4>2
    <3> QED BY <3>2, <3>3
  <2> QED BY <1>3, <2>1 DEF Handled
<1>11. Unknown'
  <2>1. tk \in given
    BY <1>1, <1>2 DEF Told, Unknown, tk
  <2> QED BY <1>1, <1>2, <1>3, <1>5, <1>6, <2>1 DEF Told, Unknown
<1>12. Fresh1'
  <2> SUFFICES ASSUME ~relapsed, ~Contains(remaining, tk) PROVE Fresh1'
    BY <1>3 DEF Fresh1
  <2>1. /\ \A t \in Tasks : routed[t] <= 1
        /\ \A i \in ToCome : routed[deferred[i]] = 0
        /\ \A i, k \in ToCome : i < k /\ deferred[i] = deferred[k] => Contains(remaining, deferred[i])
        /\ \A t \in Tasks : Contains(remaining, t) => \E i \in ToCome : deferred[i] = t
        /\ job.index = 0 => routed[tk] = 0 /\ ~Contains(deferred, tk)
    BY <1>1, <1>2 DEF Told, Fresh1, tk
  <2>2. job.index # 0 => job.index \in ToCome /\ tk = deferred[job.index]
    BY <1>2 DEF ToCome
  <2>3. routed[tk] = 0
    BY <2>1, <2>2
  <2>4. ToCome' = ToCome \ {job.index}
    <3>1. job.index \in Nat
      BY <1>1 DEF Typed, Jobs
    <3> QED BY <1>2, <1>3, <1>6, <3>1 DEF ToCome
  <2>5. \A i \in ToCome' : deferred[i] \in Tasks /\ deferred[i] # tk
    <3> SUFFICES ASSUME NEW i \in ToCome \ {job.index} PROVE deferred[i] \in Tasks /\ deferred[i] # tk
      BY <2>4
    <3>1. i \in 1..Len(deferred) /\ i >= job.index /\ deferred[i] \in Tasks /\ job.index \in Nat
      BY <1>1 DEF ToCome, Typed, Jobs
    <3>2. CASE job.index = 0
      BY <2>1, <3>1, <3>2 DEF Contains
    <3>3. CASE job.index # 0
      <4>1. job.index < i
        BY <3>1
      <4> QED BY <2>1, <2>2, <3>1, <3>3, <4>1
    <3> QED BY <3>2, <3>3
  <2>6. \A t \in Tasks : routed'[t] <= 1
    BY <1>4, <1>5, <2>1, <2>3
  <2>7. \A i \in ToCome' : routed'[deferred[i]] = 0
    BY <1>5, <2>1, <2>4, <2>5
  <2>8. \A t \in Tasks : Contains(remaining, t) => \E i \in ToCome' : deferred[i] = t
    <3> SUFFICES ASSUME NEW t \in Tasks, Contains(remaining, t) PROVE \E i \in ToCome' : deferred[i] = t
      OBVIOUS
    <3>1. PICK i \in ToCome : deferred[i] = t
      BY <2>1
    <3>2. i # job.index
      <4>1. ToCome \subseteq 1..Len(deferred)
        BY DEF ToCome
      <4> QED BY <2>2, <3>1, <1>2, <4>1
    <3> QED BY <2>4, <3>1, <3>2
  <2>9. \A i, k \in ToCome' : i < k /\ deferred[i] = deferred[k] => Contains(remaining, deferred[i])
    BY <2>1, <2>4
  <2> QED BY <1>3, <1>6, <2>6, <2>7, <2>8, <2>9 DEF Fresh1
<1> QED BY <1>7, <1>8, <1>9, <1>10, <1>11, <1>12 DEF QueueInv, Told

\* A task is deferred; a pass keeps it and comes to it once more.
LEMMA DeferKeeps ==
  ASSUME QueueInv, Decide, Defer, Len(deferred) < MaxQueue
  PROVE  QueueInv'
<1> USE SwarmAssumption
<1> DEFINE tk == job.task
<1>1. Typed /\ Placed /\ Told
  BY DEF QueueInv
<1>2. /\ place = "decide" /\ tk \in Tasks /\ Len(deferred) \in Nat
      /\ \/ job.index = 0 /\ place' = "idle" /\ job' = Idle
         \/ /\ job.index \in 1..Len(deferred) /\ tk = deferred[job.index]
            /\ place' = "pass" /\ job' = [task |-> None, index |-> job.index + 1]
      /\ UNCHANGED <<up, lm, lastUp, snapshot, age, probe, net, seen, given>>
  BY <1>1, DecideIs DEF world, cache
<1>3. /\ deferred' = Append(deferred, tk)
      /\ remaining' = IF job.index > 0 THEN Append(remaining, tk) ELSE remaining
      /\ UNCHANGED <<passes, counts, routed, relapsed>>
  BY DEF Defer, lanes
<1>4. /\ deferred \in Seq(Tasks) /\ remaining \in Seq(Tasks) /\ Len(remaining) <= Len(deferred)
      /\ given \subseteq Tasks /\ job.index \in 0..(MaxQueue + 1) /\ job.index \in Nat
  BY <1>1 DEF Typed, Jobs
<1> HIDE DEF tk
<1>5. /\ deferred' \in Seq(Tasks) /\ Len(deferred') = Len(deferred) + 1
      /\ \A i \in 1..Len(deferred) : deferred'[i] = deferred[i]
      /\ deferred'[Len(deferred) + 1] = tk
      /\ \A t : Contains(deferred', t) <=> Contains(deferred, t) \/ t = tk
  BY <1>2, <1>3, <1>4, ContainsAppend
<1>6. /\ remaining' \in Seq(Tasks) /\ Len(remaining') <= Len(deferred')
      /\ \A t : Contains(remaining', t) <=> Contains(remaining, t) \/ (job.index > 0 /\ t = tk)
  <2>1. CASE job.index > 0
    <3>1. /\ remaining' \in Seq(Tasks) /\ Len(remaining') = Len(remaining) + 1 /\ Len(remaining) \in Nat
          /\ \A t : Contains(remaining', t) <=> Contains(remaining, t) \/ t = tk
      BY <1>2, <1>3, <1>4, <2>1, ContainsAppend
    <3> QED BY <1>2, <1>4, <1>5, <2>1, <3>1
  <2>2. CASE ~(job.index > 0)
    <3>1. remaining' = remaining /\ Len(remaining) \in Nat
      BY <1>3, <1>4, <2>2
    <3> QED BY <1>2, <1>4, <1>5, <2>2, <3>1
  <2> QED BY <2>1, <2>2
<1>7. /\ job'.task = None /\ job' \in Jobs
      /\ \/ job'.index = 0 /\ job.index = 0
         \/ job'.index = job.index + 1 /\ job.index \in 1..Len(deferred)
  <2>1. Idle.task = None /\ Idle.index = 0 /\ Idle \in Jobs
    BY DEF Idle, Jobs
  <2>2. CASE job.index \in 1..Len(deferred) /\ job' = [task |-> None, index |-> job.index + 1]
    <3>1. job.index + 1 \in 0..(MaxQueue + 1)
      BY <1>1, <1>2, <2>2 DEF Typed
    <3>2. job'.task = None /\ job'.index = job.index + 1 /\ job' \in Jobs
      BY <2>2, <3>1 DEF Jobs
    <3> QED BY <2>2, <3>2
  <2>3. CASE job.index = 0 /\ job' = Idle
    <3>1. job' = Idle /\ job.index = 0
      BY <2>3
    <3>2. job'.task = None /\ job'.index = 0 /\ job' \in Jobs
      BY <2>1, <3>1
    <3> QED BY <3>1, <3>2
  <2> QED BY <1>2, <2>2, <2>3
<1>8. Typed'
  <2>1. Len(deferred') <= MaxQueue
    BY <1>2, <1>5
  <2>2. place' \in {"idle", "pass"}
    BY <1>2
  <2> QED BY <1>1, <1>2, <1>3, <1>5, <1>6, <1>7, <2>1, <2>2 DEF Typed
<1>9. Placed'
  <2>1. job.index = 0 => remaining' = <<>>
    BY <1>1, <1>3 DEF Placed
  <2> QED BY <1>2, <1>5, <1>7, <2>1 DEF Placed, Idle
<1>10. NothingLost'
  <2>1. ASSUME NEW t \in given PROVE routed[t] > 0 \/ Contains(deferred', t) \/ Contains(remaining', t)
    BY <1>1, <1>5, <1>6 DEF Told, NothingLost, tk
  <2> QED BY <1>2, <1>3, <2>1 DEF NothingLost
<1>11. Handled'
  <2>1. ASSUME NEW i \in 1..Len(deferred'), i < job'.index
        PROVE  routed[deferred'[i]] > 0 \/ Contains(remaining', deferred'[i])
    <3>1. i \in 1..Len(deferred) /\ i <= job.index
      BY <1>2, <1>5, <1>7, <2>1
    <3>2. deferred'[i] = deferred[i]
      BY <1>5, <3>1
    <3>3. CASE i < job.index
      BY <1>1, <1>6, <3>1, <3>2, <3>3 DEF Told, Handled
    <3>4. CASE i = job.index
      BY <1>2, <1>6, <3>1, <3>2, <3>4
    <3> QED BY <1>4, <3>1, <3>3, <3>4
  <2> QED BY <1>3, <2>1 DEF Handled
<1>12. Unknown'
  <2>1. tk \in given
    BY <1>1, <1>2 DEF Told, Unknown, tk
  <2> QED BY <1>1, <1>2, <1>3, <1>5, <1>6, <1>7, <2>1 DEF Told, Unknown
<1>13. Fresh1'
  <2> SUFFICES ASSUME ~relapsed PROVE Fresh1'
    BY <1>3 DEF Fresh1
  <2>1. /\ \A t \in Tasks : routed[t] <= 1
        /\ \A i \in ToCome : routed[deferred[i]] = 0
        /\ \A i, k \in ToCome : i < k /\ deferred[i] = deferred[k] => Contains(remaining, deferred[i])
        /\ \A t \in Tasks : Contains(remaining, t) => \E i \in ToCome : deferred[i] = t
        /\ job.index = 0 => routed[tk] = 0 /\ ~Contains(deferred, tk)
    BY <1>1, <1>2 DEF Told, Fresh1, tk
  <2>2. job.index # 0 => job.index \in ToCome /\ tk = deferred[job.index]
    BY <1>2 DEF ToCome
  <2>3. routed[tk] = 0
    BY <2>1, <2>2
  <2>4. ToCome' = (ToCome \ {job.index}) \union {Len(deferred) + 1}
    BY <1>2, <1>4, <1>5, <1>7 DEF ToCome
  <2>5. \A i \in ToCome : i \in 1..Len(deferred) /\ i >= job.index /\ deferred'[i] = deferred[i]
    BY <1>5 DEF ToCome
  <2>6. \A i \in ToCome' : routed[deferred'[i]] = 0
    BY <1>5, <2>1, <2>3, <2>4, <2>5
  <2>7. ASSUME NEW i \in ToCome', NEW k \in ToCome', i < k, deferred'[i] = deferred'[k]
        PROVE  Contains(remaining', deferred'[i])
    <3>1. i \in ToCome
      BY <1>2, <2>4, <2>5, <2>7
    <3>2. CASE k \in ToCome
      BY <1>6, <2>1, <2>5, <2>7, <3>1, <3>2
    <3>3. CASE k = Len(deferred) + 1
      <4>1. deferred[i] = tk /\ deferred'[i] = tk
        BY <1>5, <2>5, <2>7, <3>1, <3>3
      <4>2. job.index # 0
        BY <2>1, <2>5, <3>1, <4>1 DEF Contains
      <4> QED BY <1>4, <1>6, <4>1, <4>2
    <3> QED BY <2>4, <3>2, <3>3
  <2>8. \A t \in Tasks : Contains(remaining', t) => \E i \in ToCome' : deferred'[i] = t
    <3> SUFFICES ASSUME NEW t \in Tasks, Contains(remaining', t) PROVE \E i \in ToCome' : deferred'[i] = t
      OBVIOUS
    <3>1. CASE t = tk
      BY <1>5, <2>4, <3>1
    <3>2. CASE t # tk
      <4>1. PICK i \in ToCome : deferred[i] = t
        BY <1>6, <2>1, <3>2
      <4>2. i # job.index
        BY <1>2, <2>2, <2>5, <3>2, <4>1
      <4> QED BY <2>4, <2>5, <4>1, <4>2
    <3> QED BY <3>1, <3>2
  <2> QED BY <1>3, <1>7, <2>1, <2>6, <2>7, <2>8 DEF Fresh1
<1> QED BY <1>8, <1>9, <1>10, <1>11, <1>12, <1>13 DEF QueueInv, Told

LEMMA QueueNext == QueueInv /\ [Next]_vars => QueueInv'
<1> SUFFICES ASSUME QueueInv, [Next]_vars PROVE QueueInv'
  OBVIOUS
<1>1. CASE UNCHANGED vars
  <2>1. UNCHANGED <<up, lm, lastUp, snapshot, age, place, job, probe, net, seen, deferred, remaining, passes,
                    counts, routed, relapsed, given>>
    BY <1>1 DEF vars, world, cache, queue, lanes
  <2>2. Typed' /\ Placed'
    BY <2>1 DEF QueueInv, Typed, Placed
  <2> QED BY <2>1, <2>2, QueueStays DEF QueueInv
<1>2. CASE Tick \/ (\E e \in 1..Endpoints : Link(e))
             \/ (\E inventory \in Inventories \union {None} : Load(inventory)) \/ InvalidateCache
  BY <1>2, WorldKeeps
<1>3. CASE ProbeEndpoint \/ EndProbe \/ HealthCheck \/ StatusSnapshot
  BY <1>3, ProbesKeep
<1>4. CASE BeginPass
  BY <1>4, BeginPassKeeps
<1>5. ASSUME NEW task \in Tasks, Submit(task) PROVE QueueInv'
  BY <1>5, SubmitKeeps
<1>6. CASE Decide
  <2>1. RecordRouted("L1") \/ (Defer /\ Len(deferred) < MaxQueue)
    BY <1>6, DecideIs DEF QueueInv
  <2> QED BY <1>6, <2>1, RoutedKeeps, DeferKeeps
<1>7. CASE Gate
  BY <1>7, GateKeeps
<1>8. CASE NextEntry
  BY <1>8, NextEntryKeeps
<1>9. CASE EndPass
  BY <1>9, EndPassKeeps
<1> QED BY <1>1, <1>2, <1>3, <1>4, <1>5, <1>6, <1>7, <1>8, <1>9 DEF Next, RouteStep

LEMMA Bounded ==
  ASSUME NEW S, NEW s \in Seq(S), NEW n \in Nat, Len(s) <= n
  PROVE  s \in BoundedSeq(S, n)
<1>1. Len(s) \in 0..n /\ s \in [1..Len(s) -> S]
  OBVIOUS
<1> DEFINE ofLength == [m \in 0..n |-> [1..m -> S]]
<1>2. s \in ofLength[Len(s)]
  BY <1>1
<1> QED BY <1>1, <1>2 DEF BoundedSeq, SeqOf

LEMMA QueueSoundOfInv == QueueInv => QueueSound
<1> SUFFICES ASSUME QueueInv PROVE QueueSound
  OBVIOUS
<1> USE SwarmAssumption
<1>1. Typed /\ Told
  BY DEF QueueInv
<1>2. deferred \in BoundedSeq(Tasks, MaxQueue) /\ remaining \in BoundedSeq(Tasks, MaxQueue)
  <2>1. /\ deferred \in Seq(Tasks) /\ Len(deferred) \in Nat /\ Len(deferred) <= MaxQueue
        /\ remaining \in Seq(Tasks) /\ Len(remaining) \in Nat /\ Len(remaining) <= MaxQueue
    BY <1>1 DEF Typed
  <2> QED BY <2>1, Bounded
<1>3. TypeOK
  BY <1>1, <1>2 DEF Typed, TypeOK, Jobs, Probes, Names
<1>4. RoutedAgainOnlyAfterRelapse
  <2> SUFFICES ASSUME ~relapsed, NEW t \in Tasks PROVE ~(routed[t] > 1)
    BY DEF RoutedAgainOnlyAfterRelapse
  <2>1. routed[t] <= 1 /\ routed[t] \in Nat
    BY <1>1 DEF Told, Fresh1, Typed
  <2> QED BY <2>1
<1> QED BY <1>1, <1>3, <1>4 DEF QueueSound, Told

\* No task is lost by process_deferred, however passes and new tasks follow each other,
\* and none is routed twice before a pass has relapsed.
THEOREM QueueSoundHolds == Spec => []QueueSound
<1>1. Init => QueueInv
  BY QueueInit
<1>2. QueueInv /\ [Next]_vars => QueueInv'
  BY QueueNext
<1>3. QueueInv => QueueSound
  BY QueueSoundOfInv
<1> QED BY <1>1, <1>2, <1>3, PTL DEF Spec

----------------------------------------------------------------------------
(* The cached status.                                                       *)

\* What a snapshot counts has answered since its probe began, and age is not less than
\* the time since then.
UpNow == \A e \in up : lastUp[e] = 0
Recent ==
  /\ place # "probe" /\ snapshot # None => \A e \in snapshot : lastUp[e] <= age
  /\ place = "probe" => \A e \in probe.answers : lastUp[e] <= age
StatusInv == QueueInv /\ UpNow /\ Recent

LEMMA StatusInit == Init => StatusInv
<1> SUFFICES ASSUME Init PROVE StatusInv
  OBVIOUS
<1>1. up \subseteq 1..Endpoints /\ lastUp = [e \in 1..Endpoints |-> IF e \in up THEN 0 ELSE TTL]
      /\ snapshot = None /\ place = "idle"
  BY DEF Init
<1>2. UpNow /\ Recent
  BY <1>1 DEF UpNow, Recent
<1> QED BY <1>2, QueueInit DEF StatusInv

\* The world and the cache.
LEMMA StatusWorld ==
  ASSUME StatusInv, Tick \/ (\E e \in 1..Endpoints : Link(e))
                     \/ (\E inventory \in Inventories \union {None} : Load(inventory))
                     \/ InvalidateCache
  PROVE  UpNow' /\ Recent'
<1> USE SwarmAssumption
<1>1. /\ up \subseteq 1..Endpoints /\ lastUp \in [1..Endpoints -> 0..TTL] /\ age \in 0..TTL
      /\ snapshot \in (SUBSET (1..Endpoints)) \union {None} /\ probe.answers \subseteq 1..Endpoints
      /\ UpNow /\ Recent
  BY DEF StatusInv, QueueInv, Typed, Probes
<1>2. place' = place /\ probe' = probe
  BY DEF Tick, Link, Load, InvalidateCache, code
<1>3. snapshot # None => snapshot \subseteq 1..Endpoints
  BY <1>1
<1>4. CASE Tick
  <2>1. /\ age' = Later(age) /\ snapshot' = snapshot /\ up' = up
        /\ \A e \in 1..Endpoints : lastUp'[e] = IF e \in up THEN 0 ELSE Later(lastUp[e])
    BY <1>4 DEF Tick
  <2>2. \A m, n \in 0..TTL : (m <= n => Later(m) <= Later(n)) /\ Later(n) \in 0..TTL
    BY DEF Later
  <2>3. UpNow'
    BY <1>1, <2>1 DEF UpNow
  <2>4. \A e \in 1..Endpoints : lastUp[e] <= age => lastUp'[e] <= age'
    <3> SUFFICES ASSUME NEW e \in 1..Endpoints, lastUp[e] <= age PROVE lastUp'[e] <= age'
      OBVIOUS
    <3>1. lastUp[e] \in 0..TTL /\ Later(lastUp[e]) <= Later(age) /\ Later(age) \in 0..TTL
      BY <1>1, <2>2
    <3> QED BY <2>1, <3>1
  <2> QED BY <1>1, <1>2, <1>3, <2>1, <2>3, <2>4 DEF Recent
<1>5. ASSUME NEW e \in 1..Endpoints, Link(e) PROVE UpNow' /\ Recent'
  <2>1. /\ up' = (IF e \in up THEN up \ {e} ELSE up \union {e}) /\ age' = age /\ snapshot' = snapshot
        /\ \A f \in 1..Endpoints : lastUp'[f] = IF f = e THEN 0 ELSE lastUp[f]
    BY <1>1, <1>5 DEF Link, cache
  <2>2. UpNow'
    BY <1>1, <2>1 DEF UpNow
  <2>3. \A f \in 1..Endpoints : lastUp[f] <= age => lastUp'[f] <= age'
    BY <1>1, <2>1
  <2> QED BY <1>1, <1>2, <1>3, <2>1, <2>2, <2>3 DEF Recent
<1>6. CASE \E inventory \in Inventories \union {None} : Load(inventory)
  BY <1>1, <1>2, <1>6 DEF Load, cache, UpNow, Recent
<1>7. CASE InvalidateCache
  <2>1. snapshot' = None /\ place' # "probe" /\ lastUp' = lastUp /\ up' = up
    BY <1>7 DEF InvalidateCache, world, code
  <2> QED BY <1>1, <2>1 DEF UpNow, Recent
<1> QED BY <1>4, <1>5, <1>6, <1>7

\* A new probe begins with no answer.
LEMMA StatusCheck ==
  ASSUME StatusInv, NEW force, NEW j, Check(force, j), place # "probe", UNCHANGED <<world, snapshot>>
  PROVE  UpNow' /\ Recent'
<1>1. UpNow' /\ UpNow /\ Recent /\ lastUp' = lastUp /\ snapshot' = snapshot
  BY DEF StatusInv, UpNow, world
<1>2. CASE ~force /\ snapshot # None /\ age < TTL
  <2>1. age' = age /\ place' = After(j)
    BY <1>2 DEF Check
  <2>2. place' # "probe"
    BY <2>1 DEF After
  <2> QED BY <1>1, <2>1, <2>2 DEF Recent
<1>3. CASE ~(~force /\ snapshot # None /\ age < TTL)
  <2>1. place' = "probe" /\ probe'.answers = {}
    BY <1>3 DEF Check, NoProbe
  <2> QED BY <1>1, <2>1 DEF Recent
<1> QED BY <1>2, <1>3

LEMMA StatusNext == StatusInv /\ [Next]_vars => StatusInv'
<1> SUFFICES ASSUME StatusInv, [Next]_vars PROVE UpNow' /\ Recent'
  BY QueueNext DEF StatusInv
<1> USE SwarmAssumption
<1>1. /\ up \subseteq 1..Endpoints /\ lastUp \in [1..Endpoints -> 0..TTL] /\ age \in 0..TTL
      /\ probe \in Probes /\ UpNow /\ Recent
  BY DEF StatusInv, QueueInv, Typed
<1>2. CASE Tick \/ (\E e \in 1..Endpoints : Link(e))
             \/ (\E inventory \in Inventories \union {None} : Load(inventory)) \/ InvalidateCache
  BY <1>2, StatusWorld
<1>3. CASE ProbeEndpoint
  <2>1. /\ place = "probe" /\ place' = "probe" /\ lastUp' = lastUp /\ up' = up /\ age' = age
        /\ \/ probe.next \in up /\ probe'.answers = probe.answers \union {probe.next}
           \/ probe'.answers = probe.answers
    BY <1>1, <1>3 DEF ProbeEndpoint, world, cache, Probes
  <2>2. \A e \in up : lastUp[e] <= age
    BY <1>1 DEF UpNow
  <2> QED BY <1>1, <2>1, <2>2 DEF UpNow, Recent
<1>4. CASE EndProbe
  <2>1. place = "probe" /\ snapshot' = probe.answers /\ place' = After(job) /\ UNCHANGED <<up, lastUp, age>>
    BY <1>4 DEF EndProbe, world
  <2>2. place' # "probe"
    BY <2>1 DEF After
  <2> QED BY <1>1, <2>1, <2>2 DEF UpNow, Recent
<1>5. CASE HealthCheck \/ Decide \/ Gate \/ EndPass
  <2>1. place # "probe" /\ place' # "probe" /\ UNCHANGED <<up, lastUp, age, snapshot>>
    BY <1>5 DEF HealthCheck, Decide, Gate, EndPass, world, cache
  <2> QED BY <1>1, <2>1 DEF UpNow, Recent
<1>6. CASE StatusSnapshot \/ BeginPass \/ NextEntry
  BY <1>6, StatusCheck DEF StatusSnapshot, BeginPass, NextEntry
<1>7. ASSUME NEW task \in Tasks, Submit(task) PROVE UpNow' /\ Recent'
  BY <1>7, StatusCheck DEF Submit
<1>8. CASE UNCHANGED vars
  BY <1>1, <1>8 DEF vars, world, cache, UpNow, Recent
<1> QED BY <1>2, <1>3, <1>4, <1>5, <1>6, <1>7, <1>8 DEF Next, RouteStep

\* A check which is answered at once is answered from the cache.
LEMMA FromCache ==
  ASSUME StatusInv, NEW force, NEW j, Check(force, j), place # "probe", place' = "health",
         UNCHANGED <<world, snapshot>>, NEW e \in net'
  PROVE  lastUp[e] < TTL
<1>1. net' = snapshot /\ snapshot # None /\ age < TTL
  BY DEF Check
<1>2. lastUp[e] <= age /\ e \in 1..Endpoints
  BY <1>1 DEF StatusInv, QueueInv, Typed, Recent
<1>3. lastUp[e] \in 0..TTL /\ age \in 0..TTL /\ TTL \in Nat
  BY <1>2, SwarmAssumption DEF StatusInv, QueueInv, Typed
<1> QED BY <1>1, <1>2, <1>3

\* What route reads from the cache counts only endpoints which have answered within the
\* lifetime of the cache.
THEOREM CachedStatusRecentHolds == Spec => CachedStatusRecent
<1> DEFINE Served == place' = "health" /\ place \in {"idle", "pass"} => \A e \in net' : lastUp[e] < TTL
<1>1. Init => StatusInv
  BY StatusInit
<1>2. StatusInv /\ [Next]_vars => StatusInv'
  BY StatusNext
<1>3. StatusInv /\ [Next]_vars => [Served]_vars
  <2> SUFFICES ASSUME StatusInv, Next, place' = "health", place \in {"idle", "pass"}, NEW e \in net'
               PROVE  lastUp[e] < TTL
    OBVIOUS
  <2>1. CASE StatusSnapshot \/ BeginPass \/ NextEntry
    BY <2>1, FromCache DEF StatusSnapshot, BeginPass, NextEntry
  <2>2. ASSUME NEW task \in Tasks, Submit(task) PROVE lastUp[e] < TTL
    BY <2>2, FromCache DEF Submit
  <2>3. CASE Tick \/ (\E f \in 1..Endpoints : Link(f))
               \/ (\E inventory \in Inventories \union {None} : Load(inventory)) \/ InvalidateCache
    <3>1. place' = place
      BY <2>3 DEF Tick, Link, Load, InvalidateCache, code
    <3> QED BY <3>1
  <2>4. CASE ProbeEndpoint \/ EndProbe \/ HealthCheck
    BY <2>4 DEF ProbeEndpoint, EndProbe, HealthCheck
  <2>5. CASE Decide \/ Gate \/ EndPass
    BY <2>5 DEF Decide, Gate, EndPass
  <2> QED BY <2>1, <2>2, <2>3, <2>4, <2>5 DEF Next, RouteStep
<1>4. Spec => [][Served]_vars
  BY <1>1, <1>2, <1>3, PTL DEF Spec
<1> QED BY <1>4 DEF CachedStatusRecent

----------------------------------------------------------------------------
(* The health monitor.                                                      *)

\* Every set of naturals has the least element which Min chooses.
LEMMA MinOfNat ==
  ASSUME NEW S, S \subseteq Nat, S # {}
  PROVE  Min(S) \in S
<1>1. PICK x \in S : \A y \in S : ~(<<y, x>> \in OpToRel(<, Nat))
  BY WFMin, NatLessThanWellFounded
<1>2. ASSUME NEW y \in S PROVE x <= y
  <2>1. OpToRel(<, Nat) = {ss \in Nat \X Nat : ss[1] < ss[2]}
    BY DEF OpToRel
  <2>2. ~(y < x)
    BY <1>1, <2>1
  <2> QED BY <2>2
<1> QED BY <1>2 DEF Min

\* Two members make a finite set large.
LEMMA TwoMembers ==
  ASSUME NEW S, IsFiniteSet(S), NEW a \in S, NEW b \in S, a # b
  PROVE  Cardinality(S) >= 2
<1>1. IsFiniteSet({a}) /\ Cardinality({a}) = 1
  BY FS_Singleton
<1>2. IsFiniteSet({a} \union {b}) /\ Cardinality({a} \union {b}) = 2
  <2>1. IsFiniteSet({a} \union {b}) /\ Cardinality({a} \union {b}) = Cardinality({a}) + 1
    <3>1. b \notin {a}
      OBVIOUS
    <3> QED BY <1>1, <3>1, FS_AddElement
  <2> QED BY <1>1, <2>1
<1>3. Cardinality({a} \union {b}) <= Cardinality(S) /\ Cardinality(S) \in Nat
  BY <1>2, FS_Subset, FS_CardinalityType
<1> QED BY <1>2, <1>3

\* What the detectors may find, and what it costs.
LEMMA CostOf ==
  ASSUME NEW signal, NEW severity
  PROVE  /\ Diagnosis(signal, severity) = {[signal |-> signal, severity |-> severity]}
         /\ Cost(Diagnosis(signal, severity)) =
              IF severity = "critical" THEN 40 ELSE IF severity = "high" THEN 25 ELSE 10
<1> DEFINE d == [signal |-> signal, severity |-> severity]
<1>1. Diagnosis(signal, severity) = {d}
  BY DEF Diagnosis
<1>2. (CHOOSE e \in {d} : TRUE) = d /\ {d} # {}
  OBVIOUS
<1>3. Cost(Diagnosis(signal, severity)) = Penalty(d)
  BY <1>1, <1>2 DEF Cost
<1> QED BY <1>1, <1>3 DEF Penalty

Found(signal, severity) == [signal |-> signal, severity |-> severity] \in Diagnoses

LEMMA Detectors ==
         /\ \/ LaneStoppages = {} /\ Cost(LaneStoppages) = 0
            \/ \E s \in {"high", "medium"} : LaneStoppages = Diagnosis("lane_stoppage", s)
         /\ \/ IdleBehavior = {} /\ Cost(IdleBehavior) = 0
            \/ IdleBehavior = Diagnosis("idle_behavior", "medium")
         /\ \/ ValidationBottlenecks = {} /\ Cost(ValidationBottlenecks) = 0
            \/ ValidationBottlenecks = Diagnosis("validation_bottleneck", "high")
         /\ \/ HeartbeatStaleness = {} /\ Cost(HeartbeatStaleness) = 0
            \/ HeartbeatStaleness = Diagnosis("heartbeat_stale", "high")
         /\ \/ BudgetIssues = {} /\ Cost(BudgetIssues) = 0
            \/ \E s \in {"high", "critical"} : BudgetIssues = Diagnosis("budget_exceeded", s)
<1>1. Cost({}) = 0
  BY DEF Cost
<1>2. \/ LaneStoppages = {} /\ Cost(LaneStoppages) = 0
      \/ \E s \in {"high", "medium"} : LaneStoppages = Diagnosis("lane_stoppage", s)
  BY <1>1 DEF LaneStoppages
<1>3. \/ IdleBehavior = {} /\ Cost(IdleBehavior) = 0
      \/ IdleBehavior = Diagnosis("idle_behavior", "medium")
  BY <1>1 DEF IdleBehavior
<1>4. \/ ValidationBottlenecks = {} /\ Cost(ValidationBottlenecks) = 0
      \/ ValidationBottlenecks = Diagnosis("validation_bottleneck", "high")
  BY <1>1 DEF ValidationBottlenecks
<1>5. \/ HeartbeatStaleness = {} /\ Cost(HeartbeatStaleness) = 0
      \/ HeartbeatStaleness = Diagnosis("heartbeat_stale", "high")
  BY <1>1 DEF HeartbeatStaleness
<1>6. \/ BudgetIssues = {} /\ Cost(BudgetIssues) = 0
      \/ \E s \in {"high", "critical"} : BudgetIssues = Diagnosis("budget_exceeded", s)
  BY <1>1 DEF BudgetIssues
<1> QED BY <1>2, <1>3, <1>4, <1>5, <1>6

\* The costs, and the serious diagnoses they tell of.
LEMMA Costs ==
         /\ Cost(LaneStoppages) \in {0, 10, 25}
         /\ Cost(LaneStoppages) = 25 <=> Found("lane_stoppage", "high")
         /\ Cost(IdleBehavior) \in {0, 10}
         /\ Cost(ValidationBottlenecks) \in {0, 25}
         /\ Cost(ValidationBottlenecks) = 25 <=> Found("validation_bottleneck", "high")
         /\ Cost(HeartbeatStaleness) \in {0, 25}
         /\ Cost(HeartbeatStaleness) = 25 <=> Found("heartbeat_stale", "high")
         /\ Cost(BudgetIssues) \in {0, 25, 40}
         /\ Cost(BudgetIssues) = 25 <=> Found("budget_exceeded", "high")
         /\ Cost(BudgetIssues) = 40 <=> Found("budget_exceeded", "critical")
         /\ \A d \in Diagnoses : d.severity \in {"high", "critical"} =>
              \/ d = [signal |-> "lane_stoppage", severity |-> "high"]
              \/ d = [signal |-> "validation_bottleneck", severity |-> "high"]
              \/ d = [signal |-> "heartbeat_stale", severity |-> "high"]
              \/ d = [signal |-> "budget_exceeded", severity |-> "high"]
              \/ d = [signal |-> "budget_exceeded", severity |-> "critical"]
<1> DEFINE D(signal, severity) == [signal |-> signal, severity |-> severity]
<1>1. \A signal, severity :
         /\ Diagnosis(signal, severity) = {D(signal, severity)}
         /\ Cost(Diagnosis(signal, severity)) =
              IF severity = "critical" THEN 40 ELSE IF severity = "high" THEN 25 ELSE 10
  BY CostOf
<1>2. /\ \/ LaneStoppages = {} /\ Cost(LaneStoppages) = 0
         \/ LaneStoppages = {D("lane_stoppage", "high")} /\ Cost(LaneStoppages) = 25
         \/ LaneStoppages = {D("lane_stoppage", "medium")} /\ Cost(LaneStoppages) = 10
      /\ \/ IdleBehavior = {} /\ Cost(IdleBehavior) = 0
         \/ IdleBehavior = {D("idle_behavior", "medium")} /\ Cost(IdleBehavior) = 10
      /\ \/ ValidationBottlenecks = {} /\ Cost(ValidationBottlenecks) = 0
         \/ ValidationBottlenecks = {D("validation_bottleneck", "high")} /\ Cost(ValidationBottlenecks) = 25
      /\ \/ HeartbeatStaleness = {} /\ Cost(HeartbeatStaleness) = 0
         \/ HeartbeatStaleness = {D("heartbeat_stale", "high")} /\ Cost(HeartbeatStaleness) = 25
      /\ \/ BudgetIssues = {} /\ Cost(BudgetIssues) = 0
         \/ BudgetIssues = {D("budget_exceeded", "high")} /\ Cost(BudgetIssues) = 25
         \/ BudgetIssues = {D("budget_exceeded", "critical")} /\ Cost(BudgetIssues) = 40
  <2> HIDE DEF D
  <2> QED BY <1>1, Detectors
<1>3. \A d : d \in Diagnoses <=> d \in LaneStoppages \/ d \in IdleBehavior \/ d \in ValidationBottlenecks
                                  \/ d \in HeartbeatStaleness \/ d \in BudgetIssues
  BY DEF Diagnoses
<1>4. \A p, q, x, y : D(p, x) = D(q, y) <=> p = q /\ x = y
  <2>1. ASSUME NEW p, NEW q, NEW x, NEW y, D(p, x) = D(q, y) PROVE p = q /\ x = y
    <3>1. D(p, x).signal = p /\ D(q, y).signal = q /\ D(p, x).severity = x /\ D(q, y).severity = y
      OBVIOUS
    <3> QED BY <2>1, <3>1
  <2> QED BY <2>1
<1>5. \A p, x : D(p, x).severity = x
  OBVIOUS
<1>6. \A p, x : Found(p, x) <=> D(p, x) \in Diagnoses
  BY DEF Found
<1> HIDE DEF D
<1>7. /\ Cost(LaneStoppages) \in {0, 10, 25}
      /\ Cost(LaneStoppages) = 25 <=> Found("lane_stoppage", "high")
  BY <1>2, <1>3, <1>4, <1>6
<1>8. Cost(IdleBehavior) \in {0, 10}
  BY <1>2
<1>9. /\ Cost(ValidationBottlenecks) \in {0, 25}
      /\ Cost(ValidationBottlenecks) = 25 <=> Found("validation_bottleneck", "high")
  BY <1>2, <1>3, <1>4, <1>6
<1>10. /\ Cost(HeartbeatStaleness) \in {0, 25}
       /\ Cost(HeartbeatStaleness) = 25 <=> Found("heartbeat_stale", "high")
  BY <1>2, <1>3, <1>4, <1>6
<1>11. /\ Cost(BudgetIssues) \in {0, 25, 40}
       /\ Cost(BudgetIssues) = 25 <=> Found("budget_exceeded", "high")
  BY <1>2, <1>3, <1>4, <1>6
<1>12. Cost(BudgetIssues) = 40 <=> Found("budget_exceeded", "critical")
  BY <1>2, <1>3, <1>4, <1>6
<1>13. ASSUME NEW d \in Diagnoses, d.severity \in {"high", "critical"}
       PROVE  \/ d = D("lane_stoppage", "high") \/ d = D("validation_bottleneck", "high")
              \/ d = D("heartbeat_stale", "high") \/ d = D("budget_exceeded", "high")
              \/ d = D("budget_exceeded", "critical")
  BY <1>2, <1>3, <1>5, <1>13
<1> QED BY <1>7, <1>8, <1>9, <1>10, <1>11, <1>12, <1>13 DEF D

Serious == {d \in Diagnoses : d.severity \in {"high", "critical"}}
Remedy(d) == [signal |-> d.signal, lane |-> IF d.severity = "critical" THEN "L0" ELSE "L1"]

\* What is delegated for what has been found.
LEMMA Delegated ==
  /\ IsFiniteSet(Remediations)
  /\ \A d \in Serious : Remedy(d) \in Remediations
  /\ Remediations = {} <=> Serious = {}
<1>1. Remediations = {Remedy(d) : d \in Serious}
  BY DEF Remediations, Remedy, Serious
<1>2. IsFiniteSet(Serious)
  <2>1. Serious \subseteq {[signal |-> "lane_stoppage", severity |-> "high"]}
                 \union {[signal |-> "validation_bottleneck", severity |-> "high"]}
                 \union {[signal |-> "heartbeat_stale", severity |-> "high"]}
                 \union {[signal |-> "budget_exceeded", severity |-> "high"]}
                 \union {[signal |-> "budget_exceeded", severity |-> "critical"]}
    BY Costs DEF Serious
  <2>2. \A d : IsFiniteSet({d})
    BY FS_Singleton
  <2> QED BY <2>1, <2>2, FS_Union, FS_Subset
<1> DEFINE f == [d \in Serious |-> Remedy(d)]
<1>3. IsFiniteSet(Remediations)
  <2>1. f \in Surjection(Serious, Remediations)
    BY <1>1, Fun_IsSurj
  <2> QED BY <1>2, <2>1, FS_Surjection
<1>4. \A d \in Serious : Remedy(d) \in Remediations
  BY <1>1
<1>5. Remediations = {} <=> Serious = {}
  BY <1>1
<1> QED BY <1>3, <1>4, <1>5

\* The penalties and the severities tell the same.
LEMMA GradeTells ==
  /\ Grade(MonitorScore) = "healthy" <=> Remediations = {}
  /\ Grade(MonitorScore) = "critical" =>
       Cardinality(Remediations) >= 2 \/ \E r \in Remediations : r.lane = "L0"
<1> DEFINE D(signal, severity) == [signal |-> signal, severity |-> severity]
           stopped == Cost(LaneStoppages)
           still == Cost(IdleBehavior)
           failing == Cost(ValidationBottlenecks)
           silent == Cost(HeartbeatStaleness)
           spent == Cost(BudgetIssues)
<1>1. /\ stopped \in {0, 10, 25} /\ still \in {0, 10} /\ failing \in {0, 25} /\ silent \in {0, 25}
      /\ spent \in {0, 25, 40}
  BY Costs
<1>2. /\ stopped = 25 <=> D("lane_stoppage", "high") \in Serious
      /\ failing = 25 <=> D("validation_bottleneck", "high") \in Serious
      /\ silent = 25 <=> D("heartbeat_stale", "high") \in Serious
      /\ spent = 25 <=> D("budget_exceeded", "high") \in Serious
      /\ spent = 40 <=> D("budget_exceeded", "critical") \in Serious
  <2>1. \A p, x : x \in {"high", "critical"} => (D(p, x) \in Serious <=> Found(p, x))
    BY DEF Serious, Found
  <2> HIDE DEF D
  <2> QED BY <2>1, Costs
<1>3. \A d \in Serious : \/ d = D("lane_stoppage", "high") \/ d = D("validation_bottleneck", "high")
                         \/ d = D("heartbeat_stale", "high") \/ d = D("budget_exceeded", "high")
                         \/ d = D("budget_exceeded", "critical")
  BY Costs DEF Serious
<1>4. MonitorScore = LET score == 100 - stopped - still - failing - silent - spent
                     IN  IF score > 0 THEN score ELSE 0
  BY DEF MonitorScore
<1> HIDE DEF stopped, still, failing, silent, spent
<1>5. Grade(MonitorScore) = "healthy" <=> stopped # 25 /\ failing = 0 /\ silent = 0 /\ spent = 0
  BY <1>1, <1>4 DEF Grade
<1>6. Grade(MonitorScore) = "healthy" <=> Remediations = {}
  <2>1. Serious = {} <=> stopped # 25 /\ failing = 0 /\ silent = 0 /\ spent = 0
    <3> HIDE DEF D
    <3> QED BY <1>1, <1>2, <1>3
  <2> QED BY <1>5, <2>1, Delegated
<1>7. ASSUME Grade(MonitorScore) = "critical"
      PROVE  Cardinality(Remediations) >= 2 \/ \E r \in Remediations : r.lane = "L0"
  <2>1. stopped + still + failing + silent + spent > 50
    BY <1>1, <1>4, <1>7 DEF Grade
  <2>2. CASE spent = 40
    <3>1. Remedy(D("budget_exceeded", "critical")).lane = "L0"
      BY DEF Remedy
    <3> QED BY <1>2, <2>2, <3>1, Delegated
  <2>3. CASE spent # 40
    <3> DEFINE R(signal) == Remedy(D(signal, "high"))
    <3>1. /\ stopped = 25 => R("lane_stoppage") \in Remediations
          /\ failing = 25 => R("validation_bottleneck") \in Remediations
          /\ silent = 25 => R("heartbeat_stale") \in Remediations
          /\ spent = 25 => R("budget_exceeded") \in Remediations
      BY <1>2, Delegated
    <3>2. \A p : R(p).signal = p
      BY DEF Remedy
    <3> HIDE DEF R
    <3>3. \A p, q : p # q => R(p) # R(q)
      BY <3>2
    <3>4. \E p, q : R(p) \in Remediations /\ R(q) \in Remediations /\ p # q
      <4>1. \/ stopped = 25 /\ failing = 25
            \/ stopped = 25 /\ silent = 25
            \/ stopped = 25 /\ spent = 25
            \/ failing = 25 /\ silent = 25
            \/ failing = 25 /\ spent = 25
            \/ silent = 25 /\ spent = 25
        BY <1>1, <2>1, <2>3
      <4> QED BY <3>1, <4>1
    <3> QED BY <3>3, <3>4, Delegated, TwoMembers
  <2> QED BY <2>2, <2>3
<1> QED BY <1>6, <1>7

LEMMA MonitorTyped == MonitorTypeOK /\ [MonitorNext]_monitorVars => MonitorTypeOK'
<1> SUFFICES ASSUME MonitorTypeOK, [MonitorNext]_monitorVars PROVE MonitorTypeOK'
  OBVIOUS
<1> USE MonitorAssumption DEF MonitorTypeOK
<1>1. ASSUME NEW t \in Lanes, Update(t) PROVE MonitorTypeOK'
  <2>1. PICK m \in Moves : state[t] = m[1] /\ state' = [state EXCEPT ![t] = m[2]]
    BY <1>1 DEF Update
  <2>2. m[2] \in {"pending", "in_progress", "done", "blocked"}
    BY DEF Moves
  <2> QED BY <1>1, <2>1, <2>2 DEF Update
<1>2. ASSUME NEW t \in Lanes, GoIdle(t) \/ Tire(t) PROVE MonitorTypeOK'
  BY <1>2 DEF GoIdle, Tire
<1>3. ASSUME NEW h \in {"missing", "stale", "fresh"}, Pulse(h) PROVE MonitorTypeOK'
  BY <1>3 DEF Pulse
<1>4. CASE Pay
  <2>1. spending' \in {s \in Spendings : s > spending}
    <3>1. {s \in Spendings : s > spending} # {} /\ {s \in Spendings : s > spending} \subseteq Nat
      BY <1>4 DEF Pay
    <3> QED BY <1>4, <3>1, MinOfNat DEF Pay
  <2> QED BY <1>4, <2>1 DEF Pay
<1>5. CASE MonitorCheck
  <2>1. last'.grade \in {"healthy", "degraded", "critical"}
    BY <1>5 DEF MonitorCheck, Grade
  <2> QED BY <1>5, <2>1 DEF MonitorCheck, inputs
<1>6. CASE UNCHANGED monitorVars
  BY <1>6 DEF monitorVars
<1> QED BY <1>1, <1>2, <1>3, <1>4, <1>5, <1>6 DEF MonitorNext

\* The grade and the remediation tasks never contradict each other, whatever is found
\* together.
THEOREM GradeMatchesRemediesHolds == MonitorSpec => []GradeMatchesRemedies
<1>1. MonitorInit => GradeMatchesRemedies
  BY MonitorAssumption DEF MonitorInit, GradeMatchesRemedies, MonitorTypeOK, Nothing
<1>2. GradeMatchesRemedies /\ [MonitorNext]_monitorVars => GradeMatchesRemedies'
  <2> SUFFICES ASSUME GradeMatchesRemedies, [MonitorNext]_monitorVars PROVE GradeMatchesRemedies'
    OBVIOUS
  <2>1. MonitorTypeOK'
    BY MonitorTyped DEF GradeMatchesRemedies
  <2>2. CASE last' = last
    BY <2>1, <2>2 DEF GradeMatchesRemedies
  <2>3. CASE MonitorCheck
    <3>1. last'.grade = Grade(MonitorScore) /\ last'.remedies = Remediations
      BY <2>3 DEF MonitorCheck
    <3> QED BY <2>1, <3>1, GradeTells DEF GradeMatchesRemedies
  <2> QED BY <2>2, <2>3 DEF MonitorNext, monitorVars, Update, GoIdle, Tire, Pulse, Pay
<1> QED BY <1>1, <1>2, PTL DEF MonitorSpec

----------------------------------------------------------------------------
(* The health gate: what rounding keeps.                                    *)

LEMMA Quotient ==
  ASSUME NEW a \in Nat, NEW d \in Nat \ {0}
  PROVE  a \div d \in Nat /\ d * (a \div d) <= a /\ a < d * (a \div d) + d
<1>1. d * (a \div d) <= a /\ a < d * (a \div d) + d
  OBVIOUS
<1>2. a \div d \in Nat
  OBVIOUS
<1> QED BY <1>1, <1>2

LEMMA TimesMore ==
  ASSUME NEW a \in Nat, NEW b \in Nat, NEW d \in Nat, a <= b
  PROVE  d * a <= d * b
OBVIOUS

LEMMA TimesLess ==
  ASSUME NEW a \in Int, NEW b \in Int, NEW d \in Nat \ {0}, d * a < d * b
  PROVE  a < b
<1> SUFFICES ASSUME b <= a PROVE d * b <= d * a
  OBVIOUS
<1>1. (a - b) * d >= 0
  OBVIOUS
<1> QED BY <1>1

\* A rounded quotient of k or more comes from no less than half below k.
LEMMA RoundIs ==
  ASSUME NEW a \in Nat, NEW b \in Nat \ {0}
  PROVE  /\ Round(a, b) \in Nat
         /\ 2 * (b * Round(a, b)) <= 2 * a + b
         /\ 2 * a < 2 * (b * Round(a, b)) + b
<1>1. 2 * a + b \in Nat /\ 2 * b \in Nat \ {0}
  OBVIOUS
<1>2. /\ Round(a, b) \in Nat /\ (2 * b) * Round(a, b) <= 2 * a + b
      /\ 2 * a + b < (2 * b) * Round(a, b) + 2 * b
  BY <1>1, Quotient DEF Round
<1>3. (2 * b) * Round(a, b) = 2 * (b * Round(a, b)) /\ b * Round(a, b) \in Nat
  BY <1>2
<1> QED BY <1>2, <1>3

LEMMA RoundAtLeast ==
  ASSUME NEW a \in Nat, NEW b \in Nat \ {0}, NEW k \in Nat, Round(a, b) >= k
  PROVE  2 * (b * k) <= 2 * a + b
<1>1. Round(a, b) \in Nat /\ 2 * (b * Round(a, b)) <= 2 * a + b
  BY RoundIs
<1>2. b * k <= b * Round(a, b) /\ b * k \in Nat /\ b * Round(a, b) \in Nat
  BY <1>1, TimesMore
<1> QED BY <1>1, <1>2

\* Rounding keeps the order, of quotients with a common divisor too.
LEMMA RoundOrder ==
  ASSUME NEW a \in Nat, NEW b \in Nat \ {0}, NEW c \in Nat, NEW r \in Nat \ {0}, a <= r * c
  PROVE  Round(a, b * r) <= Round(c, b)
<1> DEFINE p == Round(a, b * r)
           q == Round(c, b)
<1>1. b * r \in Nat \ {0}
  OBVIOUS
<1>2. p \in Nat /\ 2 * ((b * r) * p) <= 2 * a + b * r
  BY <1>1, RoundIs
<1>3. q \in Nat /\ 2 * c < 2 * (b * q) + b
  BY RoundIs
<1> HIDE DEF p, q
<1>4. r * (2 * (b * p)) <= r * (2 * c + b)
  <2>1. 2 * ((b * r) * p) = r * (2 * (b * p)) /\ b * r = r * b
    BY <1>2
  <2>2. r * (2 * c + b) = 2 * (r * c) + r * b
    OBVIOUS
  <2> QED BY <1>2, <2>1, <2>2
<1>5. 2 * (b * p) <= 2 * c + b
  <2>1. CASE 2 * c + b < 2 * (b * p)
    <3>1. 2 * c + b + 1 <= 2 * (b * p) /\ 2 * c + b + 1 \in Nat /\ 2 * (b * p) \in Nat
      BY <1>2, <2>1
    <3>2. r * (2 * c + b + 1) <= r * (2 * (b * p))
      BY <3>1, TimesMore
    <3>3. r * (2 * c + b + 1) = r * (2 * c + b) + r
      OBVIOUS
    <3>4. r * (2 * c + b) \in Nat
      OBVIOUS
    <3> QED BY <1>4, <3>1, <3>2, <3>3, <3>4
  <2> QED BY <1>2, <2>1
<1>6. b * p < b * (q + 1)
  <2>1. b * (q + 1) = b * q + b /\ b * p \in Nat /\ b * q \in Nat
    BY <1>2, <1>3
  <2> QED BY <1>3, <1>5, <2>1
<1>7. p < q + 1
  BY <1>2, <1>3, <1>6, TimesLess
<1> QED BY <1>2, <1>3, <1>7 DEF p, q

LEMMA RoundMonotone ==
  ASSUME NEW a \in Nat, NEW c \in Nat, NEW b \in Nat \ {0}, a <= c
  PROVE  Round(a, b) <= Round(c, b)
<1>1. Round(a, b * 1) <= Round(c, b)
  <2>1. a <= 1 * c
    OBVIOUS
  <2> QED BY <2>1, RoundOrder
<1>2. b * 1 = b
  OBVIOUS
<1> QED BY <1>1, <1>2

LEMMA RoundAtMost ==
  ASSUME NEW a \in Nat, NEW b \in Nat \ {0}, NEW k \in Nat, a <= b * k
  PROVE  Round(a, b) \in Nat /\ Round(a, b) <= k
<1>1. Round(a, b) \in Nat /\ 2 * (b * Round(a, b)) <= 2 * a + b
  BY RoundIs
<1>2. b * k \in Nat /\ b * Round(a, b) \in Nat
  BY <1>1
<1>3. b * Round(a, b) < b * (k + 1)
  <2>1. b * (k + 1) = b * k + b
    OBVIOUS
  <2> QED BY <1>1, <1>2, <2>1
<1>4. Round(a, b) < k + 1
  BY <1>1, <1>3, TimesLess
<1> QED BY <1>1, <1>4

\* Types of the counts and scores.
LEMMA Counted ==
  ASSUME HealthTypeOK
  PROVE  /\ Cardinality(Providers) \in Nat /\ (Providers # {} => Cardinality(Providers) \in Nat \ {0})
         /\ Cardinality(Required) \in Nat
         /\ Required # {} => Cardinality(Required) \in Nat \ {0}
         /\ Cardinality(Todo) \in Nat \ {0}
         /\ Cardinality(reached) \in Nat /\ Cardinality(reached) <= Cardinality(Providers)
         /\ IsFiniteSet(Required) /\ IsFiniteSet(reached) /\ IsFiniteSet(Required \ reached)
         /\ RequiredDown \in Nat /\ (RequiredDown = 0 => Required \subseteq reached)
         /\ Cardinality(Required \intersect reached) \in Nat
         /\ Cardinality(Required \intersect reached) <= Cardinality(Required)
         /\ \A s : HowMany(s) \in Nat /\ IsFiniteSet({t \in Todo : status[t] = s})
<1> USE HealthAssumption
<1>1. /\ IsFiniteSet(Required) /\ IsFiniteSet(reached) /\ IsFiniteSet(Required \ reached)
      /\ IsFiniteSet(Required \intersect reached)
      /\ Cardinality(reached) <= Cardinality(Providers)
      /\ Cardinality(Required \intersect reached) <= Cardinality(Required)
  <2>1. reached \subseteq Providers /\ Required \subseteq Providers
        /\ Required \ reached \subseteq Required /\ Required \intersect reached \subseteq Required
    BY DEF HealthTypeOK
  <2> QED BY <2>1, FS_Subset
<1>2. /\ Cardinality(Providers) \in Nat /\ Cardinality(Required) \in Nat /\ Cardinality(Todo) \in Nat
      /\ Cardinality(reached) \in Nat /\ Cardinality(Required \ reached) \in Nat
      /\ Cardinality(Required \intersect reached) \in Nat
  BY <1>1, FS_CardinalityType
<1>3. (Providers # {} => Cardinality(Providers) # 0) /\ Cardinality(Todo) # 0
  BY FS_EmptySet
<1>4. Required # {} => Cardinality(Required) # 0
  BY <1>1, FS_EmptySet
<1>5. Cardinality(Required \ reached) = 0 => Required \subseteq reached
  <2>1. Cardinality(Required \ reached) = 0 => Required \ reached = {}
    BY <1>1, FS_EmptySet
  <2> QED BY <2>1
<1>6. ASSUME NEW s PROVE HowMany(s) \in Nat /\ IsFiniteSet({t \in Todo : status[t] = s})
  <2>1. IsFiniteSet({t \in Todo : status[t] = s})
    BY FS_Subset
  <2> QED BY <2>1, FS_CardinalityType DEF HowMany
<1> QED BY <1>1, <1>2, <1>3, <1>4, <1>5, <1>6 DEF RequiredDown

LEMMA BudgetCounted ==
  ASSUME HealthTypeOK
  PROVE  /\ \A level \in Nat : Above(level) \in Nat
         /\ Above(9) <= Above(7)
         /\ Above(7) = 0 /\ "budget" \in supplied => \A m \in Scored : used[m] <= 7
         /\ ScoreBudget \in Nat /\ ScoreBudget <= 10000 /\ (ScoreBudget > 9000 => Above(7) = 0)
<1> USE HealthAssumption
<1> DEFINE Over(level) == {m \in Scored : "budget" \in supplied /\ used[m] > level}
<1>1. \A m \in Scored : used[m] \in Nat
  BY DEF HealthTypeOK
<1>2. \A level : IsFiniteSet(Over(level))
  <2>1. IsFiniteSet(Scored)
    BY FS_Subset
  <2> QED BY <2>1, FS_Subset
<1>3. \A level : Above(level) = Cardinality(Over(level)) /\ Above(level) \in Nat
  BY <1>2, FS_CardinalityType DEF Above
<1>4. Above(9) <= Above(7)
  <2>1. Over(9) \subseteq Over(7)
    BY <1>1
  <2> QED BY <1>2, <1>3, <2>1, FS_Subset
<1>5. Above(7) = 0 /\ "budget" \in supplied => \A m \in Scored : used[m] <= 7
  <2>1. Above(7) = 0 => Over(7) = {}
    BY <1>2, <1>3, FS_EmptySet
  <2> QED BY <1>1, <2>1
<1>6. ScoreBudget \in Nat /\ ScoreBudget <= 10000
  <2>1. Above(7) \in Nat /\ Above(9) \in Nat
    BY <1>3
  <2>2. \/ ScoreBudget = 0
        \/ ScoreBudget = 10000 - 3000 * Above(9) - 1000 * (Above(7) - Above(9)) /\ ScoreBudget > 0
    BY DEF ScoreBudget, Positive
  <2> QED BY <1>4, <2>1, <2>2
<1>7. ScoreBudget > 9000 => Above(7) = 0
  <2>1. Above(7) \in Nat /\ Above(9) \in Nat
    BY <1>3
  <2> QED BY <1>4, <2>1 DEF ScoreBudget, Positive
<1> QED BY <1>3, <1>4, <1>5, <1>6, <1>7

\* A closed list of what is missing.
LEMMA MissingIs ==
  ASSUME HealthTypeOK
  PROVE  /\ Missing \in Nat
         /\ Missing > 0 => Required # {} /\ report # "none"
         /\ Missing = 0 /\ report # "none" => Required \subseteq reached
<1>1. /\ Cardinality(Required) \in Nat /\ RequiredDown \in Nat
      /\ Cardinality(Required \intersect reached) \in Nat
      /\ Cardinality(Required \intersect reached) <= Cardinality(Required)
      /\ (RequiredDown = 0 => Required \subseteq reached)
  BY Counted
<1>2. RequiredUp \in Int /\ (RequiredUp >= Cardinality(Required) => RequiredDown = 0)
  BY <1>1 DEF RequiredUp
<1>3. Missing \in Nat
  BY <1>1, <1>2 DEF Missing, Positive
<1>4. Missing = 0 /\ report # "none" => Required \subseteq reached
  BY <1>1, <1>2 DEF Missing, Positive
<1>5. Missing > 0 => Required # {} /\ report # "none"
  <2>1. Missing > 0 => report # "none"
    BY DEF Missing
  <2>2. ASSUME Required = {} PROVE ~(Missing > 0)
    <3>1. /\ Required \ reached = {} /\ Required \intersect reached = {}
          /\ Cardinality(Required) = 0
      BY <2>2, FS_EmptySet
    <3>2. RequiredUp = 0
      BY <2>2, <3>1, FS_EmptySet DEF RequiredUp, RequiredDown
    <3> QED BY <3>1, <3>2 DEF Missing, Positive
  <2> QED BY <2>1, <2>2
<1> QED BY <1>3, <1>4, <1>5

\* The numerators of the scores.
Share(r) == Positive(Cardinality(reached) * 10000 * r - Missing * 5000 * Cardinality(Providers))
Advance == Positive(HowMany("done") * 10000 - HowMany("blocked") * 3000)
Freshness == Positive(Threshold - (hbAge - Threshold)) * 10000

LEMMA Scores ==
  ASSUME HealthTypeOK
  PROVE  /\ ScoreProviders \in Nat /\ ScoreProviders <= 10000 /\ (Unseen => ScoreProviders = 5000)
         /\ ScoreTasks \in Nat /\ ScoreHeartbeat \in Nat /\ ScoreHeartbeat <= 10000
         /\ Advance \in Nat /\ Advance <= HowMany("done") * 10000
         /\ Freshness \in Nat
<1> USE HealthAssumption
<1> DEFINE n == Cardinality(Providers)
           r == IF Missing > 0 THEN Cardinality(Required) ELSE 1
<1>1. /\ n \in Nat /\ (Providers # {} => n \in Nat \ {0}) /\ Cardinality(reached) \in Nat /\ Cardinality(reached) <= n
      /\ Required # {} => Cardinality(Required) \in Nat \ {0}
      /\ \A s : HowMany(s) \in Nat
      /\ Cardinality(Todo) \in Nat \ {0}
  BY Counted
<1>2. r \in Nat \ {0} /\ Missing \in Nat
  BY <1>1, MissingIs
<1>3. hbAge \in Int /\ Threshold \in Nat \ {0}
  BY DEF HealthTypeOK
<1>4. Advance \in Nat /\ Advance <= HowMany("done") * 10000
  BY <1>1 DEF Advance, Positive
<1>5. Freshness \in Nat /\ (hbAge > Threshold => Freshness <= Threshold * 10000)
  BY <1>3 DEF Freshness, Positive
<1>6. ScoreTasks \in Nat
  <2>0. Advance \in Nat /\ Cardinality(Todo) \in Nat \ {0}
    BY <1>1, <1>4
  <2>1. Round(Advance, Cardinality(Todo)) \in Nat
    BY <2>0, RoundIs
  <2>2. ScoreTasks = 10000 \/ ScoreTasks = Round(Advance, Cardinality(Todo))
    BY DEF ScoreTasks, Advance
  <2> QED BY <2>1, <2>2
<1>7. ScoreHeartbeat \in Nat /\ ScoreHeartbeat <= 10000
  <2>1. CASE hbAge > Threshold
    <3>1. Freshness <= Threshold * 10000 /\ 10000 \in Nat /\ Threshold \in Nat \ {0} /\ Freshness \in Nat
      BY <1>3, <1>5, <2>1
    <3>2. Round(Freshness, Threshold) \in Nat /\ Round(Freshness, Threshold) <= 10000
      BY <3>1, RoundAtMost
    <3>3. ~(hbAge < 0) /\ ~(hbAge <= Threshold)
      BY <1>3, <2>1
    <3>4. ScoreHeartbeat = Round(Freshness, Threshold)
      BY <3>3 DEF ScoreHeartbeat, Freshness
    <3> QED BY <3>2, <3>4
  <2>2. CASE ~(hbAge > Threshold)
    <3>1. hbAge <= Threshold
      BY <1>3, <2>2
    <3>2. ScoreHeartbeat = 5000 \/ ScoreHeartbeat = 10000
      BY <3>1 DEF ScoreHeartbeat
    <3> QED BY <3>2
  <2> QED BY <2>1, <2>2
<1>8. Unseen => ScoreProviders = 5000
  BY DEF ScoreProviders
<1>9. ~Unseen => ScoreProviders = Round(Share(r), n * r)
  BY DEF ScoreProviders, Share
<1> HIDE DEF n, r
<1>10. ASSUME ~Unseen PROVE Share(r) \in Nat /\ Share(r) <= (n * r) * 10000 /\ n * r \in Nat \ {0}
  <2>0. n \in Nat \ {0}
    BY <1>1, <1>10 DEF Unseen
  <2>1. n * r \in Nat \ {0} /\ Missing * 5000 * n \in Nat /\ Cardinality(reached) * 10000 * r \in Nat
    BY <1>1, <1>2, <2>0
  <2>2. r * Cardinality(reached) <= r * n
    BY <1>1, <1>2, TimesMore
  <2>3. Cardinality(reached) * 10000 * r = (r * Cardinality(reached)) * 10000 /\ r * n = n * r
    BY <1>1, <1>2
  <2>4. Cardinality(reached) * 10000 * r <= (n * r) * 10000
    BY <1>1, <1>2, <2>2, <2>3
  <2> QED BY <2>1, <2>4 DEF Share, Positive, n
<1>11. ASSUME ~Unseen PROVE Round(Share(r), n * r) \in Nat /\ Round(Share(r), n * r) <= 10000
  <2>1. 10000 \in Nat
    OBVIOUS
  <2> QED BY <1>10, <1>11, <2>1, RoundAtMost
<1> QED BY <1>4, <1>5, <1>6, <1>7, <1>8, <1>9, <1>11

\* What the parts of a passed score are at least.
LEMMA PassedParts ==
  ASSUME HealthTypeOK, Passed
  PROVE  /\ "state" \notin supplied \/ ScoreTasks >= 4999
         /\ ScoreHeartbeat >= 2498
         /\ Unseen => /\ ScoreTasks >= 9999 \/ "state" \notin supplied
                      /\ ScoreBudget >= 9998 /\ ScoreHeartbeat >= 9998
<1> DEFINE sum == 30 * ScoreProviders + 30 * ScoreTasks + 20 * ScoreBudget + 20 * ScoreHeartbeat
<1>1. /\ ScoreProviders \in Nat /\ ScoreProviders <= 10000 /\ (Unseen => ScoreProviders = 5000)
      /\ ScoreTasks \in Nat /\ ScoreBudget \in Nat /\ ScoreBudget <= 10000 /\ ScoreHeartbeat \in Nat /\ ScoreHeartbeat <= 10000
  BY Scores, BudgetCounted
<1>2. sum \in Nat
  BY <1>1
<1>3. 2 * (100 * 8500) <= 2 * sum + 100
  <2>1. Round(sum, 100) >= 8500
    BY DEF Passed, Score, MinScore
  <2>2. 100 \in Nat \ {0} /\ 8500 \in Nat
    OBVIOUS
  <2> HIDE DEF sum
  <2> QED BY <1>2, <2>1, <2>2, RoundAtLeast
<1>4. ScoreTasks <= 10000
  <2>1. CASE "state" \in supplied
    <3>1. Cardinality(Todo) \in Nat \ {0} /\ HowMany("done") \in Nat
      BY Counted
    <3>2. HowMany("done") <= Cardinality(Todo)
      BY HealthAssumption, FS_Subset DEF HowMany
    <3>3. Advance \in Nat /\ Advance <= HowMany("done") * 10000
      BY Scores
    <3>4. Advance <= Cardinality(Todo) * 10000 /\ 10000 \in Nat
      BY <3>1, <3>2, <3>3
    <3>5. Round(Advance, Cardinality(Todo)) \in Nat /\ Round(Advance, Cardinality(Todo)) <= 10000
      BY <3>1, <3>3, <3>4, RoundAtMost
    <3>6. ScoreTasks = 10000 \/ ScoreTasks = Round(Advance, Cardinality(Todo))
      BY DEF ScoreTasks, Advance
    <3> QED BY <3>5, <3>6
  <2>2. CASE "state" \notin supplied
    BY <2>2 DEF ScoreTasks
  <2> QED BY <2>1, <2>2
<1>5. 30 * ScoreProviders + 30 * ScoreTasks + 20 * ScoreBudget + 20 * ScoreHeartbeat >= 849950
  BY <1>2, <1>3
<1> HIDE DEF sum
<1>6. "state" \notin supplied \/ ScoreTasks >= 4999
  BY <1>1, <1>4, <1>5
<1>7. ScoreHeartbeat >= 2498
  BY <1>1, <1>4, <1>5
<1>8. Unseen => ScoreTasks >= 9999
  BY <1>1, <1>4, <1>5
<1>9. Unseen => ScoreBudget >= 9998
  BY <1>1, <1>4, <1>5
<1>10. Unseen => ScoreHeartbeat >= 9998
  BY <1>1, <1>4, <1>5
<1> QED BY <1>6, <1>7, <1>8, <1>9, <1>10

LEMMA PassMeans == HealthTypeOK => GatePassMeans
<1> SUFFICES ASSUME HealthTypeOK, Passed
             PROVE  /\ report # "none" => Required \subseteq reached
                    /\ "state" \in supplied => 20000 * HowMany("done") >= 9997 * Cardinality(Todo)
                    /\ "budget" \in supplied => \A m \in Meters : used[m] <= 10
                    /\ 20000 * hbAge <= 35005 * Threshold
                    /\ Unseen =>
                         /\ "state" \in supplied => 20000 * HowMany("done") >= 19997 * Cardinality(Todo)
                         /\ "budget" \in supplied => \A m \in Scored : used[m] <= 7
                         /\ hbAge >= 0 /\ 20000 * hbAge <= 20005 * Threshold
  BY DEF GatePassMeans
<1> DEFINE all == Cardinality(Todo)
           done == HowMany("done")
<1>1. report # "none" => Required \subseteq reached
  BY MissingIs DEF Passed
<1>2. "budget" \in supplied => \A m \in Meters : used[m] <= 10
  <2>1. \A m \in Meters : used[m] \in Nat
    BY HealthAssumption DEF HealthTypeOK
  <2> QED BY <2>1 DEF Passed, Violations
<1>3. /\ all \in Nat \ {0} /\ done \in Nat /\ Advance \in Nat /\ Advance <= done * 10000
      /\ Freshness \in Nat /\ hbAge \in Int /\ Threshold \in Nat \ {0}
  <2>1. all \in Nat \ {0} /\ done \in Nat
    BY Counted
  <2>2. Advance \in Nat /\ Advance <= done * 10000 /\ Freshness \in Nat
    BY Scores
  <2>3. hbAge \in Int /\ Threshold \in Nat \ {0}
    BY HealthAssumption DEF HealthTypeOK
  <2> QED BY <2>1, <2>2, <2>3
<1>4. /\ "state" \notin supplied \/ ScoreTasks >= 4999
      /\ ScoreHeartbeat >= 2498
      /\ Unseen => /\ ScoreTasks >= 9999 \/ "state" \notin supplied
                   /\ ScoreBudget >= 9998 /\ ScoreHeartbeat >= 9998
  BY PassedParts
<1>5. "state" \in supplied => ScoreTasks = Round(Advance, all)
  BY DEF ScoreTasks, Advance
<1>6. hbAge >= 0 /\ hbAge > Threshold => ScoreHeartbeat = Round(Freshness, Threshold)
  BY <1>3 DEF ScoreHeartbeat, Freshness
<1> HIDE DEF all, done
<1>7. "state" \in supplied => 20000 * done >= 9997 * all
  <2> SUFFICES ASSUME "state" \in supplied PROVE 20000 * done >= 9997 * all
    OBVIOUS
  <2>1. 2 * (all * 4999) <= 2 * Advance + all
    BY <1>3, <1>4, <1>5, RoundAtLeast
  <2> QED BY <1>3, <2>1
<1>8. "state" \in supplied /\ Unseen => 20000 * done >= 19997 * all
  <2> SUFFICES ASSUME "state" \in supplied, Unseen PROVE 20000 * done >= 19997 * all
    OBVIOUS
  <2>1. 2 * (all * 9999) <= 2 * Advance + all
    BY <1>3, <1>4, <1>5, RoundAtLeast
  <2> QED BY <1>3, <2>1
<1>9. 20000 * hbAge <= 35005 * Threshold
  <2>1. CASE hbAge > Threshold
    <3>1. 2 * (Threshold * 2498) <= 2 * Freshness + Threshold
      BY <1>3, <1>4, <1>6, <2>1, RoundAtLeast
    <3> QED BY <1>3, <3>1 DEF Freshness, Positive
  <2>2. CASE ~(hbAge > Threshold)
    BY <1>3, <2>2
  <2> QED BY <2>1, <2>2
<1>10. Unseen => hbAge >= 0 /\ 20000 * hbAge <= 20005 * Threshold
  <2> SUFFICES ASSUME Unseen PROVE hbAge >= 0 /\ 20000 * hbAge <= 20005 * Threshold
    OBVIOUS
  <2>1. hbAge >= 0
    BY <1>3, <1>4 DEF ScoreHeartbeat
  <2>2. CASE hbAge > Threshold
    <3>1. 2 * (Threshold * 9998) <= 2 * Freshness + Threshold
      BY <1>3, <1>4, <1>6, <2>1, <2>2, RoundAtLeast
    <3> QED BY <1>3, <2>1, <3>1 DEF Freshness, Positive
  <2>3. CASE ~(hbAge > Threshold)
    BY <1>3, <2>1, <2>3
  <2> QED BY <2>2, <2>3
<1>11. Unseen /\ "budget" \in supplied => \A m \in Scored : used[m] <= 7
  <2>1. ScoreBudget >= 9998 => ScoreBudget > 9000
    BY BudgetCounted
  <2> QED BY <1>4, <2>1, BudgetCounted
<1> QED BY <1>1, <1>2, <1>7, <1>8, <1>9, <1>10, <1>11 DEF all, done

LEMMA HealthTyped == HealthTypeOK /\ [HealthNext]_healthVars => HealthTypeOK'
<1> SUFFICES ASSUME HealthTypeOK, [HealthNext]_healthVars PROVE HealthTypeOK'
  OBVIOUS
<1> USE HealthAssumption DEF HealthTypeOK
<1>1. ASSUME NEW tool \in {"providers", "router"}, Report(tool) PROVE HealthTypeOK'
  BY <1>1 DEF Report
<1>2. CASE LoseReport
  BY <1>2 DEF LoseReport
<1>3. ASSUME NEW t \in Todo, Work(t) PROVE HealthTypeOK'
  <2>1. PICK s \in Steps : status[t] = s[1] /\ status' = [status EXCEPT ![t] = s[2]]
    BY <1>3 DEF Work
  <2>2. s[2] \in {"pending", "in_progress", "done", "blocked"}
    BY DEF Steps
  <2> QED BY <1>3, <2>1, <2>2 DEF Work
<1>4. CASE Beat
  <2>1. hbAge' \in -1..MaxAge
    BY <1>4 DEF Beat
  <2> QED BY <1>4, <2>1 DEF Beat
<1>10. CASE Silent
  <2>1. hbAge' \in -1..MaxAge
    BY <1>10 DEF Silent
  <2> QED BY <1>10, <2>1 DEF Silent
<1>9. CASE LoseBeat
  <2>1. hbAge' \in -1..MaxAge
    BY <1>9 DEF LoseBeat
  <2> QED BY <1>9, <2>1 DEF LoseBeat
<1>5. ASSUME NEW m \in Meters, Spend(m) PROVE HealthTypeOK'
  <2> DEFINE More == {k \in Levels : k > used[m]}
  <2>1. used' = [used EXCEPT ![m] = Min(More)] /\ More # {} /\ More \subseteq Nat
    BY <1>5 DEF Spend
  <2>2. Min(More) \in Levels
    <3>1. Min(More) \in More
      BY <2>1, MinOfNat
    <3> QED BY <3>1
  <2> HIDE DEF More
  <2> QED BY <1>5, <2>1, <2>2 DEF Spend
<1>6. CASE Fresh
  <2>1. Min(Levels) \in Levels
    BY MinOfNat
  <2> QED BY <1>6, <2>1 DEF Fresh
<1>7. ASSUME NEW what \in SUBSET {"state", "budget"}, Supply(what) PROVE HealthTypeOK'
  BY <1>7 DEF Supply
<1>8. CASE UNCHANGED healthVars
  BY <1>8 DEF healthVars
<1> QED BY <1>1, <1>2, <1>3, <1>4, <1>5, <1>6, <1>7, <1>8, <1>9, <1>10 DEF HealthNext

LEMMA HealthInitTyped == HealthInit => HealthTypeOK
<1>1. Min(Levels) \in Levels
  BY HealthAssumption, MinOfNat
<1> SUFFICES ASSUME HealthInit PROVE HealthTypeOK
  OBVIOUS
<1>2. status \in [Todo -> {"pending", "in_progress", "done", "blocked"}] /\ supplied \subseteq {"state", "budget"}
  BY DEF HealthInit
<1>3. used \in [Meters -> Levels]
  BY <1>1 DEF HealthInit
<1>4. hbAge \in -1..MaxAge
  BY HealthAssumption DEF HealthInit
<1>5. report \in {"none", "providers", "router"} /\ reached \subseteq Providers
  BY DEF HealthInit
<1> QED BY <1>2, <1>3, <1>4, <1>5 DEF HealthTypeOK

\* A gate which passes, however its inputs came about, means that the essential is in
\* order: neutral scores, weights and rounding hide no more than GatePassMeans says.
THEOREM GatePassMeansHolds == HealthSpec => []GatePassMeans
<1>1. HealthInit => HealthTypeOK
  BY HealthInitTyped
<1>2. HealthTypeOK /\ [HealthNext]_healthVars => HealthTypeOK'
  BY HealthTyped
<1>3. HealthTypeOK => GatePassMeans
  BY PassMeans
<1> QED BY <1>1, <1>2, <1>3, PTL DEF HealthSpec

\* Without a budget nothing of it is used up.
NoBudget == "budget" \notin supplied => Violations = {} /\ ScoreBudget = 10000

LEMMA NoBudgetFull == NoBudget /\ NoBudget'
<1>1. NoBudget
  <2> SUFFICES ASSUME "budget" \notin supplied PROVE Violations = {} /\ ScoreBudget = 10000
    BY DEF NoBudget
  <2>1. Violations = {}
    BY DEF Violations
  <2>2. \A level : Above(level) = 0
    BY FS_EmptySet DEF Above
  <2> QED BY <2>1, <2>2 DEF ScoreBudget, Positive
<1> QED BY <1>1, PTL

\* What a step for the worse does to the counts.
LEMMA WorseCounts ==
  ASSUME HealthTypeOK, HealthTypeOK', Worse, ~LossHelps
  PROVE  /\ Cardinality(reached') <= Cardinality(reached)
         /\ Missing <= Missing' /\ Missing' \in Nat
         /\ HowMany("done")' <= HowMany("done") /\ HowMany("blocked") <= HowMany("blocked")'
         /\ Violations \subseteq Violations'
         /\ "budget" \in supplied' => Above(7) <= Above(7)' /\ Above(9) <= Above(9)'
<1> USE HealthAssumption
<1>1. /\ report' \in {report, "none"} /\ reached' \subseteq reached /\ supplied' \subseteq supplied
      /\ \A t \in Todo : Rank[status'[t]] <= Rank[status[t]]
      /\ \A m \in Meters : used'[m] >= used[m]
      /\ IsFiniteSet(reached) /\ IsFiniteSet(Required)
      /\ \A t \in Todo : /\ status[t] \in {"pending", "in_progress", "done", "blocked"}
                         /\ status'[t] \in {"pending", "in_progress", "done", "blocked"}
      /\ \A m \in Meters : used[m] \in Nat /\ used'[m] \in Nat
  BY Counted DEF Worse, HealthTypeOK
<1>2. Cardinality(reached') <= Cardinality(reached)
  BY <1>1, FS_Subset
<1>3. /\ Cardinality(Required \intersect reached') <= Cardinality(Required \intersect reached)
      /\ Cardinality(Required \ reached) <= Cardinality(Required \ reached')
  <2>1. /\ Required \intersect reached' \subseteq Required \intersect reached
        /\ Required \ reached \subseteq Required \ reached'
    BY <1>1
  <2>2. IsFiniteSet(Required \intersect reached) /\ IsFiniteSet(Required \ reached')
    BY <1>1, FS_Subset
  <2> QED BY <2>1, <2>2, FS_Subset
<1>4. Missing' \in Nat /\ Missing <= Missing'
  <2>1. /\ Cardinality(Required) \in Nat
        /\ Cardinality(Required \intersect reached) \in Nat /\ Cardinality(Required \ reached) \in Nat
        /\ Cardinality(Required \intersect reached') \in Nat /\ Cardinality(Required \ reached') \in Nat
    <3>1. /\ IsFiniteSet(Required \intersect reached) /\ IsFiniteSet(Required \ reached)
          /\ IsFiniteSet(Required \intersect reached') /\ IsFiniteSet(Required \ reached')
      BY <1>1, FS_Subset
    <3> QED BY <1>1, <3>1, FS_CardinalityType
  <2>2. CASE report' = report
    <3>1. RequiredUp' <= RequiredUp /\ RequiredUp \in Int /\ RequiredUp' \in Int
      BY <1>3, <2>1, <2>2 DEF RequiredUp, RequiredDown
    <3> QED BY <2>1, <2>2, <3>1 DEF Missing, Positive
  <2>3. CASE report' # report
    <3>1. Missing = 0
      BY <2>3, MissingIs DEF LossHelps
    <3>2. Missing' = 0
      BY <1>1, <2>3 DEF Missing
    <3> QED BY <3>1, <3>2
  <2> QED BY <2>2, <2>3
<1>5. Rank["done"] = 2 /\ Rank["blocked"] = 0 /\ Rank["pending"] = 1 /\ Rank["in_progress"] = 1
  BY DEF Rank
<1>6. HowMany("done")' <= HowMany("done")
  <2>1. {t \in Todo : status'[t] = "done"} \subseteq {t \in Todo : status[t] = "done"}
    BY <1>1, <1>5
  <2>2. IsFiniteSet({t \in Todo : status[t] = "done"})
    BY FS_Subset
  <2> QED BY <2>1, <2>2, FS_Subset DEF HowMany
<1>7. HowMany("blocked") <= HowMany("blocked")'
  <2>1. {t \in Todo : status[t] = "blocked"} \subseteq {t \in Todo : status'[t] = "blocked"}
    BY <1>1, <1>5
  <2>2. IsFiniteSet({t \in Todo : status'[t] = "blocked"})
    BY FS_Subset
  <2> QED BY <2>1, <2>2, FS_Subset DEF HowMany
<1>8. Violations \subseteq Violations'
  <2>1. CASE "budget" \in supplied'
    BY <1>1, <2>1 DEF Violations
  <2>2. CASE "budget" \notin supplied'
    <3>1. CASE "budget" \in supplied
      <4>1. ~(ScoreBudget < 10000)
        BY <2>2, <3>1 DEF LossHelps
      <4> QED BY <4>1 DEF ScoreBudget
    <3>2. CASE "budget" \notin supplied
      BY <3>2, NoBudgetFull DEF NoBudget
    <3> QED BY <3>1, <3>2
  <2> QED BY <2>1, <2>2
<1>9. ASSUME NEW level \in Nat, "budget" \in supplied'
      PROVE  Cardinality({m \in Scored : "budget" \in supplied /\ used[m] > level})
               <= Cardinality({m \in Scored : "budget" \in supplied' /\ used'[m] > level})
  <2>1. {m \in Scored : "budget" \in supplied /\ used[m] > level}
          \subseteq {m \in Scored : "budget" \in supplied' /\ used'[m] > level}
    BY <1>1, <1>9
  <2>2. IsFiniteSet({m \in Scored : "budget" \in supplied' /\ used'[m] > level})
    <3>1. IsFiniteSet(Scored)
      BY FS_Subset
    <3> QED BY <3>1, FS_Subset
  <2> QED BY <2>1, <2>2, FS_Subset
<1>10. "budget" \in supplied' => Above(7) <= Above(7)' /\ Above(9) <= Above(9)'
  BY <1>9 DEF Above
<1> QED BY <1>2, <1>4, <1>6, <1>7, <1>8, <1>10

\* The score of the providers: as long as none is missing the divisor is simpler.
LEMMA WorseProviders ==
  ASSUME HealthTypeOK, HealthTypeOK', Worse, ~LossHelps
  PROVE  ScoreProviders' <= ScoreProviders
<1> DEFINE n == Cardinality(Providers)
           all == Cardinality(Required)
           few == Cardinality(reached')
           many == Cardinality(reached)
           Num(up1, missed, r) == Positive(up1 * 10000 * r - missed * 5000 * n)
<1>1. /\ n \in Nat /\ (Providers # {} => n \in Nat \ {0}) /\ all \in Nat /\ (Required # {} => all \in Nat \ {0})
      /\ few \in Nat /\ many \in Nat /\ few <= many
      /\ Missing \in Nat /\ Missing' \in Nat /\ Missing <= Missing'
      /\ Missing > 0 => Required # {}
  <2>1. /\ n \in Nat /\ (Providers # {} => n \in Nat \ {0}) /\ all \in Nat /\ (Required # {} => all \in Nat \ {0})
        /\ many \in Nat
    BY Counted
  <2>2. few \in Nat
    <3>1. IsFiniteSet(reached')
      BY HealthAssumption, FS_Subset DEF HealthTypeOK
    <3> QED BY <3>1, FS_CardinalityType
  <2>3. few <= many /\ Missing' \in Nat /\ Missing <= Missing'
    BY WorseCounts
  <2>4. Missing \in Nat /\ (Missing > 0 => Required # {})
    BY MissingIs
  <2> QED BY <2>1, <2>2, <2>3, <2>4
<1>2. report' = report \/ (report # "none" /\ report' = "none")
  BY DEF Worse
<1>3. Missing' > 0 => Required # {}
  <2>1. Missing' > 0 => RequiredUp' < all /\ report # "none"
    <3>1. RequiredUp' \in Int
      BY Counted, HealthAssumption, FS_Subset, FS_CardinalityType DEF RequiredUp, RequiredDown, HealthTypeOK
    <3> QED BY <1>1, <1>2, <3>1 DEF Missing, Positive
  <2>2. Required = {} => RequiredUp' = 0 /\ all = 0
    BY FS_EmptySet DEF RequiredUp, RequiredDown
  <2> QED BY <2>1, <2>2
<1>4. ASSUME ~Unseen, NEW r \in Nat \ {0}, NEW k \in Nat, NEW l \in Nat, l <= k
      PROVE  /\ Num(few, k, r) \in Nat /\ Num(many, l, r) \in Nat
             /\ Num(few, k, r) <= Num(many, l, r) /\ Num(few, k, r) <= r * Num(many, 0, 1)
             /\ n * r \in Nat \ {0}
  <2>0. n \in Nat \ {0}
    BY <1>1, <1>4 DEF Unseen
  <2>1. /\ few * 10000 * r \in Nat /\ many * 10000 * r \in Nat /\ k * 5000 * n \in Nat /\ l * 5000 * n \in Nat
        /\ n * r \in Nat \ {0}
    BY <1>1, <1>4, <2>0
  <2>2. r * few <= r * many /\ n * l <= n * k
    BY <1>1, <1>4, TimesMore
  <2>3. /\ few * 10000 * r = (r * few) * 10000 /\ many * 10000 * r = (r * many) * 10000
        /\ k * 5000 * n = (n * k) * 5000 /\ l * 5000 * n = (n * l) * 5000
        /\ r * few \in Nat /\ r * many \in Nat /\ n * k \in Nat /\ n * l \in Nat
    BY <1>1, <1>4
  <2>4. few * 10000 * r <= many * 10000 * r /\ l * 5000 * n <= k * 5000 * n
    BY <2>2, <2>3
  <2>5. Num(many, 0, 1) = many * 10000 /\ r * (many * 10000) = many * 10000 * r
    BY <1>1 DEF Positive
  <2> QED BY <2>1, <2>4, <2>5 DEF Positive
<1>5. CASE Unseen
  <2>1. Unseen' /\ ScoreProviders = 5000
    BY <1>2, <1>5 DEF Unseen, ScoreProviders
  <2> QED BY <2>1 DEF ScoreProviders
<1>7. CASE ~Unseen /\ report' # report
  <2>1. ScoreProviders' = 5000
    BY <1>2, <1>7 DEF Unseen, ScoreProviders
  <2>2. ScoreProviders \in Nat /\ ~(ScoreProviders < 5000)
    BY <1>7, Scores DEF LossHelps
  <2> QED BY <2>1, <2>2
<1>6. CASE ~Unseen /\ report' = report
  <2> DEFINE r == IF Missing > 0 THEN all ELSE 1
             r1 == IF Missing' > 0 THEN all ELSE 1
  <2>1. ScoreProviders = Round(Num(many, Missing, r), n * r)
    BY <1>6 DEF ScoreProviders
  <2>2. ScoreProviders' = Round(Num(few, Missing', r1), n * r1)
    BY <1>6 DEF ScoreProviders, Unseen
  <2>3. r1 \in Nat \ {0} /\ r \in Nat \ {0}
    BY <1>1, <1>3
  <2>4. CASE r = r1
    <3>1. /\ Num(few, Missing', r) \in Nat /\ Num(many, Missing, r) \in Nat
          /\ Num(few, Missing', r) <= Num(many, Missing, r) /\ n * r \in Nat \ {0}
      <4> HIDE DEF Num, n, r, few, many
      <4> QED BY <1>1, <1>4, <1>6, <2>3
    <3> HIDE DEF Num, n, r, r1, few, many
    <3>2. Round(Num(few, Missing', r), n * r) <= Round(Num(many, Missing, r), n * r)
      BY <3>1, RoundMonotone
    <3> QED BY <2>1, <2>2, <2>4, <3>2
  <2>5. CASE r # r1
    <3>1. Missing = 0 /\ r = 1
      BY <1>1, <2>5
    <3>2. n * 1 = n
      BY <1>1
    <3>3. Num(few, Missing', r1) \in Nat /\ Num(few, Missing', r1) <= r1 * Num(many, 0, 1) /\ Num(many, 0, 1) \in Nat
      <4>1. 0 \in Nat /\ 1 \in Nat \ {0} /\ 0 <= Missing' /\ 0 <= 0
        BY <1>1
      <4> HIDE DEF Num, n, r, r1, few, many
      <4>2. Num(few, Missing', r1) \in Nat /\ Num(few, Missing', r1) <= r1 * Num(many, 0, 1)
        BY <1>1, <1>4, <1>6, <2>3, <4>1
      <4>3. Num(many, 0, 1) \in Nat
        BY <1>1, <1>4, <1>6, <4>1
      <4> QED BY <4>2, <4>3
    <3> HIDE DEF n, r1, Num
    <3> QED BY <1>1, <1>6, <2>1, <2>2, <2>3, <3>1, <3>2, <3>3, RoundOrder DEF Unseen
  <2> QED BY <2>4, <2>5
<1> QED BY <1>5, <1>6, <1>7

LEMMA WorseTasks ==
  ASSUME HealthTypeOK, HealthTypeOK', Worse, ~LossHelps
  PROVE  ScoreTasks' <= ScoreTasks
<1> DEFINE Ahead(done, blocked) == Positive(done * 10000 - blocked * 3000)
           done == HowMany("done")
           blocked == HowMany("blocked")
           done1 == HowMany("done")'
           blocked1 == HowMany("blocked")'
<1>1. /\ done \in Nat /\ blocked \in Nat /\ done1 <= done /\ blocked <= blocked1
      /\ Cardinality(Todo) \in Nat \ {0}
  BY Counted, WorseCounts
<1>2. done1 \in Nat /\ blocked1 \in Nat
  <2>1. \A s : IsFiniteSet({t \in Todo : status'[t] = s})
    BY HealthAssumption, FS_Subset
  <2> QED BY <2>1, FS_CardinalityType DEF HowMany
<1>3. supplied' \subseteq supplied /\ ScoreTasks \in Nat
  BY Scores DEF Worse
<1>4. CASE "state" \notin supplied'
  <2>1. ScoreTasks' = 10000
    BY <1>4 DEF ScoreTasks
  <2>2. ~(ScoreTasks < 10000)
    BY <1>4 DEF LossHelps, ScoreTasks
  <2> QED BY <1>3, <2>1, <2>2
<1>5. CASE "state" \in supplied'
  <2>1. /\ ScoreTasks = Round(Ahead(done, blocked), Cardinality(Todo))
        /\ ScoreTasks' = Round(Ahead(done1, blocked1), Cardinality(Todo))
    BY <1>3, <1>5 DEF ScoreTasks
  <2> HIDE DEF done, blocked, done1, blocked1
  <2>2. Ahead(done1, blocked1) \in Nat /\ Ahead(done, blocked) \in Nat /\ Ahead(done1, blocked1) <= Ahead(done, blocked)
    BY <1>1, <1>2 DEF Positive
  <2> HIDE DEF Ahead
  <2>3. Round(Ahead(done1, blocked1), Cardinality(Todo)) <= Round(Ahead(done, blocked), Cardinality(Todo))
    BY <1>1, <2>2, RoundMonotone
  <2> QED BY <2>1, <2>3
<1> QED BY <1>4, <1>5

LEMMA WorseBudget ==
  ASSUME HealthTypeOK, HealthTypeOK', Worse, ~LossHelps
  PROVE  ScoreBudget' <= ScoreBudget
<1>1. /\ Violations \subseteq Violations' /\ supplied' \subseteq supplied
      /\ "budget" \in supplied' => Above(7) <= Above(7)' /\ Above(9) <= Above(9)'
  BY WorseCounts DEF Worse
<1>2. Above(7) \in Nat /\ Above(9) \in Nat /\ Above(7)' \in Nat /\ Above(9)' \in Nat
  <2>1. IsFiniteSet(Scored)
    BY HealthAssumption, FS_Subset
  <2>2. \A level : /\ IsFiniteSet({m \in Scored : "budget" \in supplied /\ used[m] > level})
                   /\ IsFiniteSet({m \in Scored : "budget" \in supplied' /\ used'[m] > level})
    BY <2>1, FS_Subset
  <2> QED BY <2>2, FS_CardinalityType DEF Above
<1>3. CASE "budget" \in supplied'
  <2>1. 10000 - 3000 * Above(9)' - 1000 * (Above(7)' - Above(9)') <= 10000 - 3000 * Above(9) - 1000 * (Above(7) - Above(9))
    BY <1>1, <1>2, <1>3
  <2> QED BY <1>1, <1>2, <2>1 DEF ScoreBudget, Positive
<1>4. CASE "budget" \notin supplied'
  <2>1. ScoreBudget' = 10000
    BY <1>4, NoBudgetFull DEF NoBudget
  <2>2. ScoreBudget \in Nat /\ ~(ScoreBudget < 10000)
    BY <1>4, NoBudgetFull, BudgetCounted DEF LossHelps, NoBudget
  <2> QED BY <2>1, <2>2
<1> QED BY <1>3, <1>4

\* What is left of the threshold.
Left(a) == Positive(Threshold - (a - Threshold)) * 10000

LEMMA LeftOrder ==
  ASSUME NEW a \in Int, NEW b \in Int, a <= b
  PROVE  /\ Left(a) \in Nat /\ Left(b) \in Nat /\ Left(b) <= Left(a)
         /\ a >= Threshold => Left(a) <= Threshold * 10000
<1>1. /\ Positive(Threshold - (b - Threshold)) \in Nat /\ Positive(Threshold - (a - Threshold)) \in Nat
      /\ Positive(Threshold - (b - Threshold)) <= Positive(Threshold - (a - Threshold))
  BY HealthAssumption DEF Positive
<1>2. a >= Threshold => Positive(Threshold - (a - Threshold)) <= Threshold
  BY HealthAssumption DEF Positive
<1> QED BY <1>1, <1>2, HealthAssumption DEF Left

LEMMA SumOrder ==
  ASSUME NEW a \in Nat, NEW b \in Nat, NEW c \in Nat, NEW d \in Nat,
         NEW a1 \in Nat, NEW b1 \in Nat, NEW c1 \in Nat, NEW d1 \in Nat,
         a1 <= a, b1 <= b, c1 <= c, d1 <= d
  PROVE  /\ 30 * a + 30 * b + 20 * c + 20 * d \in Nat /\ 30 * a1 + 30 * b1 + 20 * c1 + 20 * d1 \in Nat
         /\ 30 * a1 + 30 * b1 + 20 * c1 + 20 * d1 <= 30 * a + 30 * b + 20 * c + 20 * d
OBVIOUS

LEMMA WorseHeartbeat ==
  ASSUME HealthTypeOK, HealthTypeOK', Worse, ~LossHelps
  PROVE  ScoreHeartbeat' <= ScoreHeartbeat
<1>1. hbAge \in Int /\ hbAge' \in Int /\ Threshold \in Nat \ {0} /\ (hbAge' = -1 \/ (hbAge >= 0 /\ hbAge' >= hbAge))
      /\ ScoreHeartbeat \in Nat
  BY HealthAssumption, Scores DEF HealthTypeOK, Worse
<1>2. CASE hbAge' < 0
  <2>1. hbAge >= 0 => ~(ScoreHeartbeat < 5000)
    BY <1>2 DEF LossHelps
  <2>2. ~(hbAge >= 0) => ScoreHeartbeat = 5000
    BY <1>1 DEF ScoreHeartbeat
  <2>3. ScoreHeartbeat' = 5000
    BY <1>2 DEF ScoreHeartbeat
  <2> QED BY <1>1, <2>1, <2>2, <2>3
<1>3. CASE ~(hbAge' < 0) /\ hbAge <= Threshold
  <2>1. ScoreHeartbeat = 10000
    BY <1>1, <1>3 DEF ScoreHeartbeat, Left
  <2>2. CASE hbAge' <= Threshold
    BY <1>1, <1>3, <2>1, <2>2 DEF ScoreHeartbeat, Left
  <2>3. CASE hbAge' > Threshold
    <3>1. ScoreHeartbeat' = Round(Left(hbAge'), Threshold)
      BY <1>1, <2>3 DEF ScoreHeartbeat, Left
    <3>2. Left(hbAge') \in Nat /\ Left(hbAge') <= Threshold * 10000 /\ 10000 \in Nat
      BY <1>1, <2>3, LeftOrder
    <3>3. Round(Left(hbAge'), Threshold) <= 10000
      BY <1>1, <3>2, RoundAtMost
    <3> QED BY <2>1, <3>1, <3>3
  <2> QED BY <1>1, <2>2, <2>3
<1>4. CASE ~(hbAge' < 0) /\ hbAge > Threshold
  <2>1. ScoreHeartbeat' = Round(Left(hbAge'), Threshold) /\ ScoreHeartbeat = Round(Left(hbAge), Threshold)
    BY <1>1, <1>4 DEF ScoreHeartbeat, Left
  <2>2. hbAge <= hbAge'
    BY <1>1, <1>4
  <2>3. Left(hbAge') \in Nat /\ Left(hbAge) \in Nat /\ Left(hbAge') <= Left(hbAge)
    BY <1>1, <2>2, LeftOrder
  <2> QED BY <1>1, <2>1, <2>3, RoundMonotone
<1> QED BY <1>1, <1>2, <1>3, <1>4

NaturalScores ==
  /\ ScoreProviders \in Nat /\ ScoreTasks \in Nat /\ ScoreBudget \in Nat /\ ScoreHeartbeat \in Nat
  /\ Missing \in Nat

LEMMA ScoresAreNat == (HealthTypeOK => NaturalScores) /\ (HealthTypeOK' => NaturalScores')
<1>1. HealthTypeOK => NaturalScores
  BY Scores, BudgetCounted, MissingIs DEF NaturalScores
<1> QED BY <1>1, PTL

\* No step for the worse raises the score or opens the gate, whatever the numbers of
\* providers and tasks which the shares are rounded for; but the loss of an input does when
\* it counted for less than a missing one: a report below half marks or with a required
\* provider down, a state or a budget below full marks, a heartbeat below half marks.
THEOREM WorseNeverScoresHigherHolds == HealthSpec => WorseNeverScoresHigher
<1>1. HealthInit => HealthTypeOK
  BY HealthInitTyped
<1>2. HealthTypeOK /\ [HealthNext]_healthVars => HealthTypeOK'
  BY HealthTyped
<1>3. HealthTypeOK /\ HealthTypeOK' => [Worse /\ ~LossHelps => Score' <= Score /\ (Passed' => Passed)]_healthVars
  <2> SUFFICES ASSUME HealthTypeOK, HealthTypeOK', Worse, ~LossHelps PROVE Score' <= Score /\ (Passed' => Passed)
    OBVIOUS
  <2> DEFINE sum == 30 * ScoreProviders + 30 * ScoreTasks + 20 * ScoreBudget + 20 * ScoreHeartbeat
             sum1 == 30 * ScoreProviders' + 30 * ScoreTasks' + 20 * ScoreBudget' + 20 * ScoreHeartbeat'
  <2>1. /\ ScoreProviders' <= ScoreProviders /\ ScoreTasks' <= ScoreTasks
        /\ ScoreBudget' <= ScoreBudget /\ ScoreHeartbeat' <= ScoreHeartbeat
    BY WorseProviders, WorseTasks, WorseBudget, WorseHeartbeat
  <2>2. /\ ScoreProviders \in Nat /\ ScoreTasks \in Nat /\ ScoreBudget \in Nat /\ ScoreHeartbeat \in Nat
        /\ ScoreProviders' \in Nat /\ ScoreTasks' \in Nat /\ ScoreBudget' \in Nat /\ ScoreHeartbeat' \in Nat
        /\ Missing \in Nat
    BY ScoresAreNat DEF NaturalScores
  <2>3. sum \in Nat /\ sum1 \in Nat /\ sum1 <= sum /\ 100 \in Nat \ {0}
    <3>1. sum \in Nat /\ sum1 \in Nat /\ sum1 <= sum
      BY <2>1, <2>2, SumOrder
    <3> QED BY <3>1
  <2>4. Score = Round(sum, 100) /\ Score' = Round(sum1, 100)
    BY DEF Score
  <2> HIDE DEF sum, sum1
  <2>5. Score' <= Score
    BY <2>3, <2>4, RoundMonotone
  <2>6. Passed' => Passed
    <3>1. Missing <= Missing' /\ Violations \subseteq Violations' /\ Missing' \in Nat
      BY WorseCounts
    <3>2. Score \in Nat /\ Score' \in Nat
      <4>1. Round(sum, 100) \in Nat /\ Round(sum1, 100) \in Nat
        BY <2>3, RoundIs
      <4> QED BY <2>4, <4>1
    <3> QED BY <2>2, <2>5, <3>1, <3>2 DEF Passed, MinScore
  <2> QED BY <2>5, <2>6
<1>4. HealthSpec => [][Worse /\ ~LossHelps => Score' <= Score /\ (Passed' => Passed)]_healthVars
  BY <1>1, <1>2, <1>3, PTL DEF HealthSpec
<1> QED BY <1>4 DEF WorseNeverScoresHigher
=============================================================================
