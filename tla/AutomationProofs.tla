--------------------------- MODULE AutomationProofs ---------------------------
(***************************************************************************)
(* Safety of the RPA scheduler, for any number of jobs, browsers and retries *)
(* and runners which answer, fail and raise in any order; of the commands on *)
(* pull requests, for any checks, limits and options, whatever GitHub does *)
(* meanwhile; and of the ledger which coordinators share.                  *)
(***************************************************************************)
EXTENDS RpaScheduler, PullRequest, MeshLedger, FiniteSetTheorems, FunctionTheorems, SequenceTheorems, TLAPS

\* An entry more, at the end.
LEMMA AppendFacts ==
  ASSUME NEW S, NEW s \in Seq(S), NEW e \in S
  PROVE  /\ Append(s, e) \in Seq(S) /\ Len(Append(s, e)) = Len(s) + 1 /\ Len(s) \in Nat
         /\ \A i \in 1..Len(s) : Append(s, e)[i] = s[i]
         /\ Append(s, e)[Len(s) + 1] = e
OBVIOUS

Running == {j \in Jobs : where[j] = "run"}

Places == {"slot", "acquire", "enter", "run", "release", "read", "write", "done", "dead"}

\* Permits and the counter tell how many threads are where.
RInv ==
  /\ where \in [Jobs -> Places]
  /\ permits \in Nat /\ active \in Nat /\ peak \in Nat
  /\ active = Cardinality(Running)
  /\ CapHeld

\* One thread more, one less.
LEMMA JobsCounted ==
  ASSUME NEW S \in SUBSET Jobs, NEW j \in Jobs
  PROVE  /\ IsFiniteSet(S) /\ Cardinality(S) \in Nat
         /\ j \notin S => Cardinality(S \union {j}) = Cardinality(S) + 1
         /\ j \in S => Cardinality(S \ {j}) = Cardinality(S) - 1 /\ Cardinality(S) > 0
<1>1. IsFiniteSet(S) /\ Cardinality(S) \in Nat
  BY RpaAssumption, FS_Subset, FS_CardinalityType
<1>2. j \notin S => Cardinality(S \union {j}) = Cardinality(S) + 1
  BY <1>1, FS_AddElement
<1>3. j \in S => Cardinality(S \ {j}) = Cardinality(S) - 1
  BY <1>1, FS_RemoveElement
<1>4. j \in S => Cardinality(S) > 0
  BY <1>1, FS_EmptySet
<1> QED
  BY <1>1, <1>2, <1>3, <1>4

\* No thread has begun.
LEMMA RpaInitInv == RpaInit => RInv
<1> SUFFICES ASSUME RpaInit PROVE RInv
  OBVIOUS
<1>1. where = [j \in Jobs |-> "slot"] /\ permits = MaxBrowsers /\ active = 0 /\ peak = 0
  BY DEF RpaInit
<1>2. WithPermit = {} /\ Running = {}
  BY <1>1 DEF WithPermit, Running
<1>3. Cardinality({}) = 0
  BY FS_EmptySet
<1>4. where \in [Jobs -> Places]
  BY <1>1 DEF Places
<1> QED
  BY <1>1, <1>2, <1>3, <1>4, RpaAssumption DEF RInv, CapHeld

\* A step which moves a thread between places without a permit, or none.
LEMMA ElsewhereKeeps ==
  ASSUME RInv, NEW j \in Jobs, NEW place \in Places \ {"enter", "run", "release"},
         where[j] \notin {"enter", "run", "release"},
         where' = where \/ where' = [where EXCEPT ![j] = place],
         UNCHANGED <<permits, active, peak>>
  PROVE  RInv'
<1>1. where' \in [Jobs -> Places]
  BY DEF RInv
<1>2. WithPermit' = WithPermit /\ Running' = Running
  BY DEF RInv, WithPermit, Running
<1> QED
  BY <1>1, <1>2 DEF RInv, CapHeld

\* A permit is taken, as long as there is one.
LEMMA AcquireKeeps ==
  ASSUME RInv, NEW j \in Jobs, AcquirePermit(j)
  PROVE  RInv'
<1>1. /\ where[j] = "acquire" /\ permits > 0 /\ permits' = permits - 1
      /\ where' = [where EXCEPT ![j] = "enter"] /\ UNCHANGED <<active, peak>>
  BY DEF AcquirePermit, GoTo
<1>2. where' \in [Jobs -> Places]
  BY <1>1 DEF RInv, Places
<1>3. WithPermit' = WithPermit \union {j} /\ j \notin WithPermit /\ Running' = Running
  BY <1>1 DEF RInv, WithPermit, Running
<1>4. Cardinality(WithPermit') = Cardinality(WithPermit) + 1 /\ Cardinality(WithPermit) \in Nat
  BY <1>3, JobsCounted DEF WithPermit
<1>5. permits' \in Nat /\ permits' + Cardinality(WithPermit') = MaxBrowsers
  BY <1>1, <1>4 DEF RInv, CapHeld
<1> QED
  BY <1>1, <1>2, <1>3, <1>5 DEF RInv, CapHeld

\* The counter grows with a thread which has a permit, so the peak stays below the cap.
LEMMA EnterKeeps ==
  ASSUME RInv, NEW j \in Jobs, Enter(j)
  PROVE  RInv'
<1>1. /\ where[j] = "enter" /\ active' = active + 1 /\ UNCHANGED permits
      /\ peak' = IF active + 1 > peak THEN active + 1 ELSE peak
      /\ where' = [where EXCEPT ![j] = "run"]
  BY DEF Enter, GoTo
<1>2. where' \in [Jobs -> Places]
  BY <1>1 DEF RInv, Places
<1>3. /\ WithPermit' = WithPermit /\ Running' = Running \union {j} /\ j \notin Running
      /\ Running \union {j} \subseteq WithPermit
  BY <1>1 DEF RInv, WithPermit, Running
<1>4. Cardinality(Running') = active + 1
  BY <1>3, JobsCounted DEF Running, RInv
<1>5. Cardinality(Running') <= Cardinality(WithPermit) /\ Cardinality(WithPermit) \in Nat
  <2>1. IsFiniteSet(WithPermit) /\ Cardinality(WithPermit) \in Nat
    BY JobsCounted DEF WithPermit
  <2> QED
    BY <2>1, <1>3, FS_Subset
<1>6. active + 1 <= MaxBrowsers
  BY <1>4, <1>5, RpaAssumption DEF RInv, CapHeld
<1>7. active' \in Nat /\ peak' \in Nat /\ peak' <= MaxBrowsers
  BY <1>1, <1>6 DEF RInv, CapHeld
<1> QED
  BY <1>1, <1>2, <1>3, <1>4, <1>7 DEF RInv, CapHeld

\* The counter shrinks whatever the runner answers, a raise included.
LEMMA ExitKeeps ==
  ASSUME RInv, NEW j \in Jobs, NEW answer, Exit(j, answer)
  PROVE  RInv'
<1>1. /\ where[j] = "run" /\ active' = (IF active > 0 THEN active - 1 ELSE 0)
      /\ where' = [where EXCEPT ![j] = "release"] /\ UNCHANGED <<permits, peak>>
  BY DEF Exit, GoTo
<1>2. where' \in [Jobs -> Places]
  BY <1>1 DEF RInv, Places
<1>3. WithPermit' = WithPermit /\ Running' = Running \ {j} /\ j \in Running
  BY <1>1 DEF RInv, WithPermit, Running
<1>4. Cardinality(Running') = active - 1 /\ active > 0
  BY <1>3, JobsCounted DEF Running, RInv
<1>5. active' \in Nat /\ active' = Cardinality(Running')
  BY <1>1, <1>4 DEF RInv
<1> QED
  BY <1>1, <1>2, <1>3, <1>5 DEF RInv, CapHeld

\* A permit is given back whatever the runner answered.
LEMMA ReleaseKeeps ==
  ASSUME RInv, NEW j \in Jobs, ReleasePermit(j)
  PROVE  RInv'
<1>1. /\ where[j] = "release" /\ permits' = permits + 1 /\ UNCHANGED <<active, peak>>
      /\ where' = [where EXCEPT ![j] = IF verdict[j] = "raised" THEN "dead" ELSE "read"]
  BY DEF ReleasePermit, GoTo
<1>2. where' \in [Jobs -> Places]
  BY <1>1 DEF RInv, Places
<1>3. WithPermit' = WithPermit \ {j} /\ j \in WithPermit /\ Running' = Running
  BY <1>1 DEF RInv, WithPermit, Running
<1>4. Cardinality(WithPermit') = Cardinality(WithPermit) - 1 /\ Cardinality(WithPermit) \in Nat
  BY <1>3, JobsCounted DEF WithPermit
<1>5. permits' \in Nat /\ permits' + Cardinality(WithPermit') = MaxBrowsers
  BY <1>1, <1>4 DEF RInv, CapHeld
<1> QED
  BY <1>1, <1>2, <1>3, <1>5 DEF RInv, CapHeld

\* Every step keeps the invariant.
LEMMA RpaNextInv == RInv /\ [RpaNext]_rpaVars => RInv'
<1> SUFFICES ASSUME RInv, [RpaNext]_rpaVars PROVE RInv'
  OBVIOUS
<1> USE DEF Places
<1>1. CASE UNCHANGED rpaVars \/ Tick
  <2>1. UNCHANGED <<where, permits, active, peak>>
    BY <1>1 DEF rpaVars, own, shared, Tick
  <2> QED
    BY <2>1 DEF RInv, CapHeld, WithPermit, Running
<1>2. ASSUME NEW j \in Jobs, Reserve(j) PROVE RInv'
  BY <1>2, ElsewhereKeeps DEF Reserve, GoTo
<1>3. ASSUME NEW j \in Jobs, ReadTally(j) PROVE RInv'
  BY <1>3, ElsewhereKeeps DEF ReadTally, GoTo, shared
<1>4. ASSUME NEW j \in Jobs, WriteTally(j) PROVE RInv'
  BY <1>4, ElsewhereKeeps DEF WriteTally, Judge, Settle, Retry, GoTo
<1>5. ASSUME NEW j \in Jobs, NEW answer, Exit(j, answer) PROVE RInv'
  BY <1>5, ExitKeeps
<1>6. ASSUME NEW j \in Jobs, AcquirePermit(j) \/ Enter(j) \/ ReleasePermit(j) PROVE RInv'
  BY <1>6, AcquireKeeps, EnterKeeps, ReleaseKeeps
<1> QED
  BY <1>1, <1>2, <1>3, <1>4, <1>5, <1>6 DEF RpaNext, Thread

\* At most max_concurrent_browsers browsers run, max_seen says so, and no permit is lost or
\* made up, although runners raise: the semaphore and the finally clause of execute_job.
THEOREM CapHeldHolds == RpaSpec => []CapHeld
<1>1. RInv => CapHeld
  BY DEF RInv
<1> QED
  BY <1>1, RpaInitInv, RpaNextInv, PTL DEF RpaSpec

----------------------------------------------------------------------------
(* Spacing.  A slot is Interval away from the last reservation, the lag of  *)
(* a thread tells how long ago its own was, and gap plus lastLag how long   *)
(* ago that of the last start was, each up to Interval.                     *)

SpaceTypeOK ==
  /\ where \in [Jobs -> Places]
  /\ slot \in [Domains -> 0..Interval] /\ gap \in [Domains -> 0..Interval]
  /\ lag \in [Jobs -> 0..Interval] /\ lastLag \in [Domains -> 0..Interval]

Waiting(j) == j \in Jobs /\ where[j] = "acquire"

\* Every reservation, and that of the last start, is as old as the last one or older.
SlotLast ==
  /\ \A j \in Jobs : Waiting(j) => slot[Domain[j]] + lag[j] >= Interval
  /\ \A d \in Domains : slot[d] + gap[d] + lastLag[d] >= Interval

\* Two reservations in a domain are Interval apart, those of the last start included.
Apart ==
  /\ \A j, k \in Jobs : Waiting(j) /\ Waiting(k) /\ j # k /\ Domain[j] = Domain[k] =>
       lag[j] = Interval \/ lag[k] = Interval
  /\ \A j \in Jobs : Waiting(j) =>
       gap[Domain[j]] + lag[j] >= Interval \/ gap[Domain[j]] + lastLag[Domain[j]] >= Interval

SInv == SpaceTypeOK /\ SlotLast /\ Apart /\ ~close

\* Before the first reservation nothing is waiting and every slot is free.
LEMMA SpaceInit == RpaInit => SInv
<1> SUFFICES ASSUME RpaInit PROVE SInv
  OBVIOUS
<1>1. /\ \A j \in Jobs : where[j] = "slot"
      /\ \A d \in Domains : slot[d] = 0 /\ gap[d] = Interval /\ lastLag[d] = 0
      /\ ~close
  BY DEF RpaInit
<1>2. SpaceTypeOK
  BY RpaAssumption DEF RpaInit, SpaceTypeOK, Places
<1> QED
  BY <1>1, <1>2, RpaAssumption DEF SInv, SlotLast, Apart, Waiting

\* A slot is taken when the last reservation is Interval old.
LEMMA ReserveSpaced ==
  ASSUME SInv, NEW i \in Jobs, Reserve(i)
  PROVE  SInv'
<1> USE RpaAssumption
<1>1. /\ where[i] = "slot" /\ UNCHANGED <<gap, lastLag, close>> /\ Domain[i] \in Domains
  BY DEF Reserve, Domains
<1>2. CASE slot[Domain[i]] = 0
  <2>1. /\ slot' = [slot EXCEPT ![Domain[i]] = Interval] /\ lag' = [lag EXCEPT ![i] = 0]
        /\ where' = [where EXCEPT ![i] = "acquire"]
    BY <1>2 DEF Reserve, GoTo
  <2>2. SpaceTypeOK'
    BY <1>1, <2>1 DEF SInv, SpaceTypeOK, Places
  <2>3. /\ slot'[Domain[i]] = Interval /\ lag'[i] = 0
        /\ \A d \in Domains : d # Domain[i] => slot'[d] = slot[d]
        /\ \A j \in Jobs : j # i => lag'[j] = lag[j] /\ (Waiting(j)' <=> Waiting(j))
    BY <1>1, <2>1 DEF SInv, SpaceTypeOK, Waiting
  <2>4. \A j \in Jobs : Domain[j] \in Domains
    BY DEF Domains
  <2>5. SlotLast'
    BY <1>1, <2>3, <2>4 DEF SInv, SlotLast, SpaceTypeOK
  <2>6. ASSUME NEW j \in Jobs, Waiting(j), Domain[j] = Domain[i] PROVE lag[j] = Interval
    <3>1. slot[Domain[j]] + lag[j] >= Interval
      BY <2>6 DEF SInv, SlotLast
    <3>2. lag[j] \in 0..Interval
      BY DEF SInv, SpaceTypeOK
    <3> QED BY <1>2, <2>6, <3>1, <3>2
  <2>7. gap[Domain[i]] + lastLag[Domain[i]] >= Interval
    BY <1>1, <1>2 DEF SInv, SlotLast, SpaceTypeOK
  <2>8. Apart'
    BY <1>1, <2>3, <2>6, <2>7 DEF SInv, Apart
  <2> QED
    BY <1>1, <2>2, <2>5, <2>8 DEF SInv
<1>3. CASE slot[Domain[i]] # 0
  <2>1. UNCHANGED <<slot, lag, where>>
    BY <1>3 DEF Reserve
  <2> QED
    BY <1>1, <2>1 DEF SInv, SpaceTypeOK, SlotLast, Apart, Waiting
<1> QED
  BY <1>2, <1>3

\* A thread which starts leaves its lag behind as that of the last start.
LEMMA AcquireSpaced ==
  ASSUME SInv, NEW i \in Jobs, AcquirePermit(i)
  PROVE  SInv'
<1> USE RpaAssumption
<1> DEFINE d == Domain[i]
<1>1. /\ Waiting(i) /\ where' = [where EXCEPT ![i] = "enter"] /\ d \in Domains /\ UNCHANGED slot
      /\ close' = (close \/ (gap[d] + lag[i] < Interval /\ gap[d] + lastLag[d] < Interval))
      /\ gap' = [gap EXCEPT ![d] = 0] /\ lastLag' = [lastLag EXCEPT ![d] = lag[i]]
      /\ lag' = [lag EXCEPT ![i] = 0]
  BY DEF AcquirePermit, GoTo, Waiting, Domains
<1>2. ~close'
  <2>1. gap[d] + lag[i] >= Interval \/ gap[d] + lastLag[d] >= Interval
    BY <1>1 DEF SInv, Apart
  <2>2. gap[d] \in Int /\ lag[i] \in Int /\ lastLag[d] \in Int
    BY <1>1 DEF SInv, SpaceTypeOK
  <2>3. ~(gap[d] + lag[i] < Interval /\ gap[d] + lastLag[d] < Interval)
    BY <2>1, <2>2
  <2> QED
    BY <1>1, <2>3, Zenon DEF SInv
<1>3. SpaceTypeOK'
  BY <1>1 DEF SInv, SpaceTypeOK, Places
<1>4. /\ gap'[d] = 0 /\ lastLag'[d] = lag[i]
      /\ \A e \in Domains : e # d => gap'[e] = gap[e] /\ lastLag'[e] = lastLag[e]
      /\ ~Waiting(i)' /\ \A j \in Jobs : j # i => lag'[j] = lag[j] /\ (Waiting(j)' <=> Waiting(j))
  BY <1>1 DEF SInv, SpaceTypeOK, Waiting
<1>5. \A j \in Jobs : Domain[j] \in Domains
  BY DEF Domains
<1>6. SlotLast'
  BY <1>1, <1>4, <1>5 DEF SInv, SlotLast, SpaceTypeOK
<1>7. \A j \in Jobs : j # i /\ Waiting(j) /\ Domain[j] = d => lag[j] = Interval \/ lag[i] = Interval
  BY <1>1 DEF SInv, Apart
<1>8. Apart'
  <2>1. \A j, k \in Jobs : Waiting(j)' /\ Waiting(k)' /\ j # k /\ Domain[j] = Domain[k] =>
          lag'[j] = Interval \/ lag'[k] = Interval
    BY <1>4 DEF SInv, Apart
  <2>2. ASSUME NEW j \in Jobs, Waiting(j)'
        PROVE  gap'[Domain[j]] + lag'[j] >= Interval \/ gap'[Domain[j]] + lastLag'[Domain[j]] >= Interval
    <3>1. CASE Domain[j] = d
      BY <1>4, <1>7, <2>2, <3>1
    <3>2. CASE Domain[j] # d
      BY <1>4, <1>5, <2>2, <3>2 DEF SInv, Apart
    <3> QED
      BY <3>1, <3>2
  <2> QED
    BY <2>1, <2>2 DEF Apart
<1> QED
  BY <1>2, <1>3, <1>6, <1>8 DEF SInv

\* A tick brings the slots nearer by what it adds to the lags and gaps.
LEMMA TickSpaced ==
  ASSUME SInv, Tick
  PROVE  SInv'
<1> USE RpaAssumption
<1>1. /\ slot' = [d \in Domains |-> Sooner(slot[d])] /\ gap' = [d \in Domains |-> Later(gap[d])]
      /\ lag' = [j \in Jobs |-> IF where[j] = "acquire" THEN Later(lag[j]) ELSE lag[j]]
      /\ UNCHANGED <<where, lastLag, close>>
  BY DEF Tick
<1>2. SpaceTypeOK'
  BY <1>1 DEF SInv, SpaceTypeOK, Sooner, Later
<1>3. \A j \in Jobs : Domain[j] \in Domains
  BY DEF Domains
<1>4. SlotLast'
  BY <1>1, <1>3 DEF SInv, SlotLast, SpaceTypeOK, Sooner, Later, Waiting
<1>5. Apart'
  BY <1>1, <1>3 DEF SInv, Apart, SpaceTypeOK, Later, Waiting
<1> QED
  BY <1>1, <1>2, <1>4, <1>5 DEF SInv

\* Other steps of a thread do not wait for a permit before or after.
LEMMA ElsewhereSpaced ==
  ASSUME SInv, NEW i \in Jobs, NEW place \in Places \ {"acquire"},
         where' = where \/ (where' = [where EXCEPT ![i] = place] /\ where[i] # "acquire"),
         UNCHANGED <<slot, watched>>
  PROVE  SInv'
<1>1. UNCHANGED <<slot, lag, gap, lastLag, close>>
  BY DEF watched
<1>2. where' \in [Jobs -> Places] /\ \A j \in Jobs : Waiting(j)' <=> Waiting(j)
  BY DEF SInv, SpaceTypeOK, Waiting
<1> QED
  BY <1>1, <1>2 DEF SInv, SpaceTypeOK, SlotLast, Apart

\* Every step keeps the spacing.
LEMMA SpaceNext == SInv /\ [RpaNext]_rpaVars => SInv'
<1> SUFFICES ASSUME SInv, [RpaNext]_rpaVars PROVE SInv'
  OBVIOUS
<1> USE DEF Places
<1>1. CASE UNCHANGED rpaVars
  BY <1>1 DEF rpaVars, own, shared, watched, SInv, SpaceTypeOK, SlotLast, Apart, Waiting
<1>2. CASE Tick
  BY <1>2, TickSpaced
<1>3. ASSUME NEW j \in Jobs, Reserve(j) \/ AcquirePermit(j) PROVE SInv'
  BY <1>3, ReserveSpaced, AcquireSpaced
<1>4. ASSUME NEW j \in Jobs, Enter(j) \/ ReleasePermit(j) PROVE SInv'
  BY <1>4, ElsewhereSpaced DEF Enter, ReleasePermit, GoTo
<1>5. ASSUME NEW j \in Jobs, NEW answer, Exit(j, answer) PROVE SInv'
  BY <1>5, ElsewhereSpaced DEF Exit, GoTo
<1>6. ASSUME NEW j \in Jobs, ReadTally(j) PROVE SInv'
  BY <1>6, ElsewhereSpaced DEF ReadTally, GoTo, shared
<1>7. ASSUME NEW j \in Jobs, WriteTally(j) PROVE SInv'
  BY <1>7, ElsewhereSpaced DEF WriteTally, Judge, Settle, Retry, GoTo
<1> QED
  BY <1>1, <1>2, <1>3, <1>4, <1>5, <1>6, <1>7 DEF RpaNext, Thread

\* Starts in one domain are per_domain_interval_sec apart, less the time that one of the
\* two has waited for the semaphore after it had reserved its slot (reserve_domain_slot
\* before semaphore.acquire).
THEOREM SpacedUpToLagHolds == RpaSpec => []SpacedUpToLag
<1>1. SInv => SpacedUpToLag
  BY DEF SInv, SpacedUpToLag
<1> QED
  BY <1>1, SpaceInit, SpaceNext, PTL DEF RpaSpec

----------------------------------------------------------------------------
(* The report.  Sums are numbers of units.                                  *)

LEMMA UnitIn ==
  ASSUME NEW S, NEW f, NEW x, NEW n
  PROVE  <<x, n>> \in Units(S, f) <=> x \in S /\ n \in 1..f[x]
BY DEF Units

\* A unit is a pair.
LEMMA UnitPair ==
  ASSUME NEW S, NEW f, NEW u \in Units(S, f)
  PROVE  \E x \in S : \E n \in 1..f[x] : u = <<x, n>>
BY DEF Units

\* A sum over a finite set is a number.
LEMMA UnitsFinite ==
  ASSUME NEW S, IsFiniteSet(S), NEW f, \A x \in S : f[x] \in Nat
  PROVE  IsFiniteSet(Units(S, f)) /\ Cardinality(Units(S, f)) \in Nat
<1> DEFINE Of(x) == {x} \X (1..f[x])
           Parts == {Of(x) : x \in S}
           part == [x \in S |-> Of(x)]
<1>1. \A x \in S : IsFiniteSet(Of(x))
  <2> SUFFICES ASSUME NEW x \in S PROVE IsFiniteSet({x} \X (1..f[x]))
    OBVIOUS
  <2>1. IsFiniteSet({x})
    BY FS_Singleton
  <2>2. IsFiniteSet(1..f[x])
    <3>1. 1 \in Int /\ f[x] \in Int
      OBVIOUS
    <3> QED BY <3>1, FS_Interval
  <2> QED BY <2>1, <2>2, FS_Product
<1> HIDE DEF Of
<1>2. part \in Surjection(S, Parts)
  <2>1. part \in [S -> Parts] /\ \A t \in Parts : \E x \in S : part[x] = t
    OBVIOUS
  <2> QED BY <2>1, Fun_IsSurj
<1>3. IsFiniteSet(Parts)
  BY <1>2, FS_Surjection
<1>4. \A T \in Parts : IsFiniteSet(T)
  BY <1>1
<1>5. Units(S, f) = UNION Parts
  BY DEF Units, Of
<1> HIDE DEF Parts
<1>6. IsFiniteSet(Units(S, f))
  BY <1>3, <1>4, <1>5, FS_UNION
<1> QED BY <1>6, FS_CardinalityType

\* One more somewhere is one more in all.
LEMMA UnitMore ==
  ASSUME NEW S, IsFiniteSet(S), NEW f, \A y \in S : f[y] \in Nat,
         NEW x \in S, NEW g, g[x] = f[x] + 1, \A y \in S \ {x} : g[y] = f[y]
  PROVE  Cardinality(Units(S, g)) = Cardinality(Units(S, f)) + 1
<1> DEFINE new == <<x, f[x] + 1>>
<1>1. Units(S, g) = Units(S, f) \cup {new}
  <2>1. ASSUME NEW u \in Units(S, g) PROVE u \in Units(S, f) \cup {new}
    <3>1. PICK y \in S : \E n \in 1..g[y] : u = <<y, n>>
      BY UnitPair
    <3>2. PICK n \in 1..g[y] : u = <<y, n>>
      BY <3>1
    <3>3. CASE y = x /\ n = f[x] + 1
      BY <3>2, <3>3
    <3>4. CASE ~(y = x /\ n = f[x] + 1)
      <4>1. n \in 1..f[y]
        BY <3>2, <3>4
      <4> QED BY <3>2, <4>1, UnitIn
    <3> QED BY <3>3, <3>4
  <2>2. ASSUME NEW u \in Units(S, f) PROVE u \in Units(S, g)
    <3>1. PICK y \in S : \E n \in 1..f[y] : u = <<y, n>>
      BY UnitPair
    <3>2. PICK n \in 1..f[y] : u = <<y, n>>
      BY <3>1
    <3>3. n \in 1..g[y]
      BY <3>2
    <3> QED BY <3>2, <3>3, UnitIn
  <2>3. new \in Units(S, g)
    <3>1. f[x] + 1 \in 1..g[x]
      OBVIOUS
    <3> QED BY <3>1, UnitIn
  <2> QED BY <2>1, <2>2, <2>3
<1>2. new \notin Units(S, f)
  <2>1. ~(f[x] + 1 \in 1..f[x])
    OBVIOUS
  <2> QED BY <2>1, UnitIn
<1>3. IsFiniteSet(Units(S, f))
  BY UnitsFinite
<1> HIDE DEF new
<1> QED BY <1>1, <1>2, <1>3, FS_AddElement

\* So many elements of a finite set can be numbered.
LEMMA Numbered ==
  ASSUME NEW V, IsFiniteSet(V), NEW n \in Nat, n <= Cardinality(V)
  PROVE  \E h : h \in [1..n -> V] /\ \A k, m \in 1..n : h[k] = h[m] => k = m
<1> DEFINE c == Cardinality(V)
<1>1. c \in Nat /\ ExistsBijection(1..c, V)
  BY FS_CardinalityType
<1>2. \A k \in 1..n : k \in 1..c
  BY <1>1
<1> HIDE DEF c
<1>3. PICK b : b \in Bijection(1..c, V)
  BY <1>1 DEF ExistsBijection
<1>4. b \in [1..c -> V] /\ \A k, m \in 1..c : b[k] = b[m] => k = m
  BY <1>3, Fun_BijectionProperties
<1> WITNESS [k \in 1..n |-> b[k]]
<1> QED BY <1>2, <1>4

\* What is bounded part by part is bounded in all.
LEMMA UnitsBounded ==
  ASSUME NEW S, NEW T, IsFiniteSet(T), NEW f, NEW r, NEW part \in [T -> S],
         \A i \in S : f[i] \in Nat, \A t \in T : r[t] \in Nat,
         \A i \in S : f[i] <= Cardinality(Units({t \in T : part[t] = i}, r))
  PROVE  Cardinality(Units(S, f)) <= Cardinality(Units(T, r))
<1> DEFINE Of(i) == Units({t \in T : part[t] = i}, r)
           all == Units(T, r)
           Into(i, h) == h \in [1..f[i] -> Of(i)] /\ \A m, n \in 1..f[i] : h[m] = h[n] => m = n
<1>1. ASSUME NEW i \in S PROVE \E h : Into(i, h)
  <2>1. IsFiniteSet({t \in T : part[t] = i})
    BY FS_Subset
  <2>2. IsFiniteSet(Of(i)) /\ Cardinality(Of(i)) \in Nat
    BY <2>1, UnitsFinite
  <2>3. f[i] \in Nat /\ f[i] <= Cardinality(Of(i))
    OBVIOUS
  <2> HIDE DEF Of
  <2> QED BY <2>2, <2>3, Numbered
<1> DEFINE into == [i \in S |-> CHOOSE h : Into(i, h)]
           place == [u \in Units(S, f) |-> into[u[1]][u[2]]]
<1>2. \A i \in S : Into(i, into[i])
  BY <1>1
<1> HIDE DEF into
<1>3. ASSUME NEW u \in Units(S, f)
      PROVE  /\ u[1] \in S /\ u[2] \in 1..f[u[1]] /\ u = <<u[1], u[2]>>
             /\ place[u] \in Of(u[1])
  <2>1. PICK i \in S : \E n \in 1..f[i] : u = <<i, n>>
    BY UnitPair
  <2>2. PICK n \in 1..f[i] : u = <<i, n>>
    BY <2>1
  <2>3. into[i] \in [1..f[i] -> Of(i)]
    BY <1>2
  <2> QED BY <2>2, <2>3
<1>4. ASSUME NEW i \in S, NEW v \in Of(i)
      PROVE  v \in all /\ v[1] \in T /\ part[v[1]] = i
  <2>1. PICK t \in {t \in T : part[t] = i} : \E n \in 1..r[t] : v = <<t, n>>
    BY UnitPair
  <2>2. PICK n \in 1..r[t] : v = <<t, n>>
    BY <2>1
  <2> QED BY <2>1, <2>2, UnitIn
<1> HIDE DEF Of, all
<1>5. place \in [Units(S, f) -> all]
  BY <1>3, <1>4
<1>6. ASSUME NEW u \in Units(S, f), NEW v \in Units(S, f), place[u] = place[v]
      PROVE  u = v
  <2>1. u[1] = v[1]
    BY <1>3, <1>4, <1>6
  <2>2. into[u[1]][u[2]] = into[u[1]][v[2]]
    BY <1>6, <2>1
  <2>3. u[2] = v[2]
    BY <1>2, <1>3, <2>1, <2>2
  <2> QED BY <1>3, <2>1, <2>3
<1>7. place \in Injection(Units(S, f), all)
  BY <1>5, <1>6, Fun_IsInj
<1>8. IsFiniteSet(all)
  BY UnitsFinite DEF all
<1> HIDE DEF place
<1> QED BY <1>7, <1>8, FS_Injection DEF all

\* What a job has recorded, and how its last attempt ended.
JobTold ==
  \A j \in Jobs :
    /\ attempt[j] \in 1..(Retries[j] + 1)
    /\ records[j] = IF where[j] = "done" THEN attempt[j] ELSE attempt[j] - 1
    /\ where[j] = "release" => verdict[j] \in {"success", "failed", "raised"}
    /\ where[j] \in {"read", "write"} => verdict[j] \in {"success", "failed"}
    /\ where[j] = "done" => verdict[j] = "success" \/ (verdict[j] = "failed" /\ attempt[j] = Retries[j] + 1)
    /\ where[j] = "dead" => verdict[j] = "raised"

Won(j) == where[j] = "done" /\ verdict[j] = "success"

\* A job with an id of its own is counted as it is.
OwnTold ==
  \A j \in Jobs : OnlyOne(j) =>
    /\ tally[id[j]] = records[j] /\ (where[j] = "write" => old[j] = records[j])
    /\ success[id[j]] = "true" <=> Won(j)

\* An id which has succeeded is that of a job which has.
WinsTold == \A i \in Ids : success[i] = "true" => \E j \in Jobs : id[j] = i /\ Won(j)

\* The counter of an id, and a value it is about to be increased from, is at most what the
\* jobs with that id have recorded: what is lost is never made up.
Group(i) == {j \in Jobs : id[j] = i}
Recorded(i) == Cardinality(Units(Group(i), records))
TallyBounded ==
  /\ \A i \in Ids : tally[i] <= Recorded(i)
  /\ \A j \in Jobs : where[j] = "write" => old[j] <= Recorded(id[j])

ReportInv == RpaTypeOK /\ JobTold /\ OwnTold /\ WinsTold /\ TallyBounded

LEMMA NoUnits == ASSUME NEW S, NEW f, \A x \in S : f[x] = 0 PROVE Cardinality(Units(S, f)) = 0
<1>1. Units(S, f) = {}
  BY DEF Units
<1> QED BY <1>1, FS_EmptySet

\* No thread has begun.
LEMMA ReportInit == RpaInit => ReportInv
<1> SUFFICES ASSUME RpaInit PROVE ReportInv
  OBVIOUS
<1> USE RpaAssumption
<1>1. \A j \in Jobs : id[j] \in Ids /\ Domain[j] \in Domains
  BY DEF Ids, Domains
<1>2. RpaTypeOK
  <2>1. id \in Namings /\ permits \in 0..MaxBrowsers
    BY DEF RpaInit
  <2>2. /\ where \in [Jobs -> {"slot", "acquire", "enter", "run", "release", "read", "write", "done", "dead"}]
        /\ wake \in [Jobs -> Nat] /\ attempt \in [Jobs -> Nat] /\ backoff \in [Jobs -> Nat]
        /\ verdict \in [Jobs -> {"none", "success", "failed", "raised"}] /\ old \in [Jobs -> Nat]
    BY DEF RpaInit
  <2>3. slot \in [Domains -> 0..Interval] /\ gap \in [Domains -> 0..Interval] /\ lastLag \in [Domains -> 0..Interval]
    BY DEF RpaInit
  <2>4. active \in Nat /\ peak \in Nat /\ tally \in [Ids -> Nat] /\ records \in [Jobs -> Nat]
    BY DEF RpaInit
  <2>5. success \in [Ids -> {"none", "true", "false"}] /\ close \in BOOLEAN
    BY DEF RpaInit
  <2>6. lag \in [Jobs -> 0..Interval]
    BY DEF RpaInit
  <2> QED BY <2>1, <2>2, <2>3, <2>4, <2>5, <2>6 DEF RpaTypeOK
<1>3. JobTold
  BY DEF RpaInit, JobTold
<1>4. OwnTold /\ WinsTold
  BY <1>1 DEF RpaInit, OwnTold, WinsTold, Won
<1>5. \A i \in Ids : Recorded(i) = 0
  BY NoUnits DEF RpaInit, Recorded, Group
<1>6. TallyBounded
  BY <1>1, <1>5 DEF RpaInit, TallyBounded
<1> QED BY <1>2, <1>3, <1>4, <1>6 DEF ReportInv

LEMMA Retyped ==
  ASSUME RInv, RpaTypeOK, [RpaNext]_rpaVars
  PROVE  RpaTypeOK'
<1> USE RpaAssumption DEF RpaTypeOK
<1>1. \A j \in Jobs : id[j] \in Ids /\ Domain[j] \in Domains
  BY DEF Ids, Domains
<1>2. CASE UNCHANGED rpaVars
  BY <1>2 DEF rpaVars, own, shared, watched, Ids
<1>3. CASE Tick
  <2>1. wake' \in [Jobs -> Nat] /\ slot' \in [Domains -> 0..Interval]
    BY <1>3 DEF Tick, Sooner
  <2>2. lag' \in [Jobs -> 0..Interval] /\ gap' \in [Domains -> 0..Interval]
    BY <1>3 DEF Tick, Later
  <2> QED BY <1>3, <2>1, <2>2 DEF Tick, Ids
<1>4. ASSUME NEW j \in Jobs, Reserve(j) PROVE RpaTypeOK'
  <2>1. slot[Domain[j]] \in Nat
    BY <1>1
  <2>2. wake' \in [Jobs -> Nat] /\ slot' \in [Domains -> 0..Interval] /\ lag' \in [Jobs -> 0..Interval]
    BY <1>1, <1>4, <2>1 DEF Reserve
  <2>3. where' \in [Jobs -> {"slot", "acquire", "enter", "run", "release", "read", "write", "done", "dead"}]
    BY <1>4 DEF Reserve, GoTo
  <2> QED BY <1>4, <2>2, <2>3 DEF Reserve, Ids
<1>5. ASSUME NEW j \in Jobs, AcquirePermit(j) PROVE RpaTypeOK'
  BY <1>1, <1>5 DEF AcquirePermit, GoTo, Ids
<1>6. ASSUME NEW j \in Jobs, Enter(j) PROVE RpaTypeOK'
  BY <1>1, <1>6 DEF Enter, GoTo, Ids, watched
<1>7. ASSUME NEW j \in Jobs, NEW answer \in {"success", "failed", "raised"}, Exit(j, answer) PROVE RpaTypeOK'
  BY <1>1, <1>7 DEF Exit, GoTo, Ids, watched
<1>8. ASSUME NEW j \in Jobs, ReleasePermit(j) PROVE RpaTypeOK'
  <2>1. permits' \in 0..MaxBrowsers
    <3>1. RInv'
      BY RpaNextInv
    <3>2. Cardinality(WithPermit') \in Nat
      BY JobsCounted DEF WithPermit
    <3> QED BY <3>1, <3>2 DEF RInv, CapHeld
  <2> QED BY <1>8, <2>1 DEF ReleasePermit, GoTo, Ids, watched
<1>9. ASSUME NEW j \in Jobs, ReadTally(j) PROVE RpaTypeOK'
  BY <1>1, <1>9 DEF ReadTally, GoTo, Ids, watched, shared
<1>10. ASSUME NEW j \in Jobs, WriteTally(j) PROVE RpaTypeOK'
  <2>1. /\ tally' \in [Ids -> Nat] /\ records' \in [Jobs -> Nat] /\ old' \in [Jobs -> Nat]
    BY <1>1, <1>10 DEF WriteTally
  <2>2. /\ success' \in [Ids -> {"none", "true", "false"}] /\ wake' \in [Jobs -> Nat]
        /\ attempt' \in [Jobs -> Nat] /\ backoff' \in [Jobs -> Nat]
    BY <1>1, <1>10 DEF WriteTally, Judge, Settle, Retry, Doubled
  <2>3. where' \in [Jobs -> {"slot", "acquire", "enter", "run", "release", "read", "write", "done", "dead"}]
    BY <1>10 DEF WriteTally, Judge, Settle, Retry, GoTo
  <2> QED BY <1>10, <2>1, <2>2, <2>3 DEF WriteTally, Ids, watched
<1> QED
  BY <1>2, <1>3, <1>4, <1>5, <1>6, <1>7, <1>8, <1>9, <1>10 DEF RpaNext, Thread

\* Where a thread neither records nor ends, the accounts stay.
LEMMA AccountsStay ==
  ASSUME RpaTypeOK, JobTold, OwnTold, WinsTold, TallyBounded,
         UNCHANGED <<id, attempt, tally, records, success>>,
         NEW j \in Jobs, where[j] \notin {"write", "done", "dead"},
         NEW place \in Places \ {"write", "done"}, NEW answer,
         where' = where \/ where' = [where EXCEPT ![j] = place],
         old' = old, verdict' = verdict \/ verdict' = [verdict EXCEPT ![j] = answer],
         where'[j] = "release" => verdict'[j] \in {"success", "failed", "raised"},
         where'[j] = "read" => verdict'[j] \in {"success", "failed"},
         where'[j] = "dead" => verdict'[j] = "raised"
  PROVE  JobTold' /\ OwnTold' /\ WinsTold' /\ TallyBounded'
<1>1. /\ \A k \in Jobs \ {j} : where'[k] = where[k] /\ verdict'[k] = verdict[k]
      /\ where'[j] \notin {"write", "done"}
  BY DEF RpaTypeOK, Places
<1>2. JobTold'
  BY <1>1 DEF JobTold
<1>3. \A k \in Jobs : Won(k)' <=> Won(k)
  BY <1>1 DEF Won
<1>4. OwnTold'
  BY <1>1, <1>3 DEF OwnTold, OnlyOne
<1>5. WinsTold'
  BY <1>3 DEF WinsTold, Ids
<1>6. TallyBounded'
  BY <1>1 DEF TallyBounded, Recorded, Group, Units, Ids
<1> QED BY <1>2, <1>4, <1>5, <1>6

\* attempts_by_job[id] += 1 reads: what is read is not more than what is recorded.
LEMMA ReadAccounts ==
  ASSUME RpaTypeOK, JobTold, OwnTold, WinsTold, TallyBounded, NEW j \in Jobs, ReadTally(j)
  PROVE  JobTold' /\ OwnTold' /\ WinsTold' /\ TallyBounded'
<1>1. /\ where[j] = "read" /\ old' = [old EXCEPT ![j] = tally[id[j]]] /\ where' = [where EXCEPT ![j] = "write"]
      /\ UNCHANGED <<id, attempt, verdict, tally, success, records>>
  BY DEF ReadTally, GoTo, shared
<1>2. /\ \A k \in Jobs \ {j} : where'[k] = where[k] /\ old'[k] = old[k]
      /\ where'[j] = "write" /\ old'[j] = tally[id[j]]
  BY <1>1 DEF RpaTypeOK
<1>3. JobTold'
  BY <1>1, <1>2 DEF JobTold
<1>4. \A k \in Jobs : Won(k)' <=> Won(k)
  BY <1>1, <1>2 DEF Won
<1>5. OwnTold'
  BY <1>1, <1>2, <1>4 DEF OwnTold, OnlyOne
<1>6. WinsTold'
  BY <1>1, <1>4 DEF WinsTold, Ids
<1>7. id[j] \in Ids
  BY DEF Ids
<1>8. \A i : Recorded(i)' = Recorded(i)
  BY <1>1 DEF Recorded, Group, Units
<1>9. TallyBounded'
  BY <1>1, <1>2, <1>7, <1>8 DEF TallyBounded, Ids
<1> QED BY <1>3, <1>5, <1>6, <1>9

\* It writes, and the attempt is recorded: the group of the id has recorded one more.
LEMMA WriteAccounts ==
  ASSUME RpaTypeOK, JobTold, OwnTold, WinsTold, TallyBounded, NEW j \in Jobs, WriteTally(j)
  PROVE  JobTold' /\ OwnTold' /\ WinsTold' /\ TallyBounded'
<1> USE RpaAssumption
<1>1. /\ where[j] = "write" /\ tally' = [tally EXCEPT ![id[j]] = old[j] + 1]
      /\ records' = [records EXCEPT ![j] = @ + 1] /\ old' = [old EXCEPT ![j] = 0]
      /\ Judge(j) /\ UNCHANGED <<id, verdict>>
  BY DEF WriteTally
<1>2. /\ id[j] \in Ids /\ records[j] \in Nat /\ attempt[j] \in Nat /\ Retries[j] \in Nat /\ old[j] \in Nat
      /\ records[j] = attempt[j] - 1 /\ attempt[j] \in 1..(Retries[j] + 1)
      /\ verdict[j] \in {"success", "failed"}
  BY <1>1 DEF RpaTypeOK, JobTold, Ids
<1>3. \/ /\ verdict[j] = "success" \/ (verdict[j] = "failed" /\ attempt[j] = Retries[j] + 1)
         /\ success' = [success EXCEPT ![id[j]] = IF verdict[j] = "success" THEN "true" ELSE "false"]
         /\ where' = [where EXCEPT ![j] = "done"] /\ attempt' = attempt
      \/ /\ verdict[j] = "failed" /\ attempt[j] <= Retries[j]
         /\ success' = success
         /\ where' = [where EXCEPT ![j] = "slot"] /\ attempt' = [attempt EXCEPT ![j] = @ + 1]
  <2>1. CASE verdict[j] = "success"
    <3>1. /\ success' = [success EXCEPT ![id[j]] = "true"]
          /\ where' = [where EXCEPT ![j] = "done"] /\ attempt' = attempt
      BY <1>1, <2>1 DEF Judge, Settle, GoTo
    <3>2. (IF verdict[j] = "success" THEN "true" ELSE "false") = "true"
      BY <2>1
    <3>3. success' = [success EXCEPT ![id[j]] = IF verdict[j] = "success" THEN "true" ELSE "false"]
      BY <3>1, <3>2
    <3> QED BY <2>1, <3>1, <3>3
  <2>2. CASE verdict[j] = "failed" /\ attempt[j] > Retries[j]
    <3>1. attempt[j] = Retries[j] + 1
      BY <1>2, <2>2
    <3> QED BY <1>1, <2>2, <3>1 DEF Judge, Settle, GoTo
  <2>3. CASE verdict[j] = "failed" /\ ~(attempt[j] > Retries[j])
    <3>1. attempt[j] <= Retries[j]
      BY <1>2, <2>3
    <3> QED BY <1>1, <2>3, <3>1 DEF Judge, Retry, GoTo
  <2> QED BY <1>2, <2>1, <2>2, <2>3
<1>4. /\ \A k \in Jobs \ {j} : /\ where'[k] = where[k] /\ attempt'[k] = attempt[k]
                               /\ records'[k] = records[k] /\ old'[k] = old[k]
      /\ records'[j] = records[j] + 1 /\ where'[j] \in {"done", "slot"}
      /\ where'[j] = "done" => /\ verdict[j] = "success" \/ (verdict[j] = "failed" /\ attempt[j] = Retries[j] + 1)
                               /\ attempt'[j] = attempt[j]
      /\ where'[j] = "slot" => verdict[j] = "failed" /\ attempt[j] <= Retries[j] /\ attempt'[j] = attempt[j] + 1
  BY <1>1, <1>2, <1>3 DEF RpaTypeOK
<1>5. /\ \A i \in Ids \ {id[j]} : success'[i] = success[i] /\ tally'[i] = tally[i]
      /\ tally'[id[j]] = old[j] + 1
      /\ where'[j] = "done" => success'[id[j]] = (IF verdict[j] = "success" THEN "true" ELSE "false")
      /\ where'[j] = "slot" => success'[id[j]] = success[id[j]]
  BY <1>1, <1>2, <1>3 DEF RpaTypeOK
<1>6. JobTold'
  BY <1>1, <1>2, <1>4 DEF JobTold
<1>7. /\ \A k \in Jobs \ {j} : Won(k)' <=> Won(k)
      /\ ~Won(j) /\ (Won(j)' <=> where'[j] = "done" /\ verdict[j] = "success")
  BY <1>1, <1>4 DEF Won
<1>8. OwnTold'
  <2> SUFFICES ASSUME NEW k \in Jobs, OnlyOne(k)'
               PROVE  /\ tally'[id[k]] = records'[k] /\ (where'[k] = "write" => old'[k] = records'[k])
                      /\ success'[id[k]] = "true" <=> Won(k)'
    BY <1>1 DEF OwnTold
  <2>1. OnlyOne(k) /\ id[k] \in Ids
    BY <1>1 DEF OnlyOne, Ids
  <2>2. /\ tally[id[k]] = records[k] /\ (where[k] = "write" => old[k] = records[k])
        /\ success[id[k]] = "true" <=> Won(k)
    BY <2>1 DEF OwnTold
  <2>3. CASE k = j
    BY <2>2, <2>3, <1>1, <1>4, <1>5, <1>7
  <2>4. CASE k # j
    <3>1. id[k] # id[j]
      BY <2>1, <2>4 DEF OnlyOne
    <3> QED BY <2>1, <2>2, <2>4, <3>1, <1>4, <1>5, <1>7
  <2> QED BY <2>3, <2>4
<1>9. WinsTold'
  <2> SUFFICES ASSUME NEW i \in Ids, success'[i] = "true"
               PROVE  \E k \in Jobs : id[k] = i /\ Won(k)'
    BY <1>1 DEF WinsTold, Ids
  <2>1. CASE success[i] = "true"
    <3>1. PICK k \in Jobs : id[k] = i /\ Won(k)
      BY <2>1 DEF WinsTold
    <3> QED BY <3>1, <1>7
  <2>2. CASE success[i] # "true"
    BY <2>2, <1>4, <1>5, <1>7
  <2> QED BY <2>1, <2>2
<1>10. \A i \in Ids : Recorded(i) \in Nat /\ Recorded(i)' = Recorded(i) + (IF i = id[j] THEN 1 ELSE 0)
  <2>1. \A i \in Ids : IsFiniteSet(Group(i))
    BY FS_Subset DEF Group
  <2>2. \A i \in Ids : Group(i)' = Group(i) /\ \A k \in Group(i) : records[k] \in Nat /\ k \in Jobs
    BY <1>1 DEF Group, RpaTypeOK
  <2>3. j \in Group(id[j]) /\ \A i \in Ids \ {id[j]} : j \notin Group(i)
    BY DEF Group
  <2>4. Cardinality(Units(Group(id[j]), records')) = Cardinality(Units(Group(id[j]), records)) + 1
    <3>1. \A k \in Group(id[j]) \ {j} : records'[k] = records[k]
      BY <2>2, <1>2, <1>4
    <3>2. IsFiniteSet(Group(id[j])) /\ \A k \in Group(id[j]) : records[k] \in Nat
      BY <2>1, <2>2, <1>2
    <3> QED BY <2>3, <3>1, <3>2, <1>4, UnitMore
  <2>5. \A i \in Ids \ {id[j]} : Units(Group(i), records') = Units(Group(i), records)
    <3> SUFFICES ASSUME NEW i \in Ids \ {id[j]} PROVE Units(Group(i), records') = Units(Group(i), records)
      OBVIOUS
    <3>1. \A k \in Group(i) : records'[k] = records[k]
      BY <2>2, <2>3, <1>4
    <3> QED BY <3>1 DEF Units
  <2>6. \A i \in Ids : Cardinality(Units(Group(i), records)) \in Nat
    BY <2>1, <2>2, UnitsFinite
  <2>7. \A i \in Ids : Recorded(i)' = Cardinality(Units(Group(i), records'))
    <3> SUFFICES ASSUME NEW i \in Ids PROVE Recorded(i)' = Cardinality(Units(Group(i), records'))
      OBVIOUS
    <3>1. Group(i)' = Group(i)
      BY <2>2
    <3> QED BY <3>1 DEF Recorded, Units
  <2>8. \A i \in Ids : Recorded(i) = Cardinality(Units(Group(i), records))
    BY DEF Recorded
  <2>9. \A i \in Ids \ {id[j]} : Recorded(i)' = Recorded(i)
    BY <2>5, <2>7, <2>8
  <2>10. \A i \in Ids : i = id[j] => Recorded(i)' = Recorded(i) + 1
    BY <2>4, <2>7, <2>8
  <2> QED BY <2>6, <2>8, <2>9, <2>10
<1>11. TallyBounded'
  <2>1. \A i \in Ids : tally[i] <= Recorded(i) /\ tally[i] \in Nat
    BY DEF TallyBounded, RpaTypeOK
  <2>2. old[j] <= Recorded(id[j])
    BY <1>1 DEF TallyBounded
  <2>3. \A i \in Ids : tally'[i] <= Recorded(i)'
    <3> SUFFICES ASSUME NEW i \in Ids PROVE tally'[i] <= Recorded(i)'
      OBVIOUS
    <3>1. CASE i = id[j]
      <4>1. Recorded(i)' = Recorded(i) + 1 /\ Recorded(i) \in Nat
        BY <3>1, <1>10
      <4>2. tally'[i] = old[j] + 1 /\ old[j] <= Recorded(i) /\ old[j] \in Nat
        BY <3>1, <2>2, <1>2, <1>5
      <4> QED BY <4>1, <4>2
    <3>2. CASE i # id[j]
      BY <3>2, <2>1, <1>5, <1>10
    <3> QED BY <3>1, <3>2
  <2>4. \A k \in Jobs, i \in Ids : where'[k] = "write" /\ id[k] = i => old'[k] <= Recorded(i)'
    <3> SUFFICES ASSUME NEW k \in Jobs, NEW i \in Ids, where'[k] = "write", id[k] = i PROVE old'[k] <= Recorded(i)'
      OBVIOUS
    <3>1. k # j /\ where[k] = "write" /\ old'[k] = old[k] /\ old[k] \in Nat
      BY <1>4 DEF RpaTypeOK
    <3>2. old[k] <= Recorded(i)
      BY <3>1 DEF TallyBounded
    <3>3. Recorded(i) \in Nat /\ Recorded(i)' \in {Recorded(i), Recorded(i) + 1}
      BY <1>10
    <3> QED BY <3>1, <3>2, <3>3
  <2>5. \A k \in Jobs : id'[k] = id[k] /\ id[k] \in Ids
    BY <1>1 DEF Ids
  <2>6. Ids' = Ids
    BY <1>1 DEF Ids
  <2> QED BY <2>3, <2>4, <2>5, <2>6 DEF TallyBounded
<1> QED BY <1>6, <1>8, <1>9, <1>11

\* Every step keeps the accounts.
LEMMA ReportNext == RInv /\ ReportInv /\ [RpaNext]_rpaVars => ReportInv'
<1> SUFFICES ASSUME RInv, ReportInv, [RpaNext]_rpaVars PROVE ReportInv'
  OBVIOUS
<1> USE DEF Places
<1> DEFINE Kept == JobTold' /\ OwnTold' /\ WinsTold' /\ TallyBounded'
<1>1. RpaTypeOK /\ JobTold /\ OwnTold /\ WinsTold /\ TallyBounded
  BY DEF ReportInv
<1>2. ASSUME UNCHANGED rpaVars \/ Tick PROVE Kept
  <2>1. UNCHANGED <<id, where, attempt, verdict, old, tally, records, success>>
    BY <1>2 DEF rpaVars, own, shared, Tick
  <2>2. JobTold' /\ OwnTold' /\ WinsTold'
    BY <1>1, <2>1 DEF JobTold, OwnTold, WinsTold, Won, OnlyOne, Ids
  <2>3. TallyBounded'
    BY <1>1, <2>1 DEF TallyBounded, Recorded, Group, Units, Ids
  <2> QED BY <2>2, <2>3
<1>3. ASSUME NEW j \in Jobs, Reserve(j) PROVE Kept
  <2>1. /\ where[j] = "slot" /\ (where' = where \/ where' = [where EXCEPT ![j] = "acquire"])
        /\ UNCHANGED <<id, attempt, tally, records, success, old, verdict>>
    BY <1>3 DEF Reserve, GoTo
  <2>2. where'[j] \in {"slot", "acquire"}
    BY <1>1, <2>1 DEF RpaTypeOK
  <2> QED BY <1>1, <2>1, <2>2, AccountsStay
<1>4. ASSUME NEW j \in Jobs, AcquirePermit(j) \/ Enter(j) PROVE Kept
  <2>1. /\ where[j] \in {"acquire", "enter"}
        /\ where' = [where EXCEPT ![j] = "enter"] \/ where' = [where EXCEPT ![j] = "run"]
        /\ UNCHANGED <<id, attempt, tally, records, success, old, verdict>>
    BY <1>4 DEF AcquirePermit, Enter, GoTo
  <2>2. where'[j] \in {"enter", "run"}
    BY <1>1, <2>1 DEF RpaTypeOK
  <2> QED BY <1>1, <2>1, <2>2, AccountsStay
<1>5. ASSUME NEW j \in Jobs, NEW answer \in {"success", "failed", "raised"}, Exit(j, answer) PROVE Kept
  <2>1. /\ where[j] = "run" /\ where' = [where EXCEPT ![j] = "release"]
        /\ verdict' = [verdict EXCEPT ![j] = answer]
        /\ UNCHANGED <<id, attempt, tally, records, success, old>>
    BY <1>5 DEF Exit, GoTo
  <2>2. where'[j] = "release" /\ verdict'[j] = answer
    BY <1>1, <2>1 DEF RpaTypeOK
  <2> QED BY <1>1, <2>1, <2>2, AccountsStay
<1>6. ASSUME NEW j \in Jobs, ReleasePermit(j) PROVE Kept
  <2>1. /\ where[j] = "release" /\ where' = [where EXCEPT ![j] = IF verdict[j] = "raised" THEN "dead" ELSE "read"]
        /\ UNCHANGED <<id, attempt, tally, records, success, old, verdict>>
    BY <1>6 DEF ReleasePermit, GoTo
  <2>2. where'[j] = (IF verdict[j] = "raised" THEN "dead" ELSE "read") /\ verdict[j] \in {"success", "failed", "raised"}
    BY <1>1, <2>1 DEF RpaTypeOK, JobTold
  <2>3. CASE verdict[j] = "raised"
    <3>1. where' = [where EXCEPT ![j] = "dead"] /\ where'[j] = "dead"
      BY <2>1, <2>2, <2>3
    <3> QED BY <1>1, <2>1, <2>3, <3>1, AccountsStay
  <2>4. CASE verdict[j] # "raised"
    <3>1. where' = [where EXCEPT ![j] = "read"] /\ where'[j] = "read" /\ verdict[j] \in {"success", "failed"}
      BY <2>1, <2>2, <2>4
    <3> QED BY <1>1, <2>1, <2>4, <3>1, AccountsStay
  <2> QED BY <2>3, <2>4
<1>7. ASSUME NEW j \in Jobs, ReadTally(j) \/ WriteTally(j) PROVE Kept
  BY <1>1, <1>7, ReadAccounts, WriteAccounts
<1>8. Kept
  BY <1>2, <1>3, <1>4, <1>5, <1>6, <1>7 DEF RpaNext, Thread
<1> QED BY <1>1, <1>8, Retyped DEF ReportInv

\* Once all are joined, the report is what the accounts tell.
LEMMA ReportTold == ReportInv => ReportTrue /\ AttemptsAccounted
<1> SUFFICES ASSUME ReportInv, Joined PROVE ReportTrue /\ AttemptsAccounted
  BY DEF ReportTrue, AttemptsAccounted
<1> USE RpaAssumption
<1>1. /\ RpaTypeOK /\ JobTold /\ OwnTold /\ WinsTold /\ TallyBounded
      /\ \A j \in Jobs : where[j] \in {"done", "dead"}
  BY DEF ReportInv, Joined, Over
<1>2. \A j \in Jobs : Won(j) <=> verdict[j] = "success"
  BY <1>1 DEF JobTold, Won
<1>3. ReportOk => \A j \in Jobs : verdict[j] = "success"
  <2> DEFINE won == {j \in Jobs : Won(j)}
             true == {i \in Ids : success[i] = "true"}
             winner == [i \in true |-> CHOOSE j \in Jobs : id[j] = i /\ Won(j)]
  <2>1. \A i \in true : winner[i] \in won /\ id[winner[i]] = i
    BY <1>1 DEF WinsTold
  <2> HIDE DEF true
  <2>2. winner \in [true -> won]
    BY <2>1
  <2>3. \A i, k \in true : winner[i] = winner[k] => i = k
    BY <2>1
  <2> HIDE DEF winner
  <2>4. winner \in Injection(true, won)
    BY <2>2, <2>3, Fun_IsInj
  <2>5. IsFiniteSet(won) /\ Cardinality(won) \in Nat /\ Cardinality(won) <= Cardinality(Jobs)
        /\ Cardinality(Jobs) \in Nat /\ (Cardinality(won) = Cardinality(Jobs) => won = Jobs)
    <3>1. won \subseteq Jobs
      OBVIOUS
    <3> HIDE DEF won
    <3> QED BY <3>1, FS_Subset, FS_CardinalityType
  <2> HIDE DEF won
  <2>6. IsFiniteSet(true) /\ Cardinality(true) <= Cardinality(won)
    BY <2>4, <2>5, FS_Injection
  <2>7. Cardinality(true) \in Nat
    BY <2>6, FS_CardinalityType
  <2>8. ReportOk => Cardinality(true) = Cardinality(Jobs)
    BY <2>5, <2>7 DEF ReportOk, JobsFailed, JobsSucceeded, true
  <2>9. ReportOk => won = Jobs
    BY <2>5, <2>6, <2>7, <2>8
  <2> QED BY <2>9, <1>2 DEF won
<1>4. ReportTrue
  BY <1>1, <1>2, <1>3 DEF ReportTrue, OwnTold
<1>5. \A j \in Jobs : records[j] = IF verdict[j] = "raised" THEN attempt[j] - 1 ELSE attempt[j]
  BY <1>1 DEF JobTold
<1>6. AttemptsTotal <= Cardinality(Units(Jobs, records))
  <2> DEFINE part == [j \in Jobs |-> id[j]]
  <2>1. part \in [Jobs -> Ids] /\ \A i : {j \in Jobs : part[j] = i} = Group(i)
    BY DEF Ids, Group
  <2> HIDE DEF part
  <2>2. \A i \in Ids : tally[i] \in Nat /\ tally[i] <= Cardinality(Units({j \in Jobs : part[j] = i}, records))
    BY <1>1, <2>1 DEF TallyBounded, Recorded, RpaTypeOK
  <2>3. \A j \in Jobs : records[j] \in Nat
    BY <1>1 DEF RpaTypeOK
  <2> QED BY <2>1, <2>2, <2>3, UnitsBounded DEF AttemptsTotal
<1>7. /\ \A j \in Jobs : verdict[j] = "failed" => attempt[j] = Retries[j] + 1
      /\ \A j \in Jobs : OnlyOne(j) => tally[id[j]] = records[j]
  BY <1>1 DEF JobTold, OwnTold
<1>8. AttemptsAccounted
  BY <1>5, <1>6, <1>7 DEF AttemptsAccounted
<1> QED BY <1>4, <1>8

\* run_rpa_schedule reports what its threads have done: an ok report means every job has
\* succeeded, every failure has used its retries, every attempt but one whose runner
\* raised is recorded, and attempts_total never says more than that, although the
\* counters are increased without a lock.
THEOREM RpaSoundHolds == RpaSpec => []RpaSound
<1>1. ReportInv /\ SpacedUpToLag => RpaSound
  BY ReportTold DEF ReportInv, RpaSound
<1>2. RpaSpec => []RInv
  BY RpaInitInv, RpaNextInv, PTL DEF RpaSpec
<1>3. RpaSpec => []ReportInv
  BY <1>2, ReportInit, ReportNext, PTL DEF RpaSpec
<1> QED BY <1>1, <1>3, SpacedUpToLagHolds, PTL

----------------------------------------------------------------------------
(* Pull requests: what pr-merge merges and pr-wait files issues about.      *)

\* What pr-merge knows of the score, once it has read it, was true or has changed since.
ScoreKnown ==
  /\ health \in {"high", "low", "unusable"}
  /\ merger.at = "read" => merger.why \in {"high", "low"}
  /\ merger.at \in {"read", "merge"} /\ merger.why = "high" => health = "high" \/ "health" \in moved

\* What it knows of the checks was true, has changed since, or was not shown to it.
ChecksKnown ==
  merger.at = "merge" =>
    /\ merger.why = "high"
    /\ RequireGreen => hidden \/ "checks" \in moved \/ \A c \in Checks : ci[c] = "passed"

\* A wait is about a request which exists, and with CloseOnFailure it comes to the issue
\* only through a close which was answered.
IssueDue ==
  /\ pr \in {"NONE", "OPEN", "CLOSED", "MERGED"}
  /\ pr = "NONE" => waiter.at = "idle"
  /\ waiter.at = "issue" /\ CloseOnFailure => pr # "OPEN"
  /\ waiter.at \in {"idle", "poll", "late", "close", "issue", "end"}

PInv ==
  /\ merger = [at |-> merger.at, why |-> merger.why, source |-> merger.source]
  /\ waiter = [at |-> waiter.at, attempt |-> waiter.attempt, streak |-> waiter.streak, why |-> waiter.why]
  /\ DOMAIN ci = Checks /\ issues \in Nat
  /\ ScoreKnown /\ ChecksKnown /\ IssueDue

\* The invariant holds before anything has been asked.
LEMMA PrInitInv == Init => PInv
<1> SUFFICES ASSUME Init PROVE PInv
  OBVIOUS
<1>1. /\ merger = [at |-> "idle", why |-> "", source |-> ""]
      /\ waiter = [at |-> "idle", attempt |-> 1, streak |-> 0, why |-> ""]
      /\ pr = "NONE" /\ DOMAIN ci = Checks /\ issues = 0 /\ health \in {"high", "low", "unusable"}
  BY DEF Init, Idle
<1> QED
  BY <1>1 DEF PInv, ScoreKnown, ChecksKnown, IssueDue

\* Pushes, CI, people and the writer of the health file.
LEMMA GitHubKeeps ==
  ASSUME PInv, GitHub
  PROVE  PInv' /\ UNCHANGED <<merger, waiter, issues>>
<1> USE DEF PInv, ScoreKnown, ChecksKnown, IssueDue, Unchanged, Moves
<1>1. CASE Push
  BY <1>1 DEF Push
<1>2. ASSUME NEW c \in Checks, NEW state \in {"queued", "passed", "failed", "odd"}, Report(c, state)
      PROVE  PInv' /\ UNCHANGED <<merger, waiter, issues>>
  BY <1>2 DEF Report
<1>3. ASSUME NEW state \in {"CLOSED", "MERGED"}, Person(state)
      PROVE  PInv' /\ UNCHANGED <<merger, waiter, issues>>
  BY <1>3 DEF Person
<1>4. ASSUME NEW value \in {"high", "low", "unusable"}, WriteHealth(value)
      PROVE  PInv' /\ UNCHANGED <<merger, waiter, issues>>
  BY <1>4 DEF WriteHealth
<1> QED
  BY <1>1, <1>2, <1>3, <1>4 DEF GitHub

\* A request is opened once only: no other one is open, and none is waited for.
LEMMA OpeningKeeps ==
  ASSUME PInv, Opening
  PROVE  PInv' /\ UNCHANGED <<merger, waiter, issues>>
<1> USE DEF PInv, ScoreKnown, ChecksKnown, IssueDue
<1>1. CASE OpenAgain
  BY <1>1 DEF OpenAgain, github
<1>2. ASSUME NEW gh \in Answers, NEW api \in Answers, OpenPr(gh, api)
      PROVE  PInv' /\ UNCHANGED <<merger, waiter, issues>>
  <2>1. pr' = IF Done(gh, api) THEN "OPEN" ELSE pr
    BY <1>2 DEF OpenPr
  <2>2. UNCHANGED <<branch, ci, issues, health, waiter, merger, polls, moved, hidden>>
    BY <1>2 DEF OpenPr
  <2>3. pr # "NONE" => pr' = pr
    <3> SUFFICES ASSUME pr # "NONE" PROVE ~Done(gh, api)
      BY <2>1
    <3>1. gh = "refused" /\ api = "refused"
      BY <1>2 DEF OpenPr, Once
    <3> QED
      BY <3>1 DEF Done, Asked
  <2> QED
    BY <2>1, <2>2, <2>3
<1> QED
  BY <1>1, <1>2 DEF Opening

\* A request takes effect a number of times.
LEMMA TimesType == \A gh, api : Times(gh, api) \in Nat
<1> SUFFICES ASSUME NEW gh, NEW api PROVE Times(gh, api) \in Nat
  OBVIOUS
<1>1. DOMAIN Asked(gh, api) \subseteq 1..2
  BY DEF Asked
<1>2. IsFiniteSet(1..2)
  BY 1 \in Int, 2 \in Int, FS_Interval, Zenon
<1>3. IsFiniteSet({i \in DOMAIN Asked(gh, api) : Asked(gh, api)[i] # "refused"})
  BY <1>1, <1>2, FS_Subset
<1> QED
  BY <1>3, FS_CardinalityType DEF Times

\* pr-wait: the invariant is kept, and an issue is filed only when it is due.
LEMMA WaitKeeps ==
  ASSUME PInv, StartWait \/ Wait
  PROVE  /\ PInv' /\ UNCHANGED merger
         /\ issues' # issues /\ CloseOnFailure => pr # "OPEN"
<1> USE DEF PInv, ScoreKnown, ChecksKnown, IssueDue
<1> DEFINE Kept == PInv' /\ UNCHANGED merger /\ (issues' # issues /\ CloseOnFailure => pr # "OPEN")
<1>1. CASE StartWait
  BY <1>1 DEF StartWait, github, Idle
<1>2. ASSUME NEW source, NEW shown, Poll(source, shown) PROVE Kept
  <2>1. /\ waiter.at = "poll" /\ UNCHANGED <<github, health, opener, merger, moved, hidden>>
        /\ waiter' = IF source = "none" THEN End("error") ELSE AfterPoll(Status("wait", source, shown))
    BY <1>2 DEF Poll
  <2>2. /\ waiter' = [at |-> waiter'.at, attempt |-> waiter'.attempt,
                      streak |-> waiter'.streak, why |-> waiter'.why]
        /\ waiter'.at \in {"poll", "late", "close", "issue", "end"}
        /\ waiter'.at = "issue" => ~CloseOnFailure
    BY <2>1 DEF End, AfterPoll, Stop, Again, AfterClose
  <2> QED
    BY <2>1, <2>2 DEF github
<1>3. ASSUME NEW source, LastLook(source) PROVE Kept
  BY <1>3 DEF LastLook, github, End, Stop, AfterClose
<1>4. ASSUME NEW gh \in Answers, NEW api \in Answers, ClosePr(gh, api) PROVE Kept
  <2>1. /\ waiter.at = "close" /\ UNCHANGED <<branch, ci, issues, health, opener, merger, polls, moved, hidden>>
        /\ pr' = IF pr = "OPEN" /\ Done(gh, api) THEN "CLOSED" ELSE pr
        /\ waiter' = IF Answered(gh, api) THEN [waiter EXCEPT !.at = AfterClose] ELSE End("error")
    BY <1>4 DEF ClosePr
  <2>2. Answered(gh, api) => Done(gh, api)
    <3>1. CASE gh = "ok"
      BY <3>1 DEF Done, Asked
    <3>2. CASE gh # "ok" /\ api = "ok"
      BY <3>2 DEF Done, Asked
    <3> QED
      BY <3>1, <3>2 DEF Answered
  <2> QED
    BY <2>1, <2>2 DEF End, AfterClose
<1>5. ASSUME NEW gh \in Answers, NEW api \in Answers, OpenIssue(gh, api) PROVE Kept
  <2>1. /\ waiter.at = "issue" /\ issues' = issues + Times(gh, api)
        /\ UNCHANGED <<pr, branch, ci, health, opener, merger, polls, moved, hidden>>
        /\ waiter' = IF Answered(gh, api) THEN [waiter EXCEPT !.at = "end"] ELSE End("error")
    BY <1>5 DEF OpenIssue
  <2>2. issues' \in Nat
    BY <2>1, TimesType
  <2>3. /\ waiter' = [at |-> waiter'.at, attempt |-> waiter'.attempt,
                      streak |-> waiter'.streak, why |-> waiter'.why]
        /\ waiter'.at = "end"
    BY <2>1 DEF End
  <2> QED
    BY <2>1, <2>2, <2>3
<1>6. CASE Ask("wait")
  BY <1>6 DEF Ask, github
<1> QED
  BY <1>1, <1>2, <1>3, <1>4, <1>5, <1>6 DEF Wait

\* A status which passes shows no check which failed or is pending.
LEMMA PassedShowsNone ==
  ASSUME NEW who, NEW source, NEW shown, Status(who, source, shown).passed
  PROVE  Failed(source, shown) = {} /\ Pending(source, shown) = {}
  BY DEF Status

\* pr-merge: the invariant is kept.
LEMMA MergeKeeps ==
  ASSUME PInv, StartMerge \/ Merge
  PROVE  PInv' /\ UNCHANGED issues
<1> USE PullRequestAssumption DEF PInv, ScoreKnown, ChecksKnown, IssueDue
<1>1. CASE StartMerge
  BY <1>1 DEF StartMerge, github
<1>2. CASE ReadScore
  BY <1>2 DEF ReadScore, github, Refused
<1>3. ASSUME NEW source, NEW shown \in Shown("merge"), ReadChecks(source, shown)
      PROVE  PInv' /\ UNCHANGED issues
  <2>1. /\ merger.at = "read" /\ UNCHANGED <<github, health, opener, waiter, polls>>
        /\ merger' = IF source = "none" THEN Refused("error") ELSE Policy(Status("merge", source, shown))
        /\ moved' = IF merger'.at # "merge" THEN {}
                    ELSE IF got["merge"].pushed THEN moved \cup {"checks"} ELSE moved \ {"checks"}
    BY <1>3 DEF ReadChecks
  <2>2. CASE merger'.at = "merge"
    <3>1. /\ source # "none" /\ merger' = [merger EXCEPT !.at = "merge"] /\ merger.why = "high"
          /\ RequireGreen => Status("merge", source, shown).passed
      BY <2>1, <2>2 DEF Refused, Policy
    <3>2. RequireGreen => hidden' \/ "checks" \in moved' \/ \A c \in Checks : ci[c] = "passed"
      <4>1. RequireGreen => hidden' \/ \A c \in Checks : shown[c] = "passed"
        BY <2>2, <3>1, <1>3, PassedShowsNone DEF ReadChecks
      <4>2. CASE got["merge"].pushed
        BY <2>1, <2>2, <4>2
      <4>3. CASE ~got["merge"].pushed
        BY <4>1, <4>3 DEF Shown
      <4> QED BY <4>2, <4>3
    <3>3. health \in {"high"} \/ "health" \in moved'
      BY <2>1, <2>2, <3>1
    <3> QED
      BY <2>1, <3>1, <3>2, <3>3 DEF github
  <2>3. CASE merger'.at # "merge"
    BY <2>1, <2>3 DEF Refused, Policy, github
  <2> QED
    BY <2>2, <2>3
<1>4. ASSUME NEW gh \in Answers, NEW api \in Answers, MergePr(gh, api)
      PROVE  PInv' /\ UNCHANGED issues
  BY <1>4 DEF MergePr
<1>5. CASE Ask("merge")
  BY <1>5 DEF Ask, github
<1> QED
  BY <1>1, <1>2, <1>3, <1>4, <1>5 DEF Merge

\* Every step keeps the invariant, and only pr-wait files issues.
LEMMA PrNextInv ==
  ASSUME PInv, [Next]_vars
  PROVE  PInv' /\ (issues' # issues /\ CloseOnFailure => pr # "OPEN")
<1>1. CASE UNCHANGED vars
  BY <1>1 DEF vars, PInv, ScoreKnown, ChecksKnown, IssueDue
<1>2. CASE GitHub
  BY <1>2, GitHubKeeps
<1>3. CASE Opening
  BY <1>3, OpeningKeeps
<1>4. CASE StartWait \/ Wait
  BY <1>4, WaitKeeps
<1>5. CASE StartMerge \/ Merge
  BY <1>5, MergeKeeps
<1> QED
  BY <1>1, <1>2, <1>3, <1>4, <1>5 DEF Next

\* The invariant holds of every behaviour.
LEMMA PrInvariant == Spec => []PInv
<1>1. PInv /\ [Next]_vars => PInv'
  BY PrNextInv
<1> QED
  BY <1>1, PrInitInv, PTL DEF Spec

----------------------------------------------------------------------------
\* _close_and_issue_if_configured files an issue only about a request which is no longer
\* open, if it was to be closed, whichever of gh and the API fails, and however.
THEOREM IssueAfterCloseHolds == Spec => IssueAfterClose
<1> DEFINE Due == issues' > issues /\ CloseOnFailure => pr # "OPEN"
<1>1. PInv /\ [Next]_vars => [Due]_vars
  <2> SUFFICES ASSUME PInv, [Next]_vars, issues' > issues, CloseOnFailure, pr = "OPEN" PROVE FALSE
    OBVIOUS
  <2>1. issues' # issues => pr # "OPEN"
    BY PrNextInv
  <2>2. issues' # issues
    BY DEF PInv
  <2> QED
    BY <2>1, <2>2
<1> QED
  BY <1>1, PrInvariant, PTL DEF Spec, IssueAfterClose

\* merge_pr merges by its policy on what it has read, and what it has read was true,
\* has changed since, or did not show everything.
THEOREM MergedByPolicyHolds == Spec => MergedByPolicy
<1> DEFINE ByPolicy ==
      Merging =>
        /\ health = "high" \/ "health" \in moved
        /\ RequireGreen => hidden \/ "checks" \in moved \/ \A c \in Checks : ci[c] = "passed"
<1>1. PInv => ByPolicy
  BY DEF PInv, ScoreKnown, ChecksKnown, Merging
<1> QED
  BY <1>1, PrInvariant, PTL DEF Spec, MergedByPolicy

----------------------------------------------------------------------------
(* Pull requests: what the commands report.                                 *)

Seen == [state : {"NONE", "OPEN", "CLOSED", "MERGED"}, failed : BOOLEAN, passed : BOOLEAN]

\* What a wait which goes on has seen: nothing to end it, and no row of failures.
Row(seen, last) ==
  last >= FailureThreshold /\ \A i \in (last - FailureThreshold + 1)..last : seen[i].failed
Waited(seen) == \A i \in 1..Len(seen) : seen[i].state = "OPEN" /\ ~seen[i].passed
NoRow(seen) == \A last \in 1..Len(seen) : ~Row(seen, last)

\* The last n, and no more, have failed.
Streaking(seen, n) ==
  /\ n \in 0..Len(seen) /\ n < FailureThreshold
  /\ \A i \in (Len(seen) - n + 1)..Len(seen) : seen[i].failed
  /\ n < Len(seen) => ~seen[Len(seen) - n].failed

\* The attempt and the streak tell what the polls have seen.
PollsTell ==
  /\ waiter.at = "idle" => polls = <<>>
  /\ waiter.at = "poll" =>
       Len(polls) = waiter.attempt - 1 /\ Waited(polls) /\ NoRow(polls) /\ Streaking(polls, waiter.streak)
  /\ waiter.at = "late" => Len(polls) = MaxAttempts /\ Waited(polls) /\ NoRow(polls)
  /\ StopJustified

Openers == [at : {"open", "failed", "end"}, ok : BOOLEAN]
Waiters == [at : {"idle", "poll", "late", "close", "issue", "end"}, attempt : 1..MaxAttempts,
            streak : 0..FailureThreshold,
            why : {"", "state", "passed", "repeated", "timeout", "error"}]
Mergers == [at : {"idle", "score", "read", "merge", "end"},
            why : {"", "high", "low", "health", "state", "checks", "score", "merged", "error"},
            source : {"", "gh", "api"}]

\* What the first request has told.
GotTyped == got \in [{"wait", "merge"} -> {Nothing} \cup [state : {"NONE", "OPEN", "CLOSED"}, pushed : BOOLEAN]]

\* TypeOK but for that, with its sets of records named.
Typed ==
  /\ pr \in {"NONE", "OPEN", "CLOSED", "MERGED"} /\ branch \in BOOLEAN
  /\ ci \in [Checks -> {"absent", "queued", "passed", "failed", "odd"}] /\ issues \in Nat
  /\ health \in {"high", "low", "unusable"}
  /\ opener \in Openers /\ waiter \in Waiters /\ merger \in Mergers /\ polls \in Seq(Seen)
  /\ moved \subseteq {"checks", "health"} /\ hidden \in BOOLEAN

CommandsInv == PInv /\ Typed /\ GotTyped /\ PollsTell /\ ReportsTrue

\* A poll more which does not end the wait: the streak ends, goes on, or is a row.
LEMMA PollMore ==
  ASSUME NEW seen \in Seq(Seen), NEW e \in Seen, NEW n,
         Waited(seen), NoRow(seen), Streaking(seen, n), e.state = "OPEN", ~e.passed
  PROVE  LET m == IF e.failed THEN n + 1 ELSE 0
             more == Append(seen, e)
         IN  /\ more \in Seq(Seen) /\ Len(more) = Len(seen) + 1 /\ Waited(more) /\ m \in 0..FailureThreshold
             /\ m >= FailureThreshold => Row(more, Len(more))
             /\ m < FailureThreshold => NoRow(more) /\ Streaking(more, m)
<1> DEFINE m == IF e.failed THEN n + 1 ELSE 0
           more == Append(seen, e)
<1> USE PullRequestAssumption
<1>1. /\ more \in Seq(Seen) /\ Len(more) = Len(seen) + 1 /\ Len(seen) \in Nat
      /\ \A i \in 1..Len(seen) : more[i] = seen[i]
      /\ more[Len(seen) + 1] = e
  BY AppendFacts
<1>2. n \in 0..Len(seen) /\ n < FailureThreshold /\ m \in 0..FailureThreshold /\ m \in 0..Len(more)
  BY <1>1 DEF Streaking
<1> HIDE DEF more
<1>3. Waited(more)
  BY <1>1 DEF Waited
<1>4. \A i \in (Len(more) - m + 1)..Len(more) : more[i].failed
  <2> SUFFICES ASSUME NEW i \in (Len(more) - m + 1)..Len(more) PROVE more[i].failed
    OBVIOUS
  <2>1. CASE i = Len(seen) + 1
    BY <1>1, <1>2, <2>1
  <2>2. CASE i # Len(seen) + 1
    <3>1. e.failed /\ i \in (Len(seen) - n + 1)..Len(seen) /\ i \in 1..Len(seen)
      BY <1>1, <1>2, <2>2
    <3> QED BY <3>1, <1>1 DEF Streaking
  <2> QED BY <2>1, <2>2
<1>5. m < Len(more) => ~more[Len(more) - m].failed
  <2>1. CASE ~e.failed
    BY <1>1, <2>1
  <2>2. CASE e.failed
    <3> SUFFICES ASSUME m < Len(more) PROVE ~more[Len(more) - m].failed
      OBVIOUS
    <3>1. n < Len(seen) /\ Len(more) - m = Len(seen) - n /\ Len(seen) - n \in 1..Len(seen)
      BY <1>1, <1>2, <2>2
    <3> QED BY <3>1, <1>1 DEF Streaking
  <2> QED BY <2>1, <2>2
<1> HIDE DEF m
<1>6. m >= FailureThreshold => Row(more, Len(more))
  <2> SUFFICES ASSUME m >= FailureThreshold PROVE Row(more, Len(more))
    OBVIOUS
  <2>1. m = FailureThreshold /\ Len(more) >= FailureThreshold
    BY <1>1, <1>2
  <2> QED BY <2>1, <1>4 DEF Row
<1>7. m < FailureThreshold => NoRow(more)
  <2> SUFFICES ASSUME m < FailureThreshold, NEW last \in 1..Len(more), Row(more, last) PROVE FALSE
    BY DEF NoRow
  <2>1. CASE last \in 1..Len(seen)
    <3>1. \A i \in (last - FailureThreshold + 1)..last : i \in 1..Len(seen)
      BY <2>1, <1>1 DEF Row
    <3>2. Row(seen, last)
      BY <3>1, <1>1 DEF Row
    <3> QED BY <3>2, <2>1 DEF NoRow
  <2>2. CASE last = Len(more)
    <3>1. m < Len(more) /\ Len(more) - m \in (last - FailureThreshold + 1)..last
      BY <1>1, <1>2, <2>2 DEF Row
    <3> QED BY <3>1, <1>5 DEF Row
  <2> QED BY <1>1, <2>1, <2>2
<1>8. m < FailureThreshold => Streaking(more, m)
  BY <1>2, <1>4, <1>5 DEF Streaking
<1> QED BY <1>1, <1>2, <1>3, <1>6, <1>7, <1>8 DEF m, more

\* Types by field.
LEMMA WaiterTyped ==
  ASSUME NEW at \in {"idle", "poll", "late", "close", "issue", "end"},
         NEW tries \in 1..MaxAttempts, NEW streak \in 0..FailureThreshold,
         NEW why \in {"", "state", "passed", "repeated", "timeout", "error"}
  PROVE  [at |-> at, attempt |-> tries, streak |-> streak, why |-> why] \in Waiters
BY DEF Waiters

LEMMA WaiterFields ==
  ASSUME Typed
  PROVE  /\ waiter.attempt \in 1..MaxAttempts /\ waiter.streak \in 0..FailureThreshold
         /\ waiter.why \in {"", "state", "passed", "repeated", "timeout", "error"}
BY DEF Typed, Waiters

LEMMA MergerTyped ==
  ASSUME NEW at \in {"idle", "score", "read", "merge", "end"},
         NEW why \in {"", "high", "low", "health", "state", "checks", "score", "merged", "error"},
         NEW source \in {"", "gh", "api"}
  PROVE  [at |-> at, why |-> why, source |-> source] \in Mergers
BY DEF Mergers

LEMMA MergerFields ==
  ASSUME Typed
  PROVE  /\ merger.source \in {"", "gh", "api"}
         /\ merger.why \in {"", "high", "low", "health", "state", "checks", "score", "merged", "error"}
BY DEF Typed, Mergers

\* Nothing has been asked.
LEMMA CommandsInit == Init => CommandsInv
<1> SUFFICES ASSUME Init PROVE CommandsInv
  OBVIOUS
<1> USE PullRequestAssumption
<1>1. 1 \in 1..MaxAttempts /\ 0 \in 0..FailureThreshold
  OBVIOUS
<1>2. waiter \in Waiters
  BY <1>1, WaiterTyped DEF Init, Idle
<1>3. merger \in Mergers
  BY MergerTyped DEF Init
<1>5. opener \in Openers
  BY DEF Init, Openers
<1>4. polls \in Seq(Seen)
  <2>1. polls = <<>>
    BY DEF Init
  <2> QED BY <2>1
<1>6. ci \in [Checks -> {"absent", "queued", "passed", "failed", "odd"}]
  BY DEF Init
<1>7. Typed
  BY <1>2, <1>3, <1>4, <1>5, <1>6 DEF Init, Typed
<1>8. PollsTell /\ ReportsTrue
  BY DEF Init, PollsTell, ReportsTrue, StopJustified, Stopped, Idle
<1>9. GotTyped
  BY DEF Init, GotTyped, Nothing
<1> QED BY <1>7, <1>8, <1>9, PrInitInv DEF CommandsInv

\* Only the requests of the API, pushes and the reads move what was told.
LEMMA GotStays ==
  ASSUME GotTyped, Typed, [Next]_vars PROVE GotTyped'
<1> DEFINE Told == {Nothing} \cup [state : {"NONE", "OPEN", "CLOSED"}, pushed : BOOLEAN]
<1>1. Nothing \in Told
  OBVIOUS
<1>2. \A who \in {"wait", "merge"} : got[who] \in Told
  BY DEF GotTyped
<1>3. ASSUME NEW who \in {"wait", "merge"}, got' = [got EXCEPT ![who] = Nothing] PROVE GotTyped'
  BY <1>1, <1>3 DEF GotTyped
<1>4. CASE Push
  <2> DEFINE next(who) == IF got[who] = Nothing THEN Nothing ELSE [got[who] EXCEPT !.pushed = TRUE]
  <2>1. \A who \in {"wait", "merge"} : next(who) \in Told
    BY <1>2
  <2> QED BY <1>4, <2>1 DEF Push, GotTyped
<1>5. ASSUME NEW who \in {"wait", "merge"}, Ask(who) PROVE GotTyped'
  <2> DEFINE state == IF pr = "MERGED" THEN "CLOSED" ELSE pr
  <2>1. state \in {"NONE", "OPEN", "CLOSED"}
    BY DEF Typed
  <2>2. got' = [got EXCEPT ![who] = [state |-> state, pushed |-> FALSE]]
    BY <1>5 DEF Ask
  <2> HIDE DEF state
  <2>3. [state |-> state, pushed |-> FALSE] \in Told
    BY <2>1
  <2> QED BY <2>2, <2>3 DEF GotTyped
<1>6. ASSUME NEW source, NEW shown, Poll(source, shown) \/ ReadChecks(source, shown) \/ LastLook(source)
      PROVE  GotTyped'
  BY <1>3, <1>6 DEF Poll, ReadChecks, LastLook
<1>7. ASSUME UNCHANGED got PROVE GotTyped'
  BY <1>7 DEF GotTyped
<1>8. ASSUME NEW gh, NEW api, OpenPr(gh, api) \/ ClosePr(gh, api) \/ OpenIssue(gh, api) \/ MergePr(gh, api)
      PROVE  UNCHANGED got
  BY <1>8 DEF OpenPr, ClosePr, OpenIssue, MergePr
<1>9. CASE OpenAgain \/ StartWait \/ StartMerge \/ ReadScore \/ UNCHANGED vars
  BY <1>7, <1>9 DEF OpenAgain, StartWait, StartMerge, ReadScore, vars
<1>10. CASE GitHub
  <2>1. Push \/ UNCHANGED got
    BY <1>10 DEF GitHub, Report, Person, WriteHealth
  <2> QED BY <1>4, <1>7, <2>1
<1> QED
  BY <1>5, <1>6, <1>7, <1>8, <1>9, <1>10 DEF Next, Opening, Wait, Merge

\* Where the waiter and its polls stay, what they tell does.
LEMMA PollsStay ==
  ASSUME PollsTell, UNCHANGED <<waiter, polls>>
  PROVE  PollsTell'
BY DEF PollsTell, StopJustified, Stopped, Waited, NoRow, Row, Streaking

\* A request which exists stays, and one which is merged stays merged.
LEMMA ReportsStay ==
  ASSUME ReportsTrue, UNCHANGED <<opener, merger, branch>>, pr # "NONE" => pr' # "NONE",
         pr = "MERGED" => pr' = "MERGED"
  PROVE  ReportsTrue'
BY DEF ReportsTrue

\* Pushes, CI, people and the writer of the health file.
LEMMA GitHubReports ==
  ASSUME CommandsInv, GitHub
  PROVE  Typed' /\ PollsTell' /\ ReportsTrue'
<1> USE DEF CommandsInv
<1>1. UNCHANGED <<waiter, polls, opener, merger, branch, issues, hidden>>
  BY DEF GitHub, Push, Report, Person, WriteHealth, Unchanged
<1>2. (pr # "NONE" => pr' # "NONE") /\ (pr = "MERGED" => pr' = "MERGED")
  BY DEF GitHub, Push, Report, Person, WriteHealth
<1>3. pr' \in {"NONE", "OPEN", "CLOSED", "MERGED"} /\ health' \in {"high", "low", "unusable"}
  BY DEF GitHub, Push, Report, Person, WriteHealth, Typed
<1>4. ci' \in [Checks -> {"absent", "queued", "passed", "failed", "odd"}]
  BY DEF GitHub, Push, Report, Person, WriteHealth, Typed
<1>5. moved' \subseteq {"checks", "health"}
  BY DEF GitHub, Push, Report, Person, WriteHealth, Typed, Moves
<1>6. Typed'
  BY <1>1, <1>3, <1>4, <1>5 DEF Typed
<1> QED BY <1>1, <1>2, <1>6, PollsStay, ReportsStay

\* A request which has taken effect was answered, or was lost.
LEMMA AnsweredDone ==
  ASSUME NEW gh, NEW api, Answered(gh, api)
  PROVE  Done(gh, api)
<1>1. CASE gh = "ok"
  BY <1>1 DEF Done, Asked
<1>2. CASE gh # "ok" /\ api = "ok"
  BY <1>2 DEF Done, Asked
<1> QED BY <1>1, <1>2 DEF Answered

LEMMA RefusedNotDone ==
  ASSUME NEW allowed, NEW gh, NEW api, Once(allowed, gh, api), ~allowed
  PROVE  ~Done(gh, api) /\ ~Answered(gh, api)
BY DEF Once, Done, Asked, Answered

\* pr-open.
LEMMA OpeningReports ==
  ASSUME CommandsInv, Opening
  PROVE  Typed' /\ PollsTell' /\ ReportsTrue'
<1> USE DEF CommandsInv
<1>1. CASE OpenAgain
  <2>1. /\ opener' = [opener EXCEPT !.at = "open"]
        /\ UNCHANGED <<github, health, waiter, merger, polls, moved, hidden>>
    BY <1>1 DEF OpenAgain
  <2>2. opener' \in Openers /\ opener'.ok = opener.ok
    BY <2>1 DEF Typed, Openers
  <2>3. Typed'
    BY <2>1, <2>2 DEF Typed, github
  <2>4. ReportsTrue'
    BY <2>1, <2>2 DEF ReportsTrue, github
  <2> QED BY <2>1, <2>3, <2>4, PollsStay
<1>2. ASSUME NEW gh \in Answers, NEW api \in Answers, OpenPr(gh, api)
      PROVE  Typed' /\ PollsTell' /\ ReportsTrue'
  <2>1. /\ Once(pr = "NONE", gh, api) /\ pr' = IF Done(gh, api) THEN "OPEN" ELSE pr
        /\ opener' = [at |-> IF Answered(gh, api) THEN "end" ELSE "failed", ok |-> Answered(gh, api)]
        /\ UNCHANGED <<branch, ci, issues, health, waiter, merger, polls, moved, hidden>>
    BY <1>2 DEF OpenPr
  <2>2. opener' \in Openers
    BY <2>1 DEF Openers, Answered
  <2>3. Typed'
    BY <2>1, <2>2 DEF Typed
  <2>4. pr # "NONE" => pr' = pr
    BY <2>1, RefusedNotDone
  <2>5. opener'.ok => pr' # "NONE"
    BY <2>1, AnsweredDone
  <2>6. ReportsTrue'
    BY <2>1, <2>4, <2>5 DEF ReportsTrue
  <2> QED BY <2>1, <2>3, <2>6, PollsStay
<1> QED BY <1>1, <1>2 DEF Opening

\* What get_pr_status returns.
LEMMA StatusType ==
  ASSUME Typed, GotTyped, NEW who \in {"wait", "merge"}, NEW source, NEW shown,
         source = "api" => got[who] # Nothing
  PROVE  Status(who, source, shown) \in Seen
<1>1. (IF source = "api" THEN got[who].state ELSE pr) \in {"NONE", "OPEN", "CLOSED", "MERGED"}
  BY DEF Typed, GotTyped
<1> QED BY <1>1 DEF Status, Seen

\* One poll of pr-wait.
LEMMA PollTells ==
  ASSUME CommandsInv, NEW source \in Sources("wait"), NEW shown, Poll(source, shown)
  PROVE  Typed' /\ PollsTell' /\ ReportsTrue'
<1> DEFINE seen == Status("wait", source, shown)
           m == Streak(seen)
<1> USE PullRequestAssumption
<1>1. /\ waiter.at = "poll" /\ Typed /\ PollsTell /\ ReportsTrue
      /\ waiter' = IF source = "none" THEN End("error") ELSE AfterPoll(seen)
      /\ polls' = IF source = "none" \/ Len(polls) > MaxAttempts THEN polls ELSE Append(polls, seen)
      /\ UNCHANGED <<pr, branch, ci, issues, health, opener, merger, moved, hidden>>
  BY DEF Poll, CommandsInv, github
<1>2. /\ Len(polls) = waiter.attempt - 1 /\ Waited(polls) /\ NoRow(polls)
      /\ Streaking(polls, waiter.streak) /\ polls \in Seq(Seen) /\ waiter.attempt \in 1..MaxAttempts
  BY <1>1 DEF PollsTell, Typed, Waiters
<1>3. ReportsTrue'
  BY <1>1 DEF ReportsTrue
<1>4. seen \in Seen
  <2>1. source = "api" => got["wait"] # Nothing
    BY DEF Sources
  <2> QED BY <1>1, <2>1, StatusType DEF CommandsInv
<1> HIDE DEF seen
<1>5. CASE source = "none"
  <2>1. waiter' = End("error") /\ polls' = polls
    BY <1>1, <1>5
  <2>2. waiter' \in Waiters /\ waiter'.at = "end" /\ waiter'.why = "error"
    BY <2>1, <1>1 DEF End, Waiters, Typed
  <2>3. Typed'
    BY <2>1, <2>2, <1>1 DEF Typed
  <2>4. PollsTell'
    BY <2>2 DEF PollsTell, StopJustified, Stopped
  <2> QED BY <2>3, <2>4, <1>3
<1>6. CASE source # "none"
  <2>1. waiter' = AfterPoll(seen) /\ polls' = Append(polls, seen)
    BY <1>1, <1>2, <1>6
  <2>2. polls' \in Seq(Seen) /\ Len(polls') = Len(polls) + 1
    BY <1>2, <1>4, <2>1, AppendFacts
  <2>3. CASE seen.state # "OPEN" \/ seen.passed
    <3>1. /\ waiter' \in {End("state"), End("passed")}
      BY <2>1, <2>3 DEF AfterPoll
    <3>2. waiter' \in Waiters /\ waiter'.at = "end" /\ waiter'.why \in {"state", "passed"}
      BY <3>1, <1>1 DEF End, Typed, Waiters
    <3>3. Typed'
      BY <3>2, <2>2, <1>1 DEF Typed
    <3>4. PollsTell'
      BY <3>2 DEF PollsTell, StopJustified, Stopped
    <3> QED BY <3>3, <3>4, <1>3
  <2>4. CASE seen.state = "OPEN" /\ ~seen.passed
    <3>1. m = IF seen.failed THEN waiter.streak + 1 ELSE 0
      BY DEF Streak
    <3>2. /\ Waited(polls') /\ m \in 0..FailureThreshold
          /\ m >= FailureThreshold => Row(polls', Len(polls'))
          /\ m < FailureThreshold => NoRow(polls') /\ Streaking(polls', m)
      BY <1>2, <1>4, <2>1, <2>4, <3>1, PollMore
    <3> HIDE DEF m
    <3>3. CASE m >= FailureThreshold
      <4>1. waiter' = Stop("repeated", m)
        BY <2>1, <2>4, <3>3 DEF AfterPoll, m
      <4>2. /\ waiter' = [at |-> waiter'.at, attempt |-> waiter.attempt, streak |-> m, why |-> "repeated"]
            /\ waiter'.at \in {"close", "issue", "end"}
        BY <4>1, <1>1 DEF Stop, AfterClose, Typed, Waiters
      <4>3. waiter' \in Waiters /\ waiter'.why = "repeated"
        <5>1. [at |-> waiter'.at, attempt |-> waiter.attempt, streak |-> m, why |-> "repeated"] \in Waiters
          BY <4>2, <1>2, <3>2, WaiterTyped
        <5> QED BY <4>2, <5>1
      <4>4. Typed'
        BY <4>3, <2>2, <1>1 DEF Typed
      <4>5. StopJustified'
        BY <4>3, <3>2, <3>3 DEF StopJustified, Waited, Row
      <4>6. PollsTell'
        BY <4>2, <4>5 DEF PollsTell
      <4> QED BY <4>4, <4>6, <1>3
    <3>4. CASE ~(m >= FailureThreshold)
      <4>1. waiter' = Again(m) /\ m < FailureThreshold
        BY <2>1, <2>4, <3>2, <3>4 DEF AfterPoll, m
      <4>2. CASE waiter.attempt < MaxAttempts
        <5>1. waiter' = [at |-> "poll", attempt |-> waiter.attempt + 1, streak |-> m, why |-> waiter.why]
          BY <4>1, <4>2, <1>1 DEF Again, Typed, Waiters
        <5>2. waiter' \in Waiters
          <6>1. waiter.attempt + 1 \in 1..MaxAttempts
            BY <1>2, <4>2
          <6>2. [at |-> "poll", attempt |-> waiter.attempt + 1, streak |-> m, why |-> waiter.why] \in Waiters
            <7> DEFINE next == waiter.attempt + 1
            <7>1. next \in 1..MaxAttempts
              BY <6>1
            <7> HIDE DEF next
            <7>2. [at |-> "poll", attempt |-> next, streak |-> m, why |-> waiter.why] \in Waiters
              BY <7>1, <1>1, <3>2, WaiterFields, WaiterTyped
            <7> QED BY <7>2 DEF next
          <6> QED BY <5>1, <6>2
        <5>3. waiter'.at = "poll" /\ waiter'.attempt = waiter.attempt + 1 /\ waiter'.streak = m
          BY <5>1
        <5>6. Typed'
          BY <5>2, <2>2, <1>1 DEF Typed
        <5>4. Len(polls') = waiter'.attempt - 1
          BY <5>3, <2>2, <1>2
        <5>5. PollsTell'
          BY <5>3, <5>4, <3>2, <4>1 DEF PollsTell, StopJustified, Stopped, Waited, NoRow, Row, Streaking
        <5> QED BY <5>6, <5>5, <1>3
      <4>3. CASE ~(waiter.attempt < MaxAttempts)
        <5>1. waiter' = [at |-> "late", attempt |-> waiter.attempt, streak |-> m, why |-> waiter.why]
          BY <4>1, <4>3, <1>1 DEF Again, Typed, Waiters
        <5>2. waiter' \in Waiters
          BY <5>1, <1>1, <3>2, WaiterFields, WaiterTyped
        <5>5. Typed'
          BY <5>2, <2>2, <1>1 DEF Typed
        <5>3. waiter'.at = "late" /\ Len(polls') = MaxAttempts
          BY <5>1, <2>2, <1>2, <4>3
        <5>4. PollsTell'
          BY <5>3, <3>2, <4>1 DEF PollsTell, StopJustified, Stopped, Waited, NoRow, Row
        <5> QED BY <5>5, <5>4, <1>3
      <4> QED BY <4>2, <4>3
    <3> QED BY <3>3, <3>4
  <2> QED BY <2>3, <2>4
<1> QED BY <1>5, <1>6

\* The rest of pr-wait.
LEMMA WaitReports ==
  ASSUME CommandsInv, StartWait \/ Wait
  PROVE  Typed' /\ PollsTell' /\ ReportsTrue'
<1> USE PullRequestAssumption
<1> DEFINE Kept == Typed' /\ PollsTell' /\ ReportsTrue'
<1>1. CASE StartWait
  <2>1. /\ waiter.at = "idle" /\ waiter' = [at |-> "poll", attempt |-> 1, streak |-> 0, why |-> ""]
        /\ UNCHANGED <<pr, branch, ci, issues, health, opener, merger, polls, moved, hidden>>
    BY <1>1 DEF StartWait, Idle, github
  <2>2. waiter' \in Waiters /\ waiter'.at = "poll" /\ waiter'.attempt = 1 /\ waiter'.streak = 0
    <3>1. 1 \in 1..MaxAttempts /\ 0 \in 0..FailureThreshold
      OBVIOUS
    <3> QED BY <2>1, <3>1, WaiterTyped
  <2>3. Typed'
    BY <2>1, <2>2 DEF Typed, CommandsInv
  <2>4. polls' = <<>> /\ Len(polls') = 0
    BY <2>1 DEF CommandsInv, PollsTell
  <2>5. Waited(polls') /\ NoRow(polls') /\ Streaking(polls', 0)
    BY <2>4 DEF Waited, NoRow, Streaking
  <2>6. PollsTell'
    BY <2>2, <2>4, <2>5 DEF PollsTell, StopJustified, Stopped, Waited, NoRow, Row, Streaking
  <2> QED BY <2>1, <2>3, <2>6 DEF CommandsInv, ReportsTrue
<1>2. ASSUME NEW source \in Sources("wait"), NEW shown, Poll(source, shown) PROVE Kept
  BY <1>2, PollTells
<1>3. ASSUME NEW source, LastLook(source) PROVE Kept
  <2>1. /\ waiter.at = "late"
        /\ waiter' = IF source = "none" THEN End("error") ELSE Stop("timeout", waiter.streak)
        /\ UNCHANGED <<pr, branch, ci, issues, health, opener, merger, polls, moved, hidden>>
    BY <1>3 DEF LastLook, github
  <2>2. /\ waiter' = [at |-> waiter'.at, attempt |-> waiter.attempt, streak |-> waiter.streak, why |-> waiter'.why]
        /\ \/ waiter'.at = "end" /\ waiter'.why = "error"
           \/ waiter'.at \in {"close", "issue", "end"} /\ waiter'.why = "timeout"
    BY <2>1 DEF End, Stop, AfterClose, CommandsInv, Typed, Waiters
  <2>9. waiter' \in Waiters
    <3>1. /\ waiter'.at \in {"idle", "poll", "late", "close", "issue", "end"}
          /\ waiter'.why \in {"", "state", "passed", "repeated", "timeout", "error"}
      BY <2>2, WaiterFields DEF CommandsInv
    <3>2. [at |-> waiter'.at, attempt |-> waiter.attempt, streak |-> waiter.streak, why |-> waiter'.why] \in Waiters
      BY <3>1, WaiterFields, WaiterTyped DEF CommandsInv
    <3> QED BY <2>2, <3>2
  <2>3. Typed'
    BY <2>1, <2>9 DEF Typed, CommandsInv
  <2>4. Len(polls) = MaxAttempts /\ Waited(polls) /\ NoRow(polls)
    BY <2>1 DEF CommandsInv, PollsTell
  <2>5. StopJustified'
    BY <2>1, <2>2, <2>4 DEF StopJustified, Stopped, Waited, NoRow, Row
  <2>6. PollsTell'
    BY <2>2, <2>5 DEF PollsTell
  <2> QED BY <2>1, <2>3, <2>6 DEF CommandsInv, ReportsTrue
<1>4. ASSUME NEW gh \in Answers, NEW api \in Answers, ClosePr(gh, api) PROVE Kept
  <2>1. /\ waiter.at = "close" /\ pr' = IF pr = "OPEN" /\ Done(gh, api) THEN "CLOSED" ELSE pr
        /\ waiter' = IF Answered(gh, api) THEN [waiter EXCEPT !.at = AfterClose] ELSE End("error")
        /\ UNCHANGED <<branch, ci, issues, health, opener, merger, polls, moved, hidden>>
    BY <1>4 DEF ClosePr
  <2>2. /\ waiter' = [at |-> waiter'.at, attempt |-> waiter.attempt, streak |-> waiter.streak, why |-> waiter'.why]
        /\ \/ waiter'.at = "end" /\ waiter'.why = "error"
           \/ waiter'.at \in {"issue", "end"} /\ waiter'.why = waiter.why
    BY <2>1 DEF End, AfterClose, CommandsInv, Typed, Waiters
  <2>9. waiter' \in Waiters
    <3>1. /\ waiter'.at \in {"idle", "poll", "late", "close", "issue", "end"}
          /\ waiter'.why \in {"", "state", "passed", "repeated", "timeout", "error"}
      BY <2>2, WaiterFields DEF CommandsInv
    <3>2. [at |-> waiter'.at, attempt |-> waiter.attempt, streak |-> waiter.streak, why |-> waiter'.why] \in Waiters
      BY <3>1, WaiterFields, WaiterTyped DEF CommandsInv
    <3> QED BY <2>2, <3>2
  <2>3. Typed'
    BY <2>1, <2>9 DEF Typed, CommandsInv
  <2>4. StopJustified'
    BY <2>1, <2>2 DEF StopJustified, Stopped, CommandsInv, PollsTell
  <2>5. PollsTell'
    BY <2>2, <2>4 DEF PollsTell
  <2>6. ReportsTrue'
    BY <2>1, ReportsStay DEF CommandsInv
  <2> QED BY <2>3, <2>5, <2>6
<1>5. ASSUME NEW gh \in Answers, NEW api \in Answers, OpenIssue(gh, api) PROVE Kept
  <2>1. /\ waiter.at = "issue" /\ issues' = issues + Times(gh, api)
        /\ waiter' = IF Answered(gh, api) THEN [waiter EXCEPT !.at = "end"] ELSE End("error")
        /\ UNCHANGED <<pr, branch, ci, health, opener, merger, polls, moved, hidden>>
    BY <1>5 DEF OpenIssue
  <2>2. /\ waiter' = [at |-> "end", attempt |-> waiter.attempt, streak |-> waiter.streak, why |-> waiter'.why]
        /\ waiter'.why \in {"error", waiter.why}
    BY <2>1 DEF End, CommandsInv, Typed, Waiters
  <2>3. issues' \in Nat
    BY <2>1, TimesType DEF CommandsInv, Typed
  <2>9. waiter' \in Waiters
    BY <2>2, WaiterFields, WaiterTyped DEF CommandsInv
  <2>4. Typed'
    BY <2>1, <2>3, <2>9 DEF Typed, CommandsInv
  <2>5. waiter'.at = "end"
    BY <2>2
  <2>6. StopJustified'
    BY <2>1, <2>2 DEF StopJustified, Stopped, CommandsInv, PollsTell
  <2>7. PollsTell'
    BY <2>5, <2>6 DEF PollsTell
  <2> QED BY <2>1, <2>4, <2>7 DEF CommandsInv, ReportsTrue
<1>6. CASE Ask("wait")
  <2>1. UNCHANGED <<pr, branch, ci, issues, health, opener, waiter, merger, polls, moved, hidden>>
    BY <1>6 DEF Ask, github
  <2>2. Typed'
    BY <2>1 DEF Typed, CommandsInv
  <2> QED BY <2>1, <2>2, PollsStay DEF CommandsInv, ReportsTrue
<1> QED
  BY <1>1, <1>2, <1>3, <1>4, <1>5, <1>6 DEF Wait

\* pr-merge.
LEMMA MergeReports ==
  ASSUME CommandsInv, StartMerge \/ Merge
  PROVE  Typed' /\ PollsTell' /\ ReportsTrue'
<1> USE PullRequestAssumption
<1> DEFINE Kept == Typed' /\ PollsTell' /\ ReportsTrue'
<1>1. CASE StartMerge
  <2>1. /\ merger' = [at |-> "score", why |-> "", source |-> ""]
        /\ UNCHANGED <<pr, branch, ci, issues, health, opener, waiter, polls, moved, hidden>>
    BY <1>1 DEF StartMerge, github
  <2>2. Typed'
    BY <2>1 DEF Typed, Mergers, CommandsInv
  <2>3. ReportsTrue'
    BY <2>1 DEF ReportsTrue, CommandsInv
  <2> QED BY <2>1, <2>2, <2>3, PollsStay DEF CommandsInv
<1>2. CASE ReadScore
  <2>1. /\ merger' = IF health = "unusable" THEN Refused("health")
                     ELSE [merger EXCEPT !.at = "read", !.why = health]
        /\ UNCHANGED <<pr, branch, ci, issues, health, opener, waiter, polls, moved, hidden>>
    BY <1>2 DEF ReadScore, github
  <2>2. /\ merger' = [at |-> merger'.at, why |-> merger'.why, source |-> merger.source]
        /\ merger'.at \in {"end", "read"} /\ merger'.why \in {"health", "high", "low"}
    BY <2>1 DEF Refused, CommandsInv, Typed, Mergers
  <2>9. merger' \in Mergers
    BY <2>2, MergerFields, MergerTyped DEF CommandsInv
  <2>3. Typed'
    BY <2>1, <2>9 DEF Typed, CommandsInv
  <2>4. ReportsTrue'
    BY <2>1, <2>2 DEF ReportsTrue, CommandsInv
  <2> QED BY <2>1, <2>3, <2>4, PollsStay DEF CommandsInv
<1>3. ASSUME NEW source, NEW shown, ReadChecks(source, shown) PROVE Kept
  <2>1. /\ merger' = IF source = "none" THEN Refused("error") ELSE Policy(Status("merge", source, shown))
        /\ moved' \subseteq moved \cup {"checks"}
        /\ merger.at = "read" /\ UNCHANGED <<pr, branch, ci, issues, health, opener, waiter, polls>>
    BY <1>3 DEF ReadChecks, github
  <2>2. hidden' \in BOOLEAN
    BY <1>3 DEF ReadChecks
  <2>3. /\ merger' = [at |-> merger'.at, why |-> merger'.why, source |-> merger.source]
        /\ \/ merger'.at = "end" /\ merger'.why \in {"error", "state", "checks", "score"}
           \/ merger'.at = "merge" /\ merger'.why = merger.why
    BY <2>1 DEF Refused, Policy, CommandsInv, Typed, Mergers
  <2>9. merger' \in Mergers
    BY <2>3, MergerFields, MergerTyped DEF CommandsInv
  <2>4. Typed'
    BY <2>1, <2>2, <2>9 DEF Typed, CommandsInv
  <2>5. ReportsTrue'
    BY <2>1, <2>3 DEF ReportsTrue, CommandsInv
  <2> QED BY <2>1, <2>4, <2>5, PollsStay DEF CommandsInv
<1>4. ASSUME NEW gh \in Answers, NEW api \in Answers, MergePr(gh, api) PROVE Kept
  <2>1. /\ Once(pr = "OPEN", gh, api) /\ pr' = IF Done(gh, api) THEN "MERGED" ELSE pr
        /\ branch' = (branch /\ ~(DeleteBranch /\ gh = "ok"))
        /\ merger' = [at |-> "end", why |-> IF Answered(gh, api) THEN "merged" ELSE "error",
                      source |-> IF gh = "ok" THEN "gh" ELSE "api"]
        /\ moved' = {} /\ hidden' = FALSE
        /\ UNCHANGED <<ci, issues, health, opener, waiter, polls>>
    BY <1>4 DEF MergePr
  <2>2. branch' \in BOOLEAN
    BY <2>1
  <2>3. Typed'
    BY <2>1, <2>2 DEF Typed, Mergers, CommandsInv
  <2>4. merger'.why = "merged" => pr' = "MERGED"
    BY <2>1, AnsweredDone
  <2>5. merger'.source = "gh" /\ DeleteBranch => ~branch'
    BY <2>1
  <2>6. pr # "NONE" => pr' # "NONE"
    BY <2>1
  <2>7. ReportsTrue'
    BY <2>1, <2>4, <2>5, <2>6 DEF ReportsTrue, CommandsInv
  <2> QED BY <2>1, <2>3, <2>7, PollsStay DEF CommandsInv
<1>5. CASE Ask("merge")
  <2>1. UNCHANGED <<pr, branch, ci, issues, health, opener, waiter, merger, polls, moved, hidden>>
    BY <1>5 DEF Ask, github
  <2>2. Typed'
    BY <2>1 DEF Typed, CommandsInv
  <2> QED BY <2>1, <2>2, PollsStay DEF CommandsInv, ReportsTrue
<1> QED
  BY <1>1, <1>2, <1>3, <1>4, <1>5 DEF Merge

\* Every step keeps what the commands report.
LEMMA CommandsNext == CommandsInv /\ [Next]_vars => CommandsInv'
<1> SUFFICES ASSUME CommandsInv, [Next]_vars PROVE Typed' /\ PollsTell' /\ ReportsTrue'
  BY PrNextInv, GotStays DEF CommandsInv
<1>1. CASE UNCHANGED vars
  <2>1. Typed'
    BY <1>1 DEF vars, github, CommandsInv, Typed
  <2>2. ReportsTrue'
    BY <1>1 DEF vars, github, CommandsInv, ReportsTrue
  <2> QED BY <1>1, <2>1, <2>2, PollsStay DEF vars, CommandsInv
<1>2. CASE GitHub
  BY <1>2, GitHubReports
<1>3. CASE Opening
  BY <1>3, OpeningReports
<1>4. CASE StartWait \/ Wait
  BY <1>4, WaitReports
<1>5. CASE StartMerge \/ Merge
  BY <1>5, MergeReports
<1> QED
  BY <1>1, <1>2, <1>3, <1>4, <1>5 DEF Next

\* wait_for_pr stops a request, and so closes it, only after the polls its parameters
\* call for, none of them green; and what open_pr and merge_pr report is so, whatever
\* people and CI do meanwhile.
THEOREM CommandsSoundHolds == Spec => []CommandsSound
<1>1. Typed /\ GotTyped => TypeOK
  BY DEF Typed, GotTyped, TypeOK, Openers, Waiters, Mergers, Seen
<1>2. CommandsInv => CommandsSound
  BY <1>1 DEF CommandsInv, PollsTell, CommandsSound
<1> QED BY <1>2, CommandsInit, CommandsNext, PTL DEF Spec

----------------------------------------------------------------------------
(* The ledger.                                                              *)

\* An append which is under way ends with its entry; who writes of a node's membership has
\* spoken of the node, unless the event was emitted as a plain one.
Spoken(p, entry) ==
  entry.action \in Membership /\ entry.node \notin forged => p \in speakers[entry.node]
Drafted ==
  \A p \in Writing : draft[p] # <<>> /\ Spoken(p, Last(draft[p]))

\* As long as appends do not overlap, no read fails and no write is cut short, one at most
\* is under way, the file is the tail of what has been appended, but while it is being
\* written, and the draft is that tail with the new entry.
TailKept ==
  ~crossed =>
    /\ \A p, q \in Writing : p = q
    /\ ~spoiled =>
        /\ LedgerIsTail
        /\ \A p \in Writing : draft[p] = LastN(Append(appended, Last(draft[p])), MaxEntries)

\* The order in the file and in what is about to be written; ids are used once.
Ordered(entries, ids) ==
  \A i, j \in DOMAIN entries :
    i < j /\ {entries[i].id, entries[j].id} \subseteq ids => entries[i].id < entries[j].id
Known(entries) == \A i \in DOMAIN entries : entries[i].id <= published

OrderKept ==
  /\ Known(ledger) /\ \A q \in Coords : Known(draft[q])
  /\ \A p \in Coords :
      /\ Ordered(ledger, Range(history[p]))
      /\ \A q \in Coords : Ordered(draft[q], Range(history[p]))

\* What has been appended, or is about to, tells the registry of a coordinator which has
\* lost nothing and is the only one to speak of the node.
Told(p) == IF p \in Writing THEN Append(appended, Last(draft[p])) ELSE appended
RegistryTold ==
  ~crossed /\ ~spoiled =>
    \A p \in Coords \ lossy, n \in Nodes \ forged :
      stage[p] # "down" /\ (speakers[n] \subseteq {p} => (n \in registry[p] <=> SaysMember(Told(p), n)))

MeshInv == MeshTypeOK /\ Drafted /\ TailKept /\ OrderKept /\ RegistryTold

\* The last n of a sequence.
LEMMA LastNFacts ==
  ASSUME NEW S, NEW s \in Seq(S), NEW n \in Nat \ {0}
  PROVE  /\ LastN(s, n) \in Seq(S)
         /\ Len(LastN(s, n)) = IF Len(s) > n THEN n ELSE Len(s)
         /\ \A i \in 1..Len(LastN(s, n)) : LastN(s, n)[i] = s[i + (Len(s) - Len(LastN(s, n)))]
<1>1. CASE Len(s) > n
  <2> DEFINE k == Len(s) - n + 1
  <2>1. k \in 1..(Len(s) + 1) /\ Len(s) \in (k - 1)..Len(s) /\ LastN(s, n) = SubSeq(s, k, Len(s))
    BY <1>1 DEF LastN
  <2>2. /\ SubSeq(s, k, Len(s)) \in Seq(S)
        /\ Len(SubSeq(s, k, Len(s))) = IF k <= Len(s) THEN Len(s) - k + 1 ELSE 0
        /\ \A i \in 1..(Len(s) - k + 1) : SubSeq(s, k, Len(s))[i] = s[k + i - 1]
    BY <2>1, SubSeqProperties
  <2>3. k <= Len(s) /\ Len(s) - k + 1 = n /\ \A i \in 1..n : k + i - 1 = i + (Len(s) - n)
    BY <1>1
  <2> HIDE DEF k
  <2> QED BY <1>1, <2>1, <2>2, <2>3
<1>2. CASE ~(Len(s) > n)
  BY <1>2 DEF LastN
<1> QED BY <1>1, <1>2

LEMMA LastTyped ==
  ASSUME NEW S, NEW s \in Seq(S), s # <<>>
  PROVE  Last(s) \in S
<1>1. Len(s) \in 1..Len(s)
  OBVIOUS
<1> QED BY <1>1 DEF Last

\* An entry more: it is the last one, and what has been dropped before does not matter.
LEMMA LastNAppend ==
  ASSUME NEW S, NEW s \in Seq(S), NEW e \in S, NEW n \in Nat \ {0}
  PROVE  /\ LastN(Append(s, e), n) \in Seq(S) /\ LastN(Append(s, e), n) # <<>>
         /\ Last(LastN(Append(s, e), n)) = e
         /\ LastN(Append(LastN(s, n), e), n) = LastN(Append(s, e), n)
<1> DEFINE t == LastN(s, n)
           u == Append(s, e)
           v == Append(t, e)
           a == LastN(u, n)
           b == LastN(v, n)
<1>1. /\ t \in Seq(S) /\ Len(t) = IF Len(s) > n THEN n ELSE Len(s)
      /\ \A i \in 1..Len(t) : t[i] = s[i + (Len(s) - Len(t))]
  BY LastNFacts
<1> HIDE DEF t
<1>2. /\ u \in Seq(S) /\ Len(u) = Len(s) + 1 /\ Len(s) \in Nat
      /\ \A i \in 1..Len(s) : u[i] = s[i]
      /\ u[Len(s) + 1] = e
  BY AppendFacts
<1>3. /\ v \in Seq(S) /\ Len(v) = Len(t) + 1 /\ Len(t) \in Nat
      /\ \A i \in 1..Len(t) : v[i] = t[i]
      /\ v[Len(t) + 1] = e
  BY <1>1, AppendFacts
<1> HIDE DEF u, v
<1>4. /\ a \in Seq(S) /\ Len(a) = IF Len(u) > n THEN n ELSE Len(u)
      /\ \A i \in 1..Len(a) : a[i] = u[i + (Len(u) - Len(a))]
  BY <1>2, LastNFacts
<1>5. /\ b \in Seq(S) /\ Len(b) = IF Len(v) > n THEN n ELSE Len(v)
      /\ \A i \in 1..Len(b) : b[i] = v[i + (Len(v) - Len(b))]
  BY <1>3, LastNFacts
<1> HIDE DEF a, b
<1>6. Len(a) = Len(b) /\ Len(a) \in 1..n /\ Len(a) <= Len(s) + 1 /\ Len(a) <= Len(t) + 1
  BY <1>1, <1>2, <1>3, <1>4, <1>5
<1>7. a[Len(a)] = e /\ b[Len(a)] = e
  <2>1. Len(a) \in 1..Len(a) /\ Len(a) + (Len(u) - Len(a)) = Len(s) + 1 /\ Len(a) + (Len(v) - Len(b)) = Len(t) + 1
    BY <1>2, <1>3, <1>6
  <2> QED BY <2>1, <1>2, <1>3, <1>4, <1>5, <1>6
<1>8. ASSUME NEW i \in 1..Len(a), i # Len(a) PROVE a[i] = b[i]
  <2> DEFINE j == i + (Len(u) - Len(a))
             k == i + (Len(v) - Len(b))
  <2>1. j \in 1..Len(s) /\ k \in 1..Len(t) /\ k + (Len(s) - Len(t)) = j
    <3>1. i \in 1..(Len(a) - 1)
      BY <1>6, <1>8
    <3>2. CASE Len(s) > n
      <4>1. Len(t) = n /\ Len(a) = n /\ Len(b) = n /\ Len(u) = Len(s) + 1 /\ Len(v) = n + 1 /\ Len(s) \in Nat
        BY <1>1, <1>2, <1>3, <1>4, <1>6, <3>2
      <4> QED BY <3>1, <3>2, <4>1
    <3>3. CASE ~(Len(s) > n)
      <4>1. Len(t) = Len(s) /\ Len(b) = Len(a) /\ Len(u) = Len(s) + 1 /\ Len(v) = Len(s) + 1 /\ Len(s) \in Nat
        BY <1>1, <1>2, <1>3, <1>4, <1>6, <3>3
      <4> QED BY <1>6, <3>1, <4>1
    <3> QED BY <3>2, <3>3
  <2>2. a[i] = u[j] /\ b[i] = v[k]
    BY <1>4, <1>5, <1>6
  <2> HIDE DEF j, k
  <2>3. u[j] = s[j] /\ v[k] = t[k] /\ t[k] = s[k + (Len(s) - Len(t))]
    BY <1>1, <1>2, <1>3, <2>1
  <2> QED BY <2>1, <2>2, <2>3
<1>9. a = b
  BY <1>4, <1>5, <1>6, <1>7, <1>8, SeqEqual
<1>10. a # <<>> /\ Last(a) = e
  BY <1>6, <1>7 DEF Last
<1> QED BY <1>4, <1>9, <1>10 DEF a, b, t, u, v

\* Of an ordered sequence and an entry with a larger id the tail is ordered.
LEMMA TailOrdered ==
  ASSUME NEW S, NEW s \in Seq(S), NEW e \in S, NEW n \in Nat \ {0},
         NEW R, \A i \in DOMAIN s : s[i].id < e.id, Ordered(s, R)
  PROVE  Ordered(LastN(Append(s, e), n), R)
<1> DEFINE u == Append(s, e)
           a == LastN(u, n)
           k == Len(u) - Len(a)
<1>1. /\ u \in Seq(S) /\ Len(u) = Len(s) + 1 /\ Len(s) \in Nat
      /\ \A i \in 1..Len(s) : u[i] = s[i]
      /\ u[Len(s) + 1] = e
  BY AppendFacts
<1> HIDE DEF u
<1>2. /\ a \in Seq(S) /\ Len(a) = IF Len(u) > n THEN n ELSE Len(u)
      /\ \A i \in 1..Len(a) : a[i] = u[i + k]
  BY <1>1, LastNFacts
<1> HIDE DEF a
<1>3. DOMAIN a = 1..Len(a) /\ DOMAIN s = 1..Len(s)
  BY <1>2
<1> SUFFICES ASSUME NEW i \in 1..Len(a), NEW j \in 1..Len(a), i < j, {a[i].id, a[j].id} \subseteq R
             PROVE  a[i].id < a[j].id
  BY <1>3 DEF Ordered, a, u
<1>4. i + k \in 1..Len(s) /\ j + k \in 1..(Len(s) + 1) /\ i + k < j + k
  <2>1. Len(u) = Len(s) + 1 /\ Len(s) \in Nat /\ Len(a) \in 1..Len(u)
    BY <1>1, <1>2
  <2>2. i \in Nat /\ i >= 1 /\ j \in Nat /\ i < j /\ j <= Len(a)
    BY <2>1
  <2> QED BY <2>1, <2>2
<1>5. a[i] = u[i + k] /\ a[j] = u[j + k] /\ u[i + k] = s[i + k]
  BY <1>1, <1>2, <1>4
<1> HIDE DEF k
<1>6. CASE j + k = Len(s) + 1
  BY <1>1, <1>3, <1>4, <1>5, <1>6
<1>7. CASE j + k # Len(s) + 1
  <2>1. j + k \in 1..Len(s) /\ u[j + k] = s[j + k]
    BY <1>1, <1>4, <1>7
  <2> QED BY <1>3, <1>4, <1>5, <2>1 DEF Ordered
<1> QED BY <1>6, <1>7

\* What the entries say of a node after one more.
LEMMA SaysAppend ==
  ASSUME NEW s \in Seq(EntryType), NEW e \in EntryType, NEW n
  PROVE  SaysMember(Append(s, e), n) <=>
           IF e.node = n /\ e.action \in Membership
           THEN e.action = "node_joined" ELSE SaysMember(s, n)
<1> DEFINE u == Append(s, e)
<1>1. /\ u \in Seq(EntryType) /\ Len(u) = Len(s) + 1 /\ Len(s) \in Nat
      /\ \A i \in 1..Len(s) : u[i] = s[i]
      /\ u[Len(s) + 1] = e
  BY AppendFacts
<1> HIDE DEF u
<1>2. DOMAIN u = 1..(Len(s) + 1) /\ DOMAIN s = 1..Len(s)
  BY <1>1
<1>3. CASE e.node = n /\ e.action = "node_joined"
  <2>1. Len(s) + 1 \in DOMAIN u /\ \A j \in DOMAIN u : ~(j > Len(s) + 1)
    BY <1>1, <1>2
  <2>2. SaysMember(u, n)
    BY <1>1, <1>3, <2>1 DEF SaysMember
  <2> QED BY <1>3, <2>2 DEF u, Membership
<1>4. CASE e.node = n /\ e.action = "node_left"
  <2>1. \A i \in 1..Len(s) : Len(s) + 1 > i /\ Len(s) + 1 \in 1..(Len(s) + 1)
    BY <1>1
  <2>2. Len(s) + 1 \in 1..(Len(s) + 1) /\ \A i \in 1..(Len(s) + 1) : i = Len(s) + 1 \/ i \in 1..Len(s)
    BY <1>1
  <2>3. ~SaysMember(u, n)
    BY <1>1, <1>2, <1>4, <2>1, <2>2 DEF SaysMember
  <2> QED BY <1>4, <2>3 DEF u, Membership
<1>5. CASE ~(e.node = n /\ e.action \in Membership)
  <2>1. ASSUME SaysMember(s, n) PROVE SaysMember(u, n)
    <3>1. PICK i \in 1..Len(s) :
            /\ s[i].node = n /\ s[i].action = "node_joined"
            /\ \A j \in 1..Len(s) : j > i /\ s[j].node = n => s[j].action # "node_left"
      BY <1>2, <2>1 DEF SaysMember
    <3>2. i \in DOMAIN u /\ u[i] = s[i]
      BY <1>1, <1>2
    <3>3. ASSUME NEW j \in DOMAIN u, j > i, u[j].node = n PROVE u[j].action # "node_left"
      <4>1. CASE j = Len(s) + 1
        BY <1>1, <1>5, <3>3, <4>1 DEF Membership
      <4>2. CASE j # Len(s) + 1
        <5>1. j \in 1..Len(s)
          BY <1>1, <1>2, <4>2
        <5> QED BY <1>1, <3>1, <3>3, <5>1
      <4> QED BY <4>1, <4>2
    <3> QED BY <3>1, <3>2, <3>3 DEF SaysMember
  <2>2. ASSUME SaysMember(u, n) PROVE SaysMember(s, n)
    <3>1. PICK i \in DOMAIN u :
            /\ u[i].node = n /\ u[i].action = "node_joined"
            /\ \A j \in DOMAIN u : j > i /\ u[j].node = n => u[j].action # "node_left"
      BY <2>2 DEF SaysMember
    <3>2. i # Len(s) + 1
      BY <1>1, <1>5, <3>1 DEF Membership
    <3>3. i \in 1..Len(s)
      BY <1>1, <1>2, <3>2
    <3>4. \A j \in 1..Len(s) : j \in DOMAIN u /\ u[j] = s[j]
      BY <1>1, <1>2
    <3> QED BY <1>2, <3>1, <3>3, <3>4 DEF SaysMember
  <2> QED BY <1>5, <2>1, <2>2 DEF u
<1>6. e.action \in Membership <=> e.action = "node_joined" \/ e.action = "node_left"
  BY DEF Membership
<1> QED BY <1>3, <1>4, <1>5, <1>6

----------------------------------------------------------------------------

\* Ids are numbers, and a sequence of known entries stays one when another event is published.
LEMMA EntryIds ==
  ASSUME NEW s \in Seq(EntryType)
  PROVE  /\ DOMAIN s = 1..Len(s) /\ Len(s) \in Nat
         /\ \A i \in DOMAIN s : s[i] \in EntryType /\ s[i].id \in Int
<1>1. DOMAIN s = 1..Len(s) /\ Len(s) \in Nat /\ \A i \in 1..Len(s) : s[i] \in EntryType
  OBVIOUS
<1>2. \A e \in EntryType : e.id \in Int
  BY MeshAssumption DEF EntryType
<1> QED BY <1>1, <1>2

LEMMA KnownKept ==
  ASSUME NEW s \in Seq(EntryType), published \in Nat, published' \in {published, published + 1}, Known(s)
  PROVE  \A i \in DOMAIN s : s[i].id <= published'
BY EntryIds DEF Known

LEMMA TailKnown ==
  ASSUME NEW s \in Seq(EntryType), NEW e \in EntryType, NEW n \in Nat \ {0},
         \A i \in DOMAIN s : s[i].id < e.id
  PROVE  \A i \in DOMAIN LastN(Append(s, e), n) : LastN(Append(s, e), n)[i].id <= e.id
<1> DEFINE u == Append(s, e)
           a == LastN(u, n)
           k == Len(u) - Len(a)
<1>1. /\ u \in Seq(EntryType) /\ Len(u) = Len(s) + 1 /\ Len(s) \in Nat
      /\ \A i \in 1..Len(s) : u[i] = s[i]
      /\ u[Len(s) + 1] = e
  BY AppendFacts
<1> HIDE DEF u
<1>2. DOMAIN s = 1..Len(s) /\ (\A i \in DOMAIN s : s[i].id \in Int) /\ e.id \in Int
  <2>1. e.id \in Int
    BY MeshAssumption DEF EntryType
  <2> QED BY <2>1, EntryIds
<1>3. /\ a \in Seq(EntryType) /\ Len(a) = IF Len(u) > n THEN n ELSE Len(u)
      /\ \A i \in 1..Len(a) : a[i] = u[i + k]
  BY <1>1, LastNFacts
<1> HIDE DEF a
<1>4. DOMAIN a = 1..Len(a)
  BY <1>3
<1>5. ASSUME NEW i \in 1..Len(a) PROVE a[i].id <= e.id
  <2>1. i + k \in 1..(Len(s) + 1)
    BY <1>1, <1>3
  <2>2. a[i] = u[i + k]
    BY <1>3
  <2> HIDE DEF k
  <2>3. CASE i + k = Len(s) + 1
    BY <1>1, <1>2, <2>1, <2>2, <2>3
  <2>4. CASE i + k # Len(s) + 1
    <3>1. i + k \in 1..Len(s)
      BY <1>1, <2>1, <2>4
    <3> QED BY <1>1, <1>2, <2>2, <3>1
  <2> QED BY <2>3, <2>4
<1> QED BY <1>4, <1>5 DEF a, u

\* The ids a bus remembers after one more event.
LEMMA PublishTyped ==
  ASSUME MeshInv, NEW p \in Coords, Publish(p)
  PROVE  /\ history' \in [Coords -> Seq(1..MaxEvents)] /\ published' \in 0..MaxEvents
         /\ \A q \in Coords : Range(history'[q]) \subseteq Range(history[q]) \union {published + 1}
<1> DEFINE h == history[p]
           k == published + 1
<1>1. k \in 1..MaxEvents /\ h \in Seq(1..MaxEvents)
  BY MeshAssumption DEF MeshInv, MeshTypeOK, Publish
<1>2. /\ Append(h, k) \in Seq(1..MaxEvents) /\ Len(Append(h, k)) = Len(h) + 1 /\ Len(h) \in Nat
      /\ \A i \in 1..Len(h) : Append(h, k)[i] = h[i]
      /\ Append(h, k)[Len(h) + 1] = k
  BY <1>1, AppendFacts
<1>3. /\ LastN(Append(h, k), MaxHistory) \in Seq(1..MaxEvents)
      /\ Range(LastN(Append(h, k), MaxHistory)) \subseteq Range(h) \union {k}
  <2> DEFINE u == Append(h, k)
             a == LastN(u, MaxHistory)
             d == Len(u) - Len(a)
  <2>0. /\ u \in Seq(1..MaxEvents) /\ Len(u) = Len(h) + 1 /\ Len(h) \in Nat
        /\ \A i \in 1..Len(h) : u[i] = h[i]
        /\ u[Len(h) + 1] = k
    BY <1>2
  <2> HIDE DEF u, h, k
  <2>1. /\ a \in Seq(1..MaxEvents) /\ Len(a) = IF Len(u) > MaxHistory THEN MaxHistory ELSE Len(u)
        /\ \A i \in 1..Len(a) : a[i] = u[i + (Len(u) - Len(a))]
    BY <2>0, LastNFacts, MeshAssumption
  <2> HIDE DEF a
  <2>2. ASSUME NEW i \in 1..Len(a) PROVE a[i] \in Range(h) \union {k}
    <3>1. i + d \in 1..(Len(h) + 1)
      <4>1. Len(a) <= Len(u) /\ Len(a) \in Nat /\ Len(u) \in Nat
        BY <2>0, <2>1, MeshAssumption
      <4>2. i \in Nat /\ 1 <= i /\ i <= Len(a)
        BY <4>1
      <4> QED BY <2>0, <4>1, <4>2
    <3>2. a[i] = u[i + d]
      BY <2>1
    <3> HIDE DEF d
    <3>3. CASE i + d = Len(h) + 1
      BY <2>0, <3>2, <3>3
    <3>4. CASE i + d # Len(h) + 1
      <4>1. i + d \in 1..Len(h) /\ i + d \in DOMAIN h
        BY <1>1, <2>0, <3>1, <3>4
      <4>2. a[i] = h[i + d]
        BY <2>0, <3>2, <4>1
      <4> QED BY <4>1, <4>2 DEF Range
    <3> QED BY <3>3, <3>4
  <2>3. DOMAIN a = 1..Len(a)
    BY <2>1
  <2> QED BY <2>1, <2>2, <2>3 DEF Range, a, u
<1>4. history' = [history EXCEPT ![p] = LastN(Append(h, k), MaxHistory)] /\ published' = k
  BY DEF Publish
<1> HIDE DEF h, k
<1>5. history'[p] = LastN(Append(h, k), MaxHistory) /\ \A q \in Coords \ {p} : history'[q] = history[q]
  BY <1>4 DEF MeshInv, MeshTypeOK
<1>6. \A q \in Coords : Range(history'[q]) \subseteq Range(history[q]) \union {k}
  BY <1>3, <1>5 DEF h
<1>7. history' \in [Coords -> Seq(1..MaxEvents)] /\ published' \in 0..MaxEvents
  BY <1>1, <1>3, <1>4, MeshAssumption DEF MeshInv, MeshTypeOK
<1> QED BY <1>6, <1>7 DEF k

\* What is in order stays so when the buses remember new events, or fewer.
LEMMA OrderedKept ==
  ASSUME NEW s \in Seq(EntryType), published \in Nat, Known(s), NEW R, NEW T,
         Ordered(s, R), T \subseteq R \union {published + 1}
  PROVE  Ordered(s, T)
<1> SUFFICES ASSUME NEW i \in DOMAIN s, NEW j \in DOMAIN s, i < j, {s[i].id, s[j].id} \subseteq T
             PROVE  s[i].id < s[j].id
  BY DEF Ordered
<1>1. s[i].id <= published /\ s[j].id <= published /\ s[i].id \in Int /\ s[j].id \in Int
  BY EntryIds DEF Known
<1>2. {s[i].id, s[j].id} \subseteq R
  BY <1>1
<1> QED BY <1>2 DEF Ordered

LEMMA OrderedFewer ==
  ASSUME NEW s, NEW R, NEW T, Ordered(s, R), T \subseteq R
  PROVE  Ordered(s, T)
BY DEF Ordered

\* What a step which neither writes the file nor begins or ends an append has to show.
LEMMA BookKept ==
  ASSUME MeshInv, MeshTypeOK',
         UNCHANGED <<book, draft>>, \A p \in Coords : stage'[p] = stage[p],
         published' \in {published, published + 1}, registry' = registry,
         \A q \in Coords : Range(history'[q]) \subseteq Range(history[q]) \union {published + 1}
  PROVE  MeshInv'
<1>1. Writing' = Writing /\ \A p \in Coords : Told(p)' = Told(p)
  BY DEF Writing, Told, book
<1>2. Drafted' /\ TailKept'
  BY <1>1 DEF MeshInv, Drafted, Spoken, TailKept, LedgerIsTail, book
<1>3. published \in Nat
  BY MeshAssumption DEF MeshInv, MeshTypeOK
<1>4. OrderKept'
  <2>1. ASSUME NEW s \in Seq(EntryType), Known(s), \A q \in Coords : Ordered(s, Range(history[q]))
        PROVE  (\A i \in DOMAIN s : s[i].id <= published') /\ \A q \in Coords : Ordered(s, Range(history'[q]))
    BY <1>3, <2>1, KnownKept, OrderedKept
  <2>2. (\A i \in DOMAIN ledger : ledger[i].id <= published') /\ \A q \in Coords : Ordered(ledger, Range(history'[q]))
    BY <2>1 DEF MeshInv, MeshTypeOK, OrderKept
  <2>3. ASSUME NEW r \in Coords
        PROVE  /\ \A i \in DOMAIN draft[r] : draft[r][i].id <= published'
               /\ \A q \in Coords : Ordered(draft[r], Range(history'[q]))
    BY <2>1 DEF MeshInv, MeshTypeOK, OrderKept
  <2> QED BY <2>2, <2>3 DEF OrderKept, Known, Ordered, book
<1>5. RegistryTold'
  BY <1>1 DEF MeshInv, RegistryTold, SaysMember, book
<1> QED BY <1>2, <1>4, <1>5 DEF MeshInv

\* What append is going to write, from what it has read, and from the tail it should have.
LEMMA DraftFacts ==
  ASSUME NEW e \in EntryType, NEW s \in Seq(EntryType), appended \in Seq(EntryType)
  PROVE  /\ Draft(s, e) \in Seq(EntryType) /\ Draft(s, e) # <<>> /\ Last(Draft(s, e)) = e
         /\ s = LastN(appended, MaxEntries) => Draft(s, e) = LastN(Append(appended, e), MaxEntries)
<1>1. MaxEntries \in Nat \ {0}
  BY MeshAssumption
<1>2. LastN(Append(s, e), MaxEntries) \in Seq(EntryType)
  BY <1>1, LastNAppend
<1>3. LastN(Append(s, e), MaxEntries) # <<>>
  BY <1>1, LastNAppend
<1>4. Last(LastN(Append(s, e), MaxEntries)) = e
  BY <1>1, LastNAppend
<1>5. LastN(Append(LastN(appended, MaxEntries), e), MaxEntries) = LastN(Append(appended, e), MaxEntries)
  BY <1>1, LastNAppend
<1> QED BY <1>2, <1>3, <1>4, <1>5 DEF Draft

\* An event with a handler: the append has read the file.
LEMMA RecordKept ==
  ASSUME MeshInv, NEW p \in Coords, NEW n \in Nodes, NEW action \in Actions,
         Publish(p), Record(p, Entry(n, action)), UNCHANGED <<ledger, appended, lossy>>,
         registry' \in [Coords -> SUBSET Nodes], \A q \in Coords \ {p} : registry'[q] = registry[q],
         speakers' \in [Nodes -> SUBSET Coords], \A m \in Nodes : speakers[m] \subseteq speakers'[m],
         forged \subseteq forged', forged' \subseteq Nodes,
         action \in Membership => n \in forged' \/ p \in speakers'[n],
         \A m \in Nodes \ forged' : m \in registry'[p] <=>
           IF m = n /\ action \in Membership THEN action = "node_joined" ELSE m \in registry[p]
  PROVE  MeshInv'
<1> DEFINE e == Entry(n, action)
<1>1. e \in EntryType /\ e.node = n /\ e.action = action /\ e.id = published + 1
  BY MeshAssumption DEF MeshInv, MeshTypeOK, Publish, Entry, EntryType
<1> HIDE DEF e
<1>2. PICK s \in {ledger, <<>>} :
        draft' = [draft EXCEPT ![p] = Draft(s, e)] /\ spoiled' = (spoiled \/ s # ledger)
  BY DEF Record, e
<1> DEFINE d == Draft(s, e)
<1>3. s \in Seq(EntryType) /\ published \in Nat /\ Known(s) /\ \A q \in Coords : Ordered(s, Range(history[q]))
  <2>1. <<>> \in Seq(EntryType) /\ Known(<<>>) /\ \A q \in Coords : Ordered(<<>>, Range(history[q]))
    BY DEF Known, Ordered
  <2>2. ledger \in Seq(EntryType) /\ Known(ledger) /\ \A q \in Coords : Ordered(ledger, Range(history[q]))
    BY DEF MeshInv, MeshTypeOK, OrderKept
  <2>3. published \in Nat
    BY MeshAssumption DEF MeshInv, MeshTypeOK
  <2> QED BY <2>1, <2>2, <2>3
<1>4. /\ d \in Seq(EntryType) /\ d # <<>> /\ Last(d) = e
      /\ s = LastN(appended, MaxEntries) => d = LastN(Append(appended, e), MaxEntries)
  BY <1>1, <1>3, DraftFacts DEF MeshInv, MeshTypeOK
<1>5. /\ draft' = [draft EXCEPT ![p] = d] /\ stage' = [stage EXCEPT ![p] = "open"]
      /\ crossed' = (crossed \/ Writing # {}) /\ stage[p] = "idle" /\ published' = published + 1
  BY <1>2 DEF Record, Publish
<1>6. draft'[p] = d /\ stage'[p] = "open" /\ \A q \in Coords \ {p} : draft'[q] = draft[q] /\ stage'[q] = stage[q]
  BY <1>5 DEF MeshInv, MeshTypeOK
<1>7. Writing' = Writing \union {p} /\ p \notin Writing
  BY <1>5, <1>6 DEF Writing
<1>8. MeshTypeOK'
  <2>1. history' \in [Coords -> Seq(1..MaxEvents)] /\ published' \in 0..MaxEvents
    BY PublishTyped
  <2>2. draft' \in [Coords -> Seq(EntryType)] /\ stage' \in [Coords -> {"idle", "open", "write", "down"}]
    BY <1>4, <1>5 DEF MeshInv, MeshTypeOK
  <2>3. crossed' \in BOOLEAN /\ spoiled' \in BOOLEAN
    BY <1>2, <1>5 DEF MeshInv, MeshTypeOK
  <2> QED BY <2>1, <2>2, <2>3 DEF MeshInv, MeshTypeOK
<1>9. Drafted'
  <2>1. ASSUME NEW q \in Writing' PROVE draft'[q] # <<>> /\ Spoken(q, Last(draft[q]))'
    <3>1. CASE q = p
      BY <1>1, <1>4, <1>6, <3>1 DEF Spoken
    <3>2. CASE q # p
      <4>1. q \in Writing /\ draft'[q] = draft[q] /\ q \in Coords
        BY <1>6, <1>7, <3>2 DEF Writing
      <4>2. draft[q] # <<>> /\ Spoken(q, Last(draft[q])) /\ draft[q] \in Seq(EntryType)
        BY <4>1 DEF MeshInv, MeshTypeOK, Drafted
      <4>3. Last(draft[q]).node \in Nodes
        BY <4>2, LastTyped DEF EntryType
      <4> QED BY <4>1, <4>2, <4>3 DEF Spoken
    <3> QED BY <3>1, <3>2
  <2> QED BY <2>1 DEF Drafted, Spoken
<1>10. TailKept'
  <2> SUFFICES ASSUME ~crossed' PROVE TailKept'
    BY DEF TailKept
  <2>1. ~crossed /\ Writing = {} /\ Writing' = {p}
    BY <1>5, <1>7 DEF MeshInv, MeshTypeOK
  <2>2. ~spoiled' => ~spoiled /\ s = ledger
    BY <1>2
  <2>3. ~spoiled' => ledger = LastN(appended, MaxEntries)
    BY <2>1, <2>2 DEF MeshInv, TailKept, LedgerIsTail, Writing
  <2>4. ~spoiled' => d = LastN(Append(appended, e), MaxEntries)
    BY <1>4, <2>2, <2>3
  <2> HIDE DEF d
  <2> QED BY <1>4, <1>6, <2>1, <2>3, <2>4 DEF TailKept, LedgerIsTail
<1>11. OrderKept'
  <2>1. \A i \in DOMAIN s : s[i].id < e.id
    BY <1>1, <1>3, EntryIds DEF Known
  <2>2. ASSUME NEW t \in Seq(EntryType), Known(t), \A q \in Coords : Ordered(t, Range(history[q]))
        PROVE  (\A i \in DOMAIN t : t[i].id <= published') /\ \A q \in Coords : Ordered(t, Range(history'[q]))
    BY <1>3, <1>5, <2>2, KnownKept, OrderedKept, PublishTyped
  <2>3. \A q \in Coords : Ordered(d, Range(history'[q]))
    <3>1. \A q \in Coords : Ordered(s, Range(history'[q]))
      BY <1>3, <2>2
    <3>2. \A q \in Coords : Ordered(LastN(Append(s, e), MaxEntries), Range(history'[q]))
      BY <1>1, <1>3, <2>1, <3>1, TailOrdered, MeshAssumption
    <3> QED BY <3>2 DEF Draft
  <2>4. \A i \in DOMAIN d : d[i].id <= published'
    BY <1>1, <1>3, <1>5, <2>1, TailKnown, MeshAssumption DEF Draft
  <2> HIDE DEF d
  <2>5. (\A i \in DOMAIN ledger : ledger[i].id <= published') /\ \A q \in Coords : Ordered(ledger, Range(history'[q]))
    BY <2>2 DEF MeshInv, MeshTypeOK, OrderKept
  <2>6. ASSUME NEW r \in Coords
        PROVE  /\ \A i \in DOMAIN draft'[r] : draft'[r][i].id <= published'
               /\ \A q \in Coords : Ordered(draft'[r], Range(history'[q]))
    <3>1. CASE r = p
      BY <1>6, <2>3, <2>4, <3>1
    <3>2. CASE r # p
      BY <1>6, <2>2, <3>2 DEF MeshInv, MeshTypeOK, OrderKept
    <3> QED BY <3>1, <3>2
  <2> QED BY <2>5, <2>6 DEF OrderKept, Known, Ordered
<1>12. RegistryTold'
  <2> SUFFICES ASSUME ~crossed', ~spoiled', NEW q \in Coords \ lossy, NEW m \in Nodes \ forged'
               PROVE  stage'[q] # "down" /\
                      (speakers'[m] \subseteq {q} => (m \in registry'[q] <=> SaysMember(Told(q)', m)))
    BY DEF RegistryTold, SaysMember
  <2>1. ~crossed /\ ~spoiled /\ Writing = {} /\ m \in Nodes \ forged
    BY <1>2, <1>5 DEF MeshInv, MeshTypeOK
  <2>2. Told(q) = appended /\ stage[q] # "down"
        /\ (speakers[m] \subseteq {q} => (m \in registry[q] <=> SaysMember(appended, m)))
    BY <2>1 DEF MeshInv, RegistryTold, Told
  <2>3. speakers'[m] \subseteq {q} => speakers[m] \subseteq {q}
    OBVIOUS
  <2>4. CASE q = p
    <3>1. Told(p)' = Append(appended, e)
      BY <1>4, <1>6, <1>7 DEF Told
    <3>2. SaysMember(Append(appended, e), m) <=>
            IF m = n /\ action \in Membership THEN action = "node_joined" ELSE SaysMember(appended, m)
      BY <1>1, SaysAppend DEF MeshInv, MeshTypeOK
    <3> QED BY <1>6, <2>2, <2>3, <2>4, <3>1, <3>2
  <2>5. CASE q # p
    <3>1. Told(q)' = appended
      BY <1>6, <1>7, <2>1, <2>5 DEF Told
    <3> QED BY <1>6, <2>2, <2>3, <2>5, <3>1
  <2> QED BY <2>4, <2>5
<1> QED BY <1>8, <1>9, <1>10, <1>11, <1>12 DEF MeshInv

\* An append ends without having written, or its coordinator with it.
LEMMA LostKept ==
  ASSUME MeshInv, NEW p \in Coords, MeshTypeOK', stage'[p] \in {"idle", "down"},
         spoiled' = (spoiled \/ stage[p] = "write"), lossy' = lossy \union {p},
         \A q \in Coords \ {p} : stage'[q] = stage[q] /\ registry'[q] = registry[q],
         \A q \in Coords : Range(history'[q]) \subseteq Range(history[q]),
         draft' = [draft EXCEPT ![p] = <<>>],
         UNCHANGED <<ledger, published, appended, crossed, speakers, forged>>
  PROVE  MeshInv'
<1>1. Writing' = Writing \ {p}
  BY DEF Writing
<1>2. draft'[p] = <<>> /\ \A q \in Coords \ {p} : draft'[q] = draft[q]
  BY DEF MeshInv, MeshTypeOK
<1>3. Drafted'
  BY <1>1, <1>2 DEF MeshInv, Drafted, Spoken, Writing
<1>4. TailKept'
  <2> SUFFICES ASSUME ~crossed PROVE TailKept'
    BY DEF TailKept
  <2>1. \A q, r \in Writing : q = r
    BY DEF MeshInv, TailKept
  <2>2. ~spoiled' => \/ ledger = LastN(appended, MaxEntries)
                     \/ \E q \in Coords \ {p} : stage[q] = "write"
    BY DEF MeshInv, TailKept, LedgerIsTail
  <2>3. ~spoiled' => LedgerIsTail'
    BY <2>2 DEF LedgerIsTail
  <2>4. ~spoiled' => \A q \in Writing' : draft'[q] = LastN(Append(appended, Last(draft'[q])), MaxEntries)
    BY <1>1, <1>2 DEF MeshInv, TailKept, Writing
  <2> QED BY <1>1, <2>1, <2>3, <2>4 DEF TailKept
<1>5. OrderKept'
  <2>1. Known(draft'[p]) /\ \A r \in Coords : Ordered(draft'[p], Range(history'[r]))
    BY <1>2 DEF Known, Ordered
  <2>2. \A r \in Coords : Ordered(ledger, Range(history'[r]))
    BY OrderedFewer DEF MeshInv, OrderKept
  <2>3. \A q \in Coords \ {p} : Known(draft'[q]) /\ \A r \in Coords : Ordered(draft'[q], Range(history'[r]))
    BY <1>2, OrderedFewer DEF MeshInv, OrderKept
  <2> QED BY <2>1, <2>2, <2>3 DEF MeshInv, OrderKept, Known, Ordered
<1>6. RegistryTold'
  <2> SUFFICES ASSUME ~crossed', ~spoiled', NEW q \in Coords \ lossy', NEW m \in Nodes \ forged
               PROVE  stage'[q] # "down" /\
                      (speakers[m] \subseteq {q} => (m \in registry'[q] <=> SaysMember(Told(q)', m)))
    BY DEF RegistryTold, SaysMember
  <2>1. q # p /\ q \in Coords \ lossy /\ ~crossed /\ ~spoiled
    BY DEF MeshInv, MeshTypeOK
  <2>2. Told(q)' = Told(q)
    BY <1>1, <1>2, <2>1 DEF Told
  <2> QED BY <2>1, <2>2 DEF MeshInv, RegistryTold
<1> QED BY <1>3, <1>4, <1>5, <1>6 DEF MeshInv

LEMMA WriteKept ==
  ASSUME MeshInv, NEW p \in Coords, WriteLedger(p)
  PROVE  MeshInv'
<1> DEFINE e == Last(draft[p])
<1>1. /\ p \in Writing /\ Writing' = Writing \ {p}
      /\ stage'[p] = "idle" /\ \A q \in Coords \ {p} : stage'[q] = stage[q]
      /\ draft'[p] = <<>> /\ \A q \in Coords \ {p} : draft'[q] = draft[q]
      /\ ledger' = draft[p] \/ (crossed /\ ledger' = <<>>)
      /\ appended' = IF crossed \/ spoiled THEN appended ELSE Append(appended, e)
  BY DEF WriteLedger, MeshInv, MeshTypeOK, Writing
<1>2. draft[p] \in Seq(EntryType) /\ e \in EntryType /\ Spoken(p, e)
  BY <1>1, LastTyped DEF MeshInv, MeshTypeOK, Drafted
<1> HIDE DEF e
<1>3. <<>> \in Seq(EntryType) /\ Append(appended, e) \in Seq(EntryType)
  BY <1>2, AppendFacts DEF MeshInv, MeshTypeOK
<1>4. MeshTypeOK'
  BY <1>1, <1>2, <1>3 DEF MeshInv, MeshTypeOK, WriteLedger
<1>5. Drafted'
  BY <1>1 DEF MeshInv, Drafted, Spoken, Writing, WriteLedger
<1>6. TailKept'
  <2> SUFFICES ASSUME ~crossed PROVE TailKept'
    BY DEF TailKept, WriteLedger
  <2>1. Writing = {p} /\ Writing' = {}
    BY <1>1 DEF MeshInv, TailKept
  <2>2. ~spoiled => draft[p] = LastN(Append(appended, e), MaxEntries)
    BY <2>1 DEF MeshInv, TailKept, e
  <2> QED BY <1>1, <2>1, <2>2 DEF TailKept, LedgerIsTail, WriteLedger
<1>7. OrderKept'
  <2>1. \A r \in Coords : Known(<<>>) /\ Ordered(<<>>, Range(history[r]))
    BY DEF Known, Ordered
  <2>2. \A q, r \in Coords : Known(draft'[q]) /\ Ordered(draft'[q], Range(history[r]))
    BY <1>1, <2>1 DEF MeshInv, OrderKept
  <2>3. \A r \in Coords : Known(ledger') /\ Ordered(ledger', Range(history[r]))
    BY <1>1, <2>1 DEF MeshInv, OrderKept
  <2> QED BY <2>2, <2>3 DEF WriteLedger, OrderKept, Known, Ordered
<1>8. RegistryTold'
  <2> SUFFICES ASSUME ~crossed, ~spoiled, NEW q \in Coords \ lossy, NEW m \in Nodes \ forged
               PROVE  stage'[q] # "down" /\
                      (speakers[m] \subseteq {q} => (m \in registry[q] <=> SaysMember(Told(q)', m)))
    BY DEF RegistryTold, SaysMember, WriteLedger
  <2>1. stage'[q] # "down" /\ (speakers[m] \subseteq {q} => (m \in registry[q] <=> SaysMember(Told(q), m)))
    BY <1>1 DEF MeshInv, RegistryTold
  <2>2. Writing = {p} /\ appended' = Append(appended, e) /\ Told(q)' = Append(appended, e)
    BY <1>1 DEF MeshInv, TailKept, Told
  <2>3. CASE q = p
    BY <2>1, <2>2, <2>3 DEF Told, e
  <2>4. CASE q # p
    <3>1. Told(q) = appended
      BY <2>2, <2>4 DEF Told
    <3>2. speakers[m] \subseteq {q} => ~(e.node = m /\ e.action \in Membership)
      BY <1>2, <2>4 DEF Spoken
    <3>3. SaysMember(Append(appended, e), m) <=>
            IF e.node = m /\ e.action \in Membership THEN e.action = "node_joined" ELSE SaysMember(appended, m)
      BY <1>2, SaysAppend DEF MeshInv, MeshTypeOK
    <3> QED BY <2>1, <2>2, <3>1, <3>2, <3>3
  <2> QED BY <2>3, <2>4
<1> QED BY <1>4, <1>5, <1>6, <1>7, <1>8 DEF MeshInv

\* The other steps of a coordinator.
LEMMA MeshInvStep ==
  ASSUME MeshInv, NEW p \in Coords, MeshStep(p)
  PROVE  MeshInv'
<1>1. CASE OpenLedger(p)
  <2>1. /\ Writing' = Writing /\ p \in Writing /\ stage'[p] = "write"
        /\ \A q \in Coords : Told(q)' = Told(q)
    BY <1>1 DEF OpenLedger, Writing, Told, MeshInv, MeshTypeOK
  <2>2. Drafted'
    BY <1>1, <2>1 DEF OpenLedger, MeshInv, Drafted, Spoken
  <2>6. MeshTypeOK'
    <3>1. <<>> \in Seq(EntryType)
      OBVIOUS
    <3> QED BY <1>1, <3>1 DEF OpenLedger, MeshInv, MeshTypeOK
  <2>3. TailKept'
    BY <1>1, <2>1 DEF OpenLedger, MeshInv, TailKept, LedgerIsTail
  <2>4. OrderKept'
    BY <1>1 DEF OpenLedger, MeshInv, OrderKept, Known, Ordered
  <2>5. RegistryTold'
    <3>1. \A q \in Coords : stage[q] # "down" => stage'[q] # "down"
      BY <1>1 DEF OpenLedger, MeshInv, MeshTypeOK
    <3> QED BY <1>1, <2>1, <3>1 DEF OpenLedger, MeshInv, RegistryTold, SaysMember
  <2> QED BY <2>2, <2>3, <2>4, <2>5, <2>6 DEF MeshInv
<1>2. CASE WriteLedger(p)
  BY <1>2, WriteKept
<1>3. CASE AppendFails(p)
  <2>1. MeshTypeOK'
    BY <1>3 DEF AppendFails, MeshInv, MeshTypeOK
  <2> QED BY <1>3, <2>1, LostKept DEF AppendFails, MeshInv, MeshTypeOK
<1>4. CASE Clear(p)
  <2>1. MeshTypeOK' /\ Writing' = Writing
    BY <1>4 DEF Clear, MeshInv, MeshTypeOK, Writing
  <2>2. OrderKept'
    BY <1>4 DEF Clear, MeshInv, OrderKept, Known, Ordered
  <2> QED BY <1>4, <2>1, <2>2 DEF Clear, MeshInv, Drafted, Spoken, TailKept, RegistryTold
<1>5. CASE CoordinatorCrash(p)
  <2>1. MeshTypeOK'
    BY <1>5 DEF CoordinatorCrash, MeshInv, MeshTypeOK
  <2>2. \A q \in Coords : Range(history'[q]) \subseteq Range(history[q])
    <3>1. history'[p] = <<>> /\ \A q \in Coords \ {p} : history'[q] = history[q]
      BY <1>5 DEF CoordinatorCrash, MeshInv, MeshTypeOK
    <3> QED BY <3>1 DEF Range
  <2> QED BY <1>5, <2>1, <2>2, LostKept DEF CoordinatorCrash, MeshInv, MeshTypeOK
<1>6. CASE CoordinatorRestart(p)
  <2>1. MeshTypeOK' /\ Writing' = Writing /\ \A q \in Coords : Told(q)' = Told(q)
    BY <1>6 DEF CoordinatorRestart, MeshInv, MeshTypeOK, Writing, Told
  <2>2. Drafted' /\ OrderKept'
    BY <1>6, <2>1 DEF CoordinatorRestart, MeshInv, Drafted, Spoken, OrderKept, Known, Ordered
  <2>3. TailKept'
    <3>1. (\A q \in Coords : stage'[q] # "write") => \A q \in Coords : stage[q] # "write"
      BY <1>6 DEF CoordinatorRestart, MeshInv, MeshTypeOK
    <3> QED BY <1>6, <2>1, <3>1 DEF CoordinatorRestart, MeshInv, TailKept, LedgerIsTail
  <2>4. RegistryTold'
    <3>1. \A q \in Coords : stage[q] # "down" => stage'[q] # "down"
      BY <1>6 DEF CoordinatorRestart, MeshInv, MeshTypeOK
    <3> QED BY <1>6, <2>1, <3>1 DEF CoordinatorRestart, MeshInv, RegistryTold, SaysMember
  <2> QED BY <2>1, <2>2, <2>3, <2>4 DEF MeshInv
<1>7. ASSUME NEW n \in Nodes, RegisterNode(p, n) PROVE MeshInv'
  <2>1. /\ registry' \in [Coords -> SUBSET Nodes]
        /\ registry'[p] = registry[p] \union {n} /\ \A q \in Coords \ {p} : registry'[q] = registry[q]
    BY <1>7 DEF RegisterNode, MeshInv, MeshTypeOK
  <2>2. /\ speakers' \in [Nodes -> SUBSET Coords] /\ p \in speakers'[n] /\ forged' = forged
        /\ forged \subseteq Nodes /\ \A m \in Nodes : speakers[m] \subseteq speakers'[m]
    BY <1>7 DEF RegisterNode, Speak, MeshInv, MeshTypeOK
  <2> QED BY <1>7, <2>1, <2>2, RecordKept DEF RegisterNode, Actions, Membership
<1>8. ASSUME NEW n \in Nodes, DeregisterNode(p, n) PROVE MeshInv'
  <2>1. /\ registry' \in [Coords -> SUBSET Nodes]
        /\ registry'[p] = registry[p] \ {n} /\ \A q \in Coords \ {p} : registry'[q] = registry[q]
    BY <1>8 DEF DeregisterNode, MeshInv, MeshTypeOK
  <2>2. /\ speakers' \in [Nodes -> SUBSET Coords] /\ p \in speakers'[n] /\ forged' = forged
        /\ forged \subseteq Nodes /\ \A m \in Nodes : speakers[m] \subseteq speakers'[m]
    BY <1>8 DEF DeregisterNode, Speak, MeshInv, MeshTypeOK
  <2> QED BY <1>8, <2>1, <2>2, RecordKept DEF DeregisterNode, Actions, Membership
<1>9. ASSUME NEW n \in Nodes, NEW action \in Actions, Emit(p, n, action)
      PROVE  MeshInv'
  <2>1. /\ registry' \in [Coords -> SUBSET Nodes]
        /\ \A q \in Coords : registry'[q] = registry[q]
    BY <1>9 DEF Emit, MeshInv, MeshTypeOK
  <2>2. /\ speakers' \in [Nodes -> SUBSET Coords] /\ \A m \in Nodes : speakers[m] \subseteq speakers'[m]
        /\ forged \subseteq forged' /\ forged' \subseteq Nodes
        /\ (action \in Membership => n \in forged')
    BY <1>9 DEF Emit, MeshInv, MeshTypeOK
  <2> QED BY <1>9, <2>1, <2>2, RecordKept DEF Emit
<1>10. CASE EmitOther(p)
  <2>1. MeshTypeOK'
    BY <1>10, PublishTyped DEF EmitOther, MeshInv, MeshTypeOK, book
  <2> QED BY <1>10, <2>1, BookKept, PublishTyped DEF EmitOther, Publish
<1> QED BY <1>1, <1>2, <1>3, <1>4, <1>5, <1>6, <1>7, <1>8, <1>9, <1>10 DEF MeshStep

LEMMA MeshInvInit == MeshInit => MeshInv
<1> SUFFICES ASSUME MeshInit PROVE MeshInv
  OBVIOUS
<1>1. MeshTypeOK
  <2>1. \A S : <<>> \in Seq(S)
    OBVIOUS
  <2>2. 0 \in 0..MaxEvents
    BY MeshAssumption
  <2> QED BY <2>1, <2>2 DEF MeshInit, MeshTypeOK
<1>2. Writing = {} /\ \A p \in Coords : Told(p) = <<>>
  BY DEF MeshInit, Writing, Told
<1>3. LastN(<<>>, MaxEntries) = <<>>
  BY MeshAssumption DEF LastN
<1> QED BY <1>1, <1>2, <1>3
    DEF MeshInit, MeshInv, Drafted, TailKept, LedgerIsTail, OrderKept, Known, Ordered, RegistryTold, SaysMember

LEMMA MeshInvSound == MeshInv => LedgerSound
<1> SUFFICES ASSUME MeshInv PROVE LedgerSound
  OBVIOUS
<1>1. LedgerIsTail
  BY DEF MeshInv, TailKept, LedgerIsTail
<1>2. BusOrderKept
  BY DEF MeshInv, OrderKept, Ordered, BusOrderKept, InOrder
<1>3. LedgerTellsMembership
  <2> SUFFICES ASSUME ~crossed, ~spoiled, Writing = {}, Len(appended) <= MaxEntries,
                      NEW p \in Coords \ lossy, NEW n \in Nodes \ forged, speakers[n] \subseteq {p}
               PROVE  n \in registry[p] <=> SaysMember(ledger, n)
    BY DEF LedgerTellsMembership
  <2>1. ledger = LastN(appended, MaxEntries)
    BY <1>1 DEF LedgerIsTail, Writing
  <2>2. LastN(appended, MaxEntries) = appended
    BY MeshAssumption DEF LastN, MeshInv, MeshTypeOK
  <2> QED BY <2>1, <2>2 DEF MeshInv, RegistryTold, Told
<1> QED BY <1>1, <1>2, <1>3 DEF LedgerSound, MeshInv

\* As long as appends of the coordinators do not overlap, no read fails, no clear intervenes
\* and no write is cut short, GitHubLedger's file is the last max_entries entries whose
\* append has returned; whatever overlaps, fails or crashes, the entries of the events in a
\* coordinator's history stand in it in their order; and without faults, until entries are
\* dropped, it tells the registry of a coordinator of the nodes which that one alone
\* registers, deregisters and emits joins and leaves of: for every set of coordinators and
\* nodes and every bound.
THEOREM LedgerSoundHolds == MeshSpec => []LedgerSound
<1>1. MeshInv /\ [MeshNext]_meshVars => MeshInv'
  <2> SUFFICES ASSUME MeshInv, [MeshNext]_meshVars PROVE MeshInv'
    OBVIOUS
  <2>1. CASE MeshNext
    BY <2>1, MeshInvStep DEF MeshNext
  <2>2. CASE UNCHANGED meshVars
    <3>1. MeshTypeOK'
      BY <2>2 DEF meshVars, MeshInv, MeshTypeOK
    <3> QED BY <2>2, <3>1, BookKept DEF meshVars, book
  <2> QED BY <2>1, <2>2
<1> QED BY <1>1, MeshInvInit, MeshInvSound, PTL DEF MeshSpec

=============================================================================
