---------------------------- MODULE RpaScheduler ----------------------------
(***************************************************************************)
(* run_rpa_schedule of rpa_scheduler.py: one thread per job, which for     *)
(* each attempt reserves a slot of its domain, takes a semaphore, runs the *)
(* browser, and records the attempt; the main thread joins them and        *)
(* reports.  Threads interleave wherever they are not in a lock.           *)
(*                                                                         *)
(* Times are kept as ticks to go or ticks gone by, so there is no clock.   *)
(***************************************************************************)
EXTENDS Integers, FiniteSets

CONSTANTS
  Jobs,          \* entries of the list of jobs
  Domain,        \* of each job
  Namings,       \* the ids the jobs may have: a configuration may name two alike
  MaxBrowsers,   \* max_concurrent_browsers
  Interval,      \* per_domain_interval_sec, in ticks
  Retries,       \* max_retries of each job
  BackoffBase, BackoffMax

ASSUME RpaAssumption ==
  /\ IsFiniteSet(Jobs) /\ Retries \in [Jobs -> Nat] /\ MaxBrowsers \in Nat \ {0}
  /\ DOMAIN Domain = Jobs /\ \A naming \in Namings : DOMAIN naming = Jobs
  /\ Interval \in Nat /\ BackoffBase \in Nat /\ BackoffMax \in Nat

Domains == {Domain[j] : j \in Jobs}

VARIABLES
  id,            \* of each job
  where,         \* where each thread is
  wake,          \* ticks of its sleep which are left
  attempt,       \* attempt, the loop's counter
  backoff,
  verdict,       \* what the runner answered: success, failed, raised
  slot,          \* ticks until the domain's next slot
  permits,       \* the semaphore
  active, peak,  \* active_count, max_seen
  tally,         \* attempts_by_job
  old,           \* the tally a thread has read
  success,       \* success_by_job
  records,       \* how many attempts of each job are recorded
  lag,           \* history: ticks since the thread reserved its slot
  gap,           \* history: ticks since the last start in a domain
  lastLag,       \* history: the lag of that start
  close          \* history: two starts in a domain were closer than the lag of either excuses

Ids == {id[j] : j \in Jobs}

shared == <<slot, permits, active, peak, tally, success, records>>
own == <<id, where, wake, attempt, backoff, verdict, old>>
watched == <<lag, gap, lastLag, close>>
rpaVars == <<own, shared, watched>>

Later(n) == IF n < Interval THEN n + 1 ELSE Interval
Sooner(n) == IF n > 0 THEN n - 1 ELSE 0

RpaInit ==
  /\ id \in Namings
  /\ where = [j \in Jobs |-> "slot"] /\ wake = [j \in Jobs |-> 0]
  /\ attempt = [j \in Jobs |-> 1] /\ backoff = [j \in Jobs |-> BackoffBase]
  /\ verdict = [j \in Jobs |-> "none"] /\ old = [j \in Jobs |-> 0]
  /\ slot = [d \in Domains |-> 0] /\ permits = MaxBrowsers /\ active = 0 /\ peak = 0
  /\ tally = [i \in Ids |-> 0] /\ success = [i \in Ids |-> "none"]
  /\ records = [j \in Jobs |-> 0]
  /\ lag = [j \in Jobs |-> 0] /\ gap = [d \in Domains |-> Interval]
  /\ lastLag = [d \in Domains |-> 0] /\ close = FALSE

Over(j) == where[j] \in {"done", "dead"}
GoTo(j, place) == where' = [where EXCEPT ![j] = place]

----------------------------------------------------------------------------
(* reserve_domain_slot: under domain_lock a slot is taken, or how long to   *)
(* sleep is read; after the sleep it is tried again.                        *)

\* Mutant: the slot is looked at under the lock and taken after it.
Reserve_NotTaken(j) ==
  /\ where[j] = "slot" /\ wake[j] = 0
  /\ IF slot[Domain[j]] = 0
     THEN /\ lag' = [lag EXCEPT ![j] = 0]
          /\ GoTo(j, "acquire") /\ UNCHANGED <<slot, wake>>
     ELSE /\ wake' = [wake EXCEPT ![j] = slot[Domain[j]]]
          /\ UNCHANGED <<slot, lag, where>>
  /\ UNCHANGED <<id, attempt, backoff, verdict, old, permits, active, peak, tally, success, records,
                 gap, lastLag, close>>

Reserve(j) ==
  /\ where[j] = "slot" /\ wake[j] = 0
  /\ IF slot[Domain[j]] = 0
     THEN /\ slot' = [slot EXCEPT ![Domain[j]] = Interval]
          /\ lag' = [lag EXCEPT ![j] = 0]
          /\ GoTo(j, "acquire") /\ UNCHANGED wake
     ELSE /\ wake' = [wake EXCEPT ![j] = slot[Domain[j]]]
          /\ UNCHANGED <<slot, lag, where>>
  /\ UNCHANGED <<id, attempt, backoff, verdict, old, permits, active, peak, tally, success, records,
                 gap, lastLag, close>>

\* semaphore.acquire; what follows up to the runner is the start.
AcquirePermit(j) ==
  /\ where[j] = "acquire" /\ permits > 0
  /\ permits' = permits - 1
  /\ LET d == Domain[j]
     IN  /\ close' = (close \/ (gap[d] + lag[j] < Interval /\ gap[d] + lastLag[d] < Interval))
         /\ gap' = [gap EXCEPT ![d] = 0] /\ lastLag' = [lastLag EXCEPT ![d] = lag[j]]
  /\ lag' = [lag EXCEPT ![j] = 0]
  /\ GoTo(j, "enter")
  /\ UNCHANGED <<id, wake, attempt, backoff, verdict, old, slot, active, peak, tally, success, records>>

Enter(j) ==
  /\ where[j] = "enter"
  /\ active' = active + 1
  /\ peak' = IF active + 1 > peak THEN active + 1 ELSE peak
  /\ GoTo(j, "run")
  /\ UNCHANGED <<id, wake, attempt, backoff, verdict, old, slot, permits, tally, success, records, watched>>

\* runner(job), which raises when the command times out or is not found, and the finally
\* clause, which it passes then too.
Exit(j, answer) ==
  /\ where[j] = "run"
  /\ verdict' = [verdict EXCEPT ![j] = answer]
  /\ active' = IF active > 0 THEN active - 1 ELSE 0
  /\ GoTo(j, "release")
  /\ UNCHANGED <<id, wake, attempt, backoff, old, slot, permits, peak, tally, success, records, watched>>

\* Mutant: the semaphore is released after the try statement, which a raise leaves.
ReleasePermit_OnlyWhenAnswered(j) ==
  /\ where[j] = "release"
  /\ permits' = IF verdict[j] = "raised" THEN permits ELSE permits + 1
  /\ GoTo(j, IF verdict[j] = "raised" THEN "dead" ELSE "read")
  /\ UNCHANGED <<id, wake, attempt, backoff, verdict, old, slot, active, peak, tally, success, records, watched>>

ReleasePermit(j) ==
  /\ where[j] = "release"
  /\ permits' = permits + 1
  /\ GoTo(j, IF verdict[j] = "raised" THEN "dead" ELSE "read")
  /\ UNCHANGED <<id, wake, attempt, backoff, verdict, old, slot, active, peak, tally, success, records, watched>>

----------------------------------------------------------------------------
(* The record.  attempts_by_job[id] += 1 reads, then writes.                *)

ReadTally(j) ==
  /\ where[j] = "read"
  /\ old' = [old EXCEPT ![j] = tally[id[j]]]
  /\ GoTo(j, "write")
  /\ UNCHANGED <<id, wake, attempt, backoff, verdict, shared, watched>>

Doubled(b) == LET twice == IF 2 * b > b THEN 2 * b ELSE b
              IN  IF twice < BackoffMax THEN twice ELSE BackoffMax

Settle(j, won) ==
  /\ success' = [success EXCEPT ![id[j]] = won]
  /\ GoTo(j, "done")
  /\ UNCHANGED <<wake, attempt, backoff>>

\* Sleep, then the next attempt.
Retry(j) ==
  /\ attempt' = [attempt EXCEPT ![j] = @ + 1]
  /\ wake' = [wake EXCEPT ![j] = backoff[j]]
  /\ backoff' = [backoff EXCEPT ![j] = IF @ > 0 THEN Doubled(@) ELSE @]
  /\ GoTo(j, "slot")
  /\ UNCHANGED success

\* Mutant: one attempt too few.
Judge_Early(j) ==
  IF verdict[j] = "success" THEN Settle(j, "true")
  ELSE IF attempt[j] >= Retries[j] THEN Settle(j, "false") ELSE Retry(j)

Judge(j) ==
  IF verdict[j] = "success" THEN Settle(j, "true")
  ELSE IF attempt[j] > Retries[j] THEN Settle(j, "false") ELSE Retry(j)

WriteTally(j) ==
  /\ where[j] = "write"
  /\ tally' = [tally EXCEPT ![id[j]] = old[j] + 1]
  /\ records' = [records EXCEPT ![j] = @ + 1]
  /\ old' = [old EXCEPT ![j] = 0]
  /\ Judge(j)
  /\ UNCHANGED <<id, verdict, slot, permits, active, peak, watched>>

----------------------------------------------------------------------------
Tick ==
  /\ \E j \in Jobs : ~Over(j)
  /\ wake' = [j \in Jobs |-> Sooner(wake[j])]
  /\ slot' = [d \in Domains |-> Sooner(slot[d])]
  /\ lag' = [j \in Jobs |-> IF where[j] = "acquire" THEN Later(lag[j]) ELSE lag[j]]
  /\ gap' = [d \in Domains |-> Later(gap[d])]
  /\ UNCHANGED <<id, where, attempt, backoff, verdict, old, permits, active, peak, tally, success, records,
                 lastLag, close>>

Thread(j) ==
  \/ Reserve(j) \/ AcquirePermit(j) \/ Enter(j) \/ ReleasePermit(j) \/ ReadTally(j) \/ WriteTally(j)
  \/ \E answer \in {"success", "failed", "raised"} : Exit(j, answer)

RpaNext == Tick \/ \E j \in Jobs : Thread(j)

\* Threads are scheduled, and the runner ends within its timeout.
RpaSpec == RpaInit /\ [][RpaNext]_rpaVars /\ WF_rpaVars(Tick) /\ \A j \in Jobs : WF_rpaVars(Thread(j))

----------------------------------------------------------------------------
(* The report, once every thread has been joined.                           *)

Joined == \A j \in Jobs : Over(j)
JobsSucceeded == Cardinality({i \in Ids : success[i] = "true"})
\* Mutant: counts the jobs which are known to have failed, which a raise leaves out.
JobsFailed_Known == Cardinality({i \in Ids : success[i] = "false"})
JobsFailed == Cardinality(Jobs) - JobsSucceeded
ReportOk == JobsFailed = 0
\* A sum, as the number of the units it adds up.
Units(S, f) == UNION {{x} \X (1..f[x]) : x \in S}
AttemptsTotal == Cardinality(Units(Ids, tally))

----------------------------------------------------------------------------
(* Properties.                                                              *)

WithPermit == {j \in Jobs : where[j] \in {"enter", "run", "release"}}
OnlyOne(j) == \A k \in Jobs : id[k] = id[j] => k = j

\* Every variable keeps its type.
RpaTypeOK ==
  /\ id \in Namings
  /\ where \in [Jobs -> {"slot", "acquire", "enter", "run", "release", "read", "write",
                      "done", "dead"}]
  /\ wake \in [Jobs -> Nat] /\ attempt \in [Jobs -> Nat] /\ backoff \in [Jobs -> Nat]
  /\ verdict \in [Jobs -> {"none", "success", "failed", "raised"}] /\ old \in [Jobs -> Nat]
  /\ slot \in [Domains -> 0..Interval] /\ permits \in 0..MaxBrowsers
  /\ active \in Nat /\ peak \in Nat /\ tally \in [Ids -> Nat] /\ records \in [Jobs -> Nat]
  /\ success \in [Ids -> {"none", "true", "false"}]
  /\ lag \in [Jobs -> 0..Interval] /\ gap \in [Domains -> 0..Interval]
  /\ lastLag \in [Domains -> 0..Interval] /\ close \in BOOLEAN

\* At most MaxBrowsers browsers run, the peak which is reported says so, and no permit
\* is lost or made up, although a runner may raise at any attempt.
CapHeld ==
  /\ permits + Cardinality(WithPermit) = MaxBrowsers
  /\ peak <= MaxBrowsers

SpacedUpToLag == ~close

ReportTrue ==
  Joined =>
    /\ ReportOk => \A j \in Jobs : verdict[j] = "success"
    /\ \A j \in Jobs : OnlyOne(j) => (success[id[j]] = "true" <=> verdict[j] = "success")

AttemptsAccounted ==
  Joined =>
    /\ \A j \in Jobs : verdict[j] = "failed" => attempt[j] = Retries[j] + 1
    /\ \A j \in Jobs : records[j] = IF verdict[j] = "raised" THEN attempt[j] - 1 ELSE attempt[j]
    /\ \A j \in Jobs : OnlyOne(j) => tally[id[j]] = records[j]
    /\ AttemptsTotal <= Cardinality(Units(Jobs, records))

\* Starts in one domain are Interval apart, less the time one of the two has waited for
\* the semaphore after it had reserved its slot.  A report which says ok means that every
\* job has succeeded, whatever ids they have, and a job with an id of its own is counted
\* as what its last attempt was.  A job which did not succeed has used all its attempts,
\* unless its runner raised: that attempt alone is neither retried nor recorded.  Every
\* other one is recorded, and counted where no two jobs share an id; the unprotected
\* counters may lose some of those that do.  And every variable keeps its type.
RpaSound == RpaTypeOK /\ SpacedUpToLag /\ ReportTrue /\ AttemptsAccounted

=============================================================================
