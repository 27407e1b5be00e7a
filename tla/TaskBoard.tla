----------------------------- MODULE TaskBoard -----------------------------
(***************************************************************************)
(* What the state file promises to those who only read it (the dashboard,  *)
(* manager.health_snapshot, the next runner): a board on which one task at *)
(* a time is claimed, each claim counted, and from which a task leaves     *)
(* finished, or given up after at least MaxAttempts claims.                *)
(***************************************************************************)
EXTENDS Integers

CONSTANTS Tasks, Deps, MaxAttempts

VARIABLES status, attempts

boardVars == <<status, attempts>>

Init ==
  /\ status = [t \in Tasks |-> "pending"]
  /\ attempts = [t \in Tasks |-> 0]

Claim(t) ==
  /\ status[t] = "pending"
  /\ \A d \in Deps[t] : d \in Tasks /\ status[d] = "done"
  /\ \A u \in Tasks : status[u] # "in_progress"
  /\ status' = [status EXCEPT ![t] = "in_progress"]
  /\ attempts' = [attempts EXCEPT ![t] = attempts[t] + 1]

\* The claim ends without a result, or its runner died.
GiveBack(t) ==
  /\ status[t] = "in_progress"
  /\ status' = [status EXCEPT ![t] = "pending"]
  /\ UNCHANGED attempts

Finish(t) ==
  /\ status[t] = "in_progress"
  /\ status' = [status EXCEPT ![t] = "done"]
  /\ UNCHANGED attempts

Abandon(t) ==
  /\ status[t] = "in_progress" /\ attempts[t] >= MaxAttempts
  /\ status' = [status EXCEPT ![t] = "blocked"]
  /\ UNCHANGED attempts

Next == \E t \in Tasks : Claim(t) \/ GiveBack(t) \/ Finish(t) \/ Abandon(t)

Spec == Init /\ [][Next]_boardVars

=============================================================================
