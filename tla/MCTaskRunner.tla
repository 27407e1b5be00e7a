---------------------------- MODULE MCTaskRunner ----------------------------
(* Instances of TaskRunner for TLC. *)
EXTENDS TaskRunner

CONSTANTS a, b, c, d, ghost

\* b needs a and is owned by the other agent, like c, which is independent and as
\* urgent as a; d needs a task which the tasks file does not have.
MCDeps == [t \in Tasks |-> CASE t = b -> {a} [] t = d -> {ghost} [] OTHER -> {}]
MCOwner == [t \in Tasks |-> IF t = a THEN "codex" ELSE "gemini"]
MCPriority == [t \in Tasks |-> IF t = b THEN 2 ELSE 1]
MCIdOrder == [t \in Tasks |-> CASE t = a -> 1 [] t = b -> 2 [] t = c -> 3 [] t = d -> 4]

Evidence ==
  [commit |-> TRUE, tests |-> TRUE, pr |-> TRUE, todo |-> TRUE,
   review |-> "passed", score |-> TRUE, urgent_fix |-> FALSE, branch_gone |-> TRUE]

\* Full evidence, a merge still pending, and a failed review without a score.
MCSignals ==
  {Evidence,
   [Evidence EXCEPT !.branch_gone = FALSE],
   [Evidence EXCEPT !.review = "failed", !.score = FALSE]}

=============================================================================
