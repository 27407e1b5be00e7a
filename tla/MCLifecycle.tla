----------------------------- MODULE MCLifecycle -----------------------------
(* Instances of Lifecycle for TLC: a command is named for what it does. *)
EXTENDS Lifecycle

CONSTANTS start, stop, ensure, run

MCKind ==
  [c \in Commands |-> CASE c = start -> "start" [] c = stop -> "stop"
                        [] c = ensure -> "ensure" [] c = run -> "run"]


=============================================================================
