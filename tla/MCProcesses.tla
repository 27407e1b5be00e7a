---------------------------- MODULE MCProcesses ----------------------------
(* The instances of Watchdog and AutopilotCleanup TLC checks, either in a   *)
(* behaviour: a service with a pid file and a pattern, one with neither,    *)
(* one with a check only, one nobody restarts, one with a pid in the        *)
(* configuration beside the pid file; two rows and two cleanups.            *)
EXTENDS Watchdog, AutopilotCleanup

VARIABLE part

MCConfs ==
  {[pidFile |-> TRUE, pid |-> 0, match |-> TRUE, check |-> FALSE, detached |-> FALSE, restart |-> TRUE],
   [pidFile |-> FALSE, pid |-> 0, match |-> FALSE, check |-> FALSE, detached |-> TRUE, restart |-> TRUE],
   [pidFile |-> FALSE, pid |-> 0, match |-> FALSE, check |-> TRUE, detached |-> FALSE, restart |-> TRUE],
   [pidFile |-> TRUE, pid |-> 0, match |-> FALSE, check |-> FALSE, detached |-> FALSE, restart |-> FALSE],
   [pidFile |-> FALSE, pid |-> 1, match |-> TRUE, check |-> FALSE, detached |-> TRUE, restart |-> TRUE]}

\* While the cleanups run, the watchdog has nothing to do.
MCInit ==
  /\ part \in {"watchdog", "cleanup"}
  /\ Init /\ CleanupInit
  /\ part = "cleanup" => conf.check /\ Up

MCNext ==
  \/ part = "watchdog" /\ Next /\ UNCHANGED <<part, cleanupVars>>
  \/ part = "cleanup" /\ CleanupNext /\ UNCHANGED <<part, vars>>

\* Fairness is that of Watchdog, the only part with a liveness property.
Watching(A) == part = "watchdog" /\ A /\ UNCHANGED <<part, cleanupVars>>
MCSpec ==
  /\ MCInit /\ [][MCNext]_<<part, vars, cleanupVars>>
  /\ SF_vars(Watching(Tick)) /\ \A w \in Runs : WF_vars(Watching(Step(w)))

=============================================================================
