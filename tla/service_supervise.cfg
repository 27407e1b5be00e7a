\* One service: its supervisor restarts failing and hung runners.
CHECK_DEADLOCK FALSE
SPECIFICATION Spec
CONSTANTS
  start = start
  stop = stop
  ensure = ensure
  run = run
  Nobody = Nobody
  Blank = Blank
  Runners = {r1, r2, r3}
  Sups = {s1}
  Commands = {start, ensure}
  Kind <- MCKind
  MaxRestarts = 3
  MayFail = TRUE
  FaultKinds = {"hang", "runner"}
  Overlap = FALSE
  MaxFaults = 2
INVARIANTS
  SupervisionSound
  RunnerReachable
PROPERTIES
  CompletedNotRestarted
  HealthyNotTerminated
  DeadRunnerNoticed
