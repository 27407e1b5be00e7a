\* A runner which fails before its first heartbeat.
CHECK_DEADLOCK FALSE
SPECIFICATION Spec
CONSTANTS
  start = start
  stop = stop
  ensure = ensure
  run = run
  Nobody = Nobody
  Blank = Blank
  Runners = {r1, r2}
  Sups = {s1}
  Commands = {start}
  Kind <- MCKind
  MaxRestarts = 2
  MayFail = TRUE
  FaultKinds = {"hang", "runner", "supervisor"}
  Overlap = TRUE
  MaxFaults = 0
PROPERTY
  DeadRunnerRestarted
