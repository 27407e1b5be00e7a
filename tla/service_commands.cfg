\* Commands of operators and schedulers, overlapping or not.
CHECK_DEADLOCK FALSE
SPECIFICATION Spec
CONSTANTS
  start = start
  stop = stop
  ensure = ensure
  run = run
  Nobody = Nobody
  Blank = Blank
  Runners = {r1}
  Sups = {s1, s2}
  Commands = {start, ensure, stop, run}
  Kind <- MCKind
  MaxRestarts = 2
  MayFail = FALSE
  FaultKinds = {"supervisor"}
  Overlap = TRUE
  MaxFaults = 1
INVARIANTS
  OneSupervisor
PROPERTIES
  StopEnds
