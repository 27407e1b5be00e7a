\* Two coordinators which lead in turn, lapse, crash and return; or one which works off a
\* graph of four nodes, and crashes twice at most; or three browser jobs, two permits and
\* runners which raise.
CHECK_DEADLOCK FALSE
SPECIFICATION MCSpec
CONSTANTS
  Procs = {n1, n2}
  NoLeader = NoLeader
  MaxAcquires = 4
  DagNodes = {"lint", "test", "docs", "ship"}
  DependsOn <- MCDependsOn
  RequiresDone <- MCRequiresDone
  Torn = Torn
  None = None
  MaxCrashes = 2
  Jobs = {"a", "b", "c"}
  Domain <- MCDomain
  Namings <- MCNamings
  MaxBrowsers = 2
  Interval = 2
  Retries <- MCRetries
  BackoffBase = 1
  BackoffMax = 1
INVARIANTS
  EpochsIncrease
  LiveLeaseKept
  DagSound
  CapHeld
  RpaSound
PROPERTIES
  OnlyLatestPasses
  LeaseReclaimed
  ReplaySafe
  DagSettles
