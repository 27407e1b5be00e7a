\* Two runners: is the lock a lock?
CHECK_DEADLOCK FALSE
SPECIFICATION MCSpec
CONSTANTS
  Parts = {"lock"}
  Runners = {r1, r2}
  Nobody = Nobody
  Coords = {c1, c2}
  Nodes = {n1}
  MaxEntries = 2
  MaxHistory = 2
  MaxEvents = 3
  Runs = {"tests"}
  Contexts = {"coverage"}
  MaxAttempts = 3
  FailureThreshold = 2
  CloseOnFailure = TRUE
  OpenIssueOnFailure = TRUE
  RequireGreen = TRUE
  DeleteBranch = TRUE
INVARIANT
  NoConcurrentRunners
