\* Three runner processes, started and killed in any order; or two coordinators which share
\* a ledger; or a request with one check run and one commit status, and a wait of three
\* polls with a threshold of two.
CHECK_DEADLOCK FALSE
SPECIFICATION MCSpec
CONSTANTS
  Parts = {"lock", "mesh", "pr"}
  Runners = {r1, r2, r3}
  Nobody = Nobody
  Coords = {c1, c2}
  Nodes = {n1}
  MaxEntries = 2
  MaxHistory = 2
  MaxEvents = 3
  Runs = {"tests"}
  Contexts = {"coverage"}
  MaxAttempts = 3
  FailureThreshold = 2
  CloseOnFailure = TRUE
  OpenIssueOnFailure = TRUE
  RequireGreen = TRUE
  DeleteBranch = TRUE
INVARIANTS
  OneRunnerIfSerial
  LedgerSound
  CommandsSound
PROPERTIES
  MergedByPolicy
