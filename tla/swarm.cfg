\* Two tasks are routed, deferred and retried while links and models come and go; or the
\* inputs of the health gate, or those of the health monitor, change.
CHECK_DEADLOCK FALSE
SPECIFICATION MCSpec
CONSTANTS
  Parts = {"swarm", "gate", "monitor"}
  Endpoints = 2
  Retries = 1
  TTL = 2
  Tasks = {"build", "audit"}
  Keywords <- MCKeywords
  Inventories <- MCInventories
  WithinBudget = TRUE
  None = None
  MaxQueue = 2
  MaxPasses = 2
  Providers = {"local", "cloud", "spare"}
  Required = {"local", "cloud"}
  Todo = {"t1", "t2"}
  Meters = {"tokens", "retries"}
  Scored = {"tokens"}
  Levels = {7, 8, 10, 11}
  Threshold = 2
  MaxAge = 4
  Lanes = {"t1", "t2", "t3"}
  Spendings = {8, 9, 10}
INVARIANTS
  QueueSound
  GatePassMeans
  GradeMatchesRemedies
PROPERTIES
  CachedStatusRecent
  PassEnds
  WorseNeverScoresHigher
