\* One task, no pass over the queue: what is deferred while the network is online.
CHECK_DEADLOCK FALSE
SPECIFICATION MCSpec
CONSTANTS
  Parts = {"swarm"}
  Endpoints = 2
  Retries = 0
  TTL = 1
  Tasks = {"audit"}
  Keywords <- MCKeywords
  Inventories <- MCInventories
  WithinBudget = TRUE
  None = None
  MaxQueue = 1
  MaxPasses = 0
  Providers = {"local", "cloud", "spare"}
  Required = {"local", "cloud"}
  Todo = {"t1", "t2"}
  Meters = {"tokens", "retries"}
  Scored = {"tokens"}
  Levels = {7, 8, 10, 11}
  Threshold = 2
  MaxAge = 4
  Lanes = {"t1", "t2", "t3"}
  Spendings = {8, 9, 10}
PROPERTY
  CloudWhenOnline
