\* Four tasks of both owners, one of which waits for a task that is missing; no
\* resume, no caps: liveness, the board and the exit codes.
CHECK_DEADLOCK FALSE
SPECIFICATION Spec
CONSTANTS
  a = a
  b = b
  c = c
  d = d
  ghost = ghost
  Ids = {a, b, c, d, ghost}
  NoTask = NoTask
  Tasks = {a, b, c, d}
  Deps <- MCDeps
  Owner <- MCOwner
  Priority <- MCPriority
  IdOrder <- MCIdOrder
  BackoffBase = 1
  BackoffMax = 2
  AttemptDelay = 1
  Signals <- MCSignals
  Usage = {0}
  MaxCycles = 4
  MaxAttempts = 2
  MaxRetryable = 1
  MaxTotalTokens = 0
  MaxTotalRetries = 0
  RuntimeLimited = FALSE
  IdleSleep = 2
  ResumeModes = {FALSE}
  DryModes = {FALSE}
  MaxStarts = 2
INVARIANTS
  ExitCodeTruth
  AttemptsPaidFor
PROPERTIES
  RunsEnd
  StateFileIsBoard
