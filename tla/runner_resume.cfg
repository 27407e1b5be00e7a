\* Two dependent tasks; runs may resume and may be dry; both caps are on.
CHECK_DEADLOCK FALSE
SPECIFICATION Spec
CONSTANTS
  a = a
  b = b
  c = c
  d = d
  ghost = ghost
  Ids = {a, b, c, d, ghost}
  NoTask = NoTask
  Tasks = {a, b}
  Deps <- MCDeps
  Owner <- MCOwner
  Priority <- MCPriority
  IdOrder <- MCIdOrder
  BackoffBase = 1
  BackoffMax = 2
  AttemptDelay = 1
  Signals <- MCSignals
  Usage = {0, 1}
  MaxCycles = 4
  MaxAttempts = 2
  MaxRetryable = 1
  MaxTotalTokens = 1
  MaxTotalRetries = 1
  RuntimeLimited = TRUE
  IdleSleep = 1
  ResumeModes = {FALSE, TRUE}
  DryModes = {FALSE, TRUE}
  MaxStarts = 3
INVARIANTS
  DependenciesFirst
  PersistedBeforeActing
  CheckpointLag
  BlockedOnlyWhenSpent
  BoundedOvershoot
  ExitCodeTruth
PROPERTY
  DoneIsFinal
