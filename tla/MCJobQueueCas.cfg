CONSTANTS
  JobIds = {j1, j2, j3}
  Workers = {w1}
  Callers = {p1, p2}
  Null = Null
  Requests <- FewKeys
  ClientCommands <- Calls
  ClaimTypes <- AllTypes
  MaxRecords = 2
  MaxRunning = 1
  MaxAttempts = 2
  LeaseMs = 1
  RetryDelayMs = 1
  TerminalRetentionMs = 1
  MaxContentionRetries = 2
  MaxClaims = 2
  MaxClock = 1
  MaxRevision = 3
SYMMETRY Symmetry
SPECIFICATION Spec
INVARIANTS ContentionMeansProgress
PROPERTIES AtomicSpec
CHECK_DEADLOCK FALSE
