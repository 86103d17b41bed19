CONSTANTS
  JobIds = {j1, j2}
  Workers = {w1, w2}
  Null = Null
  Requests <- TwoCases
  ClaimTypes <- AllTypes
  MaxRecords = 2
  MaxRunning = 2
  MaxAttempts = 2
  LeaseMs = 1
  RetryDelayMs = 1
  TerminalRetentionMs = 1
  Skew = 0
  MaxClock = 3
  MaxClaims = 2
SYMMETRY Symmetry
SPECIFICATION Spec
INVARIANTS TypeOK NeverCorrupt QueuedHasAttemptsLeft
PROPERTIES LostLeaseStaysLost LiveWorkIsKept LifeSpec
CHECK_DEADLOCK FALSE
