CONSTANTS
  JobIds = {j1, j2}
  Workers = {w1}
  Null = Null
  Requests <- OneCase
  ClaimTypes <- AllTypes
  MaxRecords = 2
  MaxRunning = 1
  MaxAttempts = 2
  LeaseMs = 1
  RetryDelayMs = 1
  TerminalRetentionMs = 1
  Skew = 1
  MaxClock = 2
  MaxClaims = 1
SPECIFICATION FairSpec
PROPERTIES EveryLeaseEnds
CHECK_DEADLOCK FALSE
