CONSTANTS
  Nobody = Nobody
  Jobs = {j1, j2}
  Passes = {a, b}
  Batch = 2
  MaxAttempts = 2
  Lease = 4
  Budget = 2
  SendTime = 1
  Backoff = 1
  Pause = 1
  Lags = {0, 1}
  MaxMishaps = 1
  MaxPauses = 0
  MaxClaims = 6
SPECIFICATION FairSpec
CHECK_DEADLOCK FALSE
INVARIANTS AtMostOnce NoEndlessRetry
PROPERTY Settles
