CONSTANTS
  Nobody = Nobody
  Jobs = {j1, j2}
  Passes = {a, b}
  Batch = 2
  MaxAttempts = 2
  Lease = 1
  Budget = 2
  SendTime = 1
  Backoff = 0
  Pause = 1
  Lags = {0}
  MaxMishaps = 1
  MaxPauses = 1
  MaxClaims = 3
SPECIFICATION Spec
CHECK_DEADLOCK FALSE
SYMMETRY Symmetry
INVARIANTS TypeOK OnlyOwnerWrites
