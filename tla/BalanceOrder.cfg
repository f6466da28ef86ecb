SPECIFICATION Spec
CONSTANTS
  u1 = u1
  u2 = u2
  w1 = w1
  w2 = w2
  r1 = r1
  Singles = {3}
  Dates = {1, 2}
  Openings = {}
  Booked = {1, 2, 3}
  Statuses = {"published", "closed"}
  Users = {u1}
  Payers = {u1}
  Requests = {}
  DemoQuota = 1
  Units = 1
  Adjustments = {}
  ExtraLimit = 1
  Enforcement = {TRUE}
  Workers = {w1, w2}
SYMMETRY Symmetry
CHECK_DEADLOCK FALSE
INVARIANT BalanceBeforeMoney
