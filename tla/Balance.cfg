SPECIFICATION Spec
CONSTANTS
  u1 = u1
  u2 = u2
  w1 = w1
  w2 = w2
  r1 = r1
  Singles = {3}
  Dates = {1, 2}
  Openings = {1}
  Booked = {1, 2}
  Statuses = {"draft", "published"}
  Users = {u1}
  Payers = {u1}
  Requests = {r1}
  DemoQuota = 1
  Units = 1
  Adjustments <- Corrections
  ExtraLimit = 1
  Enforcement = {TRUE}
  Workers = {w1, w2}
SYMMETRY Symmetry
CHECK_DEADLOCK FALSE
INVARIANTS
  TypeOK
  RefundedIsCancelled
  SeriesPlanHolds
  NoWaitCycle
PROPERTIES
  LedgerSpec
  RefundOnlyIfEmpty
