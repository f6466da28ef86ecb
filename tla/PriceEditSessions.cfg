CONSTANTS
  Players = {p1, p2}
  MaxSeats = 2
  Capacities = {2}
  PriceMode = "fixed"
  Prices = {0, 1}
  SplitTarget = 0
  Methods = {"subscription"}
  Sessions = 3
  OtherUsed = 1
  OfferTTL = 1
  SchedModes = {FALSE}
  Statuses = {}
  Phases = {}
SPECIFICATION Spec
CHECK_DEADLOCK FALSE
SYMMETRY Symmetry
INVARIANT SessionsOfOthersStand
