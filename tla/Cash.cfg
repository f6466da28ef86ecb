CONSTANTS
  Players = {p1, p2, p3}
  MaxSeats = 2
  Capacities = {2, 3}
  PriceMode = "fixed"
  Prices = {1}
  SplitTarget = 0
  Methods = {"cash"}
  Sessions = 0
  OtherUsed = 0
  OfferTTL = 2
  SchedModes = {TRUE, FALSE}
  Statuses = {}
  Phases = {}
SPECIFICATION Spec
CHECK_DEADLOCK FALSE
SYMMETRY Symmetry
INVARIANTS TypeOK NoOverbooking OfferBacked
PROPERTIES NobodyOvertakes QueueIsFair
