CONSTANTS
  Players = {p1, p2}
  MaxSeats = 2
  Capacities = {2, 3}
  PriceMode = "split"
  Prices = {0}
  SplitTarget = 2
  Methods = {"cash"}
  Sessions = 0
  OtherUsed = 0
  OfferTTL = 1
  SchedModes = {TRUE}
  Statuses = {"published"}
  Phases = {"open", "due"}
SPECIFICATION FairSpec
CHECK_DEADLOCK FALSE
INVARIANTS OneShareEach
PROPERTIES SharesStand LapsedOfferGoes FreeSeatIsOffered
