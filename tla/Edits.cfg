CONSTANTS
  Players = {p1, p2}
  MaxSeats = 2
  Capacities = {2, 3}
  PriceMode = "fixed"
  Prices = {1}
  SplitTarget = 0
  Methods = {"subscription", "cash"}
  Sessions = 3
  OtherUsed = 1
  OfferTTL = 1
  SchedModes = {TRUE, FALSE}
  Statuses = {"published", "closed", "finished"}
  Phases = {"before", "due"}
SPECIFICATION Spec
CHECK_DEADLOCK FALSE
SYMMETRY Symmetry
INVARIANTS OffersOnlyWhilePublished CancelledEventIsEmpty MoneyMatchesSeats SessionsConserved
