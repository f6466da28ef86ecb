CONSTANTS
  Players = {p1, p2, p3}
  MaxSeats = 2
  Capacities = {2, 3}
  PriceMode = "fixed"
  Prices = {1}
  SplitTarget = 0
  Methods = {"subscription", "cash"}
  Sessions = 3
  OtherUsed = 1
  OfferTTL = 1
  SchedModes = {FALSE}
  Statuses = {}
  Phases = {}
SPECIFICATION Spec
CHECK_DEADLOCK FALSE
SYMMETRY Symmetry
INVARIANTS NoOverbooking MoneyMatchesSeats SessionsConserved QueueIsOrdered
PROPERTIES QueueIsFair
