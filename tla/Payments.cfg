SPECIFICATION Spec
CONSTANTS
  u1 = u1
  u2 = u2
  c1 = c1
  Users = {u1, u2}
  Collections = {c1}
  Pledges = {1, 2}
  Price = 1
  MaxSeats = 2
  MaxPayments = 3
  NoUser = NoUser
SYMMETRY Symmetry
CHECK_DEADLOCK FALSE
INVARIANTS
  LedgerMatchesPayments
  OnePaymentPerSeat
  PendingIsOwed
PROPERTIES
  ConfirmedAsSeen
  PaidSeatsGoLast
