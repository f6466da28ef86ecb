------------------------ MODULE EventBookingsProofs ------------------------
(***************************************************************************)
(* Proofs about EventBookings, for every number of players, limit of       *)
(* seats, capacity, price and clock.                                       *)
(***************************************************************************)
EXTENDS EventBookings, FiniteSetTheorems, TLAPS

-----------------------------------------------------------------------------
(* Sums of seats.                                                           *)

Counts == [Players -> SeatCount]

\* The seats Total counts.
Cells(n) == {s \in Players \X (1 .. MaxSeats) : s[2] <= n[s[1]]}

\* A sum of seats is a natural number.
LEMMA TotalType ==
  ASSUME NEW n
  PROVE  IsFiniteSet(Cells(n)) /\ Total(n) \in Nat /\ Total(n) = Cardinality(Cells(n))
<1>1. IsFiniteSet(Players \X (1 .. MaxSeats))
  <2>1. IsFiniteSet(1 .. MaxSeats)
    BY SeatsAssumption, FS_Interval
  <2> QED BY <2>1, PlayersAssumption, FS_Product
<1>2. IsFiniteSet(Cells(n))
  BY <1>1, FS_Subset DEF Cells
<1> QED
  BY <1>2, FS_CardinalityType DEF Total, Cells

\* Fewer seats for everybody are fewer seats.
LEMMA TotalMonotone ==
  ASSUME NEW m \in Counts, NEW n \in Counts, \A p \in Players : m[p] <= n[p]
  PROVE  Total(m) <= Total(n)
<1>1. Cells(m) \subseteq Cells(n)
  BY SeatsAssumption DEF Cells, Counts, SeatCount
<1> QED
  BY <1>1, TotalType, FS_Subset

\* Seats add up player by player.
LEMMA TotalSum ==
  ASSUME NEW f \in Counts, NEW g \in Counts, NEW h \in Counts,
         \A p \in Players : h[p] = f[p] + g[p]
  PROVE  Total(h) = Total(f) + Total(g)
<1> DEFINE rest == Cells(h) \ Cells(f)
           up == [s \in Cells(g) |-> <<s[1], f[s[1]] + s[2]>>]
<1>1. Cells(f) \subseteq Cells(h)
  BY SeatsAssumption DEF Cells, Counts, SeatCount
<1>2. up \in [Cells(g) -> rest]
  BY SeatsAssumption DEF Cells, Counts, SeatCount
<1>3. \A s, t \in Cells(g) : up[s] = up[t] => s = t
  BY SeatsAssumption DEF Cells, Counts, SeatCount
<1>4. \A r \in rest : \E s \in Cells(g) : up[s] = r
  <2> SUFFICES ASSUME NEW r \in rest PROVE \E s \in Cells(g) : up[s] = r
    OBVIOUS
  <2>1. r[1] \in Players /\ r[2] \in 1 .. MaxSeats /\ r = <<r[1], r[2]>>
    BY DEF Cells
  <2>2. f[r[1]] \in Nat /\ g[r[1]] \in Nat /\ h[r[1]] = f[r[1]] + g[r[1]]
    BY <2>1, SeatsAssumption DEF Counts, SeatCount
  <2>3. r[2] <= h[r[1]] /\ r[2] > f[r[1]]
    BY <2>1, <2>2, SeatsAssumption DEF Cells
  <2>4. <<r[1], r[2] - f[r[1]]>> \in Cells(g)
    BY <2>1, <2>2, <2>3, SeatsAssumption DEF Cells
  <2> QED
    BY <2>1, <2>2, <2>4
<1>5. ExistsBijection(Cells(g), rest)
  <2>1. up \in Bijection(Cells(g), rest)
    BY <1>2, <1>3, <1>4 DEF Bijection, Injection, Surjection, IsInjective
  <2> QED BY <2>1 DEF ExistsBijection
<1>6. IsFiniteSet(rest) /\ Cardinality(rest) = Total(g)
  BY <1>5, TotalType, FS_Bijection
<1>7. Cardinality(Cells(f) \union rest) = Total(f) + Total(g) - Cardinality(Cells(f) \intersect rest)
  BY <1>6, TotalType, FS_Union
<1>8. Cells(f) \union rest = Cells(h) /\ Cells(f) \intersect rest = {}
  BY <1>1
<1>9. Cardinality(Cells(f) \intersect rest) = 0
  BY <1>8, FS_EmptySet
<1>10. Cardinality(Cells(f) \union rest) = Total(h)
  BY <1>8, TotalType
<1>11. Total(f) \in Nat /\ Total(g) \in Nat
  BY TotalType
<1> HIDE DEF rest
<1> QED
  BY <1>7, <1>9, <1>10, <1>11

\* The seats of one player alone.
Only(p, n) == [q \in Players |-> IF q = p THEN n ELSE 0]

LEMMA TotalOnly ==
  ASSUME NEW p \in Players, NEW n \in SeatCount
  PROVE  Only(p, n) \in Counts /\ Total(Only(p, n)) = n
<1>1. Only(p, n) \in Counts
  BY SeatsAssumption DEF Only, Counts, SeatCount
<1>2. Cells(Only(p, n)) = {p} \X (1 .. n)
  <2>1. ASSUME NEW s \in Cells(Only(p, n)) PROVE s \in {p} \X (1 .. n)
    <3>1. s[1] \in Players /\ s[2] \in 1 .. MaxSeats /\ s = <<s[1], s[2]>> /\ s[2] <= Only(p, n)[s[1]]
      BY DEF Cells
    <3> QED BY <3>1, SeatsAssumption DEF Only, SeatCount
  <2>2. ASSUME NEW s \in {p} \X (1 .. n) PROVE s \in Cells(Only(p, n))
    BY SeatsAssumption DEF Only, SeatCount, Cells
  <2> QED BY <2>1, <2>2
<1>3. IsFiniteSet(1 .. n) /\ Cardinality(1 .. n) = n
  BY SeatsAssumption, FS_Interval DEF SeatCount
<1>4. Cardinality({p} \X (1 .. n)) = 1 * n
  <2>1. IsFiniteSet({p}) /\ Cardinality({p}) = 1
    BY FS_Singleton
  <2> DEFINE S == {p}
             T == 1 .. n
  <2>2. IsFiniteSet(S) /\ IsFiniteSet(T)
    BY <1>3, <2>1
  <2> HIDE DEF S, T
  <2>3. Cardinality(S \X T) = Cardinality(S) * Cardinality(T)
    BY <2>2, FS_Product
  <2> QED BY <1>3, <2>1, <2>3 DEF S, T
<1> QED
  BY <1>1, <1>2, <1>3, <1>4, TotalType DEF SeatCount

-----------------------------------------------------------------------------
(* One booking.  A handler is a composition of these steps; each keeps a row *)
(* good, and says what becomes of the seats it takes and holds.              *)

\* Seats of a booking in the roster and the queue together keep the limit of
\* the group; an active one has a seat, one that waits as a whole has no other
\* queued seats; payments live only for seats taken.
Good(b) ==
  /\ b \in Row
  /\ b.seats + b.wl <= MaxSeats
  /\ Active(b) => b.seats >= 1
  /\ b.status = "waitlisted" => b.wl = 0
  /\ Live(b) <= TakenBy(b)

Assumptions ==
  /\ MaxSeats \in Nat \ {0}
  /\ Sessions \in Nat /\ OtherUsed \in 0 .. Sessions
  /\ OfferTTL \in Nat \ {0}

LEMMA AssumptionsHold == Assumptions
BY SeatsAssumption, MoneyAssumption, ClockAssumption DEF Assumptions

\* What the rows of a good booking are, in integers.
LEMMA GoodNumbers ==
  ASSUME NEW b, Good(b)
  PROVE  /\ b.seats \in SeatCount /\ b.wl \in SeatCount
         /\ b.pend \in SeatCount /\ b.paid \in SeatCount
         /\ b.offered \in SeatCount /\ b.left \in 0 .. OfferTTL
         /\ b.used \in 0 .. Sessions
         /\ b.status \in BookingStatus /\ b.method \in {"free", "cash", "subscription"}
         /\ b.sub \in BOOLEAN /\ b.alloc \in BOOLEAN
         /\ TakenBy(b) \in SeatCount /\ HeldBy(b) \in SeatCount /\ Queued(b) \in SeatCount
BY AssumptionsHold DEF Good, Row, TakenBy, HeldBy, Queued, Assumptions, SeatCount

LEMMA AbsentIsGood == Good(Absent) /\ TakenBy(Absent) = 0 /\ HeldBy(Absent) = 0
BY AssumptionsHold
   DEF Good, Absent, Row, BookingStatus, SeatCount, Active, Live, TakenBy, HeldBy,
       Occupying, Main, Assumptions

\* Values the steps write.
LEMMA Values ==
  /\ 0 \in SeatCount /\ 1 \in SeatCount /\ 0 \in 0 .. OfferTTL /\ OfferTTL \in 0 .. OfferTTL
  /\ TRUE \in BOOLEAN /\ FALSE \in BOOLEAN
  /\ \A st \in {"waitlisted", "pending_payment", "confirmed", "attended", "no_show", "cancelled"} :
       st \in BookingStatus
  /\ "free" \in {"free", "cash", "subscription"} /\ "cash" \in {"free", "cash", "subscription"}
BY AssumptionsHold DEF SeatCount, BookingStatus, Assumptions

LEMMA RevokedIsGood ==
  ASSUME NEW b, Good(b)
  PROVE  Good(Revoked(b)) /\ TakenBy(Revoked(b)) = TakenBy(b) /\ HeldBy(Revoked(b)) = 0
<1> DEFINE c == Revoked(b)
<1>1. c \in Row
  BY Values, Zenon DEF Good, Revoked, Row
<1>2. /\ c.status = b.status /\ c.seats = b.seats /\ c.wl = b.wl /\ c.pend = b.pend
      /\ c.paid = b.paid /\ c.left = 0
  BY DEF Good, Revoked, Row
<1> HIDE DEF c
<1>3. TakenBy(c) = TakenBy(b) /\ HeldBy(c) = 0
  BY <1>2 DEF TakenBy, HeldBy, Occupying, Main
<1>4. Good(c)
  BY <1>1, <1>2, <1>3 DEF Good, Active, Live
<1> QED BY <1>3, <1>4 DEF c

LEMMA GoneIsGood ==
  ASSUME NEW b, Good(b)
  PROVE  Good(Gone(b)) /\ TakenBy(Gone(b)) = 0 /\ HeldBy(Gone(b)) = HeldBy(b)
<1> DEFINE c == Gone(b)
<1>1. c \in Row
  BY Values, Zenon DEF Good, Gone, Row
<1>2. /\ c.status = "cancelled" /\ c.seats = 0 /\ c.wl = 0 /\ c.pend = 0 /\ c.paid = 0
      /\ c.left = b.left /\ c.offered = b.offered
  BY DEF Good, Gone, Row
<1> HIDE DEF c
<1>3. TakenBy(c) = 0 /\ HeldBy(c) = HeldBy(b)
  BY <1>2 DEF TakenBy, HeldBy, Occupying, Main
<1>4. Good(c)
  BY <1>1, <1>2, <1>3, AssumptionsHold DEF Good, Active, Live, Assumptions
<1> QED BY <1>3, <1>4 DEF c

LEMMA RestoredIsGood ==
  ASSUME NEW b, Good(b), NEW n \in Nat
  PROVE  /\ Good(Restored(b, n))
         /\ TakenBy(Restored(b, n)) = TakenBy(b) /\ HeldBy(Restored(b, n)) = HeldBy(b)
BY AssumptionsHold
   DEF Good, Restored, Row, Larger, SeatCount, Active, Live, TakenBy, HeldBy, Occupying, Main,
       Assumptions

LEMMA SyncedIsGood ==
  ASSUME NEW b, Good(b)
  PROVE  /\ Good(Synced(b))
         /\ TakenBy(Synced(b)) = TakenBy(b) /\ HeldBy(Synced(b)) = HeldBy(b)
BY AssumptionsHold
   DEF Good, Synced, Row, BookingStatus, SeatCount, Active, Live, TakenBy, HeldBy, Occupying,
       Main, Assumptions

LEMMA OfferToIsGood ==
  ASSUME NEW b, Good(b), NEW n \in SeatCount, n > 0 => b.offered = 0
  PROVE  /\ Good(OfferTo(b, n)) /\ TakenBy(OfferTo(b, n)) = TakenBy(b)
         /\ HeldBy(OfferTo(b, n)) = HeldBy(b) + n
<1> DEFINE c == [b EXCEPT !.offered = n, !.left = OfferTTL]
<1>1. c \in Row
  BY Values, Zenon DEF Good, Row
<1>2. /\ c.status = b.status /\ c.seats = b.seats /\ c.wl = b.wl /\ c.pend = b.pend
      /\ c.paid = b.paid /\ c.left = OfferTTL /\ c.offered = n
  BY DEF Good, Row
<1> HIDE DEF c
<1>3. TakenBy(c) = TakenBy(b) /\ HeldBy(c) = n
  BY <1>2, AssumptionsHold DEF TakenBy, HeldBy, Occupying, Main, Assumptions
<1>4. Good(c)
  BY <1>1, <1>2, <1>3 DEF Good, Active, Live
<1>5. n > 0 => HeldBy(b) = 0
  BY DEF HeldBy
<1>6. HeldBy(b) \in Nat
  BY GoodNumbers, AssumptionsHold DEF SeatCount, Assumptions
<1>7. OfferTo(b, n) = IF n = 0 THEN b ELSE c
  BY DEF OfferTo, c
<1> QED BY <1>3, <1>4, <1>5, <1>6, <1>7 DEF SeatCount

LEMMA CancelledBookingIsGood ==
  ASSUME NEW b, Good(b), NEW n \in Nat
  PROVE  /\ Good(CancelledBooking(b, n))
         /\ TakenBy(CancelledBooking(b, n)) = 0 /\ HeldBy(CancelledBooking(b, n)) = 0
BY RestoredIsGood, GoneIsGood, RevokedIsGood DEF CancelledBooking

\* Growing in the roster: n seats more, q of them the booking's own queued ones.
LEMMA AddMainSeatsIsGood ==
  ASSUME NEW p \in Players, NEW b, Good(b), Main(b), NEW n \in SeatCount, NEW q \in SeatCount,
         q <= b.wl, q <= n, b.seats + b.wl + n - q <= MaxSeats
  PROVE  /\ Good(AddMainSeats(p, b, n, q))
         /\ TakenBy(AddMainSeats(p, b, n, q)) = TakenBy(b) + n
         /\ HeldBy(AddMainSeats(p, b, n, q)) = HeldBy(b)
<1> DEFINE Grown(c) == Good(c) /\ TakenBy(c) = TakenBy(b) + n /\ HeldBy(c) = HeldBy(b)
           grown == [b EXCEPT !.seats = @ + n, !.wl = @ - q]
           paying == [grown EXCEPT !.pend = @ + n]
           spending == [grown EXCEPT !.used = @ + n]
<1>1. /\ b.seats \in SeatCount /\ b.wl \in SeatCount /\ b.pend \in SeatCount
      /\ b.paid \in SeatCount /\ b.used \in 0 .. Sessions /\ b.seats >= 1
      /\ b.pend + b.paid <= b.seats /\ TakenBy(b) = b.seats
  BY GoodNumbers DEF Good, Main, Active, Live, TakenBy, Occupying
<1>2. b.seats + n \in SeatCount /\ b.wl - q \in SeatCount /\ b.pend + n \in SeatCount
  BY <1>1, AssumptionsHold DEF SeatCount, Assumptions
<1>3. grown \in Row
  BY <1>2, Zenon DEF Good, Row
<1>4. /\ grown.status = b.status /\ grown.seats = b.seats + n /\ grown.wl = b.wl - q
      /\ grown.pend = b.pend /\ grown.paid = b.paid /\ grown.used = b.used
      /\ grown.left = b.left /\ grown.offered = b.offered
  BY DEF Good, Row
<1> HIDE DEF grown
<1>5. Grown(grown)
  BY <1>1, <1>2, <1>3, <1>4, AssumptionsHold
     DEF Good, TakenBy, HeldBy, Occupying, Main, Active, Live, SeatCount, Assumptions
<1>6. paying \in Row
  BY <1>2, <1>3, <1>4, Zenon DEF Row
<1>7. Grown(paying)
  BY <1>1, <1>2, <1>3, <1>4, <1>6, AssumptionsHold
     DEF Row, Good, TakenBy, HeldBy, Occupying, Main, Active, Live, SeatCount, Assumptions
<1>8. ASSUME CanConsume(p, b, n) PROVE Grown(spending)
  <2>1. b.used + n \in 0 .. Sessions
    BY <1>1, <1>8, AssumptionsHold DEF CanConsume, SeatCount, Assumptions
  <2>2. spending \in Row
    BY <2>1, <1>3, <1>4, Zenon DEF Row
  <2> QED
    BY <1>1, <1>2, <1>3, <1>4, <2>2, AssumptionsHold
       DEF Row, Good, TakenBy, HeldBy, Occupying, Main, Active, Live, SeatCount, Assumptions
<1>9. Grown(Synced(paying))
  BY <1>7, SyncedIsGood
<1>10. \/ AddMainSeats(p, b, n, q) = spending /\ CanConsume(p, b, n)
       \/ AddMainSeats(p, b, n, q) = Synced(paying)
       \/ AddMainSeats(p, b, n, q) = grown
  BY Zenon DEF AddMainSeats, grown
<1> QED
  BY <1>5, <1>8, <1>9, <1>10, Zenon

\* Leaving the queue, wholly or in part, for seats in the roster.
LEMMA PromoteWaitingIsGood ==
  ASSUME NEW p \in Players, NEW b, Good(b), b.status = "waitlisted",
         NEW n \in SeatCount, 1 <= n, n <= b.seats
  PROVE  /\ Good(PromoteWaiting(p, b, n))
         /\ TakenBy(PromoteWaiting(p, b, n)) = n
         /\ HeldBy(PromoteWaiting(p, b, n)) = HeldBy(b)
<1> DEFINE Placed(c) == Good(c) /\ TakenBy(c) = n /\ HeldBy(c) = HeldBy(b)
           moved == [b EXCEPT !.seats = n, !.wl = b.seats - n]
           reserved == [moved EXCEPT !.status = "pending_payment"]
           confirmed == [moved EXCEPT !.status = "confirmed"]
           spending == [moved EXCEPT !.status = "confirmed", !.sub = TRUE, !.used = @ + n]
           paying == [moved EXCEPT !.status = "pending_payment", !.method = "cash", !.pend = n]
<1>1. /\ b.seats \in SeatCount /\ b.wl \in SeatCount /\ b.used \in 0 .. Sessions
      /\ b.pend = 0 /\ b.paid = 0 /\ b.seats + b.wl <= MaxSeats
  BY GoodNumbers, AssumptionsHold
     DEF Good, Main, Live, TakenBy, Occupying, SeatCount, Assumptions
<1>2. b.seats - n \in SeatCount
  BY <1>1, AssumptionsHold DEF SeatCount, Assumptions
<1>3. moved \in Row
  BY <1>2, Zenon DEF Good, Row
<1>4. /\ moved.status = "waitlisted" /\ moved.seats = n /\ moved.wl = b.seats - n
      /\ moved.pend = 0 /\ moved.paid = 0 /\ moved.used = b.used
      /\ moved.left = b.left /\ moved.offered = b.offered
  BY <1>1 DEF Good, Row
<1> HIDE DEF moved
<1>5. reserved \in Row /\ confirmed \in Row /\ paying \in Row
  BY <1>3, Values, Zenon DEF Row
<1>6. Placed(reserved)
  BY <1>1, <1>2, <1>3, <1>4, <1>5, AssumptionsHold
     DEF Row, Good, TakenBy, HeldBy, Occupying, Main, Active, Live, SeatCount, Assumptions
<1>7. Placed(confirmed)
  BY <1>1, <1>2, <1>3, <1>4, <1>5, AssumptionsHold
     DEF Row, Good, TakenBy, HeldBy, Occupying, Main, Active, Live, SeatCount, Assumptions
<1>8. Placed(Synced(paying))
  <2>1. Placed(paying)
    BY <1>1, <1>2, <1>3, <1>4, <1>5, AssumptionsHold
       DEF Row, Good, TakenBy, HeldBy, Occupying, Main, Active, Live, SeatCount, Assumptions
  <2> QED BY <2>1, SyncedIsGood
<1>9. ASSUME CanConsume(p, b, n) PROVE Placed(spending)
  <2>1. b.used + n \in 0 .. Sessions
    BY <1>1, <1>9, AssumptionsHold DEF CanConsume, SeatCount, Assumptions
  <2>2. spending \in Row
    BY <2>1, <1>3, <1>4, Values, Zenon DEF Row
  <2> QED
    BY <1>1, <1>2, <1>3, <1>4, <2>2, AssumptionsHold
       DEF Row, Good, TakenBy, HeldBy, Occupying, Main, Active, Live, SeatCount, Assumptions
<1>10. \/ PromoteWaiting(p, b, n) = spending /\ CanConsume(p, b, n)
       \/ PromoteWaiting(p, b, n) = Synced(paying)
       \/ PromoteWaiting(p, b, n) = reserved
       \/ PromoteWaiting(p, b, n) = confirmed
  BY Zenon DEF PromoteWaiting, moved
<1> QED
  BY <1>6, <1>7, <1>8, <1>9, <1>10, Zenon

\* What is promoted out of the queue arrives in the roster, seat for seat.
LEMMA PromotedIsGood ==
  ASSUME NEW p \in Players, NEW b, Good(b), NEW n \in SeatCount, n <= Queued(b)
  PROVE  /\ Good(Promoted(p, b, n))
         /\ TakenBy(Promoted(p, b, n)) = TakenBy(b) + n
         /\ HeldBy(Promoted(p, b, n)) = HeldBy(b)
<1>1. CASE n = 0
  BY <1>1, GoodNumbers DEF Promoted, SeatCount
<1>2. CASE n # 0 /\ b.status = "waitlisted"
  <2>1. n <= b.seats /\ TakenBy(b) = 0 /\ 1 <= n
    BY <1>2, AssumptionsHold DEF Queued, TakenBy, Occupying, Main, SeatCount, Assumptions
  <2> QED
    BY <1>2, <2>1, PromoteWaitingIsGood DEF Promoted, SeatCount
<1>3. CASE n # 0 /\ b.status # "waitlisted"
  <2>1. Main(b) /\ n <= b.wl
    BY <1>3, AssumptionsHold DEF Queued, SeatCount, Assumptions
  <2>2. b.seats + b.wl + n - n <= MaxSeats
    BY GoodNumbers, AssumptionsHold DEF Good, SeatCount, Assumptions
  <2> QED
    BY <1>3, <2>1, <2>2, AddMainSeatsIsGood DEF Promoted, SeatCount
<1> QED
  BY <1>1, <1>2, <1>3

-----------------------------------------------------------------------------
(* All bookings of the event.                                               *)

GoodRows(rows) == rows \in [Players -> Row] /\ \A p \in Players : Good(rows[p])

LEMMA ReservedType ==
  ASSUME NEW rows, GoodRows(rows)
  PROVE  /\ [p \in Players |-> TakenBy(rows[p])] \in Counts
         /\ [p \in Players |-> HeldBy(rows[p])] \in Counts
         /\ Taken(rows) \in Nat /\ Held(rows) \in Nat /\ Reserved(rows) = Taken(rows) + Held(rows)
BY GoodNumbers, TotalType DEF GoodRows, Counts, Taken, Held, Reserved

LEMMA ReservedNat ==
  ASSUME NEW rows, GoodRows(rows)
  PROVE  Reserved(rows) \in Nat
<1>1. Taken(rows) \in Nat /\ Held(rows) \in Nat /\ Reserved(rows) = Taken(rows) + Held(rows)
  BY ReservedType
<1> QED BY <1>1

\* Nobody takes or holds more: neither does the event.
LEMMA ReservedShrinks ==
  ASSUME NEW rows, GoodRows(rows), NEW after, GoodRows(after),
         \A p \in Players : /\ TakenBy(after[p]) <= TakenBy(rows[p])
                            /\ HeldBy(after[p]) <= HeldBy(rows[p])
  PROVE  Reserved(after) <= Reserved(rows)
<1> DEFINE T(r) == [p \in Players |-> TakenBy(r[p])]
           H(r) == [p \in Players |-> HeldBy(r[p])]
<1>1. /\ T(rows) \in Counts /\ T(after) \in Counts /\ H(rows) \in Counts /\ H(after) \in Counts
  BY ReservedType
<1>2. Total(T(after)) <= Total(T(rows)) /\ Total(H(after)) <= Total(H(rows))
  BY <1>1, TotalMonotone
<1>3. Taken(after) <= Taken(rows) /\ Held(after) <= Held(rows)
  BY <1>2 DEF Taken, Held
<1>4. /\ Taken(rows) \in Nat /\ Held(rows) \in Nat /\ Reserved(rows) = Taken(rows) + Held(rows)
      /\ Taken(after) \in Nat /\ Held(after) \in Nat /\ Reserved(after) = Taken(after) + Held(after)
  BY ReservedType
<1> QED
  BY <1>3, <1>4

\* What each takes and holds more is what the event reserves more.
LEMMA ReservedGrows ==
  ASSUME NEW rows, GoodRows(rows), NEW after, GoodRows(after), NEW t \in Counts, NEW h \in Counts,
         \A p \in Players : /\ TakenBy(after[p]) = TakenBy(rows[p]) + t[p]
                            /\ HeldBy(after[p]) = HeldBy(rows[p]) + h[p]
  PROVE  Reserved(after) = Reserved(rows) + Total(t) + Total(h)
<1> DEFINE T(r) == [p \in Players |-> TakenBy(r[p])]
           H(r) == [p \in Players |-> HeldBy(r[p])]
<1>1. /\ T(rows) \in Counts /\ T(after) \in Counts /\ H(rows) \in Counts /\ H(after) \in Counts
  BY ReservedType
<1>2. Total(T(after)) = Total(T(rows)) + Total(t)
  BY <1>1, TotalSum
<1>3. Total(H(after)) = Total(H(rows)) + Total(h)
  BY <1>1, TotalSum
<1>4. Taken(after) = Taken(rows) + Total(t) /\ Held(after) = Held(rows) + Total(h)
  BY <1>2, <1>3 DEF Taken, Held
<1>5. /\ Taken(rows) \in Nat /\ Held(rows) \in Nat /\ Reserved(rows) = Taken(rows) + Held(rows)
      /\ Taken(after) \in Nat /\ Held(after) \in Nat /\ Reserved(after) = Taken(after) + Held(after)
      /\ Total(t) \in Nat /\ Total(h) \in Nat
  BY ReservedType, TotalType
<1> QED
  BY <1>4, <1>5

LEMMA NoSeats == [p \in Players |-> 0] \in Counts /\ Total([p \in Players |-> 0]) = 0
<1>1. Cells([p \in Players |-> 0]) = {}
  BY AssumptionsHold DEF Cells, Assumptions
<1>2. [p \in Players |-> 0] \in Counts
  BY Values DEF Counts
<1> QED
  BY <1>1, <1>2, TotalType, FS_EmptySet

\* Good rows whose seats fit.
Fits(rows) == GoodRows(rows) /\ Reserved(rows) <= event.capacity

\* Replacing the row of one player, who takes t and holds h seats more.
LEMMA OneMoreFits ==
  ASSUME NEW rows, Fits(rows), event.capacity \in Nat, NEW p \in Players, NEW c, Good(c),
         NEW n \in SeatCount, Reserved(rows) + n <= event.capacity,
         TakenBy(c) = TakenBy(rows[p]) + n, HeldBy(c) = HeldBy(rows[p])
  PROVE  Fits([rows EXCEPT ![p] = c])
<1> DEFINE after == [rows EXCEPT ![p] = c]
           none == [q \in Players |-> 0]
<1>1. GoodRows(after)
  BY Zenon DEF Fits, GoodRows, Good
<1>2. /\ Only(p, n) \in Counts /\ Total(Only(p, n)) = n
      /\ none \in Counts /\ Total(none) = 0
  BY TotalOnly, NoSeats
<1>3. ASSUME NEW q \in Players
      PROVE  /\ TakenBy(after[q]) = TakenBy(rows[q]) + Only(p, n)[q]
             /\ HeldBy(after[q]) = HeldBy(rows[q]) + none[q]
  <2>1. TakenBy(rows[q]) \in SeatCount /\ HeldBy(rows[q]) \in SeatCount
    BY GoodNumbers DEF Fits, GoodRows
  <2>2. after[q] = IF q = p THEN c ELSE rows[q]
    BY DEF Fits, GoodRows
  <2> HIDE DEF after
  <2> QED
    BY <2>1, <2>2 DEF Only, SeatCount
<1> HIDE DEF after, none
<1>4. Reserved(after) = Reserved(rows) + n + 0
  BY <1>1, <1>2, <1>3, ReservedGrows DEF Fits
<1>5. Reserved(rows) \in Nat
  BY ReservedNat DEF Fits
<1> QED
  BY <1>1, <1>4, <1>5 DEF Fits, after, SeatCount

\* Replacing the row of one player, who takes and holds no more.
LEMMA OneFewerFits ==
  ASSUME NEW rows, Fits(rows), event.capacity \in Nat, NEW p \in Players, NEW c, Good(c),
         TakenBy(c) <= TakenBy(rows[p]), HeldBy(c) <= HeldBy(rows[p])
  PROVE  Fits([rows EXCEPT ![p] = c])
<1> DEFINE after == [rows EXCEPT ![p] = c]
<1>1. GoodRows(after)
  BY Zenon DEF Fits, GoodRows, Good
<1>2. ASSUME NEW q \in Players
      PROVE  TakenBy(after[q]) <= TakenBy(rows[q]) /\ HeldBy(after[q]) <= HeldBy(rows[q])
  <2>1. TakenBy(rows[q]) \in SeatCount /\ HeldBy(rows[q]) \in SeatCount
    BY GoodNumbers DEF Fits, GoodRows
  <2>2. after[q] = IF q = p THEN c ELSE rows[q]
    BY DEF Fits, GoodRows
  <2> HIDE DEF after
  <2> QED
    BY <2>1, <2>2 DEF SeatCount
<1> HIDE DEF after
<1>3. Reserved(after) <= Reserved(rows)
  BY <1>1, <1>2, ReservedShrinks DEF Fits
<1>4. Reserved(rows) \in Nat /\ Reserved(after) \in Nat
  BY <1>1, ReservedNat DEF Fits
<1> QED
  BY <1>1, <1>3, <1>4 DEF Fits, after

\* What the queue gets fits in what is free.
LEMMA AllotmentsFit ==
  ASSUME NEW rows, Fits(rows), event.capacity \in Nat, NEW got \in Allotments(rows, Free(rows))
  PROVE  /\ got \in Counts
         /\ \A p \in Players : got[p] <= IF Waits(rows[p]) THEN Queued(rows[p]) ELSE 0
         /\ Reserved(rows) + Total(got) <= event.capacity
<1>1. got \in Counts /\ Total(got) <= Free(rows)
      /\ \A p \in Players : got[p] <= IF Waits(rows[p]) THEN Queued(rows[p]) ELSE 0
  BY DEF Allotments, Counts
<1>2. Reserved(rows) \in Nat
  BY ReservedNat DEF Fits
<1>3. Free(rows) = event.capacity - Reserved(rows)
  BY <1>2 DEF Free, Larger, Fits
<1> QED
  BY <1>1, <1>2, <1>3, TotalType DEF Fits

\* A lapsed offer takes the queued seats of its booking, and nothing else.
LEMMA ExpiredFits ==
  ASSUME NEW rows, Fits(rows), event.capacity \in Nat
  PROVE  /\ Fits(Expired(rows))
         /\ \A p \in Players :
              LET c == Expired(rows)[p]  b == rows[p] IN
              /\ Main(b) => (c.status = b.status /\ c.seats = b.seats /\ c.wl <= b.wl)
              /\ ~Active(b) => ~Active(c)
<1> DEFINE after == Expired(rows)
<1>1. ASSUME NEW p \in Players
      PROVE  LET c == after[p]  b == rows[p] IN
             /\ Good(c) /\ TakenBy(c) <= TakenBy(b) /\ HeldBy(c) <= HeldBy(b)
             /\ Main(b) => (c.status = b.status /\ c.seats = b.seats /\ c.wl <= b.wl)
             /\ ~Active(b) => ~Active(c)
  <2> DEFINE b == rows[p]
             out == [b EXCEPT !.wl = 0]
  <2>1. Good(b) /\ TakenBy(b) \in SeatCount /\ HeldBy(b) \in SeatCount /\ b.wl \in SeatCount
        /\ b \in Row
    BY GoodNumbers DEF Fits, GoodRows, Good
  <2>2. after[p] = IF b.offered = 0 \/ b.left > 0 THEN b
                   ELSE Revoked(IF b.status = "waitlisted" THEN Gone(b) ELSE out)
    BY DEF Expired
  <2>3. Good(out) /\ TakenBy(out) = TakenBy(b) /\ HeldBy(out) = HeldBy(b)
    <3>1. out \in Row
      BY <2>1, Values, Zenon DEF Row
    <3>2. /\ out.status = b.status /\ out.seats = b.seats /\ out.wl = 0 /\ out.pend = b.pend
          /\ out.paid = b.paid /\ out.left = b.left /\ out.offered = b.offered
      BY <2>1 DEF Row
    <3>3. TakenBy(out) = TakenBy(b) /\ HeldBy(out) = HeldBy(b)
      BY <3>2 DEF TakenBy, HeldBy, Occupying, Main
    <3>4. b.seats + 0 <= MaxSeats
      BY <2>1, GoodNumbers, AssumptionsHold DEF SeatCount, Assumptions
    <3> HIDE DEF b, out
    <3> QED
      BY <2>1, <3>1, <3>2, <3>3, <3>4 DEF Good, Active, Live
  <2>4. /\ Revoked(out).status = b.status /\ Revoked(out).seats = b.seats /\ Revoked(out).wl = 0
    BY <2>1 DEF Row, Revoked
  <2>5. b.status = "waitlisted" =>
          /\ Active(b) /\ ~Main(b) /\ TakenBy(b) = 0
    BY <2>1 DEF Row, Revoked, Gone, Active, Main, TakenBy, Occupying
  <2>6. Good(Gone(b)) /\ TakenBy(Gone(b)) = 0
    BY <2>1, GoneIsGood
  <2>7. /\ Good(Revoked(out)) /\ TakenBy(Revoked(out)) = TakenBy(b) /\ HeldBy(Revoked(out)) = 0
        /\ Good(Revoked(Gone(b))) /\ TakenBy(Revoked(Gone(b))) = 0 /\ HeldBy(Revoked(Gone(b))) = 0
    BY <2>3, <2>6, RevokedIsGood
  <2> HIDE DEF b, out, after
  <2>8. CASE b.offered = 0 \/ b.left > 0
    BY <2>1, <2>2, <2>8 DEF b, SeatCount
  <2>9. CASE ~(b.offered = 0 \/ b.left > 0) /\ b.status = "waitlisted"
    <3>1. after[p] = Revoked(Gone(b))
      BY <2>2, <2>9
    <3> QED
      BY <2>1, <2>5, <2>7, <2>9, <3>1 DEF b, SeatCount
  <2>10. CASE ~(b.offered = 0 \/ b.left > 0) /\ b.status # "waitlisted"
    <3>1. after[p] = Revoked(out)
      BY <2>2, <2>10
    <3> QED
      BY <2>1, <2>4, <2>7, <3>1 DEF b, SeatCount, Active
  <2> QED BY <2>8, <2>9, <2>10
<1>2. after \in [Players -> Row]
  <2>1. \A p \in Players : after[p] \in Row
    BY <1>1 DEF Good
  <2>2. after = [p \in Players |-> after[p]]
    BY DEF Expired
  <2> HIDE DEF after
  <2> QED BY <2>1, <2>2
<1> HIDE DEF after
<1>3. GoodRows(after)
  BY <1>1, <1>2 DEF GoodRows
<1>4. Reserved(after) <= Reserved(rows)
  BY <1>1, <1>3, ReservedShrinks DEF Fits
<1>5. Reserved(rows) \in Nat /\ Reserved(after) \in Nat
  BY <1>3, ReservedNat DEF Fits
<1>6. Fits(after)
  BY <1>3, <1>4, <1>5 DEF Fits
<1> QED
  BY <1>1, <1>6 DEF after

\* A player's own seats in the roster, and his absence, outlast what the queue
\* is owed before he takes seats.
Untouched(b, c) ==
  /\ Main(b) => (c.status = b.status /\ c.seats = b.seats /\ c.wl <= b.wl)
  /\ ~Active(b) => ~Active(c)

\* Offering free seats holds them, and only them.
LEMMA OfferFreeSeatsFits ==
  ASSUME NEW rows, Fits(rows), event.capacity \in Nat, NEW after \in OfferFreeSeats(rows)
  PROVE  Fits(after) /\ \A p \in Players : Untouched(rows[p], after[p])
<1>1. CASE ~CanOffer
  <2>1. after = rows
    BY <1>1 DEF OfferFreeSeats
  <2>2. \A p \in Players : rows[p].wl \in SeatCount
    BY GoodNumbers DEF Fits, GoodRows
  <2> QED
    BY <2>1, <2>2 DEF Untouched, SeatCount
<1>2. CASE CanOffer
  <2>1. PICK got \in Allotments(rows, Free(rows)) :
          after = [p \in Players |-> OfferTo(rows[p], got[p])]
    BY <1>2 DEF OfferFreeSeats
  <2>2. /\ got \in Counts /\ Reserved(rows) + Total(got) <= event.capacity
        /\ \A p \in Players : got[p] <= IF Waits(rows[p]) THEN Queued(rows[p]) ELSE 0
    BY AllotmentsFit
  <2> DEFINE none == [q \in Players |-> 0]
  <2>3. ASSUME NEW p \in Players
        PROVE  /\ Good(after[p]) /\ TakenBy(after[p]) = TakenBy(rows[p]) + none[p]
               /\ HeldBy(after[p]) = HeldBy(rows[p]) + got[p]
               /\ Untouched(rows[p], after[p])
    <3>1. after[p] = OfferTo(rows[p], got[p]) /\ got[p] \in SeatCount
      BY <2>1, <2>2 DEF Counts
    <3>2. got[p] > 0 => rows[p].offered = 0
      BY <2>2, <3>1 DEF Waits, SeatCount
    <3>3. Good(rows[p]) /\ TakenBy(rows[p]) \in SeatCount /\ rows[p].wl \in SeatCount
      BY GoodNumbers DEF Fits, GoodRows
    <3>4. after[p].status = rows[p].status /\ after[p].seats = rows[p].seats
          /\ after[p].wl = rows[p].wl
      BY <3>1, <3>3 DEF OfferTo, Good, Row
    <3> HIDE <2>1
    <3> QED
      BY <3>1, <3>2, <3>3, <3>4, OfferToIsGood DEF Untouched, Active, SeatCount
  <2>4. GoodRows(after)
    <3>1. after = [p \in Players |-> after[p]]
      BY <2>1
    <3> QED BY <2>3, <3>1 DEF GoodRows, Good
  <2>5. none \in Counts /\ Total(none) = 0
    BY NoSeats
  <2> HIDE DEF none
  <2>6. Reserved(after) = Reserved(rows) + 0 + Total(got)
    BY <2>2, <2>3, <2>4, <2>5, ReservedGrows DEF Fits
  <2>7. Reserved(rows) \in Nat /\ Total(got) \in Nat
    BY ReservedNat, TotalType DEF Fits
  <2> QED
    BY <2>2, <2>3, <2>4, <2>6, <2>7 DEF Fits
<1> QED BY <1>1, <1>2

LEMMA SettleQueueFits ==
  ASSUME NEW rows, Fits(rows), event.capacity \in Nat,
         NEW after \in SettleQueueBeforeTaking(rows)
  PROVE  Fits(after) /\ \A p \in Players : Untouched(rows[p], after[p])
<1> DEFINE now == Expired(rows)
<1>1. Fits(now) /\ \A p \in Players : Untouched(rows[p], now[p])
  BY ExpiredFits DEF Untouched
<1>2. after \in OfferFreeSeats(now) \/ after = now
  BY DEF SettleQueueBeforeTaking
<1> HIDE DEF now
<1>3. CASE after = now
  BY <1>1, <1>3
<1>4. CASE after \in OfferFreeSeats(now)
  <2>1. Fits(after) /\ \A p \in Players : Untouched(now[p], after[p])
    BY <1>1, <1>4, OfferFreeSeatsFits
  <2>2. ASSUME NEW p \in Players PROVE Untouched(rows[p], after[p])
    <3>1. rows[p].wl \in SeatCount /\ now[p].wl \in SeatCount /\ after[p].wl \in SeatCount
      BY <1>1, <2>1, GoodNumbers DEF Fits, GoodRows
    <3> QED
      BY <1>1, <2>1, <3>1, AssumptionsHold DEF Untouched, Main, SeatCount, Assumptions
  <2> QED BY <2>1, <2>2
<1> QED BY <1>2, <1>3, <1>4

\* Handing freed seats to the queue, offered or at once.
LEMMA PromoteFits ==
  ASSUME NEW rows, Fits(rows), event.capacity \in Nat, NEW after \in PromoteFromWaitlist(rows)
  PROVE  Fits(after)
<1> DEFINE now == Expired(rows)
<1>1. Fits(now)
  BY ExpiredFits
<1>2. \/ after = rows
      \/ after \in OfferFreeSeats(now)
      \/ \E got \in Allotments(now, Free(now)) :
           after = [p \in Players |-> Promoted(p, now[p], got[p])]
  BY DEF PromoteFromWaitlist
<1> HIDE DEF now
<1>3. CASE after = rows
  BY <1>3
<1>4. CASE after \in OfferFreeSeats(now)
  BY <1>1, <1>4, OfferFreeSeatsFits
<1>5. CASE \E got \in Allotments(now, Free(now)) :
             after = [p \in Players |-> Promoted(p, now[p], got[p])]
  <2>1. PICK got \in Allotments(now, Free(now)) :
          after = [p \in Players |-> Promoted(p, now[p], got[p])]
    BY <1>5
  <2>2. /\ got \in Counts /\ Reserved(now) + Total(got) <= event.capacity
        /\ \A p \in Players : got[p] <= IF Waits(now[p]) THEN Queued(now[p]) ELSE 0
    BY <1>1, AllotmentsFit
  <2> DEFINE none == [q \in Players |-> 0]
  <2>3. ASSUME NEW p \in Players
        PROVE  /\ Good(after[p]) /\ TakenBy(after[p]) = TakenBy(now[p]) + got[p]
               /\ HeldBy(after[p]) = HeldBy(now[p]) + none[p]
    <3>1. after[p] = Promoted(p, now[p], got[p]) /\ got[p] \in SeatCount
      BY <2>1, <2>2 DEF Counts
    <3>2. Good(now[p]) /\ HeldBy(now[p]) \in SeatCount /\ Queued(now[p]) \in SeatCount
      BY <1>1, GoodNumbers DEF Fits, GoodRows
    <3>3. got[p] <= Queued(now[p])
      BY <2>2, <3>1, <3>2 DEF SeatCount
    <3> HIDE <2>1
    <3> QED
      BY <3>1, <3>2, <3>3, PromotedIsGood DEF SeatCount
  <2>4. GoodRows(after)
    <3>1. after = [p \in Players |-> after[p]]
      BY <2>1
    <3> QED BY <2>3, <3>1 DEF GoodRows, Good
  <2>5. none \in Counts /\ Total(none) = 0
    BY NoSeats
  <2> HIDE DEF none
  <2>6. Reserved(after) = Reserved(now) + Total(got) + 0
    BY <1>1, <2>2, <2>3, <2>4, <2>5, ReservedGrows DEF Fits
  <2>7. Reserved(now) \in Nat /\ Total(got) \in Nat
    BY <1>1, ReservedNat, TotalType DEF Fits
  <2> QED
    BY <2>2, <2>4, <2>6, <2>7 DEF Fits
<1> QED BY <1>2, <1>3, <1>4, <1>5

-----------------------------------------------------------------------------
(* The inductive invariant, kept by every operation.                        *)

\* NoOverbooking is not inductive: that seats fit after a step needs the rows
\* to be good, so that no step takes seats it does not look at.
Inv == TypeOK /\ Fits(row)

LEMMA InvFacts ==
  ASSUME Inv
  PROVE  /\ event.capacity \in Nat /\ Reserved(row) \in Nat
         /\ \A p \in Players : Good(row[p])
  BY ReservedNat, SeatsAssumption DEF Inv, Fits, GoodRows, TypeOK, Event

\* A step of the rows alone keeps the invariant when the new rows fit.
LEMMA RowsStep ==
  ASSUME Inv, Fits(row'), ahead' \subseteq Players \X Players,
         UNCHANGED <<event, lapsed, sched>>
  PROVE  Inv'
BY DEF Inv, TypeOK, Fits, GoodRows, Good, Reserved, Taken, Held, TakenBy, HeldBy, Total,
       Active, Occupying, Main, Live

LEMMA RosterStep ==
  ASSUME Inv, NEW rows, Fits(rows), Roster(rows)
  PROVE  Inv'
<1>1. row' = rows /\ ahead' \subseteq Players \X Players /\ UNCHANGED <<event, lapsed, sched>>
  BY DEF Inv, TypeOK, Roster, Tables
<1> QED
  BY <1>1, RowsStep

\* A booking that starts with no money on it.
LEMMA NewBookingIsGood ==
  ASSUME NEW b, Good(b), ~Active(b), NEW main \in SeatCount, NEW queue \in SeatCount,
         main + queue \in 1 .. MaxSeats, NEW m \in {"cash", "subscription"},
         NEW p \in Players,
         (Priced /\ m = "subscription" /\ main > 0) => CanConsume(p, b, main),
         event.price \in Nat, PriceMode = "split" => m = "cash"
  PROVE  /\ Good(NewBooking(b, main, queue, m))
         /\ TakenBy(NewBooking(b, main, queue, m)) = main
         /\ HeldBy(NewBooking(b, main, queue, m)) = HeldBy(b)
<1> DEFINE Placed(c) == Good(c) /\ TakenBy(c) = main /\ HeldBy(c) = HeldBy(b)
           placed == [b EXCEPT
             !.method = IF PriceMode = "fixed" /\ event.price = 0 THEN "free" ELSE m,
             !.seats = IF main = 0 THEN queue ELSE main, !.wl = IF main = 0 THEN 0 ELSE queue]
           waiting == [placed EXCEPT !.status = "waitlisted"]
           reserved == [placed EXCEPT !.status = "pending_payment"]
           confirmed == [placed EXCEPT !.status = "confirmed"]
           spending == [placed EXCEPT !.status = "confirmed", !.sub = TRUE, !.used = @ + main]
           paying == [placed EXCEPT !.status = "pending_payment", !.pend = main]
<1>1. b.pend = 0 /\ b.paid = 0 /\ b.used \in 0 .. Sessions /\ b \in Row
  BY GoodNumbers, AssumptionsHold
     DEF Good, Main, Live, TakenBy, Occupying, Active, SeatCount, Assumptions
<1>2. placed \in Row
  <2>1. /\ (IF PriceMode = "fixed" /\ event.price = 0 THEN "free" ELSE m)
             \in {"free", "cash", "subscription"}
        /\ (IF main = 0 THEN queue ELSE main) \in SeatCount
        /\ (IF main = 0 THEN 0 ELSE queue) \in SeatCount
    BY Values
  <2> QED BY <1>1, <2>1, Zenon DEF Row
<1>3. /\ placed.seats = (IF main = 0 THEN queue ELSE main)
      /\ placed.wl = (IF main = 0 THEN 0 ELSE queue)
      /\ placed.pend = 0 /\ placed.paid = 0 /\ placed.used = b.used
      /\ placed.left = b.left /\ placed.offered = b.offered
  BY <1>1 DEF Row
<1> HIDE DEF placed
<1>4. /\ waiting \in Row /\ reserved \in Row /\ confirmed \in Row /\ paying \in Row
  BY <1>2, Values, Zenon DEF Row
<1>5. main = 0 => Placed(waiting)
  BY <1>2, <1>3, <1>4, AssumptionsHold
     DEF Row, Good, TakenBy, HeldBy, Occupying, Main, Active, Live, SeatCount, Assumptions
<1>6. main # 0 => Placed(reserved)
  BY <1>2, <1>3, <1>4, AssumptionsHold
     DEF Row, Good, TakenBy, HeldBy, Occupying, Main, Active, Live, SeatCount, Assumptions
<1>7. main # 0 => Placed(confirmed)
  BY <1>2, <1>3, <1>4, AssumptionsHold
     DEF Row, Good, TakenBy, HeldBy, Occupying, Main, Active, Live, SeatCount, Assumptions
<1>8. main # 0 => Placed(paying)
  BY <1>2, <1>3, <1>4, AssumptionsHold
     DEF Row, Good, TakenBy, HeldBy, Occupying, Main, Active, Live, SeatCount, Assumptions
<1>9. ASSUME CanConsume(p, b, main), main # 0 PROVE Placed(spending)
  <2>1. b.used + main \in 0 .. Sessions
    BY <1>1, <1>9, AssumptionsHold DEF CanConsume, SeatCount, Assumptions
  <2>2. spending \in Row
    BY <2>1, <1>2, <1>3, Values, Zenon DEF Row
  <2> QED
    BY <1>1, <1>2, <1>3, <1>9, <2>2, AssumptionsHold
       DEF Row, Good, TakenBy, HeldBy, Occupying, Main, Active, Live, SeatCount, Assumptions
<1>10. main # 0 => main > 0
  BY AssumptionsHold DEF SeatCount, Assumptions
<1>11. event.price # 0 => event.price > 0
  OBVIOUS
<1>12. PriceMode \in {"fixed", "split"}
  BY MoneyAssumption
<1>13. \/ NewBooking(b, main, queue, m) = waiting /\ main = 0
       \/ NewBooking(b, main, queue, m) = reserved /\ main # 0
       \/ NewBooking(b, main, queue, m) = confirmed /\ main # 0
       \/ NewBooking(b, main, queue, m) = spending /\ main # 0 /\ CanConsume(p, b, main)
       \/ NewBooking(b, main, queue, m) = paying /\ main # 0
  BY <1>10, <1>11, <1>12, Zenon DEF NewBooking, placed, Priced
<1> QED
  BY <1>5, <1>6, <1>7, <1>8, <1>9, <1>13, Zenon

\* The steps of one booking that take and hold nothing more.
LEMMA MarkedIsGood ==
  ASSUME NEW b, Good(b), Occupying(b), NEW mark \in {"attended", "no_show"}
  PROVE  LET c == [b EXCEPT !.status = mark, !.wl = 0] IN
         Good(c) /\ TakenBy(c) = TakenBy(b) /\ HeldBy(c) = HeldBy(b)
<1> DEFINE c == [b EXCEPT !.status = mark, !.wl = 0]
<1>1. c \in Row
  <2>1. mark \in BookingStatus
    BY Values
  <2> QED BY <2>1, Values, Zenon DEF Good, Row
<1>2. /\ c.status = mark /\ c.seats = b.seats /\ c.wl = 0 /\ c.pend = b.pend
      /\ c.paid = b.paid /\ c.left = b.left /\ c.offered = b.offered
  BY DEF Good, Row
<1> HIDE DEF c
<1>3. TakenBy(c) = b.seats /\ TakenBy(b) = b.seats /\ HeldBy(c) = HeldBy(b)
  BY <1>2 DEF TakenBy, HeldBy, Occupying, Main
<1>4. b.seats \in SeatCount /\ b.wl \in SeatCount /\ Active(b)
  BY GoodNumbers DEF Occupying, Main, Active
<1>5. Good(c)
  BY <1>1, <1>2, <1>3, <1>4, AssumptionsHold DEF Good, Active, Live, SeatCount, Assumptions
<1> QED
  BY <1>3, <1>5 DEF c

LEMMA PaidIsGood ==
  ASSUME NEW b, Good(b)
  PROVE  LET c == [b EXCEPT !.paid = @ + b.pend, !.pend = 0] IN
         Good(c) /\ TakenBy(c) = TakenBy(b) /\ HeldBy(c) = HeldBy(b)
<1> DEFINE c == [b EXCEPT !.paid = @ + b.pend, !.pend = 0]
<1>1. b.paid + b.pend \in SeatCount
  BY GoodNumbers, AssumptionsHold DEF Good, Live, SeatCount, Assumptions
<1>2. c \in Row
  BY <1>1, Values, Zenon DEF Good, Row
<1>3. /\ c.status = b.status /\ c.seats = b.seats /\ c.wl = b.wl /\ c.pend = 0
      /\ c.paid = b.paid + b.pend /\ c.left = b.left /\ c.offered = b.offered
  BY DEF Good, Row
<1> HIDE DEF c
<1>4. TakenBy(c) = TakenBy(b) /\ HeldBy(c) = HeldBy(b)
  BY <1>3 DEF TakenBy, HeldBy, Occupying, Main
<1>5. b.paid \in SeatCount /\ b.pend \in SeatCount
  BY GoodNumbers
<1>6. Live(c) = Live(b)
  BY <1>3, <1>5, AssumptionsHold DEF Live, SeatCount, Assumptions
<1>7. Good(c)
  BY <1>2, <1>3, <1>4, <1>6 DEF Good, Active
<1> QED
  BY <1>4, <1>7 DEF c

\* Fewer seats in the roster, paid ones released: m off the roster, q off the
\* queue, n of the m off the money.
FewerSeats(b, m, q, n) ==
  [ReleaseSeats(b, n) EXCEPT !.seats = b.seats - m, !.wl = b.wl - q]

LEMMA FewerSeatsIsGood ==
  ASSUME NEW b, Good(b), NEW m \in SeatCount, NEW q \in SeatCount, NEW n \in SeatCount,
         Main(b), m < b.seats, q <= b.wl, n <= m,
         m - n <= Larger(0, b.seats - Live(b))
  PROVE  /\ Good(FewerSeats(b, m, q, n))
         /\ TakenBy(FewerSeats(b, m, q, n)) <= TakenBy(b)
         /\ HeldBy(FewerSeats(b, m, q, n)) = HeldBy(b)
<1> DEFINE r == ReleaseSeats(b, n)
           unpaid == Smaller(n, b.pend)
           paid == Smaller(n - unpaid, b.paid)
           c == [r EXCEPT !.seats = b.seats - m, !.wl = b.wl - q]
<1>1. /\ b.seats \in SeatCount /\ b.wl \in SeatCount /\ b.pend \in SeatCount
      /\ b.paid \in SeatCount /\ b.pend + b.paid <= b.seats /\ b.seats + b.wl <= MaxSeats
  BY GoodNumbers DEF Good, Main, Live, TakenBy, Occupying
<1>2. /\ b.pend - unpaid \in SeatCount /\ b.paid - paid \in SeatCount
      /\ (b.pend - unpaid) + (b.paid - paid) <= b.seats - m
      /\ b.seats - m \in SeatCount /\ b.wl - q \in SeatCount /\ b.seats - m >= 1
  BY <1>1, AssumptionsHold DEF Smaller, Larger, Live, SeatCount, Assumptions
<1>3. r = [b EXCEPT !.pend = b.pend - unpaid, !.paid = b.paid - paid]
  BY Zenon DEF ReleaseSeats
<1> HIDE DEF unpaid, paid, r
<1>4. r \in Row
  BY <1>2, <1>3, Zenon DEF Good, Row
<1>5. c \in Row
  BY <1>2, <1>4, Zenon DEF Row
<1>6. /\ r.status = b.status /\ r.pend = b.pend - unpaid /\ r.paid = b.paid - paid
      /\ r.left = b.left /\ r.offered = b.offered
  BY <1>3 DEF Good, Row
<1>7. /\ c.status = b.status /\ c.seats = b.seats - m /\ c.wl = b.wl - q
      /\ c.pend = b.pend - unpaid /\ c.paid = b.paid - paid
      /\ c.left = b.left /\ c.offered = b.offered
  BY <1>4, <1>6 DEF Row
<1> HIDE DEF c
<1>8. /\ TakenBy(c) = b.seats - m /\ TakenBy(b) = b.seats /\ HeldBy(c) = HeldBy(b)
  BY <1>7 DEF TakenBy, HeldBy, Occupying, Main
<1>9. Good(c)
  BY <1>1, <1>2, <1>5, <1>7, <1>8, AssumptionsHold
     DEF Good, Active, Live, SeatCount, Assumptions
<1>10. b.seats - m <= b.seats
  BY <1>1, AssumptionsHold DEF SeatCount, Assumptions
<1> QED
  BY <1>8, <1>9, <1>10 DEF c, r, FewerSeats

\* Seats that nobody paid for go: the rest is what money or sessions cover.
LEMMA KeptIsGood ==
  ASSUME NEW b, Good(b), Main(b), NEW kept \in SeatCount, 1 <= kept, kept <= b.seats,
         b.paid <= kept
  PROVE  LET c == [b EXCEPT !.pend = 0, !.seats = kept] IN
         Good(c) /\ TakenBy(c) <= TakenBy(b) /\ HeldBy(c) = HeldBy(b)
<1> DEFINE c == [b EXCEPT !.pend = 0, !.seats = kept]
<1>1. c \in Row
  BY Values, Zenon DEF Good, Row
<1>2. /\ c.status = b.status /\ c.seats = kept /\ c.wl = b.wl /\ c.pend = 0
      /\ c.paid = b.paid /\ c.left = b.left /\ c.offered = b.offered
  BY DEF Good, Row
<1> HIDE DEF c
<1>3. TakenBy(c) = kept /\ TakenBy(b) = b.seats /\ HeldBy(c) = HeldBy(b)
  BY <1>2 DEF TakenBy, HeldBy, Occupying, Main
<1>4. b.paid \in SeatCount /\ b.seats \in SeatCount /\ b.wl \in SeatCount
  BY GoodNumbers
<1>5. Good(c)
  BY <1>1, <1>2, <1>3, <1>4, AssumptionsHold DEF Good, Active, Live, SeatCount, Assumptions
<1> QED
  BY <1>3, <1>5 DEF c

\* A booking that waits as a whole for fewer seats.
LEMMA FewerWaitingIsGood ==
  ASSUME NEW b, Good(b), b.status = "waitlisted", NEW target \in SeatCount,
         1 <= target, target <= b.seats
  PROVE  LET c == [ReleaseSeats(b, 0) EXCEPT !.seats = target, !.wl = b.wl - 0] IN
         Good(c) /\ TakenBy(c) = TakenBy(b) /\ HeldBy(c) = HeldBy(b)
<1> DEFINE r == ReleaseSeats(b, 0)
           unpaid == Smaller(0, b.pend)
           paid == Smaller(0 - unpaid, b.paid)
           c == [r EXCEPT !.seats = target, !.wl = b.wl - 0]
<1>1. b.pend = 0 /\ b.paid = 0 /\ b.wl = 0 /\ b.seats \in SeatCount
  BY GoodNumbers, AssumptionsHold
     DEF Good, Main, Live, TakenBy, Occupying, SeatCount, Assumptions
<1>2. b.pend - unpaid = 0 /\ b.paid - paid = 0 /\ b.wl - 0 = 0
  BY <1>1 DEF Smaller
<1>3. r = [b EXCEPT !.pend = 0, !.paid = 0]
  BY <1>2, Zenon DEF ReleaseSeats
<1> HIDE DEF unpaid, paid, r
<1>4. r \in Row
  BY <1>3, Values, Zenon DEF Good, Row
<1>5. c \in Row
  BY <1>2, <1>4, Values, Zenon DEF Row
<1>6. /\ r.status = b.status /\ r.pend = 0 /\ r.paid = 0
      /\ r.left = b.left /\ r.offered = b.offered
  BY <1>3 DEF Good, Row
<1>7. /\ c.status = b.status /\ c.seats = target /\ c.wl = 0 /\ c.pend = 0 /\ c.paid = 0
      /\ c.left = b.left /\ c.offered = b.offered
  BY <1>2, <1>4, <1>6 DEF Row
<1> HIDE DEF c
<1>8. /\ TakenBy(c) = 0 /\ TakenBy(b) = 0 /\ HeldBy(c) = HeldBy(b)
  BY <1>7 DEF TakenBy, HeldBy, Occupying, Main
<1>9. Good(c)
  BY <1>1, <1>5, <1>7, <1>8, AssumptionsHold DEF Good, Active, Live, SeatCount, Assumptions
<1> QED
  BY <1>8, <1>9 DEF c, r

\* The sessions a booking stands on are no more than its seats.
LEMMA SubscriptionSeatsType ==
  ASSUME NEW b, Good(b)
  PROVE  /\ SubscriptionSeats(b) \in SeatCount
         /\ SubscriptionSeats(b) <= Larger(0, b.seats - Live(b))
BY GoodNumbers, AssumptionsHold DEF SubscriptionSeats, Larger, Live, SeatCount, Assumptions

\* What restoring sessions leaves alone.
LEMMA RestoredKeeps ==
  ASSUME NEW b, Good(b), NEW n
  PROVE  LET c == Restored(b, n) IN
         /\ c.status = b.status /\ c.seats = b.seats /\ c.wl = b.wl
         /\ c.pend = b.pend /\ c.paid = b.paid /\ c.offered = b.offered
BY DEF Restored, Good, Row

-----------------------------------------------------------------------------
(* The operations of players.                                               *)

LEMMA BookKeeps ==
  ASSUME Inv, NEW p \in Players, NEW n \in 1 .. MaxSeats, NEW m \in Methods, Book(p, n, m)
  PROVE  Inv'
<1>1. PICK rows \in SettleQueueBeforeTaking(row), later \in Later(p) :
        LET main == Smaller(Free(rows), n)
            booked == [rows EXCEPT ![p] = NewBooking(@, main, n - main, m)]
            active == {q \in Players \ {p} : Active(booked[q])}
        IN  /\ (Priced /\ m = "subscription" /\ main > 0) => CanConsume(p, rows[p], main)
            /\ row' = booked
            /\ ahead' = {a \in ahead : a[1] \in active /\ a[2] \in active}
                          \union ((active \ later) \X {p}) \union ({p} \X (active \cap later))
  BY DEF Book
<1> DEFINE main == Smaller(Free(rows), n)
           new == NewBooking(rows[p], main, n - main, m)
<1>2. /\ ~Active(row[p]) /\ UNCHANGED <<event, lapsed, sched>>
      /\ PriceMode = "split" => m = "cash"
  BY DEF Book
<1>3. Fits(rows) /\ ~Active(rows[p]) /\ Good(rows[p])
  <2>1. Fits(rows) /\ Untouched(row[p], rows[p])
    BY InvFacts, SettleQueueFits DEF Inv
  <2> QED BY <1>2, <2>1 DEF Untouched, Fits, GoodRows
<1>4. main \in SeatCount /\ n - main \in SeatCount /\ main + (n - main) \in 1 .. MaxSeats
      /\ Reserved(rows) + main <= event.capacity
  <2>1. Reserved(rows) \in Nat /\ event.capacity \in Nat /\ Reserved(rows) <= event.capacity
    BY <1>3, ReservedNat, InvFacts DEF Fits
  <2>2. Free(rows) = event.capacity - Reserved(rows)
    BY <2>1 DEF Free, Larger
  <2> QED
    BY <2>1, <2>2, AssumptionsHold DEF Smaller, SeatCount, Assumptions
<1>5. (Priced /\ m = "subscription" /\ main > 0) => CanConsume(p, rows[p], main)
  BY <1>1
<1>6. m \in {"cash", "subscription"} /\ event.price \in Nat
  BY MoneyAssumption DEF Inv, TypeOK, Event
<1>7. Good(new) /\ TakenBy(new) = main /\ HeldBy(new) = HeldBy(rows[p])
  <2> HIDE DEF main
  <2> QED BY <1>2, <1>3, <1>4, <1>5, <1>6, NewBookingIsGood
<1>8. TakenBy(rows[p]) = 0
  BY <1>3 DEF TakenBy, Occupying, Main, Active
<1>9. row' = [rows EXCEPT ![p] = new]
  BY <1>1
<1>10. ahead' \subseteq Players \X Players
  BY <1>1 DEF Inv, TypeOK
<1> HIDE DEF main, new
<1>11. TakenBy(new) = TakenBy(rows[p]) + main
  BY <1>4, <1>7, <1>8, AssumptionsHold DEF SeatCount, Assumptions
<1>12. Fits(row')
  BY <1>3, <1>4, <1>7, <1>9, <1>11, InvFacts, OneMoreFits
<1> QED
  BY <1>2, <1>10, <1>12, RowsStep

LEMMA IncreaseSeatsKeeps ==
  ASSUME Inv, NEW p \in Players, NEW target \in 1 .. MaxSeats, IncreaseSeats(p, target)
  PROVE  Inv'
<1> DEFINE add == target - row[p].seats
<1>1. PICK rows \in SettleQueueBeforeTaking(row) :
        /\ Free(rows) >= add
        /\ Roster([rows EXCEPT ![p] = AddMainSeats(p, rows[p], add, 0)])
  BY DEF IncreaseSeats
<1>2. Main(row[p]) /\ row[p].wl = 0 /\ add > 0
  BY DEF IncreaseSeats
<1>3. Fits(rows) /\ Untouched(row[p], rows[p]) /\ Good(rows[p]) /\ Good(row[p])
  BY InvFacts, SettleQueueFits DEF Inv, Fits, GoodRows
<1>4. /\ Main(rows[p]) /\ rows[p].seats = row[p].seats /\ rows[p].wl = 0
  <2>1. rows[p].wl \in SeatCount
    BY <1>3, GoodNumbers
  <2> QED
    BY <1>2, <1>3, <2>1, AssumptionsHold DEF Untouched, Main, SeatCount, Assumptions
<1>5. /\ add \in SeatCount /\ 0 \in SeatCount /\ 0 <= rows[p].wl /\ 0 <= add
      /\ rows[p].seats + rows[p].wl + add - 0 <= MaxSeats
      /\ Reserved(rows) + add <= event.capacity
  <2>1. Reserved(rows) \in Nat /\ event.capacity \in Nat /\ Reserved(rows) <= event.capacity
    BY <1>3, ReservedNat, InvFacts DEF Fits
  <2>2. Free(rows) = event.capacity - Reserved(rows)
    BY <2>1 DEF Free, Larger
  <2>3. row[p].seats \in SeatCount
    BY <1>3, GoodNumbers
  <2> QED
    BY <1>1, <1>2, <1>4, <2>1, <2>2, <2>3, AssumptionsHold DEF SeatCount, Assumptions
<1> DEFINE new == AddMainSeats(p, rows[p], add, 0)
<1>6. Good(new) /\ TakenBy(new) = TakenBy(rows[p]) + add /\ HeldBy(new) = HeldBy(rows[p])
  <2> HIDE DEF add
  <2> QED BY <1>3, <1>4, <1>5, AddMainSeatsIsGood
<1>7. Roster([rows EXCEPT ![p] = new])
  BY <1>1
<1> HIDE DEF add, new
<1>8. Fits([rows EXCEPT ![p] = new])
  BY <1>3, <1>5, <1>6, InvFacts, OneMoreFits
<1> QED
  BY <1>7, <1>8, RosterStep

\* The end of an operation of one player that frees seats of his.
LEMMA FreedKeeps ==
  ASSUME Inv, NEW p \in Players, NEW c, Good(c),
         TakenBy(c) <= TakenBy(row[p]), HeldBy(c) <= HeldBy(row[p]),
         NEW after, Roster(after),
         \/ after = [row EXCEPT ![p] = c]
         \/ after \in PromoteFromWaitlist([row EXCEPT ![p] = c])
  PROVE  Inv'
<1> DEFINE rows == [row EXCEPT ![p] = c]
<1>1. Fits(rows)
  BY InvFacts, OneFewerFits DEF Inv
<1> HIDE DEF rows
<1>2. after = rows \/ after \in PromoteFromWaitlist(rows)
  BY DEF rows
<1>3. Fits(after)
  BY <1>1, <1>2, InvFacts, PromoteFits
<1> QED
  BY <1>3, RosterStep

\* A booking with fewer seats, before its status follows: for its whole request
\* in the queue, or m seats off the roster and q off the queue.  Sessions go
\* back for what neither an unpaid seat nor a released payment covers.
Lessened(b, less) ==
  \/ /\ b.status = "waitlisted"
     /\ \E target \in 1 .. MaxSeats :
          /\ target <= b.seats
          /\ less = [ReleaseSeats(Restored(b, 0), 0)
                       EXCEPT !.seats = target, !.wl = Restored(b, 0).wl - 0]
  \/ /\ Main(b)
     /\ \E m, q \in SeatCount :
          LET restore == Smaller(m - Smaller(m, b.pend), SubscriptionSeats(b)) IN
          /\ m < b.seats /\ q <= b.wl /\ restore \in SeatCount
          /\ m - restore \in SeatCount /\ m - restore <= m
          /\ less = FewerSeats(Restored(b, restore), m, q, m - restore)

\* A change to fewer seats, step by step.
LEMMA DecreasedRow ==
  ASSUME Inv, NEW p \in Players, NEW target \in 1 .. MaxSeats, DecreaseSeats(p, target)
  PROVE  \E less, c, after :
           /\ Good(less) /\ Lessened(row[p], less)
           /\ TakenBy(less) <= TakenBy(row[p]) /\ HeldBy(less) = HeldBy(row[p])
           /\ \/ c = Revoked(Synced(less))
              \/ /\ c = Synced(less)
                 /\ ~(row[p].offered > IF row[p].status = "waitlisted" THEN less.seats ELSE less.wl)
           /\ Roster(after)
           /\ \/ after = [row EXCEPT ![p] = c]
              \/ /\ after \in PromoteFromWaitlist([row EXCEPT ![p] = c])
                 /\ row[p].offered = 0 => Main(row[p]) /\ less.wl = 0
<1> DEFINE b == row[p]
           waiting == b.status = "waitlisted"
           remove == b.seats + b.wl - target
           fromQueue == IF waiting THEN 0 ELSE Smaller(remove, b.wl)
           fromMain == IF waiting THEN 0 ELSE remove - fromQueue
           revoked == b.offered > (IF waiting THEN target ELSE b.wl - fromQueue)
           unpaid == Smaller(fromMain, b.pend)
           restore == Smaller(fromMain - unpaid, SubscriptionSeats(b))
           full == Restored(b, restore)
           paid == ReleaseSeats(full, fromMain - restore)
           less == [paid EXCEPT !.seats = IF waiting THEN target ELSE paid.seats - fromMain,
                                !.wl = paid.wl - fromQueue]
           fewer == Synced(less)
           new == IF revoked THEN Revoked(fewer) ELSE fewer
           rows == [row EXCEPT ![p] = new]
<1>1. (waiting \/ Main(b)) /\ remove > 0
  BY DEF DecreaseSeats
<1>0. \E after \in IF fromMain > 0 \/ revoked THEN PromoteFromWaitlist(rows) ELSE {rows} :
        Roster(after)
  BY Zenon DEF DecreaseSeats
<1>2. Good(b) /\ b.seats \in SeatCount /\ b.wl \in SeatCount /\ b.pend \in SeatCount
      /\ b.paid \in SeatCount
  BY InvFacts, GoodNumbers
<1>3. SubscriptionSeats(b) \in SeatCount /\ SubscriptionSeats(b) <= Larger(0, b.seats - Live(b))
  BY <1>2, SubscriptionSeatsType
<1>4. Main(b) => /\ fromMain \in SeatCount /\ fromQueue \in SeatCount /\ fromMain < b.seats
                 /\ fromQueue <= b.wl /\ restore \in SeatCount
                 /\ fromMain - restore \in SeatCount /\ fromMain - restore <= fromMain
                 /\ fromMain - (fromMain - restore) <= Larger(0, b.seats - Live(b))
  <2> SUFFICES ASSUME Main(b)
      PROVE /\ fromMain \in SeatCount /\ fromQueue \in SeatCount /\ fromMain < b.seats
            /\ fromQueue <= b.wl /\ restore \in SeatCount
            /\ fromMain - restore \in SeatCount /\ fromMain - restore <= fromMain
            /\ fromMain - (fromMain - restore) <= Larger(0, b.seats - Live(b))
    OBVIOUS
  <2>1. ~waiting /\ b.seats >= 1
    BY <1>2 DEF Main, Good, Active
  <2>2. /\ fromMain \in SeatCount /\ fromQueue \in SeatCount /\ fromMain < b.seats
        /\ fromQueue <= b.wl
    <3>1. remove \in Nat /\ remove > 0 /\ remove < b.seats + b.wl
      BY <1>1, <1>2, AssumptionsHold DEF SeatCount, Assumptions
    <3>2. /\ fromQueue = IF remove <= b.wl THEN remove ELSE b.wl
          /\ fromMain = IF remove <= b.wl THEN 0 ELSE remove - b.wl
      BY <1>2, <2>1, <3>1 DEF Smaller, SeatCount
    <3> HIDE DEF b, remove, fromQueue, fromMain
    <3> QED
      BY <1>2, <2>1, <3>1, <3>2, AssumptionsHold DEF SeatCount, Assumptions
  <2> HIDE DEF fromMain, fromQueue
  <2>3. restore \in SeatCount /\ fromMain - restore \in SeatCount
        /\ fromMain - restore <= fromMain /\ restore <= SubscriptionSeats(b)
    BY <1>2, <1>3, <2>2, AssumptionsHold DEF Smaller, SeatCount, Assumptions
  <2>4. fromMain - (fromMain - restore) = restore /\ Larger(0, b.seats - Live(b)) \in Int
    BY <1>2, <2>2, <2>3, AssumptionsHold DEF Larger, Live, SeatCount, Assumptions
  <2> HIDE DEF restore
  <2>5. restore <= Larger(0, b.seats - Live(b))
    BY <1>3, <2>3, <2>4 DEF SeatCount
  <2> QED BY <2>2, <2>3, <2>4, <2>5
<1>5. waiting => /\ fromMain = 0 /\ fromQueue = 0 /\ restore = 0 /\ fromMain - restore = 0
                 /\ target \in SeatCount /\ 1 <= target /\ target <= b.seats
  BY <1>1, <1>2, <1>3, AssumptionsHold DEF Good, Smaller, SeatCount, Assumptions
<1>6. restore \in Nat
  BY <1>1, <1>4, <1>5 DEF SeatCount
<1>7. /\ Good(full) /\ TakenBy(full) = TakenBy(b) /\ HeldBy(full) = HeldBy(b)
      /\ full.status = b.status /\ full.seats = b.seats /\ full.wl = b.wl
      /\ full.pend = b.pend /\ full.paid = b.paid
  <2> HIDE DEF b, restore
  <2> QED BY <1>2, <1>6, RestoredIsGood, RestoredKeeps
<1>8. paid.seats = full.seats /\ paid.wl = full.wl
  <2> HIDE DEF full
  <2>1. full \in Row
    BY <1>7 DEF Good
  <2> QED BY <2>1 DEF ReleaseSeats, Row
<1>14. less.wl = b.wl - fromQueue /\ (waiting => less.seats = target)
  <2> HIDE DEF full, fromQueue, fromMain, restore
  <2>1. full \in Row
    BY <1>7 DEF Good
  <2>2. less.wl = paid.wl - fromQueue
    BY <2>1 DEF ReleaseSeats, Row
  <2>3. waiting => less.seats = target
    BY <2>1 DEF ReleaseSeats, Row
  <2> QED BY <1>7, <1>8, <2>2, <2>3
<1>9. /\ Good(less) /\ TakenBy(less) <= TakenBy(b) /\ HeldBy(less) = HeldBy(b)
      /\ Lessened(b, less)
  <2>1. CASE waiting
    <3>1. /\ less = [ReleaseSeats(full, 0) EXCEPT !.seats = target, !.wl = full.wl - 0]
      BY <1>5, <1>8, <2>1
    <3>2. TakenBy(b) \in SeatCount
      BY <1>2, GoodNumbers
    <3>5. Lessened(b, less)
      <4>1. full = Restored(b, 0)
        BY <1>5, <2>1
      <4> HIDE DEF less, full, b
      <4> QED BY <1>5, <2>1, <3>1, <4>1, Zenon DEF Lessened
    <3>3. full.status = "waitlisted" /\ target <= full.seats
      BY <1>5, <1>7, <2>1
    <3> HIDE DEF full, less, b, fromMain, fromQueue, restore
    <3>4. Good(less) /\ TakenBy(less) = TakenBy(full) /\ HeldBy(less) = HeldBy(full)
      BY <1>5, <1>7, <2>1, <3>1, <3>3, FewerWaitingIsGood
    <3> QED BY <1>7, <3>2, <3>4, <3>5 DEF SeatCount
  <2>2. CASE ~waiting
    <3>1. less = [ReleaseSeats(full, fromMain - restore)
                    EXCEPT !.seats = full.seats - fromMain, !.wl = full.wl - fromQueue]
      BY <1>8, <2>2
    <3>2. Main(full) /\ Live(full) = Live(b) /\ Main(b)
      BY <1>1, <1>7, <2>2 DEF Main, Live
    <3> DEFINE n == fromMain - restore
    <3>3. /\ fromMain \in SeatCount /\ fromQueue \in SeatCount /\ n \in SeatCount
          /\ fromMain < full.seats /\ fromQueue <= full.wl /\ n <= fromMain
          /\ fromMain - n <= Larger(0, full.seats - Live(full))
      BY <1>4, <1>7, <3>2
    <3>4. less = FewerSeats(full, fromMain, fromQueue, n)
      BY <3>1 DEF FewerSeats
    <3>6. Lessened(b, less)
      <4>1. restore = Smaller(fromMain - Smaller(fromMain, b.pend), SubscriptionSeats(b))
        OBVIOUS
      <4>2. less = FewerSeats(Restored(b, restore), fromMain, fromQueue, fromMain - restore)
        BY <3>4
      <4>3. /\ fromMain < b.seats /\ fromQueue <= b.wl /\ restore \in SeatCount
            /\ fromMain - restore \in SeatCount /\ fromMain - restore <= fromMain
        BY <1>4, <3>2
      <4> HIDE DEF restore, less, fromMain, fromQueue, b, n
      <4> QED BY <3>2, <3>3, <4>1, <4>2, <4>3 DEF Lessened
    <3> HIDE DEF full, less, b, fromMain, fromQueue, restore, n
    <3>5. Good(less) /\ TakenBy(less) <= TakenBy(full) /\ HeldBy(less) = HeldBy(full)
      BY <1>7, <3>2, <3>3, <3>4, FewerSeatsIsGood
    <3> QED BY <1>7, <3>5, <3>6
  <2> QED BY <2>1, <2>2
<1>10. ~revoked => ~(b.offered > IF waiting THEN less.seats ELSE less.wl)
  BY <1>14
<1>15. new = Revoked(Synced(less)) \/ (new = Synced(less) /\ ~revoked)
  OBVIOUS
<1>16. fromMain > 0 => Main(b) /\ less.wl = 0
  <2> SUFFICES ASSUME fromMain > 0 PROVE Main(b) /\ less.wl = 0
    OBVIOUS
  <2>1. ~waiting /\ Main(b)
    BY <1>1, <1>5
  <2>2. fromQueue = b.wl
    BY <1>2, <2>1, AssumptionsHold DEF Smaller, SeatCount, Assumptions
  <2> HIDE DEF less
  <2> QED BY <1>2, <1>14, <2>1, <2>2 DEF SeatCount
<1>17. b.offered = 0 => ~revoked
  <2>1. waiting => target \in SeatCount
    BY <1>5
  <2>2. ~waiting => b.wl - fromQueue \in SeatCount
    BY <1>1, <1>2, <1>4, AssumptionsHold DEF SeatCount, Assumptions
  <2> QED BY <2>1, <2>2 DEF SeatCount
<1> HIDE DEF less, revoked, new, fromMain
<1>13. PICK after : /\ Roster(after)
                    /\ \/ after = rows
                       \/ after \in PromoteFromWaitlist(rows) /\ (fromMain > 0 \/ revoked)
  BY <1>0
<1>18. after = rows \/ (after \in PromoteFromWaitlist(rows)
                        /\ (b.offered = 0 => Main(b) /\ less.wl = 0))
  BY <1>13, <1>16, <1>17
<1> QED
  BY <1>9, <1>10, <1>13, <1>15, <1>18

LEMMA DecreaseSeatsKeeps ==
  ASSUME Inv, NEW p \in Players, NEW target \in 1 .. MaxSeats, DecreaseSeats(p, target)
  PROVE  Inv'
<1>1. PICK less, c, after :
        /\ Good(less) /\ TakenBy(less) <= TakenBy(row[p]) /\ HeldBy(less) = HeldBy(row[p])
        /\ c = Revoked(Synced(less)) \/ c = Synced(less)
        /\ Roster(after)
        /\ after = [row EXCEPT ![p] = c] \/ after \in PromoteFromWaitlist([row EXCEPT ![p] = c])
  BY DecreasedRow
<1>2. HeldBy(row[p]) \in SeatCount
  BY InvFacts, GoodNumbers
<1>3. Good(c) /\ TakenBy(c) <= TakenBy(row[p]) /\ HeldBy(c) <= HeldBy(row[p])
  BY <1>1, <1>2, SyncedIsGood, RevokedIsGood DEF SeatCount
<1> QED
  BY <1>1, <1>3, FreedKeeps

LEMMA CancelBookingKeeps ==
  ASSUME Inv, NEW p \in Players, CancelBooking(p)
  PROVE  Inv'
<1> DEFINE n == IF Main(row[p]) THEN SubscriptionSeats(row[p]) ELSE 0
           new == CancelledBooking(row[p], n)
<1>1. PICK after : /\ Roster(after)
                   /\ \/ after = [row EXCEPT ![p] = new]
                      \/ after \in PromoteFromWaitlist([row EXCEPT ![p] = new])
  BY DEF CancelBooking
<1>2. Good(row[p]) /\ TakenBy(row[p]) \in SeatCount /\ HeldBy(row[p]) \in SeatCount
  BY InvFacts, GoodNumbers
<1>3. n \in Nat
  BY <1>2, SubscriptionSeatsType DEF SeatCount
<1> HIDE DEF n
<1>4. Good(new) /\ TakenBy(new) = 0 /\ HeldBy(new) = 0
  BY <1>2, <1>3, CancelledBookingIsGood
<1> HIDE DEF new
<1> QED
  BY <1>1, <1>2, <1>4, FreedKeeps DEF SeatCount

LEMMA RejectedShrinks ==
  ASSUME NEW b, Good(b), Main(b), NEW c,
         LET kept == b.paid + SubscriptionSeats(b) IN
         \/ kept > 0 /\ c = Synced([b EXCEPT !.pend = 0, !.seats = kept])
         \/ c = Gone(b)
         \/ c = CancelledBooking(b, 0)
  PROVE  Good(c) /\ TakenBy(c) <= TakenBy(b) /\ HeldBy(c) <= HeldBy(b)
<1> DEFINE kept == b.paid + SubscriptionSeats(b)
           less == [b EXCEPT !.pend = 0, !.seats = kept]
<1>1. /\ TakenBy(b) \in SeatCount /\ HeldBy(b) \in SeatCount /\ b.seats \in SeatCount
      /\ b.pend \in SeatCount /\ b.paid \in SeatCount /\ TakenBy(b) = b.seats
      /\ b.pend + b.paid <= b.seats
  BY GoodNumbers DEF Good, TakenBy, Occupying, Live
<1>2. SubscriptionSeats(b) \in SeatCount /\ SubscriptionSeats(b) <= Larger(0, b.seats - Live(b))
  BY SubscriptionSeatsType
<1>3. kept \in SeatCount /\ kept <= b.seats /\ b.paid <= kept
  BY <1>1, <1>2, AssumptionsHold DEF Larger, Live, SeatCount, Assumptions
<1> HIDE DEF kept
<1>4. CASE kept > 0 /\ c = Synced(less)
  <2>1. 1 <= kept
    BY <1>3, <1>4 DEF SeatCount
  <2>2. Good(less) /\ TakenBy(less) <= TakenBy(b) /\ HeldBy(less) = HeldBy(b)
    BY <1>3, <2>1, KeptIsGood
  <2> HIDE DEF less
  <2> QED BY <1>1, <1>4, <2>2, SyncedIsGood DEF SeatCount
<1>5. CASE c = Gone(b)
  BY <1>1, <1>5, GoneIsGood DEF SeatCount
<1>6. CASE c = CancelledBooking(b, 0)
  BY <1>1, <1>6, CancelledBookingIsGood DEF SeatCount
<1> QED BY <1>4, <1>5, <1>6 DEF kept

LEMMA RejectPaymentKeeps ==
  ASSUME Inv, NEW p \in Players, RejectPayment(p)
  PROVE  Inv'
<1> DEFINE b == row[p]
           kept == b.paid + SubscriptionSeats(b)
           rest == IF kept > 0 THEN Synced([b EXCEPT !.pend = 0, !.seats = kept])
                   ELSE IF event.phase = "started" THEN Gone(b) ELSE CancelledBooking(b, 0)
           rows == [row EXCEPT ![p] = rest]
<1>1. /\ Main(b)
      /\ \E after \in IF event.phase = "started" THEN {rows} ELSE PromoteFromWaitlist(rows) :
           Roster(after)
  BY Zenon DEF RejectPayment
<1>2. Good(rest) /\ TakenBy(rest) <= TakenBy(b) /\ HeldBy(rest) <= HeldBy(b)
  BY <1>1, InvFacts, RejectedShrinks
<1>3. PICK after : /\ Roster(after)
                   /\ after = rows \/ after \in PromoteFromWaitlist(rows)
  BY <1>1
<1> HIDE DEF rest
<1> QED
  BY <1>2, <1>3, FreedKeeps

\* Seats held for a player become seats he takes.
LEMMA AcceptOfferKeeps ==
  ASSUME Inv, NEW p \in Players, AcceptOffer(p)
  PROVE  Inv'
<1> DEFINE b == row[p]
           n == b.offered
           without == Revoked(b)
           mid == [row EXCEPT ![p] = without]
           new == Revoked(Promoted(p, b, n))
           none == [q \in Players |-> 0]
<1>1. n > 0 /\ b.left > 0 /\ Queued(b) >= n /\ Roster([row EXCEPT ![p] = new])
  BY DEF AcceptOffer
<1>2. Good(b) /\ n \in SeatCount /\ Queued(b) \in SeatCount /\ HeldBy(b) = n
      /\ TakenBy(b) \in SeatCount
  BY <1>1, InvFacts, GoodNumbers DEF HeldBy
<1>3. Good(without) /\ TakenBy(without) = TakenBy(b) /\ HeldBy(without) = 0
  BY <1>2, RevokedIsGood
<1>4. Good(new) /\ TakenBy(new) = TakenBy(b) + n /\ HeldBy(new) = 0
  <2>1. n <= Queued(b)
    BY <1>1, <1>2 DEF SeatCount
  <2> HIDE DEF b, n
  <2> QED BY <1>2, <2>1, PromotedIsGood, RevokedIsGood
<1> HIDE DEF without, new
<1>5. Fits(mid)
  <2>1. TakenBy(without) <= TakenBy(row[p]) /\ HeldBy(without) <= HeldBy(row[p])
    BY <1>2, <1>3 DEF SeatCount
  <2> QED BY <1>3, <2>1, InvFacts, OneFewerFits DEF Inv
<1>6. Reserved(row) = Reserved(mid) + 0 + n
  <2>1. /\ Only(p, n) \in Counts /\ Total(Only(p, n)) = n
        /\ none \in Counts /\ Total(none) = 0
    BY <1>2, TotalOnly, NoSeats
  <2>2. ASSUME NEW q \in Players
        PROVE  /\ TakenBy(row[q]) = TakenBy(mid[q]) + none[q]
               /\ HeldBy(row[q]) = HeldBy(mid[q]) + Only(p, n)[q]
    <3>1. TakenBy(row[q]) \in SeatCount /\ HeldBy(row[q]) \in SeatCount
      BY InvFacts, GoodNumbers
    <3>2. mid[q] = IF q = p THEN without ELSE row[q]
      BY DEF Inv, Fits, GoodRows
    <3> HIDE DEF mid
    <3> QED
      BY <1>2, <1>3, <3>1, <3>2 DEF Only, SeatCount
  <2> HIDE DEF none, mid, n
  <2> QED
    BY <1>5, <2>1, <2>2, ReservedGrows DEF Fits, Inv
<1>7. Reserved(mid) \in Nat /\ Reserved(mid) + n <= event.capacity
  <2>1. Reserved(mid) \in Nat
    BY <1>5, ReservedNat DEF Fits
  <2>2. Reserved(row) <= event.capacity
    BY DEF Inv, Fits
  <2> HIDE DEF mid, n
  <2> QED
    BY <1>2, <1>6, <2>1, <2>2 DEF SeatCount
<1>8. mid[p] = without /\ [mid EXCEPT ![p] = new] = [row EXCEPT ![p] = new]
  BY DEF Inv, Fits, GoodRows
<1> HIDE DEF mid
<1>9. Fits([row EXCEPT ![p] = new])
  <2>1. TakenBy(new) = TakenBy(mid[p]) + n /\ HeldBy(new) = HeldBy(mid[p])
    BY <1>3, <1>4, <1>8
  <2> HIDE DEF n
  <2> QED
    BY <1>2, <1>4, <1>5, <1>7, <1>8, <2>1, InvFacts, OneMoreFits
<1> QED
  BY <1>1, <1>9, RosterStep

\* Attendance and money, which move no seat.
LEMMA SameSeatsKeep ==
  ASSUME Inv, NEW p \in Players, NEW c, Good(c), Roster([row EXCEPT ![p] = c]),
         TakenBy(c) = TakenBy(row[p]), HeldBy(c) = HeldBy(row[p])
  PROVE  Inv'
<1>1. TakenBy(row[p]) \in SeatCount /\ HeldBy(row[p]) \in SeatCount
  BY InvFacts, GoodNumbers
<1>2. TakenBy(c) <= TakenBy(row[p]) /\ HeldBy(c) <= HeldBy(row[p])
  BY <1>1 DEF SeatCount
<1>3. Fits([row EXCEPT ![p] = c])
  BY <1>2, InvFacts, OneFewerFits DEF Inv
<1> QED
  BY <1>3, RosterStep

LEMMA BulkAttendanceKeeps ==
  ASSUME Inv, NEW p \in Players, NEW mark \in {"attended", "no_show"}, BulkAttendance(p, mark)
  PROVE  Inv'
<1> DEFINE c == [row[p] EXCEPT !.status = mark, !.wl = 0]
<1>1. Occupying(row[p]) /\ Roster([row EXCEPT ![p] = c])
  BY DEF BulkAttendance, Occupying, Main
<1>2. Good(c) /\ TakenBy(c) = TakenBy(row[p]) /\ HeldBy(c) = HeldBy(row[p])
  BY <1>1, InvFacts, MarkedIsGood
<1> HIDE DEF c
<1> QED
  BY <1>1, <1>2, SameSeatsKeep

LEMMA ConfirmPaymentKeeps ==
  ASSUME Inv, NEW p \in Players, ConfirmPayment(p)
  PROVE  Inv'
<1> DEFINE b == row[p]
           paid == [b EXCEPT !.paid = @ + b.pend, !.pend = 0]
           c == Synced(paid)
<1>1. Roster([row EXCEPT ![p] = c])
  BY Zenon DEF ConfirmPayment
<1>2. Good(paid) /\ TakenBy(paid) = TakenBy(b) /\ HeldBy(paid) = HeldBy(b)
  BY InvFacts, PaidIsGood
<1> HIDE DEF paid
<1>3. Good(c) /\ TakenBy(c) = TakenBy(b) /\ HeldBy(c) = HeldBy(b)
  BY <1>2, SyncedIsGood
<1> HIDE DEF c
<1> QED
  BY <1>1, <1>3, SameSeatsKeep

-----------------------------------------------------------------------------
(* The operations of the organizer.                                         *)

LEMMA EventStep ==
  ASSUME Inv, event' \in Event, GoodRows(row'), Reserved(row') <= event'.capacity,
         ahead' \subseteq Players \X Players, lapsed' \subseteq Players, sched' \in BOOLEAN
  PROVE  Inv'
BY DEF Inv, TypeOK, Fits, GoodRows, Good, Reserved, Taken, Held, TakenBy, HeldBy, Total,
       Active, Occupying, Main, Live

\* Rows rewritten player by player, none taking or holding more.
LEMMA RowwiseShrinks ==
  ASSUME Inv, NEW after, after = [p \in Players |-> after[p]],
         \A p \in Players : /\ Good(after[p]) /\ TakenBy(after[p]) <= TakenBy(row[p])
                            /\ HeldBy(after[p]) <= HeldBy(row[p])
  PROVE  GoodRows(after) /\ Reserved(after) <= Reserved(row) /\ Reserved(after) <= event.capacity
<1>1. GoodRows(after)
  BY DEF GoodRows, Good
<1>2. Reserved(after) <= Reserved(row)
  BY <1>1, ReservedShrinks DEF Inv, Fits
<1>3. Reserved(after) \in Nat /\ Reserved(row) \in Nat /\ event.capacity \in Nat
      /\ Reserved(row) <= event.capacity
  BY <1>1, InvFacts, ReservedNat DEF Inv, Fits
<1> QED
  BY <1>1, <1>2, <1>3

LEMMA WithoutOffersFits ==
  ASSUME Inv
  PROVE  /\ GoodRows(WithoutOffers(row)) /\ Reserved(WithoutOffers(row)) <= Reserved(row)
         /\ Reserved(WithoutOffers(row)) <= event.capacity
<1> DEFINE after == WithoutOffers(row)
<1>1. \A p \in Players : /\ Good(after[p]) /\ TakenBy(after[p]) <= TakenBy(row[p])
                         /\ HeldBy(after[p]) <= HeldBy(row[p])
  <2> SUFFICES ASSUME NEW p \in Players
      PROVE /\ Good(Revoked(row[p])) /\ TakenBy(Revoked(row[p])) <= TakenBy(row[p])
            /\ HeldBy(Revoked(row[p])) <= HeldBy(row[p])
    BY DEF WithoutOffers
  <2>1. Good(row[p]) /\ TakenBy(row[p]) \in SeatCount /\ HeldBy(row[p]) \in SeatCount
    BY InvFacts, GoodNumbers
  <2> QED BY <2>1, RevokedIsGood DEF SeatCount
<1>2. after = [p \in Players |-> after[p]]
  BY DEF WithoutOffers
<1> HIDE DEF after
<1>3. GoodRows(after) /\ Reserved(after) <= Reserved(row) /\ Reserved(after) <= event.capacity
  BY <1>1, <1>2, RowwiseShrinks
<1> QED
  BY <1>3 DEF after

LEMMA UpdateEventKeeps ==
  ASSUME Inv, NEW st \in Statuses \union {event.status}, NEW capacity \in Capacities,
         NEW price \in Prices, NEW ph \in Phases \union {event.phase}, NEW moved \in BOOLEAN,
         UpdateEvent(st, capacity, price, ph, moved)
  PROVE  Inv'
<1> DEFINE manual == /\ ph \in {"due", "started"}
                     /\ \/ event.manual
                        \/ (moved \/ event.status # "published") /\ st = "published"
<1>1. /\ event' = [event EXCEPT !.status = st, !.capacity = capacity, !.price = price,
                                !.phase = ph, !.manual = manual]
      /\ capacity # event.capacity => capacity >= Reserved(row)
      /\ row' = IF st = "published" THEN row ELSE WithoutOffers(row)
      /\ UNCHANGED <<ahead, lapsed, sched>>
  BY DEF UpdateEvent
<1>2. manual \in BOOLEAN /\ event \in Event
  BY DEF Inv, TypeOK
<1>3. /\ st \in {"draft", "published", "closed", "finished", "cancelled"}
      /\ ph \in {"before", "open", "due", "started"}
  BY <1>2, InputAssumption DEF Event
<1> HIDE DEF manual
<1>4. event' \in Event /\ event'.capacity = capacity
  <2>1. event' \in Event
    BY <1>1, <1>2, <1>3, Zenon DEF Event
  <2>2. event'.capacity = capacity
    BY <1>1, <1>2 DEF Event
  <2> QED BY <2>1, <2>2
<1>5. Reserved(row) <= capacity
  <2>1. capacity \in Nat /\ Reserved(row) \in Nat /\ Reserved(row) <= event.capacity
    BY SeatsAssumption, InvFacts DEF Inv, Fits
  <2> QED BY <1>1, <2>1
<1>6. GoodRows(row') /\ Reserved(row') <= event'.capacity
  <2>1. CASE st = "published"
    BY <1>1, <1>4, <1>5, <2>1 DEF Inv, Fits
  <2>2. CASE st # "published"
    <3>1. row' = WithoutOffers(row)
      BY <1>1, <2>2
    <3>2. Reserved(row') \in Nat /\ Reserved(row) \in Nat /\ capacity \in Nat
      BY <3>1, SeatsAssumption, WithoutOffersFits, InvFacts, ReservedNat
    <3> QED BY <1>4, <1>5, <3>1, <3>2, WithoutOffersFits
  <2> QED BY <2>1, <2>2
<1>7. ahead' \subseteq Players \X Players /\ lapsed' \subseteq Players /\ sched' \in BOOLEAN
  BY <1>1 DEF Inv, TypeOK
<1> QED
  BY <1>4, <1>6, <1>7, EventStep

LEMMA CancelEventKeeps ==
  ASSUME Inv, CancelEvent
  PROVE  Inv'
<1> DEFINE f(p) == IF Active(row[p])
             THEN CancelledBooking(row[p],
                    IF Occupying(row[p]) THEN SubscriptionSeats(row[p]) ELSE 0)
             ELSE Revoked(row[p])
<1>1. \A p \in Players : /\ Good(f(p)) /\ TakenBy(f(p)) <= TakenBy(row[p])
                         /\ HeldBy(f(p)) <= HeldBy(row[p])
  <2> SUFFICES ASSUME NEW p \in Players
      PROVE /\ Good(f(p)) /\ TakenBy(f(p)) <= TakenBy(row[p])
            /\ HeldBy(f(p)) <= HeldBy(row[p])
    OBVIOUS
  <2> DEFINE n == IF Occupying(row[p]) THEN SubscriptionSeats(row[p]) ELSE 0
  <2>1. Good(row[p]) /\ TakenBy(row[p]) \in SeatCount /\ HeldBy(row[p]) \in SeatCount
    BY InvFacts, GoodNumbers
  <2>2. n \in Nat
    BY <2>1, SubscriptionSeatsType DEF SeatCount
  <2>3. f(p) = CancelledBooking(row[p], n) \/ f(p) = Revoked(row[p])
    OBVIOUS
  <2> HIDE DEF f, n
  <2> QED
    BY <2>1, <2>2, <2>3, CancelledBookingIsGood, RevokedIsGood DEF SeatCount
<1>2. row' = [p \in Players |-> f(p)] /\ event' = [event EXCEPT !.status = "cancelled"]
      /\ ahead' \subseteq ahead /\ UNCHANGED <<lapsed, sched>>
  BY DEF CancelEvent, Tables
<1>3. GoodRows(row') /\ Reserved(row') <= event.capacity
  <2>1. row' = [p \in Players |-> row'[p]] /\ \A p \in Players : row'[p] = f(p)
    BY <1>2
  <2> HIDE DEF f
  <2> QED BY <1>1, <2>1, RowwiseShrinks
<1>4. event' \in Event /\ event'.capacity = event.capacity
  BY <1>2 DEF Inv, TypeOK, Event
<1> QED
  BY <1>2, <1>3, <1>4, EventStep DEF Inv, TypeOK

LEMMA ShareIsGood ==
  ASSUME NEW b, Good(b), Main(b) => Live(b) = 0
  PROVE  Good(Share(b)) /\ TakenBy(Share(b)) = TakenBy(b) /\ HeldBy(Share(b)) = HeldBy(b)
<1> DEFINE c == [b EXCEPT !.status = "pending_payment", !.alloc = TRUE, !.pend = 1, !.wl = 0]
<1>1. CASE ~Main(b)
  BY <1>1 DEF Share
<1>2. CASE Main(b)
  <2>1. c \in Row
    BY Values, Zenon DEF Good, Row
  <2>2. /\ c.status = "pending_payment" /\ c.seats = b.seats /\ c.wl = 0 /\ c.pend = 1
        /\ c.paid = b.paid /\ c.left = b.left /\ c.offered = b.offered
    BY DEF Good, Row
  <2>3. b.paid \in SeatCount /\ b.pend \in SeatCount /\ b.seats \in SeatCount /\ b.wl \in SeatCount
        /\ Active(b) /\ b.pend + b.paid = 0
    BY <1>2, GoodNumbers DEF Main, Active, Live
  <2> HIDE DEF c
  <2>4. TakenBy(c) = b.seats /\ TakenBy(b) = b.seats /\ HeldBy(c) = HeldBy(b)
    BY <1>2, <2>2 DEF TakenBy, HeldBy, Occupying, Main
  <2>5. b.paid = 0 /\ b.seats >= 1
    BY <2>3, AssumptionsHold DEF Good, SeatCount, Assumptions
  <2>6. Good(c)
    BY <2>1, <2>2, <2>3, <2>4, <2>5, AssumptionsHold
       DEF Good, Active, Live, SeatCount, Assumptions
  <2>7. Share(b) = c
    BY <1>2 DEF Share, c
  <2> QED BY <2>4, <2>6, <2>7
<1> QED BY <1>1, <1>2

LEMMA SettleSplitKeeps ==
  ASSUME Inv, SettleSplit
  PROVE  Inv'
<1> DEFINE f(p) == Revoked(Share(row[p]))
<1>1. \A p \in Players : Main(row[p]) => Live(row[p]) = 0
  BY DEF SettleSplit, Settleable
<1>2. \A p \in Players : /\ Good(f(p)) /\ TakenBy(f(p)) <= TakenBy(row[p])
                         /\ HeldBy(f(p)) <= HeldBy(row[p])
  <2> SUFFICES ASSUME NEW p \in Players
      PROVE /\ Good(Revoked(Share(row[p]))) /\ TakenBy(Revoked(Share(row[p]))) <= TakenBy(row[p])
            /\ HeldBy(Revoked(Share(row[p]))) <= HeldBy(row[p])
    OBVIOUS
  <2>1. Good(row[p]) /\ TakenBy(row[p]) \in SeatCount /\ HeldBy(row[p]) \in SeatCount
    BY InvFacts, GoodNumbers
  <2>2. Good(Share(row[p])) /\ TakenBy(Share(row[p])) = TakenBy(row[p])
    BY <1>1, <2>1, ShareIsGood
  <2> QED BY <2>1, <2>2, RevokedIsGood DEF SeatCount
<1>3. row' = [p \in Players |-> f(p)]
      /\ event' = [event EXCEPT !.status = "closed", !.settled = TRUE]
      /\ UNCHANGED <<ahead, lapsed, sched>>
  BY DEF SettleSplit, WithoutOffers
<1>4. GoodRows(row') /\ Reserved(row') <= event.capacity
  <2>1. row' = [p \in Players |-> row'[p]] /\ \A p \in Players : row'[p] = f(p)
    BY <1>3
  <2> HIDE DEF f
  <2> QED BY <1>2, <2>1, RowwiseShrinks
<1>5. event' \in Event /\ event'.capacity = event.capacity
  BY <1>3 DEF Inv, TypeOK, Event
<1> QED
  BY <1>3, <1>4, <1>5, EventStep DEF Inv, TypeOK

-----------------------------------------------------------------------------
(* The scheduler and the clock.                                             *)

LEMMA ExpireDueOffersKeeps ==
  ASSUME Inv, ExpireDueOffers
  PROVE  Inv'
<1>1. PICK rows \in OfferFreeSeats(Expired(row)) : Roster(rows)
  BY DEF ExpireDueOffers
<1>2. Fits(Expired(row))
  BY InvFacts, ExpiredFits DEF Inv
<1>3. Fits(rows)
  BY <1>1, <1>2, InvFacts, OfferFreeSeatsFits
<1> QED
  BY <1>1, <1>3, RosterStep

LEMMA OfferFreeSeatsSweepKeeps ==
  ASSUME Inv, OfferFreeSeatsSweep
  PROVE  Inv'
<1>1. PICK rows \in OfferFreeSeats(row) : Roster(rows)
  BY DEF OfferFreeSeatsSweep
<1>2. Fits(rows)
  BY <1>1, InvFacts, OfferFreeSeatsFits DEF Inv
<1> QED
  BY <1>1, <1>2, RosterStep

LEMMA CloseDueEventsKeeps ==
  ASSUME Inv, CloseDueEvents
  PROVE  Inv'
<1>1. CASE CloseWithoutShares
  <2>1. /\ event' = [event EXCEPT !.status = "closed"] /\ row' = WithoutOffers(row)
        /\ UNCHANGED <<ahead, lapsed, sched>>
    BY <1>1 DEF CloseWithoutShares
  <2>2. event' \in Event /\ event'.capacity = event.capacity
    BY <2>1 DEF Inv, TypeOK, Event
  <2> QED
    BY <2>1, <2>2, WithoutOffersFits, EventStep DEF Inv, TypeOK
<1>2. CASE SettleSplit
  BY <1>2, SettleSplitKeeps
<1>3. CASE event' = [event EXCEPT !.skipped = TRUE] /\ UNCHANGED <<row, ahead, lapsed, sched>>
  <2>1. event' \in Event /\ event'.capacity = event.capacity
    BY <1>3 DEF Inv, TypeOK, Event
  <2> QED
    BY <1>3, <2>1, EventStep DEF Inv, TypeOK, Fits
<1> QED
  BY <1>1, <1>2, <1>3 DEF CloseDueEvents

LEMMA TickKeeps ==
  ASSUME Inv, Tick
  PROVE  Inv'
<1> DEFINE f(p) == [row[p] EXCEPT !.left = Larger(0, @ - 1)]
<1>1. row' = [p \in Players |-> f(p)] /\ UNCHANGED <<event, ahead, lapsed, sched>>
  BY DEF Tick
<1>2. ASSUME NEW p \in Players
      PROVE  Good(f(p)) /\ TakenBy(f(p)) <= TakenBy(row[p]) /\ HeldBy(f(p)) <= HeldBy(row[p])
  <2> DEFINE b == row[p]
             c == f(p)
  <2>1. Good(b) /\ b.left \in 0 .. OfferTTL /\ b.offered \in SeatCount
        /\ TakenBy(b) \in SeatCount /\ HeldBy(b) \in SeatCount
    BY InvFacts, GoodNumbers
  <2>2. Larger(0, b.left - 1) \in 0 .. OfferTTL /\ (Larger(0, b.left - 1) > 0 => b.left > 0)
    BY <2>1, AssumptionsHold DEF Larger, Assumptions
  <2>3. c \in Row
    BY <2>1, <2>2, Zenon DEF Good, Row
  <2>4. /\ c.status = b.status /\ c.seats = b.seats /\ c.wl = b.wl /\ c.pend = b.pend
        /\ c.paid = b.paid /\ c.offered = b.offered /\ c.left = Larger(0, b.left - 1)
    BY <2>1 DEF Good, Row
  <2> HIDE DEF c, b, f
  <2>5. TakenBy(c) = TakenBy(b)
    BY <2>4 DEF TakenBy, Occupying, Main
  <2>6. HeldBy(c) <= HeldBy(b)
    BY <2>1, <2>2, <2>4, AssumptionsHold DEF HeldBy, SeatCount, Assumptions
  <2>7. Good(c)
    BY <2>1, <2>3, <2>4, <2>5 DEF Good, Active, Live
  <2> QED
    BY <2>1, <2>5, <2>6, <2>7 DEF SeatCount, c, b
<1>3. GoodRows(row') /\ Reserved(row') <= event.capacity
  <2>1. row' = [p \in Players |-> row'[p]] /\ \A p \in Players : row'[p] = f(p)
    BY <1>1
  <2> HIDE DEF f
  <2> QED BY <1>2, <2>1, RowwiseShrinks
<1> QED
  BY <1>1, <1>3, EventStep DEF Inv, TypeOK

LEMMA AdvancePhaseKeeps ==
  ASSUME Inv, AdvancePhase
  PROVE  Inv'
<1>1. \E ph \in {"before", "open", "due", "started"} : event' = [event EXCEPT !.phase = ph]
  BY DEF AdvancePhase
<1>2. event' \in Event /\ event'.capacity = event.capacity
  BY <1>1 DEF Inv, TypeOK, Event
<1> QED
  BY <1>2, EventStep DEF AdvancePhase, Inv, TypeOK, Fits

LEMMA RestKeeps ==
  ASSUME Inv, \/ \E p \in Players : ExpireSubscription(p)
              \/ Restart
              \/ UNCHANGED vars
  PROVE  Inv'
<1>1. row' = row /\ event' = event /\ ahead' = ahead /\ lapsed' \subseteq Players
      /\ sched' \in BOOLEAN
  BY ClockAssumption DEF ExpireSubscription, Restart, vars, Inv, TypeOK
<1> QED
  BY <1>1, EventStep DEF Inv, TypeOK, Fits

-----------------------------------------------------------------------------
(* Theorems.                                                                *)

LEMMA InvInit ==
  ASSUME Init
  PROVE  Inv
<1>1. row = [p \in Players |-> Absent] /\ ahead = {} /\ lapsed = {} /\ sched \in BOOLEAN
  BY ClockAssumption DEF Init
<1>2. event \in Event
  BY DEF Init, Event
<1>3. GoodRows(row)
  BY <1>1, AbsentIsGood DEF GoodRows, Good
<1>4. Reserved(row) = 0
  <2>1. [p \in Players |-> TakenBy(row[p])] = [p \in Players |-> 0]
        /\ [p \in Players |-> HeldBy(row[p])] = [p \in Players |-> 0]
    BY <1>1, AbsentIsGood
  <2> QED BY <2>1, NoSeats DEF Reserved, Taken, Held
<1>5. event.capacity \in Nat
  BY <1>2, SeatsAssumption DEF Event
<1> QED
  BY <1>1, <1>2, <1>3, <1>4, <1>5 DEF Inv, TypeOK, Fits, GoodRows

LEMMA InvNext ==
  ASSUME Inv, [Next]_vars
  PROVE  Inv'
<1>1. ASSUME NEW p \in Players, NEW n \in 1 .. MaxSeats, NEW m \in Methods, Book(p, n, m)
      PROVE Inv'
  BY <1>1, BookKeeps
<1>2. ASSUME NEW p \in Players, NEW n \in 1 .. MaxSeats,
             IncreaseSeats(p, n) \/ DecreaseSeats(p, n)
      PROVE Inv'
  BY <1>2, IncreaseSeatsKeeps, DecreaseSeatsKeeps
<1>3. ASSUME NEW p \in Players, CancelBooking(p) \/ AcceptOffer(p) \/ ConfirmPayment(p) \/ RejectPayment(p)
      PROVE Inv'
  BY <1>3, CancelBookingKeeps, AcceptOfferKeeps, ConfirmPaymentKeeps, RejectPaymentKeeps
<1>4. ASSUME NEW p \in Players, NEW mark \in {"attended", "no_show"}, BulkAttendance(p, mark)
      PROVE Inv'
  BY <1>4, BulkAttendanceKeeps
<1>5. ASSUME NEW st \in Statuses \union {event.status}, NEW capacity \in Capacities,
             NEW price \in Prices, NEW ph \in Phases \union {event.phase}, NEW moved \in BOOLEAN,
             UpdateEvent(st, capacity, price, ph, moved)
      PROVE Inv'
  BY <1>5, UpdateEventKeeps
<1>6. CASE CancelEvent
  BY <1>6, CancelEventKeeps
<1>7. CASE SettleSplit
  BY <1>7, SettleSplitKeeps
<1>8. CASE ExpireDueOffers
  BY <1>8, ExpireDueOffersKeeps
<1>9. CASE OfferFreeSeatsSweep
  BY <1>9, OfferFreeSeatsSweepKeeps
<1>10. CASE CloseDueEvents
  BY <1>10, CloseDueEventsKeeps
<1>11. CASE Tick
  BY <1>11, TickKeeps
<1>12. CASE AdvancePhase
  BY <1>12, AdvancePhaseKeeps
<1>13. CASE (\E p \in Players : ExpireSubscription(p)) \/ Restart \/ UNCHANGED vars
  BY <1>13, RestKeeps
<1> QED
  BY <1>1, <1>2, <1>3, <1>4, <1>5, <1>6, <1>7, <1>8, <1>9, <1>10, <1>11, <1>12, <1>13, Zenon
     DEF Next

\* The inductive invariant holds in every reachable state: rows keep their
\* limits, money stands only on taken seats, and the seats fit.
THEOREM Invariance == Spec => []Inv
<1>1. Init => Inv
  BY InvInit
<1>2. Inv /\ [Next]_vars => Inv'
  BY InvNext
<1> QED
  BY <1>1, <1>2, PTL DEF Spec

\* No operation writes a value outside its column: counts of seats, queued
\* seats, live payments and used sessions keep their bounds.
THEOREM TypeCorrect == Spec => []TypeOK
<1>1. Inv => TypeOK
  BY DEF Inv
<1> QED
  BY <1>1, Invariance, PTL

\* Seats taken and seats held by offers never exceed the capacity, for every
\* number of players, limit of seats and set of capacities.
THEOREM NeverOverbooked == Spec => []NoOverbooking
<1>1. Inv => NoOverbooking
  BY DEF Inv, Fits, NoOverbooking
<1> QED
  BY <1>1, Invariance, PTL
=============================================================================
