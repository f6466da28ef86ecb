----------------------- MODULE EventBookingsRowProofs -----------------------
(***************************************************************************)
(* More proofs about EventBookings.  Every operation sends each booking on *)
(* a trip of a few moves: what the queue is owed first, the operation's    *)
(* own change of one booking, and what freed seats make of the queue.  The *)
(* promises about single bookings follow from the moves.                   *)
(***************************************************************************)
EXTENDS EventBookingsProofs

-----------------------------------------------------------------------------
(* What each move writes, field by field.                                   *)

LEMMA RevokedFields ==
  ASSUME NEW b, Good(b)
  PROVE  LET c == Revoked(b) IN
         /\ c.status = b.status /\ c.method = b.method /\ c.seats = b.seats /\ c.wl = b.wl
         /\ c.sub = b.sub /\ c.pend = b.pend /\ c.paid = b.paid /\ c.alloc = b.alloc
         /\ c.offered = 0 /\ c.left = 0 /\ c.used = b.used
BY DEF Good, Row, Revoked

LEMMA GoneFields ==
  ASSUME NEW b, Good(b)
  PROVE  LET c == Gone(b) IN
         /\ c.status = "cancelled" /\ c.method = "free" /\ c.seats = 0 /\ c.wl = 0
         /\ c.sub = FALSE /\ c.pend = 0 /\ c.paid = 0 /\ c.alloc = b.alloc
         /\ c.offered = b.offered /\ c.left = b.left /\ c.used = b.used
BY DEF Good, Row, Gone

LEMMA RestoredFields ==
  ASSUME NEW b, Good(b), NEW n
  PROVE  LET c == Restored(b, n) IN
         /\ c.status = b.status /\ c.method = b.method /\ c.seats = b.seats /\ c.wl = b.wl
         /\ c.sub = b.sub /\ c.pend = b.pend /\ c.paid = b.paid /\ c.alloc = b.alloc
         /\ c.offered = b.offered /\ c.left = b.left /\ c.used = Larger(0, b.used - n)
BY DEF Good, Row, Restored

LEMMA CancelledFields ==
  ASSUME NEW b, Good(b), NEW n \in Nat
  PROVE  LET c == CancelledBooking(b, n) IN
         /\ c.status = "cancelled" /\ c.method = "free" /\ c.seats = 0 /\ c.wl = 0
         /\ c.sub = FALSE /\ c.pend = 0 /\ c.paid = 0 /\ c.alloc = b.alloc
         /\ c.offered = 0 /\ c.used = Larger(0, b.used - n)
<1> DEFINE r == Restored(b, n)
           g == Gone(r)
<1>1. Good(r) /\ r.alloc = b.alloc /\ r.used = Larger(0, b.used - n)
  BY RestoredIsGood, RestoredFields
<1> HIDE DEF r
<1>2. /\ Good(g) /\ g.status = "cancelled" /\ g.method = "free" /\ g.seats = 0 /\ g.wl = 0
      /\ g.sub = FALSE /\ g.pend = 0 /\ g.paid = 0 /\ g.alloc = r.alloc /\ g.used = r.used
  BY <1>1, GoneIsGood, GoneFields
<1> HIDE DEF g
<1>3. CancelledBooking(b, n) = Revoked(g)
  BY DEF CancelledBooking, g, r
<1> QED
  BY <1>1, <1>2, <1>3, RevokedFields

LEMMA SyncedFields ==
  ASSUME NEW b, Good(b)
  PROVE  LET c == Synced(b) IN
         /\ c.method = b.method /\ c.seats = b.seats /\ c.wl = b.wl
         /\ c.sub = b.sub /\ c.pend = b.pend /\ c.paid = b.paid /\ c.alloc = b.alloc
         /\ c.offered = b.offered /\ c.left = b.left /\ c.used = b.used
         /\ c.status = IF ~Main(b) THEN b.status
                       ELSE IF Live(b) = 0
                            THEN IF b.method = "subscription" THEN "confirmed" ELSE b.status
                            ELSE IF b.pend > 0 THEN "pending_payment" ELSE "confirmed"
BY DEF Good, Row, Synced

LEMMA OfferToFields ==
  ASSUME NEW b, Good(b), NEW n, n # 0
  PROVE  LET c == OfferTo(b, n) IN
         /\ c.status = b.status /\ c.method = b.method /\ c.seats = b.seats /\ c.wl = b.wl
         /\ c.sub = b.sub /\ c.pend = b.pend /\ c.paid = b.paid /\ c.alloc = b.alloc
         /\ c.offered = n /\ c.left = OfferTTL /\ c.used = b.used
BY DEF Good, Row, OfferTo

\* Growing in the roster: on the subscription, or by cash, or for nothing.
Grown(b, n, q, c) ==
  /\ c.method = b.method /\ c.seats = b.seats + n /\ c.wl = b.wl - q
  /\ c.sub = b.sub /\ c.paid = b.paid /\ c.alloc = b.alloc
  /\ c.offered = b.offered /\ c.left = b.left
  /\ \/ /\ Priced /\ b.method = "subscription"
        /\ c.status = b.status /\ c.pend = b.pend /\ c.used = b.used + n
     \/ /\ Priced /\ b.method # "free"
        /\ c.status = "pending_payment" /\ c.pend = b.pend + n /\ c.used = b.used
     \/ /\ ~(Priced /\ b.method # "free")
        /\ c.status = b.status /\ c.pend = b.pend /\ c.used = b.used

LEMMA AddMainSeatsFields ==
  ASSUME NEW p \in Players, NEW b, Good(b), Main(b), NEW n \in SeatCount, NEW q \in SeatCount,
         1 <= n, q <= b.wl, q <= n, b.seats + b.wl + n - q <= MaxSeats
  PROVE  Grown(b, n, q, AddMainSeats(p, b, n, q))
<1> DEFINE grown == [b EXCEPT !.seats = @ + n, !.wl = @ - q]
           paying == [grown EXCEPT !.pend = @ + n]
           spending == [grown EXCEPT !.used = @ + n]
           bySession == Priced /\ b.method = "subscription" /\ CanConsume(p, b, n)
           byCash == Priced /\ b.method # "free" /\ ~bySession
           c == AddMainSeats(p, b, n, q)
<1>1. /\ grown.status = b.status /\ grown.method = b.method /\ grown.seats = b.seats + n
      /\ grown.wl = b.wl - q /\ grown.sub = b.sub /\ grown.pend = b.pend
      /\ grown.paid = b.paid /\ grown.alloc = b.alloc /\ grown.offered = b.offered
      /\ grown.left = b.left /\ grown.used = b.used
  BY DEF Good, Row
<1>0. grown \in Row /\ paying \in Row
  <2>1. /\ b.seats \in SeatCount /\ b.wl \in SeatCount /\ b.pend \in SeatCount
        /\ b.paid \in SeatCount /\ b.pend + b.paid <= b.seats
    BY GoodNumbers DEF Good, Main, Live, TakenBy, Occupying
  <2>2. b.seats + n \in SeatCount /\ b.wl - q \in SeatCount /\ grown.pend + n \in SeatCount
    BY <1>1, <2>1, AssumptionsHold DEF SeatCount, Assumptions
  <2>3. grown \in Row
    BY <2>2, Zenon DEF Good, Row
  <2> HIDE DEF grown
  <2> QED BY <2>2, <2>3, Zenon DEF Row
<1>2. c = IF bySession THEN spending ELSE IF byCash THEN Synced(paying) ELSE grown
  BY Zenon DEF AddMainSeats
<1> HIDE DEF grown, c
<1>3. CASE bySession
  <2>1. c = spending
    BY <1>2, <1>3
  <2> QED BY <1>0, <1>1, <1>3, <2>1 DEF c, Row, Grown
<1>4. CASE byCash
  <2>1. c = Synced(paying)
    BY <1>2, <1>4
  <2>2. /\ paying.status = b.status /\ paying.method = b.method /\ paying.seats = b.seats + n
        /\ paying.wl = b.wl - q /\ paying.sub = b.sub /\ paying.pend = b.pend + n
        /\ paying.paid = b.paid /\ paying.alloc = b.alloc /\ paying.offered = b.offered
        /\ paying.left = b.left /\ paying.used = b.used
    BY <1>0, <1>1 DEF Row
  <2> HIDE DEF paying
  <2>3. paying.pend > 0 /\ paying.pend + paying.paid # 0 /\ Main(paying)
    BY <2>2, GoodNumbers, AssumptionsHold DEF Main, SeatCount, Assumptions
  <2>4. Synced(paying) = [paying EXCEPT !.status = "pending_payment"]
    BY <2>3 DEF Synced, Live
  <2> QED BY <1>0, <1>4, <2>1, <2>2, <2>4 DEF c, Row, Grown
<1>5. CASE ~bySession /\ ~byCash
  <2>1. c = grown
    BY <1>2, <1>5
  <2> QED BY <1>1, <1>5, <2>1 DEF c, Grown
<1> QED BY <1>3, <1>4, <1>5

\* Leaving the queue: of a split, of a free event, on the subscription, by cash,
\* or with nothing to pay by.
Admitted(b, n, c) ==
  /\ c.seats = n /\ c.wl = b.seats - n /\ c.paid = b.paid /\ c.alloc = b.alloc
  /\ c.offered = b.offered /\ c.left = b.left
  /\ \/ /\ ~Priced /\ c.status \in {"pending_payment", "confirmed"}
        /\ c.method = b.method /\ c.sub = b.sub /\ c.pend = b.pend /\ c.used = b.used
     \/ /\ Priced /\ b.method = "subscription" /\ c.status = "confirmed"
        /\ c.method = b.method /\ c.sub = TRUE /\ c.pend = b.pend /\ c.used = b.used + n
     \/ /\ Priced /\ b.method = "free" /\ c.status = "pending_payment"
     \/ /\ Priced /\ c.status = "pending_payment"
        /\ c.method = "cash" /\ c.sub = b.sub /\ c.pend = n /\ c.used = b.used

LEMMA PromoteWaitingFields ==
  ASSUME NEW p \in Players, NEW b, Good(b), b.status = "waitlisted",
         NEW n \in SeatCount, 1 <= n, n <= b.seats, event.price \in Nat
  PROVE  Admitted(b, n, PromoteWaiting(p, b, n))
<1> DEFINE moved == [b EXCEPT !.seats = n, !.wl = b.seats - n]
           reserved == [moved EXCEPT !.status = "pending_payment"]
           confirmed == [moved EXCEPT !.status = "confirmed"]
           spending == [moved EXCEPT !.status = "confirmed", !.sub = TRUE, !.used = @ + n]
           paying == [moved EXCEPT !.status = "pending_payment", !.method = "cash", !.pend = n]
           bySession == b.method = "subscription" /\ CanConsume(p, b, n)
           c == PromoteWaiting(p, b, n)
<1>1. b.pend = 0 /\ b.paid = 0
  BY GoodNumbers, AssumptionsHold
     DEF Good, Main, Live, TakenBy, Occupying, SeatCount, Assumptions
<1>2. /\ moved.status = b.status /\ moved.method = b.method /\ moved.seats = n
      /\ moved.wl = b.seats - n /\ moved.sub = b.sub /\ moved.pend = 0
      /\ moved.paid = 0 /\ moved.alloc = b.alloc /\ moved.offered = b.offered
      /\ moved.left = b.left /\ moved.used = b.used
  BY <1>1 DEF Good, Row
<1>0. moved \in Row /\ paying \in Row
  <2>1. n \in SeatCount /\ b.seats - n \in SeatCount
    BY GoodNumbers, AssumptionsHold DEF SeatCount, Assumptions
  <2>2. moved \in Row
    BY <2>1, Zenon DEF Good, Row
  <2> HIDE DEF moved
  <2> QED BY <2>1, <2>2, Values, Zenon DEF Row
<1>3. c = IF PriceMode = "split" THEN reserved
          ELSE IF event.price = 0 THEN confirmed
          ELSE IF bySession THEN spending
          ELSE IF b.method = "free" THEN reserved
          ELSE Synced(paying)
  BY Zenon DEF PromoteWaiting
<1> HIDE DEF moved, c
<1>9. Priced <=> (PriceMode # "split" /\ event.price # 0)
  BY MoneyAssumption DEF Priced
<1>4. CASE c = reserved /\ PriceMode = "split"
  BY <1>0, <1>1, <1>2, <1>4, <1>9 DEF c, Row, Admitted
<1>5. CASE c = confirmed /\ event.price = 0
  BY <1>0, <1>1, <1>2, <1>5, <1>9 DEF c, Row, Admitted
<1>6. CASE PriceMode # "split" /\ event.price # 0 /\ bySession /\ c = spending
  BY <1>0, <1>1, <1>2, <1>6, <1>9 DEF c, Row, Admitted
<1>7. CASE PriceMode # "split" /\ event.price # 0 /\ b.method = "free" /\ c = reserved
  BY <1>0, <1>1, <1>2, <1>7, <1>9 DEF c, Row, Admitted
<1>8. CASE PriceMode # "split" /\ event.price # 0 /\ c = Synced(paying)
  <2>2. /\ paying.status = "pending_payment" /\ paying.method = "cash" /\ paying.seats = n
        /\ paying.wl = b.seats - n /\ paying.sub = b.sub /\ paying.pend = n
        /\ paying.paid = 0 /\ paying.alloc = b.alloc /\ paying.offered = b.offered
        /\ paying.left = b.left /\ paying.used = b.used
    BY <1>0, <1>2 DEF Row
  <2> HIDE DEF paying
  <2>3. paying.pend > 0 /\ paying.pend + paying.paid # 0 /\ Main(paying)
    BY <2>2, AssumptionsHold DEF Main, SeatCount, Assumptions
  <2>4. Synced(paying) = [paying EXCEPT !.status = "pending_payment"]
    BY <2>3 DEF Synced, Live
  <2> QED BY <1>0, <1>1, <1>8, <1>9, <2>2, <2>4 DEF c, Row, Admitted
<1> QED BY <1>3, <1>4, <1>5, <1>6, <1>7, <1>8

\* A new booking: all of it in the queue, or main seats in the roster.
Placed(b, main, queue, m, c) ==
  /\ c.method = (IF PriceMode = "fixed" /\ event.price = 0 THEN "free" ELSE m)
  /\ c.paid = 0 /\ c.alloc = b.alloc /\ c.offered = b.offered /\ c.left = b.left
  /\ \/ /\ main = 0 /\ c.status = "waitlisted" /\ c.seats = queue /\ c.wl = 0
        /\ c.sub = b.sub /\ c.pend = 0 /\ c.used = b.used
     \/ /\ main # 0 /\ ~Priced /\ c.status \in {"pending_payment", "confirmed"}
        /\ c.seats = main /\ c.wl = queue
        /\ c.sub = b.sub /\ c.pend = 0 /\ c.used = b.used
     \/ /\ main # 0 /\ Priced /\ m = "subscription" /\ c.status = "confirmed"
        /\ c.seats = main /\ c.wl = queue
        /\ c.sub = TRUE /\ c.pend = 0 /\ c.used = b.used + main
     \/ /\ main # 0 /\ Priced /\ m = "cash" /\ c.status = "pending_payment"
        /\ c.seats = main /\ c.wl = queue
        /\ c.sub = b.sub /\ c.pend = main /\ c.used = b.used

LEMMA NewBookingFields ==
  ASSUME NEW b, Good(b), ~Active(b), NEW main \in SeatCount, NEW queue \in SeatCount,
         main + queue \in 1 .. MaxSeats, NEW m \in {"cash", "subscription"},
         event.price \in Nat, PriceMode = "split" => m = "cash"
  PROVE  Placed(b, main, queue, m, NewBooking(b, main, queue, m))
<1> DEFINE placed == [b EXCEPT
             !.method = IF PriceMode = "fixed" /\ event.price = 0 THEN "free" ELSE m,
             !.seats = IF main = 0 THEN queue ELSE main, !.wl = IF main = 0 THEN 0 ELSE queue]
           c == NewBooking(b, main, queue, m)
<1>1. b.pend = 0 /\ b.paid = 0
  BY GoodNumbers, AssumptionsHold
     DEF Good, Main, Live, TakenBy, Occupying, Active, SeatCount, Assumptions
<1>2. placed \in Row
  <2>1. /\ (IF PriceMode = "fixed" /\ event.price = 0 THEN "free" ELSE m)
             \in {"free", "cash", "subscription"}
        /\ (IF main = 0 THEN queue ELSE main) \in SeatCount
        /\ (IF main = 0 THEN 0 ELSE queue) \in SeatCount
    BY Values
  <2> QED BY <2>1, Zenon DEF Good, Row
<1>3. /\ placed.method = (IF PriceMode = "fixed" /\ event.price = 0 THEN "free" ELSE m)
      /\ placed.seats = (IF main = 0 THEN queue ELSE main)
      /\ placed.wl = (IF main = 0 THEN 0 ELSE queue)
      /\ placed.sub = b.sub /\ placed.pend = 0 /\ placed.paid = 0 /\ placed.used = b.used
      /\ placed.alloc = b.alloc /\ placed.left = b.left /\ placed.offered = b.offered
  BY <1>1 DEF Good, Row
<1>4. Priced <=> (PriceMode # "split" /\ event.price # 0)
  BY MoneyAssumption DEF Priced
<1>5. c = IF main = 0 THEN [placed EXCEPT !.status = "waitlisted"]
          ELSE IF PriceMode = "split" THEN [placed EXCEPT !.status = "pending_payment"]
          ELSE IF event.price = 0 THEN [placed EXCEPT !.status = "confirmed"]
          ELSE IF m = "subscription"
               THEN [placed EXCEPT !.status = "confirmed", !.sub = TRUE, !.used = @ + main]
          ELSE [placed EXCEPT !.status = "pending_payment", !.pend = main]
  BY Zenon DEF NewBooking
<1> HIDE DEF placed, c
<1>6. CASE main = 0
  <2>1. c = [placed EXCEPT !.status = "waitlisted"]
    BY <1>5, <1>6
  <2> QED BY <1>2, <1>3, <1>6, <2>1 DEF Row, c, Placed
<1>7. CASE main # 0 /\ PriceMode = "split"
  <2>1. c = [placed EXCEPT !.status = "pending_payment"]
    BY <1>5, <1>7
  <2> QED BY <1>2, <1>3, <1>4, <1>7, <2>1 DEF Row, c, Placed
<1>8. CASE main # 0 /\ PriceMode # "split" /\ event.price = 0
  <2>1. c = [placed EXCEPT !.status = "confirmed"]
    BY <1>5, <1>8
  <2> QED BY <1>2, <1>3, <1>4, <1>8, <2>1 DEF Row, c, Placed
<1>9. CASE main # 0 /\ PriceMode # "split" /\ event.price # 0 /\ m = "subscription"
  <2>1. c = [placed EXCEPT !.status = "confirmed", !.sub = TRUE, !.used = @ + main]
    BY <1>5, <1>9
  <2> QED BY <1>2, <1>3, <1>4, <1>9, <2>1 DEF Row, c, Placed
<1>10. CASE main # 0 /\ PriceMode # "split" /\ event.price # 0 /\ m # "subscription"
  <2>1. c = [placed EXCEPT !.status = "pending_payment", !.pend = main]
    BY <1>5, <1>10
  <2> QED BY <1>2, <1>3, <1>4, <1>10, <2>1 DEF Row, c, Placed
<1> QED BY <1>6, <1>7, <1>8, <1>9, <1>10

\* Fewer seats: for a request in the queue, or m off the roster and q off the
\* queue, restore of them given back as sessions and the rest off the money.
LEMMA LessenedFields ==
  ASSUME NEW b, Good(b), NEW c, Lessened(b, c)
  PROVE  /\ c.status = b.status /\ c.method = b.method /\ c.sub = b.sub /\ c.alloc = b.alloc
         /\ c.offered = b.offered /\ c.left = b.left
         /\ \/ /\ b.status = "waitlisted"
               /\ c.seats <= b.seats /\ c.wl = 0 /\ c.pend = 0 /\ c.paid = 0 /\ c.used = b.used
            \/ /\ Main(b)
               /\ \E m, q, restore \in SeatCount :
                    /\ restore = Smaller(m - Smaller(m, b.pend), SubscriptionSeats(b))
                    /\ m < b.seats /\ q <= b.wl
                    /\ c.seats = b.seats - m /\ c.wl = b.wl - q
                    /\ c.pend = b.pend - Smaller(m - restore, b.pend)
                    /\ c.paid = b.paid - Smaller(m - restore - Smaller(m - restore, b.pend), b.paid)
                    /\ c.used = Larger(0, b.used - restore)
<1>1. CASE b.status = "waitlisted" /\ ~Main(b)
  <2>1. PICK target \in 1 .. MaxSeats :
          /\ target <= b.seats
          /\ c = [ReleaseSeats(Restored(b, 0), 0)
                    EXCEPT !.seats = target, !.wl = Restored(b, 0).wl - 0]
    BY <1>1, Zenon DEF Lessened
  <2>2. b.pend = 0 /\ b.paid = 0 /\ b.wl = 0 /\ b.used \in Nat
    BY <1>1, GoodNumbers, AssumptionsHold
       DEF Good, Live, TakenBy, Occupying, SeatCount, Assumptions
  <2> DEFINE r == Restored(b, 0)
  <2>3. /\ r \in Row /\ r.pend = 0 /\ r.paid = 0 /\ r.wl = 0 /\ r.used = b.used
        /\ r.status = b.status /\ r.method = b.method /\ r.seats = b.seats /\ r.sub = b.sub
        /\ r.alloc = b.alloc /\ r.offered = b.offered /\ r.left = b.left
    <3>1. Larger(0, b.used - 0) = b.used /\ 0 \in Nat
      BY <2>2 DEF Larger
    <3>2. Good(r)
      BY <3>1, RestoredIsGood
    <3> QED BY <2>2, <3>1, <3>2, RestoredFields DEF Good
  <2> HIDE DEF r
  <2>4. c = [ReleaseSeats(r, 0) EXCEPT !.seats = target, !.wl = r.wl - 0]
    BY <2>1 DEF r
  <2>5. /\ c.status = r.status /\ c.method = r.method /\ c.sub = r.sub /\ c.alloc = r.alloc
        /\ c.offered = r.offered /\ c.left = r.left /\ c.used = r.used
        /\ c.seats = target /\ c.wl = 0 /\ c.pend = 0 /\ c.paid = 0
    BY <2>3, <2>4 DEF ReleaseSeats, Smaller, Row
  <2> QED
    BY <1>1, <2>1, <2>3, <2>5
<1>2. CASE Main(b)
  <2>1. PICK m \in SeatCount, q \in SeatCount :
          LET restore == Smaller(m - Smaller(m, b.pend), SubscriptionSeats(b)) IN
          /\ m < b.seats /\ q <= b.wl /\ restore \in SeatCount
          /\ m - restore \in SeatCount /\ m - restore <= m
          /\ c = FewerSeats(Restored(b, restore), m, q, m - restore)
    BY <1>2 DEF Lessened, Main
  <2> DEFINE restore == Smaller(m - Smaller(m, b.pend), SubscriptionSeats(b))
             r == Restored(b, restore)
             n == m - restore
  <2>2. restore \in SeatCount /\ c = FewerSeats(r, m, q, n) /\ m < b.seats /\ q <= b.wl
    BY <2>1
  <2>3. restore = Smaller(m - Smaller(m, b.pend), SubscriptionSeats(b))
    OBVIOUS
  <2> HIDE DEF restore
  <2>4. /\ r \in Row /\ r.pend = b.pend /\ r.paid = b.paid /\ r.wl = b.wl
        /\ r.used = Larger(0, b.used - restore)
        /\ r.status = b.status /\ r.method = b.method /\ r.seats = b.seats /\ r.sub = b.sub
        /\ r.alloc = b.alloc /\ r.offered = b.offered /\ r.left = b.left
    <3>1. restore \in Nat
      BY <2>2 DEF SeatCount
    <3> QED BY <3>1, RestoredIsGood, RestoredFields DEF Good
  <2> HIDE DEF r, n
  <2>5. /\ c.status = r.status /\ c.method = r.method /\ c.sub = r.sub /\ c.alloc = r.alloc
        /\ c.offered = r.offered /\ c.left = r.left /\ c.used = r.used
        /\ c.seats = r.seats - m /\ c.wl = r.wl - q
        /\ c.pend = r.pend - Smaller(n, r.pend)
        /\ c.paid = r.paid - Smaller(n - Smaller(n, r.pend), r.paid)
    BY <2>2, <2>4 DEF FewerSeats, ReleaseSeats, Row
  <2> QED
    BY <1>2, <2>2, <2>3, <2>4, <2>5, Zenon DEF n
<1> QED
  BY <1>1, <1>2 DEF Lessened, Main

-----------------------------------------------------------------------------
(* The moves of one booking.                                                *)

\* A lapsed offer takes the queued seats of its booking.
Lapse(b) ==
  IF b.offered = 0 \/ b.left > 0 THEN b
  ELSE Revoked(IF b.status = "waitlisted" THEN Gone(b) ELSE [b EXCEPT !.wl = 0])

\* An offer to one who waits, and seats for one who waits.
Offered(b, c) ==
  /\ CanOffer /\ Waits(b)
  /\ \E n \in 1 .. MaxSeats : n <= Queued(b) /\ c = OfferTo(b, n)

Seated(p, b, c) ==
  /\ event.status = "published" /\ ~event.settled /\ Waits(b)
  /\ \E n \in 1 .. MaxSeats : n <= Queued(b) /\ c = Promoted(p, b, n)

\* What lapses, offers and freed seats make of a booking.
Moved(p, b, c) == \E x \in {b, Lapse(b)} : c = x \/ Offered(x, c) \/ Seated(p, x, c)

\* What an operation on a booking itself makes of it.
Joined(p, b, c) ==
  /\ event.status = "published" /\ ~event.settled /\ ~Active(b)
  /\ \E main, queue \in SeatCount, m \in Methods :
       /\ main + queue \in 1 .. MaxSeats
       /\ PriceMode = "split" => m = "cash"
       /\ (Priced /\ m = "subscription" /\ main > 0) => CanConsume(p, b, main)
       /\ c = NewBooking(b, main, queue, m)

Enlarged(p, b, c) ==
  /\ event.status = "published" /\ ~event.settled /\ Main(b) /\ b.wl = 0
  /\ \E n \in 1 .. MaxSeats : b.seats + n <= MaxSeats /\ c = AddMainSeats(p, b, n, 0)

Reduced(b, c) ==
  /\ ~event.settled
  /\ \E less : /\ Good(less) /\ Lessened(b, less)
               /\ \/ c = Revoked(Synced(less))
                  \/ /\ c = Synced(less)
                     /\ ~(b.offered > IF b.status = "waitlisted" THEN less.seats ELSE less.wl)

Left(b, c) ==
  /\ b.status = "waitlisted" \/ Main(b)
  /\ c = CancelledBooking(b, IF Main(b) THEN SubscriptionSeats(b) ELSE 0)

Accepted(p, b, c) ==
  /\ event.status = "published" /\ ~event.settled
  /\ b.offered > 0 /\ b.offered <= Queued(b)
  /\ c = Revoked(Promoted(p, b, b.offered))

Marked(b, c) ==
  /\ event.phase = "started" /\ event.status # "cancelled"
  /\ PriceMode = "split" => event.settled
  /\ b.status \in {"confirmed", "attended", "no_show"}
  /\ \E mark \in {"attended", "no_show"} : c = [b EXCEPT !.status = mark, !.wl = 0]

Paid(b, c) == b.pend > 0 /\ c = Synced([b EXCEPT !.paid = @ + b.pend, !.pend = 0])

Rejected(b, c) ==
  LET kept == b.paid + SubscriptionSeats(b) IN
  /\ b.pend > 0 /\ Main(b)
  /\ \/ kept > 0 /\ c = Synced([b EXCEPT !.pend = 0, !.seats = kept])
     \/ kept = 0 /\ event.phase = "started" /\ c = Gone(b)
     \/ kept = 0 /\ c = CancelledBooking(b, 0)

Own(p, b, c) ==
  \/ Joined(p, b, c)
  \/ Enlarged(p, b, c)
  \/ Reduced(b, c)
  \/ Left(b, c)
  \/ Accepted(p, b, c)
  \/ Marked(b, c)
  \/ Paid(b, c)
  \/ Rejected(b, c)

\* From before an operation to after it.
Trip(p, b, c) ==
  \E x, y : Moved(p, b, x) /\ (y = x \/ Own(p, x, y)) /\ Moved(p, y, c)

LEMMA LapseFields ==
  ASSUME NEW b, Good(b)
  PROVE  LET c == Lapse(b) IN
         /\ Good(c)
         /\ \/ c = b
            \/ /\ b.offered # 0 /\ c.offered = 0 /\ c.alloc = b.alloc /\ c.used = b.used
               /\ \/ /\ b.status = "waitlisted" /\ c.status = "cancelled" /\ c.method = "free"
                     /\ c.seats = 0 /\ c.wl = 0 /\ c.sub = FALSE /\ c.pend = 0 /\ c.paid = 0
                  \/ /\ b.status # "waitlisted" /\ c.status = b.status /\ c.method = b.method
                     /\ c.seats = b.seats /\ c.wl = 0 /\ c.sub = b.sub
                     /\ c.pend = b.pend /\ c.paid = b.paid
<1> DEFINE out == [b EXCEPT !.wl = 0]
           g == Gone(b)
<1>1. /\ out \in Row
  BY Values, Zenon DEF Good, Row
<1>2. /\ out.status = b.status /\ out.method = b.method /\ out.seats = b.seats /\ out.wl = 0
      /\ out.sub = b.sub /\ out.pend = b.pend /\ out.paid = b.paid /\ out.alloc = b.alloc
      /\ out.used = b.used
  BY DEF Good, Row
<1>3. Lapse(b) = b \/ (b.offered # 0 /\ b.status = "waitlisted" /\ Lapse(b) = Revoked(g))
      \/ (b.offered # 0 /\ b.status # "waitlisted" /\ Lapse(b) = Revoked(out))
  BY DEF Lapse
<1> HIDE DEF out
<1>4. Good(out)
  <2>1. b.seats \in SeatCount /\ b.wl \in SeatCount /\ b.seats + b.wl <= MaxSeats
    BY GoodNumbers DEF Good
  <2>2. b.seats + 0 <= MaxSeats
    BY <2>1, AssumptionsHold DEF SeatCount, Assumptions
  <2> QED
    BY <1>1, <1>2, <2>2 DEF Good, Active, Live, TakenBy, Occupying, Main
<1>5. /\ Good(g) /\ g.status = "cancelled" /\ g.method = "free" /\ g.seats = 0 /\ g.wl = 0
      /\ g.sub = FALSE /\ g.pend = 0 /\ g.paid = 0 /\ g.alloc = b.alloc /\ g.used = b.used
  BY GoneIsGood, GoneFields
<1> HIDE DEF g
<1>6. CASE Lapse(b) = b
  BY <1>6
<1>7. CASE b.offered # 0 /\ b.status = "waitlisted" /\ Lapse(b) = Revoked(g)
  BY <1>5, <1>7, RevokedIsGood, RevokedFields
<1>8. CASE b.offered # 0 /\ b.status # "waitlisted" /\ Lapse(b) = Revoked(out)
  BY <1>2, <1>4, <1>8, RevokedIsGood, RevokedFields
<1> QED BY <1>3, <1>6, <1>7, <1>8

LEMMA MovedIsGood ==
  ASSUME NEW p \in Players, NEW b, Good(b), NEW c, Moved(p, b, c)
  PROVE  Good(c)
<1>1. PICK x \in {b, Lapse(b)} : c = x \/ Offered(x, c) \/ Seated(p, x, c)
  BY DEF Moved
<1>2. Good(x)
  BY <1>1, LapseFields
<1>3. 1 .. MaxSeats \subseteq SeatCount
  BY DEF SeatCount
<1>4. CASE Offered(x, c)
  BY <1>2, <1>3, <1>4, OfferToIsGood DEF Offered, Waits
<1>5. CASE Seated(p, x, c)
  BY <1>2, <1>3, <1>5, PromotedIsGood DEF Seated
<1> QED BY <1>1, <1>2, <1>4, <1>5

LEMMA OffersMove ==
  ASSUME NEW rows, NEW after \in OfferFreeSeats(rows), NEW p \in Players
  PROVE  after[p] = rows[p] \/ Offered(rows[p], after[p])
<1>1. CASE ~CanOffer
  BY <1>1 DEF OfferFreeSeats
<1>2. CASE CanOffer
  <2>1. PICK got \in Allotments(rows, Free(rows)) :
          after = [q \in Players |-> OfferTo(rows[q], got[q])]
    BY <1>2 DEF OfferFreeSeats
  <2>2. after[p] = OfferTo(rows[p], got[p])
    BY <2>1
  <2>3. got[p] \in SeatCount /\ got[p] <= IF Waits(rows[p]) THEN Queued(rows[p]) ELSE 0
    BY DEF Allotments
  <2>4. CASE got[p] = 0
    BY <2>2, <2>4 DEF OfferTo
  <2>5. CASE got[p] # 0
    <3>1. got[p] \in 1 .. MaxSeats
      BY <2>3, <2>5, AssumptionsHold DEF SeatCount, Assumptions
    <3>2. Waits(rows[p]) /\ got[p] <= Queued(rows[p])
      BY <2>3, <3>1
    <3> QED BY <1>2, <2>2, <3>1, <3>2 DEF Offered
  <2> QED BY <2>4, <2>5
<1> QED BY <1>1, <1>2

LEMMA SettleMoves ==
  ASSUME NEW rows, NEW after \in SettleQueueBeforeTaking(rows), NEW p \in Players
  PROVE  Moved(p, rows[p], after[p])
<1>1. Expired(rows)[p] = Lapse(rows[p])
  BY DEF Expired, Lapse
<1>2. after \in OfferFreeSeats(Expired(rows)) \/ after = Expired(rows)
  BY DEF SettleQueueBeforeTaking
<1> QED BY <1>1, <1>2, OffersMove DEF Moved

LEMMA PromoteMoves ==
  ASSUME NEW rows, NEW after \in PromoteFromWaitlist(rows), NEW p \in Players
  PROVE  Moved(p, rows[p], after[p])
<1> DEFINE now == Expired(rows)
<1>1. now[p] = Lapse(rows[p])
  BY DEF Expired, Lapse
<1>2. \/ after = rows
      \/ after \in OfferFreeSeats(now)
      \/ /\ event.status = "published" /\ ~event.settled
         /\ \E got \in Allotments(now, Free(now)) :
              after = [q \in Players |-> Promoted(q, now[q], got[q])]
  BY DEF PromoteFromWaitlist
<1> HIDE DEF now
<1>3. CASE after = rows
  BY <1>3 DEF Moved
<1>4. CASE after \in OfferFreeSeats(now)
  BY <1>1, <1>4, OffersMove DEF Moved
<1>5. CASE /\ event.status = "published" /\ ~event.settled
           /\ \E got \in Allotments(now, Free(now)) :
                after = [q \in Players |-> Promoted(q, now[q], got[q])]
  <2>1. PICK got \in Allotments(now, Free(now)) :
          after = [q \in Players |-> Promoted(q, now[q], got[q])]
    BY <1>5
  <2>2. after[p] = Promoted(p, now[p], got[p])
    BY <2>1
  <2>3. got[p] \in SeatCount /\ got[p] <= IF Waits(now[p]) THEN Queued(now[p]) ELSE 0
    BY DEF Allotments
  <2>4. CASE got[p] = 0
    <3>1. after[p] = now[p]
      BY <2>2, <2>4 DEF Promoted
    <3> QED BY <1>1, <3>1 DEF Moved
  <2>5. CASE got[p] # 0
    <3>1. got[p] \in 1 .. MaxSeats
      BY <2>3, <2>5, AssumptionsHold DEF SeatCount, Assumptions
    <3>2. Waits(now[p]) /\ got[p] <= Queued(now[p])
      BY <2>3, <3>1
    <3>3. Seated(p, now[p], after[p])
      BY <1>5, <2>2, <3>1, <3>2 DEF Seated
    <3> QED BY <1>1, <3>3 DEF Moved
  <2> QED BY <2>4, <2>5
<1> QED BY <1>2, <1>3, <1>4, <1>5

LEMMA OwnIsGood ==
  ASSUME NEW p \in Players, NEW b, Good(b), NEW c, Own(p, b, c), event.price \in Nat
  PROVE  Good(c)
<1>1. 1 .. MaxSeats \subseteq SeatCount /\ 0 \in SeatCount /\ Methods \subseteq {"cash", "subscription"}
  BY MoneyAssumption, Values DEF SeatCount
<1>2. /\ b.seats \in SeatCount /\ b.wl \in SeatCount /\ b.pend \in SeatCount
      /\ b.paid \in SeatCount /\ b.offered \in SeatCount
      /\ SubscriptionSeats(b) \in SeatCount
      /\ SubscriptionSeats(b) <= Larger(0, b.seats - Live(b))
  BY GoodNumbers, SubscriptionSeatsType
<1>3. CASE Joined(p, b, c)
  <2>1. PICK main \in SeatCount, queue \in SeatCount, m \in Methods :
          /\ main + queue \in 1 .. MaxSeats
          /\ PriceMode = "split" => m = "cash"
          /\ (Priced /\ m = "subscription" /\ main > 0) => CanConsume(p, b, main)
          /\ c = NewBooking(b, main, queue, m)
    BY <1>3 DEF Joined
  <2>2. ~Active(b) /\ m \in {"cash", "subscription"}
    BY <1>1, <1>3 DEF Joined
  <2> QED BY <2>1, <2>2, NewBookingIsGood
<1>4. CASE Enlarged(p, b, c)
  <2>1. PICK n \in 1 .. MaxSeats : b.seats + n <= MaxSeats /\ c = AddMainSeats(p, b, n, 0)
    BY <1>4 DEF Enlarged
  <2>2. Main(b) /\ b.wl = 0 /\ n \in SeatCount
    BY <1>1, <1>4 DEF Enlarged
  <2>3. 0 <= b.wl /\ 0 <= n /\ b.seats + b.wl + n - 0 <= MaxSeats
    BY <1>2, <2>1, <2>2, AssumptionsHold DEF SeatCount, Assumptions
  <2> QED BY <1>1, <2>1, <2>2, <2>3, AddMainSeatsIsGood
<1>5. CASE Reduced(b, c)
  BY <1>5, SyncedIsGood, RevokedIsGood DEF Reduced
<1>6. CASE Left(b, c)
  BY <1>2, <1>6, CancelledBookingIsGood DEF Left, SeatCount
<1>7. CASE Accepted(p, b, c)
  BY <1>2, <1>7, PromotedIsGood, RevokedIsGood DEF Accepted
<1>8. CASE Marked(b, c)
  <2>1. Occupying(b)
    BY <1>8 DEF Marked, Occupying, Main
  <2>2. PICK mark \in {"attended", "no_show"} : c = [b EXCEPT !.status = mark, !.wl = 0]
    BY <1>8 DEF Marked
  <2>3. Good([b EXCEPT !.status = mark, !.wl = 0])
    BY <2>1, MarkedIsGood
  <2> QED BY <2>2, <2>3
<1>9. CASE Paid(b, c)
  BY <1>9, PaidIsGood, SyncedIsGood DEF Paid
<1>10. CASE Rejected(b, c)
  <2> DEFINE kept == b.paid + SubscriptionSeats(b)
             less == [b EXCEPT !.pend = 0, !.seats = kept]
  <2>1. Main(b) /\ b.pend + b.paid <= b.seats
    BY <1>10 DEF Rejected, Good, TakenBy, Occupying, Live
  <2>2. kept \in SeatCount /\ kept <= b.seats /\ b.paid <= kept
    BY <1>2, <2>1, AssumptionsHold DEF Larger, Live, SeatCount, Assumptions
  <2>3. \/ kept > 0 /\ c = Synced(less)
        \/ c = Gone(b)
        \/ c = CancelledBooking(b, 0)
    BY <1>10 DEF Rejected
  <2> HIDE DEF kept
  <2>4. kept > 0 => Good(less)
    <3> SUFFICES ASSUME kept > 0 PROVE Good(less)
      OBVIOUS
    <3>1. 1 <= kept
      BY <2>2 DEF SeatCount
    <3> QED BY <2>1, <2>2, <3>1, KeptIsGood
  <2> HIDE DEF less
  <2> QED BY <2>3, <2>4, SyncedIsGood, GoneIsGood, CancelledBookingIsGood
<1> QED
  BY <1>3, <1>4, <1>5, <1>6, <1>7, <1>8, <1>9, <1>10 DEF Own

-----------------------------------------------------------------------------
(* Every operation is a trip of every booking.                              *)

LEMMA MovesNowhere ==
  ASSUME NEW p, NEW b
  PROVE  Moved(p, b, b)
BY DEF Moved

\* What the queue is owed, then a booking of its own accord.
LEMMA SettledTrip ==
  ASSUME Inv, NEW p \in Players, NEW rows \in SettleQueueBeforeTaking(row),
         NEW c, Own(p, rows[p], c), row' = [rows EXCEPT ![p] = c]
  PROVE  \A q \in Players : Trip(q, row[q], row'[q])
<1> SUFFICES ASSUME NEW q \in Players PROVE Trip(q, row[q], row'[q])
  OBVIOUS
<1>1. rows \in [Players -> Row]
  BY InvFacts, SettleQueueFits DEF Inv, Fits, GoodRows
<1>2. Moved(q, row[q], rows[q])
  BY SettleMoves
<1>3. row'[q] = rows[q] \/ Own(q, rows[q], row'[q])
  BY <1>1
<1>4. Moved(q, row'[q], row'[q])
  BY MovesNowhere
<1> QED BY <1>2, <1>3, <1>4 DEF Trip

\* A booking of its own accord, then what freed seats make of the queue.
LEMMA ServedTrip ==
  ASSUME Inv, NEW p \in Players, NEW c, Own(p, row[p], c), NEW after, row' = after,
         \/ after = [row EXCEPT ![p] = c]
         \/ after \in PromoteFromWaitlist([row EXCEPT ![p] = c])
  PROVE  \A q \in Players : Trip(q, row[q], row'[q])
<1> SUFFICES ASSUME NEW q \in Players PROVE Trip(q, row[q], row'[q])
  OBVIOUS
<1> DEFINE mid == [row EXCEPT ![p] = c]
<1>1. Moved(q, row[q], row[q])
  BY MovesNowhere
<1>2. mid[q] = row[q] \/ Own(q, row[q], mid[q])
  BY DEF Inv, Fits, GoodRows
<1> HIDE DEF mid
<1>3. after = mid \/ after \in PromoteFromWaitlist(mid)
  BY DEF mid
<1>4. Moved(q, mid[q], after[q])
  BY <1>3, MovesNowhere, PromoteMoves
<1> QED BY <1>1, <1>2, <1>4 DEF Trip

\* The operations that write bookings and leave the event as it is.
Operation ==
  \/ \E p \in Players :
       \/ \E n \in 1 .. MaxSeats, m \in Methods : Book(p, n, m)
       \/ \E n \in 1 .. MaxSeats : IncreaseSeats(p, n) \/ DecreaseSeats(p, n)
       \/ CancelBooking(p)
       \/ AcceptOffer(p)
       \/ \E mark \in {"attended", "no_show"} : BulkAttendance(p, mark)
       \/ ConfirmPayment(p)
       \/ RejectPayment(p)
  \/ ExpireDueOffers
  \/ OfferFreeSeatsSweep

LEMMA BookTrips ==
  ASSUME Inv, NEW p \in Players, NEW n \in 1 .. MaxSeats, NEW m \in Methods, Book(p, n, m)
  PROVE  \A q \in Players : Trip(q, row[q], row'[q])
<1>1. PICK rows \in SettleQueueBeforeTaking(row), later \in Later(p) :
        LET main == Smaller(Free(rows), n)
            booked == [rows EXCEPT ![p] = NewBooking(@, main, n - main, m)]
        IN  /\ (Priced /\ m = "subscription" /\ main > 0) => CanConsume(p, rows[p], main)
            /\ row' = booked
  BY DEF Book
<1> DEFINE main == Smaller(Free(rows), n)
<1>2. /\ ~Active(row[p]) /\ event.status = "published" /\ ~event.settled
      /\ PriceMode = "split" => m = "cash"
  BY DEF Book, Open
<1>3. Fits(rows) /\ ~Active(rows[p])
  <2>1. Fits(rows) /\ Untouched(row[p], rows[p])
    BY InvFacts, SettleQueueFits DEF Inv
  <2> QED BY <1>2, <2>1 DEF Untouched
<1>4. main \in SeatCount /\ n - main \in SeatCount /\ main + (n - main) \in 1 .. MaxSeats
  <2>1. Reserved(rows) \in Nat /\ event.capacity \in Nat /\ Reserved(rows) <= event.capacity
    BY <1>3, ReservedNat, InvFacts DEF Fits
  <2>2. Free(rows) = event.capacity - Reserved(rows)
    BY <2>1 DEF Free, Larger
  <2> QED
    BY <2>1, <2>2, AssumptionsHold DEF Smaller, SeatCount, Assumptions
<1>5. /\ (Priced /\ m = "subscription" /\ main > 0) => CanConsume(p, rows[p], main)
      /\ row' = [rows EXCEPT ![p] = NewBooking(rows[p], main, n - main, m)]
  BY <1>1
<1> HIDE DEF main
<1>6. Joined(p, rows[p], NewBooking(rows[p], main, n - main, m))
  BY <1>2, <1>3, <1>4, <1>5 DEF Joined
<1> QED
  BY <1>5, <1>6, SettledTrip DEF Own

LEMMA IncreaseSeatsTrips ==
  ASSUME Inv, NEW p \in Players, NEW target \in 1 .. MaxSeats, IncreaseSeats(p, target)
  PROVE  \A q \in Players : Trip(q, row[q], row'[q])
<1> DEFINE add == target - row[p].seats
<1>1. PICK rows \in SettleQueueBeforeTaking(row) :
        row' = [rows EXCEPT ![p] = AddMainSeats(p, rows[p], add, 0)]
  BY DEF IncreaseSeats, Roster, Tables
<1>2. Main(row[p]) /\ row[p].wl = 0 /\ add > 0 /\ event.status = "published" /\ ~event.settled
  BY DEF IncreaseSeats, Open
<1>3. Untouched(row[p], rows[p]) /\ Good(rows[p]) /\ Good(row[p])
  BY InvFacts, SettleQueueFits DEF Inv, Fits, GoodRows
<1>4. /\ Main(rows[p]) /\ rows[p].seats = row[p].seats /\ rows[p].wl = 0
      /\ row[p].seats \in SeatCount
  <2>1. rows[p].wl \in SeatCount /\ row[p].seats \in SeatCount
    BY <1>3, GoodNumbers
  <2> QED
    BY <1>2, <1>3, <2>1, AssumptionsHold DEF Untouched, Main, SeatCount, Assumptions
<1>5. add \in 1 .. MaxSeats /\ rows[p].seats + add <= MaxSeats
  BY <1>2, <1>4, AssumptionsHold DEF SeatCount, Assumptions
<1> HIDE DEF add
<1>6. Enlarged(p, rows[p], AddMainSeats(p, rows[p], add, 0))
  BY <1>2, <1>4, <1>5 DEF Enlarged
<1> QED
  BY <1>1, <1>6, SettledTrip DEF Own

LEMMA DecreaseSeatsTrips ==
  ASSUME Inv, NEW p \in Players, NEW target \in 1 .. MaxSeats, DecreaseSeats(p, target)
  PROVE  \A q \in Players : Trip(q, row[q], row'[q])
<1>1. PICK less, c, after :
           /\ Good(less) /\ Lessened(row[p], less)
           /\ \/ c = Revoked(Synced(less))
              \/ /\ c = Synced(less)
                 /\ ~(row[p].offered > IF row[p].status = "waitlisted" THEN less.seats ELSE less.wl)
           /\ Roster(after)
           /\ after = [row EXCEPT ![p] = c] \/ after \in PromoteFromWaitlist([row EXCEPT ![p] = c])
  BY DecreasedRow
<1>2. ~event.settled
  BY DEF DecreaseSeats
<1>3. Reduced(row[p], c)
  BY <1>1, <1>2 DEF Reduced
<1>4. row' = after
  BY <1>1 DEF Roster, Tables
<1> QED
  BY <1>1, <1>3, <1>4, ServedTrip DEF Own

LEMMA CancelBookingTrips ==
  ASSUME Inv, NEW p \in Players, CancelBooking(p)
  PROVE  \A q \in Players : Trip(q, row[q], row'[q])
<1> DEFINE c == CancelledBooking(row[p], IF Main(row[p]) THEN SubscriptionSeats(row[p]) ELSE 0)
<1>1. PICK after : /\ Roster(after)
                   /\ \/ after = [row EXCEPT ![p] = c]
                      \/ after \in PromoteFromWaitlist([row EXCEPT ![p] = c])
  BY DEF CancelBooking
<1>2. Left(row[p], c)
  BY DEF CancelBooking, Left
<1>3. row' = after
  BY <1>1 DEF Roster, Tables
<1> HIDE DEF c
<1> QED
  BY <1>1, <1>2, <1>3, ServedTrip DEF Own

LEMMA RejectPaymentTrips ==
  ASSUME Inv, NEW p \in Players, RejectPayment(p)
  PROVE  \A q \in Players : Trip(q, row[q], row'[q])
<1> DEFINE b == row[p]
           kept == b.paid + SubscriptionSeats(b)
           c == IF kept > 0 THEN Synced([b EXCEPT !.pend = 0, !.seats = kept])
                ELSE IF event.phase = "started" THEN Gone(b) ELSE CancelledBooking(b, 0)
           rows == [row EXCEPT ![p] = c]
<1>1. /\ Main(b) /\ b.pend > 0
      /\ \E after \in IF event.phase = "started" THEN {rows} ELSE PromoteFromWaitlist(rows) :
           Roster(after)
  BY Zenon DEF RejectPayment
<1>2. kept \in Nat
  <2>1. Good(b) /\ b.paid \in SeatCount
    BY InvFacts, GoodNumbers
  <2>2. SubscriptionSeats(b) \in SeatCount
    BY <2>1, SubscriptionSeatsType
  <2> QED BY <2>1, <2>2 DEF SeatCount
<1>3. Rejected(b, c)
  BY <1>1, <1>2 DEF Rejected
<1> HIDE DEF c
<1>4. PICK after : /\ Roster(after)
                   /\ after = rows \/ after \in PromoteFromWaitlist(rows)
  BY <1>1
<1>5. row' = after
  BY <1>4 DEF Roster, Tables
<1> QED
  BY <1>3, <1>4, <1>5, ServedTrip DEF Own

LEMMA SingleTrips ==
  ASSUME Inv, NEW p \in Players,
         \/ AcceptOffer(p)
         \/ ConfirmPayment(p)
         \/ \E mark \in {"attended", "no_show"} : BulkAttendance(p, mark)
  PROVE  \A q \in Players : Trip(q, row[q], row'[q])
<1>1. row \in [Players -> Row] /\ Good(row[p])
  BY InvFacts DEF Inv, TypeOK
<1>2. \E c : Own(p, row[p], c) /\ row' = [row EXCEPT ![p] = c]
  <2>1. CASE AcceptOffer(p)
    <3>1. row[p].offered \in SeatCount /\ Queued(row[p]) \in SeatCount
      BY <1>1, GoodNumbers
    <3>2. Accepted(p, row[p], Revoked(Promoted(p, row[p], row[p].offered)))
      BY <2>1, <3>1 DEF AcceptOffer, Accepted, SeatCount
    <3> QED BY <2>1, <3>2 DEF AcceptOffer, Roster, Tables, Own
  <2>2. CASE ConfirmPayment(p)
    BY <2>2 DEF ConfirmPayment, Roster, Tables, Own, Paid
  <2>3. CASE \E mark \in {"attended", "no_show"} : BulkAttendance(p, mark)
    BY <2>3 DEF BulkAttendance, Roster, Tables, Own, Marked
  <2> QED BY <2>1, <2>2, <2>3
<1> QED
  BY <1>2, ServedTrip

LEMMA SchedulerTrips ==
  ASSUME Inv, ExpireDueOffers \/ OfferFreeSeatsSweep
  PROVE  \A q \in Players : Trip(q, row[q], row'[q])
<1> SUFFICES ASSUME NEW q \in Players PROVE Trip(q, row[q], row'[q])
  OBVIOUS
<1>1. Expired(row)[q] = Lapse(row[q])
  BY DEF Expired, Lapse
<1>2. Moved(q, row[q], row'[q])
  <2>1. CASE row' \in OfferFreeSeats(row)
    BY <2>1, OffersMove DEF Moved
  <2>2. CASE row' \in OfferFreeSeats(Expired(row))
    BY <1>1, <2>2, OffersMove DEF Moved
  <2> QED BY <2>1, <2>2 DEF ExpireDueOffers, OfferFreeSeatsSweep, Roster, Tables
<1> QED BY <1>2, MovesNowhere DEF Trip

LEMMA Trips ==
  ASSUME Inv, Operation
  PROVE  event' = event /\ \A q \in Players : Trip(q, row[q], row'[q])
<1>1. event' = event
  <2>1. ASSUME NEW p \in Players, NEW n \in 1 .. MaxSeats
        PROVE  /\ \A m \in Methods : Book(p, n, m) => event' = event
               /\ IncreaseSeats(p, n) \/ DecreaseSeats(p, n) => event' = event
    <3>1. \A m \in Methods : Book(p, n, m) => event' = event
      BY DEF Book
    <3>2. IncreaseSeats(p, n) => event' = event
      BY DEF IncreaseSeats, Roster
    <3>3. DecreaseSeats(p, n) => event' = event
      <4>1. DecreaseSeats(p, n) => \E after : Roster(after)
        BY Zenon DEF DecreaseSeats
      <4> QED BY <4>1 DEF Roster
    <3> QED BY <3>1, <3>2, <3>3
  <2>2. \A p \in Players :
          /\ CancelBooking(p) => event' = event
          /\ AcceptOffer(p) => event' = event
          /\ \A mark \in {"attended", "no_show"} : BulkAttendance(p, mark) => event' = event
          /\ ConfirmPayment(p) => event' = event
          /\ RejectPayment(p) => event' = event
    BY Zenon DEF CancelBooking, AcceptOffer, BulkAttendance, ConfirmPayment, RejectPayment, Roster
  <2>3. ExpireDueOffers \/ OfferFreeSeatsSweep => event' = event
    BY Zenon DEF ExpireDueOffers, OfferFreeSeatsSweep, Roster
  <2> QED BY <2>1, <2>2, <2>3 DEF Operation
<1>2. \A q \in Players : Trip(q, row[q], row'[q])
  BY BookTrips, IncreaseSeatsTrips, DecreaseSeatsTrips, CancelBookingTrips, RejectPaymentTrips,
     SingleTrips, SchedulerTrips DEF Operation
<1> QED BY <1>1, <1>2

-----------------------------------------------------------------------------
(* What an operation on a booking itself writes, field by field.            *)

LEMMA PromotedCases ==
  ASSUME NEW p \in Players, NEW b, Good(b), NEW n \in 1 .. MaxSeats, n <= Queued(b)
  PROVE  /\ n \in SeatCount
         /\ \/ b.status = "waitlisted" /\ n <= b.seats /\ Promoted(p, b, n) = PromoteWaiting(p, b, n)
            \/ /\ Main(b) /\ b.status # "waitlisted" /\ n <= b.wl
               /\ b.seats + b.wl + n - n <= MaxSeats
               /\ Promoted(p, b, n) = AddMainSeats(p, b, n, n)
<1>1. n \in SeatCount /\ n # 0 /\ ~(n <= 0)
  BY DEF SeatCount
<1>2. CASE b.status = "waitlisted"
  BY <1>1, <1>2 DEF Queued, Promoted
<1>3. CASE b.status # "waitlisted"
  <2>1. Main(b) /\ n <= b.wl
    BY <1>1, <1>3 DEF Queued
  <2>2. b.seats + b.wl + n - n <= MaxSeats
    BY GoodNumbers, AssumptionsHold DEF Good, SeatCount, Assumptions
  <2> QED BY <1>1, <1>3, <2>1, <2>2 DEF Promoted
<1> QED BY <1>2, <1>3

LEMMA ReducedFields ==
  ASSUME NEW b, Good(b), NEW c, Reduced(b, c)
  PROVE  /\ c.method = b.method /\ c.sub = b.sub /\ c.alloc = b.alloc
         /\ \/ c.offered = 0
            \/ /\ c.offered = b.offered
               /\ ~(b.offered > IF b.status = "waitlisted" THEN c.seats ELSE c.wl)
         /\ \/ /\ b.status = "waitlisted" /\ c.status = "waitlisted"
               /\ c.seats <= b.seats /\ c.wl = 0 /\ c.pend = 0 /\ c.paid = 0 /\ c.used = b.used
            \/ /\ Main(b)
               /\ c.status = IF Live(c) = 0
                             THEN IF b.method = "subscription" THEN "confirmed" ELSE b.status
                             ELSE IF c.pend > 0 THEN "pending_payment" ELSE "confirmed"
               /\ \E m, q, restore \in SeatCount :
                    /\ restore = Smaller(m - Smaller(m, b.pend), SubscriptionSeats(b))
                    /\ m < b.seats /\ q <= b.wl
                    /\ c.seats = b.seats - m /\ c.wl = b.wl - q
                    /\ c.pend = b.pend - Smaller(m - restore, b.pend)
                    /\ c.paid = b.paid - Smaller(m - restore - Smaller(m - restore, b.pend), b.paid)
                    /\ c.used = Larger(0, b.used - restore)
<1>1. PICK less : /\ Good(less) /\ Lessened(b, less)
                  /\ \/ c = Revoked(Synced(less))
                     \/ /\ c = Synced(less)
                        /\ ~(b.offered > IF b.status = "waitlisted" THEN less.seats ELSE less.wl)
  BY DEF Reduced
<1> DEFINE s == Synced(less)
<1>2. /\ Good(s) /\ s.method = less.method /\ s.seats = less.seats /\ s.wl = less.wl
      /\ s.sub = less.sub /\ s.pend = less.pend /\ s.paid = less.paid /\ s.alloc = less.alloc
      /\ s.offered = less.offered /\ s.used = less.used
      /\ s.status = IF ~Main(less) THEN less.status
                    ELSE IF Live(less) = 0
                         THEN IF less.method = "subscription" THEN "confirmed" ELSE less.status
                         ELSE IF less.pend > 0 THEN "pending_payment" ELSE "confirmed"
  BY <1>1, SyncedIsGood, SyncedFields
<1> HIDE DEF s
<1>3. /\ c.method = s.method /\ c.seats = s.seats /\ c.wl = s.wl /\ c.sub = s.sub
      /\ c.pend = s.pend /\ c.paid = s.paid /\ c.alloc = s.alloc /\ c.used = s.used
      /\ c.status = s.status
      /\ \/ c.offered = 0
         \/ /\ c.offered = s.offered
            /\ ~(b.offered > IF b.status = "waitlisted" THEN less.seats ELSE less.wl)
  <2>1. c = Revoked(s) \/ c = s
    BY <1>1 DEF s
  <2>2. c # s => c = Revoked(s)
    BY <2>1
  <2>3. c = s => \/ c = Revoked(s)
                 \/ ~(b.offered > IF b.status = "waitlisted" THEN less.seats ELSE less.wl)
    BY <1>1 DEF s
  <2> QED BY <1>2, <2>2, <2>3, RevokedFields
<1>4. Live(c) = Live(less)
  BY <1>2, <1>3 DEF Live
<1>5. less.status = b.status /\ less.method = b.method /\ less.sub = b.sub /\ less.alloc = b.alloc
      /\ less.offered = b.offered
  BY <1>1, LessenedFields
<1>6. CASE b.status = "waitlisted"
  <2>1. ~Main(b) /\ ~Main(less)
    BY <1>5, <1>6 DEF Main
  <2>2. less.seats <= b.seats /\ less.wl = 0 /\ less.pend = 0 /\ less.paid = 0 /\ less.used = b.used
    BY <1>1, <2>1, LessenedFields
  <2> QED BY <1>2, <1>3, <1>5, <1>6, <2>1, <2>2
<1>7. CASE b.status # "waitlisted"
  <2>1. Main(b) /\ Main(less)
    BY <1>1, <1>5, <1>7 DEF Lessened, Main
  <2>2. \E m, q, restore \in SeatCount :
          /\ restore = Smaller(m - Smaller(m, b.pend), SubscriptionSeats(b))
          /\ m < b.seats /\ q <= b.wl
          /\ less.seats = b.seats - m /\ less.wl = b.wl - q
          /\ less.pend = b.pend - Smaller(m - restore, b.pend)
          /\ less.paid = b.paid - Smaller(m - restore - Smaller(m - restore, b.pend), b.paid)
          /\ less.used = Larger(0, b.used - restore)
    BY <1>1, <1>7, LessenedFields
  <2> QED BY <1>2, <1>3, <1>4, <1>5, <2>1, <2>2
<1> QED BY <1>6, <1>7

LEMMA MarkedFields ==
  ASSUME NEW b, Good(b), NEW c, Marked(b, c)
  PROVE  /\ c.method = b.method /\ c.seats = b.seats /\ c.wl = 0 /\ c.sub = b.sub
         /\ c.pend = b.pend /\ c.paid = b.paid /\ c.alloc = b.alloc /\ c.offered = b.offered
         /\ c.used = b.used
         /\ Occupying(b) /\ Occupying(c) /\ ~Main(c) /\ c.status \in {"attended", "no_show"}
BY DEF Good, Row, Marked, Occupying, Main

LEMMA PaidFields ==
  ASSUME NEW b, Good(b), NEW c, Paid(b, c)
  PROVE  /\ c.method = b.method /\ c.seats = b.seats /\ c.wl = b.wl /\ c.sub = b.sub
         /\ c.pend = 0 /\ c.paid = b.paid + b.pend /\ c.alloc = b.alloc
         /\ c.offered = b.offered /\ c.used = b.used
         /\ c.status = IF Main(b) THEN "confirmed" ELSE b.status
<1> DEFINE d == [b EXCEPT !.paid = @ + b.pend, !.pend = 0]
<1>1. Good(d)
  BY PaidIsGood
<1>2. /\ d.method = b.method /\ d.seats = b.seats /\ d.wl = b.wl /\ d.sub = b.sub
      /\ d.pend = 0 /\ d.paid = b.paid + b.pend /\ d.alloc = b.alloc
      /\ d.offered = b.offered /\ d.used = b.used /\ d.status = b.status
  BY DEF Good, Row
<1>3. b.pend > 0 /\ c = Synced(d)
  BY DEF Paid
<1> HIDE DEF d
<1>4. Live(d) # 0
  BY <1>2, <1>3, GoodNumbers DEF Live, SeatCount
<1> QED BY <1>1, <1>2, <1>3, <1>4, SyncedFields DEF Main

\* A rejection of the unpaid seats: the others stay, or the booking goes.
PaidOnly(b, c) ==
  \/ /\ b.paid + SubscriptionSeats(b) > 0
     /\ c.status = "confirmed" /\ c.method = b.method
     /\ c.seats = b.paid + SubscriptionSeats(b) /\ c.wl = b.wl /\ c.sub = b.sub
     /\ c.pend = 0 /\ c.paid = b.paid /\ c.alloc = b.alloc
     /\ c.offered = b.offered /\ c.used = b.used
  \/ /\ b.paid + SubscriptionSeats(b) = 0
     /\ c.status = "cancelled" /\ c.method = "free" /\ c.seats = 0 /\ c.wl = 0
     /\ c.sub = FALSE /\ c.pend = 0 /\ c.paid = 0 /\ c.alloc = b.alloc
     /\ c.used = b.used
     /\ c.offered = 0 \/ (c.offered = b.offered /\ event.phase = "started")

LEMMA RejectedFields ==
  ASSUME NEW b, Good(b), NEW c, Rejected(b, c)
  PROVE  Main(b) /\ b.pend > 0 /\ PaidOnly(b, c)
<1> DEFINE kept == b.paid + SubscriptionSeats(b)
           less == [b EXCEPT !.pend = 0, !.seats = kept]
<1>1. Main(b) /\ b.pend > 0
  BY DEF Rejected
<1>2. /\ b.seats \in SeatCount /\ b.pend \in SeatCount /\ b.paid \in SeatCount
      /\ SubscriptionSeats(b) \in SeatCount
      /\ SubscriptionSeats(b) <= Larger(0, b.seats - Live(b)) /\ b.pend + b.paid <= b.seats
      /\ b.used \in Nat
  BY <1>1, GoodNumbers, SubscriptionSeatsType, AssumptionsHold
     DEF Good, TakenBy, Occupying, Live, Assumptions
<1>3. kept \in SeatCount /\ kept <= b.seats /\ b.paid <= kept
  BY <1>2, AssumptionsHold DEF Larger, Live, SeatCount, Assumptions
<1>4. \/ kept > 0 /\ c = Synced(less)
      \/ kept = 0 /\ event.phase = "started" /\ c = Gone(b)
      \/ kept = 0 /\ c = CancelledBooking(b, 0)
  BY DEF Rejected
<1>5. CASE kept > 0 /\ c = Synced(less)
  <2>1. /\ less.method = b.method /\ less.seats = kept /\ less.wl = b.wl /\ less.sub = b.sub
        /\ less.pend = 0 /\ less.paid = b.paid /\ less.alloc = b.alloc
        /\ less.offered = b.offered /\ less.used = b.used /\ less.status = b.status
    BY DEF Good, Row
  <2>2. Good(less)
    <3>1. 1 <= kept
      BY <1>3, <1>5 DEF SeatCount
    <3> HIDE DEF kept
    <3> QED BY <1>1, <1>3, <3>1, KeptIsGood
  <2>3. Live(less) = 0 => b.method = "subscription"
    BY <1>2, <1>5, <2>1 DEF Live, SubscriptionSeats, SeatCount
  <2> HIDE DEF less
  <2> QED BY <1>1, <1>5, <2>1, <2>2, <2>3, SyncedFields DEF Main, PaidOnly
<1>6. CASE kept = 0 /\ event.phase = "started" /\ c = Gone(b)
  BY <1>1, <1>6, GoneFields DEF PaidOnly
<1>7. CASE kept = 0 /\ c = CancelledBooking(b, 0)
  <2>1. Larger(0, b.used - 0) = b.used /\ 0 \in Nat
    BY <1>2 DEF Larger
  <2> QED BY <1>1, <1>7, <2>1, CancelledFields DEF PaidOnly
<1> QED BY <1>4, <1>5, <1>6, <1>7

LEMMA LeftFields ==
  ASSUME NEW b, Good(b), NEW c, Left(b, c)
  PROVE  /\ c.status = "cancelled" /\ c.method = "free" /\ c.seats = 0 /\ c.wl = 0
         /\ c.sub = FALSE /\ c.pend = 0 /\ c.paid = 0 /\ c.alloc = b.alloc /\ c.offered = 0
         /\ c.used = Larger(0, b.used - IF Main(b) THEN SubscriptionSeats(b) ELSE 0)
<1> DEFINE n == IF Main(b) THEN SubscriptionSeats(b) ELSE 0
<1>1. n \in Nat
  BY SubscriptionSeatsType DEF SeatCount
<1>2. c = CancelledBooking(b, n)
  BY DEF Left
<1>3. n = IF Main(b) THEN SubscriptionSeats(b) ELSE 0
  OBVIOUS
<1> HIDE DEF n
<1> QED BY <1>1, <1>2, <1>3, CancelledFields

-----------------------------------------------------------------------------
(* Who is in: a booking becomes active only by being made.                  *)

LEMMA InactiveMoved ==
  ASSUME NEW p \in Players, NEW b, Good(b), ~Active(b), NEW c, Moved(p, b, c)
  PROVE  ~Active(c) /\ TakenBy(c) = 0
<1>1. PICK x \in {b, Lapse(b)} : c = x \/ Offered(x, c) \/ Seated(p, x, c)
  BY DEF Moved
<1>2. ~Active(x)
  BY <1>1, LapseFields DEF Active
<1>3. Queued(x) = 0
  BY <1>2 DEF Queued, Active, Main
<1>4. \A n \in 1 .. MaxSeats : ~(n <= Queued(x))
  BY <1>3
<1>5. c = x
  BY <1>1, <1>4 DEF Offered, Seated
<1> QED BY <1>2, <1>5 DEF TakenBy, Occupying, Main, Active

LEMMA InactiveOwn ==
  ASSUME NEW p \in Players, NEW b, Good(b), ~Active(b), NEW c, Own(p, b, c)
  PROVE  Joined(p, b, c)
<1>1. ~Main(b) /\ b.status # "waitlisted" /\ ~Occupying(b) /\ Queued(b) = 0
  BY DEF Active, Main, Occupying, Queued
<1>2. b.pend = 0
  BY <1>1, GoodNumbers, AssumptionsHold DEF Good, TakenBy, Live, SeatCount, Assumptions
<1>3. ~Enlarged(p, b, c) /\ ~Left(b, c) /\ ~Rejected(b, c)
  BY <1>1 DEF Enlarged, Left, Rejected
<1>4. ~Reduced(b, c)
  BY <1>1 DEF Reduced, Lessened
<1>5. ~Marked(b, c)
  BY <1>1 DEF Marked, Occupying, Main
<1>6. ~Paid(b, c)
  BY <1>2 DEF Paid
<1>7. ~Accepted(p, b, c)
  BY <1>1, GoodNumbers DEF Accepted, SeatCount
<1> QED BY <1>3, <1>4, <1>5, <1>6, <1>7 DEF Own

\* Of a cancelled event nothing is left.
Emptied(b) == event.status = "cancelled" => ~Active(b)

LEMMA EmptiedTrip ==
  ASSUME NEW p \in Players, NEW b, Good(b), Emptied(b), NEW c, Trip(p, b, c),
         event.price \in Nat
  PROVE  Emptied(c)
<1> SUFFICES ASSUME event.status = "cancelled" PROVE ~Active(c)
  BY DEF Emptied
<1>1. PICK x, y : Moved(p, b, x) /\ (y = x \/ Own(p, x, y)) /\ Moved(p, y, c)
  BY DEF Trip
<1>2. Good(x) /\ ~Active(x)
  BY <1>1, MovedIsGood, InactiveMoved DEF Emptied
<1>3. Good(y) /\ ~Active(y)
  <2>1. ~Joined(p, x, y)
    BY DEF Joined
  <2> QED BY <1>1, <1>2, <2>1, OwnIsGood, InactiveOwn
<1> QED BY <1>1, <1>3, InactiveMoved

-----------------------------------------------------------------------------
(* Offers.                                                                  *)

\* Nothing is offered of an event that is not open.
Quiet(b) == event.status # "published" => b.offered = 0

LEMMA QuietMoved ==
  ASSUME NEW p \in Players, NEW b, Good(b), Quiet(b), NEW c, Moved(p, b, c)
  PROVE  Quiet(c)
<1> SUFFICES ASSUME event.status # "published" PROVE c.offered = 0
  BY DEF Quiet
<1>1. c = b \/ c = Lapse(b)
  BY DEF Moved, Offered, Seated, CanOffer
<1> QED BY <1>1, LapseFields DEF Quiet

LEMMA QuietOwn ==
  ASSUME NEW p \in Players, NEW b, Good(b), Quiet(b), NEW c, Own(p, b, c)
  PROVE  Quiet(c)
<1> SUFFICES ASSUME event.status # "published" PROVE c.offered = 0
  BY DEF Quiet
<1>1. b.offered = 0
  BY DEF Quiet
<1>2. ~Joined(p, b, c) /\ ~Enlarged(p, b, c) /\ ~Accepted(p, b, c)
  BY DEF Joined, Enlarged, Accepted
<1>3. CASE Reduced(b, c)
  BY <1>1, <1>3, ReducedFields
<1>4. CASE Left(b, c)
  BY <1>4, LeftFields
<1>5. CASE Marked(b, c)
  BY <1>1, <1>5, MarkedFields
<1>6. CASE Paid(b, c)
  BY <1>1, <1>6, PaidFields
<1>7. CASE Rejected(b, c)
  BY <1>1, <1>7, RejectedFields DEF PaidOnly
<1> QED
  BY <1>2, <1>3, <1>4, <1>5, <1>6, <1>7 DEF Own

LEMMA QuietTrip ==
  ASSUME NEW p \in Players, NEW b, Good(b), Quiet(b), NEW c, Trip(p, b, c),
         event.price \in Nat
  PROVE  Quiet(c)
<1>1. PICK x, y : Moved(p, b, x) /\ (y = x \/ Own(p, x, y)) /\ Moved(p, y, c)
  BY DEF Trip
<1>2. Good(x) /\ Quiet(x)
  BY <1>1, MovedIsGood, QuietMoved
<1>3. Good(y) /\ Quiet(y)
  BY <1>1, <1>2, OwnIsGood, QuietOwn
<1> QED BY <1>1, <1>3, QuietMoved

\* Before the start an open offer is no larger than the queued seats.
Backed(b) == event.phase # "started" => b.offered <= Queued(b)

LEMMA BackedMoved ==
  ASSUME NEW p \in Players, NEW b, Good(b), Backed(b), NEW c, Moved(p, b, c),
         event.price \in Nat
  PROVE  Backed(c)
<1> SUFFICES ASSUME event.phase # "started" PROVE c.offered <= Queued(c)
  BY DEF Backed
<1>1. PICK x \in {b, Lapse(b)} : c = x \/ Offered(x, c) \/ Seated(p, x, c)
  BY DEF Moved
<1>2. Good(x) /\ x.offered <= Queued(x)
  <2>1. Good(x) /\ (x = b \/ x.offered = 0)
    BY <1>1, LapseFields
  <2>2. Queued(x) \in SeatCount
    BY <2>1, GoodNumbers
  <2> QED BY <2>1, <2>2 DEF Backed, SeatCount
<1>3. CASE Offered(x, c)
  <2>1. PICK n \in 1 .. MaxSeats : n <= Queued(x) /\ c = OfferTo(x, n)
    BY <1>3 DEF Offered
  <2>2. c.offered = n /\ c.status = x.status /\ c.seats = x.seats /\ c.wl = x.wl
    BY <1>2, <2>1, OfferToFields
  <2> QED BY <2>1, <2>2 DEF Queued, Main
<1>4. CASE Seated(p, x, c)
  <2>1. PICK n \in 1 .. MaxSeats : n <= Queued(x) /\ c = Promoted(p, x, n)
    BY <1>4 DEF Seated
  <2>2. x.offered = 0
    BY <1>4 DEF Seated, Waits
  <2>3. c.offered = x.offered
    <3>1. 1 <= n /\ n <= n
      OBVIOUS
    <3>2. /\ n \in SeatCount
          /\ \/ x.status = "waitlisted" /\ n <= x.seats /\ c = PromoteWaiting(p, x, n)
             \/ /\ Main(x) /\ n <= x.wl /\ x.seats + x.wl + n - n <= MaxSeats
                /\ c = AddMainSeats(p, x, n, n)
      BY <1>2, <2>1, PromotedCases
    <3>3. CASE x.status = "waitlisted" /\ n <= x.seats /\ c = PromoteWaiting(p, x, n)
      BY <1>2, <3>1, <3>2, <3>3, PromoteWaitingFields DEF Admitted
    <3>4. CASE /\ Main(x) /\ n <= x.wl /\ x.seats + x.wl + n - n <= MaxSeats
               /\ c = AddMainSeats(p, x, n, n)
      BY <1>2, <3>1, <3>2, <3>4, AddMainSeatsFields DEF Grown
    <3> QED BY <3>2, <3>3, <3>4
  <2>4. Queued(c) \in SeatCount
    BY <1>1, <1>2, MovedIsGood, GoodNumbers
  <2> QED BY <2>2, <2>3, <2>4 DEF SeatCount
<1> QED BY <1>1, <1>2, <1>3, <1>4

LEMMA BackedOwn ==
  ASSUME NEW p \in Players, NEW b, Good(b), Backed(b), NEW c, Own(p, b, c),
         event.price \in Nat
  PROVE  Backed(c)
<1> SUFFICES ASSUME event.phase # "started" PROVE c.offered <= Queued(c)
  BY DEF Backed
<1>1. b.offered <= Queued(b) /\ b.offered \in SeatCount /\ Queued(b) \in SeatCount
  BY GoodNumbers DEF Backed
<1>2. Good(c) /\ Queued(c) \in SeatCount
  BY OwnIsGood, GoodNumbers
<1>3. c.offered = 0 => c.offered <= Queued(c)
  BY <1>2 DEF SeatCount
<1>4. CASE Joined(p, b, c)
  <2>1. Queued(b) = 0
    BY <1>4 DEF Joined, Active, Queued, Main
  <2>2. b.offered = 0
    BY <1>1, <2>1 DEF SeatCount
  <2>3. c.offered = b.offered
    <3>1. PICK main \in SeatCount, queue \in SeatCount, m \in Methods :
            /\ main + queue \in 1 .. MaxSeats
            /\ PriceMode = "split" => m = "cash"
            /\ c = NewBooking(b, main, queue, m)
      BY <1>4 DEF Joined
    <3>2. ~Active(b) /\ m \in {"cash", "subscription"}
      BY <1>4, MoneyAssumption DEF Joined
    <3>3. Placed(b, main, queue, m, c)
      BY <3>1, <3>2, NewBookingFields
    <3> QED BY <3>3 DEF Placed
  <2> QED BY <1>3, <2>2, <2>3
<1>5. CASE Enlarged(p, b, c)
  <2>1. Queued(b) = 0
    BY <1>5 DEF Enlarged, Queued, Main
  <2>2. b.offered = 0
    BY <1>1, <2>1 DEF SeatCount
  <2>3. PICK n \in 1 .. MaxSeats : b.seats + n <= MaxSeats /\ c = AddMainSeats(p, b, n, 0)
    BY <1>5 DEF Enlarged
  <2>4. /\ Main(b) /\ b.wl = 0 /\ n \in SeatCount /\ 0 \in SeatCount /\ 1 <= n /\ 0 <= n
        /\ b.seats + b.wl + n - 0 <= MaxSeats
    BY <1>5, <2>3, GoodNumbers, Values DEF Enlarged, SeatCount
  <2>5. c.offered = b.offered
    BY <2>3, <2>4, AddMainSeatsFields DEF Grown
  <2> QED BY <1>3, <2>2, <2>5
<1>6. CASE Reduced(b, c)
  <2>1. CASE c.offered # 0
    <3>1. /\ c.offered = b.offered
          /\ ~(b.offered > IF b.status = "waitlisted" THEN c.seats ELSE c.wl)
          /\ b.status = "waitlisted" => c.status = "waitlisted"
          /\ b.status # "waitlisted" => Main(b)
      BY <1>6, <2>1, ReducedFields DEF Main
    <3>2. b.status # "waitlisted" => Main(c) /\ c.status # "waitlisted"
      BY <1>6, <3>1, ReducedFields DEF Main
    <3>3. c.seats \in SeatCount /\ c.wl \in SeatCount
      BY <1>2, GoodNumbers
    <3> QED BY <1>1, <3>1, <3>2, <3>3 DEF Queued, SeatCount
  <2> QED BY <1>3, <2>1
<1>7. CASE Left(b, c)
  BY <1>3, <1>7, LeftFields
<1>8. CASE Accepted(p, b, c)
  <2>1. Good(Promoted(p, b, b.offered))
    BY <1>1, <1>8, PromotedIsGood DEF Accepted
  <2>2. c.offered = 0
    BY <1>8, <2>1, RevokedFields DEF Accepted
  <2> QED BY <1>3, <2>2
<1>9. CASE Marked(b, c)
  BY <1>9 DEF Marked
<1>10. CASE Paid(b, c)
  <2>1. Queued(c) = Queued(b) /\ c.offered = b.offered
    BY <1>10, PaidFields DEF Queued, Main
  <2> QED BY <1>1, <2>1
<1>11. CASE Rejected(b, c)
  <2>1. c.offered = 0 \/ (c.offered = b.offered /\ Queued(c) = Queued(b))
    BY <1>11, RejectedFields DEF Queued, Main, PaidOnly
  <2> QED BY <1>1, <1>3, <2>1
<1> QED
  BY <1>4, <1>5, <1>6, <1>7, <1>8, <1>9, <1>10, <1>11 DEF Own

LEMMA BackedTrip ==
  ASSUME NEW p \in Players, NEW b, Good(b), Backed(b), NEW c, Trip(p, b, c),
         event.price \in Nat
  PROVE  Backed(c)
<1>1. PICK x, y : Moved(p, b, x) /\ (y = x \/ Own(p, x, y)) /\ Moved(p, y, c)
  BY DEF Trip
<1>2. Good(x) /\ Backed(x)
  BY <1>1, MovedIsGood, BackedMoved
<1>3. Good(y) /\ Backed(y)
  BY <1>1, <1>2, OwnIsGood, BackedOwn
<1> QED BY <1>1, <1>3, BackedMoved

-----------------------------------------------------------------------------
(* Shares of a split.                                                       *)

\* Before the shares are fixed nobody owes and nobody is marked; after it each
\* booking in the roster stands on one payment and has no queued seats.  Nobody
\* pays a share by subscription.
Shared(b) ==
  PriceMode = "split" =>
    /\ b.method # "subscription"
    /\ ~event.settled => Live(b) = 0 /\ b.status \notin {"attended", "no_show"}
    /\ (event.settled /\ Occupying(b)) => Live(b) = 1 /\ b.alloc /\ b.wl = 0

\* Promotions end when the shares are fixed.
LEMMA SharedPromoted ==
  ASSUME NEW p \in Players, NEW b, Good(b), Shared(b), NEW n \in 1 .. MaxSeats, n <= Queued(b),
         ~event.settled, event.price \in Nat
  PROVE  Shared(Promoted(p, b, n))
<1> DEFINE c == Promoted(p, b, n)
<1> SUFFICES ASSUME PriceMode = "split"
    PROVE  c.method # "subscription" /\ Live(c) = 0 /\ c.status \notin {"attended", "no_show"}
  BY DEF Shared
<1>1. /\ b.method # "subscription" /\ Live(b) = 0 /\ b.status \notin {"attended", "no_show"}
      /\ ~Priced
  BY DEF Shared, Priced
<1>2. b.pend = 0 /\ b.paid = 0
  BY <1>1, GoodNumbers DEF Live, SeatCount
<1>3. 1 <= n /\ n <= n
  OBVIOUS
<1>4. /\ n \in SeatCount
      /\ \/ b.status = "waitlisted" /\ n <= b.seats /\ c = PromoteWaiting(p, b, n)
         \/ /\ Main(b) /\ n <= b.wl /\ b.seats + b.wl + n - n <= MaxSeats
            /\ c = AddMainSeats(p, b, n, n)
  BY PromotedCases
<1> HIDE DEF c
<1>5. CASE b.status = "waitlisted" /\ n <= b.seats /\ c = PromoteWaiting(p, b, n)
  <2>1. n \in SeatCount /\ 1 <= n /\ n <= b.seats /\ b.status = "waitlisted"
    BY <1>3, <1>4, <1>5
  <2>2. Admitted(b, n, c)
    BY <1>5, <2>1, PromoteWaitingFields
  <2> QED BY <1>1, <1>2, <2>2 DEF Live, Admitted
<1>6. CASE /\ Main(b) /\ n <= b.wl /\ b.seats + b.wl + n - n <= MaxSeats
           /\ c = AddMainSeats(p, b, n, n)
  <2>1. c.method = b.method /\ c.paid = b.paid /\ c.pend = b.pend /\ c.status = b.status
    BY <1>1, <1>3, <1>4, <1>6, AddMainSeatsFields DEF Grown
  <2> QED BY <1>1, <1>2, <2>1 DEF Live
<1> QED BY <1>4, <1>5, <1>6

LEMMA SharedMoved ==
  ASSUME NEW p \in Players, NEW b, Good(b), Shared(b), NEW c, Moved(p, b, c),
         event.price \in Nat
  PROVE  Shared(c)
<1>1. PICK x \in {b, Lapse(b)} : c = x \/ Offered(x, c) \/ Seated(p, x, c)
  BY DEF Moved
<1>2. Good(x) /\ Shared(x)
  <2>1. CASE x = b
    BY <2>1
  <2>2. CASE x = Lapse(b) /\ x # b
    <3>1. /\ Good(x) /\ x.alloc = b.alloc /\ x.wl = 0
          /\ \/ x.status = "cancelled" /\ x.method = "free" /\ x.pend = 0 /\ x.paid = 0
             \/ /\ x.status = b.status /\ x.method = b.method
                /\ x.pend = b.pend /\ x.paid = b.paid
      BY <2>2, LapseFields
    <3> QED BY <3>1 DEF Shared, Occupying, Main, Live
  <2> QED BY <1>1, <2>1, <2>2
<1>3. CASE Offered(x, c)
  <2>1. PICK n \in 1 .. MaxSeats : n <= Queued(x) /\ c = OfferTo(x, n)
    BY <1>3 DEF Offered
  <2>2. /\ c.status = x.status /\ c.method = x.method /\ c.wl = x.wl /\ c.alloc = x.alloc
        /\ c.pend = x.pend /\ c.paid = x.paid
    BY <1>2, <2>1, OfferToFields
  <2> QED BY <1>2, <2>2 DEF Shared, Occupying, Main, Live
<1>4. CASE Seated(p, x, c)
  BY <1>2, <1>4, SharedPromoted DEF Seated
<1> QED BY <1>1, <1>2, <1>3, <1>4

LEMMA SharedOwn ==
  ASSUME NEW p \in Players, NEW b, Good(b), Shared(b), NEW c, Own(p, b, c),
         event.price \in Nat
  PROVE  Shared(c)
<1> SUFFICES ASSUME PriceMode = "split" PROVE Shared(c)
  BY DEF Shared
<1>1. /\ b.method # "subscription" /\ ~Priced /\ SubscriptionSeats(b) = 0
      /\ b.pend \in Nat /\ b.paid \in Nat
  BY GoodNumbers DEF Shared, Priced, SubscriptionSeats, SeatCount
<1>2. ~event.settled => /\ b.pend = 0 /\ b.paid = 0 /\ Live(b) = 0
                        /\ b.status \notin {"attended", "no_show"}
  BY <1>1 DEF Shared, Live
<1>3. CASE Joined(p, b, c)
  <2>1. PICK main \in SeatCount, queue \in SeatCount, m \in Methods :
          /\ main + queue \in 1 .. MaxSeats
          /\ PriceMode = "split" => m = "cash"
          /\ c = NewBooking(b, main, queue, m)
    BY <1>3 DEF Joined
  <2>2. ~Active(b) /\ m \in {"cash", "subscription"} /\ ~event.settled
    BY <1>3, MoneyAssumption DEF Joined
  <2>3. c.method = "cash" /\ c.paid = 0 /\ c.pend = 0
        /\ c.status \in {"waitlisted", "pending_payment", "confirmed"}
    BY <1>1, <2>1, <2>2, NewBookingFields DEF Placed
  <2> QED BY <2>2, <2>3 DEF Shared, Live
<1>4. CASE Enlarged(p, b, c)
  <2>1. PICK n \in 1 .. MaxSeats : b.seats + n <= MaxSeats /\ c = AddMainSeats(p, b, n, 0)
    BY <1>4 DEF Enlarged
  <2>2. /\ Main(b) /\ b.wl = 0 /\ n \in SeatCount /\ 0 \in SeatCount /\ 1 <= n /\ 0 <= n
        /\ b.seats + b.wl + n - 0 <= MaxSeats /\ ~event.settled
    BY <1>4, <2>1, GoodNumbers, Values DEF Enlarged, SeatCount
  <2>3. c.method = b.method /\ c.paid = b.paid /\ c.pend = b.pend /\ c.status = b.status
    BY <1>1, <2>1, <2>2, AddMainSeatsFields DEF Grown
  <2> QED BY <1>1, <1>2, <2>2, <2>3 DEF Shared, Live
<1>5. CASE Reduced(b, c)
  <2>1. ~event.settled /\ c.method = b.method
    BY <1>5, ReducedFields DEF Reduced
  <2>2. c.pend = 0 /\ c.paid = 0
    <3>1. CASE c.pend = 0 /\ c.paid = 0
      BY <3>1
    <3>2. CASE ~(c.pend = 0 /\ c.paid = 0)
      <4>1. PICK m, q, restore \in SeatCount :
              /\ restore = Smaller(m - Smaller(m, b.pend), SubscriptionSeats(b))
              /\ c.pend = b.pend - Smaller(m - restore, b.pend)
              /\ c.paid = b.paid - Smaller(m - restore - Smaller(m - restore, b.pend), b.paid)
        BY <1>5, <3>2, ReducedFields
      <4>2. b.pend = 0 /\ b.paid = 0 /\ SubscriptionSeats(b) = 0 /\ m \in Nat
        BY <1>1, <1>2, <2>1 DEF SeatCount
      <4>3. restore = 0
        BY <4>1, <4>2 DEF Smaller
      <4>4. m - 0 = m /\ Smaller(m, 0) = 0 /\ Smaller(m - 0, 0) = 0
        BY <4>2 DEF Smaller
      <4>5. c.pend = 0 - 0 /\ c.paid = 0 - 0
        BY <4>1, <4>2, <4>3, <4>4
      <4> QED BY <4>5
    <3> QED BY <3>1, <3>2
  <2>3. c.status \in {"waitlisted", b.status}
    <3>1. Live(c) = 0
      BY <2>2 DEF Live
    <3> QED BY <1>1, <1>5, <3>1, ReducedFields
  <2> QED BY <1>1, <1>2, <2>1, <2>2, <2>3 DEF Shared, Live
<1>6. CASE Left(b, c)
  <2>1. c.status = "cancelled" /\ c.method = "free" /\ c.pend = 0 /\ c.paid = 0
    BY <1>6, LeftFields
  <2> QED BY <2>1 DEF Shared, Live, Occupying, Main
<1>7. CASE Accepted(p, b, c)
  <2> DEFINE d == Promoted(p, b, b.offered)
  <2>1. b.offered \in SeatCount /\ b.offered > 0 /\ b.offered <= Queued(b) /\ ~event.settled
    BY <1>7, GoodNumbers DEF Accepted
  <2>2. b.offered \in 1 .. MaxSeats
    BY <2>1, AssumptionsHold DEF SeatCount, Assumptions
  <2>3. Good(d) /\ Shared(d)
    BY <2>1, <2>2, PromotedIsGood, SharedPromoted
  <2>4. c = Revoked(d)
    BY <1>7 DEF Accepted
  <2> HIDE DEF d
  <2> QED BY <2>3, <2>4, RevokedFields DEF Shared, Live, Occupying, Main
<1>8. CASE Marked(b, c)
  <2>1. event.settled
    BY <1>8 DEF Marked
  <2> QED BY <1>8, <2>1, MarkedFields DEF Shared, Live
<1>9. CASE Paid(b, c)
  <2>1. event.settled
    BY <1>2, <1>9 DEF Paid
  <2>2. /\ c.method = b.method /\ c.alloc = b.alloc /\ c.wl = b.wl
        /\ Occupying(c) => Occupying(b)
        /\ c.pend = 0 /\ c.paid = b.paid + b.pend
    BY <1>9, PaidFields DEF Occupying, Main
  <2>3. Live(c) = Live(b)
    BY <1>1, <2>2 DEF Live
  <2> QED BY <1>1, <2>1, <2>2, <2>3 DEF Shared
<1>10. CASE Rejected(b, c)
  <2>1. Main(b) /\ b.pend > 0
    BY <1>10, RejectedFields
  <2>2. event.settled
    BY <1>2, <2>1
  <2>3. Live(b) = 1
    BY <2>1, <2>2 DEF Shared, Occupying
  <2>4. b.paid + SubscriptionSeats(b) = 0
    BY <1>1, <2>1, <2>3 DEF Live
  <2>6. ~(b.paid + SubscriptionSeats(b) > 0)
    BY <2>4
  <2>5. c.status = "cancelled" /\ c.method = "free"
    <3> DEFINE kept == b.paid + SubscriptionSeats(b)
    <3>1. ~(kept > 0)
      BY <2>6
    <3>2. \/ kept > 0
          \/ c.status = "cancelled" /\ c.method = "free"
      BY <1>10, RejectedFields DEF PaidOnly
    <3> HIDE DEF kept
    <3> QED BY <3>1, <3>2
  <2> QED BY <2>2, <2>5 DEF Shared, Occupying, Main
<1> QED
  BY <1>3, <1>4, <1>5, <1>6, <1>7, <1>8, <1>9, <1>10 DEF Own

LEMMA SharedTrip ==
  ASSUME NEW p \in Players, NEW b, Good(b), Shared(b), NEW c, Trip(p, b, c),
         event.price \in Nat
  PROVE  Shared(c)
<1>1. PICK x, y : Moved(p, b, x) /\ (y = x \/ Own(p, x, y)) /\ Moved(p, y, c)
  BY DEF Trip
<1>2. Good(x) /\ Shared(x)
  BY <1>1, MovedIsGood, SharedMoved
<1>3. Good(y) /\ Shared(y)
  BY <1>1, <1>2, OwnIsGood, SharedOwn
<1> QED BY <1>1, <1>3, SharedMoved

-----------------------------------------------------------------------------
(* The steps of the event, the clock and the scheduler.                     *)

\* One booking twice, apart from its offer.
Alike(b, c) ==
  /\ c.status = b.status /\ c.method = b.method /\ c.seats = b.seats /\ c.wl = b.wl
  /\ c.sub = b.sub /\ c.pend = b.pend /\ c.paid = b.paid /\ c.alloc = b.alloc
  /\ c.used = b.used

\* What edits of the event, its closing without shares, the clock and a restart
\* do: the bookings stay, the shares stay fixed or not, and whatever takes the
\* event off publication takes the offers back.
Rearranged ==
  /\ event'.settled = event.settled
  /\ \/ event'.status = event.status
     \/ /\ event'.status \in {"draft", "published", "closed", "finished"}
        /\ PriceMode = "split" => (event.settled => event'.status \in {"closed", "finished"})
  /\ \A p \in Players :
       /\ Alike(row[p], row'[p]) /\ row'[p].offered \in {0, row[p].offered}
       /\ event'.status \in {"published", event.status} \/ row'[p].offered = 0

LEMMA RevokedAlike ==
  ASSUME NEW b, Good(b)
  PROVE  Alike(b, Revoked(b)) /\ Revoked(b).offered = 0
BY RevokedFields DEF Alike

LEMMA UpdateEventRearranges ==
  ASSUME Inv, NEW st \in Statuses \union {event.status}, NEW capacity, NEW price, NEW ph, NEW moved,
         UpdateEvent(st, capacity, price, ph, moved)
  PROVE  Rearranged
<1> DEFINE manual == /\ ph \in {"due", "started"}
                     /\ \/ event.manual
                        \/ (moved \/ event.status # "published") /\ st = "published"
<1>1. /\ event' = [event EXCEPT !.status = st, !.capacity = capacity, !.price = price,
                                !.phase = ph, !.manual = manual]
      /\ PriceMode = "split" => (event.settled <=> st \in {"closed", "finished"})
      /\ row' = IF st = "published" THEN row ELSE WithoutOffers(row)
  BY DEF UpdateEvent
<1> HIDE DEF manual
<1>2. event'.status = st /\ event'.settled = event.settled
  BY <1>1 DEF Inv, TypeOK, Event
<1>3. st = event.status \/ st \in {"draft", "published", "closed", "finished"}
  BY InputAssumption
<1>4. ASSUME NEW p \in Players
      PROVE  /\ Alike(row[p], row'[p]) /\ row'[p].offered \in {0, row[p].offered}
             /\ event'.status \in {"published", event.status} \/ row'[p].offered = 0
  <2>1. CASE st = "published"
    BY <1>1, <1>2, <2>1 DEF Alike
  <2>2. CASE st # "published"
    <3>1. row'[p] = Revoked(row[p])
      BY <1>1, <2>2 DEF WithoutOffers
    <3> QED BY <3>1, InvFacts, RevokedAlike
  <2> QED BY <2>1, <2>2
<1> QED
  BY <1>1, <1>2, <1>3, <1>4 DEF Rearranged

LEMMA CloseDueEventsRearranges ==
  ASSUME Inv, CloseDueEvents
  PROVE  SettleSplit \/ Rearranged
<1>1. CASE CloseWithoutShares
  <2>1. event' = [event EXCEPT !.status = "closed"] /\ row' = WithoutOffers(row)
    BY <1>1 DEF CloseWithoutShares
  <2>2. event'.status = "closed" /\ event'.settled = event.settled
    BY <2>1 DEF Inv, TypeOK, Event
  <2>3. \A p \in Players : Alike(row[p], row'[p]) /\ row'[p].offered = 0
    BY <2>1, InvFacts, RevokedAlike DEF WithoutOffers
  <2> QED BY <2>2, <2>3 DEF Rearranged
<1>2. CASE event' = [event EXCEPT !.skipped = TRUE] /\ UNCHANGED <<row, ahead, lapsed, sched>>
  <2>1. event'.status = event.status /\ event'.settled = event.settled
    BY <1>2 DEF Inv, TypeOK, Event
  <2>2. \A p \in Players : Alike(row[p], row'[p]) /\ row'[p].offered = row[p].offered
    BY <1>2 DEF Alike
  <2> QED BY <2>1, <2>2 DEF Rearranged
<1> QED
  BY <1>1, <1>2 DEF CloseDueEvents

LEMMA ClockRearranges ==
  ASSUME Inv, \/ Tick \/ AdvancePhase \/ Restart
              \/ \E p \in Players : ExpireSubscription(p)
              \/ UNCHANGED vars
  PROVE  Rearranged
<1>1. CASE Tick
  <2>1. event' = event /\ row' = [p \in Players |-> [row[p] EXCEPT !.left = Larger(0, @ - 1)]]
    BY <1>1 DEF Tick
  <2>2. \A p \in Players : Alike(row[p], row'[p]) /\ row'[p].offered = row[p].offered
    BY <2>1, InvFacts DEF Alike, Good, Row
  <2> QED BY <2>1, <2>2 DEF Rearranged
<1>2. CASE AdvancePhase
  <2>1. row' = row /\ \E ph : event' = [event EXCEPT !.phase = ph]
    BY <1>2 DEF AdvancePhase
  <2>2. event'.status = event.status /\ event'.settled = event.settled
    BY <2>1 DEF Inv, TypeOK, Event
  <2> QED BY <2>1, <2>2 DEF Rearranged, Alike
<1>3. CASE Restart \/ (\E p \in Players : ExpireSubscription(p)) \/ UNCHANGED vars
  <2>1. event' = event /\ row' = row
    BY <1>3 DEF Restart, ExpireSubscription, vars
  <2> QED BY <2>1 DEF Rearranged, Alike
<1> QED BY <1>1, <1>2, <1>3

LEMMA Steps ==
  ASSUME Inv, [Next]_vars
  PROVE  Operation \/ CancelEvent \/ SettleSplit \/ Rearranged
<1>1. ASSUME NEW st \in Statuses \union {event.status}, NEW capacity \in Capacities,
             NEW price \in Prices, NEW ph \in Phases \union {event.phase}, NEW moved \in BOOLEAN,
             UpdateEvent(st, capacity, price, ph, moved)
      PROVE  Rearranged
  BY <1>1, UpdateEventRearranges
<1> QED
  BY <1>1, CloseDueEventsRearranges, ClockRearranges, Zenon DEF Next, Operation

\* What the cancellation of the event and the shares write.
LEMMA CancelEventWrites ==
  ASSUME Inv, CancelEvent, NEW p \in Players
  PROVE  /\ event'.status = "cancelled" /\ event'.settled = event.settled
         /\ event'.price = event.price /\ event'.phase = event.phase
         /\ LET b == row[p]
                c == row'[p]
            IN  /\ ~Active(c) /\ c.offered = 0
                /\ \/ ~Active(b) /\ Alike(b, c)
                   \/ /\ c.status = "cancelled" /\ c.method = "free"
                      /\ c.wl = 0 /\ c.pend = 0 /\ c.paid = 0
                      /\ c.used = Larger(0, b.used -
                                    IF Occupying(b) THEN SubscriptionSeats(b) ELSE 0)
<1> DEFINE b == row[p]
           n == IF Occupying(b) THEN SubscriptionSeats(b) ELSE 0
           c == row'[p]
<1>1. event' = [event EXCEPT !.status = "cancelled"]
      /\ c = IF Active(b) THEN CancelledBooking(b, n) ELSE Revoked(b)
  BY DEF CancelEvent, Tables
<1>2. event'.status = "cancelled" /\ event'.settled = event.settled
      /\ event'.price = event.price /\ event'.phase = event.phase
  BY <1>1 DEF Inv, TypeOK, Event
<1>3. Good(b) /\ n \in Nat
  BY InvFacts, SubscriptionSeatsType DEF SeatCount
<1>4. n = IF Occupying(b) THEN SubscriptionSeats(b) ELSE 0
  OBVIOUS
<1> HIDE DEF b, n, c
<1>5. CASE Active(b)
  <2>1. c = CancelledBooking(b, n)
    BY <1>1, <1>5
  <2>2. /\ c.status = "cancelled" /\ c.method = "free" /\ c.pend = 0 /\ c.paid = 0
        /\ c.wl = 0 /\ c.offered = 0 /\ c.used = Larger(0, b.used - n)
    BY <1>3, <2>1, CancelledFields
  <2> QED BY <1>2, <1>4, <2>2 DEF Active, b, c
<1>6. CASE ~Active(b)
  <2>1. c = Revoked(b)
    BY <1>1, <1>6
  <2>2. Alike(b, c) /\ c.offered = 0
    BY <1>3, <2>1, RevokedAlike
  <2> QED BY <1>2, <1>6, <2>2 DEF Active, Alike, b, c
<1> QED BY <1>5, <1>6

LEMMA SettleSplitWrites ==
  ASSUME Inv, SettleSplit, NEW p \in Players
  PROVE  /\ event'.status = "closed" /\ event'.settled /\ PriceMode = "split"
         /\ event'.price = event.price /\ event'.phase = event.phase /\ ~event.settled
         /\ LET b == row[p]
                c == row'[p]
            IN  /\ c.offered = 0 /\ c.seats = b.seats /\ c.method = b.method
                /\ c.used = b.used /\ c.sub = b.sub
                /\ \/ ~Main(b) /\ Alike(b, c)
                   \/ /\ Main(b) /\ Live(b) = 0 /\ c.status = "pending_payment"
                      /\ c.alloc /\ c.wl = 0 /\ c.pend = 1 /\ c.paid = 0
<1> DEFINE b == row[p]
           s == Share(b)
           c == row'[p]
<1>1. /\ event' = [event EXCEPT !.status = "closed", !.settled = TRUE]
      /\ c = Revoked(s) /\ PriceMode = "split" /\ ~event.settled
      /\ Main(b) => Live(b) = 0
  BY DEF SettleSplit, Settleable, WithoutOffers
<1>2. event'.status = "closed" /\ event'.settled
      /\ event'.price = event.price /\ event'.phase = event.phase
  BY <1>1 DEF Inv, TypeOK, Event
<1>3. Good(b) /\ Good(s)
  BY <1>1, InvFacts, ShareIsGood
<1>4. CASE Main(b)
  <2>1. s = [b EXCEPT !.status = "pending_payment", !.alloc = TRUE, !.pend = 1, !.wl = 0]
    BY <1>4 DEF Share
  <2>2. b.pend = 0 /\ b.paid = 0
    BY <1>1, <1>3, <1>4, GoodNumbers DEF Live, SeatCount
  <2>3. /\ s.seats = b.seats /\ s.method = b.method /\ s.used = b.used /\ s.sub = b.sub
        /\ s.status = "pending_payment" /\ s.alloc /\ s.wl = 0 /\ s.pend = 1 /\ s.paid = 0
    BY <1>3, <2>1, <2>2 DEF Good, Row
  <2> HIDE DEF b, s, c
  <2>4. /\ c.offered = 0 /\ c.seats = s.seats /\ c.method = s.method
        /\ c.used = s.used /\ c.sub = s.sub /\ c.status = s.status /\ c.alloc = s.alloc
        /\ c.wl = s.wl /\ c.pend = s.pend /\ c.paid = s.paid
    BY <1>1, <1>3, RevokedFields
  <2> QED BY <1>1, <1>2, <1>4, <2>3, <2>4 DEF b, c
<1>5. CASE ~Main(b)
  <2>1. s = b
    BY <1>5 DEF Share
  <2> HIDE DEF b, s, c
  <2>2. Alike(b, c) /\ c.offered = 0
    BY <1>1, <1>3, <2>1, RevokedAlike
  <2> QED BY <1>1, <1>2, <1>5, <2>2 DEF Alike, b, c
<1> QED BY <1>4, <1>5

-----------------------------------------------------------------------------
(* The inductive invariant of the bookings.                                 *)

\* None of the three promises is inductive alone: that a fixed share stands
\* needs the event to stay closed, a share of one payment needs that nothing
\* was owed before, and both need that nobody is admitted any more.
Standing ==
  /\ Inv
  /\ event.settled => PriceMode = "split" /\ event.status \in {"closed", "finished", "cancelled"}
  /\ \A p \in Players : Quiet(row[p]) /\ Emptied(row[p]) /\ Shared(row[p])

LEMMA StandingInit ==
  ASSUME Init
  PROVE  Standing
<1>1. ~event.settled /\ \A p \in Players : row[p] = Absent
  BY DEF Init
<1>2. /\ Absent.offered = 0 /\ ~Active(Absent) /\ Live(Absent) = 0
      /\ Absent.method = "free" /\ Absent.status = "none"
  BY DEF Absent, Active, Live
<1> HIDE DEF Absent
<1> QED BY <1>1, <1>2, InvInit DEF Standing, Quiet, Emptied, Shared

LEMMA StandingOperation ==
  ASSUME Standing, Operation
  PROVE  /\ event'.settled = event.settled /\ event'.status = event.status
         /\ \A p \in Players : Quiet(row[p])' /\ Emptied(row[p])' /\ Shared(row[p])'
<1>1. event' = event /\ \A p \in Players : Trip(p, row[p], row'[p])
  BY Trips DEF Standing
<1>2. event.price \in Nat
  BY MoneyAssumption DEF Standing, Inv, TypeOK, Event
<1>3. ASSUME NEW p \in Players
      PROVE  Quiet(row'[p]) /\ Emptied(row'[p]) /\ Shared(row'[p])
  <2>1. Good(row[p]) /\ Quiet(row[p]) /\ Emptied(row[p]) /\ Shared(row[p])
    BY InvFacts DEF Standing
  <2> QED BY <1>1, <1>2, <2>1, QuietTrip, EmptiedTrip, SharedTrip
<1> QED BY <1>1, <1>3 DEF Quiet, Emptied, Shared, Active, Live, Occupying, Main

LEMMA StandingNext ==
  ASSUME Standing, [Next]_vars
  PROVE  Standing'
<1>1. Inv /\ Inv'
  BY InvNext DEF Standing
<1>2. CASE Operation
  BY <1>1, <1>2, StandingOperation DEF Standing
<1>3. CASE CancelEvent
  <2>1. ASSUME NEW p \in Players
        PROVE  Quiet(row[p])' /\ Emptied(row[p])' /\ Shared(row[p])'
    <3> DEFINE b == row[p]
               c == row'[p]
    <3>1. Shared(b) /\ Good(b)
      BY InvFacts DEF Standing
    <3>2. /\ event'.settled = event.settled /\ ~Active(c) /\ c.offered = 0
          /\ \/ ~Active(b) /\ Alike(b, c)
             \/ c.status = "cancelled" /\ c.method = "free" /\ c.pend = 0 /\ c.paid = 0
      BY <1>1, <1>3, CancelEventWrites
    <3> HIDE DEF b, c
    <3>3. Quiet(row[p])' /\ Emptied(row[p])'
      BY <3>2 DEF Quiet, Emptied, Active, c
    <3>4. /\ PriceMode = "split" => c.method # "subscription"
                                    /\ (~event.settled => Live(c) = 0)
          /\ c.status \notin {"attended", "no_show"} /\ ~Occupying(c)
      BY <3>1, <3>2 DEF Shared, Alike, Live, Active, Occupying, Main
    <3>5. Shared(row[p])'
      BY <3>2, <3>4 DEF Shared, Live, Occupying, Main, c
    <3> QED BY <3>3, <3>5
  <2>2. event.settled' => PriceMode = "split" /\ event.status' \in {"closed", "finished", "cancelled"}
    <3>1. CASE Players = {}
      <4>1. event' = [event EXCEPT !.status = "cancelled"]
        BY <1>3 DEF CancelEvent
      <4>2. event'.status = "cancelled" /\ event'.settled = event.settled
        BY <1>1, <4>1 DEF Inv, TypeOK, Event
      <4> QED BY <4>2 DEF Standing
    <3>2. CASE Players # {}
      BY <1>1, <1>3, <3>2, CancelEventWrites DEF Standing
    <3> QED BY <3>1, <3>2
  <2> QED BY <1>1, <2>1, <2>2 DEF Standing
<1>4. CASE SettleSplit
  <2>1. ASSUME NEW p \in Players
        PROVE  /\ Quiet(row[p])' /\ Emptied(row[p])' /\ Shared(row[p])'
               /\ event'.status = "closed" /\ PriceMode = "split"
    <3> DEFINE b == row[p]
               c == row'[p]
    <3>1. Shared(b)
      BY DEF Standing
    <3>2. /\ event'.status = "closed" /\ event'.settled /\ ~event.settled /\ PriceMode = "split"
          /\ c.offered = 0 /\ c.method = b.method
          /\ \/ ~Main(b) /\ Alike(b, c)
             \/ /\ c.status = "pending_payment"
                /\ c.alloc /\ c.wl = 0 /\ c.pend = 1 /\ c.paid = 0
      BY <1>1, <1>4, SettleSplitWrites
    <3> HIDE DEF b, c
    <3>3. Quiet(row[p])' /\ Emptied(row[p])'
      BY <3>2 DEF Quiet, Emptied, c
    <3>4. c.method # "subscription" /\ (Occupying(c) => Live(c) = 1 /\ c.alloc /\ c.wl = 0)
      BY <3>1, <3>2 DEF Shared, Alike, Live, Occupying, Main
    <3>5. Shared(row[p])'
      BY <3>2, <3>4 DEF Shared, Live, Occupying, Main, c
    <3> QED BY <3>2, <3>3, <3>5
  <2>2. \E p \in Players : Main(row[p])
    BY <1>4 DEF SettleSplit, Settleable
  <2> QED BY <1>1, <2>1, <2>2 DEF Standing
<1>5. CASE Rearranged
  <2>1. ASSUME NEW p \in Players
        PROVE  Quiet(row[p])' /\ Emptied(row[p])' /\ Shared(row[p])'
    <3> DEFINE b == row[p]
               c == row'[p]
    <3>1. Quiet(b) /\ Emptied(b) /\ Shared(b)
      BY DEF Standing
    <3>2. /\ Alike(b, c) /\ c.offered \in {0, b.offered} /\ event'.settled = event.settled
          /\ event'.status \in {"published", event.status} \/ c.offered = 0
          /\ event'.status = event.status \/ event'.status # "cancelled"
      BY <1>5 DEF Rearranged
    <3> HIDE DEF b, c
    <3>3. Quiet(row[p])' /\ Emptied(row[p])'
      BY <3>1, <3>2 DEF Quiet, Emptied, Active, Alike, c
    <3>4. Shared(row[p])'
      BY <3>1, <3>2 DEF Shared, Alike, Live, Occupying, Main, c
    <3> QED BY <3>3, <3>4
  <2> QED BY <1>1, <1>5, <2>1 DEF Standing, Rearranged
<1> QED
  BY <1>1, <1>2, <1>3, <1>4, <1>5, Steps

\* The promises about single bookings hold whatever the organizer edits.
THEOREM StandingAlways == Spec => []Standing
<1>1. Init => Standing
  BY StandingInit
<1>2. Standing /\ [Next]_vars => Standing'
  BY StandingNext
<1> QED BY <1>1, <1>2, PTL DEF Spec

\* Closing, settling, unpublishing or cancelling an event leaves no open offer,
\* and no lapse, promotion, acceptance or change of seats makes a new one.
THEOREM NoOfferOffPublication == Spec => []OffersOnlyWhilePublished
<1>1. Standing => OffersOnlyWhilePublished
  BY DEF Standing, Quiet, OffersOnlyWhilePublished
<1> QED BY <1>1, StandingAlways, PTL

\* A split charges nobody before the shares are fixed and each booking in the
\* roster once after it, whoever confirms, rejects, leaves or is marked since.
THEOREM EachPaysOneShare == Spec => []OneShareEach
<1>1. ASSUME Standing PROVE OneShareEach
  <2> SUFFICES ASSUME PriceMode = "split", NEW p \in Players
      PROVE  /\ Live(row[p]) = IF event.settled /\ Occupying(row[p]) THEN 1 ELSE 0
             /\ (event.settled /\ Occupying(row[p])) => row[p].alloc /\ row[p].wl = 0
    BY <1>1 DEF OneShareEach
  <2>1. Good(row[p]) /\ Shared(row[p])
    BY <1>1, InvFacts DEF Standing
  <2>2. ~Occupying(row[p]) => Live(row[p]) = 0
    BY <2>1, GoodNumbers DEF Good, TakenBy, Live, SeatCount
  <2> QED BY <2>1, <2>2 DEF Shared
<1> QED BY <1>1, StandingAlways, PTL

\* Once the shares are fixed the queue moves nobody.
LEMMA SettledMoved ==
  ASSUME NEW p \in Players, NEW b, Good(b), event.settled, NEW c, Moved(p, b, c)
  PROVE  TakenBy(c) = TakenBy(b)
<1>1. c \in {b, Lapse(b)}
  BY DEF Moved, Offered, Seated, CanOffer
<1>2. CASE c = Lapse(b) /\ c # b
  <2>1. \/ b.status = "waitlisted" /\ c.status = "cancelled"
        \/ b.status # "waitlisted" /\ c.status = b.status /\ c.seats = b.seats
    BY <1>2 DEF Lapse, Good, Row, Revoked, Gone
  <2> QED BY <2>1 DEF TakenBy, Occupying, Main
<1> QED BY <1>1, <1>2

LEMMA SettledOwn ==
  ASSUME NEW p \in Players, NEW b, Good(b), Shared(b), event.settled, PriceMode = "split",
         NEW c, Own(p, b, c)
  PROVE  TakenBy(c) \in {0, TakenBy(b)}
<1>1. ~Joined(p, b, c) /\ ~Enlarged(p, b, c) /\ ~Reduced(b, c) /\ ~Accepted(p, b, c)
  BY DEF Joined, Enlarged, Reduced, Accepted
<1>2. CASE Left(b, c)
  BY <1>2, LeftFields DEF TakenBy, Occupying, Main
<1>3. CASE Marked(b, c)
  BY <1>3, MarkedFields DEF TakenBy
<1>4. CASE Paid(b, c)
  <2>1. c.seats = b.seats /\ (Occupying(c) <=> Occupying(b))
    BY <1>4, PaidFields DEF Occupying, Main
  <2> QED BY <2>1 DEF TakenBy
<1>5. CASE Rejected(b, c)
  <2>1. Main(b) /\ b.pend > 0
    BY <1>5, RejectedFields
  <2>2. Live(b) = 1 /\ b.method # "subscription" /\ b.pend \in Nat /\ b.paid \in Nat
    BY <2>1, GoodNumbers DEF Shared, Occupying, SeatCount
  <2>3. ~(b.paid + SubscriptionSeats(b) > 0)
    BY <2>1, <2>2 DEF Live, SubscriptionSeats
  <2> DEFINE kept == b.paid + SubscriptionSeats(b)
  <2>4. \/ kept > 0
        \/ c.status = "cancelled"
    BY <1>5, RejectedFields DEF PaidOnly
  <2> HIDE DEF kept
  <2>5. c.status = "cancelled"
    BY <2>3, <2>4 DEF kept
  <2> QED BY <2>5 DEF TakenBy, Occupying, Main
<1> QED BY <1>1, <1>2, <1>3, <1>4, <1>5 DEF Own

\* Shares were computed from seats: once they are fixed a booking keeps its
\* seats or leaves, and nobody joins, through every interleaving of payments,
\* cancellations, attendance, lapses and edits.
THEOREM SeatsStandOnShares == Spec => SharesStand
<1>1. ASSUME Standing, [Next]_vars, event.settled, NEW p \in Players
      PROVE  TakenBy(row'[p]) \in {0, TakenBy(row[p])}
  <2> DEFINE b == row[p]
             c == row'[p]
  <2>1. Inv /\ Good(b) /\ Shared(b) /\ PriceMode = "split" /\ event.price \in Nat
    BY <1>1, InvFacts, MoneyAssumption DEF Standing, Inv, TypeOK, Event
  <2>2. CASE Operation
    <3>1. Trip(p, b, c)
      BY <2>1, <2>2, Trips
    <3> HIDE DEF b, c
    <3>2. PICK x, y : Moved(p, b, x) /\ (y = x \/ Own(p, x, y)) /\ Moved(p, y, c)
      BY <3>1 DEF Trip
    <3>3. Good(x) /\ Shared(x) /\ TakenBy(x) = TakenBy(b)
      BY <1>1, <2>1, <3>2, MovedIsGood, SharedMoved, SettledMoved
    <3>4. Good(y) /\ TakenBy(y) \in {0, TakenBy(x)}
      BY <1>1, <2>1, <3>2, <3>3, OwnIsGood, SettledOwn
    <3>5. TakenBy(c) = TakenBy(y)
      BY <1>1, <3>2, <3>4, SettledMoved
    <3> QED BY <3>3, <3>4, <3>5 DEF b, c
  <2>3. CASE CancelEvent
    <3>1. ~Active(c)
      BY <2>1, <2>3, CancelEventWrites
    <3> QED BY <3>1 DEF TakenBy, Occupying, Main, Active
  <2>4. CASE SettleSplit
    BY <1>1, <2>4 DEF SettleSplit, Settleable
  <2>5. CASE Rearranged
    BY <2>5 DEF Rearranged, Alike, TakenBy, Occupying, Main
  <2> QED BY <1>1, <2>1, <2>2, <2>3, <2>4, <2>5, Steps
<1>2. Standing /\ [Next]_vars =>
        [event.settled => \A p \in Players : TakenBy(row'[p]) \in {0, TakenBy(row[p])}]_vars
  BY <1>1
<1> QED BY <1>2, StandingAlways, PTL DEF Spec, SharesStand

-----------------------------------------------------------------------------
(* Money and sessions.                                                      *)

\* What a booking stands on, while nobody edits its event free or priced: the
\* sessions of its seats that no payment covers, or one payment per seat.
Funded(b) ==
  /\ b.used = OtherUsed + (IF Occupying(b) THEN SubscriptionSeats(b) ELSE 0)
  /\ ~Active(b) => b.method = "free"
  /\ (Priced /\ Active(b)) => b.method # "free"
  /\ ~Priced => b.method # "subscription"
  /\ (Occupying(b) /\ b.method = "subscription") => b.sub
  /\ (Priced /\ Occupying(b) /\ b.method = "cash") => Live(b) = b.seats
  /\ (Priced /\ Main(b)) => (b.status = "pending_payment" <=> b.pend > 0)

\* The sessions under a booking of the roster, as a number.
LEMMA SessionsOfSeats ==
  ASSUME NEW b, Good(b)
  PROVE  /\ b.seats \in Nat /\ b.wl \in Nat /\ b.pend \in Nat /\ b.paid \in Nat /\ b.used \in Nat
         /\ OtherUsed \in Nat
         /\ SubscriptionSeats(b) \in Nat
         /\ ~Occupying(b) => b.pend = 0 /\ b.paid = 0
         /\ Occupying(b) =>
              /\ b.pend + b.paid <= b.seats
              /\ SubscriptionSeats(b) = IF b.method = "subscription" /\ b.sub
                                        THEN b.seats - (b.pend + b.paid) ELSE 0
<1>1. /\ b.seats \in Nat /\ b.wl \in Nat /\ b.pend \in Nat /\ b.paid \in Nat /\ b.used \in Nat
      /\ OtherUsed \in Nat
  BY GoodNumbers, AssumptionsHold DEF SeatCount, Assumptions
<1>2. b.pend + b.paid <= IF Occupying(b) THEN b.seats ELSE 0
  BY DEF Good, TakenBy, Live
<1>3. ~Occupying(b) => b.pend = 0 /\ b.paid = 0
  BY <1>1, <1>2
<1>4. Occupying(b) => Larger(0, b.seats - (b.pend + b.paid)) = b.seats - (b.pend + b.paid)
  BY <1>1, <1>2 DEF Larger
<1>5. SubscriptionSeats(b) \in Nat
  BY SubscriptionSeatsType DEF SeatCount
<1> QED BY <1>1, <1>2, <1>3, <1>4, <1>5 DEF SubscriptionSeats, Live

\* Growing keeps a booking funded.
LEMMA FundedGrown ==
  ASSUME NEW b, Good(b), Funded(b), Main(b), NEW c, Good(c), NEW n \in SeatCount, 1 <= n,
         NEW q \in SeatCount, Grown(b, n, q, c)
  PROVE  Funded(c)
<1>1. /\ Occupying(b) /\ Active(b) /\ n \in Nat
      /\ b.status \in {"pending_payment", "confirmed"}
  BY DEF Occupying, Active, Main, SeatCount
<1>2. Main(c) /\ Occupying(c) /\ Active(c)
  BY <1>1 DEF Grown, Main, Occupying, Active
<1>3. /\ b.pend \in Nat /\ b.paid \in Nat /\ b.seats \in Nat /\ b.used \in Nat
      /\ b.pend + b.paid <= b.seats
      /\ SubscriptionSeats(b) = IF b.method = "subscription" /\ b.sub
                                THEN b.seats - (b.pend + b.paid) ELSE 0
      /\ SubscriptionSeats(c) = IF c.method = "subscription" /\ c.sub
                                THEN c.seats - (c.pend + c.paid) ELSE 0
      /\ OtherUsed \in Nat
  BY <1>1, <1>2, SessionsOfSeats
<1>4. b.used = OtherUsed + SubscriptionSeats(b)
  BY <1>1 DEF Funded
<1>5. /\ c.method = b.method /\ c.sub = b.sub /\ c.seats = b.seats + n /\ c.paid = b.paid
      /\ Priced => b.method # "free"
      /\ ~Priced => b.method # "subscription"
      /\ b.method = "subscription" => b.sub
      /\ (Priced /\ b.method = "cash") => b.pend + b.paid = b.seats
      /\ Priced => (b.status = "pending_payment" <=> b.pend > 0)
  BY <1>1 DEF Funded, Grown, Live
<1>6. CASE /\ Priced /\ b.method = "subscription"
           /\ c.status = b.status /\ c.pend = b.pend /\ c.used = b.used + n
  <2>1. c.used = OtherUsed + SubscriptionSeats(c)
    BY <1>1, <1>3, <1>4, <1>5, <1>6
  <2> QED BY <1>2, <1>5, <1>6, <2>1 DEF Funded
<1>7. CASE /\ Priced /\ b.method # "free"
           /\ c.status = "pending_payment" /\ c.pend = b.pend + n /\ c.used = b.used
  <2>1. /\ c.used = OtherUsed + SubscriptionSeats(c) /\ c.pend > 0
        /\ b.method = "cash" => Live(c) = c.seats
    BY <1>1, <1>3, <1>4, <1>5, <1>7 DEF Live
  <2>2. c.method = "subscription" => c.sub
    BY <1>5
  <2> QED BY <1>2, <1>5, <1>7, <2>1, <2>2, Zenon DEF Funded
<1>8. CASE /\ ~(Priced /\ b.method # "free")
           /\ c.status = b.status /\ c.pend = b.pend /\ c.used = b.used
  <2>1. ~Priced /\ b.method # "subscription"
    BY <1>5, <1>8
  <2>2. c.used = OtherUsed + SubscriptionSeats(c)
    BY <1>3, <1>4, <1>5, <1>8, <2>1
  <2> QED BY <1>2, <1>5, <2>1, <2>2 DEF Funded
<1> QED BY <1>6, <1>7, <1>8 DEF Grown

LEMMA FundedAdmitted ==
  ASSUME NEW b, Good(b), Funded(b), b.status = "waitlisted", NEW c, Good(c),
         NEW n \in SeatCount, 1 <= n, Admitted(b, n, c)
  PROVE  Funded(c)
<1>1. ~Occupying(b) /\ Active(b) /\ n \in Nat
  BY DEF Occupying, Main, Active, SeatCount
<1>2. c.status \in {"pending_payment", "confirmed"}
  BY <1>1 DEF Admitted, Funded
<1>3. Main(c) /\ Occupying(c) /\ Active(c)
  BY <1>2 DEF Main, Occupying, Active
<1>4. /\ b.pend = 0 /\ b.paid = 0 /\ OtherUsed \in Nat
      /\ SubscriptionSeats(c) = IF c.method = "subscription" /\ c.sub
                                THEN c.seats - (c.pend + c.paid) ELSE 0
  BY <1>1, <1>3, SessionsOfSeats
<1>5. /\ b.used = OtherUsed /\ c.seats = n /\ c.paid = 0
      /\ Priced => b.method # "free"
      /\ ~Priced => b.method # "subscription"
  BY <1>1, <1>4 DEF Funded, Admitted
<1>6. CASE ~Priced /\ c.method = b.method /\ c.sub = b.sub /\ c.pend = b.pend /\ c.used = b.used
  <2>1. c.used = OtherUsed + SubscriptionSeats(c) /\ c.method # "subscription"
    BY <1>4, <1>5, <1>6
  <2> QED BY <1>3, <1>6, <2>1 DEF Funded
<1>7. CASE /\ Priced /\ b.method = "subscription" /\ c.status = "confirmed"
           /\ c.method = b.method /\ c.sub = TRUE /\ c.pend = b.pend /\ c.used = b.used + n
  <2>1. c.used = OtherUsed + SubscriptionSeats(c) /\ ~(c.pend > 0)
    BY <1>1, <1>4, <1>5, <1>7
  <2> QED BY <1>3, <1>7, <2>1 DEF Funded
<1>8. CASE /\ Priced /\ c.status = "pending_payment"
           /\ c.method = "cash" /\ c.sub = b.sub /\ c.pend = n /\ c.used = b.used
  <2>1. c.used = OtherUsed + SubscriptionSeats(c) /\ c.pend > 0 /\ c.pend + c.paid = c.seats
    BY <1>1, <1>4, <1>5, <1>8
  <2> QED BY <1>3, <1>8, <2>1 DEF Funded, Live
<1> QED BY <1>1, <1>5, <1>6, <1>7, <1>8 DEF Admitted

LEMMA FundedPromoted ==
  ASSUME NEW p \in Players, NEW b, Good(b), Funded(b), NEW n \in 1 .. MaxSeats, n <= Queued(b),
         event.price \in Nat
  PROVE  Funded(Promoted(p, b, n))
<1> DEFINE c == Promoted(p, b, n)
<1>1. Good(c)
  <2>1. n \in SeatCount
    BY DEF SeatCount
  <2> QED BY <2>1, PromotedIsGood
<1>2. /\ n \in SeatCount /\ 1 <= n /\ n <= n
      /\ \/ b.status = "waitlisted" /\ n <= b.seats /\ c = PromoteWaiting(p, b, n)
         \/ /\ Main(b) /\ n <= b.wl /\ b.seats + b.wl + n - n <= MaxSeats
            /\ c = AddMainSeats(p, b, n, n)
  BY PromotedCases
<1> HIDE DEF c
<1>3. CASE b.status = "waitlisted" /\ n <= b.seats /\ c = PromoteWaiting(p, b, n)
  <2>1. Admitted(b, n, c)
    BY <1>2, <1>3, PromoteWaitingFields
  <2> QED BY <1>1, <1>2, <1>3, <2>1, FundedAdmitted DEF c
<1>4. CASE /\ Main(b) /\ n <= b.wl /\ b.seats + b.wl + n - n <= MaxSeats
           /\ c = AddMainSeats(p, b, n, n)
  <2>1. Grown(b, n, n, c)
    BY <1>2, <1>4, AddMainSeatsFields
  <2> QED BY <1>1, <1>2, <1>4, <2>1, FundedGrown DEF c
<1> QED BY <1>2, <1>3, <1>4

\* Nothing of the money changes.
LEMMA FundedAlike ==
  ASSUME NEW b, Funded(b), NEW c, c.status = b.status, c.method = b.method, c.seats = b.seats,
         c.sub = b.sub, c.pend = b.pend, c.paid = b.paid, c.used = b.used
  PROVE  Funded(c)
BY DEF Funded, Active, Occupying, Main, SubscriptionSeats, Live

LEMMA FundedMoved ==
  ASSUME NEW p \in Players, NEW b, Good(b), Funded(b), NEW c, Moved(p, b, c),
         event.price \in Nat
  PROVE  Funded(c)
<1>1. PICK x \in {b, Lapse(b)} : c = x \/ Offered(x, c) \/ Seated(p, x, c)
  BY DEF Moved
<1>2. Good(x) /\ Funded(x)
  <2>1. Good(x) /\ (x = b \/ x = Lapse(b))
    BY <1>1, LapseFields
  <2>2. CASE x = Lapse(b) /\ b.status # "waitlisted"
    BY <2>2, LapseFields, FundedAlike
  <2>3. CASE x = Lapse(b) /\ b.status = "waitlisted" /\ x # b
    <3>1. /\ x.status = "cancelled" /\ x.method = "free" /\ x.sub = FALSE /\ x.used = b.used
      BY <2>3, LapseFields
    <3>2. b.used = OtherUsed + 0
      BY <2>3 DEF Funded, Occupying, Main
    <3> QED BY <2>1, <3>1, <3>2 DEF Funded, Active, Occupying, Main
  <2> QED BY <2>1, <2>2, <2>3
<1>3. CASE Offered(x, c)
  <2>1. PICK n \in 1 .. MaxSeats : n <= Queued(x) /\ c = OfferTo(x, n)
    BY <1>3 DEF Offered
  <2> QED BY <1>2, <2>1, OfferToFields, FundedAlike
<1>4. CASE Seated(p, x, c)
  BY <1>2, <1>4, FundedPromoted DEF Seated
<1> QED BY <1>1, <1>2, <1>3, <1>4

\* Seats off a booking whose seats are all on money or all on sessions: what is
\* given back comes off each in step.
LEMMA LessSeats ==
  ASSUME NEW s \in Nat, NEW u \in Nat, NEW d \in Nat, u + d <= s, NEW m \in Nat, m < s,
         NEW restore, restore = Smaller(m - Smaller(m, u), s - (u + d))
  PROVE  LET unpaid == Smaller(m - restore, u)
             paid == Smaller(m - restore - unpaid, d)
         IN  /\ restore \in Nat /\ restore <= s - (u + d)
             /\ (s - m) - ((u - unpaid) + (d - paid)) = s - (u + d) - restore
<1>1. CASE m <= u
  <2>1. m - Smaller(m, u) = 0
    BY <1>1 DEF Smaller
  <2>2. restore = 0
    BY <2>1 DEF Smaller
  <2>3. m - 0 = m /\ Smaller(m, u) = m /\ m - m = 0
    BY <1>1 DEF Smaller
  <2>4. Smaller(m - restore, u) = m /\ Smaller(m - restore - m, d) = 0
    BY <2>2, <2>3 DEF Smaller
  <2> QED BY <2>2, <2>4
<1>2. CASE m > u /\ m - u <= s - (u + d)
  <2>1. m - Smaller(m, u) = m - u
    BY <1>2 DEF Smaller
  <2>2. restore = m - u
    BY <1>2, <2>1 DEF Smaller
  <2>3. Smaller(m - restore, u) = u /\ Smaller(m - restore - u, d) = 0
    BY <1>2, <2>2 DEF Smaller
  <2> QED BY <1>2, <2>2, <2>3
<1>3. CASE m > u /\ m - u > s - (u + d)
  <2>1. m - Smaller(m, u) = m - u
    BY <1>3 DEF Smaller
  <2>2. restore = s - (u + d)
    BY <1>3, <2>1 DEF Smaller
  <2>3. m - restore > u /\ m - restore - u < d /\ m - restore - u >= 0
    BY <1>3, <2>2
  <2>4. Smaller(m - restore, u) = u
    BY <2>2, <2>3 DEF Smaller
  <2>5. Smaller(m - restore - u, d) = m - restore - u
    BY <2>2, <2>3 DEF Smaller
  <2> QED BY <1>3, <2>2, <2>4, <2>5
<1> QED BY <1>1, <1>2, <1>3

LEMMA FundedReduced ==
  ASSUME NEW b, Good(b), Funded(b), NEW c, Good(c), Reduced(b, c)
  PROVE  Funded(c)
<1>1. c.method = b.method /\ c.sub = b.sub
  BY ReducedFields
<1>2. CASE b.status = "waitlisted" /\ c.status = "waitlisted" /\ c.used = b.used
  <2>1. /\ ~Occupying(b) /\ ~Main(b) /\ Active(b) /\ ~Occupying(c) /\ ~Main(c) /\ Active(c)
    BY <1>2 DEF Occupying, Main, Active
  <2> QED BY <1>1, <1>2, <2>1 DEF Funded
<1>3. CASE ~(b.status = "waitlisted" /\ c.status = "waitlisted" /\ c.used = b.used)
  <2>1. PICK m, q, restore \in SeatCount :
          /\ restore = Smaller(m - Smaller(m, b.pend), SubscriptionSeats(b))
          /\ m < b.seats /\ q <= b.wl
          /\ c.seats = b.seats - m /\ c.wl = b.wl - q
          /\ c.pend = b.pend - Smaller(m - restore, b.pend)
          /\ c.paid = b.paid - Smaller(m - restore - Smaller(m - restore, b.pend), b.paid)
          /\ c.used = Larger(0, b.used - restore)
    BY <1>3, ReducedFields
  <2>2. /\ Main(b)
        /\ c.status = IF Live(c) = 0
                      THEN IF b.method = "subscription" THEN "confirmed" ELSE b.status
                      ELSE IF c.pend > 0 THEN "pending_payment" ELSE "confirmed"
    BY <1>3, ReducedFields
  <2>3. /\ Main(c) /\ Occupying(c) /\ Active(c) /\ Occupying(b) /\ Active(b)
        /\ b.status \in {"pending_payment", "confirmed"}
    BY <2>2 DEF Main, Occupying, Active
  <2>4. /\ b.seats \in Nat /\ b.pend \in Nat /\ b.paid \in Nat /\ b.used \in Nat
        /\ b.pend + b.paid <= b.seats /\ m \in Nat /\ OtherUsed \in Nat
        /\ c.pend \in Nat /\ c.paid \in Nat
        /\ SubscriptionSeats(b) = IF b.method = "subscription" /\ b.sub
                                  THEN b.seats - (b.pend + b.paid) ELSE 0
        /\ SubscriptionSeats(c) = IF c.method = "subscription" /\ c.sub
                                  THEN c.seats - (c.pend + c.paid) ELSE 0
    BY <2>3, SessionsOfSeats DEF SeatCount
  <2>5. /\ b.used = OtherUsed + SubscriptionSeats(b)
        /\ Priced => b.method # "free"
        /\ ~Priced => b.method # "subscription"
        /\ b.method = "subscription" => b.sub
        /\ (Priced /\ b.method = "cash") => b.pend + b.paid = b.seats
        /\ Priced => (b.status = "pending_payment" <=> b.pend > 0)
    BY <2>2, <2>3 DEF Funded, Live
  <2>6. SubscriptionSeats(b) = b.seats - (b.pend + b.paid) =>
          /\ restore <= SubscriptionSeats(b)
          /\ c.seats - (c.pend + c.paid) = SubscriptionSeats(b) - restore
    <3> SUFFICES ASSUME SubscriptionSeats(b) = b.seats - (b.pend + b.paid)
        PROVE  /\ restore <= SubscriptionSeats(b)
               /\ c.seats - (c.pend + c.paid) = SubscriptionSeats(b) - restore
      OBVIOUS
    <3>1. restore = Smaller(m - Smaller(m, b.pend), b.seats - (b.pend + b.paid))
      BY <2>1
    <3> DEFINE unpaid == Smaller(m - restore, b.pend)
               paid == Smaller(m - restore - unpaid, b.paid)
    <3>2. /\ restore <= b.seats - (b.pend + b.paid)
          /\ (b.seats - m) - ((b.pend - unpaid) + (b.paid - paid))
               = b.seats - (b.pend + b.paid) - restore
      BY <2>1, <2>4, <3>1, LessSeats
    <3>3. c.seats = b.seats - m /\ c.pend = b.pend - unpaid /\ c.paid = b.paid - paid
      BY <2>1
    <3> HIDE DEF unpaid, paid
    <3> QED BY <3>2, <3>3
  <2>7. c.used = OtherUsed + SubscriptionSeats(c)
    <3>1. CASE b.method = "subscription"
      <4>1. SubscriptionSeats(b) = b.seats - (b.pend + b.paid)
            /\ SubscriptionSeats(c) = c.seats - (c.pend + c.paid)
        BY <1>1, <2>4, <2>5, <3>1
      <4>2. /\ b.used = OtherUsed + SubscriptionSeats(b) /\ restore \in Nat
            /\ SubscriptionSeats(b) \in Nat /\ c.used = Larger(0, b.used - restore)
            /\ restore <= SubscriptionSeats(b)
            /\ SubscriptionSeats(c) = SubscriptionSeats(b) - restore
        BY <2>1, <2>4, <2>5, <2>6, <4>1 DEF SeatCount
      <4>3. Larger(0, b.used - restore) = b.used - restore
        BY <2>4, <4>2 DEF Larger
      <4>4. b.used \in Nat /\ OtherUsed \in Nat /\ c.used = b.used - restore
        BY <2>4, <4>2, <4>3
      <4> QED BY <4>2, <4>4
    <3>2. CASE b.method # "subscription"
      <4>1. SubscriptionSeats(b) = 0 /\ SubscriptionSeats(c) = 0
        BY <1>1, <2>4, <3>2
      <4>2. m - Smaller(m, b.pend) >= 0 /\ m - Smaller(m, b.pend) \in Int
        BY <2>4 DEF Smaller
      <4>3. restore = 0
        BY <2>1, <4>1, <4>2 DEF Smaller
      <4>4. Larger(0, b.used - 0) = b.used
        BY <2>4 DEF Larger
      <4> QED BY <2>1, <2>5, <4>1, <4>3, <4>4
    <3> QED BY <3>1, <3>2
  <2>8. (Priced /\ b.method = "cash") => Live(c) = c.seats /\ c.seats > 0
    <3> SUFFICES ASSUME Priced, b.method = "cash" PROVE Live(c) = c.seats /\ c.seats > 0
      OBVIOUS
    <3>1. b.pend + b.paid = b.seats /\ SubscriptionSeats(b) = 0
      BY <2>4, <2>5
    <3>2. SubscriptionSeats(b) = b.seats - (b.pend + b.paid)
      BY <2>4, <3>1
    <3>3. c.seats - (c.pend + c.paid) = 0 - restore /\ restore <= 0 /\ restore \in Nat
      BY <2>1, <2>6, <3>1, <3>2 DEF SeatCount
    <3>4. c.seats = b.seats - m /\ m < b.seats
      BY <2>1
    <3> QED BY <2>4, <3>3, <3>4 DEF Live
  <2>9. Priced => (c.status = "pending_payment" <=> c.pend > 0)
    <3>1. CASE Live(c) = 0
      <4>1. c.pend = 0
        BY <2>4, <3>1 DEF Live
      <4> QED BY <2>2, <2>3, <2>5, <2>8, <3>1, <4>1, GoodNumbers
    <3>2. CASE Live(c) # 0
      BY <2>2, <3>2
    <3> QED BY <3>1, <3>2
  <2>10. c.method = "subscription" => c.sub
    BY <1>1, <2>5
  <2> QED BY <1>1, <2>3, <2>5, <2>7, <2>8, <2>9, <2>10 DEF Funded
<1> QED BY <1>2, <1>3

LEMMA FundedPlaced ==
  ASSUME NEW p \in Players, NEW b, Good(b), Funded(b), NEW c, Good(c), Joined(p, b, c),
         event.price \in Nat
  PROVE  Funded(c)
<1>1. PICK main \in SeatCount, queue \in SeatCount, m \in Methods :
        /\ main + queue \in 1 .. MaxSeats
        /\ PriceMode = "split" => m = "cash"
        /\ c = NewBooking(b, main, queue, m)
  BY DEF Joined
<1>2. ~Active(b) /\ m \in {"cash", "subscription"}
  BY MoneyAssumption DEF Joined
<1>3. Placed(b, main, queue, m, c)
  BY <1>1, <1>2, NewBookingFields
<1>4. ~Occupying(b)
  BY <1>2 DEF Active, Occupying, Main
<1>5. b.used = OtherUsed /\ OtherUsed \in Nat
  BY <1>4, AssumptionsHold DEF Funded, Assumptions
<1>6. /\ Priced => c.method = m
      /\ ~Priced => c.method # "subscription"
  <2>1. Priced => ~(PriceMode = "fixed" /\ event.price = 0)
    BY DEF Priced
  <2>2. ~Priced => PriceMode = "split" \/ (PriceMode = "fixed" /\ event.price = 0)
    BY MoneyAssumption DEF Priced
  <2> QED BY <1>1, <1>3, <2>1, <2>2 DEF Placed
<1>7. c.paid = 0 /\ main \in Nat
  BY <1>3 DEF Placed, SeatCount
<1>8. CASE c.status = "waitlisted" /\ c.used = b.used
  <2>1. ~Occupying(c) /\ ~Main(c) /\ Active(c)
    BY <1>8 DEF Occupying, Main, Active
  <2> QED BY <1>2, <1>5, <1>6, <1>8, <2>1 DEF Funded
<1>9. CASE c.status \in {"pending_payment", "confirmed"}
  <2>1. Occupying(c) /\ Main(c) /\ Active(c)
    BY <1>9 DEF Occupying, Main, Active
  <2>2. SubscriptionSeats(c) = IF c.method = "subscription" /\ c.sub
                               THEN c.seats - (c.pend + c.paid) ELSE 0
    BY <2>1, SessionsOfSeats
  <2>3. CASE main # 0 /\ ~Priced /\ c.used = b.used
    BY <1>5, <1>6, <2>1, <2>2, <2>3 DEF Funded
  <2>4. CASE /\ main # 0 /\ Priced /\ m = "subscription" /\ c.status = "confirmed"
             /\ c.seats = main /\ c.sub = TRUE /\ c.pend = 0 /\ c.used = b.used + main
    <3>1. c.used = OtherUsed + SubscriptionSeats(c) /\ ~(c.pend > 0)
      BY <1>5, <1>6, <1>7, <2>2, <2>4
    <3> QED BY <1>6, <2>1, <2>4, <3>1 DEF Funded
  <2>5. CASE /\ main # 0 /\ Priced /\ m = "cash" /\ c.status = "pending_payment"
             /\ c.seats = main /\ c.pend = main /\ c.used = b.used
    <3>1. c.used = OtherUsed + SubscriptionSeats(c) /\ c.pend > 0 /\ c.pend + c.paid = c.seats
      BY <1>5, <1>6, <1>7, <2>2, <2>5
    <3> QED BY <1>6, <2>1, <2>5, <3>1 DEF Funded, Live
  <2> QED BY <1>3, <1>9, <2>3, <2>4, <2>5 DEF Placed
<1> QED BY <1>3, <1>8, <1>9 DEF Placed

LEMMA FundedRejected ==
  ASSUME NEW b, Good(b), Funded(b), NEW c, Good(c), Rejected(b, c)
  PROVE  Funded(c)
<1>1. Main(b) /\ b.pend > 0 /\ Occupying(b) /\ Active(b)
  BY RejectedFields DEF Main, Occupying, Active
<1>2. /\ b.pend \in Nat /\ b.paid \in Nat /\ b.seats \in Nat /\ b.pend + b.paid <= b.seats
      /\ SubscriptionSeats(b) = IF b.method = "subscription" /\ b.sub
                                THEN b.seats - (b.pend + b.paid) ELSE 0
      /\ OtherUsed \in Nat
  BY <1>1, SessionsOfSeats
<1>3. /\ b.used = OtherUsed + SubscriptionSeats(b)
      /\ Priced => b.method # "free"
      /\ ~Priced => b.method # "subscription"
      /\ b.method = "subscription" => b.sub
  BY <1>1 DEF Funded
<1>4. CASE /\ c.status = "confirmed" /\ c.method = b.method
           /\ c.seats = b.paid + SubscriptionSeats(b) /\ c.sub = b.sub
           /\ c.pend = 0 /\ c.paid = b.paid /\ c.used = b.used
  <2>1. Main(c) /\ Occupying(c) /\ Active(c)
    BY <1>4 DEF Main, Occupying, Active
  <2>2. SubscriptionSeats(c) = IF c.method = "subscription" /\ c.sub
                               THEN c.seats - (c.pend + c.paid) ELSE 0
    BY <2>1, SessionsOfSeats
  <2>3. c.used = OtherUsed + SubscriptionSeats(c) /\ ~(c.pend > 0)
    BY <1>2, <1>3, <1>4, <2>2
  <2>4. c.method = "cash" => Live(c) = c.seats
    BY <1>2, <1>4 DEF Live
  <2>5. /\ c.method = "subscription" => c.sub
        /\ Priced => c.method # "free"
        /\ ~Priced => c.method # "subscription"
        /\ c.status # "pending_payment"
    BY <1>3, <1>4
  <2>6. c.used = OtherUsed + (IF Occupying(c) THEN SubscriptionSeats(c) ELSE 0)
    BY <2>1, <2>3
  <2> QED BY <2>1, <2>3, <2>4, <2>5, <2>6, Zenon DEF Funded
<1>5. CASE /\ b.paid + SubscriptionSeats(b) = 0
           /\ c.status = "cancelled" /\ c.method = "free" /\ c.used = b.used
  <2>1. ~Main(c) /\ ~Occupying(c) /\ ~Active(c)
    BY <1>5 DEF Main, Occupying, Active
  <2>2. SubscriptionSeats(b) = 0
    BY <1>2, <1>5, SessionsOfSeats
  <2> QED BY <1>2, <1>3, <1>5, <2>1, <2>2 DEF Funded
<1>6. PaidOnly(b, c)
  BY RejectedFields
<1> QED BY <1>4, <1>5, <1>6 DEF PaidOnly

LEMMA FundedOwn ==
  ASSUME NEW p \in Players, NEW b, Good(b), Funded(b), NEW c, Own(p, b, c),
         event.price \in Nat
  PROVE  Funded(c)
<1>1. Good(c)
  BY OwnIsGood
<1>2. CASE Joined(p, b, c)
  BY <1>1, <1>2, FundedPlaced
<1>3. CASE Enlarged(p, b, c)
  <2>1. PICK n \in 1 .. MaxSeats : b.seats + n <= MaxSeats /\ c = AddMainSeats(p, b, n, 0)
    BY <1>3 DEF Enlarged
  <2>2. /\ Main(b) /\ b.wl = 0 /\ n \in SeatCount /\ 0 \in SeatCount /\ 1 <= n /\ 0 <= n
        /\ 0 <= b.wl /\ b.seats + b.wl + n - 0 <= MaxSeats
    BY <1>3, <2>1, GoodNumbers, Values DEF Enlarged, SeatCount
  <2>3. Grown(b, n, 0, c)
    BY <2>1, <2>2, AddMainSeatsFields
  <2> QED BY <1>1, <2>2, <2>3, FundedGrown
<1>4. CASE Reduced(b, c)
  BY <1>1, <1>4, FundedReduced
<1>5. CASE Left(b, c)
  <2> DEFINE n == IF Main(b) THEN SubscriptionSeats(b) ELSE 0
  <2>1. c.status = "cancelled" /\ c.method = "free" /\ c.used = Larger(0, b.used - n)
    BY <1>5, LeftFields
  <2>2. b.used = OtherUsed + n
    BY <1>5 DEF Funded, Left, Main, Occupying
  <2>3. n \in Nat /\ OtherUsed \in Nat
    BY SessionsOfSeats
  <2> HIDE DEF n
  <2>4. c.used = OtherUsed + 0
    BY <2>1, <2>2, <2>3 DEF Larger
  <2> QED BY <2>1, <2>4 DEF Funded, Active, Occupying, Main
<1>6. CASE Accepted(p, b, c)
  <2> DEFINE d == Promoted(p, b, b.offered)
  <2>1. b.offered \in SeatCount /\ b.offered > 0 /\ b.offered <= Queued(b)
    BY <1>6, GoodNumbers DEF Accepted
  <2>2. b.offered \in 1 .. MaxSeats
    BY <2>1, AssumptionsHold DEF SeatCount, Assumptions
  <2>3. Good(d) /\ Funded(d)
    BY <2>1, <2>2, PromotedIsGood, FundedPromoted
  <2>4. c = Revoked(d)
    BY <1>6 DEF Accepted
  <2> HIDE DEF d
  <2> QED BY <2>3, <2>4, RevokedFields, FundedAlike
<1>7. CASE Marked(b, c)
  <2>1. /\ c.method = b.method /\ c.seats = b.seats /\ c.sub = b.sub
        /\ c.pend = b.pend /\ c.paid = b.paid /\ c.used = b.used
        /\ Occupying(b) /\ Occupying(c) /\ ~Main(c)
    BY <1>7, MarkedFields
  <2>2. Active(b) /\ Active(c) /\ SubscriptionSeats(c) = SubscriptionSeats(b) /\ Live(c) = Live(b)
    BY <2>1 DEF Active, Occupying, Main, SubscriptionSeats, Live
  <2> QED BY <2>1, <2>2 DEF Funded
<1>8. CASE Paid(b, c)
  <2>1. /\ c.method = b.method /\ c.seats = b.seats /\ c.sub = b.sub
        /\ c.pend = 0 /\ c.paid = b.paid + b.pend /\ c.used = b.used
        /\ c.status = IF Main(b) THEN "confirmed" ELSE b.status
    BY <1>8, PaidFields
  <2>2. /\ Active(c) <=> Active(b)
        /\ Occupying(c) <=> Occupying(b)
        /\ Main(c) => c.status = "confirmed"
    BY <2>1 DEF Active, Occupying, Main
  <2>3. Live(c) = Live(b) /\ ~(c.pend > 0)
    BY <2>1, GoodNumbers DEF Live, SeatCount
  <2>4. SubscriptionSeats(c) = SubscriptionSeats(b)
    BY <2>1, <2>3 DEF SubscriptionSeats
  <2> QED BY <2>1, <2>2, <2>3, <2>4 DEF Funded
<1>9. CASE Rejected(b, c)
  BY <1>1, <1>9, FundedRejected
<1> QED
  BY <1>2, <1>3, <1>4, <1>5, <1>6, <1>7, <1>8, <1>9 DEF Own

LEMMA FundedTrip ==
  ASSUME NEW p \in Players, NEW b, Good(b), Funded(b), NEW c, Trip(p, b, c),
         event.price \in Nat
  PROVE  Funded(c)
<1>1. PICK x, y : Moved(p, b, x) /\ (y = x \/ Own(p, x, y)) /\ Moved(p, y, c)
  BY DEF Trip
<1>2. Good(x) /\ Funded(x)
  BY <1>1, MovedIsGood, FundedMoved
<1>3. Good(y) /\ Funded(y)
  BY <1>1, <1>2, OwnIsGood, FundedOwn
<1> QED BY <1>1, <1>3, FundedMoved

\* The organizer never makes an event with bookings free, nor a free one paid.
\* The code allows it, and money then stays behind: the run price_payments.
StandingPrice ==
  (\E p \in Players : Active(row[p])) => (event.price = 0 <=> event'.price = 0)

Financed == Standing /\ \A p \in Players : Funded(row[p])

LEMMA FinancedInit ==
  ASSUME Init
  PROVE  Financed
<1>1. \A p \in Players : row[p] = Absent
  BY DEF Init
<1>2. /\ ~Active(Absent) /\ ~Occupying(Absent) /\ ~Main(Absent)
      /\ Absent.method = "free" /\ Absent.used = OtherUsed + 0
  BY AssumptionsHold DEF Absent, Active, Occupying, Main, Assumptions
<1> HIDE DEF Absent
<1> QED BY <1>1, <1>2, StandingInit DEF Financed, Funded

LEMMA FinancedNext ==
  ASSUME Financed, [Next]_vars, StandingPrice
  PROVE  Financed'
<1>1. Standing /\ Standing' /\ Inv /\ event.price \in Nat /\ event'.price \in Nat
  BY StandingNext, MoneyAssumption DEF Financed, Standing, Inv, TypeOK, Event
<1>2. SUFFICES ASSUME NEW p \in Players
               PROVE  Funded(row[p])'
  BY <1>1 DEF Financed
<1> DEFINE b == row[p]
           c == row'[p]
<1>3. Good(b) /\ Funded(b) /\ Shared(b)
  BY <1>1, InvFacts DEF Financed, Standing
<1>4. CASE Operation
  <2>1. event' = event /\ Trip(p, b, c)
    BY <1>1, <1>4, Trips
  <2> HIDE DEF b, c
  <2>2. Funded(c)
    BY <1>1, <1>3, <2>1, FundedTrip
  <2> QED
    BY <2>1, <2>2 DEF Funded, Active, Occupying, Main, SubscriptionSeats, Live, Priced, c
<1>5. CASE CancelEvent
  <2>1. /\ ~Active(c)
        /\ \/ ~Active(b) /\ Alike(b, c)
           \/ /\ c.status = "cancelled" /\ c.method = "free"
              /\ c.used = Larger(0, b.used -
                            IF Occupying(b) THEN SubscriptionSeats(b) ELSE 0)
    BY <1>1, <1>5, CancelEventWrites
  <2> HIDE DEF b, c
  <2>2. ~Occupying(c) /\ ~Main(c)
    BY <2>1 DEF Active, Occupying, Main
  <2>3. c.method = "free" /\ c.used = OtherUsed + 0
    <3>1. CASE ~Active(b) /\ Alike(b, c)
      <4>1. ~Occupying(b)
        BY <3>1 DEF Active, Occupying, Main
      <4> QED BY <1>3, <3>1, <4>1 DEF Funded, Alike
    <3>2. CASE /\ c.method = "free"
               /\ c.used = Larger(0, b.used -
                             IF Occupying(b) THEN SubscriptionSeats(b) ELSE 0)
      <4> DEFINE n == IF Occupying(b) THEN SubscriptionSeats(b) ELSE 0
      <4>1. n \in Nat /\ OtherUsed \in Nat /\ b.used = OtherUsed + n
        BY <1>3, SessionsOfSeats DEF Funded
      <4>2. c.used = Larger(0, b.used - n)
        BY <3>2
      <4> HIDE DEF n
      <4> QED BY <3>2, <4>1, <4>2 DEF Larger
    <3> QED BY <2>1, <3>1, <3>2
  <2> QED
    BY <2>1, <2>2, <2>3 DEF Funded, Active, Occupying, Main, SubscriptionSeats, Live, c
<1>6. CASE SettleSplit
  <2>1. /\ PriceMode = "split" /\ c.method = b.method /\ c.used = b.used
        /\ \/ ~Main(b) /\ Alike(b, c)
           \/ Main(b) /\ c.status = "pending_payment"
    BY <1>1, <1>6, SettleSplitWrites
  <2> HIDE DEF b, c
  <2>2. b.method # "subscription" /\ ~Priced
    BY <1>3, <2>1 DEF Shared, Priced
  <2>3. SubscriptionSeats(b) = 0
    BY <2>2 DEF SubscriptionSeats
  <2>4. c.used = OtherUsed + 0 /\ (~Active(c) => c.method = "free")
    <3>1. Active(b) <=> Active(c)
      BY <2>1 DEF Alike, Active, Main
    <3> QED BY <1>3, <2>1, <2>3, <3>1 DEF Funded
  <2> QED
    BY <2>1, <2>2, <2>4
       DEF Funded, Active, Occupying, Main, SubscriptionSeats, Live, Priced, c
<1>7. CASE Rearranged
  <2>1. Alike(b, c)
    BY <1>7 DEF Rearranged
  <2>2. Active(b) => (Priced <=> Priced')
    BY <1>1 DEF StandingPrice, Priced
  <2> HIDE DEF b, c
  <2>3. CASE Active(b)
    <3>1. Funded(c)
      BY <1>3, <2>1, FundedAlike DEF Alike
    <3>2. Funded(c) => Funded(row[p])'
      BY <2>2, <2>3 DEF Funded, Active, Occupying, Main, SubscriptionSeats, Live, c
    <3> QED BY <3>1, <3>2
  <2>4. CASE ~Active(b)
    <3>1. ~Occupying(b) /\ ~Active(c) /\ ~Occupying(c) /\ ~Main(c)
      BY <2>1, <2>4 DEF Alike, Active, Occupying, Main
    <3>2. c.method = "free" /\ c.used = OtherUsed + 0
      BY <1>3, <2>1, <2>4, <3>1 DEF Funded, Alike
    <3> QED
      BY <3>1, <3>2 DEF Funded, Active, Occupying, Main, SubscriptionSeats, Live, c
  <2> QED BY <2>3, <2>4
<1> QED
  BY <1>1, <1>4, <1>5, <1>6, <1>7, Steps

LEMMA FinancedAlways == Spec /\ [][StandingPrice]_vars => []Financed
<1>1. Init => Financed
  BY FinancedInit
<1>2. Financed /\ [Next]_vars /\ [StandingPrice]_vars => Financed'
  <2>1. UNCHANGED vars => StandingPrice
    BY DEF vars, StandingPrice
  <2> QED BY <2>1, FinancedNext
<1> QED BY <1>1, <1>2, PTL DEF Spec

\* At a fixed price that no edit makes free or paid under the bookings, a cash
\* booking of the roster has one live payment per seat and waits exactly while
\* one is unpaid, and who only waits owes nothing.
THEOREM MoneyFollowsSeats == Spec /\ [][StandingPrice]_vars => []MoneyMatchesSeats
<1>1. ASSUME Financed PROVE MoneyMatchesSeats
  <2> SUFFICES ASSUME Priced, NEW p \in Players
      PROVE  LET b == row[p] IN
             /\ (Occupying(b) /\ b.method = "cash") => Live(b) = b.seats
             /\ Main(b) => (b.status = "pending_payment" <=> b.pend > 0)
             /\ Live(b) <= TakenBy(b)
    BY DEF MoneyMatchesSeats
  <2>1. Good(row[p]) /\ Funded(row[p])
    BY <1>1, InvFacts DEF Financed, Standing
  <2> QED BY <2>1 DEF Good, Funded
<1> QED BY <1>1, FinancedAlways, PTL

\* Under the same condition no step loses or mints a session: promotions to
\* cash, rejections, releases and cancellations give back what was spent.
THEOREM NoSessionLost == Spec /\ [][StandingPrice]_vars => []SessionsConserved
<1>1. Financed => SessionsConserved
  BY DEF Financed, Funded, SessionsConserved
<1> QED BY <1>1, FinancedAlways, PTL

\* Under the same condition the cancellation of an event gives everything back,
\* and nothing that happens to the event later takes it again.
THEOREM CancelledIsEmpty == Spec /\ [][StandingPrice]_vars => []CancelledEventIsEmpty
<1>1. ASSUME Financed PROVE CancelledEventIsEmpty
  <2> SUFFICES ASSUME event.status = "cancelled", NEW p \in Players
      PROVE  ~Active(row[p]) /\ Live(row[p]) = 0 /\ row[p].used = OtherUsed
    BY DEF CancelledEventIsEmpty
  <2>1. Good(row[p]) /\ Funded(row[p]) /\ ~Active(row[p])
    BY <1>1, InvFacts DEF Financed, Standing, Emptied
  <2>2. ~Occupying(row[p])
    BY <2>1 DEF Active, Occupying, Main
  <2>3. row[p].pend = 0 /\ row[p].paid = 0 /\ OtherUsed \in Nat
    BY <2>1, <2>2, SessionsOfSeats
  <2> QED BY <2>1, <2>2, <2>3 DEF Funded, Live
<1> QED BY <1>1, FinancedAlways, PTL

-----------------------------------------------------------------------------
(* Offers and the queue behind them.                                        *)

\* The organizer never moves the start of a game under way to a later time.
\* The code allows it, and an offer left behind by attendance is then open.
NoReturn == event.phase = "started" => event'.phase = "started"

Covered == Inv /\ \A p \in Players : Backed(row[p])

LEMMA CoveredNext ==
  ASSUME Covered, [Next]_vars, NoReturn
  PROVE  Covered'
<1>1. Inv /\ Inv' /\ event.price \in Nat
  BY InvNext, MoneyAssumption DEF Covered, Inv, TypeOK, Event
<1>2. SUFFICES ASSUME NEW p \in Players, event'.phase # "started"
               PROVE  row'[p].offered <= Queued(row'[p])
  BY <1>1 DEF Covered, Backed, Queued, Main
<1> DEFINE b == row[p]
           c == row'[p]
<1>3. Good(b) /\ b.offered <= Queued(b)
  BY <1>1, <1>2, InvFacts DEF Covered, Backed, NoReturn
<1>4. Queued(c) \in Nat
  <2>1. (\A q \in Players : Good(row[q]))'
    BY <1>1, InvFacts DEF Inv, Fits, GoodRows
  <2>2. Good(c)
    BY <2>1 DEF Good, Active, Live, TakenBy, Occupying, Main
  <2> QED BY <2>2, GoodNumbers DEF SeatCount
<1>5. CASE Operation
  <2>1. event' = event /\ Trip(p, b, c)
    BY <1>1, <1>5, Trips
  <2> HIDE DEF b, c
  <2>2. Backed(c)
    BY <1>1, <1>3, <2>1, BackedTrip DEF Backed
  <2> QED BY <1>2, <2>1, <2>2 DEF Backed, c
<1>6. CASE CancelEvent
  <2>1. c.offered = 0
    BY <1>1, <1>6, CancelEventWrites
  <2> QED BY <1>4, <2>1
<1>7. CASE SettleSplit
  <2>1. c.offered = 0
    BY <1>1, <1>7, SettleSplitWrites
  <2> QED BY <1>4, <2>1
<1>8. CASE Rearranged
  <2>1. Alike(b, c) /\ c.offered \in {0, b.offered}
    BY <1>8 DEF Rearranged
  <2> HIDE DEF b, c
  <2>2. Queued(c) = Queued(b)
    BY <2>1 DEF Alike, Queued, Main
  <2> QED BY <1>3, <1>4, <2>1, <2>2 DEF c
<1> QED
  BY <1>1, <1>5, <1>6, <1>7, <1>8, Steps

\* Until the game starts an open offer is backed by seats its booking still has
\* in the queue, whatever is reduced, accepted, lapsed or edited meanwhile.
THEOREM OffersAreBacked == Spec /\ [][NoReturn]_vars => []OfferBacked
<1>1. Init => Covered
  <2>1. Init => \A p \in Players : row[p] = Absent
    BY DEF Init
  <2>2. Absent.offered = 0 /\ Queued(Absent) = 0
    BY DEF Absent, Queued, Main
  <2> QED BY <2>1, <2>2, InvInit DEF Covered, Backed
<1>2. Covered /\ [Next]_vars /\ [NoReturn]_vars => Covered'
  <2>1. UNCHANGED vars => NoReturn
    BY DEF vars, NoReturn
  <2> QED BY <2>1, CoveredNext
<1>3. ASSUME Covered PROVE OfferBacked
  <2> SUFFICES ASSUME event.phase # "started", NEW p \in Players
      PROVE  HeldBy(row[p]) <= Queued(row[p])
    BY DEF OfferBacked
  <2>1. Good(row[p]) /\ row[p].offered <= Queued(row[p])
    BY <1>3, InvFacts DEF Covered, Backed
  <2>2. Queued(row[p]) \in Nat
    BY <2>1, GoodNumbers DEF SeatCount
  <2> QED BY <2>1, <2>2 DEF HeldBy
<1> QED BY <1>1, <1>2, <1>3, PTL DEF Spec

-----------------------------------------------------------------------------
(* The order of the queue: first come, first served.                       *)

\* Who is promoted is in the roster, and waits for what is left.
LEMMA PromotedIsMain ==
  ASSUME NEW p \in Players, NEW b, Good(b), NEW n \in 1 .. MaxSeats, n <= Queued(b),
         event.price \in Nat
  PROVE  LET c == Promoted(p, b, n) IN
         Main(c) /\ c.status # "waitlisted" /\ c.wl = Queued(b) - n /\ c.offered = b.offered
<1> DEFINE c == Promoted(p, b, n)
<1>1. n \in SeatCount /\ n <= n /\ 1 <= n
  BY AssumptionsHold DEF SeatCount, Assumptions
<1>2. CASE b.status = "waitlisted"
  <2>1. n <= b.seats /\ c = PromoteWaiting(p, b, n) /\ Queued(b) = b.seats
    BY <1>2, PromotedCases DEF Queued, Main
  <2> HIDE DEF c
  <2>2. Admitted(b, n, c)
    BY <1>1, <1>2, <2>1, PromoteWaitingFields
  <2> QED BY <2>1, <2>2 DEF Admitted, Main, c
<1>3. CASE b.status # "waitlisted"
  <2>1. /\ Main(b) /\ n <= b.wl /\ c = AddMainSeats(p, b, n, n) /\ Queued(b) = b.wl
        /\ b.seats + b.wl + n - n <= MaxSeats
    BY <1>3, PromotedCases DEF Queued
  <2> HIDE DEF c
  <2>2. Grown(b, n, n, c)
    BY <1>1, <2>1, AddMainSeatsFields
  <2>3. c.status \in {b.status, "pending_payment"} /\ c.wl = b.wl - n /\ c.offered = b.offered
    BY <2>2 DEF Grown
  <2> QED BY <1>3, <2>1, <2>3 DEF Main, c
<1> QED BY <1>2, <1>3

-----------------------------------------------------------------------------
(* Queued seats beside seats of the roster.                                 *)

\* Only a booking that stands in the roster has queued seats beside them.
Lined(b) == b.wl > 0 => Main(b)

\* Neither a move nor an operation gives queued seats to one outside the roster.
LEMMA LinedMoved ==
  ASSUME NEW p \in Players, NEW b, Good(b), Lined(b), NEW c, Moved(p, b, c),
         event.price \in Nat
  PROVE  Lined(c)
<1>1. PICK x \in {b, Lapse(b)} : c = x \/ Offered(x, c) \/ Seated(p, x, c)
  BY DEF Moved
<1>2. Good(x) /\ Lined(x)
  <2>1. Good(x) /\ (x = b \/ x.wl = 0)
    BY <1>1, LapseFields
  <2> QED BY <2>1 DEF Lined
<1>3. CASE Offered(x, c)
  <2>1. PICK n \in 1 .. MaxSeats : c = OfferTo(x, n)
    BY <1>3 DEF Offered
  <2>2. c.status = x.status /\ c.wl = x.wl
    BY <1>2, <2>1, OfferToFields
  <2> QED BY <1>2, <2>2 DEF Lined, Main
<1>4. CASE Seated(p, x, c)
  <2>1. PICK n \in 1 .. MaxSeats : n <= Queued(x) /\ c = Promoted(p, x, n)
    BY <1>4 DEF Seated
  <2> QED BY <1>2, <2>1, PromotedIsMain DEF Lined
<1> QED BY <1>1, <1>2, <1>3, <1>4

LEMMA LinedOwn ==
  ASSUME NEW p \in Players, NEW b, Good(b), Lined(b), NEW c, Own(p, b, c),
         event.price \in Nat
  PROVE  Lined(c)
<1>1. CASE Joined(p, b, c)
  <2>1. PICK main \in SeatCount, queue \in SeatCount, m \in Methods :
          /\ main + queue \in 1 .. MaxSeats
          /\ PriceMode = "split" => m = "cash"
          /\ c = NewBooking(b, main, queue, m)
    BY <1>1 DEF Joined
  <2>2. ~Active(b) /\ m \in {"cash", "subscription"}
    BY <1>1, MoneyAssumption DEF Joined
  <2>3. Placed(b, main, queue, m, c)
    BY <2>1, <2>2, NewBookingFields
  <2> QED BY <2>3 DEF Placed, Lined, Main
<1>2. CASE Enlarged(p, b, c)
  <2>1. PICK n \in 1 .. MaxSeats : b.seats + n <= MaxSeats /\ c = AddMainSeats(p, b, n, 0)
    BY <1>2 DEF Enlarged
  <2>2. /\ Main(b) /\ b.wl = 0 /\ n \in SeatCount /\ 0 \in SeatCount /\ 1 <= n /\ 0 <= n
        /\ b.seats + b.wl + n - 0 <= MaxSeats
    BY <1>2, <2>1, GoodNumbers, Values DEF Enlarged, SeatCount
  <2>3. Grown(b, n, 0, c)
    BY <2>1, <2>2, AddMainSeatsFields
  <2> QED BY <2>2, <2>3 DEF Grown, Lined, Main
<1>3. CASE Reduced(b, c)
  <2>1. \/ c.wl = 0
        \/ /\ Main(b)
           /\ c.status = IF Live(c) = 0
                         THEN IF b.method = "subscription" THEN "confirmed" ELSE b.status
                         ELSE IF c.pend > 0 THEN "pending_payment" ELSE "confirmed"
    BY <1>3, ReducedFields
  <2>2. c.wl = 0 \/ (Main(b) /\ c.status \in {b.status, "confirmed", "pending_payment"})
    BY <2>1
  <2>3. c.wl > 0 => c.wl # 0
    OBVIOUS
  <2>4. Main(b) /\ c.status \in {b.status, "confirmed", "pending_payment"} => Main(c)
    BY DEF Main
  <2> QED BY <2>2, <2>3, <2>4, Zenon DEF Lined
<1>4. CASE Left(b, c)
  <2>1. c.wl = 0
    BY <1>4, LeftFields
  <2> QED BY <2>1 DEF Lined
<1>5. CASE Accepted(p, b, c)
  <2>1. CASE b.offered = 0
    BY <1>5, <2>1 DEF Accepted
  <2>2. CASE b.offered # 0
    <3>1. b.offered \in 1 .. MaxSeats /\ b.offered <= Queued(b)
      BY <1>5, <2>2, GoodNumbers, AssumptionsHold DEF Accepted, SeatCount, Assumptions
    <3>2. Main(Promoted(p, b, b.offered)) /\ Good(Promoted(p, b, b.offered))
      BY <3>1, PromotedIsMain, PromotedIsGood DEF SeatCount
    <3>3. c = Revoked(Promoted(p, b, b.offered))
      BY <1>5 DEF Accepted
    <3> QED BY <3>2, <3>3, RevokedFields DEF Lined, Main
  <2> QED BY <2>1, <2>2
<1>6. CASE Marked(b, c)
  <2>1. c.wl = 0
    BY <1>6, MarkedFields
  <2> QED BY <2>1 DEF Lined
<1>7. CASE Paid(b, c)
  BY <1>7, PaidFields DEF Lined, Main
<1>8. CASE Rejected(b, c)
  <2>1. PaidOnly(b, c)
    BY <1>8, RejectedFields
  <2>2. c.status = "confirmed" \/ c.wl = 0
    BY <2>1, Zenon DEF PaidOnly
  <2>3. c.wl > 0 => c.wl # 0
    OBVIOUS
  <2> QED BY <2>2, <2>3 DEF Lined, Main
<1> QED
  BY <1>1, <1>2, <1>3, <1>4, <1>5, <1>6, <1>7, <1>8 DEF Own

LEMMA LinedTrip ==
  ASSUME NEW p \in Players, NEW b, Good(b), Lined(b), NEW c, Trip(p, b, c),
         event.price \in Nat
  PROVE  Lined(c)
<1>1. PICK x, y : Moved(p, b, x) /\ (y = x \/ Own(p, x, y)) /\ Moved(p, y, c)
  BY DEF Trip
<1>2. Good(x) /\ Lined(x)
  BY <1>1, MovedIsGood, LinedMoved
<1>3. Good(y) /\ Lined(y)
  BY <1>1, <1>2, OwnIsGood, LinedOwn
<1> QED BY <1>1, <1>3, LinedMoved

AllLined == Inv /\ \A p \in Players : Lined(row[p])

LEMMA AllLinedNext ==
  ASSUME AllLined, [Next]_vars
  PROVE  AllLined'
<1>1. Inv /\ Inv' /\ event.price \in Nat
  BY InvNext, MoneyAssumption DEF AllLined, Inv, TypeOK, Event
<1>2. ASSUME NEW p \in Players
      PROVE  Lined(row'[p])
  <2> DEFINE b == row[p]
             c == row'[p]
  <2>1. Good(b) /\ Lined(b)
    BY <1>1, InvFacts DEF AllLined
  <2>2. CASE Operation
    <3>1. Trip(p, b, c)
      BY <1>1, <2>2, Trips
    <3> HIDE DEF b, c
    <3>2. Lined(c)
      BY <1>1, <2>1, <3>1, LinedTrip
    <3> QED BY <3>2 DEF c
  <2>3. CASE CancelEvent
    <3>1. (~Active(b) /\ Alike(b, c)) \/ c.wl = 0
      BY <1>1, <2>3, CancelEventWrites
    <3> QED BY <2>1, <3>1 DEF Alike, Lined, Main
  <2>4. CASE SettleSplit
    <3>1. Alike(b, c) \/ c.wl = 0
      BY <1>1, <2>4, SettleSplitWrites
    <3> QED BY <2>1, <3>1 DEF Alike, Lined, Main
  <2>5. CASE Rearranged
    <3>1. Alike(b, c)
      BY <2>5 DEF Rearranged
    <3> QED BY <2>1, <3>1 DEF Alike, Lined, Main
  <2> QED BY <1>1, <2>2, <2>3, <2>4, <2>5, Steps
<1> QED
  BY <1>1, <1>2 DEF AllLined, Lined, Main

\* Queued seats stand beside seats of the roster in every state.
LEMMA AlwaysLined == Spec => []AllLined
<1>1. Init => AllLined
  <2>1. Init => \A p \in Players : row[p] = Absent
    BY DEF Init
  <2>2. Absent.wl = 0
    BY DEF Absent
  <2> QED BY <2>1, <2>2, InvInit DEF AllLined, Lined
<1>2. AllLined /\ [Next]_vars => AllLined'
  BY AllLinedNext
<1> QED BY <1>1, <1>2, PTL DEF Spec

-----------------------------------------------------------------------------
(* First come, first served.                                                *)

\* Seats go to y only if x, who is ahead of him, got all he waited for: b is
\* what x waited with, c what he has.
Satisfied(b, c) == Queued(c) = 0 \/ (Queued(b) # 0 /\ c.offered = Queued(b))

InTurn ==
  \A a \in ahead :
    (Waits(row[a[1]]) /\ Waits(row[a[2]]) /\ Served(a[2])) =>
      \/ Queued(row'[a[1]]) = 0
      \/ row'[a[1]].offered = Queued(row[a[1]])

\* Someone's booking gets seats, by an offer or at once.
Gains(b, c) == c.offered > b.offered \/ TakenBy(c) > TakenBy(b)

\* One without an offer has none that lapses.
LEMMA WaitingIsNotLapsed ==
  ASSUME NEW rows, NEW p \in Players, rows[p].offered = 0
  PROVE  Expired(rows)[p] = rows[p]
BY DEF Expired

LEMMA UnqueuedWaitsForNothing ==
  ASSUME NEW b, ~InQueue(b), b.wl \in Nat
  PROVE  Queued(b) = 0
BY DEF InQueue, Queued

\* Free seats are offered in the order of the queue.
LEMMA OfferInOrder ==
  ASSUME NEW rows, GoodRows(rows), NEW after \in OfferFreeSeats(rows),
         NEW x \in Players, NEW y \in Players, <<x, y>> \in ahead,
         rows[x].offered = 0, Gains(rows[y], after[y])
  PROVE  Satisfied(rows[x], after[x])
<1>0. Good(rows[x]) /\ Good(rows[y]) /\ rows[x].wl \in Nat
      /\ TakenBy(rows[y]) \in Nat /\ rows[y].offered \in Nat
  BY GoodNumbers DEF GoodRows, SeatCount
<1>1. after # rows
  BY <1>0 DEF Gains
<1>2. PICK got \in Allotments(rows, Free(rows)) :
        after = [q \in Players |-> OfferTo(rows[q], got[q])]
  BY <1>1 DEF OfferFreeSeats
<1>3. /\ after[x] = OfferTo(rows[x], got[x]) /\ after[y] = OfferTo(rows[y], got[y])
  BY <1>2
<1>4. /\ got[x] \in SeatCount /\ got[y] \in SeatCount
      /\ got[x] <= IF Waits(rows[x]) THEN Queued(rows[x]) ELSE 0
      /\ Waits(rows[x]) /\ got[y] > 0 => got[x] = Queued(rows[x])
  BY DEF Allotments
<1>5. got[y] # 0
  BY <1>0, <1>3 DEF Gains, OfferTo
<1>6. CASE Waits(rows[x])
  <2>1. got[x] = Queued(rows[x])
    BY <1>4, <1>5, <1>6 DEF SeatCount
  <2>2. CASE got[x] = 0
    BY <1>3, <2>1, <2>2 DEF OfferTo, Satisfied
  <2>3. CASE got[x] # 0
    BY <1>0, <1>3, <2>1, <2>3, OfferToFields DEF Satisfied
  <2> QED BY <2>2, <2>3
<1>7. CASE ~Waits(rows[x])
  <2>1. got[x] = 0
    BY <1>4, <1>7 DEF SeatCount
  <2>2. after[x] = rows[x] /\ ~InQueue(rows[x])
    BY <1>3, <1>7, <2>1 DEF OfferTo, Waits
  <2> QED BY <1>0, <2>2, UnqueuedWaitsForNothing DEF Satisfied
<1> QED BY <1>6, <1>7

\* A promotion of all that waits leaves nothing queued.
LEMMA PromotedInFull ==
  ASSUME NEW p \in Players, NEW b, Good(b), Queued(b) # 0, event.price \in Nat
  PROVE  Queued(Promoted(p, b, Queued(b))) = 0
<1>1. Queued(b) \in 1 .. MaxSeats
  BY GoodNumbers, AssumptionsHold DEF SeatCount, Assumptions
<1>2. LET c == Promoted(p, b, Queued(b)) IN c.status # "waitlisted" /\ c.wl = Queued(b) - Queued(b)
  BY <1>1, PromotedIsMain
<1> QED BY <1>1, <1>2 DEF Queued

\* Freed seats go down the queue in its order, offered or taken at once.
LEMMA PromoteInOrder ==
  ASSUME NEW rows, Fits(rows), event.capacity \in Nat, event.price \in Nat,
         NEW after \in PromoteFromWaitlist(rows),
         NEW x \in Players, NEW y \in Players, <<x, y>> \in ahead,
         rows[x].offered = 0, rows[y].offered = 0, Gains(rows[y], after[y])
  PROVE  Satisfied(rows[x], after[x])
<1> DEFINE now == Expired(rows)
<1>0. GoodRows(now)
  BY ExpiredFits DEF Fits
<1>1. now[x] = rows[x] /\ now[y] = rows[y]
  BY WaitingIsNotLapsed
<1>2. Good(rows[x]) /\ Good(rows[y]) /\ rows[x].wl \in Nat
      /\ TakenBy(rows[y]) \in Nat /\ rows[y].offered \in Nat
  BY GoodNumbers DEF Fits, GoodRows, SeatCount
<1>3. \/ after = rows
      \/ after \in OfferFreeSeats(now)
      \/ \E got \in Allotments(now, Free(now)) :
           after = [q \in Players |-> Promoted(q, now[q], got[q])]
  BY DEF PromoteFromWaitlist
<1> HIDE DEF now
<1>4. CASE after = rows
  BY <1>2, <1>4 DEF Gains
<1>5. CASE after \in OfferFreeSeats(now)
  BY <1>0, <1>1, <1>5, OfferInOrder
<1>6. ASSUME NEW got \in Allotments(now, Free(now)),
             after = [q \in Players |-> Promoted(q, now[q], got[q])]
      PROVE  Satisfied(rows[x], after[x])
  <2>1. after[x] = Promoted(x, rows[x], got[x]) /\ after[y] = Promoted(y, rows[y], got[y])
    BY <1>1, <1>6
  <2>2. /\ got[x] \in SeatCount /\ got[y] \in SeatCount
        /\ got[x] <= IF Waits(rows[x]) THEN Queued(rows[x]) ELSE 0
        /\ Waits(rows[x]) /\ got[y] > 0 => got[x] = Queued(rows[x])
    BY <1>1 DEF Allotments
  <2>3. got[y] # 0
    BY <1>2, <2>1 DEF Gains, Promoted
  <2>4. CASE Waits(rows[x])
    <3>1. got[x] = Queued(rows[x])
      BY <2>2, <2>3, <2>4 DEF SeatCount
    <3>2. CASE got[x] = 0
      <4>1. after[x] = rows[x]
        BY <2>1, <3>2 DEF Promoted
      <4> QED BY <3>1, <3>2, <4>1 DEF Satisfied
    <3>3. CASE got[x] # 0
      BY <1>2, <2>1, <3>1, <3>3, PromotedInFull DEF Satisfied
    <3> QED BY <3>2, <3>3
  <2>5. CASE ~Waits(rows[x])
    <3>1. got[x] = 0
      BY <2>2, <2>5 DEF SeatCount
    <3>2. after[x] = rows[x] /\ ~InQueue(rows[x])
      BY <2>1, <2>5, <3>1 DEF Promoted, Waits
    <3> QED BY <1>2, <3>2, UnqueuedWaitsForNothing DEF Satisfied
  <2> QED BY <2>4, <2>5
<1> QED BY <1>3, <1>4, <1>5, <1>6

\* One booking changes, and gains nothing while it waits.
LEMMA AloneInTurn ==
  ASSUME Inv, NEW p \in Players, NEW c, row' = [row EXCEPT ![p] = c],
         Waits(row[p]) => ~Gains(row[p], c)
  PROVE  InTurn
<1>1. \A q \in Players : row'[q] = IF q = p THEN c ELSE row[q]
  BY DEF Inv, TypeOK
<1>2. \A q \in Players : row[q].offered \in Nat /\ TakenBy(row[q]) \in Nat
  BY InvFacts, GoodNumbers DEF SeatCount
<1>3. \A q \in Players : Waits(row[q]) => ~Gains(row[q], row'[q])
  BY <1>1, <1>2 DEF Gains
<1> QED
  BY <1>3 DEF InTurn, Served, Gains, Inv, TypeOK

\* One booking gives up seats, and those behind it in the queue get them only
\* if it does not want them itself.
Frees(p, c) ==
  /\ Good(c) /\ TakenBy(c) <= TakenBy(row[p]) /\ HeldBy(c) <= HeldBy(row[p])
  /\ Waits(row[p]) => c.offered = 0
  /\ \/ row' = [row EXCEPT ![p] = c]
     \/ /\ row' \in PromoteFromWaitlist([row EXCEPT ![p] = c])
        /\ Waits(row[p]) => Queued(c) \in {0, Queued(row[p])}

\* So seats that a booking gives up are handed on in turn.
LEMMA FreedInTurn ==
  ASSUME Inv, event.price \in Nat, NEW p \in Players, NEW c, Frees(p, c)
  PROVE  InTurn
<1> DEFINE mid == [row EXCEPT ![p] = c]
<1>1. \A q \in Players : mid[q] = IF q = p THEN c ELSE row[q]
  BY DEF Inv, TypeOK
<1>0. /\ Good(c) /\ TakenBy(c) <= TakenBy(row[p]) /\ HeldBy(c) <= HeldBy(row[p])
      /\ Waits(row[p]) => c.offered = 0
  BY DEF Frees
<1>2. \A q \in Players : row[q].offered \in Nat /\ TakenBy(row[q]) \in Nat
  BY InvFacts, GoodNumbers DEF SeatCount
<1>3. Fits(mid) /\ event.capacity \in Nat /\ TakenBy(c) \in Nat
  BY <1>0, InvFacts, OneFewerFits, GoodNumbers DEF Inv, SeatCount
<1>4. CASE row' = mid
  <2>1. Waits(row[p]) => ~Gains(row[p], c)
    BY <1>0, <1>2, <1>3 DEF Gains, Waits
  <2> QED BY <1>4, <2>1, AloneInTurn
<1> HIDE DEF mid
<1>5. ASSUME row' \in PromoteFromWaitlist(mid),
             Waits(row[p]) => Queued(c) \in {0, Queued(row[p])},
             NEW x \in Players, NEW y \in Players, <<x, y>> \in ahead,
             Waits(row[x]), Waits(row[y]), Served(y)
      PROVE  Queued(row'[x]) = 0 \/ row'[x].offered = Queued(row[x])
  <2>1. mid[x].offered = 0 /\ mid[y].offered = 0
    BY <1>0, <1>1, <1>5 DEF Waits
  <2>2. Gains(mid[y], row'[y])
    <3>1. row[y].offered = 0 /\ TakenBy(mid[y]) <= TakenBy(row[y]) /\ TakenBy(mid[y]) \in Nat
      BY <1>0, <1>1, <1>2, <1>3, <1>5 DEF Waits
    <3>2. TakenBy(row'[y]) \in Nat
      <4>1. Fits(row')
        BY <1>3, <1>5, PromoteFits
      <4> QED BY <4>1, GoodNumbers DEF Fits, GoodRows, SeatCount
    <3> QED BY <1>2, <1>5, <2>1, <3>1, <3>2 DEF Gains, Served
  <2>3. Satisfied(mid[x], row'[x])
    BY <1>3, <1>5, <2>1, <2>2, PromoteInOrder
  <2>4. Queued(mid[x]) \in {0, Queued(row[x])}
    BY <1>1, <1>5
  <2> QED BY <2>3, <2>4 DEF Satisfied
<1>6. row' = mid \/ (/\ row' \in PromoteFromWaitlist(mid)
                     /\ Waits(row[p]) => Queued(c) \in {0, Queued(row[p])})
  BY DEF mid, Frees
<1>7. ahead \subseteq Players \X Players
  BY DEF Inv, TypeOK
<1> QED
  BY <1>4, <1>5, <1>6, <1>7 DEF InTurn

\* The queue is served first, then one who does not wait.
LEMMA SettledInTurn ==
  ASSUME Inv, NEW p \in Players, ~Waits(row[p]),
         NEW rows \in SettleQueueBeforeTaking(row), NEW c, row' = [rows EXCEPT ![p] = c]
  PROVE  InTurn
<1> DEFINE now == Expired(row)
<1>1. Fits(now) /\ GoodRows(now) /\ Fits(rows) /\ rows \in [Players -> Row]
  BY InvFacts, ExpiredFits, SettleQueueFits DEF Inv, Fits, GoodRows
<1>2. rows = now \/ rows \in OfferFreeSeats(now)
  BY DEF SettleQueueBeforeTaking
<1>3. \A q \in Players : row[q].offered \in Nat /\ TakenBy(row[q]) \in Nat
  BY InvFacts, GoodNumbers DEF SeatCount
<1> HIDE DEF now
<1>4. ASSUME NEW x \in Players, NEW y \in Players, <<x, y>> \in ahead,
             Waits(row[x]), Waits(row[y]), Served(y)
      PROVE  Queued(row'[x]) = 0 \/ row'[x].offered = Queued(row[x])
  <2>1. row'[x] = rows[x] /\ row'[y] = rows[y]
    BY <1>1, <1>4
  <2>2. now[x] = row[x] /\ now[y] = row[y] /\ row[x].offered = 0
    BY <1>4, WaitingIsNotLapsed DEF Waits, now
  <2>3. Gains(now[y], rows[y])
    BY <1>4, <2>1, <2>2 DEF Served, Gains
  <2>4. rows # now
    BY <1>3, <2>2, <2>3 DEF Gains
  <2>5. Satisfied(now[x], rows[x])
    BY <1>1, <1>2, <1>4, <2>2, <2>3, <2>4, OfferInOrder
  <2> QED BY <2>1, <2>2, <2>5 DEF Satisfied
<1>5. ahead \subseteq Players \X Players
  BY DEF Inv, TypeOK
<1> QED
  BY <1>4, <1>5 DEF InTurn

\* Who books, or books more seats, settles the queue first and waits for nothing.
LEMMA BookInTurn ==
  ASSUME AllLined, NEW p \in Players, NEW n, NEW m, Book(p, n, m)
  PROVE  InTurn
<1>1. ~Active(row[p]) /\ Inv /\ Lined(row[p]) /\ Good(row[p])
  BY InvFacts DEF Book, AllLined
<1>2. ~Waits(row[p])
  <2>1. ~(row[p].wl > 0)
    BY <1>1 DEF Lined, Active, Main
  <2> QED BY <1>1, <2>1 DEF Waits, InQueue, Active
<1>3. \E rows \in SettleQueueBeforeTaking(row) : \E c : row' = [rows EXCEPT ![p] = c]
  BY DEF Book
<1> QED BY <1>1, <1>2, <1>3, SettledInTurn

LEMMA IncreaseInTurn ==
  ASSUME Inv, NEW p \in Players, NEW target, IncreaseSeats(p, target)
  PROVE  InTurn
<1>1. Main(row[p]) /\ row[p].wl = 0
  BY DEF IncreaseSeats
<1>2. ~Waits(row[p])
  <2>1. ~(0 > 0)
    OBVIOUS
  <2> QED BY <1>1, <2>1 DEF Waits, InQueue, Main
<1>3. \E rows \in SettleQueueBeforeTaking(row) : \E c : row' = [rows EXCEPT ![p] = c]
  BY DEF IncreaseSeats, Roster, Tables
<1> QED BY <1>2, <1>3, SettledInTurn

\* The three operations that give up seats.
LEMMA DecreaseFrees ==
  ASSUME Inv, NEW p \in Players, NEW target \in 1 .. MaxSeats,
         DecreaseSeats(p, target)
  PROVE  \E c : Frees(p, c)
<1> DEFINE b == row[p]
<1>1. PICK less, c, after :
        /\ Good(less) /\ Lessened(b, less)
        /\ TakenBy(less) <= TakenBy(b) /\ HeldBy(less) = HeldBy(b)
        /\ c = Revoked(Synced(less)) \/ c = Synced(less)
        /\ Roster(after)
        /\ \/ after = [row EXCEPT ![p] = c]
           \/ /\ after \in PromoteFromWaitlist([row EXCEPT ![p] = c])
              /\ b.offered = 0 => Main(b) /\ less.wl = 0
  BY DecreasedRow
<1>2. Good(b) /\ HeldBy(b) \in SeatCount /\ row' = after
  BY <1>1, InvFacts, GoodNumbers DEF Roster, Tables
<1> DEFINE s == Synced(less)
<1>3. /\ Good(s) /\ s.wl = less.wl /\ s.offered = less.offered
      /\ TakenBy(s) = TakenBy(less) /\ HeldBy(s) = HeldBy(less)
  BY <1>1, SyncedIsGood, SyncedFields
<1>4. less.offered = b.offered /\ less.status = b.status
  BY <1>1, <1>2, LessenedFields
<1>5. s.status # "waitlisted" \/ b.status = "waitlisted"
  BY <1>1, <1>4, SyncedFields
<1> HIDE DEF s
<1>6. /\ Good(c) /\ TakenBy(c) = TakenBy(s) /\ HeldBy(c) <= HeldBy(s) /\ c.wl = s.wl
      /\ c.status = s.status /\ c.offered \in {0, s.offered}
  <2>1. CASE c = s
    BY <1>2, <1>3, <2>1, GoodNumbers DEF SeatCount
  <2>2. CASE c = Revoked(s)
    BY <1>3, <2>2, RevokedIsGood, RevokedFields, GoodNumbers DEF SeatCount
  <2> QED BY <1>1, <2>1, <2>2 DEF s
<1>7. TakenBy(c) <= TakenBy(b) /\ HeldBy(c) <= HeldBy(b)
  BY <1>1, <1>2, <1>3, <1>6
<1>8. Waits(b) => c.offered = 0
  BY <1>3, <1>4, <1>6 DEF Waits
<1>9. ASSUME Waits(b), Main(b), less.wl = 0
      PROVE  Queued(c) = 0
  <2>1. c.wl = 0 /\ c.status # "waitlisted"
    BY <1>3, <1>5, <1>6, <1>9 DEF Main
  <2> QED BY <2>1 DEF Queued
<1>10. \/ row' = [row EXCEPT ![p] = c]
       \/ /\ row' \in PromoteFromWaitlist([row EXCEPT ![p] = c])
          /\ Waits(b) => Queued(c) = 0
  BY <1>1, <1>2, <1>9 DEF Waits
<1>11. Frees(p, c)
  BY <1>6, <1>7, <1>8, <1>10 DEF Frees
<1> QED BY <1>11

LEMMA CancelFrees ==
  ASSUME Inv, NEW p \in Players, CancelBooking(p)
  PROVE  \E c : Frees(p, c)
<1> DEFINE n == IF Main(row[p]) THEN SubscriptionSeats(row[p]) ELSE 0
           c == CancelledBooking(row[p], n)
<1>1. PICK after : /\ Roster(after)
                   /\ \/ after = [row EXCEPT ![p] = c]
                      \/ after \in PromoteFromWaitlist([row EXCEPT ![p] = c])
  BY DEF CancelBooking
<1>2. Good(row[p]) /\ TakenBy(row[p]) \in Nat /\ HeldBy(row[p]) \in Nat
  BY InvFacts, GoodNumbers DEF SeatCount
<1>3. n \in Nat
  BY <1>2, SubscriptionSeatsType DEF SeatCount
<1> HIDE DEF n
<1>4. /\ Good(c) /\ TakenBy(c) = 0 /\ HeldBy(c) = 0 /\ c.status = "cancelled" /\ c.offered = 0
  BY <1>2, <1>3, CancelledBookingIsGood, CancelledFields
<1>5. Queued(c) = 0
  BY <1>4 DEF Queued, Main
<1>6. row' = after
  BY <1>1 DEF Roster, Tables
<1> HIDE DEF c
<1>7. Frees(p, c)
  BY <1>1, <1>2, <1>4, <1>5, <1>6 DEF Frees
<1> QED BY <1>7

LEMMA RejectFrees ==
  ASSUME Inv, NEW p \in Players, RejectPayment(p)
  PROVE  \E c : Frees(p, c)
<1> DEFINE b == row[p]
           kept == b.paid + SubscriptionSeats(b)
           c == IF kept > 0 THEN Synced([b EXCEPT !.pend = 0, !.seats = kept])
                ELSE IF event.phase = "started" THEN Gone(b) ELSE CancelledBooking(b, 0)
           rows == [row EXCEPT ![p] = c]
<1>1. /\ Main(b) /\ b.pend > 0
      /\ \E after \in IF event.phase = "started" THEN {rows} ELSE PromoteFromWaitlist(rows) :
           Roster(after)
  BY Zenon DEF RejectPayment
<1>2. Good(b) /\ kept \in Nat /\ TakenBy(b) \in SeatCount /\ HeldBy(b) \in SeatCount
  <2>1. Good(b) /\ b.paid \in SeatCount
    BY InvFacts, GoodNumbers
  <2>2. SubscriptionSeats(b) \in SeatCount
    BY <2>1, SubscriptionSeatsType
  <2> QED BY <2>1, <2>2, GoodNumbers DEF SeatCount
<1>3. Rejected(b, c)
  BY <1>1, <1>2 DEF Rejected
<1>6. Good(c) /\ TakenBy(c) <= TakenBy(b) /\ HeldBy(c) <= HeldBy(b)
  BY <1>1, <1>2, RejectedShrinks
<1> HIDE DEF c
<1>4. PICK after : /\ Roster(after)
                   /\ after = rows \/ after \in PromoteFromWaitlist(rows)
  BY <1>1
<1>5. row' = after
  BY <1>4 DEF Roster, Tables
<1> HIDE DEF kept
<1>7. Waits(b) => c.offered = 0 /\ Queued(c) \in {0, Queued(b)}
  <2>1. PaidOnly(b, c)
    BY <1>2, <1>3, RejectedFields
  <2>2. \/ c.status = "confirmed" /\ c.wl = b.wl /\ c.offered = b.offered
        \/ c.status = "cancelled" /\ c.offered \in {0, b.offered}
    BY <2>1, Zenon DEF PaidOnly
  <2> QED BY <1>1, <2>2 DEF Queued, Waits, Main
<1>8. Frees(p, c)
  BY <1>4, <1>5, <1>6, <1>7 DEF Frees
<1> QED BY <1>8

\* One booking changes alone.
LEMMA SingleInTurn ==
  ASSUME Inv, NEW p \in Players,
         \/ AcceptOffer(p)
         \/ ConfirmPayment(p)
         \/ \E mark \in {"attended", "no_show"} : BulkAttendance(p, mark)
  PROVE  InTurn
<1> DEFINE b == row[p]
<1>1. Good(b) /\ TakenBy(b) \in Nat /\ b.offered \in Nat
  BY InvFacts, GoodNumbers DEF SeatCount
<1>2. CASE AcceptOffer(p)
  <2>1. ~Waits(b)
    BY <1>2 DEF AcceptOffer, Waits
  <2>2. \E c : row' = [row EXCEPT ![p] = c]
    BY <1>2 DEF AcceptOffer, Roster, Tables
  <2> QED BY <2>1, <2>2, AloneInTurn
<1>3. CASE ConfirmPayment(p)
  <2> DEFINE c == Synced([b EXCEPT !.paid = @ + b.pend, !.pend = 0])
  <2>1. Paid(b, c) /\ row' = [row EXCEPT ![p] = c]
    BY <1>3 DEF ConfirmPayment, Roster, Tables, Paid
  <2>2. TakenBy(c) = TakenBy(b)
    BY <1>1, PaidIsGood, SyncedIsGood
  <2> HIDE DEF b, c
  <2>3. c.offered = b.offered
    BY <1>1, <2>1, PaidFields
  <2>4. ~Gains(b, c)
    BY <1>1, <2>2, <2>3 DEF Gains
  <2> QED BY <2>1, <2>4, AloneInTurn DEF b
<1>4. ASSUME NEW mark \in {"attended", "no_show"}, BulkAttendance(p, mark)
      PROVE  InTurn
  <2> DEFINE c == [b EXCEPT !.status = mark, !.wl = 0]
  <2>1. row' = [row EXCEPT ![p] = c] /\ b.status \in {"confirmed", "attended", "no_show"}
    BY <1>4 DEF BulkAttendance, Roster, Tables
  <2>2. TakenBy(c) = TakenBy(b)
    BY <1>1, <2>1, MarkedIsGood DEF Occupying, Main
  <2>3. c.offered = b.offered
    BY <1>1 DEF Good, Row
  <2> HIDE DEF b, c
  <2>4. ~Gains(b, c)
    BY <1>1, <2>2, <2>3 DEF Gains
  <2> QED BY <2>1, <2>4, AloneInTurn DEF b
<1> QED BY <1>2, <1>3, <1>4

\* The scheduler offers down the queue.
LEMMA SchedulerInTurn ==
  ASSUME Inv, ExpireDueOffers \/ OfferFreeSeatsSweep
  PROVE  InTurn
<1>1. PICK now \in {row, Expired(row)} : row' \in OfferFreeSeats(now)
  BY DEF ExpireDueOffers, OfferFreeSeatsSweep, Roster, Tables
<1>2. GoodRows(now)
  BY <1>1, InvFacts, ExpiredFits DEF Inv, Fits
<1>3. ASSUME NEW x \in Players, NEW y \in Players, <<x, y>> \in ahead,
             Waits(row[x]), Waits(row[y]), Served(y)
      PROVE  Queued(row'[x]) = 0 \/ row'[x].offered = Queued(row[x])
  <2>1. now[x] = row[x] /\ now[y] = row[y] /\ row[x].offered = 0
    BY <1>1, <1>3, WaitingIsNotLapsed DEF Waits
  <2>2. Gains(now[y], row'[y])
    BY <1>3, <2>1 DEF Served, Gains
  <2>3. Satisfied(now[x], row'[x])
    BY <1>1, <1>2, <1>3, <2>1, <2>2, OfferInOrder
  <2> QED BY <2>1, <2>3 DEF Satisfied
<1>4. ahead \subseteq Players \X Players
  BY DEF Inv, TypeOK
<1> QED
  BY <1>3, <1>4 DEF InTurn

\* The others offer nothing and seat nobody.
LEMMA OthersTakeNothing ==
  ASSUME Inv, CancelEvent \/ SettleSplit \/ Rearranged, NEW p \in Players
  PROVE  /\ row'[p].offered \in {0, row[p].offered} /\ row[p].offered \in Nat
         /\ TakenBy(row'[p]) \in {0, TakenBy(row[p])} /\ TakenBy(row[p]) \in Nat
<1> DEFINE b == row[p]
           c == row'[p]
<1>1. b.offered \in Nat /\ b.seats \in Nat /\ TakenBy(b) \in Nat
  BY InvFacts, GoodNumbers DEF SeatCount
<1>2. CASE CancelEvent
  <2>1. c.offered = 0 /\ ~Active(c)
    BY <1>2, CancelEventWrites
  <2> QED BY <1>1, <2>1 DEF TakenBy, Occupying, Main, Active
<1>3. CASE SettleSplit
  <2>1. /\ c.offered = 0 /\ c.seats = b.seats
        /\ (~Main(b) /\ Alike(b, c)) \/ (Main(b) /\ c.status = "pending_payment")
    BY <1>3, SettleSplitWrites
  <2> QED BY <1>1, <2>1 DEF TakenBy, Occupying, Main, Alike
<1>4. CASE Rearranged
  <2>1. Alike(b, c) /\ c.offered \in {0, b.offered}
    BY <1>4 DEF Rearranged
  <2> QED BY <1>1, <2>1 DEF TakenBy, Occupying, Main, Alike
<1> QED BY <1>2, <1>3, <1>4

LEMMA OthersInTurn ==
  ASSUME Inv, CancelEvent \/ SettleSplit \/ Rearranged
  PROVE  InTurn
<1>1. ASSUME NEW p \in Players
      PROVE  ~Served(p)
  BY OthersTakeNothing DEF Served
<1>2. ahead \subseteq Players \X Players
  BY DEF Inv, TypeOK
<1> QED BY <1>1, <1>2 DEF InTurn

\* First come, first served: whoever gives up a seat and however it goes on, it
\* goes to one who waits only if all who wait ahead of him have got theirs.
THEOREM FirstComeFirstServed == Spec => QueueIsFair
<1>1. AllLined /\ [Next]_vars => InTurn
  <2> SUFFICES ASSUME AllLined, [Next]_vars PROVE InTurn
    OBVIOUS
  <2>1. Inv /\ event.price \in Nat
    BY MoneyAssumption DEF AllLined, Inv, TypeOK, Event
  <2>2. Operation => InTurn
    BY <2>1, BookInTurn, IncreaseInTurn, DecreaseFrees, CancelFrees, RejectFrees, FreedInTurn,
       SingleInTurn, SchedulerInTurn DEF Operation
  <2> QED BY <2>1, <2>2, Steps, OthersInTurn
<1>2. QueueIsFair <=> [][InTurn]_vars
  BY Zenon DEF QueueIsFair, InTurn
<1>3. AllLined /\ [Next]_vars => [InTurn]_vars
  BY <1>1
<1> QED BY <1>2, <1>3, AlwaysLined, PTL DEF Spec

-----------------------------------------------------------------------------
(* Nobody overtakes.                                                        *)

Overtaken(p) ==
  (sched /\ TakenBy(row'[p]) > TakenBy(row[p]) /\ row[p].offered = 0) =>
    \A q \in Players \ {p} : ~Waits(row'[q])

\* Offers take no seats, and neither do lapses.
LEMMA OffersOnlyTakeNothing ==
  ASSUME NEW rows, Fits(rows), event.capacity \in Nat, NEW after \in OfferFreeSeats(rows),
         NEW q \in Players
  PROVE  TakenBy(after[q]) = TakenBy(rows[q]) /\ TakenBy(after[q]) \in Nat
<1>1. Good(rows[q]) /\ TakenBy(rows[q]) \in Nat
  BY GoodNumbers DEF Fits, GoodRows, SeatCount
<1>2. after[q] = rows[q] \/ Offered(rows[q], after[q])
  BY OffersMove
<1>3. ASSUME Offered(rows[q], after[q])
      PROVE  TakenBy(after[q]) = TakenBy(rows[q])
  <2>1. PICK n \in 1 .. MaxSeats : after[q] = OfferTo(rows[q], n)
    BY <1>3 DEF Offered
  <2>2. n \in SeatCount /\ rows[q].offered = 0
    BY <1>3 DEF Offered, Waits, SeatCount
  <2> QED BY <1>1, <2>1, <2>2, OfferToIsGood
<1> QED BY <1>1, <1>2, <1>3

\* Nor do lapses followed by offers.
LEMMA OffersTakeNothing ==
  ASSUME NEW rows, Fits(rows), event.capacity \in Nat,
         NEW after, after \in OfferFreeSeats(Expired(rows)) \union {rows, Expired(rows)}
  PROVE  \A q \in Players : TakenBy(after[q]) <= TakenBy(rows[q]) /\ TakenBy(after[q]) \in Nat
<1> SUFFICES ASSUME NEW q \in Players
             PROVE  TakenBy(after[q]) <= TakenBy(rows[q]) /\ TakenBy(after[q]) \in Nat
  OBVIOUS
<1> DEFINE now == Expired(rows)
<1>1. now[q] = Lapse(rows[q])
  BY DEF Expired, Lapse
<1>2. Good(rows[q]) /\ TakenBy(rows[q]) \in Nat
  BY GoodNumbers DEF Fits, GoodRows, SeatCount
<1>3. TakenBy(now[q]) <= TakenBy(rows[q]) /\ TakenBy(now[q]) \in Nat
  <2>1. \/ now[q] = rows[q]
        \/ rows[q].status = "waitlisted" /\ now[q].status = "cancelled"
        \/ now[q].status = rows[q].status /\ now[q].seats = rows[q].seats
    BY <1>1, <1>2, LapseFields
  <2>2. TakenBy(now[q]) \in {0, TakenBy(rows[q])}
    BY <2>1 DEF TakenBy, Occupying, Main
  <2> QED BY <1>2, <2>2
<1>4. Fits(now)
  BY ExpiredFits
<1> HIDE DEF now
<1>5. after[q] \in {rows[q], now[q]} \/ TakenBy(after[q]) = TakenBy(now[q])
  BY <1>4, OffersOnlyTakeNothing DEF now
<1> QED BY <1>2, <1>3, <1>5

\* Seats stay free only if all who waited have an offer for all they wait for.
LEMMA AllHaveOffers ==
  ASSUME AllLined, sched, CanOffer, NEW rows \in SettleQueueBeforeTaking(row), Free(rows) > 0,
         NEW q \in Players
  PROVE  ~Waits(rows[q])
<1> DEFINE now == Expired(row)
<1>1. Inv /\ event.capacity \in Nat /\ event.price \in Nat
  BY InvFacts, MoneyAssumption DEF AllLined, Inv, TypeOK, Event
<1>2. Fits(now) /\ Fits(rows) /\ GoodRows(now) /\ GoodRows(rows)
  BY <1>1, ExpiredFits, SettleQueueFits DEF Inv, Fits
<1>3. Good(now[q]) /\ Lined(now[q])
  <2>1. now[q] = Lapse(row[q]) /\ Good(row[q]) /\ Lined(row[q])
    BY <1>1, InvFacts DEF Expired, Lapse, AllLined
  <2>2. Moved(q, row[q], now[q])
    BY <2>1 DEF Moved
  <2> HIDE DEF now
  <2> QED BY <1>1, <1>2, <2>1, <2>2, LinedMoved DEF GoodRows
<1> HIDE DEF now
<1>4. PICK got \in Allotments(now, Free(now)) :
        rows = [p \in Players |-> OfferTo(now[p], got[p])]
  BY DEF SettleQueueBeforeTaking, OfferFreeSeats, now
<1>5. /\ got \in Counts
      /\ \A p \in Players : got[p] <= IF Waits(now[p]) THEN Queued(now[p]) ELSE 0
  BY <1>1, <1>2, AllotmentsFit
<1>6. Reserved(rows) = Reserved(now) + Total(got)
  <2> DEFINE none == [p \in Players |-> 0]
  <2>1. none \in Counts /\ Total(none) = 0
    BY NoSeats
  <2>2. ASSUME NEW p \in Players
        PROVE  /\ TakenBy(rows[p]) = TakenBy(now[p]) + none[p]
               /\ HeldBy(rows[p]) = HeldBy(now[p]) + got[p]
    <3>1. Good(now[p]) /\ got[p] \in SeatCount /\ TakenBy(now[p]) \in Nat
      BY <1>2, <1>5, GoodNumbers DEF GoodRows, Counts, SeatCount
    <3>2. got[p] > 0 => now[p].offered = 0
      BY <1>5, <3>1 DEF Waits, SeatCount
    <3> QED BY <1>4, <3>1, <3>2, OfferToIsGood
  <2> HIDE DEF none
  <2>3. Reserved(rows) = Reserved(now) + Total(none) + Total(got)
    BY <1>2, <1>5, <2>1, <2>2, ReservedGrows
  <2> QED BY <1>2, <2>1, <2>3, TotalType, ReservedNat
<1>7. Total(got) # Free(now)
  <2>1. /\ Reserved(rows) \in Nat /\ Reserved(now) \in Nat /\ Total(got) \in Nat
        /\ Reserved(now) <= event.capacity
    BY <1>2, ReservedNat, TotalType DEF Fits
  <2>2. Reserved(rows) < event.capacity
    BY <1>1, <2>1 DEF Free, Larger
  <2>3. Free(now) = event.capacity - Reserved(now)
    BY <1>1, <2>1 DEF Free, Larger
  <2> QED BY <1>1, <1>6, <2>1, <2>2, <2>3
<1>8. \A p \in Players : ~(Waits(now[p]) /\ got[p] < Queued(now[p]))
  BY <1>7 DEF Allotments
<1>9. rows[q] = OfferTo(now[q], got[q]) /\ got[q] \in SeatCount /\ Queued(now[q]) \in SeatCount
  BY <1>3, <1>4, <1>5, GoodNumbers DEF Counts
<1>10. CASE Waits(now[q])
  <2>1. Queued(now[q]) > 0
    <3>1. CASE now[q].status = "waitlisted"
      <4>1. now[q].seats \in SeatCount /\ now[q].seats >= 1
        BY <1>3, <3>1, GoodNumbers DEF Good, Active
      <4> QED BY <3>1, <4>1 DEF Queued, SeatCount
    <3>2. CASE now[q].status # "waitlisted"
      <4>1. now[q].wl > 0
        BY <1>10, <3>2 DEF Waits, InQueue
      <4>2. Main(now[q])
        BY <1>3, <4>1 DEF Lined
      <4> QED BY <3>2, <4>1, <4>2 DEF Queued
    <3> QED BY <3>1, <3>2
  <2>2. got[q] # 0
    BY <1>8, <1>9, <1>10, <2>1 DEF SeatCount
  <2>3. rows[q].offered = got[q]
    BY <1>3, <1>9, <2>2, OfferToFields
  <2> QED BY <2>2, <2>3 DEF Waits
<1>11. CASE ~Waits(now[q])
  <2>1. got[q] = 0
    BY <1>5, <1>9, <1>11 DEF SeatCount
  <2> QED BY <1>9, <1>11, <2>1 DEF OfferTo
<1> QED BY <1>10, <1>11

\* Seats of one who is served after the queue.
LEMMA LastServed ==
  ASSUME AllLined, NEW p \in Players, NEW rows \in SettleQueueBeforeTaking(row),
         NEW c, row' = [rows EXCEPT ![p] = c],
         TakenBy(c) > TakenBy(row[p]) => Free(rows) > 0 /\ (sched => CanOffer)
  PROVE  \A r \in Players : Overtaken(r)
<1> SUFFICES ASSUME NEW r \in Players, sched, TakenBy(row'[r]) > TakenBy(row[r]),
                    NEW q \in Players \ {r}
             PROVE  ~Waits(row'[q])
  BY DEF Overtaken
<1>1. Inv /\ event.capacity \in Nat /\ Fits(row) /\ TakenBy(row[r]) \in Nat
  BY InvFacts, GoodNumbers DEF AllLined, Inv, SeatCount
<1>2. rows \in [Players -> Row]
  BY <1>1, SettleQueueFits DEF Fits, GoodRows
<1>3. TakenBy(rows[r]) <= TakenBy(row[r]) /\ TakenBy(rows[r]) \in Nat
  <2>1. rows \in OfferFreeSeats(Expired(row)) \union {row, Expired(row)}
    BY DEF SettleQueueBeforeTaking
  <2> QED BY <1>1, <2>1, OffersTakeNothing
<1>4. r = p
  BY <1>1, <1>2, <1>3
<1>5. row'[r] = c /\ row'[q] = rows[q]
  BY <1>2, <1>4
<1>6. Free(rows) > 0 /\ CanOffer
  BY <1>4, <1>5
<1> QED BY <1>5, <1>6, AllHaveOffers

\* Seats given up are only offered while the scheduler runs.
LEMMA GivenUpOnly ==
  ASSUME Inv, NEW p \in Players, NEW c, Good(c),
         TakenBy(c) <= TakenBy(row[p]), HeldBy(c) <= HeldBy(row[p]),
         \/ row' = [row EXCEPT ![p] = c]
         \/ row' \in PromoteFromWaitlist([row EXCEPT ![p] = c])
  PROVE  \A r \in Players : Overtaken(r)
<1> DEFINE mid == [row EXCEPT ![p] = c]
<1> SUFFICES ASSUME NEW r \in Players, sched PROVE ~(TakenBy(row'[r]) > TakenBy(row[r]))
  BY DEF Overtaken
<1>1. Fits(mid) /\ event.capacity \in Nat /\ TakenBy(row[r]) \in Nat /\ TakenBy(c) \in Nat
  BY InvFacts, OneFewerFits, GoodNumbers DEF Inv, SeatCount
<1>2. TakenBy(mid[r]) <= TakenBy(row[r]) /\ TakenBy(mid[r]) \in Nat
  <2>1. mid[r] = IF r = p THEN c ELSE row[r]
    BY DEF Inv, TypeOK
  <2> QED BY <1>1, <2>1
<1> HIDE DEF mid
<1>3. row' \in OfferFreeSeats(Expired(mid)) \union {mid, Expired(mid)}
  <2>1. row' = mid \/ row' \in PromoteFromWaitlist(mid)
    BY DEF mid
  <2> QED BY <2>1 DEF PromoteFromWaitlist
<1>4. TakenBy(row'[r]) <= TakenBy(mid[r]) /\ TakenBy(row'[r]) \in Nat
  BY <1>1, <1>3, OffersTakeNothing
<1> QED BY <1>1, <1>2, <1>4

\* While players can book, the queue is offered seats.
LEMMA OpenOffers ==
  ASSUME Open, ~event.settled
  PROVE  CanOffer
BY DEF Open, CanOffer

\* Who books seats, or more of them, gets those the queue has left.
LEMMA BookOvertakesNobody ==
  ASSUME AllLined, NEW p \in Players, NEW n \in 1 .. MaxSeats, NEW m \in Methods, Book(p, n, m)
  PROVE  \A r \in Players : Overtaken(r)
<1>1. PICK rows \in SettleQueueBeforeTaking(row), later \in Later(p) :
        LET main == Smaller(Free(rows), n)
            booked == [rows EXCEPT ![p] = NewBooking(@, main, n - main, m)]
        IN  row' = booked
  BY DEF Book
<1> DEFINE main == Smaller(Free(rows), n)
           c == NewBooking(rows[p], main, n - main, m)
<1>2. Inv /\ event.capacity \in Nat /\ event.price \in Nat /\ Good(row[p])
  BY InvFacts, MoneyAssumption DEF AllLined, Inv, TypeOK, Event
<1>3. Fits(rows) /\ Good(rows[p]) /\ ~Active(rows[p]) /\ rows \in [Players -> Row]
  <2>1. Fits(rows) /\ Untouched(row[p], rows[p]) /\ ~Active(row[p])
    BY <1>2, SettleQueueFits DEF Inv, Book
  <2> QED BY <2>1 DEF Untouched, Fits, GoodRows
<1>4. row' = [rows EXCEPT ![p] = c] /\ CanOffer
  BY <1>1, OpenOffers DEF Book
<1>5. main \in 0 .. n /\ (Free(rows) = 0 => main = 0) /\ Free(rows) \in Nat
  <2>1. Reserved(rows) \in Nat /\ Reserved(rows) <= event.capacity
    BY <1>3, ReservedNat DEF Fits
  <2>2. Free(rows) = event.capacity - Reserved(rows)
    BY <1>2, <2>1 DEF Free, Larger
  <2> QED BY <1>2, <2>1, <2>2 DEF Smaller
<1> HIDE DEF main
<1>6. main = 0 => c.status = "waitlisted"
  <2> SUFFICES ASSUME main = 0 PROVE c.status = "waitlisted"
    OBVIOUS
  <2>1. rows[p] \in Row
    BY <1>3 DEF Good
  <2> QED BY <2>1 DEF NewBooking, Row
<1> HIDE DEF c
<1>7. TakenBy(row[p]) \in Nat
  BY <1>2, GoodNumbers DEF SeatCount
<1>8. TakenBy(c) > TakenBy(row[p]) => Free(rows) > 0
  <2> SUFFICES ASSUME Free(rows) = 0 PROVE ~(TakenBy(c) > TakenBy(row[p]))
    BY <1>5
  <2>1. TakenBy(c) = 0
    BY <1>5, <1>6 DEF TakenBy, Occupying, Main
  <2> QED BY <1>7, <2>1
<1> QED BY <1>4, <1>8, LastServed

LEMMA IncreaseOvertakesNobody ==
  ASSUME AllLined, NEW p \in Players, NEW target \in 1 .. MaxSeats, IncreaseSeats(p, target)
  PROVE  \A r \in Players : Overtaken(r)
<1>1. PICK rows \in SettleQueueBeforeTaking(row) :
        /\ Free(rows) >= target - row[p].seats
        /\ \E c : row' = [rows EXCEPT ![p] = c]
  BY DEF IncreaseSeats, Roster, Tables
<1>2. target - row[p].seats > 0 /\ CanOffer
  BY OpenOffers DEF IncreaseSeats
<1>3. Free(rows) > 0
  <2>1. Inv /\ event.capacity \in Nat /\ row[p].seats \in Nat
    BY InvFacts, GoodNumbers DEF AllLined, SeatCount
  <2>2. Reserved(rows) \in Nat
    BY <2>1, SettleQueueFits, ReservedNat DEF Inv, Fits
  <2>3. Free(rows) \in Int
    BY <2>1, <2>2 DEF Free, Larger
  <2> QED BY <1>1, <1>2, <2>1, <2>3
<1> QED BY <1>1, <1>2, <1>3, LastServed

\* Who gives up seats leaves them to the queue.
LEMMA FreesOvertakesNobody ==
  ASSUME Inv, NEW p \in Players, NEW c, Frees(p, c)
  PROVE  \A r \in Players : Overtaken(r)
<1>1. /\ Good(c) /\ TakenBy(c) <= TakenBy(row[p]) /\ HeldBy(c) <= HeldBy(row[p])
      /\ \/ row' = [row EXCEPT ![p] = c]
         \/ row' \in PromoteFromWaitlist([row EXCEPT ![p] = c])
  BY DEF Frees
<1> QED BY <1>1, GivenUpOnly

\* One booking changes alone, and takes seats only from an offer of his.
LEMMA SingleOvertakesNobody ==
  ASSUME Inv, NEW p \in Players,
         \/ AcceptOffer(p)
         \/ ConfirmPayment(p)
         \/ \E mark \in {"attended", "no_show"} : BulkAttendance(p, mark)
  PROVE  \A r \in Players : Overtaken(r)
<1> DEFINE b == row[p]
<1>1. /\ Good(b) /\ \A r \in Players : TakenBy(row[r]) \in Nat
      /\ row \in [Players -> Row]
  BY InvFacts, GoodNumbers DEF Inv, TypeOK, SeatCount
<1>2. ASSUME NEW c, row' = [row EXCEPT ![p] = c],
             TakenBy(c) = TakenBy(b) \/ b.offered # 0
      PROVE  \A r \in Players : Overtaken(r)
  <2>1. TakenBy(row'[p]) = TakenBy(row[p]) \/ row[p].offered # 0
    BY <1>1, <1>2
  <2>2. \A r \in Players \ {p} : row'[r] = row[r]
    BY <1>1, <1>2
  <2> HIDE DEF b
  <2>3. \A r \in Players : TakenBy(row'[r]) = TakenBy(row[r]) \/ row[r].offered # 0
    BY <2>1, <2>2
  <2> QED BY <1>1, <2>3 DEF Overtaken
<1>3. CASE AcceptOffer(p)
  <2>1. b.offered # 0
    <3>1. b.offered > 0
      BY <1>3 DEF AcceptOffer
    <3> QED BY <3>1
  <2>2. \E c : row' = [row EXCEPT ![p] = c]
    BY <1>3 DEF AcceptOffer, Roster, Tables
  <2> QED BY <1>2, <2>1, <2>2
<1>4. CASE ConfirmPayment(p)
  <2> DEFINE c == Synced([b EXCEPT !.paid = @ + b.pend, !.pend = 0])
  <2>1. Paid(b, c) /\ row' = [row EXCEPT ![p] = c]
    BY <1>4 DEF ConfirmPayment, Roster, Tables, Paid
  <2>2. TakenBy(c) = TakenBy(b)
    BY <1>1, <2>1, PaidIsGood, SyncedIsGood
  <2> HIDE DEF c
  <2> QED BY <1>2, <2>1, <2>2
<1>5. ASSUME NEW mark \in {"attended", "no_show"}, BulkAttendance(p, mark)
      PROVE  \A r \in Players : Overtaken(r)
  <2> DEFINE c == [b EXCEPT !.status = mark, !.wl = 0]
  <2>1. row' = [row EXCEPT ![p] = c] /\ b.status \in {"confirmed", "attended", "no_show"}
    BY <1>5 DEF BulkAttendance, Roster, Tables
  <2>2. TakenBy(c) = TakenBy(b)
    BY <1>1, <2>1, MarkedIsGood DEF Occupying, Main
  <2> HIDE DEF c
  <2> QED BY <1>2, <2>1, <2>2
<1> QED BY <1>3, <1>4, <1>5

\* The scheduler offers and seats nobody.
LEMMA SchedulerOvertakesNobody ==
  ASSUME Inv, ExpireDueOffers \/ OfferFreeSeatsSweep
  PROVE  \A r \in Players : Overtaken(r)
<1> SUFFICES ASSUME NEW r \in Players PROVE ~(TakenBy(row'[r]) > TakenBy(row[r]))
  BY DEF Overtaken
<1>1. PICK now \in {row, Expired(row)} : row' \in OfferFreeSeats(now)
  BY DEF ExpireDueOffers, OfferFreeSeatsSweep, Roster, Tables
<1>2. Fits(row) /\ Fits(now) /\ event.capacity \in Nat /\ TakenBy(row[r]) \in Nat
  BY <1>1, InvFacts, ExpiredFits, GoodNumbers DEF Inv, SeatCount
<1>3. TakenBy(now[r]) <= TakenBy(row[r])
  BY <1>1, <1>2, OffersTakeNothing
<1>4. TakenBy(row'[r]) <= TakenBy(now[r]) /\ TakenBy(row'[r]) \in Nat
  BY <1>1, <1>2, OffersOnlyTakeNothing
<1>5. TakenBy(now[r]) \in Nat
  BY <1>2, GoodNumbers DEF Fits, GoodRows, SeatCount
<1> QED BY <1>2, <1>3, <1>4, <1>5

LEMMA OthersOvertakeNobody ==
  ASSUME Inv, CancelEvent \/ SettleSplit \/ Rearranged
  PROVE  \A r \in Players : Overtaken(r)
<1> SUFFICES ASSUME NEW p \in Players PROVE ~(TakenBy(row'[p]) > TakenBy(row[p]))
  BY DEF Overtaken
<1>1. TakenBy(row[p]) \in Nat /\ TakenBy(row'[p]) \in {0, TakenBy(row[p])}
  BY OthersTakeNothing
<1> QED BY <1>1

\* Nobody overtakes: while the scheduler runs, who gets seats in the roster
\* without an offer leaves nobody behind who waits without one.
THEOREM NobodyIsOvertaken == Spec => NobodyOvertakes
<1>1. AllLined /\ [Next]_vars => \A p \in Players : Overtaken(p)
  <2> SUFFICES ASSUME AllLined, [Next]_vars PROVE \A p \in Players : Overtaken(p)
    OBVIOUS
  <2>1. Inv
    BY DEF AllLined
  <2>2. Operation => \A p \in Players : Overtaken(p)
    BY <2>1, BookOvertakesNobody, IncreaseOvertakesNobody, DecreaseFrees, CancelFrees,
       RejectFrees, FreesOvertakesNobody, SingleOvertakesNobody, SchedulerOvertakesNobody
       DEF Operation
  <2> QED BY <2>1, <2>2, Steps, OthersOvertakeNobody
<1>2. NobodyOvertakes <=> [][\A p \in Players : Overtaken(p)]_vars
  BY Zenon DEF NobodyOvertakes, Overtaken
<1>3. AllLined /\ [Next]_vars => [\A p \in Players : Overtaken(p)]_vars
  BY <1>1
<1> QED BY <1>2, <1>3, AlwaysLined, PTL DEF Spec

-----------------------------------------------------------------------------
(* The order of the queue is an order.                                      *)

\* order ranks the members of a set, each once.
Ranks(order, A) ==
  /\ \A a \in order : a[1] \in A /\ a[2] \in A /\ <<a[2], a[1]>> \notin order
  /\ \A p, q \in A : p # q => <<p, q>> \in order \/ <<q, p>> \in order
  /\ \A a, b \in order : a[2] = b[1] => <<a[1], b[2]>> \in order

Actives == {p \in Players : Active(row[p])}

\* Those left keep their places.
LEMMA RanksThoseLeft ==
  ASSUME NEW A, NEW order \in SUBSET (A \X A), Ranks(order, A), NEW B \in SUBSET A
  PROVE  Ranks({a \in order : a[1] \in B /\ a[2] \in B}, B)
<1> DEFINE rest == {a \in order : a[1] \in B /\ a[2] \in B}
<1>1. \A x, y : <<x, y>> \in rest <=> <<x, y>> \in order /\ x \in B /\ y \in B
  OBVIOUS
<1>2. \A a \in rest : a \in order /\ a = <<a[1], a[2]>> /\ a[1] \in B /\ a[2] \in B
  OBVIOUS
<1> HIDE DEF rest
<1>3. ASSUME NEW a \in rest
      PROVE  a[1] \in B /\ a[2] \in B /\ <<a[2], a[1]>> \notin rest
  BY <1>1, <1>2, <1>3 DEF Ranks
<1>4. ASSUME NEW p \in B, NEW q \in B, p # q
      PROVE  <<p, q>> \in rest \/ <<q, p>> \in rest
  BY <1>1, <1>4 DEF Ranks
<1>5. ASSUME NEW a \in rest, NEW b \in rest, a[2] = b[1]
      PROVE  <<a[1], b[2]>> \in rest
  BY <1>1, <1>2, <1>5 DEF Ranks
<1> QED BY <1>3, <1>4, <1>5 DEF rest, Ranks

\* A newcomer takes a place: those of a set, closed under it, come after.
LEMMA RanksOneMore ==
  ASSUME NEW A, NEW order \in SUBSET (A \X A), Ranks(order, A), NEW p, p \notin A,
         NEW later \in SUBSET A, \A a \in order : a[1] \in later => a[2] \in later
  PROVE  Ranks(order \union ((A \ later) \X {p}) \union ({p} \X later), A \union {p})
<1> DEFINE more == order \union ((A \ later) \X {p}) \union ({p} \X later)
           before(x, y) == \/ <<x, y>> \in order /\ x \in A /\ y \in A
                           \/ x \in A /\ x \notin later /\ y = p
                           \/ x = p /\ y \in later /\ y \in A
<1>1. \A x, y : <<x, y>> \in more <=> before(x, y)
  OBVIOUS
<1>2. \A a \in more : a = <<a[1], a[2]>>
  OBVIOUS
<1>3. \A x, y : <<x, y>> \in order => <<y, x>> \notin order
  <2> SUFFICES ASSUME NEW x, NEW y, <<x, y>> \in order PROVE <<y, x>> \notin order
    OBVIOUS
  <2> DEFINE a == <<x, y>>
  <2>1. a \in order /\ <<a[2], a[1]>> \notin order
    BY DEF Ranks
  <2> QED BY <2>1
<1>4. \A x, y, z : <<x, y>> \in order /\ <<y, z>> \in order => <<x, z>> \in order
  <2> SUFFICES ASSUME NEW x, NEW y, NEW z, <<x, y>> \in order, <<y, z>> \in order
               PROVE  <<x, z>> \in order
    OBVIOUS
  <2> DEFINE a == <<x, y>>
             b == <<y, z>>
  <2>1. a[2] = b[1] => <<a[1], b[2]>> \in order
    BY DEF Ranks
  <2> QED BY <2>1
<1>5. \A x, y : <<x, y>> \in order /\ x \in later => y \in later
  <2> SUFFICES ASSUME NEW x, NEW y, <<x, y>> \in order, x \in later PROVE y \in later
    OBVIOUS
  <2> DEFINE a == <<x, y>>
  <2>1. a[1] \in later => a[2] \in later
    OBVIOUS
  <2> QED BY <2>1
<1>6. \A x, y \in A : x # y => <<x, y>> \in order \/ <<y, x>> \in order
  BY DEF Ranks
<1> HIDE DEF more
<1>7. ASSUME NEW a \in more
      PROVE  a[1] \in A \union {p} /\ a[2] \in A \union {p} /\ <<a[2], a[1]>> \notin more
  <2>1. before(a[1], a[2])
    BY <1>1, <1>2, <1>7
  <2>2. ~before(a[2], a[1])
    BY <2>1, <1>3
  <2> QED BY <1>1, <2>1, <2>2
<1>8. ASSUME NEW x \in A \union {p}, NEW y \in A \union {p}, x # y
      PROVE  <<x, y>> \in more \/ <<y, x>> \in more
  <2>1. before(x, y) \/ before(y, x)
    BY <1>6, <1>8
  <2> QED BY <1>1, <2>1
<1>9. ASSUME NEW a \in more, NEW b \in more, a[2] = b[1]
      PROVE  <<a[1], b[2]>> \in more
  <2>1. before(a[1], a[2]) /\ before(a[2], b[2])
    BY <1>1, <1>2, <1>9
  <2>2. \A x, y, z : before(x, y) /\ before(y, z) => before(x, z)
    <3> SUFFICES ASSUME NEW x, NEW y, NEW z, before(x, y), before(y, z) PROVE before(x, z)
      OBVIOUS
    <3>1. CASE y = p
      <4>1. x \in A /\ x \notin later /\ z \in A /\ z \in later
        BY <3>1
      <4>2. <<x, z>> \in order
        BY <4>1, <1>5, <1>6
      <4> QED BY <4>1, <4>2
    <3>2. CASE y # p
      BY <3>2, <1>4, <1>5
    <3> QED BY <3>1, <3>2
  <2>3. before(a[1], b[2])
    BY <2>1, <2>2
  <2> QED BY <1>1, <2>3
<1> QED BY <1>7, <1>8, <1>9 DEF more, Ranks

\* The queue's moves book nobody.
LEMMA MovedWasActive ==
  ASSUME NEW p \in Players, NEW b, Good(b), NEW c, Moved(p, b, c), Active(c)
  PROVE  Active(b)
<1>1. PICK x \in {b, Lapse(b)} : c = x \/ Offered(x, c) \/ Seated(p, x, c)
  BY DEF Moved
<1>2. Good(x) /\ (Active(x) => Active(b))
  BY <1>1, LapseFields DEF Active
<1>3. ASSUME NEW n \in 1 .. MaxSeats, n <= Queued(x)
      PROVE  Active(x)
  BY <1>3 DEF Queued, Active, Main
<1> QED BY <1>1, <1>2, <1>3 DEF Offered, Seated

\* One who is booked operates, the others are moved: nobody joins.
LEMMA NobodyJoins ==
  ASSUME Inv, NEW p \in Players, Active(row[p]),
         \A q \in Players \ {p} : Moved(q, row[q], row'[q])
  PROVE  \A q \in Players : Active(row'[q]) => Active(row[q])
BY InvFacts, MovedWasActive

\* Every operation but a booking.
OperationOfBooked ==
  \/ \E p \in Players :
       \/ \E n \in 1 .. MaxSeats : IncreaseSeats(p, n) \/ DecreaseSeats(p, n)
       \/ CancelBooking(p)
       \/ AcceptOffer(p)
       \/ \E mark \in {"attended", "no_show"} : BulkAttendance(p, mark)
       \/ ConfirmPayment(p)
       \/ RejectPayment(p)
  \/ ExpireDueOffers
  \/ OfferFreeSeatsSweep

\* Seats given up book nobody.
LEMMA FreesJoinsNobody ==
  ASSUME Inv, NEW p \in Players, Active(row[p]), NEW c, Frees(p, c)
  PROVE  \A q \in Players : Active(row'[q]) => Active(row[q])
<1> DEFINE mid == [row EXCEPT ![p] = c]
<1>1. ASSUME NEW q \in Players \ {p}
      PROVE  Moved(q, row[q], row'[q])
  <2>1. mid[q] = row[q]
    OBVIOUS
  <2>2. row' = mid \/ row' \in PromoteFromWaitlist(mid)
    BY DEF Frees
  <2> HIDE DEF mid
  <2>3. Moved(q, mid[q], row'[q])
    BY <2>2, PromoteMoves DEF Moved
  <2> QED BY <2>1, <2>3
<1> QED BY <1>1, NobodyJoins

\* Only a booking books.
LEMMA BookedStayOrGo ==
  ASSUME Inv, OperationOfBooked
  PROVE  \A q \in Players : Active(row'[q]) => Active(row[q])
<1>1. ASSUME NEW p \in Players, NEW n \in 1 .. MaxSeats, IncreaseSeats(p, n)
      PROVE  \A q \in Players : Active(row'[q]) => Active(row[q])
  <2>1. Active(row[p])
    BY <1>1 DEF IncreaseSeats, Main, Active
  <2>2. PICK rows \in SettleQueueBeforeTaking(row) : \E c : row' = [rows EXCEPT ![p] = c]
    BY <1>1 DEF IncreaseSeats, Roster, Tables
  <2>3. rows \in [Players -> Row]
    BY <2>2, InvFacts, SettleQueueFits DEF Inv, Fits, GoodRows
  <2>4. \A q \in Players \ {p} : row'[q] = rows[q] /\ Moved(q, row[q], rows[q])
    BY <2>2, <2>3, SettleMoves
  <2> QED BY <2>1, <2>4, NobodyJoins
<1>2. ASSUME NEW p \in Players, NEW n \in 1 .. MaxSeats, DecreaseSeats(p, n)
      PROVE  \A q \in Players : Active(row'[q]) => Active(row[q])
  <2>1. Active(row[p])
    BY <1>2 DEF DecreaseSeats, Main, Active
  <2> QED BY <1>2, <2>1, DecreaseFrees, FreesJoinsNobody
<1>3. ASSUME NEW p \in Players, CancelBooking(p)
      PROVE  \A q \in Players : Active(row'[q]) => Active(row[q])
  <2>1. Active(row[p])
    BY <1>3 DEF CancelBooking, Main, Active
  <2> QED BY <1>3, <2>1, CancelFrees, FreesJoinsNobody
<1>4. ASSUME NEW p \in Players, RejectPayment(p)
      PROVE  \A q \in Players : Active(row'[q]) => Active(row[q])
  <2>1. Active(row[p])
    BY <1>4 DEF RejectPayment, Main, Active
  <2> QED BY <1>4, <2>1, RejectFrees, FreesJoinsNobody
<1>5. ASSUME NEW p \in Players,
             \/ AcceptOffer(p) \/ ConfirmPayment(p)
             \/ \E mark \in {"attended", "no_show"} : BulkAttendance(p, mark)
      PROVE  \A q \in Players : Active(row'[q]) => Active(row[q])
  <2>1. Active(row[p])
    <3>1. Good(row[p])
      BY InvFacts
    <3>2. CASE AcceptOffer(p)
      <4>1. row[p].offered > 0 /\ Queued(row[p]) >= row[p].offered
        BY <3>2 DEF AcceptOffer
      <4>2. row[p].offered \in Nat
        BY <3>1, GoodNumbers DEF SeatCount
      <4> QED BY <4>1, <4>2 DEF Queued, Main, Active
    <3>3. CASE ConfirmPayment(p)
      <4>1. row[p].pend > 0 /\ row[p].pend + row[p].paid <= TakenBy(row[p])
        BY <3>1, <3>3 DEF ConfirmPayment, Good, Live
      <4>2. row[p].pend \in Nat /\ row[p].paid \in Nat
        BY <3>1, GoodNumbers DEF SeatCount
      <4>3. TakenBy(row[p]) # 0
        BY <4>1, <4>2
      <4> QED BY <4>3 DEF TakenBy, Occupying, Main, Active
    <3>4. CASE \E mark \in {"attended", "no_show"} : BulkAttendance(p, mark)
      BY <3>4 DEF BulkAttendance, Active
    <3> QED BY <1>5, <3>2, <3>3, <3>4
  <2>2. \E c : row' = [row EXCEPT ![p] = c]
    BY <1>5 DEF AcceptOffer, ConfirmPayment, BulkAttendance, Roster, Tables
  <2>3. \A q \in Players \ {p} : row'[q] = row[q]
    BY <2>2
  <2>4. \A q \in Players \ {p} : Moved(q, row[q], row'[q])
    BY <2>3 DEF Moved
  <2> QED BY <2>1, <2>4, NobodyJoins
<1>6. CASE ExpireDueOffers \/ OfferFreeSeatsSweep
  <2> SUFFICES ASSUME NEW q \in Players, Active(row'[q]) PROVE Active(row[q])
    OBVIOUS
  <2>1. PICK now \in {row, Expired(row)} : row' \in OfferFreeSeats(now)
    BY <1>6 DEF ExpireDueOffers, OfferFreeSeatsSweep, Roster, Tables
  <2>2. now[q] \in {row[q], Lapse(row[q])}
    BY <2>1 DEF Expired, Lapse
  <2>3. Moved(q, row[q], row'[q])
    BY <2>1, <2>2, OffersMove DEF Moved
  <2> QED BY <2>3, InvFacts, MovedWasActive
<1> QED BY <1>1, <1>2, <1>3, <1>4, <1>5, <1>6 DEF OperationOfBooked

\* Who goes leaves the order, the others stay in it.
LEMMA AheadFollows ==
  ASSUME OperationOfBooked \/ CancelEvent
  PROVE  ahead' = {a \in ahead : Active(row'[a[1]]) /\ Active(row'[a[2]])}
<1>1. OperationOfBooked => \E rows : Roster(rows)
  <2>1. ASSUME NEW p \in Players, NEW n \in 1 .. MaxSeats, IncreaseSeats(p, n)
        PROVE  \E rows : Roster(rows)
    BY <2>1, Zenon DEF IncreaseSeats
  <2>2. ASSUME NEW p \in Players, NEW n \in 1 .. MaxSeats, DecreaseSeats(p, n)
        PROVE  \E rows : Roster(rows)
    BY <2>2, Zenon DEF DecreaseSeats
  <2>3. ASSUME NEW p \in Players, CancelBooking(p) \/ RejectPayment(p)
        PROVE  \E rows : Roster(rows)
    BY <2>3, Zenon DEF CancelBooking, RejectPayment
  <2>4. ASSUME NEW p \in Players,
               \/ AcceptOffer(p) \/ ConfirmPayment(p)
               \/ \E mark \in {"attended", "no_show"} : BulkAttendance(p, mark)
        PROVE  \E rows : Roster(rows)
    BY <2>4, Zenon DEF AcceptOffer, ConfirmPayment, BulkAttendance
  <2>5. ExpireDueOffers \/ OfferFreeSeatsSweep => \E rows : Roster(rows)
    BY Zenon DEF ExpireDueOffers, OfferFreeSeatsSweep
  <2> QED BY <2>1, <2>2, <2>3, <2>4, <2>5, Zenon DEF OperationOfBooked
<1>2. CancelEvent => \E rows : Tables(rows)
  BY Zenon DEF CancelEvent
<1>3. PICK rows : Tables(rows)
  BY <1>1, <1>2 DEF Roster
<1> QED BY <1>3 DEF Tables

\* A new booking is active.
LEMMA NewBookingIsActive ==
  ASSUME NEW b \in Row, NEW main, NEW queue, NEW m
  PROVE  Active(NewBooking(b, main, queue, m))
BY DEF NewBooking, Row, Synced, Main, Active

\* A booking puts its row in one place.
LEMMA BookRanks ==
  ASSUME Inv, Ranks(ahead, Actives), NEW p \in Players, NEW n \in 1 .. MaxSeats,
         NEW m \in Methods, Book(p, n, m)
  PROVE  Ranks(ahead', Actives')
<1>1. PICK rows \in SettleQueueBeforeTaking(row), later \in Later(p) :
        LET main == Smaller(Free(rows), n)
            booked == [rows EXCEPT ![p] = NewBooking(@, main, n - main, m)]
            active == {q \in Players \ {p} : Active(booked[q])}
        IN  /\ row' = booked
            /\ ahead' = {a \in ahead : a[1] \in active /\ a[2] \in active}
                         \union ((active \ later) \X {p}) \union ({p} \X (active \cap later))
  BY DEF Book
<1> DEFINE others == {q \in Players \ {p} : Active(row'[q])}
           rest == {a \in ahead : a[1] \in others /\ a[2] \in others}
           after == others \cap later
<1>2. ahead' = rest \union ((others \ after) \X {p}) \union ({p} \X after)
  <2>1. ahead' = rest \union ((others \ later) \X {p}) \union ({p} \X (others \cap later))
    BY <1>1
  <2>2. others \ after = others \ later
    OBVIOUS
  <2> QED BY <2>1, <2>2
<1>3. rows \in [Players -> Row]
  BY InvFacts, SettleQueueFits DEF Inv, Fits, GoodRows
<1>4. PICK c : row' = [rows EXCEPT ![p] = c] /\ Active(c)
  <2> DEFINE main == Smaller(Free(rows), n)
             c == NewBooking(rows[p], main, n - main, m)
  <2>1. row' = [rows EXCEPT ![p] = c]
    BY <1>1
  <2>2. rows[p] \in Row
    BY <1>3
  <2> HIDE DEF main
  <2>3. Active(c)
    BY <2>2, NewBookingIsActive
  <2> QED BY <2>1, <2>3
<1>5. others \subseteq Actives /\ p \notin others
  <2> SUFFICES ASSUME NEW q \in others PROVE q \in Actives
    OBVIOUS
  <2>1. row'[q] = rows[q] /\ Moved(q, row[q], rows[q])
    BY <1>3, <1>4, SettleMoves
  <2> QED BY <2>1, InvFacts, MovedWasActive DEF Actives
<1>6. Actives' = others \union {p}
  BY <1>3, <1>4 DEF Actives
<1>7. ahead \in SUBSET (Actives \X Actives)
  BY DEF Inv, TypeOK, Ranks
<1> HIDE DEF others
<1>8. Ranks(rest, others)
  BY <1>5, <1>7, RanksThoseLeft
<1>9. rest \in SUBSET (others \X others)
  BY <1>7
<1>10. \A a \in rest : a[1] \in after => a[2] \in after
  BY DEF Later
<1>11. after \in SUBSET others
  OBVIOUS
<1> HIDE DEF rest, after
<1> QED BY <1>2, <1>5, <1>6, <1>8, <1>9, <1>10, <1>11, RanksOneMore

\* The queue is a queue: of any two who are booked one is before the other, never
\* both, and who is before one that is before a third is before that one too.
\* So what QueueIsFair says of those ahead, it says of every pair that waits.
THEOREM QueueInOrder == Spec => []QueueIsOrdered
<1>1. QueueIsOrdered <=> Ranks(ahead, Actives)
  BY DEF QueueIsOrdered, Ranks, Actives
<1>2. Init => Ranks(ahead, Actives)
  <2> SUFFICES ASSUME Init PROVE Ranks(ahead, Actives)
    OBVIOUS
  <2>1. ahead = {} /\ \A p \in Players : row[p] = Absent
    BY DEF Init
  <2>2. Actives = {}
    BY <2>1 DEF Actives, Active, Absent
  <2> QED BY <2>1, <2>2 DEF Ranks
<1>3. Inv /\ Ranks(ahead, Actives) /\ [Next]_vars => Ranks(ahead, Actives)'
  <2> SUFFICES ASSUME Inv, Ranks(ahead, Actives), [Next]_vars PROVE Ranks(ahead', Actives')
    OBVIOUS
  <2>1. ahead \in SUBSET (Actives \X Actives)
    BY DEF Inv, TypeOK, Ranks
  <2>2. ASSUME OperationOfBooked \/ CancelEvent
        PROVE  Ranks(ahead', Actives')
    <3>1. Actives' \subseteq Actives
      <4>1. CancelEvent => \A q \in Players : ~Active(row'[q])
        BY CancelEventWrites
      <4> QED BY <2>2, <4>1, BookedStayOrGo DEF Actives
    <3>2. ahead' = {a \in ahead : Active(row'[a[1]]) /\ Active(row'[a[2]])}
      BY <2>2, AheadFollows
    <3>3. ahead' = {a \in ahead : a[1] \in Actives' /\ a[2] \in Actives'}
      BY <3>2, <2>1 DEF Actives
    <3> QED BY <2>1, <3>1, <3>3, RanksThoseLeft
  <2>3. ASSUME SettleSplit \/ Rearranged, ahead' = ahead
        PROVE  Ranks(ahead', Actives')
    <3>1. \A q \in Players : Active(row'[q]) <=> Active(row[q])
      <4>1. SettleSplit =>
              \A q \in Players : \/ Alike(row[q], row'[q])
                                 \/ Main(row[q]) /\ row'[q].status = "pending_payment"
        BY SettleSplitWrites
      <4> QED BY <2>3, <4>1 DEF Rearranged, Alike, Active, Main
    <3>2. Actives' = Actives
      BY <3>1 DEF Actives
    <3> QED BY <2>3, <3>2
  <2>4. Operation => OperationOfBooked \/ \E p \in Players :
                       \E n \in 1 .. MaxSeats, m \in Methods : Book(p, n, m)
    BY Zenon DEF Operation, OperationOfBooked
  <2>5. Operation \/ CancelEvent \/ ahead' = ahead
    BY Zenon DEF Next, vars, Operation, ExpireSubscription, UpdateEvent, SettleSplit,
       CloseDueEvents, CloseWithoutShares, Tick, AdvancePhase, Restart
  <2> QED BY <2>2, <2>3, <2>4, <2>5, BookRanks, Steps
<1> QED BY <1>1, <1>2, <1>3, Invariance, PTL DEF Spec
=============================================================================
