---------------------------- MODULE GroupPayments ----------------------------
(***************************************************************************)
(* The payments of one group, row by row, and the ledger they end in: the  *)
(* seats of a paid event, the purchases of a subscription, the pledges to  *)
(* collections; and the organizer who decides on what was on his screen.   *)
(*                                                                         *)
(* The event has a fixed price and room for everybody, its players pay in  *)
(* cash: queue, offers and sessions are EventBookings'.  Each operation    *)
(* holds the lock of what it pays for (the event, the collection, the plan *)
(* of the buyer) from its first statement to its commit, and is one        *)
(* action; the time between the screen and the decision is the race here.  *)
(*                                                                         *)
(* An operator Mut... is the wrong form of the definition after it that a  *)
(* slip in the code would give.  Nothing uses it: PROJECT.json says which  *)
(* property notices the slip.                                              *)
(***************************************************************************)
EXTENDS Integers, FiniteSets, FiniteSetsExt

CONSTANTS
  Users,        \* the players
  Collections,  \* ids of the collections
  Pledges,      \* the amounts players pledge
  Price,        \* price of a seat, and of a subscription
  MaxSeats,     \* seats of a booking
  MaxPayments,  \* bound on the payments rows, for the checks
  NoUser        \* no player

Ids == 1 .. MaxPayments      \* payment ids, in the order of creation

ASSUME PlayersAssumption == NoUser \notin Users
ASSUME TargetsAssumption == {"seat", "subscription"} \intersect Collections = {}
ASSUME AmountsAssumption ==
  Price \in Nat \ {0} /\ Pledges \subseteq Nat \ {0} /\ MaxSeats \in Nat /\ MaxPayments \in Nat

VARIABLES
  payment,       \* the payments rows
  ledger,        \* the ledger entries that name a payment
  booking,       \* per player, on the event
  event,         \* "open", "started" or "cancelled"
  subscription,  \* per payment of a subscription, the subscription it buys
  collection,    \* status of each collection
  screen         \* the pending payment the organizer sees

vars == <<payment, ledger, booking, event, subscription, collection, screen>>

Targets == {"seat", "subscription"} \union Collections
Payment == [of : Targets, user : Users \union {NoUser}, amount : Nat,
            status : {"none", "pending", "succeeded", "cancelled", "refunded"},
            inc : Nat,            \* the incarnation of the booking it pays for
            released : BOOLEAN]   \* seat_released_at is set
Entry == [type : {"income", "refund"}, id : Ids, amount : Nat]
Booking == [status : {"none", "pending_payment", "confirmed", "attended", "cancelled"},
            seats : 0 .. MaxSeats, inc : Nat]
Screen == [id : Ids \union {0}, amount : Nat]

NoPayment == [of |-> "seat", user |-> NoUser, amount |-> 0, status |-> "none", inc |-> 0,
              released |-> FALSE]

-----------------------------------------------------------------------------
(* Rows.                                                                   *)

Unused == {i \in Ids : payment[i].status = "none"}

\* The ids the next k inserts get.
Fresh(k) == {i \in Unused : Cardinality({j \in Unused : j < i}) < k}

\* The k latest of S, ORDER BY created_at, id descending.
Latest(S, k) == {i \in S : Cardinality({j \in S : j > i}) < k}

\* Live payments of the booking of u: of its present incarnation, the seat not
\* released.
Live(u) ==
  {i \in Ids :
     /\ payment[i].of = "seat" /\ payment[i].user = u
     /\ payment[i].inc = booking[u].inc /\ ~payment[i].released
     /\ payment[i].status \in {"pending", "succeeded"}}
With(S, status) == {i \in S : payment[i].status = status}

\* The rows of S move to a status.
Move(S, status) ==
  [i \in Ids |-> IF i \in S THEN [payment[i] EXCEPT !.status = status] ELSE payment[i]]

Insert(S, p) == [i \in Ids |-> IF i \in S THEN p ELSE payment[i]]

Entries(S, type) == {[type |-> type, id |-> i, amount |-> payment[i].amount] : i \in S}

MutDerived(b, pending) == b      \* the status is left as it was

\* syncBookingPayments: confirmed when nothing is left to pay.
Derived(b, pending) ==
  IF b.status \notin {"pending_payment", "confirmed"} THEN b
  ELSE [b EXCEPT !.status = IF pending = {} THEN "confirmed" ELSE "pending_payment"]

-----------------------------------------------------------------------------
(* The bookings, as far as they create and release payments.               *)

Seat(u, inc) == [NoPayment EXCEPT !.user = u, !.amount = Price, !.status = "pending", !.inc = inc]

\* bookingService.book: a payment per seat; a new incarnation of a row that
\* was cancelled.
Book(u, k) ==
  LET inc == booking[u].inc + 1 IN
  /\ event = "open" /\ booking[u].status \in {"none", "cancelled"}
  /\ Cardinality(Unused) >= k
  /\ payment' = Insert(Fresh(k), Seat(u, inc))
  /\ booking' = [booking EXCEPT ![u] = [status |-> "pending_payment", seats |-> k, inc |-> inc]]
  /\ UNCHANGED <<ledger, event, subscription, collection, screen>>

Fits(u, k) == booking[u].seats + k <= MaxSeats

\* bookingService.changeSeats upwards.
AddSeats(u, k) ==
  /\ event = "open" /\ booking[u].status \in {"pending_payment", "confirmed"}
  /\ Fits(u, k) /\ Cardinality(Unused) >= k
  /\ payment' = Insert(Fresh(k), Seat(u, booking[u].inc))
  /\ booking' = [booking EXCEPT ![u].seats = @ + k, ![u].status = "pending_payment"]
  /\ UNCHANGED <<ledger, event, subscription, collection, screen>>

\* Rows of the seats given up: the unpaid are cancelled, the paid released.
Released(pending, paid) ==
  [i \in Ids |-> IF i \in pending THEN [payment[i] EXCEPT !.status = "cancelled"]
                 ELSE IF i \in paid THEN [payment[i] EXCEPT !.released = TRUE]
                 ELSE payment[i]]

MutDropSeats(u, k) ==      \* the paid seats go first
  LET paid == Latest(With(Live(u), "succeeded"), k)
      pending == Latest(With(Live(u), "pending"), k - Cardinality(paid))
      fewer == [booking[u] EXCEPT !.seats = @ - k]
  IN
  /\ event = "open" /\ booking[u].status \in {"pending_payment", "confirmed"}
  /\ k < booking[u].seats
  /\ payment' = Released(pending, paid)
  /\ booking' = [booking EXCEPT ![u] = Derived(fewer, With(Live(u), "pending") \ pending)]
  /\ UNCHANGED <<ledger, event, subscription, collection, screen>>

\* changeSeats downwards: unpaid seats first, the latest first.
DropSeats(u, k) ==
  LET pending == Latest(With(Live(u), "pending"), k)
      paid == Latest(With(Live(u), "succeeded"), k - Cardinality(pending))
      fewer == [booking[u] EXCEPT !.seats = @ - k]
  IN
  /\ event = "open" /\ booking[u].status \in {"pending_payment", "confirmed"}
  /\ k < booking[u].seats
  /\ payment' = Released(pending, paid)
  /\ booking' = [booking EXCEPT ![u] = Derived(fewer, With(Live(u), "pending") \ pending)]
  /\ UNCHANGED <<ledger, event, subscription, collection, screen>>

MutCancelBooking(u) ==      \* the unpaid are left to be paid
  /\ event = "open" /\ booking[u].status \in {"pending_payment", "confirmed"}
  /\ payment' = Released({}, With(Live(u), "succeeded"))
  /\ booking' = [booking EXCEPT ![u].status = "cancelled"]
  /\ UNCHANGED <<ledger, event, subscription, collection, screen>>

\* bookingService.cancel gives nothing back.
CancelBooking(u) ==
  /\ event = "open" /\ booking[u].status \in {"pending_payment", "confirmed"}
  /\ payment' = Released(With(Live(u), "pending"), With(Live(u), "succeeded"))
  /\ booking' = [booking EXCEPT ![u].status = "cancelled"]
  /\ UNCHANGED <<ledger, event, subscription, collection, screen>>

Begin ==
  /\ event = "open" /\ event' = "started"
  /\ UNCHANGED <<payment, ledger, booking, subscription, collection, screen>>

\* bulkAttendance, of what is or is not paid yet.
Attend(u) ==
  /\ event = "started" /\ booking[u].status \in {"pending_payment", "confirmed"}
  /\ booking' = [booking EXCEPT ![u].status = "attended"]
  /\ UNCHANGED <<payment, ledger, event, subscription, collection, screen>>

\* eventService.cancel, also after the start: what was paid for seats not given
\* up goes back, what was not is cancelled.
CancelEvent ==
  LET held == {u \in Users : booking[u].status \notin {"none", "cancelled"}}
      live == UNION {Live(u) : u \in held}
  IN
  /\ event # "cancelled" /\ event' = "cancelled"
  /\ payment' = [i \in Ids |->
       IF i \notin live THEN payment[i]
       ELSE [payment[i] EXCEPT !.status = IF @ = "pending" THEN "cancelled" ELSE "refunded"]]
  /\ ledger' = ledger \union Entries(With(live, "succeeded"), "refund")
  /\ booking' = [u \in Users |->
       IF u \in held THEN [booking[u] EXCEPT !.status = "cancelled"] ELSE booking[u]]
  /\ UNCHANGED <<subscription, collection, screen>>

-----------------------------------------------------------------------------
(* Purchases and pledges.                                                  *)

\* subscriptionService.purchase: one unpaid at a time.
Purchase(u) ==
  /\ Unused # {}
  /\ \A i \in Ids : payment[i].user = u => subscription[i] # "pending"
  /\ payment' = Insert(Fresh(1), [NoPayment EXCEPT !.of = "subscription", !.user = u,
                                    !.amount = Price, !.status = "pending"])
  /\ subscription' = [i \in Ids |-> IF i \in Fresh(1) THEN "pending" ELSE subscription[i]]
  /\ UNCHANGED <<ledger, booking, event, collection, screen>>

\* collectionService.create, update (publication), complete.
SetCollection(c, from, to) ==
  /\ <<from, to>> \in {<<"none", "draft">>, <<"none", "active">>, <<"draft", "active">>,
                       <<"active", "completed">>}
  /\ collection[c] = from
  /\ collection' = [collection EXCEPT ![c] = to]
  /\ UNCHANGED <<payment, ledger, booking, event, subscription, screen>>

Pending(c) == {i \in Ids : payment[i].of = c /\ payment[i].status = "pending"}

\* collectionService.cancel: what waits is rejected, what was paid stays.
CancelCollection(c) ==
  /\ collection[c] \in {"draft", "active"}
  /\ collection' = [collection EXCEPT ![c] = "cancelled"]
  /\ payment' = Move(Pending(c), "cancelled")
  /\ UNCHANGED <<ledger, booking, event, subscription, screen>>

MutContribute(u, c, a) ==      \* the amount of the waiting pledge changes
  LET mine == {i \in Pending(c) : payment[i].user = u}
      new == [NoPayment EXCEPT !.of = c, !.user = u, !.amount = a, !.status = "pending"]
  IN
  /\ collection[c] = "active" /\ Unused # {}
  /\ payment' = Insert(IF mine = {} THEN Fresh(1) ELSE mine, new)
  /\ UNCHANGED <<ledger, booking, event, subscription, collection, screen>>

\* collectionService.contribute: a new pledge instead of the one that waits.
Contribute(u, c, a) ==
  LET mine == {i \in Pending(c) : payment[i].user = u}
      new == [NoPayment EXCEPT !.of = c, !.user = u, !.amount = a, !.status = "pending"]
  IN
  /\ collection[c] = "active" /\ Unused # {}
  /\ payment' = [i \in Ids |-> IF i \in Fresh(1) THEN new ELSE Move(mine, "cancelled")[i]]
  /\ UNCHANGED <<ledger, booking, event, subscription, collection, screen>>

-----------------------------------------------------------------------------
(* The organizer.                                                          *)

\* The rows one decision on payment i is about: the live unpaid of its booking.
Decided(i) ==
  LET p == payment[i] IN
  IF p.of = "seat" /\ i \in Live(p.user) THEN With(Live(p.user), "pending") ELSE {i}

\* paymentService.listPending, or the page of a collection.
Look(i) ==
  /\ payment[i].status = "pending"
  /\ screen' = [id |-> i, amount |-> MapThenSumSet(LAMBDA j : payment[j].amount, Decided(i))]
  /\ UNCHANGED <<payment, ledger, booking, event, subscription, collection>>

MutConfirm(i) ==      \* one income for a decision on several seats
  LET p == payment[i]
      rows == Decided(i)
  IN
  /\ p.status = "pending"
  /\ payment' = Move(rows, "succeeded")
  /\ ledger' = ledger \union Entries({i}, "income")
  /\ booking' = IF p.of = "seat" /\ i \in Live(p.user)
                THEN [booking EXCEPT ![p.user] = Derived(@, {})] ELSE booking
  /\ subscription' = IF subscription[i] = "pending"
                     THEN [subscription EXCEPT ![i] = "active"] ELSE subscription
  /\ UNCHANGED <<event, collection, screen>>

\* paymentService.confirm.
Confirm(i) ==
  LET p == payment[i]
      rows == Decided(i)
  IN
  /\ p.status = "pending"
  /\ payment' = Move(rows, "succeeded")
  /\ ledger' = ledger \union Entries(rows, "income")
  /\ booking' = IF p.of = "seat" /\ i \in Live(p.user)
                THEN [booking EXCEPT ![p.user] = Derived(@, {})] ELSE booking
  /\ subscription' = IF subscription[i] = "pending"
                     THEN [subscription EXCEPT ![i] = "active"] ELSE subscription
  /\ UNCHANGED <<event, collection, screen>>

\* A rejected booking keeps its paid seats; with none it is cancelled.
Reduced(b, paid) ==
  IF paid = {} THEN [b EXCEPT !.status = "cancelled"]
  ELSE [b EXCEPT !.seats = Cardinality(paid), !.status = "confirmed"]

\* paymentService.cancel; of a seat already attended it is about that row alone.
Reject(i) ==
  LET p == payment[i]
      whole == /\ p.of = "seat" /\ i \in Live(p.user)
               /\ booking[p.user].status \in {"pending_payment", "confirmed"}
  IN
  /\ p.status = "pending"
  /\ payment' = Move(IF whole THEN Decided(i) ELSE {i}, "cancelled")
  /\ booking' = IF whole
       THEN [booking EXCEPT ![p.user] = Reduced(@, With(Live(p.user), "succeeded"))]
       ELSE booking
  /\ subscription' = IF subscription[i] = "pending"
                     THEN [subscription EXCEPT ![i] = "cancelled"] ELSE subscription
  /\ UNCHANGED <<ledger, event, collection, screen>>

-----------------------------------------------------------------------------
Init ==
  /\ payment = [i \in Ids |-> NoPayment] /\ ledger = {}
  /\ booking = [u \in Users |-> [status |-> "none", seats |-> 0, inc |-> 0]]
  /\ event = "open"
  /\ subscription = [i \in Ids |-> "none"]
  /\ collection = [c \in Collections |-> "none"]
  /\ screen = [id |-> 0, amount |-> 0]

Player(u) ==
  \/ \E k \in 1 .. MaxSeats : Book(u, k) \/ AddSeats(u, k) \/ DropSeats(u, k)
  \/ CancelBooking(u) \/ Purchase(u)
  \/ \E c \in Collections : \E a \in Pledges : Contribute(u, c, a)

Organizer ==
  \/ \E i \in Ids : Look(i)
  \/ screen.id # 0 /\ (Confirm(screen.id) \/ Reject(screen.id))
  \/ \E u \in Users : Attend(u)
  \/ \E c \in Collections :
       \/ CancelCollection(c)
       \/ \E from, to \in {"none", "draft", "active", "completed"} : SetCollection(c, from, to)
  \/ CancelEvent

Next == (\E u \in Users : Player(u)) \/ Organizer \/ Begin

Spec == Init /\ [][Next]_vars

-----------------------------------------------------------------------------
(* Properties.                                                             *)

TypeOK ==
  /\ payment \in [Ids -> Payment] /\ ledger \subseteq Entry
  /\ booking \in [Users -> Booking] /\ event \in {"open", "started", "cancelled"}
  /\ subscription \in [Ids -> {"none", "pending", "active", "cancelled"}]
  /\ collection \in [Collections -> {"none", "draft", "active", "completed", "cancelled"}]
  /\ screen \in Screen

\* The ledger tells of every payment what became of it: one income of its
\* amount if it was ever confirmed, one refund if it was given back.
LedgerMatchesPayments ==
  ledger = Entries({i \in Ids : payment[i].status \in {"succeeded", "refunded"}}, "income")
             \union Entries({i \in Ids : payment[i].status = "refunded"}, "refund")

\* A booking not cancelled has one live payment per seat (until the attendance
\* is marked), and is confirmed exactly if all of them are paid.
OnePaymentPerSeat ==
  \A u \in Users : booking[u].status \in {"pending_payment", "confirmed"} =>
    /\ Cardinality(Live(u)) = booking[u].seats
    /\ (booking[u].status = "confirmed") <=> (With(Live(u), "pending") = {})

\* Nobody is asked to pay for what he no longer has, or twice: a pending payment
\* of a seat belongs to the present incarnation of a booking not cancelled; a
\* pledge is the only one of its player to a collection that was published and
\* not cancelled; a purchase is the only one that waits, and waits for it.
PendingIsOwed ==
  /\ \A i \in Ids : payment[i].status = "pending" =>
       IF payment[i].of = "seat"
       THEN i \in Live(payment[i].user) /\ booking[payment[i].user].status # "cancelled"
       ELSE /\ payment[i].of \in Collections =>
                 collection[payment[i].of] \in {"active", "completed"}
            /\ \A j \in Ids :
                 (/\ payment[j].status = "pending" /\ payment[j].of = payment[i].of
                  /\ payment[j].user = payment[i].user) => i = j
  /\ \A i \in Ids : (subscription[i] = "pending") <=>
       (payment[i].of = "subscription" /\ payment[i].status = "pending")

\* What the organizer confirms of a collection is the amount that was on his
\* screen, even if the player pledged another one meanwhile.
ConfirmedAsSeen ==
  [][\A e \in ledger' \ ledger :
       (e.type = "income" /\ payment[e.id].of \in Collections) =>
          screen = [id |-> e.id, amount |-> e.amount]]_vars

\* Seats already paid are the last to be given up.
PaidSeatsGoLast ==
  [][\A u \in Users :
       (/\ booking[u].status \in {"pending_payment", "confirmed"} /\ booking'[u].status # "cancelled"
        /\ \E i \in Live(u) : payment'[i].released)
         => \A i \in Live(u) : payment'[i].status # "pending"]_vars
=============================================================================
