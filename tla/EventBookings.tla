--------------------------- MODULE EventBookings ---------------------------
(***************************************************************************)
(* One event of a volleyball group: its roster, its waiting queue, the     *)
(* offers of freed seats and the money each seat stands on.                *)
(*                                                                         *)
(* Every operation of the code that touches seats runs in one database     *)
(* transaction that first takes pg_advisory_xact_lock(eventId), so each is *)
(* one action here.  Concurrency is in the order of those transactions,    *)
(* in the clock that runs between them (offers lapse, booking closes, the  *)
(* game starts) and in the scheduler that settles what the clock left.     *)
(*                                                                         *)
(* One record per player joins four tables: the bookings row of (event,    *)
(* player), its live payments (current incarnation, seat not released,     *)
(* pending or succeeded) as two counts, its open row of waitlist_offers,   *)
(* and the sessions its subscription has used.                             *)
(*                                                                         *)
(* An operator Mut... is the wrong form of the definition after it that a  *)
(* slip in the code would give.  Nothing uses it: PROJECT.json says which  *)
(* property notices the slip.                                              *)
(***************************************************************************)
EXTENDS Integers, FiniteSets

CONSTANTS
  Players,      \* the users who may book this event, all active members
  MaxSeats,     \* organizations.max_seats_per_booking
  Capacities,   \* the capacities an organizer may set
  PriceMode,    \* "fixed" or "split": it cannot change once somebody booked
  Prices,       \* the prices per seat an organizer may set (0 is a free event)
  SplitTarget,  \* the amount to share of a split event, in minor units
  Methods,      \* what players pay with: "cash" (or transfer), "subscription"
  Sessions,     \* sessions of a player's one subscription
  OtherUsed,    \* of them already spent on other events
  OfferTTL,     \* life of an offer, in ticks of the clock
  SchedModes,   \* values SCHEDULER_ENABLED takes over the restarts
  Statuses,     \* event statuses an organizer sets by hand
  Phases        \* where an organizer's edit of the times may put the clock

ASSUME PlayersAssumption == IsFiniteSet(Players)
ASSUME SeatsAssumption == MaxSeats \in Nat \ {0} /\ Capacities \subseteq Nat \ {0}
ASSUME MoneyAssumption ==
  /\ PriceMode \in {"fixed", "split"} /\ Prices \subseteq Nat /\ SplitTarget \in Nat
  /\ PriceMode = "split" => Prices = {0}
  /\ Methods \subseteq {"cash", "subscription"}
  /\ Sessions \in Nat /\ OtherUsed \in 0 .. Sessions
ASSUME ClockAssumption == OfferTTL \in Nat \ {0} /\ SchedModes \subseteq BOOLEAN
ASSUME InputAssumption ==
  /\ Statuses \subseteq {"draft", "published", "closed", "finished"}
  /\ Phases \subseteq {"before", "open", "due"}

VARIABLES
  event,    \* the events row, and where the clock stands against its times
  row,      \* per player: booking, live payments, open offer, sessions used
  ahead,    \* <<p, q>>: p's place (booked_at, id) is before q's, both active
  lapsed,   \* players whose subscription is past its expires_at
  sched     \* SCHEDULER_ENABLED of the running process

vars == <<event, row, ahead, lapsed, sched>>

BookingStatus ==
  {"none", "waitlisted", "pending_payment", "confirmed", "attended", "no_show", "cancelled"}
SeatCount == 0 .. MaxSeats

Row == [status : BookingStatus, method : {"free", "cash", "subscription"},
        seats : SeatCount, wl : SeatCount,        \* seats, waitlist_seats
        sub : BOOLEAN,                            \* subscription_id is set
        pend : SeatCount, paid : SeatCount,       \* live payments
        alloc : BOOLEAN,                          \* allocated_amount is set
        offered : SeatCount, left : 0 .. OfferTTL, \* open offer; left = 0: lapsed
        used : 0 .. Sessions]                     \* subscription's used_sessions

Event == [status : {"draft", "published", "closed", "finished", "cancelled"},
          capacity : Capacities, price : Prices,
          phase : {"before", "open", "due", "started"},
          manual : BOOLEAN,      \* the organizer runs the closing of booking
          settled : BOOLEAN,     \* pricing_settled_at is set
          skipped : BOOLEAN]     \* event.close_skipped mark

\* A cancelled booking keeps nothing a handler reads again, except its share of
\* a settled split.  A re-booking overwrites the rest.
Gone(b) ==
  [b EXCEPT !.status = "cancelled", !.method = "free", !.seats = 0, !.wl = 0,
            !.sub = FALSE, !.pend = 0, !.paid = 0]

Absent ==
  [status |-> "none", method |-> "free", seats |-> 0, wl |-> 0, sub |-> FALSE, pend |-> 0,
   paid |-> 0, alloc |-> FALSE, offered |-> 0, left |-> 0, used |-> OtherUsed]

Smaller(m, n) == IF m <= n THEN m ELSE n
Larger(m, n) == IF m >= n THEN m ELSE n

-----------------------------------------------------------------------------
(* Seats, queue and offers.                                                *)

Active(b) == b.status \notin {"none", "cancelled"}
Main(b) == b.status \in {"confirmed", "pending_payment"}
Occupying(b) == Main(b) \/ b.status \in {"attended", "no_show"}
InQueue(b) == b.status = "waitlisted" \/ b.wl > 0
Queued(b) == IF b.status = "waitlisted" THEN b.seats ELSE IF Main(b) THEN b.wl ELSE 0

\* SUM over the players of a number of seats each, as the size of a set.
Total(n) == Cardinality({s \in Players \X (1 .. MaxSeats) : s[2] <= n[s[1]]})

TakenBy(b) == IF Occupying(b) THEN b.seats ELSE 0
HeldBy(b) == IF b.left > 0 THEN b.offered ELSE 0
Taken(rows) == Total([p \in Players |-> TakenBy(rows[p])])
Held(rows) == Total([p \in Players |-> HeldBy(rows[p])])
Reserved(rows) == Taken(rows) + Held(rows)
MutFreeOfHeld(rows) ==      \* seats held by offers count as free
  Larger(0, event.capacity - Taken(rows))
Free(rows) == Larger(0, event.capacity - Reserved(rows))

ClosedBySchedule ==
  sched /\ event.status = "published" /\ event.phase \in {"due", "started"} /\ ~event.manual

Revoked(b) == [b EXCEPT !.offered = 0, !.left = 0]

MutNothingExpires(rows) == rows

\* An offer that lapsed: the player leaves the queue altogether.
Expired(rows) ==
  [p \in Players |->
    LET b == rows[p] IN
    IF b.offered = 0 \/ b.left > 0 THEN b
    ELSE Revoked(IF b.status = "waitlisted" THEN Gone(b) ELSE [b EXCEPT !.wl = 0])]

\* Who is served next: first in the queue, without an open offer of his own.
Waits(b) == InQueue(b) /\ b.offered = 0

MutAllotInAnyOrder(rows, free) ==
  {got \in [Players -> SeatCount] :
    /\ \A p \in Players : got[p] <= IF Waits(rows[p]) THEN Queued(rows[p]) ELSE 0
    /\ Total(got) <= free
    /\ (\E p \in Players : Waits(rows[p]) /\ got[p] < Queued(rows[p])) => Total(got) = free}

\* The seats each gets when `free` seats go down the queue, first come first
\* served, the last served perhaps in part.
Allotments(rows, free) ==
  {got \in [Players -> SeatCount] :
    /\ \A p \in Players : got[p] <= IF Waits(rows[p]) THEN Queued(rows[p]) ELSE 0
    /\ Total(got) <= free
    /\ \A p, q \in Players :
         (<<p, q>> \in ahead /\ Waits(rows[p]) /\ got[q] > 0) => got[p] = Queued(rows[p])
    /\ (\E p \in Players : Waits(rows[p]) /\ got[p] < Queued(rows[p])) => Total(got) = free}

CanOffer ==
  /\ event.status = "published" /\ ~event.settled /\ event.phase # "started"
  /\ ~ClosedBySchedule

OfferTo(b, n) == IF n = 0 THEN b ELSE [b EXCEPT !.offered = n, !.left = OfferTTL]

MutOfferWholeRequests(rows) ==      \* nothing for one whose request does not fit
  IF CanOffer
  THEN {[p \in Players |-> OfferTo(rows[p], IF got[p] < Queued(rows[p]) THEN 0 ELSE got[p])] :
          got \in Allotments(rows, Free(rows))}
  ELSE {rows}

\* Outcomes of offering the free seats to the queue.
OfferFreeSeats(rows) ==
  IF CanOffer
  THEN {[p \in Players |-> OfferTo(rows[p], got[p])] : got \in Allotments(rows, Free(rows))}
  ELSE {rows}

MutSettleNobody(rows) == {Expired(rows)}

\* What comes before anybody takes free seats for himself.
SettleQueueBeforeTaking(rows) ==
  IF sched THEN OfferFreeSeats(Expired(rows)) ELSE {Expired(rows)}

-----------------------------------------------------------------------------
(* Money.                                                                  *)

Live(b) == b.pend + b.paid
Priced == PriceMode = "fixed" /\ event.price > 0

MutSeatsWithoutPayment(b) == Larger(0, b.seats - Live(b))   \* whatever the method

\* Seats beyond the live payments of a booking on a subscription: its sessions.
SubscriptionSeats(b) ==
  IF b.method = "subscription" /\ b.sub THEN Larger(0, b.seats - Live(b)) ELSE 0

CanConsume(p, b, n) == p \notin lapsed /\ b.used + n <= Sessions

MutRestoredNothing(b, n) == b
Restored(b, n) == [b EXCEPT !.used = Larger(0, @ - n)]

\* The status of a booking in the roster follows its live payments.
Synced(b) ==
  IF ~Main(b) THEN b
  ELSE IF Live(b) = 0
       THEN [b EXCEPT !.status = IF b.method = "subscription" THEN "confirmed" ELSE @]
       ELSE [b EXCEPT !.status = IF b.pend > 0 THEN "pending_payment" ELSE "confirmed"]

\* n more seats for a booking already in the roster, fromQueue of them its own
\* queued ones.  Sessions that do not suffice are replaced by cash.
AddMainSeats(p, b, n, fromQueue) ==
  LET grown == [b EXCEPT !.seats = @ + n, !.wl = @ - fromQueue]
      bySession == Priced /\ b.method = "subscription" /\ CanConsume(p, b, n)
      byCash == Priced /\ b.method # "free" /\ ~bySession
  IN  IF bySession THEN [grown EXCEPT !.used = @ + n]
      ELSE IF byCash THEN Synced([grown EXCEPT !.pend = @ + n])
      ELSE grown

\* n seats for a booking that waits as a whole; the rest of it keeps waiting.
PromoteWaiting(p, b, n) ==
  LET moved == [b EXCEPT !.seats = n, !.wl = b.seats - n]
      bySession == b.method = "subscription" /\ CanConsume(p, b, n)
  IN  IF PriceMode = "split" THEN [moved EXCEPT !.status = "pending_payment"]
      ELSE IF event.price = 0 THEN [moved EXCEPT !.status = "confirmed"]
      ELSE IF bySession THEN [moved EXCEPT !.status = "confirmed", !.sub = TRUE, !.used = @ + n]
      ELSE IF b.method = "free" THEN [moved EXCEPT !.status = "pending_payment"]
      ELSE Synced([moved EXCEPT !.status = "pending_payment", !.method = "cash", !.pend = n])

Promoted(p, b, n) ==
  IF n = 0 THEN b
  ELSE IF b.status = "waitlisted" THEN PromoteWaiting(p, b, n)
  ELSE AddMainSeats(p, b, n, n)

\* Outcomes of handing freed seats to the queue: offered while the scheduler
\* runs, taken at once when it does not.
PromoteFromWaitlist(rows) ==
  LET now == Expired(rows) IN
  IF event.status # "published" \/ event.settled THEN {rows}
  ELSE IF sched THEN OfferFreeSeats(now)
  ELSE {[p \in Players |-> Promoted(p, now[p], got[p])] : got \in Allotments(now, Free(now))}

MutReleaseUnpaidOnly(b, n) == [b EXCEPT !.pend = @ - n]

\* n seats off the money of a booking: unpaid ones first, paid ones released.
ReleaseSeats(b, n) ==
  LET unpaid == Smaller(n, b.pend)
  IN  [b EXCEPT !.pend = @ - unpaid, !.paid = @ - Smaller(n - unpaid, @)]

MutCancelledKeepsPaid(b, subSeats) ==
  [Revoked(Gone(Restored(b, subSeats))) EXCEPT !.paid = b.paid]
MutCancelledKeepsOffer(b, subSeats) == Gone(Restored(b, subSeats))

\* A booking in the roster or the queue, cancelled with its money and its offer.
CancelledBooking(b, subSeats) == Revoked(Gone(Restored(b, subSeats)))

-----------------------------------------------------------------------------
(* The operations.  A refused one (a 4xx answer) rolls back and is no step. *)

Tables(rows) ==
  /\ row' = rows
  /\ ahead' = {a \in ahead : Active(rows[a[1]]) /\ Active(rows[a[2]])}

Roster(rows) == Tables(rows) /\ UNCHANGED <<event, lapsed, sched>>

\* Booking is open to players now.
Open ==
  event.status = "published" /\ event.phase \in {"open", "due"} /\ ~ClosedBySchedule

\* The row of a new booking: main seats in the roster, or all of it in the queue.
NewBooking(b, main, queue, m) ==
  LET placed == [b EXCEPT
        !.method = IF PriceMode = "fixed" /\ event.price = 0 THEN "free" ELSE m,
        !.seats = IF main = 0 THEN queue ELSE main, !.wl = IF main = 0 THEN 0 ELSE queue]
  IN  IF main = 0 THEN [placed EXCEPT !.status = "waitlisted"]
      ELSE IF PriceMode = "split" THEN [placed EXCEPT !.status = "pending_payment"]
      ELSE IF event.price = 0 THEN [placed EXCEPT !.status = "confirmed"]
      ELSE IF m = "subscription"
           THEN [placed EXCEPT !.status = "confirmed", !.sub = TRUE, !.used = @ + main]
      ELSE [placed EXCEPT !.status = "pending_payment", !.pend = main]

\* Players whose place is after that of p's new row.  A re-booking is last.  A
\* first one is stamped with the start of its transaction, so those who
\* booked while it waited for the lock are after it.
Later(p) ==
  {later \in SUBSET {q \in Players : Active(row[q])} :
    /\ row[p].status = "cancelled" => later = {}
    /\ \A a \in ahead : a[1] \in later => a[2] \in later}

Book(p, n, m) ==
  /\ Open /\ ~event.settled
  /\ PriceMode = "split" => m = "cash"
  /\ ~Active(row[p]) /\ ~row[p].alloc
  /\ n <= event.capacity
  /\ \E rows \in SettleQueueBeforeTaking(row), later \in Later(p) :
       LET main == Smaller(Free(rows), n)
           booked == [rows EXCEPT ![p] = NewBooking(@, main, n - main, m)]
           active == {q \in Players \ {p} : Active(booked[q])}
       IN  /\ (Priced /\ m = "subscription" /\ main > 0) => CanConsume(p, rows[p], main)
           /\ row' = booked
           /\ ahead' = {a \in ahead : a[1] \in active /\ a[2] \in active}
                         \union ((active \ later) \X {p}) \union ({p} \X (active \cap later))
  /\ UNCHANGED <<event, lapsed, sched>>

\* changeSeats to more seats: into the roster only, past nobody in the queue.
IncreaseSeats(p, target) ==
  LET add == target - row[p].seats IN
  /\ Open /\ ~event.settled /\ ~row[p].alloc
  /\ Main(row[p]) /\ row[p].wl = 0
  /\ add > 0 /\ target <= event.capacity
  /\ \E rows \in SettleQueueBeforeTaking(row) :
       /\ Free(rows) >= add
       /\ (Priced /\ row[p].method = "subscription") => CanConsume(p, rows[p], add)
       /\ Roster([rows EXCEPT ![p] = AddMainSeats(p, @, add, 0)])

\* changeSeats to fewer: the queued ones first, then those of the roster.  An
\* offer of the booking stands while the queue still covers it.
DecreaseSeats(p, target) ==
  LET b == row[p]
      waiting == b.status = "waitlisted"
      remove == b.seats + b.wl - target
      fromQueue == IF waiting THEN 0 ELSE Smaller(remove, b.wl)
      fromMain == IF waiting THEN 0 ELSE remove - fromQueue
      revoked == b.offered > (IF waiting THEN target ELSE b.wl - fromQueue)
      unpaid == Smaller(fromMain, b.pend)
      restore == Smaller(fromMain - unpaid, SubscriptionSeats(b))
      paid == ReleaseSeats(Restored(b, restore), fromMain - restore)
      fewer == Synced([paid EXCEPT !.seats = IF waiting THEN target ELSE @ - fromMain,
                                   !.wl = @ - fromQueue])
      rows == [row EXCEPT ![p] = IF revoked THEN Revoked(fewer) ELSE fewer]
  IN
  /\ (waiting \/ Main(b)) /\ remove > 0
  /\ ~b.alloc /\ ~event.settled
  /\ event.status # "cancelled" /\ event.phase # "started"
  /\ \E after \in IF fromMain > 0 \/ revoked THEN PromoteFromWaitlist(rows) ELSE {rows} :
       Roster(after)

\* cancel, by the player or an organizer.
CancelBooking(p) ==
  LET b == row[p]
      rows == [row EXCEPT ![p] =
                 CancelledBooking(b, IF Main(b) THEN SubscriptionSeats(b) ELSE 0)]
  IN
  /\ (b.status = "waitlisted" \/ Main(b)) /\ event.phase # "started"
  /\ \E after \in IF Main(b) \/ b.offered > 0 THEN PromoteFromWaitlist(rows) ELSE {rows} :
       Roster(after)

AcceptOffer(p) ==
  LET b == row[p] IN
  /\ b.offered > 0 /\ b.left > 0 /\ Queued(b) >= b.offered
  /\ event.status = "published" /\ ~event.settled /\ event.phase # "started"
  /\ ~ClosedBySchedule
  /\ Roster([row EXCEPT ![p] = Revoked(Promoted(p, b, b.offered))])

\* Attendance after the start.  Queued seats go; an open offer of theirs stays.
BulkAttendance(p, mark) ==
  LET b == row[p] IN
  /\ event.status # "cancelled" /\ event.phase = "started"
  /\ PriceMode = "split" => event.settled /\ b.paid > 0
  /\ b.status \in {"confirmed", "attended", "no_show"}
  /\ Roster([row EXCEPT ![p] = [b EXCEPT !.status = mark, !.wl = 0]])

\* paymentService.confirm of a live pending payment: all of the booking's.
ConfirmPayment(p) ==
  LET b == row[p] IN
  /\ b.pend > 0
  /\ Roster([row EXCEPT ![p] = Synced([b EXCEPT !.paid = @ + b.pend, !.pend = 0])])

\* paymentService.cancel of one: the unpaid seats go, or all of the booking.
RejectPayment(p) ==
  LET b == row[p]
      kept == b.paid + SubscriptionSeats(b)
      rest == IF kept > 0 THEN Synced([b EXCEPT !.pend = 0, !.seats = kept])
              ELSE IF event.phase = "started" THEN Gone(b) ELSE CancelledBooking(b, 0)
      rows == [row EXCEPT ![p] = rest]
  IN
  /\ b.pend > 0 /\ Main(b)
  /\ \E after \in IF event.phase = "started" THEN {rows} ELSE PromoteFromWaitlist(rows) :
       Roster(after)

-----------------------------------------------------------------------------
(* Organizer.                                                               *)

MutOffersStay(rows) == rows
WithoutOffers(rows) == [p \in Players |-> Revoked(rows[p])]

\* eventService.update.  ph is where the new times put the clock, moved says
\* that startsAt or closeBeforeMinutes changed.
UpdateEvent(st, capacity, price, ph, moved) ==
  LET reopened == moved \/ event.status # "published"
      manual == /\ ph \in {"due", "started"}
                /\ event.manual \/ (reopened /\ st = "published")
  IN
  /\ event.status \notin {"cancelled", "finished"}
  /\ PriceMode = "split" =>
       (event.settled <=> st \in {"closed", "finished"})
  /\ capacity # event.capacity => capacity >= Reserved(row)
  /\ (ph = "due" /\ event.phase # "due") => moved
  /\ (ph = "before" /\ event.phase # "before") => sched /\ \A p \in Players : ~Active(row[p])
  /\ event' = [event EXCEPT !.status = st, !.capacity = capacity, !.price = price,
                            !.phase = ph, !.manual = manual]
  /\ row' = IF st = "published" THEN row ELSE WithoutOffers(row)
  /\ UNCHANGED <<ahead, lapsed, sched>>

\* eventService.cancel: every booking, its money and sessions given back.
CancelEvent ==
  /\ event.status # "cancelled"
  /\ event' = [event EXCEPT !.status = "cancelled"]
  /\ Tables([p \in Players |->
       LET b == row[p] IN
       IF Active(b)
       THEN CancelledBooking(b, IF Occupying(b) THEN SubscriptionSeats(b) ELSE 0)
       ELSE Revoked(b)])
  /\ UNCHANGED <<lapsed, sched>>

\* The shares of a split are fixed, seat by seat, and booking closes.
Settleable ==
  /\ PriceMode = "split" /\ event.status = "published" /\ ~event.settled
  /\ \E p \in Players : Main(row[p])
  /\ \A p \in Players :
       Main(row[p]) => row[p].method = "cash" /\ Live(row[p]) = 0 /\ ~row[p].alloc
  /\ Taken(row) <= event.capacity /\ Taken(row) <= SplitTarget

MutShareKeepsQueue(b) ==
  IF Main(b) THEN [b EXCEPT !.status = "pending_payment", !.alloc = TRUE, !.pend = 1] ELSE b

Share(b) ==
  IF Main(b) THEN [b EXCEPT !.status = "pending_payment", !.alloc = TRUE, !.pend = 1, !.wl = 0]
  ELSE b

SettleSplit ==
  /\ Settleable
  /\ event' = [event EXCEPT !.status = "closed", !.settled = TRUE]
  /\ row' = WithoutOffers([p \in Players |-> Share(row[p])])
  /\ UNCHANGED <<ahead, lapsed, sched>>

-----------------------------------------------------------------------------
(* Scheduler: the steps of a tick, one transaction each.                    *)

ExpireDueOffers ==
  /\ sched
  /\ \E p \in Players : row[p].offered > 0 /\ row[p].left = 0
  /\ \E rows \in OfferFreeSeats(Expired(row)) : Roster(rows)

OfferFreeSeatsSweep ==
  /\ sched /\ CanOffer /\ Free(row) > 0 /\ \E p \in Players : Waits(row[p])
  /\ \E rows \in OfferFreeSeats(row) : Roster(rows)

CloseWithoutShares ==
  /\ event' = [event EXCEPT !.status = "closed"]
  /\ row' = WithoutOffers(row)
  /\ UNCHANGED <<ahead, lapsed, sched>>

\* A split with bookings made before the closing moment is settled, or marked
\* and left to the organizer when it cannot be.  Bookings in the roster may all
\* be later than that moment only if the scheduler was off then.
CloseDueEvents ==
  /\ sched /\ event.status = "published" /\ event.phase = "due"
  /\ ~event.manual /\ ~event.skipped
  /\ \/ PriceMode = "fixed" /\ CloseWithoutShares
     \/ /\ PriceMode = "split"
        /\ FALSE \in SchedModes \/ \A p \in Players : ~Main(row[p])
        /\ CloseWithoutShares
     \/ PriceMode = "split" /\ SettleSplit
     \/ /\ PriceMode = "split" /\ ~Settleable /\ \E p \in Players : Main(row[p])
        /\ event' = [event EXCEPT !.skipped = TRUE]
        /\ UNCHANGED <<row, ahead, lapsed, sched>>

-----------------------------------------------------------------------------
(* The world: the clock, a subscription's last day, a restart.              *)

Tick ==
  /\ \E p \in Players : HeldBy(row[p]) > 0
  /\ row' = [p \in Players |-> [row[p] EXCEPT !.left = Larger(0, @ - 1)]]
  /\ UNCHANGED <<event, ahead, lapsed, sched>>

AdvancePhase ==
  /\ event.phase # "started"
  /\ event' = [event EXCEPT !.phase =
       CASE @ = "before" -> "open" [] @ = "open" -> "due" [] OTHER -> "started"]
  /\ UNCHANGED <<row, ahead, lapsed, sched>>

ExpireSubscription(p) ==
  /\ "subscription" \in Methods /\ p \notin lapsed
  /\ lapsed' = lapsed \union {p}
  /\ UNCHANGED <<event, row, ahead, sched>>

Restart ==
  /\ \E mode \in SchedModes \ {sched} : sched' = mode
  /\ UNCHANGED <<event, row, ahead, lapsed>>

-----------------------------------------------------------------------------
Init ==
  /\ sched \in SchedModes
  /\ event \in [status : {"draft", "published"}, capacity : Capacities, price : Prices,
                phase : {"before", "open", "due"}, manual : BOOLEAN,
                settled : {FALSE}, skipped : {FALSE}]
  /\ event.phase = "before" => sched
  /\ event.manual <=> (event.status = "published" /\ event.phase = "due")
  /\ row = [p \in Players |-> Absent]
  /\ ahead = {} /\ lapsed = {}

Next ==
  \/ \E p \in Players :
       \/ \E n \in 1 .. MaxSeats, m \in Methods : Book(p, n, m)
       \/ \E n \in 1 .. MaxSeats : IncreaseSeats(p, n) \/ DecreaseSeats(p, n)
       \/ CancelBooking(p)
       \/ AcceptOffer(p)
       \/ \E mark \in {"attended", "no_show"} : BulkAttendance(p, mark)
       \/ ConfirmPayment(p)
       \/ RejectPayment(p)
       \/ ExpireSubscription(p)
  \/ \E st \in Statuses \union {event.status}, capacity \in Capacities, price \in Prices,
        ph \in Phases \union {event.phase}, moved \in BOOLEAN :
       UpdateEvent(st, capacity, price, ph, moved)
  \/ CancelEvent
  \/ SettleSplit
  \/ ExpireDueOffers
  \/ OfferFreeSeatsSweep
  \/ CloseDueEvents
  \/ Tick
  \/ AdvancePhase
  \/ Restart

Spec == Init /\ [][Next]_vars

\* The scheduler ticks as long as the process runs; nobody else must act.
Fairness ==
  WF_vars(ExpireDueOffers) /\ WF_vars(OfferFreeSeatsSweep) /\ WF_vars(CloseDueEvents)

FairSpec == Spec /\ Fairness

-----------------------------------------------------------------------------
(* Properties.                                                              *)

\* The types, and the queue in one strict order (booked_at, id).
TypeOK ==
  /\ event \in Event
  /\ row \in [Players -> Row]
  /\ ahead \subseteq Players \X Players
  /\ lapsed \subseteq Players
  /\ sched \in BOOLEAN

\* Two active bookings are never at the same place of the queue, and places do
\* not run in circles: bookings insert at a time stamped before the lock.
QueueIsOrdered ==
  LET active == {p \in Players : Active(row[p])} IN
  /\ \A a \in ahead : a[1] \in active /\ a[2] \in active /\ <<a[2], a[1]>> \notin ahead
  /\ \A p, q \in active : p # q => <<p, q>> \in ahead \/ <<q, p>> \in ahead
  /\ \A a, b \in ahead : a[2] = b[1] => <<a[1], b[2]>> \in ahead

\* Seats taken and seats held by open offers never exceed the capacity,
\* whatever bookings, acceptances, lapses and edits of the capacity interleave.
NoOverbooking == Reserved(row) <= event.capacity

\* Until the game starts, an open offer is backed: its booking still has that
\* many seats in the queue, so accepting it can never be refused as outdated.
OfferBacked ==
  event.phase # "started" =>
    \A p \in Players : HeldBy(row[p]) <= Queued(row[p])

\* Nothing is offered of an event that is not open: every way to close, settle,
\* unpublish or cancel one takes the offers back.
OffersOnlyWhilePublished ==
  event.status # "published" => \A p \in Players : row[p].offered = 0

\* Money follows seats at a fixed price: a roster booking by cash has one live
\* payment per seat and waits exactly while one is unpaid; one on a
\* subscription has no more live payments than seats; who only waits owes
\* nothing, so a lapsed offer may drop his booking with no look at money.
MoneyMatchesSeats ==
  Priced => \A p \in Players :
    LET b == row[p] IN
    /\ (Occupying(b) /\ b.method = "cash") => Live(b) = b.seats
    /\ Main(b) => (b.status = "pending_payment" <=> b.pend > 0)
    /\ Live(b) <= TakenBy(b)

\* Sessions are neither lost nor minted: what a subscription has used is what
\* its seats stand on, through promotions to cash, rejections and releases.
SessionsConserved ==
  \A p \in Players :
    row[p].used = OtherUsed + IF Occupying(row[p]) THEN SubscriptionSeats(row[p]) ELSE 0

\* A split charges nobody before the shares are fixed, and after that exactly
\* one payment stands for each booking, whose queued seats are gone.
OneShareEach ==
  PriceMode = "split" => \A p \in Players :
    LET b == row[p] IN
    /\ Live(b) = IF event.settled /\ Occupying(b) THEN 1 ELSE 0
    /\ (event.settled /\ Occupying(b)) => b.alloc /\ b.wl = 0

\* A cancelled event leaves no active booking and no seat paid or consumed.
CancelledEventIsEmpty ==
  event.status = "cancelled" =>
    \A p \in Players : ~Active(row[p]) /\ Live(row[p]) = 0 /\ row[p].used = OtherUsed

\* Shares were computed from seats: once they are fixed a booking keeps its
\* seats or leaves, and nobody joins.
SharesStand ==
  [][event.settled => \A p \in Players : TakenBy(row'[p]) \in {0, TakenBy(row[p])}]_vars

\* While the scheduler runs nobody takes fresh seats past the queue: when a
\* player's seats grow, other than by his own offer, all others who wait hold
\* an offer.
NobodyOvertakes ==
  [][\A p \in Players :
       (sched /\ TakenBy(row'[p]) > TakenBy(row[p]) /\ row[p].offered = 0) =>
         \A q \in Players \ {p} : ~Waits(row'[q])]_vars

\* First come, first served: a seat goes to one who waits, offered or at once,
\* only if all who wait ahead of him have got all they wait for.
Served(p) ==
  row'[p].offered > row[p].offered \/ TakenBy(row'[p]) > TakenBy(row[p])

QueueIsFair ==
  [][\A a \in ahead :
       (Waits(row[a[1]]) /\ Waits(row[a[2]]) /\ Served(a[2])) =>
         \/ Queued(row'[a[1]]) = 0
         \/ row'[a[1]].offered = Queued(row[a[1]])]_vars

\* The scheduler clears a lapsed offer, so its seats go on to the next.
LapsedOfferGoes ==
  \A p \in Players :
    (row[p].offered > 0 /\ row[p].left = 0) ~> (row[p].offered = 0 \/ row[p].left > 0)

\* A seat does not stay free while somebody waits for one without an offer.
FreeSeatIsOffered ==
  (CanOffer /\ Free(row) > 0 /\ \E p \in Players : Waits(row[p])) ~>
    ~(CanOffer /\ Free(row) > 0 /\ \E p \in Players : Waits(row[p]))

-----------------------------------------------------------------------------
(* What the repository says of bookings and the code does not keep.         *)

\* The invariant of payments/service.ts and of the ADR: a booking by cash in
\* the roster has as many live payments as seats.  A price edited to 0 breaks it.
LivePaymentsAreSeats ==
  PriceMode = "fixed" =>
    \A p \in Players : (Main(row[p]) /\ row[p].method = "cash") => Live(row[p]) = row[p].seats

\* A promotion that waits for money has a payment to confirm.  A booking that
\* queued while the event was free has none once the price is raised.
PendingHasPayment ==
  PriceMode = "fixed" =>
    \A p \in Players : row[p].status = "pending_payment" => row[p].pend > 0

\* Cancelling gives back only sessions this booking consumed: those spent on
\* other events stay spent.
SessionsOfOthersStand == \A p \in Players : row[p].used >= OtherUsed

\* A change of seats takes an offer back that the queue no longer covers, in
\* every phase.  Attendance and a rejection after the start do not.
OfferMeansQueue == \A p \in Players : HeldBy(row[p]) <= Queued(row[p])

=============================================================================
