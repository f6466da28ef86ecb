---------------------------- MODULE EventBalance ----------------------------
(***************************************************************************)
(* The balance of events of one group, and the transactions that publish,  *)
(* cancel and book its events at the same time: single events, one series  *)
(* and its dates, the exclusion of a player, the operator's commands.      *)
(*                                                                         *)
(* A transaction is the locks it takes, in the order of its statements:    *)
(* pg_advisory_xact_lock of an event, SELECT ... FOR UPDATE of the series  *)
(* and of the balance row, UPDATE of a subscription.  It holds them to its *)
(* end, reads committed rows, and its own writes show when it commits      *)
(* (READ COMMITTED).  What a transaction does between two locks is one     *)
(* step, and one that waits for a single lock with none in its hands is    *)
(* one atomic action, guarded by that lock being free.                     *)
(*                                                                         *)
(* An operator Mut... is the wrong form of the definition after it that a  *)
(* slip in the code would give.  Nothing uses it: PROJECT.json says which  *)
(* property notices the slip.                                              *)
(***************************************************************************)
EXTENDS Integers, FiniteSets, Sequences

CONSTANTS
  Singles,      \* ids of the events created one by one
  Dates,        \* ids of the events of the series, in the order of its dates
  Openings,     \* of all the events those whose opening of booking is put off
  Booked,       \* of all the events those the players book
  Statuses,     \* the statuses an organizer sets by hand
  Users,        \* the players
  Payers,       \* of them those who book on a subscription
  Requests,     \* ids of the purchase requests
  DemoQuota,    \* EVENT_BALANCE_DEMO_QUOTA
  Units,        \* units of the one package on sale
  Adjustments,  \* the amounts an operator grants or corrects by
  ExtraLimit,   \* bound on the sum of those, for the checks
  Enforcement,  \* values EVENT_BALANCE_ENFORCED takes over the restarts
  Workers       \* transactions under way at a time

Events == Singles \union Dates

ASSUME EventsAssumption ==
  /\ Singles \subseteq Nat /\ Dates \subseteq Nat /\ Singles \intersect Dates = {}
  /\ IsFiniteSet(Singles) /\ IsFiniteSet(Dates)
  /\ Openings \subseteq Events /\ Booked \subseteq Events
ASSUME StatusesAssumption == Statuses \subseteq {"draft", "published", "closed", "finished"}
ASSUME PlayersAssumption == IsFiniteSet(Users) /\ Payers \subseteq Users
ASSUME LedgerAssumption ==
  /\ IsFiniteSet(Requests) /\ DemoQuota \in Nat \ {0} /\ Units \in Nat \ {0}
  /\ Adjustments \subseteq Int \ {0} /\ ExtraLimit \in Nat /\ Enforcement \subseteq BOOLEAN

VARIABLES
  events,    \* the events rows with their active bookings
  requests,  \* status of the purchase requests
  made,      \* the series row exists
  balance,   \* organization_event_balances.balance
  journal,   \* event_balance_entries, as BalanceLedger keeps them
  enforced,  \* EVENT_BALANCE_ENFORCED of the running process
  tx         \* the transactions under way

vars == <<events, requests, made, balance, journal, enforced, tx>>

Status == {"none", "draft", "published", "closed", "finished", "cancelled"}
EventRow == [status : Status,
             early : BOOLEAN,          \* booking_opens_at is in the future
             roster : SUBSET Users]    \* users with a booking not cancelled

SeriesLock == <<"series", 0>>
BalanceLock == <<"balance", 0>>
EventLock(e) == <<"event", e>>
SubscriptionLock(u) == <<"subscription", u>>
Subscriptions == {SubscriptionLock(u) : u \in Users}
Locks == {SeriesLock, BalanceLock} \union {EventLock(e) : e \in Events} \union Subscriptions

Orders(S) == {f \in [1 .. Cardinality(S) -> S] : \A i, j \in DOMAIN f : f[i] = f[j] => i = j}

Idle == [op |-> "idle", at |-> "end", own |-> {}, todo |-> {}, list |-> {}, subs |-> <<>>,
         who |-> {}, spend |-> {}, refund |-> {}, done |-> {}]

\* The earliest in the order (series_date, id) the code locks and cancels in.
First(S) == CHOOSE x \in S : \A y \in S : x <= y

-----------------------------------------------------------------------------
(* Locks.                                                                  *)

MutFreeFor(w, l) == TRUE      \* the lock is gone before the transaction ends

FreeFor(w, l) == \A v \in Workers \ {w} : l \notin tx[v].own
Untouched(l) == \A v \in Workers : l \notin tx[v].own
Begin(w, t) == tx[w] = Idle /\ tx' = [tx EXCEPT ![w] = t]
Go(w, t) == tx' = [tx EXCEPT ![w] = t]
End(w) == Go(w, Idle)

\* The lock the next statement of w takes.
Wants(w) ==
  LET t == tx[w] IN
  IF t.at = "event" THEN {EventLock(First(t.todo))}
  ELSE IF t.at = "balance" THEN {BalanceLock}
  ELSE IF t.at = "subs" /\ t.subs # <<>> THEN {SubscriptionLock(Head(t.subs))}
  ELSE {}

-----------------------------------------------------------------------------
(* Events one by one.                                                      *)

Store(e, ev) == events' = [events EXCEPT ![e] = ev]

\* eventService.create, as a draft or with spending switched off.
CreateUnpaid(e, s) ==
  /\ e \in Singles /\ events[e].status = "none"
  /\ s = "draft" \/ ~enforced
  /\ Store(e, [events[e] EXCEPT !.status = s])
  /\ UNCHANGED <<requests, made, balance, journal, enforced, tx>>

\* eventService.create of a published event: no balance, no event.
CreatePublished(e) ==
  /\ e \in Singles /\ events[e].status = "none" /\ enforced
  /\ Untouched(BalanceLock)
  /\ balance > 0
  /\ balance' = balance - 1
  /\ journal' = [journal EXCEPT !.spent = @ \union {e}]
  /\ Store(e, [events[e] EXCEPT !.status = "published"])
  /\ UNCHANGED <<requests, made, enforced, tx>>

\* Which change of status costs a unit.
Spends(from, to) == enforced /\ from = "draft" /\ to = "published"

MutEditable(e) == events[e].status \notin {"none", "finished"}

Editable(e) == events[e].status \in {"draft", "published", "closed"}

\* eventService.update that spends nothing.
SetStatus(e, s) ==
  /\ Editable(e) /\ ~Spends(events[e].status, s) /\ Untouched(EventLock(e))
  /\ Store(e, [events[e] EXCEPT !.status = s])
  /\ UNCHANGED <<requests, made, balance, journal, enforced, tx>>

MutPutOffOpening(e) ==      \* whoever is booked
  /\ e \in Openings /\ Editable(e) /\ Untouched(EventLock(e))
  /\ Store(e, [events[e] EXCEPT !.early = TRUE])
  /\ UNCHANGED <<requests, made, balance, journal, enforced, tx>>

\* eventService.update that puts the opening of booking into the future.
PutOffOpening(e) ==
  /\ e \in Openings /\ Editable(e) /\ Untouched(EventLock(e))
  /\ events[e].roster = {}
  /\ Store(e, [events[e] EXCEPT !.early = TRUE])
  /\ UNCHANGED <<requests, made, balance, journal, enforced, tx>>

\* The time of the opening comes, or an edit takes it away.
Opening(e) ==
  /\ events[e].early
  /\ Store(e, [events[e] EXCEPT !.early = FALSE])
  /\ UNCHANGED <<requests, made, balance, journal, enforced, tx>>

\* eventService.update of a draft to published takes the event, then the balance.
StartPublish(w, e) ==
  /\ Spends(events[e].status, "published") /\ Untouched(EventLock(e))
  /\ Begin(w, [Idle EXCEPT !.op = "publish", !.at = "balance", !.own = {EventLock(e)},
                           !.list = {e}])
  /\ UNCHANGED <<events, requests, made, balance, journal, enforced>>

MutPublish(w) ==      \* a repeated publication spends again
  LET e == First(tx[w].list) IN
  /\ tx[w].op = "publish" /\ FreeFor(w, BalanceLock)
  /\ balance > 0
  /\ balance' = balance - 1
  /\ journal' = [journal EXCEPT !.spent = @ \union {e}]
  /\ Store(e, [events[e] EXCEPT !.status = "published"])
  /\ End(w)
  /\ UNCHANGED <<requests, made, enforced>>

\* Under the balance: one spending per event, and none without a unit left.
Publish(w) ==
  LET e == First(tx[w].list) IN
  /\ tx[w].op = "publish" /\ FreeFor(w, BalanceLock)
  /\ IF e \in journal.spent
     THEN UNCHANGED <<balance, journal>>
     ELSE /\ balance > 0
          /\ balance' = balance - 1
          /\ journal' = [journal EXCEPT !.spent = @ \union {e}]
  /\ Store(e, [events[e] EXCEPT !.status = "published"])
  /\ End(w)
  /\ UNCHANGED <<requests, made, enforced>>

-----------------------------------------------------------------------------
(* Bookings, as far as they decide a refund and hold subscriptions.        *)

CanBook(e, u) ==
  events[e].status = "published" /\ ~events[e].early /\ u \notin events[e].roster

\* bookingService.book, or cancel of a booking: the event, then the subscription.
StartBooking(w, e, u) ==
  /\ e \in Booked /\ Untouched(EventLock(e))
  /\ CanBook(e, u) \/ u \in events[e].roster
  /\ Begin(w, [Idle EXCEPT !.op = "booking", !.at = "subs", !.own = {EventLock(e)},
                 !.list = {e}, !.who = {u}, !.subs = IF u \in Payers THEN <<u>> ELSE <<>>])
  /\ UNCHANGED <<events, requests, made, balance, journal, enforced>>

EndBooking(w) ==
  LET t == tx[w]
      e == First(t.list)
      ev == events[e]
  IN
  /\ t.op = "booking" /\ t.subs = <<>>
  /\ Store(e, [ev EXCEPT !.roster = (@ \ t.who) \union (t.who \ @)])
  /\ End(w)
  /\ UNCHANGED <<requests, made, balance, journal, enforced>>

-----------------------------------------------------------------------------
(* Cancelling one event, or the dates of the series from a day on.         *)

Cancellable(e) == events[e].status \in {"draft", "published", "closed"}

\* What restoring the sessions of the bookings of e locks, in any order.
Restoring(t, e) ==
  {[t EXCEPT !.at = "subs", !.subs = s] : s \in Orders(Payers \intersect events[e].roster)}

\* The next event of the list: its refund first, then its bookings.
Turns(t) ==
  IF t.list = {} THEN {[t EXCEPT !.at = "commit"]}
  ELSE LET e == First(t.list) IN
       IF e \in journal.spent THEN {[t EXCEPT !.at = "balance"]} ELSE Restoring(t, e)

\* eventService.cancel.
StartCancel(w, e) ==
  /\ events[e].status \notin {"none", "cancelled"} /\ Untouched(EventLock(e))
  /\ \E t \in Turns([Idle EXCEPT !.op = "cancel", !.own = {EventLock(e)}, !.list = {e}]) :
       Begin(w, t)
  /\ UNCHANGED <<events, requests, made, balance, journal, enforced>>

\* seriesService.cancel: the series row, the dates it sees, then their locks.
StartCancelSeries(w, from) ==
  LET candidates == {e \in Dates : e >= from /\ Cancellable(e)} IN
  /\ made /\ Untouched(SeriesLock) /\ candidates # {}
  /\ Begin(w, [Idle EXCEPT !.op = "cancel", !.at = "event", !.own = {SeriesLock},
                           !.todo = candidates, !.list = candidates])
  /\ UNCHANGED <<events, requests, made, balance, journal, enforced>>

\* excludeMember: all the events to come, then the bookings found on them.
StartExclude(w, u) ==
  LET future == {e \in Events : events[e].status # "none"} IN
  /\ future # {}
  /\ Begin(w, [Idle EXCEPT !.op = "exclude", !.at = "event", !.todo = future,
                           !.list = future, !.who = {u}])
  /\ UNCHANGED <<events, requests, made, balance, journal, enforced>>

\* After the last lock the list is read again.
Locked(t) ==
  IF t.op = "cancel" THEN Turns([t EXCEPT !.list = {e \in t.list : Cancellable(e)}])
  ELSE LET booked == {e \in t.list : t.who \subseteq events[e].roster}
       IN  {[t EXCEPT !.at = "subs", !.list = booked,
              !.subs = IF booked = {} THEN <<>>
                       ELSE LET u == CHOOSE u \in t.who : TRUE
                            IN IF u \in Payers THEN <<u>> ELSE <<>>]}

MutTakeEvent(w) ==      \* in any order
  LET t == tx[w] IN
  /\ t.at = "event"
  /\ \E e \in t.todo :
       LET got == [t EXCEPT !.own = @ \union {EventLock(e)}, !.todo = @ \ {e}] IN
       /\ FreeFor(w, EventLock(e))
       /\ \E next \in IF got.todo = {} THEN Locked(got) ELSE {got} : Go(w, next)
  /\ UNCHANGED <<events, requests, made, balance, journal, enforced>>

TakeEvent(w) ==
  LET t == tx[w]
      e == First(t.todo)
      got == [t EXCEPT !.own = @ \union {EventLock(e)}, !.todo = @ \ {e}]
  IN
  /\ t.at = "event" /\ FreeFor(w, EventLock(e))
  /\ \E next \in IF got.todo = {} THEN Locked(got) ELSE {got} : Go(w, next)
  /\ UNCHANGED <<events, requests, made, balance, journal, enforced>>

\* refundOnCancel under the balance: once, and nobody booked or queued.
Refundable(t, e) ==
  /\ e \notin journal.refunded
  /\ events[e].early \/ events[e].roster = {}

TakeBalance(w) ==
  LET t == tx[w]
      e == First(t.list)
      got == [t EXCEPT !.own = @ \union {BalanceLock},
                       !.refund = IF Refundable(t, e) THEN @ \union {e} ELSE @]
  IN
  /\ t.op = "cancel" /\ t.at = "balance" /\ FreeFor(w, BalanceLock)
  /\ \E next \in Restoring(got, e) : Go(w, next)
  /\ UNCHANGED <<events, requests, made, balance, journal, enforced>>

\* restoreSessions or consumeSessions of one subscription.
TakeSubscription(w) ==
  LET t == tx[w] IN
  /\ t.at = "subs" /\ t.subs # <<>> /\ FreeFor(w, SubscriptionLock(Head(t.subs)))
  /\ Go(w, [t EXCEPT !.own = @ \union {SubscriptionLock(Head(t.subs))}, !.subs = Tail(@)])
  /\ UNCHANGED <<events, requests, made, balance, journal, enforced>>

\* The bookings of one event are cancelled: on to the next.
NextEvent(w) ==
  LET t == tx[w]
      e == First(t.list)
  IN
  /\ t.op = "cancel" /\ t.at = "subs" /\ t.subs = <<>>
  /\ \E next \in Turns([t EXCEPT !.done = @ \union {e}, !.list = @ \ {e}]) : Go(w, next)
  /\ UNCHANGED <<events, requests, made, balance, journal, enforced>>

CommitCancel(w) ==
  LET t == tx[w] IN
  /\ t.op = "cancel" /\ t.at = "commit"
  /\ events' = [e \in Events |->
       IF e \in t.done THEN [events[e] EXCEPT !.status = "cancelled", !.roster = {}]
       ELSE events[e]]
  /\ balance' = balance + Cardinality(t.refund)
  /\ journal' = [journal EXCEPT !.refunded = @ \union t.refund]
  /\ End(w)
  /\ UNCHANGED <<requests, made, enforced>>

CommitExclude(w) ==
  LET t == tx[w] IN
  /\ t.op = "exclude" /\ t.at = "subs" /\ t.subs = <<>>
  /\ events' = [e \in Events |->
       IF e \in t.list THEN [events[e] EXCEPT !.roster = @ \ t.who] ELSE events[e]]
  /\ End(w)
  /\ UNCHANGED <<requests, made, balance, journal, enforced>>

-----------------------------------------------------------------------------
(* Creating the series.                                                    *)

\* The first of the dates, as many as the balance pays for.
Affordable(free) == {d \in free : Cardinality({c \in free : c < d}) < balance}

MutPlanSeries(w) ==      \* on the balance read before its row is locked
  /\ ~made
  /\ \E conflicts \in SUBSET Dates :
       LET free == Dates \ conflicts IN
       Begin(w, [Idle EXCEPT !.op = "series", !.at = "commit", !.own = {},
                   !.spend = IF enforced THEN Affordable(free) ELSE {},
                   !.list = IF enforced THEN Affordable(free) ELSE free])
  /\ UNCHANGED <<events, requests, made, balance, journal, enforced>>

\* seriesService.create under the balance row: dates whose venue is taken are
\* drafts, of the others as many are published as the balance pays for.
PlanSeries(w) ==
  /\ Untouched(BalanceLock) /\ ~made
  /\ \E conflicts \in SUBSET Dates :
       LET free == Dates \ conflicts IN
       Begin(w, [Idle EXCEPT !.op = "series", !.at = "commit", !.own = {BalanceLock},
                   !.spend = IF enforced THEN Affordable(free) ELSE {},
                   !.list = IF enforced THEN Affordable(free) ELSE free])
  /\ UNCHANGED <<events, requests, made, balance, journal, enforced>>

CreateSeries(w) ==
  LET t == tx[w] IN
  /\ t.op = "series"
  /\ Cardinality(t.spend) <= balance
  /\ made' = TRUE
  /\ events' = [e \in Events |->
       IF e \notin Dates THEN events[e]
       ELSE [events[e] EXCEPT !.status = IF e \in t.list THEN "published" ELSE "draft"]]
  /\ balance' = balance - Cardinality(t.spend)
  /\ journal' = [journal EXCEPT !.spent = @ \union t.spend]
  /\ End(w)
  /\ UNCHANGED <<requests, enforced>>

-----------------------------------------------------------------------------
(* The operator, and what happens to a transaction from outside.           *)

Ask(r) ==
  /\ requests[r] = "none"
  /\ requests' = [requests EXCEPT ![r] = "pending"]
  /\ UNCHANGED <<events, made, balance, journal, enforced, tx>>

Approve(r) ==
  /\ requests[r] = "pending" /\ Untouched(BalanceLock)
  /\ requests' = [requests EXCEPT ![r] = "approved"]
  /\ balance' = balance + Units
  /\ journal' = [journal EXCEPT !.bought = @ \union {r}]
  /\ UNCHANGED <<events, made, enforced, tx>>

Reject(r) ==
  /\ requests[r] = "pending"
  /\ requests' = [requests EXCEPT ![r] = "rejected"]
  /\ UNCHANGED <<events, made, balance, journal, enforced, tx>>

Adjust(n) ==
  /\ Untouched(BalanceLock)
  /\ balance + n >= 0
  /\ journal.extra + n \in -ExtraLimit .. ExtraLimit
  /\ balance' = balance + n
  /\ journal' = [journal EXCEPT !.extra = @ + n]
  /\ UNCHANGED <<events, requests, made, enforced, tx>>

\* reconcile --apply reads which groups lack a starting grant, then pays it.
StartReconcile(w) ==
  /\ ~journal.granted
  /\ Begin(w, [Idle EXCEPT !.op = "reconcile", !.at = "balance"])
  /\ UNCHANGED <<events, requests, made, balance, journal, enforced>>

\* A second grant breaks event_balance_demo_grant_org_uniq and rolls back.
Reconcile(w) ==
  /\ tx[w].op = "reconcile" /\ FreeFor(w, BalanceLock)
  /\ ~journal.granted
  /\ balance' = balance + DemoQuota
  /\ journal' = [journal EXCEPT !.granted = TRUE]
  /\ End(w)
  /\ UNCHANGED <<events, requests, made, enforced>>

\* A refusal, an error, or the victim of a deadlock: all of it rolls back.
Rollback(w) ==
  /\ tx[w] # Idle /\ End(w)
  /\ UNCHANGED <<events, requests, made, balance, journal, enforced>>

Restart(b) ==
  /\ enforced' = b /\ tx' = [w \in Workers |-> Idle]
  /\ UNCHANGED <<events, requests, made, balance, journal>>

-----------------------------------------------------------------------------
\* Events published before there was a balance have no spending.
Init ==
  /\ events \in [Events -> {[status |-> s, early |-> FALSE, roster |-> {}] :
                              s \in {"none", "published"}}]
  /\ \A e \in Dates : events[e].status = "none"
  /\ requests = [r \in Requests |-> "none"] /\ made = FALSE
  /\ \E g \in BOOLEAN :
       /\ journal = [spent |-> {}, refunded |-> {}, bought |-> {}, granted |-> g, extra |-> 0]
       /\ balance = IF g THEN DemoQuota ELSE 0
  /\ enforced \in Enforcement
  /\ tx = [w \in Workers |-> Idle]

EventStep(e) ==
  \/ \E s \in {"draft", "published"} : CreateUnpaid(e, s)
  \/ CreatePublished(e)
  \/ \E s \in Statuses : SetStatus(e, s)
  \/ PutOffOpening(e) \/ Opening(e)

Start(w) ==
  \/ \E e \in Events :
       \/ StartPublish(w, e) \/ StartCancel(w, e)
       \/ \E u \in Users : StartBooking(w, e, u)
  \/ \E from \in Dates : StartCancelSeries(w, from)
  \/ \E u \in Users : StartExclude(w, u)
  \/ PlanSeries(w) \/ StartReconcile(w)

Proceed(w) ==
  \/ Publish(w) \/ EndBooking(w)
  \/ TakeEvent(w) \/ TakeBalance(w) \/ TakeSubscription(w) \/ NextEvent(w)
  \/ CommitCancel(w) \/ CommitExclude(w) \/ CreateSeries(w) \/ Reconcile(w)

Operator ==
  \/ \E r \in Requests : Ask(r) \/ Approve(r) \/ Reject(r)
  \/ \E n \in Adjustments : Adjust(n)

Next ==
  \/ \E e \in Events : EventStep(e)
  \/ \E w \in Workers : Start(w) \/ Proceed(w) \/ Rollback(w)
  \/ Operator
  \/ \E b \in Enforcement : Restart(b)

Spec == Init /\ [][Next]_vars

-----------------------------------------------------------------------------
(* Properties.                                                             *)

\* The rows and the transactions have the shape the code gives them, and no
\* lock has two owners.
Transaction == [op : {"idle", "publish", "booking", "cancel", "exclude", "series", "reconcile"},
                at : {"end", "event", "balance", "subs", "commit"},
                own : SUBSET Locks, todo : SUBSET Events, list : SUBSET Events,
                subs : Seq(Users), who : SUBSET Users,
                spend : SUBSET Events, refund : SUBSET Events, done : SUBSET Events]

TypeOK ==
  /\ events \in [Events -> EventRow]
  /\ requests \in [Requests -> {"none", "pending", "approved", "rejected"}]
  /\ made \in BOOLEAN /\ enforced \in BOOLEAN /\ balance \in Int
  /\ journal \in [spent : SUBSET Events, refunded : SUBSET Events,
                  bought : SUBSET Requests, granted : BOOLEAN, extra : Int]
  /\ tx \in [Workers -> Transaction]
  /\ \A v, w \in Workers : v # w => tx[v].own \intersect tx[w].own = {}

\* Whatever the transactions do, and in whatever order they commit, the
\* balance and the journal change only as BalanceLedger allows: one row per
\* spending, refund and purchase, and never a balance below zero.
Ledger == INSTANCE BalanceLedger WITH
  spent <- journal.spent, refunded <- journal.refunded, bought <- journal.bought,
  granted <- journal.granted, extra <- journal.extra

LedgerSpec == Ledger!Spec

\* A refund is written for an event nobody is booked on, even if the clock
\* passes the opening of booking between the decision and the commit.
RefundOnlyIfEmpty ==
  [][\A e \in Events : e \in journal'.refunded \ journal.refunded => events[e].roster = {}]_vars

\* A refunded event is cancelled, and stays so: it cannot be published again
\* for free on the strength of its old spending.
RefundedIsCancelled == \A e \in journal.refunded : events[e].status = "cancelled"

\* What a series was planned to publish is still paid for when its dates are
\* inserted: its creation never fails half way for want of balance.
SeriesPlanHolds ==
  \A w \in Workers : tx[w].op = "series" => Cardinality(tx[w].spend) <= balance

\* Some order of the transactions lets each wait only for later ones: for the
\* series, the events and the balance they never wait in a circle.  (For the
\* subscriptions they may: BalanceBeforeMoney does not hold.)
NoWaitCycle ==
  \A S \in SUBSET Workers : S # {} =>
    \E w \in S : \A l \in Wants(w) \ Subscriptions : \A v \in S \ {w} : l \notin tx[v].own

\* Locks go event, balance, subscription: nobody asks for the balance with a
\* subscription in his hands.
BalanceBeforeMoney ==
  \A w \in Workers :
    BalanceLock \in Wants(w) \ tx[w].own => \A u \in Users : SubscriptionLock(u) \notin tx[w].own

\* While spending is enforced, a date of the series that becomes published has
\* spent a unit.  (The dates are all younger than the balance.)
PublishedIsPaid ==
  [][\A e \in Dates :
       (enforced /\ events[e].status # "published" /\ events'[e].status = "published")
         => e \in journal'.spent]_vars
=============================================================================
