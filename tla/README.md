# VolleyTime: a TLA+ verification of the domain core

VolleyTime lets a volleyball group publish events, book seats, queue for full
ones and pay. This directory models the operations whose mistakes cost players
seats or money, or let the wrong people in, as they run against each other in one
database; checks them with TLC on small instances, and proves their main safety
properties with TLAPS for every instance.

## 1. The system

All state is in one PostgreSQL database. `packages/core/src` holds the
services, `apps/web` serves them over HTTP and runs the scheduler inside its
process, `apps/bot` is a Telegram front end that calls the web API.

| Component (`packages/core/src`) | State | Operations | What makes it correct | Module |
|---|---|---|---|---|
| `bookings` | `bookings` row per (event, player): status, method, `seats`, `waitlist_seats`, `booked_at` | book, changeSeats, cancel, bulkAttendance, acceptWaitlistOffer, promotion | never more seats than capacity; the queue is served in order; a booking's seats and its money agree | `EventBookings` |
| `bookings/offers` | `waitlist_offers` | offer free seats, expire, revoke, the scheduler's sweeps | an open offer holds its seats and can be honoured; it goes when the event closes; a lapsed one goes on to the next | `EventBookings` |
| `events` | `events`: status, capacity, price mode, times | create, update, cancel, settle a split, auto-close | closing, settling and cancelling leave nothing behind; shares are fixed once; publication is paid for | `EventBookings`, `EventBalance` |
| `subscriptions` | `subscriptions`: total and used sessions | purchase, activate, consume, restore | sessions are neither lost nor minted | `EventBookings`, `GroupPayments` |
| `payments`, `ledger` | `payments`, `ledger_entries` | create per seat, confirm, reject, refund, release | one live payment per seat; each is decided once and the ledger tells how | `GroupPayments` |
| `collections` | `collections`, contributions | draft, publish, contribute, confirm, reject, complete, cancel | one pending contribution per player, decided once, as seen | `GroupPayments` |
| `event-balance` | balance row and its journal | spend on publication, refund on cancellation, purchase, grant, correct, reconcile | never negative, one spend and one refund per event | `EventBalance`, `BalanceLedger` |
| `series` | `event_series` and its events | create all dates, edit, cancel | all dates or none; no waiting in a circle | `EventBalance` |
| `members`, `invites` | membership status, links and their uses, invitations and requests | redeem, approve, reject, block, leave, exclude; invite, request, withdraw | a blocked member stays out; a link gives no more uses than it has; exclusion leaves nothing behind | `Membership` |
| `telegram-chats` | link codes, chat links | issue, claim, unlink, membership of the bot, announcement | a code works once; one open link per chat and per group; what is over stays over | `ChatLink` |
| `scheduler` | `scheduled_jobs` | tick; claim, send, finish, release, retry | a job is delivered at least once and not repeated while its lease is alive; seats do not stay free | `DeliveryJournal`, `EventBookings` |
| `packages/shared` | none | split allocation, price quote, recurrence | shares add up to the target | none |
| `audit`, `notifier` | append-only rows, messages | record, enqueue | written in the transaction of their operation | none |
| `permissions`, `tenant`, `levels`, `players`, `reports`, `overview`, `search`, `venues`, `schedule-slots`, `subscription-plans`, `organizations` | single rows or none | predicates, reads, one-row edits | nothing concurrent depends on them twice | none |

How they interact. Each operation is a function that opens one transaction at READ
COMMITTED. Everything that touches the seats of an event first takes
`pg_advisory_xact_lock(eventId)`, then reads. Services call each other inside
the caller's transaction: a rejected payment calls `bookingService.cancel`,
which releases payments, gives sessions back and calls `promoteFromWaitlist`,
which offers seats and creates payments again. Nothing calls back across
transactions; notifications are collected and sent after the commit or written
to the journal inside it.

What is hard here is the order of those transactions, and the time between them.
Offers lapse without anybody acting, booking closes at a moment the scheduler
notices later, an organizer edits price, capacity, status and times under existing
bookings, and decides on what his screen showed some time ago. Operations on one
event exclude each other by its lock; those on several events, on the balance, on
members and on chats meet only where their statements lock the same row, and one
that reads before it locks acts on what may be gone. `PROJECT.json` lists these
hazards with the line where each bites.

## 2. Modules

| Module | What it is |
|---|---|
| `EventBookings.tla` | one event: roster, queue, offers, money, scheduler, clock, organizer |
| `GroupPayments.tla` | the payments of a group row by row, their ledger, the organizer's decisions |
| `BalanceLedger.tla` | the abstract balance of events: a number and its journal |
| `EventBalance.tla` | the transactions and locks that carry it out: events, a series, bookings, exclusion |
| `Membership.tla` | members, links, invitations, bookings as far as they depend on them, exclusion |
| `ChatLink.tla` | codes, claims, links to chats, Telegram's updates, failing announcements |
| `DeliveryJournal.tla` | the journal of notifications: passes that claim, send, mark, retry and die |
| `MC*.tla` | instances of these for TLC: symmetry, model values for the constants |
| `*Proofs.tla` | inductive invariants and theorems |

How they fit together. `EventBookings` and `GroupPayments` look at the same seats
from two sides: the first keeps all of the queue and two counts of payments per
booking, the second all of the payment rows and a booking without a queue.
`EventBalance` and `Membership` keep of a booking whether there is one, because that
is what refunds, locks and exclusion ask. `EventBalance` implements `BalanceLedger`.
`DeliveryJournal` begins where an operation has queued its notification.

An operation whose first statement takes the one lock it needs, and that needs no
other, is one action, guarded by that lock being free. One that reads before it locks, or
takes several locks, is several: its transaction is a record in `tx`, and everybody
else may commit between its steps. A refused operation (a 4xx answer) rolls back and
is no step: guards are the conditions under which the handler commits. Reasons to
refuse that depend on nothing modelled (role, cancellation deadline,
`allowWaitlist`) make an enabled action one that may or may not be taken, which
is what an action is.

Operators named `Mut...` are wrong forms of the definition after them, of the
kind a slip in the code would give. Nothing uses them; `PROJECT.json` pairs
each with the property that notices it.

### EventBookings

State and what it stands for:

- `row[p]` joins the tables that hold something of player `p` for this event.
  `status`, `method`, `seats`, `wl` are the `bookings` row (`wl` is
  `waitlist_seats`; `method = "cash"` stands for cash and transfer); `sub` says
  that `subscription_id` is set; `pend` and `paid` count the live payments
  (`liveOf`: current incarnation, seat not released) that are pending or
  succeeded; `alloc` says that `allocated_amount` is set; `offered` and `left`
  are the open offer (status `offered`) and the ticks until `expires_at`, with
  `left = 0` for one that lapsed and is not yet handled; `used` is the
  `used_sessions` of the player's subscription, `OtherUsed` of them on other events.
- `ahead` is the order `(booked_at, id)` of the active bookings.
- `event` is the `events` row. Its `phase` places the clock against the event's
  times: `before` booking opens, `open`, `due` (the closing moment
  `starts_at - close_before_minutes` has passed) and `started`. `manual` is the
  manual-close mark, `skipped` the mark `event.close_skipped`.
- `lapsed` holds players whose subscription is past `expires_at`, `sched` the
  value of `SCHEDULER_ENABLED` in the running process.

| Action | Code |
|---|---|
| `Book` | `bookingService.book`, with the settling of the queue before it and the seats put partly in the queue |
| `IncreaseSeats`, `DecreaseSeats` | the two branches of `changeSeats` |
| `CancelBooking`, `AcceptOffer`, `BulkAttendance` | `cancel`, `acceptWaitlistOffer`, `bulkAttendance` |
| `ConfirmPayment`, `RejectPayment` | `paymentService.confirm`, `.cancel` of a live payment of a booking |
| `UpdateEvent`, `CancelEvent`, `SettleSplit` | `eventService.update`, `.cancel`, `eventPricingService.settle` |
| `ExpireDueOffers`, `OfferFreeSeatsSweep`, `CloseDueEvents` | the steps of the scheduler's tick |
| `Tick`, `AdvancePhase`, `ExpireSubscription`, `Restart` | the clock and the process |

An action contains every call its handler makes: a cancellation, for example,
gives sessions back, releases payments, takes the offer back and hands the seat
on, all in one step. Where the code's outcome depends on something abstracted
away the action allows each outcome:

- `Allotments` is the loop "head of the queue, as many seats as are free, next"
  as a set: the allotments that respect the order and leave nothing free while
  somebody waits. `ahead` is total, so there is exactly one.
- `Later(p)`: a first booking gets `booked_at` from the database's `now()`, the
  start of its transaction, before it waits for the lock; bookings committed
  meanwhile by others are then behind it. A re-booking gets the clock under the
  lock and is last. The model lets a first booking land anywhere in the order.
- `CloseDueEvents` counts roster bookings made before the closing moment; which
  they are is not kept, so where the scheduler may have been off at that moment
  both outcomes are allowed.

`excludeMember` reaches the event as a `CancelBooking` by an organizer.
`bulkAttendance` marks one booking per step: nothing is read between the marks of a
batch.

### GroupPayments

`payment[i]` is a row of `payments`: what it is for (`of`: a seat of the event, a
subscription, a collection), its `booking_incarnation` (`inc`), whether
`seat_released_at` is set. `ledger` holds the `ledger_entries` that name a payment.
`booking[u]` is the booking of a paid event with room for everybody, `subscription[i]`
the subscription that payment `i` buys. `screen` is the pending row the organizer's
list or page shows, with the sum of the rows one decision on it covers: a decision may
come any time later.

| Action | Code |
|---|---|
| `Book`, `AddSeats`, `DropSeats`, `CancelBooking`, `Attend` | what `bookingService` does to payments: `createForSeats`, `releaseSeats`, `syncBookingPayments` |
| `CancelEvent` | `eventService.cancel` with its refunds |
| `Purchase` | `subscriptionService.purchase` |
| `SetCollection`, `CancelCollection`, `Contribute` | `collectionService.create`, `update`, `complete`, `cancel`, `contribute` |
| `Look` | `listPending`, the page of a collection |
| `Confirm`, `Reject` | `paymentService.confirm`, `.cancel`, for each of the three |

Confirming or rejecting a seat covers the unpaid seats of that booking as they are at
the time of the decision, by the code's design; `ConfirmedAsSeen` is therefore stated for
contributions, where a new amount is a new row. `COLLECTIONS_ENABLED` and the
subscriptions of the group are on. `paymentService.refund` is called by `eventService.cancel` only, and is part
of `CancelEvent`.

### BalanceLedger and EventBalance

`BalanceLedger` is the promise: a balance, and the journal as what its partial UNIQUE
indexes tell apart. `EventBalance` keeps the same journal, the events with who is booked
on them, one series, purchase requests, and up to two transactions under way. A
transaction in `tx` has the locks it holds (`own`), where it is (`at`: the kind of its
next statement), the events still to lock (`todo`) and to work on (`list`), the
subscriptions still to take (`subs`), and what it will write when it commits (`done`,
`spend`, `refund`, `who`).

| Action | Code |
|---|---|
| `CreateUnpaid`, `CreatePublished`, `SetStatus`, `PutOffOpening`, `Opening` | `eventService.create`, `update`; the clock |
| `StartPublish`, `Publish` | `update` of a draft to published, `spendOnPublish` |
| `StartBooking`, `EndBooking` | `book` and `cancel` of a booking, as far as locks and refunds go |
| `StartCancel`, `StartCancelSeries`, `TakeEvent`, `TakeBalance`, `NextEvent`, `CommitCancel` | `eventService.cancel`, `seriesService.cancel`, `refundOnCancel` |
| `StartExclude`, `TakeEvent`, `CommitExclude` | `excludeMember` |
| `TakeSubscription` | `consumeSessions`, `restoreSessions` |
| `PlanSeries`, `CreateSeries` | `seriesService.create` |
| `Ask`, `Approve`, `Reject`, `Adjust`, `StartReconcile`, `Reconcile` | `eventBalanceService`, the operator's commands |
| `Rollback`, `Restart` | an error or a deadlock's victim; the process and its `EVENT_BALANCE_ENFORCED` |

### Membership

`member[u]` is the status in `organization_members` ("none": no row); `excluded` says
whose last change was an exclusion. `links` are the links to the group with their uses,
`invites` those to an event, `request[u]` the pending requests of invitation.
`booking[u][e]` is a booking with the invitation it used and whether an organizer
cancelled it (the audit entry the code looks up). Redeeming, leaving, moderating,
asking, booking and excluding are transactions of several steps, the other operations
one step each; `Book` contains `consumeEventInvite` with its order of preference.
`Events` are published events to come: of those alone an exclusion cancels bookings and
withdraws requests, so `Exclude` clears all requests of the player. `Standings` are the
statuses players may have at the start. "guest" is one of them, because block,
exclusion and leaving know it, although no operation makes a guest (`memberService.add`
could, and only tests call it).

### ChatLink

`bot[c]` is what Telegram allows the bot in a chat, `news[c]` the `my_chat_member`
updates under way, in any order; `Lose` is a call of the bot to the web that failed, which is
not repeated. `code` and `link` are the two tables. Of a transaction `codes` are those it
has deleted or spent, `seen` those its DELETE has found and not come to yet, `rows` the
links it has locked; `old` is of the model: the codes that could be used when a release
locked its link.

The DELETE of unused codes, which `issueCode`, `unlink` and `releaseLink` have in common,
fixes its rows when it starts (`Finds`), then takes them one at a time, waiting for each
that another transaction has spent or deleted, and looks again whether it is still
unused (`DeleteCode`). A code committed in between is not among its rows. A claim spends
its code by a conditional UPDATE (`StartClaim`), then makes the link (`Claim`) or not
(`Refuse`: it looks for rivals first, and the INSERT meets them in the two UNIQUE indexes if
they came in between). A release is three steps: the UPDATE that locks the link
(`ToRelease`, in `Unlink`, `SyncOut` and `Failed`), the DELETE (`Revoke`), the audit entry
and the commit (`Release`). A claim that waits in the index and a release that waits for the
claim's code wait for each other; the database ends one of them, which is `Rollback`.

### DeliveryJournal

`scheduler/journal.ts`, where the database's lock protects a claim for the time of
one statement only and everything after it is optimistic.

- `job[j]` is the `scheduled_jobs` row of a deduplication key: `status`,
  `attempts`, `run_at` (`wait`) and `locked_until` (`lease`). Times are kept
  relative to the present and count down, so that nothing grows; a closed row has
  none. `status = "none"` is a key not queued yet.
- `pass[p]` is what one call of `processDueJobs` remembers between its awaits: the
  attempts it read when it claimed each job of its batch (`token`, 0 once it is
  through with it), the lease as its own clock sees it (`until`), the rest of its
  budget (`left`), the job it is sending and the timeout of that send.
- `lag` is how far the pass's clock is behind. `runSchedulerTick` takes `now` at its
  start and hands it to `processDueJobs` as the last but one of its steps; the
  delivery after a request passes no `now` and has no lag.
- `owner`, `sent`, `mishaps`, `pauses` are of the model: the last to claim a job,
  the messages that reached the recipient, crashes and unclear outcomes, deferrals.

Steps of a pass: `StartPass`, `Claim` (any part of what is due, because `SKIP LOCKED`
skips what another claim holds), then for each job of the batch, in any order, `Drop`
(lease over), `Skip` (stale, unreachable), `Defer` (quiet hours) or `Send`; a send
ends in `Arrives` and `MarkDone`, in `Blocked`, `RateLimited` or `Retry`; `EndPass`
gives back what the budget no longer allows. `Retry` is the `catch` of the loop, with
the outcomes it cannot tell apart: the message did not arrive, arrived although the
transport failed, or arrived and the mark failed. `Crash` leaves the rows as they are.
`Tick` lets time pass while sends are under way and while nothing runs; queries take
less than a tick. The exponential backoff is one constant: only that a retry waits
matters. A message that arrives after the transport's timeout counts as arrived at
the moment of the timeout.

## 3. What the runs check

Players are symmetric, and so are jobs, passes and transactions (not used where
liveness is checked). Deadlock checking is off because a cancelled or played event, a
journal of closed jobs and a group whose ids are used up really have nothing more to do;
waiting in a circle is the property `NoWaitCycle`.

| Run | Instance | Question |
|---|---|---|
| `cash` (`Cash.cfg`) | 3 players, up to 2 seats each, capacity 2 or 3, price 1, cash, scheduler on and off over restarts, offers live 2 ticks | capacity, offers that can be honoured, nobody overtakes, fairness of the queue |
| `edits` | 2 players, subscriptions of 3 sessions (1 spent elsewhere) or cash, capacity 2 and 3, every status but draft and all times an organizer may set, scheduler on and off | closing in any way takes offers back; cancellation empties the event; payments and sessions follow the seats |
| `split` | 2 players, split mode, a target of 2 for up to 4 seats, so that settlement sometimes fails; fair scheduler | one share per booking; shares stand; a lapsed offer goes, a free seat is offered |
| `price_payments` | 2 players, price 0 or 1 | the disagreement of section 5 |
| `journal` | 2 jobs, 2 passes, batches of 2, 2 attempts, lease 4, budget 2, send 1, lags 0 and 1: the tightest lease that is safe, budget, send and lag together (in the code 120 s for 10, 5 and the lag) | no message twice except after a crash or an unclear outcome; attempts end; every queued job is settled |
| `journal_slow` | lease 1, budget 2, no wait before a retry: passes lose jobs while they work | a pass that lost a job writes nothing to it; attempts stay at least 0 |
| `balance` | 1 single event, a series of 2 dates, 1 player, 1 request, a starting grant of 1, a correction by 1, 2 transactions; the player books the series, one date may be put off | the balance implements the abstract ledger; refunds only of empty and cancelled events; a planned series is still paid for; no circle of waiting |
| `balance_unpaid` | as `balance`, with closing by hand | the disagreement of section 5 |
| `members` | 2 players, one of them managed and an applicant, a member, a guest or nobody yet at the start; an invite-only event there from the start and one that comes later, 1 invitation, 1 link for one use, 2 transactions | the link's limit; one invitation, one player; exclusion complete; a moderation is carried out on the status it was decided on, and one of those that read it |
| `block_lost` | as `members` | the disagreement of section 5 |
| `payments` | 2 players, 3 payment rows, up to 2 seats, 1 collection, pledges of 1 or 2 | the ledger tells what became of every row; one payment per seat; nothing pending that is not owed; confirmed as seen |
| `chats` | 2 groups, 1 chat, 2 codes, 2 links, 2 transactions | one open link; the codes there are end with it; what ended is final; failures hit the link they belong to |

Bounds of `EventBookings`. Three players give a seat's taker, the head of the
queue and one behind him, which is what every property of the queue relates; two
are enough where the subject is the organizer. Two seats per booking is the
smallest number at which a booking is partly in the roster, partly in the queue,
partly paid, or promoted in part. Capacities 2 and 3 let a booking fill the
event, let one fit in part, and let the organizer raise and lower. Offers of one
tick separate open, lapsed and handled; two ticks also let offers of different
age be open together. Three sessions with one spent elsewhere run out after two
seats and expose a restoration that gives back too much. Nothing else is bounded:
there is no bound on the number of operations. `MoneyMatchesSeats` and
`SessionsConserved` are checked at an unchanging price; with a price edited under
bookings they fail, see section 5. `split` keeps the scheduler on: with
`SCHEDULER_ENABLED` off nothing ever sweeps.

Bounds of `DeliveryJournal`. Two jobs make one wait while the other of its batch is
sent; two passes give an owner and one that takes over (the proof covers more). Two
attempts are the fewest with a retry. `MaxMishaps` (1) bounds crashes and unclear
outcomes per job. `MaxPauses` bounds deferrals: 1 in `journal_slow`, where a deferral
meets a takeover, 0 in `journal`, where it could only make a job wait longer.
`MaxClaims` bounds the attempts up to which a job is claimed: in `journal`
it is out of reach (`NoEndlessRetry` says so), in `journal_slow` a lost
lease costs an attempt without end, and 3 lets a job change hands twice.

Bounds of the others. Two transactions under way at a time show every race of two, and
every circle of two; a circle needs two lock owners at least, and a longer one among
these operations would have to pass through the same three classes of locks. `EventBalance`: a
starting grant of 1 with one correction makes the balance 0, 1 or 2, with three events
to spend on, so that the last unit is always contested; `ExtraLimit` (1) bounds the sum of the
corrections. `Openings` and `Booked` keep the events of which an edit puts the opening off
and those that are booked small: one date that may be put off, the two dates booked, and
a single event that only contends for the balance. `NoWaitCycle` leaves the subscriptions
out, whose order the code breaks (below). `Membership`: one use of a link and two
players, one invitation and two players are the smallest with a loser. `GroupPayments`:
`MaxPayments` (3) rows allow a booking of two seats and a third row released, re-made,
purchased or pledged beside it. `ChatLink`: the second code is one
left beside the one claimed, or that of the link after the first, the second link that of another
group or the one after the first; `MaxCodes` and `MaxLinks` bound ids ever used. Three
codes are two left beside the one claimed: `ChatGroup.cfg`, for one group.

Fairness. In `EventBookings` weak fairness is assumed of the three scheduler steps only.
`createSchedulerRunner` starts the next tick `intervalMs` after the previous one
has ended, in success or failure, `runSchedulerTick` isolates a failing step
from the next, and each step takes every due event (up to a batch limit, in
order of time), so a step that stays enabled is taken. No player, organizer,
clock tick or restart is assumed to happen. In `DeliveryJournal` it is assumed of
each pass's steps (every await of a pass ends, the transport's by its timeout of
5 s, and the runner starts the next pass after the last, in another process or the
restarted one if it died) and of time. Of crashes and deferrals nothing is assumed
but their bounds: quiet hours end, and a service that always crashes settles nothing.
The other modules state safety only: their operations have no loop or retry whose
end is a question.

Further configurations, outside the list of runs (each is `tlc -config X.cfg MC...`):

| Configuration | Shows |
|---|---|
| `Sessions.cfg` | three players on subscriptions, promotion at once: passes, `QueueIsOrdered` included |
| `PriceEditPending.cfg`, `PriceEditSessions.cfg` | counterexamples: the further consequences of an edited price named in section 5 |
| `OfferAfterStart.cfg` | counterexample to `OfferMeansQueue`: attendance after the start drops the queue part of a booking and leaves its open offer. It holds seats nobody is admitted to any more, lapses by itself, and accepting it is refused |
| `JournalLate.cfg` | counterexample to `AtMostOnce` with a lag of 2: the clock of a delivery begins at the start of the scheduler's tick, so leases end early by what the earlier steps took. If those took more than the lease less budget and timeout (105 s), two passes send one message without any failure |
| `BalanceOrder.cfg` | counterexample to `BalanceBeforeMoney`: cancelling a series gives back the sessions of one date before it asks for the balance of the next, where the ADR wants event, balance, subscription |
| `LateEvent.cfg` | counterexample to `ExclusionIsComplete`: a booking on an event created after an exclusion has listed the events, made before the exclusion locks the member, and committed after it has read the bookings, stays |
| `Applicants.cfg` | `members` with a link whose holders become applicants: passes |
| `ChatGroup.cfg` | `chats` with one group and three codes: passes |
| `ChatLate.cfg` | counterexample to `NoCodeOutlivesLink`, see section 5 |
| `ChatCodes.cfg` | counterexample to `OneUnusedCode`: two issues at a time leave two codes. Each works once, and together they link the group at most once |

## 4. What is proved

Eight modules hold proofs. Each extends the module it is about, states the inductive
invariant, has one lemma per action that it keeps it (`...Keeps`, `...Step`), and ends
in the theorems. They hold for every value of the constants that the named assumptions
of the modules allow (players, events, links, chats, amounts, limits, transactions under
way). Three conditions more are named where they are needed, each a step or a
configuration the code does allow and without which the property is false:
`LeaseSuffices`, `StandingPrice` and `NoReturn`, explained below.

| Module | Theorems | For the run |
|---|---|---|
| `EventBookingsProofs` | `TypeCorrect`, `NeverOverbooked` | `cash`: `TypeOK`, `NoOverbooking` |
| `EventBookingsRowProofs` | `FirstComeFirstServed`, `NobodyIsOvertaken`; `QueueInOrder` | `cash`: `QueueIsFair`, `NobodyOvertakes` |
| | `NoOfferOffPublication`, `EachPaysOneShare`, `SeatsStandOnShares`, `StandingAlways` | `edits`: `OffersOnlyWhilePublished`; `split`: all but its liveness |
| | with `StandingPrice`: `MoneyFollowsSeats`, `NoSessionLost`, `CancelledIsEmpty` | `edits`: all the others |
| | with `NoReturn`: `OffersAreBacked` | `cash`: `OfferBacked` |
| `DeliveryJournalProofs` | `TypeCorrect`, `OnlyTheOwnerWrites`; `ClosedForGood` | `journal_slow`: both its properties |
| | with `LeaseSuffices`: `DeliveredOnce`, `GivenUp` | `journal`: all but `Settles` |
| `BalanceLedgerProofs` | `Balanced` | the abstract specification alone |
| `EventBalanceProofs` | `TypeCorrect`, `RefundedStaysCancelled`, `PlanHolds`, `NoRefundWhileBooked`, `Implements`, `NoCircle` | `balance`: all |
| `MembershipProofs` | `TypeCorrect`, `LinksKeepTheirLimit`, `InvitationsServeOne`, `ExclusionHolds`, `CancelledInvitationIsOver`, `ModerationsAreCurrent` | `members`: all |
| `ChatLinkProofs` | `TypeCorrect`, `OneOpenLinkEach`, `CodesGo`, `EndsStand`, `FailuresStay` | `chats`: all |
| `GroupPaymentsProofs` | `TypeCorrect`, `LedgerIsTrue`, `OnePaymentEach`, `NothingIsOwedTwice`, `ConfirmedIsSeen`, `PaidLast` | `payments`: all |

`EventBookingsProofs`. That seats taken and held fit the capacity is not inductive: an
offer could grow past what its player still waits for, and a release could leave a row
with more payments than seats. `Inv` adds `Fits(row)`, which relates the seats, the
queue part, the offer and the payments of each row. The sum over players is counted as
a set of pairs (`Total`), because sums are recursive and sets have the library's theorems on
cardinality. One lemma says for each operator on rows (`CancelledBooking`,
`SettleQueueBeforeTaking`, ...) that it keeps rows fitting and by how much the sum changes.

`EventBookingsRowProofs`. The promises about one booking (its offer against its queue,
its payments against its seats, its sessions, its share) look at one row, but every
operation rewrites many: it lets lapsed offers go, promotes or offers, changes its own
booking, and promotes or offers again. `Moved` says what those loops may do to a row at a
time (lapse, offer, seat), `Own` what the operation does to its own, and `Trip` is a few
moves, the own change, a few moves. `Steps`: every step of the module sends each row on
such a trip, or is a cancellation of the event, a settlement, or (`Rearranged`) an edit,
a tick or a restart. So each promise is proved of a move, of an own change and of the
three others, never of an operation. `Standing` collects those that hold whatever is
edited; `Financed` adds `Funded`, the money and sessions of a row.

- `StandingPrice`: no edit makes a price 0, or one of 0 positive, while somebody is
  booked. `eventService.update` allows it, and section 5 shows what becomes of the
  payments then; the run `edits` has one price for the same reason.
- `NoReturn`: the start of a game under way is not moved to the future.
  `eventService.update` allows that too, and attendance marked before it may have taken
  the queue part of a booking and left its offer (`OfferAfterStart.cfg`). The run `cash`
  has a clock that only advances.

Both are conditions on steps, `Spec /\ [][StandingPrice]_vars`: all other operations
and edits go on as they like.

The order of the queue is about two rows at a time, so trips do not do. `FirstComeFirstServed`:
`Allotments` serves in order, so each round of offers or promotions leaves whoever is
ahead of a served one `Satisfied` (`OfferInOrder`, `PromoteInOrder`). What remains is the
row an operation changes itself. Who books or books more waits for nothing; that a booking
which is not active does not wait needs `Lined` (queued seats stand beside seats of the
roster, or the booking waits as a whole), an invariant of its own. Who gives seats up
(`Frees`: a reduction, a cancellation, a rejection) either waits for as much as before
or for nothing any more. `NobodyIsOvertaken`: who takes seats has settled the queue
first, and if seats are left after that, everybody who waited has an offer for all he
waits for (`AllHaveOffers`, from the last conjunct of `Allotments`). `QueueInOrder` shows that
`ahead` is a strict total order of the active bookings: any subset keeps the order, and
a booking puts its row before a set of rows that contains all those behind its members
(`Later`), which is what a first booking that waited for the lock does.

`DeliveryJournalProofs`. The attempts are a fence although deferral and release take
them down again. `Fence`: no pass remembers more attempts of a job than it has, and
while it runs only its owner remembers as many. A step other than a claim leaves the
attempts (`Kept`) or takes one off as the owner, who forgets the job with it
(`Returned`); a claim makes the number larger than what anybody remembers.
`ClosedForGood` follows from the guards of all writes at once: none matches a closed row.

`DeliveredOnce` and `GivenUp` depend on times. `LeaseSuffices` is the condition that the
lease covers the budget of a pass, one send and the lag of its clock (120 s for 10 s,
5 s and the earlier steps of the tick; `JournalLate.cfg` breaks it and the property).
`LeaseHolds`: a pass with jobs in its hands owns each of them, under a lease that outlasts
what the pass has left of its budget and of its send; so no other pass can take a job
whose message is on its way. `TallyHolds` then counts: messages sent and attempts of a
job exceed what its status accounts for only by its mishaps.

`BalanceLedgerProofs` and `EventBalanceProofs`. `Balanced`: the abstract balance is the
sum of its journal. The invariant of the detailed module is `TypeOK /\ Rows /\ Shape(w)`:
`Rows` relates events to the journal (a refunded event was spent on and is cancelled),
`Shape` says of each transaction what it holds and knows at each place: that the lock
of every event it has looked at is its own, that what it means to refund is spent, cancelled
by itself at the commit and booked by nobody, that a planned series does not exceed the
balance whose lock it holds. `Undisturbed` is the step that makes it compositional: what
a transaction knows concerns rows it has locked, so other transactions leave its `Shape` alone.
`Implements` maps `BalanceLedger` to the journal: each commit is one step of the
abstract module, everything else a stutter. `NoCircle` rests on `InOrder`: a transaction
that still locks events holds none behind the next one it asks for, and not the balance.
Of any transactions, one that asks for nothing, or for the balance, therefore
waits for none of the others, since its holder is past both and asks no more; and if all ask
for events, one that asks for the last of them does, since whoever held that event would
be asking for a later one.

`MembershipProofs`. The same scheme. `ExclusionHolds` rests on this: a booking
holds its event's lock before it reads the membership, and an exclusion holds the locks of
all planned events before it takes the member's row; so a booking that read the old
membership has committed before the exclusion lists the bookings, and one that has not
read yet finds the member gone. `ModerationsAreCurrent` rests on the conditional UPDATE of
`transition`: what it changes is a status its transition allows, and every transition leads away
from the statuses it may start from, so whatever else was decided on the same reading finds
another status.

`ChatLinkProofs`. `Shape` says that a claim's code is unused while it is under way, that the link
a release will end is open, and that after its DELETE has begun each code of `old` that is
still unused is deleted by it or yet to come; `TypeOK` that no two transactions hold one
row; `OpenOK` is the pair of UNIQUE indexes as an invariant. `Aged`, a part of what a step
leaves to the others (`Undisturbed`), is that no code comes back to be used, so what the
DELETE has passed over stays over. `CodesGo`, `EndsStand` and `FailuresStay` are properties
of steps and use all of them.

`GroupPaymentsProofs`. `SeatsOK(v)` says of one player that a standing booking has as many
live payments as seats, that nothing unpaid is outside its present incarnation, and that
every seat's payment has the price as its amount; `ScreenOK` says that the screen shows a
row with its amount. `Kept` (no row changes what it is for, whose, or how much) carries
the ledger and the screen over every step; `Apart` carries `SeatsOK` of the other
players. How many rows `Latest` and `Fresh` give is shown from the least and the
greatest element instead of by induction, and the sum on the screen, which the library
defines recursively, likewise: a least set on which it were wrong does not exist (`SumOfEqual`).

Only model-checked: of the properties of the passing runs, nothing but liveness.

Out of the prover's reach: everything under fairness (`LapsedOfferGoes`,
`FreeSeatIsOffered`, `Settles`).

## 5. Where the code and its documents disagree

`price_payments`. `payments/service.ts:83-84` and `docs/architecture/ADR-v3-domain.md:145`
say that a paid fixed-price booking outside the queue has as many live payments as seats.
`addMainSeats` (`bookings/service.ts:183`) creates payments only if the price is above 0
at that moment, and an edit of the price adjusts nothing: a booking that adds a seat
while the price is 0 has two seats and one live payment, also when the price is back. Two
consequences more, outside the runs: `PriceEditPending.cfg` (a booking that queued while
the event was free is promoted to `pending_payment` with nothing to pay), and
`PriceEditSessions.cfg` (`subscriptionSeatsOf` takes a seat without payment for one on a
session, and gives back a session never spent).

`balance_unpaid`. The ADR (`:260`) and `docs/tasks/20-2-1-event-balance.md:77` let the
publication of an event spend a unit. `eventService.update` (`events/service.ts:579`)
spends on the direct step from draft to published only: a draft that is closed and then
published costs nothing.

`block_lost`. `leaveOrg` (`members/service.ts:294`) reads the member and then updates
the row by its id, whatever its status is by then. An organizer's block that commits in
between is overwritten by "left", and who has left may come back by a link, which
`docs/tasks/4-9-9-rejoin-after-leave.md:34` denies the blocked.

Outside the list of runs, `ChatLate.cfg`: the comment of `releaseLink`
(`telegram-chats/service.ts:113`) revokes the unused codes of the group, that of `unlink`
(`:404`) wants no code to link the chat afterwards. An `issueCode` that has
seen no link yet, while a claim makes one, may insert its code after the DELETE of that
link's release has begun: the link ends and the code stays usable for its 15 minutes.
`CodesEndWithLink` therefore speaks of the codes there are when the release locks its link.

## 6. Not modelled

- Reads, reports, search, previews and lists: they change nothing.
- Edits of single rows nothing concurrent depends on: organizations, venues, levels,
  subscription plans, schedule slots, titles and texts.
- `audit` and the texts of `notifier`; what is sent without the journal is
  fire-and-forget. The one audit entry a service reads back, the last cancellation of a
  booking, is in `Membership`.
- Authentication (a library), roles and permissions (pure predicates), the pages and the
  handlers of `apps/web`, which validate input and call one service each: most of the
  repository's lines are these.
- The pure algorithms of `packages/shared` (split allocation, quote, recurrence): table
  tests reach them; the models ask only how many payments there are.
- The retry counter of the auto-close, the purge of closed jobs and the feed row of the
  journal, the edit of future dates of a series and the replay of its creation, payments
  by a split's shares, a player's choice among several subscriptions.

## 7. What is left

1. Auto-close with its transient failures and the hand-over to the organizer after five.
2. The notifications of an operation between its commit and the journal.
3. Payments of a split's shares in `GroupPayments`; the pure split allocation.
4. The edit of the future dates of a series, whose events may meanwhile be edited alone.

## 8. Running

`tlc -workers 2 -config Cash.cfg MCEventBookings.tla` checks a run, and so on as
`PROJECT.json` pairs modules and configurations; each takes between seconds and two
minutes. `tlapm EventBookingsProofs.tla` checks the proofs of a module.
