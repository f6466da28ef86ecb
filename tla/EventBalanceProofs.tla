-------------------------- MODULE EventBalanceProofs --------------------------
(***************************************************************************)
(* EventBalance carries out BalanceLedger, for any events, players,        *)
(* requests, amounts and number of transactions under way.                 *)
(*                                                                         *)
(* What a transaction has decided under its locks must still be true when  *)
(* it commits.  Shape says what that is for each operation; Undisturbed    *)
(* says what the others leave alone as long as it holds its locks; and     *)
(* since no lock has two owners, every step of every other one does.       *)
(***************************************************************************)
EXTENDS EventBalance, FiniteSetTheorems, WellFoundedInduction, TLAPS

-----------------------------------------------------------------------------
(* The inductive invariant.                                                *)

DataOK ==
  /\ events \in [Events -> EventRow]
  /\ requests \in [Requests -> {"none", "pending", "approved", "rejected"}]
  /\ made \in BOOLEAN /\ enforced \in BOOLEAN /\ balance \in Int
  /\ journal \in [spent : SUBSET Events, refunded : SUBSET Events,
                  bought : SUBSET Requests, granted : BOOLEAN, extra : Int]

TxOK ==
  /\ tx \in [Workers -> Transaction]
  /\ \A v, w \in Workers : v # w => tx[v].own \intersect tx[w].own = {}

\* What the journal says of the rows.
Rows ==
  /\ balance >= 0
  /\ journal.refunded \subseteq journal.spent
  /\ \A e \in journal.spent : events[e].status # "none"
  /\ \A e \in journal.refunded : events[e].status = "cancelled"
  /\ \A e \in Events : events[e].early => events[e].roster = {}
  /\ ~made => \A e \in Dates : events[e].status = "none"
  /\ \A r \in journal.bought : requests[r] = "approved"

Held(w, e) == EventLock(e) \in tx[w].own

OnOneEvent(w) ==
  /\ tx[w].op = "publish" =>
       \E e \in Events : tx[w].list = {e} /\ Held(w, e) /\ events[e].status = "draft"
  /\ tx[w].op = "booking" =>
       \E e \in Events : tx[w].list = {e} /\ Held(w, e) /\ ~events[e].early

OnEvents(w) ==
  /\ tx[w].at = "event" => tx[w].op \in {"cancel", "exclude"} /\ tx[w].todo # {}
  /\ tx[w].op \in {"cancel", "exclude"} =>
       \A e \in tx[w].list : Held(w, e) \/ (tx[w].at = "event" /\ e \in tx[w].todo)

\* The refunds a cancellation has decided on.
Refunds(w) ==
  tx[w].op = "cancel" =>
    /\ \A e \in tx[w].done : Held(w, e)
    /\ \A e \in tx[w].done \union tx[w].list : events[e].status # "none"
    /\ \A e \in tx[w].refund :
         /\ Held(w, e) /\ e \in journal.spent /\ e \notin journal.refunded
         /\ events[e].roster = {}
         /\ e \in tx[w].done \/ (tx[w].at = "subs" /\ e = First(tx[w].list))
    /\ tx[w].at = "event" => tx[w].refund = {}
    /\ tx[w].at \in {"balance", "subs"} => tx[w].list # {}
    /\ tx[w].at = "balance" => First(tx[w].list) \in journal.spent

Planned(w) ==
  tx[w].op = "series" =>
    /\ BalanceLock \in tx[w].own /\ ~made
    /\ tx[w].spend \subseteq tx[w].list /\ tx[w].list \subseteq Dates
    /\ Cardinality(tx[w].spend) <= balance

Shape(w) == OnOneEvent(w) /\ OnEvents(w) /\ Refunds(w) /\ Planned(w)

IInv == TypeOK /\ Rows /\ \A w \in Workers : Shape(w)

\* What a step of others leaves to transaction v, because of the locks it holds.
Undisturbed(v) ==
  /\ \A e \in Events : Held(v, e) =>
       /\ events[e].status = "draft" => events'[e].status = "draft"
       /\ events'[e].roster = events[e].roster
       /\ events'[e].early => events[e].early
       /\ e \notin journal.refunded => e \notin journal'.refunded
  /\ \A e \in Events : events[e].status # "none" => events'[e].status # "none"
  /\ journal.spent \subseteq journal'.spent
  /\ BalanceLock \in tx[v].own => balance <= balance' /\ made' = made

-----------------------------------------------------------------------------
(* Numbers and sets.                                                       *)

\* Every set of ids that is not empty has a first.
LEMMA FirstIsLeast ==
  ASSUME NEW S, S \subseteq Nat, S # {}
  PROVE  First(S) \in S /\ \A y \in S : First(S) <= y
<1> DEFINE R == {ss \in Nat \X Nat : ss[1] < ss[2]}
<1>1. IsWellFoundedOn(R, Nat)
  BY NatLessThanWellFounded DEF OpToRel
<1>2. \E x \in S : \A y \in S : ~ (<<y, x>> \in R)
  <2> HIDE DEF R
  <2> QED
    BY <1>1, WFMin
<1>3. PICK x \in S : \A y \in S : ~ (<<y, x>> \in R)
  BY <1>2
<1>4. ASSUME NEW y \in S
      PROVE  x <= y
  <2>1. x \in Nat /\ y \in Nat
    OBVIOUS
  <2>2. ~ (y < x)
    <3>1. <<y, x>> \in Nat \X Nat
      BY <2>1
    <3> QED
      BY <1>3, <3>1
  <2> QED
    BY <2>1, <2>2
<1> QED
  BY <1>4 DEF First

LEMMA FirstOfOne ==
  ASSUME NEW e \in Nat
  PROVE  First({e}) = e
BY FirstIsLeast

LEMMA EventsAreNumbers ==
  Events \subseteq Nat /\ IsFiniteSet(Events) /\ Dates \subseteq Events /\ Singles \subseteq Events
<1>1. IsFiniteSet(Singles) /\ IsFiniteSet(Dates)
  BY EventsAssumption
<1>2. IsFiniteSet(Events)
  BY <1>1, FS_Union DEF Events
<1> QED
  BY <1>2, EventsAssumption DEF Events

LEMMA EventsCount ==
  ASSUME NEW S \in SUBSET Events
  PROVE  IsFiniteSet(S) /\ Cardinality(S) \in Nat
BY EventsAreNumbers, FS_Subset, FS_CardinalityType

\* What a series publishes is no more than the balance pays for: the dates it
\* takes have different numbers of dates before them, all below the balance.
LEMMA AffordableIsPaid ==
  ASSUME NEW free \in SUBSET Dates, balance \in Nat
  PROVE  Affordable(free) \subseteq free /\ Cardinality(Affordable(free)) <= balance
<1> DEFINE A == Affordable(free)
           before(d) == {c \in free : c < d}
           f == [d \in A |-> Cardinality(before(d))]
<1>1. A \subseteq free /\ free \in SUBSET Events /\ free \subseteq Nat
  BY EventsAreNumbers DEF Affordable
<1>2. \A d \in free : before(d) \in SUBSET Events
  BY <1>1
<1>3. \A d \in free : IsFiniteSet(before(d)) /\ Cardinality(before(d)) \in Nat
  BY <1>2, EventsCount
<1>4. \A d \in A : Cardinality(before(d)) \in 0 .. balance - 1
  <2> SUFFICES ASSUME NEW d \in A PROVE Cardinality(before(d)) \in 0 .. balance - 1
    OBVIOUS
  <2>1. Cardinality(before(d)) < balance
    BY DEF Affordable
  <2>2. Cardinality(before(d)) \in Nat
    BY <1>1, <1>3
  <2> HIDE DEF before
  <2> QED
    BY <2>1, <2>2
<1>5. ASSUME NEW c \in A, NEW d \in A, c < d
      PROVE  Cardinality(before(c)) # Cardinality(before(d))
  <2>0. c \in free /\ d \in free /\ c \in Nat /\ d \in Nat /\ free \subseteq Nat
    BY <1>1
  <2> HIDE DEF A, f
  <2>1. before(c) \in SUBSET before(d)
    <3>1. ASSUME NEW e \in free, e < c
          PROVE  e < d
      <4>1. e \in Nat
        BY <2>0
      <4> QED
        BY <1>5, <2>0, <3>1, <4>1
    <3> QED
      BY <3>1
  <2>2. c \in before(d) /\ c \notin before(c)
    BY <1>5, <2>0
  <2>3. IsFiniteSet(before(d))
    BY <1>1, <1>3
  <2> HIDE DEF before
  <2> QED
    BY <2>1, <2>2, <2>3, FS_Subset
<1>6. f \in Injection(A, 0 .. balance - 1)
  <2>1. f \in [A -> 0 .. balance - 1]
    BY <1>4
  <2>2. ASSUME NEW c \in A, NEW d \in A, f[c] = f[d]
        PROVE  c = d
    <3>1. c \in Nat /\ d \in Nat
      BY <1>1
    <3>2. ~ (c < d) /\ ~ (d < c)
      BY <1>5, <2>2
    <3> QED
      BY <3>1, <3>2
  <2> QED
    BY <2>1, <2>2 DEF Injection, IsInjective
<1>7. IsFiniteSet(0 .. balance - 1) /\ Cardinality(0 .. balance - 1) = balance
  <2>1. 0 \in Int /\ balance - 1 \in Int
    OBVIOUS
  <2> QED
    BY <2>1, FS_Interval
<1>8. Cardinality(A) <= Cardinality(0 .. balance - 1)
  <2> HIDE DEF A, f
  <2> QED
    BY <1>6, <1>7, FS_Injection
<1> QED
  BY <1>1, <1>7, <1>8

-----------------------------------------------------------------------------
(* What one step has to show.                                              *)

LEMMA TypeIsBoth ==
  TypeOK <=> DataOK /\ TxOK
BY DEF TypeOK, DataOK, TxOK

\* A transaction that nobody disturbs keeps its shape.
LEMMA Others ==
  ASSUME IInv, DataOK', NEW v \in Workers, tx'[v] = tx[v], Undisturbed(v)
  PROVE  Shape(v)'
<1>0. /\ Shape(v) /\ tx[v] \in Transaction
      /\ balance \in Int /\ balance' \in Int
      /\ tx[v].list \subseteq Events /\ tx[v].done \subseteq Events
      /\ tx[v].refund \subseteq Events /\ tx[v].spend \in SUBSET Events
      /\ journal.spent \subseteq Events /\ journal'.spent \subseteq Events
  BY DEF IInv, TypeOK, DataOK, Transaction
<1>1. \A e \in Events : Held(v, e)' <=> Held(v, e)
  BY DEF Held
<1>2. OnOneEvent(v)'
  BY <1>0, <1>1 DEF Shape, OnOneEvent, Undisturbed
<1>3. OnEvents(v)'
  BY <1>0, <1>1 DEF Shape, OnEvents
<1>4. Refunds(v)'
  BY <1>0, <1>1 DEF Shape, Refunds, Undisturbed
<1>5. Planned(v)'
  <2>1. Cardinality(tx[v].spend) \in Nat
    BY <1>0, EventsCount
  <2> QED
    BY <1>0, <2>1 DEF Shape, Planned, Undisturbed
<1> QED
  BY <1>2, <1>3, <1>4, <1>5 DEF Shape

\* A step that no transaction is part of.
LEMMA AtOnce ==
  ASSUME IInv, DataOK', Rows', tx' = tx, \A v \in Workers : Undisturbed(v)
  PROVE  IInv'
<1>1. TxOK'
  BY DEF IInv, TypeOK, TxOK
<1>2. \A v \in Workers : Shape(v)'
  BY Others
<1> QED
  BY <1>1, <1>2, TypeIsBoth DEF IInv, TypeOK, DataOK, TxOK

\* A step of transaction w.
LEMMA ByOne ==
  ASSUME IInv, NEW w \in Workers, NEW t, tx' = [tx EXCEPT ![w] = t],
         t \in Transaction, \A l \in t.own : l \in tx[w].own \/ FreeFor(w, l),
         DataOK', Rows', Shape(w)', \A v \in Workers \ {w} : Undisturbed(v)
  PROVE  IInv'
<1>1. /\ tx \in [Workers -> Transaction]
      /\ \A u, v \in Workers : u # v => tx[u].own \intersect tx[v].own = {}
  BY DEF IInv, TypeOK
<1>2. \A v \in Workers \ {w} : tx'[v] = tx[v]
  BY <1>1
<1>3. tx'[w] = t /\ tx' \in [Workers -> Transaction]
  BY <1>1
<1>4. ASSUME NEW u \in Workers, NEW v \in Workers, u # v
      PROVE  tx'[u].own \intersect tx'[v].own = {}
  <2>1. CASE u = w
    BY <1>1, <1>2, <1>3, <1>4, <2>1 DEF FreeFor
  <2>2. CASE v = w
    BY <1>1, <1>2, <1>3, <1>4, <2>2 DEF FreeFor
  <2>3. CASE u # w /\ v # w
    BY <1>1, <1>2, <1>4, <2>3
  <2> QED
    BY <2>1, <2>2, <2>3
<1>5. \A v \in Workers : Shape(v)'
  <2>1. ASSUME NEW v \in Workers, v # w
        PROVE  Shape(v)'
    BY <1>2, <2>1, Others
  <2> QED
    BY <2>1
<1> QED
  BY <1>3, <1>4, <1>5 DEF IInv, TypeOK, DataOK

\* A transaction that is over has no shape to keep.
LEMMA IdleShape ==
  ASSUME NEW w \in Workers, tx'[w] = Idle
  PROVE  Shape(w)'
BY DEF Shape, OnOneEvent, OnEvents, Refunds, Planned, Idle

LEMMA IdleType == Idle \in Transaction /\ Idle.own = {}
<1>1. <<>> \in Seq(Users)
  OBVIOUS
<1> QED
  BY <1>1 DEF Idle, Transaction

\* A step that changes no row disturbs nobody.
LEMMA SameRows ==
  ASSUME IInv, UNCHANGED <<events, requests, made, balance, journal, enforced>>
  PROVE  DataOK' /\ Rows' /\ \A v \in Workers : Undisturbed(v)
BY DEF IInv, TypeOK, DataOK, Rows, Undisturbed

-----------------------------------------------------------------------------
(* Steps that are one transaction each.                                    *)

LEMMA EventStepKeeps ==
  ASSUME IInv, NEW e \in Events, EventStep(e)
  PROVE  IInv'
<1> USE DEF DataOK, Rows
<1>0. /\ DataOK /\ Rows /\ tx \in [Workers -> Transaction]
      /\ events \in [Events -> EventRow] /\ events[e] \in EventRow
      /\ \A d \in Dates : d \in Events /\ d \notin Singles
  BY EventsAssumption DEF IInv, TypeOK, Events
<1>1. ASSUME NEW s \in {"draft", "published"}, CreateUnpaid(e, s)
      PROVE  IInv'
  <2>1. DataOK'
    BY <1>0, <1>1 DEF CreateUnpaid, Store, EventRow, Status
  <2>2. Rows'
    BY <1>0, <1>1 DEF CreateUnpaid, Store, EventRow
  <2>3. \A v \in Workers : Undisturbed(v)
    BY <1>0, <1>1 DEF CreateUnpaid, Store, EventRow, Undisturbed
  <2> QED
    BY <1>1, <2>1, <2>2, <2>3, AtOnce DEF CreateUnpaid
<1>2. CASE CreatePublished(e)
  <2>1. DataOK'
    BY <1>0, <1>2 DEF CreatePublished, Store, EventRow, Status
  <2>2. Rows'
    BY <1>0, <1>2 DEF CreatePublished, Store, EventRow
  <2>3. \A v \in Workers : Undisturbed(v)
    BY <1>0, <1>2 DEF CreatePublished, Store, EventRow, Undisturbed, Untouched
  <2> QED
    BY <1>2, <2>1, <2>2, <2>3, AtOnce DEF CreatePublished
<1>3. ASSUME NEW s \in Statuses, SetStatus(e, s)
      PROVE  IInv'
  <2>0. s \in {"draft", "published", "closed", "finished"}
    BY StatusesAssumption
  <2>1. DataOK'
    BY <1>0, <1>3, <2>0 DEF SetStatus, Store, EventRow, Status
  <2>2. Rows'
    BY <1>0, <1>3, <2>0 DEF SetStatus, Editable, Store, EventRow
  <2>3. \A v \in Workers : Undisturbed(v)
    BY <1>0, <1>3, <2>0 DEF SetStatus, Store, EventRow, Undisturbed, Untouched, Held
  <2> QED
    BY <1>3, <2>1, <2>2, <2>3, AtOnce DEF SetStatus
<1>4. CASE PutOffOpening(e)
  <2>1. DataOK'
    BY <1>0, <1>4 DEF PutOffOpening, Store, EventRow
  <2>2. Rows'
    BY <1>0, <1>4 DEF PutOffOpening, Store, EventRow
  <2>3. \A v \in Workers : Undisturbed(v)
    BY <1>0, <1>4 DEF PutOffOpening, Store, EventRow, Undisturbed, Untouched, Held
  <2> QED
    BY <1>4, <2>1, <2>2, <2>3, AtOnce DEF PutOffOpening
<1>5. CASE Opening(e)
  <2>1. DataOK'
    BY <1>0, <1>5 DEF Opening, Store, EventRow
  <2>2. Rows'
    BY <1>0, <1>5 DEF Opening, Store, EventRow
  <2>3. \A v \in Workers : Undisturbed(v)
    BY <1>0, <1>5 DEF Opening, Store, EventRow, Undisturbed
  <2> QED
    BY <1>5, <2>1, <2>2, <2>3, AtOnce DEF Opening
<1> QED
  BY <1>1, <1>2, <1>3, <1>4, <1>5 DEF EventStep

LEMMA OperatorKeeps ==
  ASSUME IInv, Operator
  PROVE  IInv'
<1> USE DEF DataOK, Rows
<1>0. DataOK /\ Rows /\ tx \in [Workers -> Transaction] /\ Units \in Nat /\ Adjustments \subseteq Int
  BY LedgerAssumption DEF IInv, TypeOK
<1>1. ASSUME NEW r \in Requests, Ask(r) \/ Reject(r)
      PROVE  IInv'
  <2>1. DataOK'
    BY <1>0, <1>1 DEF Ask, Reject
  <2>2. Rows'
    BY <1>0, <1>1 DEF Ask, Reject
  <2>3. \A v \in Workers : Undisturbed(v)
    BY <1>0, <1>1 DEF Ask, Reject, Undisturbed
  <2> QED
    BY <1>1, <2>1, <2>2, <2>3, AtOnce DEF Ask, Reject
<1>2. ASSUME NEW r \in Requests, Approve(r)
      PROVE  IInv'
  <2>1. DataOK'
    BY <1>0, <1>2 DEF Approve
  <2>2. Rows'
    BY <1>0, <1>2 DEF Approve
  <2>3. \A v \in Workers : Undisturbed(v)
    BY <1>0, <1>2 DEF Approve, Undisturbed, Untouched
  <2> QED
    BY <1>2, <2>1, <2>2, <2>3, AtOnce DEF Approve
<1>3. ASSUME NEW n \in Adjustments, Adjust(n)
      PROVE  IInv'
  <2>1. DataOK'
    BY <1>0, <1>3 DEF Adjust
  <2>2. Rows'
    BY <1>0, <1>3 DEF Adjust
  <2>3. \A v \in Workers : Undisturbed(v)
    BY <1>0, <1>3 DEF Adjust, Undisturbed, Untouched
  <2> QED
    BY <1>3, <2>1, <2>2, <2>3, AtOnce DEF Adjust
<1> QED
  BY <1>1, <1>2, <1>3 DEF Operator

-----------------------------------------------------------------------------
(* Transactions that begin.                                                *)

\* How the sessions of an event's bookings are restored changes no more than
\* the order of the locks.
LEMMA RestoringKeeps ==
  ASSUME IInv, NEW t \in Transaction, NEW e \in Events, NEW n \in Restoring(t, e)
  PROVE  /\ n \in Transaction
         /\ n.op = t.op /\ n.own = t.own /\ n.todo = t.todo /\ n.list = t.list
         /\ n.spend = t.spend /\ n.refund = t.refund /\ n.done = t.done
         /\ n.at = "subs"
<1> DEFINE S == Payers \intersect events[e].roster
<1>1. S \in SUBSET Users /\ IsFiniteSet(S) /\ Cardinality(S) \in Nat
  <2>1. S \in SUBSET Users /\ IsFiniteSet(Users)
    BY PlayersAssumption
  <2> QED
    BY <2>1, FS_Subset, FS_CardinalityType
<1>2. PICK s \in Orders(S) : n = [t EXCEPT !.at = "subs", !.subs = s]
  BY DEF Restoring
<1>3. s \in Seq(Users)
  <2>1. s \in [1 .. Cardinality(S) -> S]
    BY <1>2 DEF Orders
  <2>2. s \in [1 .. Cardinality(S) -> Users]
    BY <1>1, <2>1
  <2> HIDE DEF S
  <2> QED
    BY <1>1, <2>2
<1> HIDE DEF S
<1> QED
  BY <1>2, <1>3 DEF Transaction

\* Where a cancellation is when it turns to its next event.
LEMMA TurnsKeep ==
  ASSUME IInv, NEW t \in Transaction, NEW n \in Turns(t)
  PROVE  /\ n \in Transaction
         /\ n.op = t.op /\ n.own = t.own /\ n.todo = t.todo /\ n.list = t.list
         /\ n.spend = t.spend /\ n.refund = t.refund /\ n.done = t.done
         /\ \/ n.at = "commit" /\ t.list = {}
            \/ n.at = "balance" /\ t.list # {} /\ First(t.list) \in journal.spent
            \/ n.at = "subs" /\ t.list # {}
<1>1. CASE t.list = {}
  BY <1>1 DEF Turns, Transaction
<1>2. CASE t.list # {} /\ First(t.list) \in journal.spent
  BY <1>2 DEF Turns, Transaction
<1>3. CASE t.list # {} /\ First(t.list) \notin journal.spent
  <2>1. First(t.list) \in Events
    <3>1. t.list \subseteq Nat /\ t.list \subseteq Events
      BY EventsAreNumbers DEF Transaction
    <3> QED
      BY <1>3, <3>1, FirstIsLeast
  <2>2. n \in Restoring(t, First(t.list))
    BY <1>3 DEF Turns
  <2> QED
    BY <1>3, <2>1, <2>2, RestoringKeeps
<1> QED
  BY <1>1, <1>2, <1>3

LEMMA StartKeeps ==
  ASSUME IInv, NEW w \in Workers, Start(w)
  PROVE  IInv'
<1>0. /\ tx \in [Workers -> Transaction]
      /\ events \in [Events -> EventRow]
      /\ Rows /\ balance \in Int /\ made \in BOOLEAN /\ journal.spent \subseteq Events
  BY DEF IInv, TypeOK
<1>1. /\ Idle \in Transaction /\ <<>> \in Seq(Users) /\ Payers \subseteq Users
      /\ \A u \in Users : <<u>> \in Seq(Users)
  BY IdleType, PlayersAssumption
<1>2. \A e \in Events : EventLock(e) \in Locks /\ SeriesLock \in Locks /\ BalanceLock \in Locks
  BY DEF Locks
<1>3. ASSUME NEW l, Untouched(l)
      PROVE  FreeFor(w, l)
  BY <1>3 DEF Untouched, FreeFor
<1> USE DEF Begin
<1>4. ASSUME NEW e \in Events, StartPublish(w, e)
      PROVE  IInv'
  <2> DEFINE t == [Idle EXCEPT !.op = "publish", !.at = "balance", !.own = {EventLock(e)},
                               !.list = {e}]
  <2>1. /\ t \in Transaction /\ t.own = {EventLock(e)} /\ t.list = {e}
        /\ t.op = "publish" /\ t.at = "balance"
    BY <1>1, <1>2 DEF Idle, Transaction
  <2>2. tx' = [tx EXCEPT ![w] = t] /\ events[e].status = "draft" /\ FreeFor(w, EventLock(e))
    BY <1>3, <1>4 DEF StartPublish, Spends
  <2> HIDE DEF t
  <2>3. tx'[w] = t /\ events' = events
    BY <1>0, <1>4, <2>2 DEF StartPublish
  <2>4. Shape(w)'
    BY <2>1, <2>2, <2>3 DEF Shape, OnOneEvent, OnEvents, Refunds, Planned, Held
  <2>5. DataOK' /\ Rows' /\ \A v \in Workers : Undisturbed(v)
    BY <1>4, SameRows DEF StartPublish
  <2> QED
    BY <2>1, <2>2, <2>4, <2>5, ByOne
<1>5. ASSUME NEW e \in Events, NEW u \in Users, StartBooking(w, e, u)
      PROVE  IInv'
  <2> DEFINE t == [Idle EXCEPT !.op = "booking", !.at = "subs", !.own = {EventLock(e)},
                     !.list = {e}, !.who = {u}, !.subs = IF u \in Payers THEN <<u>> ELSE <<>>]
  <2>1. /\ t \in Transaction /\ t.own = {EventLock(e)} /\ t.list = {e}
        /\ t.op = "booking" /\ t.at = "subs"
    BY <1>1, <1>2, ZenonT(40) DEF Idle, Transaction
  <2>2. tx' = [tx EXCEPT ![w] = t] /\ ~events[e].early /\ FreeFor(w, EventLock(e))
    <3>1. tx' = [tx EXCEPT ![w] = t] /\ FreeFor(w, EventLock(e))
      BY <1>3, <1>5 DEF StartBooking
    <3>2. events[e].early \in BOOLEAN /\ (events[e].early => events[e].roster = {})
      BY <1>0 DEF EventRow, Rows
    <3>3. ~events[e].early
      BY <1>5, <3>2 DEF StartBooking, CanBook
    <3> QED
      BY <3>1, <3>3
  <2> HIDE DEF t
  <2>3. tx'[w] = t /\ events' = events
    BY <1>0, <1>5, <2>2 DEF StartBooking
  <2>4. Shape(w)'
    BY <2>1, <2>2, <2>3 DEF Shape, OnOneEvent, OnEvents, Refunds, Planned, Held
  <2>5. DataOK' /\ Rows' /\ \A v \in Workers : Undisturbed(v)
    BY <1>5, SameRows DEF StartBooking
  <2> QED
    BY <2>1, <2>2, <2>4, <2>5, ByOne
<1>6. ASSUME NEW e \in Events, StartCancel(w, e)
      PROVE  IInv'
  <2> DEFINE t == [Idle EXCEPT !.op = "cancel", !.own = {EventLock(e)}, !.list = {e}]
  <2>1. /\ t \in Transaction /\ t.own = {EventLock(e)} /\ t.list = {e} /\ t.todo = {}
        /\ t.op = "cancel" /\ t.done = {} /\ t.refund = {}
    BY <1>1, <1>2 DEF Idle, Transaction
  <2>2. PICK n \in Turns(t) : tx' = [tx EXCEPT ![w] = n]
    BY <1>6 DEF StartCancel
  <2> HIDE DEF t
  <2>3. /\ n \in Transaction /\ n.op = "cancel" /\ n.own = {EventLock(e)} /\ n.list = {e}
        /\ n.refund = {} /\ n.done = {}
        /\ n.at \in {"balance", "subs"} /\ (n.at = "balance" => First(n.list) \in journal.spent)
    BY <2>1, TurnsKeep
  <2>4. tx'[w] = n /\ events' = events /\ journal' = journal /\ events[e].status # "none"
    BY <1>0, <1>6, <2>2 DEF StartCancel
  <2>5. Shape(w)'
    BY <2>3, <2>4 DEF Shape, OnOneEvent, OnEvents, Refunds, Planned, Held
  <2>6. DataOK' /\ Rows' /\ \A v \in Workers : Undisturbed(v)
    BY <1>6, SameRows DEF StartCancel
  <2>7. FreeFor(w, EventLock(e))
    BY <1>3, <1>6 DEF StartCancel
  <2> QED
    BY <2>2, <2>3, <2>5, <2>6, <2>7, ByOne
<1>7. ASSUME NEW from \in Dates, StartCancelSeries(w, from)
      PROVE  IInv'
  <2> DEFINE C == {e \in Dates : e >= from /\ Cancellable(e)}
             t == [Idle EXCEPT !.op = "cancel", !.at = "event", !.own = {SeriesLock},
                               !.todo = C, !.list = C]
  <2>0. C \subseteq Events /\ \A e \in C : events[e].status # "none"
    BY EventsAreNumbers DEF Cancellable
  <2>1. tx' = [tx EXCEPT ![w] = t] /\ C # {} /\ FreeFor(w, SeriesLock)
    BY <1>3, <1>7 DEF StartCancelSeries
  <2> HIDE DEF C
  <2>2. /\ t \in Transaction /\ t.own = {SeriesLock} /\ t.list = C /\ t.todo = C
        /\ t.op = "cancel" /\ t.at = "event" /\ t.done = {} /\ t.refund = {}
    BY <1>1, <2>0 DEF Idle, Transaction, Locks
  <2> HIDE DEF t
  <2>3. tx'[w] = t /\ events' = events
    BY <1>0, <1>7, <2>1 DEF StartCancelSeries
  <2>4. Shape(w)'
    BY <2>0, <2>1, <2>2, <2>3 DEF Shape, OnOneEvent, OnEvents, Refunds, Planned, Held
  <2>5. DataOK' /\ Rows' /\ \A v \in Workers : Undisturbed(v)
    BY <1>7, SameRows DEF StartCancelSeries
  <2> QED
    BY <2>1, <2>2, <2>4, <2>5, ByOne
<1>8. ASSUME NEW u \in Users, StartExclude(w, u)
      PROVE  IInv'
  <2> DEFINE F == {e \in Events : events[e].status # "none"}
             t == [Idle EXCEPT !.op = "exclude", !.at = "event", !.todo = F,
                               !.list = F, !.who = {u}]
  <2>0. F \subseteq Events
    OBVIOUS
  <2>1. tx' = [tx EXCEPT ![w] = t] /\ F # {}
    BY <1>8 DEF StartExclude
  <2> HIDE DEF F
  <2>2. /\ t \in Transaction /\ t.own = {} /\ t.list = F /\ t.todo = F
        /\ t.op = "exclude" /\ t.at = "event"
    BY <1>1, <2>0 DEF Idle, Transaction
  <2> HIDE DEF t
  <2>3. tx'[w] = t
    BY <1>0, <2>1
  <2>4. Shape(w)'
    BY <2>0, <2>1, <2>2, <2>3 DEF Shape, OnOneEvent, OnEvents, Refunds, Planned, Held
  <2>5. DataOK' /\ Rows' /\ \A v \in Workers : Undisturbed(v)
    BY <1>8, SameRows DEF StartExclude
  <2> QED
    BY <2>1, <2>2, <2>4, <2>5, ByOne
<1>9. CASE PlanSeries(w)
  <2>1. PICK conflicts \in SUBSET Dates :
          LET free == Dates \ conflicts IN
          tx' = [tx EXCEPT ![w] =
                  [Idle EXCEPT !.op = "series", !.at = "commit", !.own = {BalanceLock},
                     !.spend = IF enforced THEN Affordable(free) ELSE {},
                     !.list = IF enforced THEN Affordable(free) ELSE free]]
    BY <1>9 DEF PlanSeries
  <2> DEFINE free == Dates \ conflicts
             A == Affordable(free)
             t == [Idle EXCEPT !.op = "series", !.at = "commit", !.own = {BalanceLock},
                     !.spend = IF enforced THEN A ELSE {},
                     !.list = IF enforced THEN A ELSE free]
  <2>2. balance \in Nat /\ A \subseteq free /\ Cardinality(A) <= balance /\ free \subseteq Dates
    <3>1. free \in SUBSET Dates /\ balance \in Nat
      BY <1>0 DEF Rows
    <3> HIDE DEF free
    <3> QED
      BY <3>1, AffordableIsPaid
  <2>3. tx' = [tx EXCEPT ![w] = t] /\ ~made /\ made' = made /\ balance' = balance
        /\ FreeFor(w, BalanceLock)
    BY <1>3, <1>9, <2>1 DEF PlanSeries
  <2> HIDE DEF free, A
  <2>4. /\ t \in Transaction /\ t.own = {BalanceLock} /\ t.op = "series" /\ t.at = "commit"
        /\ t.spend \subseteq t.list /\ t.list \subseteq Dates
        /\ t.spend = IF enforced THEN A ELSE {}
    BY <1>1, <1>2, <2>2, EventsAreNumbers DEF Idle, Transaction, Locks
  <2>5. Cardinality(t.spend) <= balance
    BY <2>2, <2>4, FS_EmptySet
  <2> HIDE DEF t
  <2>6. tx'[w] = t
    BY <1>0, <2>3
  <2>7. Shape(w)'
    BY <2>3, <2>4, <2>5, <2>6 DEF Shape, OnOneEvent, OnEvents, Refunds, Planned
  <2>8. DataOK' /\ Rows' /\ \A v \in Workers : Undisturbed(v)
    BY <1>9, SameRows DEF PlanSeries
  <2> QED
    BY <2>3, <2>4, <2>7, <2>8, ByOne
<1>10. CASE StartReconcile(w)
  <2> DEFINE t == [Idle EXCEPT !.op = "reconcile", !.at = "balance"]
  <2>1. tx' = [tx EXCEPT ![w] = t]
    BY <1>10 DEF StartReconcile
  <2>2. t \in Transaction /\ t.own = {} /\ t.op = "reconcile" /\ t.at = "balance"
    BY <1>1 DEF Idle, Transaction
  <2> HIDE DEF t
  <2>3. tx'[w] = t
    BY <1>0, <2>1
  <2>4. Shape(w)'
    BY <2>2, <2>3 DEF Shape, OnOneEvent, OnEvents, Refunds, Planned
  <2>5. DataOK' /\ Rows' /\ \A v \in Workers : Undisturbed(v)
    BY <1>10, SameRows DEF StartReconcile
  <2> QED
    BY <2>1, <2>2, <2>4, <2>5, ByOne
<1> QED
  BY <1>4, <1>5, <1>6, <1>7, <1>8, <1>9, <1>10 DEF Start

-----------------------------------------------------------------------------
(* Transactions that go on.                                                *)

\* A step to t that changes no row.
LEMMA Moves ==
  ASSUME IInv, NEW w \in Workers, NEW t \in Transaction, tx' = [tx EXCEPT ![w] = t],
         UNCHANGED <<events, requests, made, balance, journal, enforced>>,
         \A l \in t.own : l \in tx[w].own \/ FreeFor(w, l), Shape(w)'
  PROVE  IInv'
BY SameRows, ByOne

\* A step that ends w.
LEMMA Ends ==
  ASSUME IInv, NEW w \in Workers, End(w), DataOK', Rows',
         \A v \in Workers \ {w} : Undisturbed(v)
  PROVE  IInv'
<1>1. tx' = [tx EXCEPT ![w] = Idle] /\ tx'[w] = Idle
  BY DEF End, Go, IInv, TypeOK
<1>2. Idle \in Transaction /\ Idle.own = {} /\ Shape(w)'
  BY <1>1, IdleType, IdleShape
<1> QED
  BY <1>1, <1>2, ByOne

LEMMA OneHolder ==
  ASSUME IInv, NEW v \in Workers, NEW w \in Workers, v # w, NEW l \in tx[w].own
  PROVE  l \notin tx[v].own
BY DEF IInv, TypeOK

\* What the state of a transaction is taken to be.
LEMMA Now ==
  ASSUME IInv, NEW w \in Workers
  PROVE  /\ tx \in [Workers -> Transaction] /\ tx[w] \in Transaction
         /\ events \in [Events -> EventRow] /\ Rows
         /\ journal.spent \subseteq Events /\ Events \subseteq Nat
         /\ OnOneEvent(w) /\ OnEvents(w) /\ Refunds(w) /\ Planned(w)
         /\ \A f \in {"todo", "list", "done", "refund", "spend"} : tx[w][f] \subseteq Events
BY EventsAreNumbers DEF IInv, TypeOK, Shape, Transaction

LEMMA PublishKeeps ==
  ASSUME IInv, NEW w \in Workers, Publish(w)
  PROVE  IInv'
<1>1. PICK e \in Events : tx[w].list = {e} /\ Held(w, e) /\ events[e].status = "draft"
  BY Now DEF Publish, OnOneEvent
<1>2. First(tx[w].list) = e
  BY <1>1, EventsAreNumbers, FirstOfOne
<1>3. Store(e, [events[e] EXCEPT !.status = "published"]) /\ FreeFor(w, BalanceLock)
  BY <1>2 DEF Publish
<1>4. \/ e \in journal.spent /\ UNCHANGED <<balance, journal>>
      \/ balance > 0 /\ balance' = balance - 1
           /\ journal' = [journal EXCEPT !.spent = @ \union {e}]
  BY <1>2 DEF Publish
<1>5. DataOK'
  <2>1. requests' = requests /\ made' = made /\ enforced' = enforced
    BY DEF Publish
  <2>2. events' \in [Events -> EventRow]
    BY <1>3, Now DEF Store, EventRow, Status
  <2>3. /\ balance' \in Int
        /\ journal' \in [spent : SUBSET Events, refunded : SUBSET Events,
                        bought : SUBSET Requests, granted : BOOLEAN, extra : Int]
    BY <1>4 DEF IInv, TypeOK
  <2> QED
    BY <2>1, <2>2, <2>3 DEF DataOK, IInv, TypeOK
<1>6. Rows'
  <2>1. events[e].roster = events'[e].roster /\ events[e].early = events'[e].early
        /\ events'[e].status = "published" /\ \A d \in Events \ {e} : events'[d] = events[d]
    BY <1>3, Now DEF Store, EventRow
  <2>2. e \notin journal.refunded /\ (~made => e \notin Dates)
    BY <1>1, Now DEF Rows
  <2>3. journal \in [spent : SUBSET Events, refunded : SUBSET Events,
                  bought : SUBSET Requests, granted : BOOLEAN, extra : Int]
        /\ balance \in Int /\ Dates \subseteq Events
    BY EventsAreNumbers DEF IInv, TypeOK
  <2>4. made' = made /\ requests' = requests
    BY DEF Publish
  <2> QED
    BY <1>4, <2>1, <2>2, <2>3, <2>4, Now DEF Rows
<1>7. ASSUME NEW v \in Workers \ {w}
      PROVE  Undisturbed(v)
  <2>1. ~Held(v, e) /\ BalanceLock \notin tx[v].own
    BY <1>1, <1>3, OneHolder DEF Held, FreeFor
  <2>2. \A d \in Events \ {e} : events'[d] = events[d]
    BY <1>3, Now DEF Store
  <2>3. events'[e].status # "none"
    BY <1>3, Now DEF Store, EventRow
  <2>4. journal.spent \subseteq journal'.spent /\ journal'.refunded = journal.refunded
    BY <1>4 DEF IInv, TypeOK
  <2> QED
    BY <2>1, <2>2, <2>3, <2>4 DEF Undisturbed
<1> QED
  BY <1>5, <1>6, <1>7, Ends DEF Publish

LEMMA EndBookingKeeps ==
  ASSUME IInv, NEW w \in Workers, EndBooking(w)
  PROVE  IInv'
<1>1. PICK e \in Events : tx[w].list = {e} /\ Held(w, e) /\ ~events[e].early
  BY Now DEF EndBooking, OnOneEvent
<1>2. First(tx[w].list) = e
  BY <1>1, EventsAreNumbers, FirstOfOne
<1> DEFINE R == (events[e].roster \ tx[w].who) \union (tx[w].who \ events[e].roster)
<1>3. events' = [events EXCEPT ![e] = [events[e] EXCEPT !.roster = R]]
  BY <1>2 DEF EndBooking, Store
<1>4. R \in SUBSET Users
  BY Now DEF EventRow, Transaction
<1> HIDE DEF R
<1>5. UNCHANGED <<requests, made, balance, journal, enforced>> /\ End(w)
  BY DEF EndBooking
<1>6. /\ \A d \in Events \ {e} : events'[d] = events[d]
      /\ events'[e].status = events[e].status /\ events'[e].early = events[e].early
  BY <1>3, Now DEF EventRow
<1>7. DataOK'
  BY <1>3, <1>4, <1>5, Now DEF IInv, TypeOK, DataOK, EventRow
<1>8. Rows'
  BY <1>1, <1>5, <1>6, Now, EventsAreNumbers DEF Rows, IInv, TypeOK
<1>9. ASSUME NEW v \in Workers \ {w}
      PROVE  Undisturbed(v)
  <2>1. ~Held(v, e)
    BY <1>1, OneHolder DEF Held
  <2> QED
    BY <1>5, <1>6, <2>1 DEF Undisturbed, IInv, TypeOK
<1> QED
  BY <1>5, <1>7, <1>8, <1>9, Ends

LEMMA TakeEventKeeps ==
  ASSUME IInv, NEW w \in Workers, TakeEvent(w)
  PROVE  IInv'
<1> DEFINE t == tx[w]
           e == First(t.todo)
           got == [t EXCEPT !.own = @ \union {EventLock(e)}, !.todo = @ \ {e}]
<1>1. /\ t \in Transaction /\ t.at = "event" /\ t.op \in {"cancel", "exclude"}
      /\ FreeFor(w, EventLock(e)) /\ UNCHANGED <<events, requests, made, balance, journal, enforced>>
  BY Now DEF TakeEvent, OnEvents
<1>2. e \in t.todo /\ e \in Events
  <2>1. t.todo \subseteq Nat /\ t.todo # {} /\ t.todo \subseteq Events
    BY <1>1, Now DEF OnEvents
  <2> QED
    BY <2>1, FirstIsLeast
<1>3. PICK n \in IF got.todo = {} THEN Locked(got) ELSE {got} : tx' = [tx EXCEPT ![w] = n]
  BY DEF TakeEvent, Go
<1>4. /\ \A d \in t.list : Held(w, d) \/ d \in t.todo
      /\ t.op = "cancel" =>
           /\ \A d \in t.done : Held(w, d)
           /\ \A d \in t.done \union t.list : events[d].status # "none"
           /\ t.refund = {}
  BY <1>1, Now DEF OnEvents, Refunds
<1> HIDE DEF e
<1>5. /\ got \in Transaction /\ got.own = t.own \union {EventLock(e)} /\ got.todo = t.todo \ {e}
      /\ got.list = t.list /\ got.done = t.done /\ got.refund = t.refund
      /\ got.op = t.op /\ got.at = "event" /\ got.who = t.who
  BY <1>1, <1>2 DEF Transaction, Locks
<1>6. \A d \in t.list : EventLock(d) \in got.own \/ d \in got.todo
  BY <1>4, <1>5 DEF Held
<1> HIDE DEF got
<1>7. ASSUME n \in Transaction, n.op = t.op, n.own = got.own, n.list \subseteq t.list,
             n.done = t.done, n.refund = t.refund,
             n.at = "event" => n.todo # {} /\ n.todo = got.todo,
             n.at # "event" => got.todo = {},
             n.at \in {"balance", "subs"} /\ n.op = "cancel" => n.list # {},
             n.at = "balance" /\ n.op = "cancel" => First(n.list) \in journal.spent
      PROVE  IInv'
  <2>1. tx'[w] = n
    BY <1>3, Now
  <2>2. OnEvents(w)'
    BY <1>1, <1>6, <1>7, <2>1 DEF OnEvents, Held
  <2>3. Refunds(w)'
    BY <1>1, <1>4, <1>5, <1>7, <2>1 DEF Refunds, Held
  <2>4. OnOneEvent(w)' /\ Planned(w)'
    BY <1>1, <1>7, <2>1 DEF OnOneEvent, Planned
  <2>5. \A l \in n.own : l \in tx[w].own \/ FreeFor(w, l)
    BY <1>1, <1>5, <1>7
  <2> QED
    BY <1>1, <1>3, <1>7, <2>2, <2>3, <2>4, <2>5, Moves DEF Shape
<1>8. CASE got.todo # {}
  BY <1>3, <1>5, <1>7, <1>8
<1>9. CASE got.todo = {} /\ t.op = "cancel"
  <2> DEFINE m == [got EXCEPT !.list = {d \in got.list : Cancellable(d)}]
  <2>1. /\ m \in Transaction /\ m.op = t.op /\ m.own = got.own /\ m.list \subseteq t.list
        /\ m.done = t.done /\ m.refund = t.refund
    BY <1>5 DEF Transaction
  <2>2. n \in Turns(m)
    BY <1>3, <1>5, <1>9 DEF Locked
  <2> HIDE DEF m
  <2>3. /\ n \in Transaction
        /\ n.op = m.op /\ n.own = m.own /\ n.list = m.list
        /\ n.refund = m.refund /\ n.done = m.done
        /\ \/ n.at = "commit" /\ m.list = {}
           \/ n.at = "balance" /\ m.list # {} /\ First(m.list) \in journal.spent
           \/ n.at = "subs" /\ m.list # {}
    BY <2>1, <2>2, TurnsKeep
  <2> QED
    BY <1>7, <1>9, <2>1, <2>3
<1>10. CASE got.todo = {} /\ t.op = "exclude"
  <2> DEFINE booked == {d \in got.list : got.who \subseteq events[d].roster}
             u == CHOOSE u \in got.who : TRUE
             subs == IF booked = {} THEN <<>> ELSE IF u \in Payers THEN <<u>> ELSE <<>>
  <2>1. n = [got EXCEPT !.at = "subs", !.list = booked, !.subs = subs]
    BY <1>3, <1>5, <1>10 DEF Locked
  <2>2. booked \subseteq t.list
    BY <1>5
  <2>3. subs \in Seq(Users)
    <3> HIDE DEF u
    <3>1. u \in Payers => u \in Users
      BY PlayersAssumption
    <3> QED
      BY <3>1
  <2> HIDE DEF booked, subs
  <2>4. t.list \subseteq Events
    BY <1>1 DEF Transaction
  <2> QED
    BY <1>5, <1>7, <1>10, <2>1, <2>2, <2>3, <2>4 DEF Transaction
<1> QED
  BY <1>1, <1>8, <1>9, <1>10

LEMMA TakeBalanceKeeps ==
  ASSUME IInv, NEW w \in Workers, TakeBalance(w)
  PROVE  IInv'
<1> DEFINE t == tx[w]
           e == First(t.list)
           got == [t EXCEPT !.own = @ \union {BalanceLock},
                            !.refund = IF Refundable(t, e) THEN @ \union {e} ELSE @]
<1>1. /\ t \in Transaction /\ t.op = "cancel" /\ t.at = "balance" /\ FreeFor(w, BalanceLock)
      /\ UNCHANGED <<events, requests, made, balance, journal, enforced>>
  BY Now DEF TakeBalance
<1>2. t.list # {} /\ e \in journal.spent
  BY <1>1, Now DEF Refunds
<1>3. e \in t.list /\ e \in Events
  BY <1>2, Now, FirstIsLeast
<1>4. PICK n \in Restoring(got, e) : tx' = [tx EXCEPT ![w] = n]
  BY DEF TakeBalance, Go
<1>5. Refundable(t, e) => e \notin journal.refunded /\ events[e].roster = {}
  BY <1>3, Now DEF Refundable, Rows
<1>6. /\ \A d \in t.list \union t.done : Held(w, d) /\ events[d].status # "none"
      /\ \A d \in t.refund : /\ Held(w, d) /\ d \in journal.spent /\ d \notin journal.refunded
                             /\ events[d].roster = {} /\ d \in t.done
  BY <1>1, Now DEF OnEvents, Refunds
<1> HIDE DEF e
<1>7. /\ got \in Transaction /\ got.own = t.own \union {BalanceLock}
      /\ got.list = t.list /\ got.done = t.done /\ got.op = "cancel"
      /\ got.refund = IF Refundable(t, e) THEN t.refund \union {e} ELSE t.refund
  BY <1>1, <1>3 DEF Transaction, Locks
<1> HIDE DEF got
<1>8. /\ n \in Transaction
      /\ n.op = "cancel" /\ n.own = got.own /\ n.list = t.list
      /\ n.refund = got.refund /\ n.done = t.done /\ n.at = "subs"
  BY <1>3, <1>4, <1>7, RestoringKeeps
<1>9. tx'[w] = n
  BY <1>4, Now
<1>10. OnEvents(w)' /\ OnOneEvent(w)' /\ Planned(w)'
  BY <1>6, <1>7, <1>8, <1>9 DEF OnEvents, OnOneEvent, Planned, Held
<1>11. Refunds(w)'
  <2>1. e = First(n.list)
    BY <1>8 DEF e
  <2> QED
    BY <1>1, <1>2, <1>3, <1>5, <1>6, <1>7, <1>8, <1>9, <2>1 DEF Refunds, Held
<1>12. \A l \in n.own : l \in tx[w].own \/ FreeFor(w, l)
  BY <1>1, <1>7, <1>8
<1> QED
  BY <1>1, <1>4, <1>8, <1>10, <1>11, <1>12, Moves DEF Shape

LEMMA TakeSubscriptionKeeps ==
  ASSUME IInv, NEW w \in Workers, TakeSubscription(w)
  PROVE  IInv'
<1> DEFINE t == tx[w]
           l == SubscriptionLock(Head(t.subs))
           n == [t EXCEPT !.own = @ \union {l}, !.subs = Tail(@)]
<1>1. /\ t \in Transaction /\ t.at = "subs" /\ t.subs # <<>> /\ FreeFor(w, l)
      /\ UNCHANGED <<events, requests, made, balance, journal, enforced>>
  BY Now DEF TakeSubscription
<1>2. t.subs \in Seq(Users)
  BY <1>1 DEF Transaction
<1>3. Head(t.subs) \in Users /\ Tail(t.subs) \in Seq(Users)
  BY <1>1, <1>2
<1>4. tx' = [tx EXCEPT ![w] = n]
  BY DEF TakeSubscription, Go
<1>5. l \in Locks
  BY <1>3 DEF Locks, Subscriptions
<1> HIDE DEF l
<1>6. /\ n \in Transaction /\ n.own = t.own \union {l} /\ n.op = t.op /\ n.at = t.at
      /\ n.list = t.list /\ n.done = t.done /\ n.refund = t.refund /\ n.spend = t.spend
      /\ n.todo = t.todo
  BY <1>1, <1>3, <1>5 DEF Transaction
<1> HIDE DEF n
<1>7. tx'[w] = n
  BY <1>4, Now
<1>8. OnOneEvent(w)' /\ OnEvents(w)'
  BY <1>1, <1>6, <1>7, Now DEF OnOneEvent, OnEvents, Held
<1>9. Refunds(w)'
  <2>1. /\ tx'[w].op = tx[w].op /\ tx'[w].at = tx[w].at /\ tx'[w].list = tx[w].list
        /\ tx'[w].done = tx[w].done /\ tx'[w].refund = tx[w].refund
    BY <1>6, <1>7
  <2>2. \A e : Held(w, e) => Held(w, e)'
    BY <1>6, <1>7 DEF Held
  <2>3. Refunds(w) /\ events' = events /\ journal' = journal
    BY <1>1, Now
  <2> HIDE DEF t
  <2> QED
    BY <2>1, <2>2, <2>3 DEF Refunds
<1>10. Planned(w)'
  BY <1>1, <1>6, <1>7, Now DEF Planned
<1>11. \A k \in n.own : k \in tx[w].own \/ FreeFor(w, k)
  BY <1>1, <1>6
<1> QED
  BY <1>1, <1>4, <1>6, <1>8, <1>9, <1>10, <1>11, Moves DEF Shape

LEMMA NextEventKeeps ==
  ASSUME IInv, NEW w \in Workers, NextEvent(w)
  PROVE  IInv'
<1> DEFINE t == tx[w]
           e == First(t.list)
           m == [t EXCEPT !.done = @ \union {e}, !.list = @ \ {e}]
<1>1. /\ t \in Transaction /\ t.op = "cancel" /\ t.at = "subs"
      /\ UNCHANGED <<events, requests, made, balance, journal, enforced>>
  BY Now DEF NextEvent
<1>2. e \in t.list /\ e \in Events
  <2>1. t.list # {}
    BY <1>1, Now DEF Refunds
  <2> QED
    BY <2>1, Now, FirstIsLeast
<1>3. PICK n \in Turns(m) : tx' = [tx EXCEPT ![w] = n]
  BY DEF NextEvent, Go
<1>4. /\ \A d \in t.list \union t.done : Held(w, d) /\ events[d].status # "none"
      /\ \A d \in t.refund : /\ Held(w, d) /\ d \in journal.spent /\ d \notin journal.refunded
                             /\ events[d].roster = {} /\ d \in t.done \union {e}
  BY <1>1, Now DEF OnEvents, Refunds
<1> HIDE DEF e
<1>5. /\ m \in Transaction /\ m.own = t.own /\ m.op = "cancel" /\ m.refund = t.refund
      /\ m.done = t.done \union {e} /\ m.list = t.list \ {e}
  BY <1>1, <1>2 DEF Transaction
<1> HIDE DEF m
<1>6. /\ n \in Transaction
      /\ n.op = "cancel" /\ n.own = t.own /\ n.list = m.list
      /\ n.refund = t.refund /\ n.done = m.done
      /\ \/ n.at = "commit" /\ m.list = {}
         \/ n.at = "balance" /\ m.list # {} /\ First(m.list) \in journal.spent
         \/ n.at = "subs" /\ m.list # {}
  <2>1. /\ n \in Transaction /\ n.op = m.op /\ n.own = m.own /\ n.list = m.list
        /\ n.refund = m.refund /\ n.done = m.done
        /\ \/ n.at = "commit" /\ m.list = {}
           \/ n.at = "balance" /\ m.list # {} /\ First(m.list) \in journal.spent
           \/ n.at = "subs" /\ m.list # {}
    <3>1. m \in Transaction /\ n \in Turns(m)
      BY <1>3, <1>5
    <3> QED
      BY <3>1, TurnsKeep
  <2> QED
    BY <1>5, <2>1
<1>7. tx'[w] = n
  BY <1>3, Now
<1>8. OnEvents(w)' /\ OnOneEvent(w)' /\ Planned(w)'
  BY <1>4, <1>5, <1>6, <1>7 DEF OnEvents, OnOneEvent, Planned, Held
<1>9. Refunds(w)'
  <2>1. events' = events /\ journal' = journal /\ \A d : Held(w, d) => Held(w, d)'
    BY <1>1, <1>6, <1>7 DEF Held
  <2>2. tx'[w].list \union tx'[w].done = t.list \union t.done
    BY <1>2, <1>5, <1>6, <1>7
  <2>3. \A d \in tx'[w].list \union tx'[w].done : Held(w, d)' /\ events'[d].status # "none"
    BY <1>4, <2>1, <2>2
  <2>4. \A d \in tx'[w].refund : /\ Held(w, d)' /\ d \in journal'.spent /\ d \notin journal'.refunded
                                 /\ events'[d].roster = {} /\ d \in tx'[w].done
    BY <1>4, <1>5, <1>6, <1>7, <2>1
  <2>5. /\ tx'[w].at # "event"
        /\ tx'[w].at \in {"balance", "subs"} => tx'[w].list # {}
        /\ tx'[w].at = "balance" => First(tx'[w].list) \in journal'.spent
    BY <1>6, <1>7, <2>1
  <2> QED
    BY <2>3, <2>4, <2>5 DEF Refunds
<1>10. \A l \in n.own : l \in tx[w].own \/ FreeFor(w, l)
  BY <1>6
<1> QED
  BY <1>1, <1>3, <1>6, <1>8, <1>9, <1>10, Moves DEF Shape

LEMMA CommitCancelKeeps ==
  ASSUME IInv, NEW w \in Workers, CommitCancel(w)
  PROVE  IInv'
<1> DEFINE done == tx[w].done
           refund == tx[w].refund
<1>1. /\ done \subseteq Events
      /\ \A e \in done : Held(w, e) /\ events[e].status # "none"
      /\ refund \subseteq done /\ refund \subseteq journal.spent
      /\ refund \intersect journal.refunded = {}
  BY Now DEF CommitCancel, Refunds
<1>2. IsFiniteSet(refund) /\ Cardinality(refund) \in Nat
  BY <1>1, EventsCount
<1>3. /\ events' = [e \in Events |->
           IF e \in done THEN [events[e] EXCEPT !.status = "cancelled", !.roster = {}]
           ELSE events[e]]
      /\ balance' = balance + Cardinality(refund)
      /\ journal' = [journal EXCEPT !.refunded = @ \union refund]
      /\ End(w) /\ UNCHANGED <<requests, made, enforced>>
  BY DEF CommitCancel
<1> HIDE DEF done, refund
<1>4. /\ \A e \in done : /\ events'[e].status = "cancelled" /\ events'[e].roster = {}
      /\ \A e \in Events \ done : events'[e] = events[e]
      /\ \A e \in Events : events'[e].early = events[e].early
  BY <1>1, <1>3, Now DEF EventRow
<1>5. /\ journal \in [spent : SUBSET Events, refunded : SUBSET Events,
                   bought : SUBSET Requests, granted : BOOLEAN, extra : Int]
      /\ balance \in Int
  BY DEF IInv, TypeOK
<1>6. /\ journal'.spent = journal.spent /\ journal'.refunded = journal.refunded \union refund
      /\ journal'.bought = journal.bought
  BY <1>3, <1>5
<1>up. balance' \in Nat /\ balance <= balance'
  <2>1. balance \in Nat
    BY <1>5, Now DEF Rows
  <2>2. balance' = balance + Cardinality(refund) /\ Cardinality(refund) \in Nat
    BY <1>2, <1>3
  <2> QED
    BY <2>1, <2>2
<1>7. DataOK'
  <2>1. events' \in [Events -> EventRow]
    <3> DEFINE c(e) == [events[e] EXCEPT !.status = "cancelled", !.roster = {}]
    <3>1. \A e \in Events : events[e] \in EventRow /\ c(e) \in EventRow
      BY Now DEF EventRow, Status
    <3>2. events' = [e \in Events |-> IF e \in done THEN c(e) ELSE events[e]]
      BY <1>3
    <3> HIDE DEF c
    <3> QED
      BY <3>1, <3>2
  <2>2. balance' \in Int
    BY <1>up
  <2>3. journal' \in [spent : SUBSET Events, refunded : SUBSET Events,
                   bought : SUBSET Requests, granted : BOOLEAN, extra : Int]
    BY <1>1, <1>3, <1>5
  <2> QED
    BY <1>3, <2>1, <2>2, <2>3 DEF DataOK, IInv, TypeOK
<1>8. Rows'
  <2>1. balance' >= 0
    BY <1>up
  <2>2. journal'.refunded \subseteq journal'.spent
    BY <1>1, <1>6, Now DEF Rows
  <2>3. \A e \in journal'.spent : events'[e].status # "none"
    BY <1>4, <1>6, Now DEF Rows
  <2>4. \A e \in journal'.refunded : events'[e].status = "cancelled"
    <3>1. \A e \in refund : events'[e].status = "cancelled"
      BY <1>1, <1>4
    <3>2. journal.refunded \subseteq Events /\ \A e \in journal.refunded : events[e].status = "cancelled"
      BY <1>5, Now DEF Rows
    <3> QED
      BY <1>4, <1>6, <3>1, <3>2
  <2>5. \A e \in Events : events'[e].early => events'[e].roster = {}
    BY <1>4, Now DEF Rows
  <2>6. ~made => \A e \in Dates : events'[e].status = "none"
    BY <1>1, <1>4, Now, EventsAreNumbers DEF Rows
  <2> QED
    BY <1>3, <1>6, <2>1, <2>2, <2>3, <2>4, <2>5, <2>6, Now DEF Rows
<1>9. ASSUME NEW v \in Workers \ {w}
      PROVE  Undisturbed(v)
  <2>1. \A e \in done : ~Held(v, e)
    BY <1>1, OneHolder DEF Held
  <2> QED
    BY <1>1, <1>3, <1>4, <1>6, <1>up, <2>1 DEF Undisturbed
<1> QED
  BY <1>3, <1>7, <1>8, <1>9, Ends

LEMMA CommitExcludeKeeps ==
  ASSUME IInv, NEW w \in Workers, CommitExclude(w)
  PROVE  IInv'
<1> DEFINE list == tx[w].list
<1>1. list \subseteq Events /\ \A e \in list : Held(w, e)
  BY Now DEF CommitExclude, OnEvents
<1>2. /\ events' = [e \in Events |->
           IF e \in list THEN [events[e] EXCEPT !.roster = @ \ tx[w].who] ELSE events[e]]
      /\ End(w) /\ UNCHANGED <<requests, made, balance, journal, enforced>>
  BY DEF CommitExclude
<1> HIDE DEF list
<1>3. /\ events' \in [Events -> EventRow]
      /\ \A e \in Events \ list : events'[e] = events[e]
      /\ \A e \in Events : /\ events'[e].early = events[e].early
                           /\ events'[e].status = events[e].status
                           /\ events'[e].roster \subseteq events[e].roster
  BY <1>2, Now DEF EventRow
<1>4. DataOK'
  BY <1>2, <1>3 DEF DataOK, IInv, TypeOK
<1>5. Rows'
  BY <1>2, <1>3, Now, EventsAreNumbers DEF Rows, IInv, TypeOK
<1>6. ASSUME NEW v \in Workers \ {w}
      PROVE  Undisturbed(v)
  <2>1. \A e \in list : ~Held(v, e)
    BY <1>1, OneHolder DEF Held
  <2> QED
    BY <1>2, <1>3, <2>1 DEF Undisturbed, IInv, TypeOK
<1> QED
  BY <1>2, <1>4, <1>5, <1>6, Ends

LEMMA CreateSeriesKeeps ==
  ASSUME IInv, NEW w \in Workers, CreateSeries(w)
  PROVE  IInv'
<1> DEFINE spend == tx[w].spend
           list == tx[w].list
<1>1. /\ spend \subseteq list /\ list \subseteq Dates /\ ~made
      /\ BalanceLock \in tx[w].own /\ Cardinality(spend) <= balance
  BY Now DEF CreateSeries, Planned
<1>2. /\ made' = TRUE
      /\ events' = [e \in Events |->
           IF e \notin Dates THEN events[e]
           ELSE [events[e] EXCEPT !.status = IF e \in list THEN "published" ELSE "draft"]]
      /\ balance' = balance - Cardinality(spend)
      /\ journal' = [journal EXCEPT !.spent = @ \union spend]
      /\ End(w) /\ UNCHANGED <<requests, enforced>>
  BY DEF CreateSeries
<1>3. Cardinality(spend) \in Nat /\ spend \subseteq Events /\ Dates \subseteq Events
  BY <1>1, EventsCount, EventsAreNumbers
<1> HIDE DEF spend, list
<1>4. /\ \A e \in Events \ Dates : events'[e] = events[e]
      /\ \A e \in Dates : events'[e].status = IF e \in list THEN "published" ELSE "draft"
      /\ \A e \in Events : /\ events'[e].early = events[e].early
                           /\ events'[e].roster = events[e].roster
  BY <1>2, <1>3, Now DEF EventRow
<1>5. /\ journal \in [spent : SUBSET Events, refunded : SUBSET Events,
                   bought : SUBSET Requests, granted : BOOLEAN, extra : Int]
      /\ balance \in Int
  BY DEF IInv, TypeOK
<1>6. /\ journal'.spent = journal.spent \union spend /\ journal'.refunded = journal.refunded
      /\ journal'.bought = journal.bought
  BY <1>2, <1>5
<1>7. \A e \in Dates : events[e].status = "none"
  BY <1>1, Now DEF Rows
<1>8. DataOK'
  <2>1. events' \in [Events -> EventRow]
    BY <1>2, Now DEF EventRow, Status
  <2>2. balance' \in Int
    BY <1>2, <1>3, <1>5
  <2>3. journal' \in [spent : SUBSET Events, refunded : SUBSET Events,
                   bought : SUBSET Requests, granted : BOOLEAN, extra : Int]
    BY <1>2, <1>3, <1>5
  <2> QED
    BY <1>2, <2>1, <2>2, <2>3 DEF DataOK, IInv, TypeOK
<1>9. Rows'
  <2>1. balance' >= 0
    BY <1>1, <1>2, <1>3, <1>5
  <2>2. \A e \in journal'.spent : events'[e].status # "none"
    BY <1>1, <1>3, <1>4, <1>5, <1>6, Now DEF Rows
  <2>3. \A e \in journal'.refunded : events'[e].status = "cancelled"
    <3>1. \A e \in journal.refunded : e \in Events /\ e \notin Dates
      BY <1>5, <1>7, Now DEF Rows
    <3> QED
      BY <1>4, <1>6, <3>1, Now DEF Rows
  <2>4. \A e \in Events : events'[e].early => events'[e].roster = {}
    BY <1>4, Now DEF Rows
  <2>5. journal'.refunded \subseteq journal'.spent
    BY <1>6, Now DEF Rows
  <2> QED
    BY <1>2, <1>6, <2>1, <2>2, <2>3, <2>4, <2>5, Now DEF Rows
<1>10. ASSUME NEW v \in Workers \ {w}
       PROVE  Undisturbed(v)
  <2>1. BalanceLock \notin tx[v].own
    BY <1>1, OneHolder
  <2>2. \A e \in Events : /\ events[e].status = "draft" => events'[e].status = "draft"
                          /\ events[e].status # "none" => events'[e].status # "none"
    BY <1>4, <1>7
  <2> QED
    BY <1>4, <1>6, <2>1, <2>2 DEF Undisturbed
<1> QED
  BY <1>2, <1>8, <1>9, <1>10, Ends

LEMMA ReconcileKeeps ==
  ASSUME IInv, NEW w \in Workers, Reconcile(w)
  PROVE  IInv'
<1>1. /\ journal \in [spent : SUBSET Events, refunded : SUBSET Events,
                   bought : SUBSET Requests, granted : BOOLEAN, extra : Int]
      /\ balance \in Int /\ DemoQuota \in Nat
  BY LedgerAssumption DEF IInv, TypeOK
<1>2. /\ journal' = [journal EXCEPT !.granted = TRUE] /\ balance' = balance + DemoQuota
      /\ End(w) /\ UNCHANGED <<events, requests, made, enforced>>
  BY DEF Reconcile
<1>3. DataOK'
  <2>1. balance' \in Int
    BY <1>1, <1>2
  <2>2. journal' \in [spent : SUBSET Events, refunded : SUBSET Events,
                   bought : SUBSET Requests, granted : BOOLEAN, extra : Int]
    BY <1>1, <1>2
  <2> QED
    BY <1>2, <2>1, <2>2 DEF DataOK, IInv, TypeOK
<1>4. Rows'
  BY <1>1, <1>2, Now DEF Rows
<1>5. \A v \in Workers \ {w} : Undisturbed(v)
  BY <1>1, <1>2 DEF Undisturbed
<1> QED
  BY <1>2, <1>3, <1>4, <1>5, Ends

-----------------------------------------------------------------------------
(* The invariant.                                                          *)

LEMMA InvInit == Init => IInv
<1> SUFFICES ASSUME Init
             PROVE  IInv
  OBVIOUS
<1>1. DataOK
  <2>1. events \in [Events -> EventRow]
    <3>1. \A s \in {"none", "published"} :
            [status |-> s, early |-> FALSE, roster |-> {}] \in EventRow
      BY DEF EventRow, Status
    <3>2. {[status |-> s, early |-> FALSE, roster |-> {}] : s \in {"none", "published"}}
            \subseteq EventRow
      BY <3>1
    <3>3. events \in [Events -> {[status |-> s, early |-> FALSE, roster |-> {}] :
                                   s \in {"none", "published"}}]
      BY DEF Init
    <3> QED
      BY <3>2, <3>3
  <2>2. PICK g \in BOOLEAN :
          /\ journal = [spent |-> {}, refunded |-> {}, bought |-> {}, granted |-> g, extra |-> 0]
          /\ balance = IF g THEN DemoQuota ELSE 0
    BY DEF Init
  <2>3. /\ journal \in [spent : SUBSET Events, refunded : SUBSET Events,
                      bought : SUBSET Requests, granted : BOOLEAN, extra : Int]
        /\ balance \in Int
    BY <2>2, LedgerAssumption
  <2>4. /\ requests \in [Requests -> {"none", "pending", "approved", "rejected"}]
        /\ made \in BOOLEAN /\ enforced \in BOOLEAN
    BY LedgerAssumption DEF Init
  <2> QED
    BY <2>1, <2>3, <2>4 DEF DataOK
<1>2. Rows
  BY LedgerAssumption, EventsAreNumbers DEF Init, Rows
<1>3. TxOK
  BY IdleType DEF Init, TxOK
<1>4. \A w \in Workers : Shape(w)
  BY DEF Init, Idle, Shape, OnOneEvent, OnEvents, Refunds, Planned
<1> QED
  BY <1>1, <1>2, <1>3, <1>4, TypeIsBoth DEF IInv

LEMMA ProceedKeeps ==
  ASSUME IInv, NEW w \in Workers, Proceed(w)
  PROVE  IInv'
BY PublishKeeps, EndBookingKeeps, TakeEventKeeps, TakeBalanceKeeps, TakeSubscriptionKeeps,
   NextEventKeeps, CommitCancelKeeps, CommitExcludeKeeps, CreateSeriesKeeps, ReconcileKeeps
   DEF Proceed

LEMMA InvNext ==
  ASSUME IInv, [Next]_vars
  PROVE  IInv'
<1>1. ASSUME NEW e \in Events, EventStep(e)
      PROVE  IInv'
  BY <1>1, EventStepKeeps
<1>2. ASSUME NEW w \in Workers, Rollback(w)
      PROVE  IInv'
  BY <1>2, SameRows, Ends DEF Rollback
<1>3. ASSUME NEW b \in Enforcement, Restart(b)
      PROVE  IInv'
  <2>1. tx' = [v \in Workers |-> Idle] /\ b \in BOOLEAN
    BY <1>3, LedgerAssumption DEF Restart
  <2>2. TxOK' /\ \A v \in Workers : Shape(v)'
    BY <2>1, IdleType, IdleShape DEF TxOK
  <2>3. DataOK' /\ Rows'
    BY <1>3, <2>1 DEF Restart, DataOK, Rows, IInv, TypeOK
  <2> QED
    BY <2>2, <2>3 DEF IInv, TypeOK, TxOK, DataOK
<1>4. CASE UNCHANGED vars
  <2>1. DataOK' /\ Rows' /\ tx' = tx /\ \A v \in Workers : Undisturbed(v)
    BY <1>4, SameRows DEF vars
  <2> QED
    BY <2>1, AtOnce
<1> QED
  BY <1>1, <1>2, <1>3, <1>4, StartKeeps, ProceedKeeps, OperatorKeeps DEF Next

\* In every state all holds that a transaction has decided under its locks.
THEOREM Invariance == Spec => []IInv
BY InvInit, InvNext, PTL DEF Spec

-----------------------------------------------------------------------------
(* Nobody waits in a circle.                                               *)

\* A transaction that still locks events has none behind the next one it locks,
\* and does not hold the balance.
InOrder(w) ==
  tx[w].at = "event" =>
    /\ BalanceLock \notin tx[w].own
    /\ \A e \in Events : Held(w, e) => \A f \in tx[w].todo : e < f

LEMMA DifferentLocks ==
  /\ BalanceLock # SeriesLock
  /\ \A e : EventLock(e) # SeriesLock /\ EventLock(e) # BalanceLock
  /\ \A e, f : EventLock(e) = EventLock(f) => e = f
  /\ \A u, e : SubscriptionLock(u) # EventLock(e) /\ SubscriptionLock(u) # BalanceLock
BY DEF BalanceLock, SeriesLock, EventLock, SubscriptionLock

\* Turning to an event, a cancellation has its event locks.
LEMMA TurnsPast ==
  ASSUME NEW t \in Transaction, NEW n \in Turns(t)
  PROVE  n.at # "event"
BY DEF Turns, Restoring, Transaction

\* A transaction that is past its events, or over, is in order.
LEMMA PastEvents ==
  ASSUME IInv, NEW w \in Workers, NEW t, tx' = [tx EXCEPT ![w] = t], t.at # "event"
  PROVE  InOrder(w)'
BY DEF InOrder, IInv, TypeOK

LEMMA StartsInOrder ==
  ASSUME IInv, NEW w \in Workers, Start(w)
  PROVE  InOrder(w)'
<1>0. tx \in [Workers -> Transaction] /\ Idle \in Transaction /\ <<>> \in Seq(Users)
  BY IdleType DEF IInv, TypeOK
<1> USE DEF Begin
<1>1. ASSUME NEW e \in Events, StartPublish(w, e)
      PROVE  InOrder(w)'
  <2>1. tx'[w].at = "balance"
    BY <1>0, <1>1 DEF StartPublish, Idle
  <2> QED
    BY <2>1 DEF InOrder
<1>2. ASSUME NEW e \in Events, StartCancel(w, e)
      PROVE  InOrder(w)'
  <2> DEFINE t == [Idle EXCEPT !.op = "cancel", !.own = {EventLock(e)}, !.list = {e}]
  <2>1. t \in Transaction
    BY <1>0 DEF Idle, Transaction, Locks
  <2>2. PICK n \in Turns(t) : tx' = [tx EXCEPT ![w] = n]
    BY <1>2 DEF StartCancel
  <2> HIDE DEF t
  <2> QED
    BY <2>1, <2>2, TurnsPast, PastEvents
<1>3. ASSUME NEW e \in Events, NEW u \in Users, StartBooking(w, e, u)
      PROVE  InOrder(w)'
  <2>1. tx'[w].at = "subs"
    BY <1>0, <1>3 DEF StartBooking, Idle
  <2> QED
    BY <2>1 DEF InOrder
<1>4. ASSUME NEW from \in Dates, StartCancelSeries(w, from)
      PROVE  InOrder(w)'
  <2>1. tx'[w].own = {SeriesLock}
    BY <1>0, <1>4 DEF StartCancelSeries, Idle
  <2> QED
    BY <2>1, DifferentLocks DEF InOrder, Held
<1>5. ASSUME NEW u \in Users, StartExclude(w, u)
      PROVE  InOrder(w)'
  <2>1. tx'[w].own = {}
    BY <1>0, <1>5 DEF StartExclude, Idle
  <2> QED
    BY <2>1 DEF InOrder, Held
<1>6. CASE PlanSeries(w)
  <2>1. tx'[w].at = "commit"
    BY <1>0, <1>6 DEF PlanSeries, Idle
  <2> QED
    BY <2>1 DEF InOrder
<1>7. CASE StartReconcile(w)
  <2>1. tx'[w].at = "balance"
    BY <1>0, <1>7 DEF StartReconcile, Idle
  <2> QED
    BY <2>1 DEF InOrder
<1> QED
  BY <1>1, <1>2, <1>3, <1>4, <1>5, <1>6, <1>7 DEF Start

\* The next event is the first of those left: those behind it are taken.
LEMMA TakesEventInOrder ==
  ASSUME IInv, NEW w \in Workers, InOrder(w), TakeEvent(w)
  PROVE  InOrder(w)'
<1> DEFINE t == tx[w]
           e == First(t.todo)
           got == [t EXCEPT !.own = @ \union {EventLock(e)}, !.todo = @ \ {e}]
<1>1. t \in Transaction /\ t.at = "event"
  BY Now DEF TakeEvent
<1>2. e \in t.todo /\ e \in Events /\ \A f \in t.todo : f \in Nat /\ e <= f
  <2>1. t.todo \subseteq Nat /\ t.todo # {} /\ t.todo \subseteq Events
    BY <1>1, Now DEF OnEvents
  <2> QED
    BY <2>1, FirstIsLeast
<1>3. PICK n \in IF got.todo = {} THEN Locked(got) ELSE {got} : tx' = [tx EXCEPT ![w] = n]
  BY DEF TakeEvent, Go
<1> HIDE DEF e
<1>4. /\ got \in Transaction /\ got.own = t.own \union {EventLock(e)} /\ got.todo = t.todo \ {e}
      /\ got.list = t.list
  BY <1>1, <1>2 DEF Transaction, Locks
<1> HIDE DEF got
<1>5. CASE got.todo # {}
  <2>1. tx'[w] = got
    BY <1>3, <1>5, Now
  <2>2. BalanceLock \notin got.own
    BY <1>1, <1>4, DifferentLocks DEF InOrder
  <2>3. ASSUME NEW d \in Events, EventLock(d) \in got.own, NEW f \in got.todo
        PROVE  d < f
    <3>1. f \in t.todo /\ f # e
      BY <1>4
    <3>2. CASE EventLock(d) \in t.own
      BY <1>1, <3>1, <3>2 DEF InOrder, Held
    <3>3. CASE d = e
      <4>1. e <= f /\ f # e /\ e \in Nat /\ f \in Nat
        BY <1>2, <3>1
      <4> QED
        BY <4>1, <3>3
    <3> QED
      BY <1>4, <2>3, <3>2, <3>3, DifferentLocks
  <2> QED
    BY <2>1, <2>2, <2>3 DEF InOrder, Held
<1>6. CASE got.todo = {} /\ got.op = "cancel"
  <2> DEFINE m == [got EXCEPT !.list = {d \in got.list : Cancellable(d)}]
  <2>1. m \in Transaction
    BY <1>4 DEF Transaction
  <2>2. n \in Turns(m)
    BY <1>3, <1>6 DEF Locked
  <2> HIDE DEF m
  <2>3. n.at # "event"
    BY <2>1, <2>2, TurnsPast
  <2>4. tx'[w] = n
    BY <1>3, Now
  <2> QED
    BY <2>3, <2>4 DEF InOrder
<1>7. CASE got.todo = {} /\ got.op # "cancel"
  <2>1. n.at = "subs"
    BY <1>3, <1>4, <1>7 DEF Locked, Transaction
  <2>2. tx'[w] = n
    BY <1>3, Now
  <2> QED
    BY <2>1, <2>2 DEF InOrder
<1> QED
  BY <1>5, <1>6, <1>7

LEMMA ProceedsInOrder ==
  ASSUME IInv, NEW w \in Workers, InOrder(w), Proceed(w)
  PROVE  InOrder(w)'
<1>0. tx[w] \in Transaction
  BY Now
<1>1. CASE TakeEvent(w)
  BY <1>1, TakesEventInOrder
<1>2. CASE TakeBalance(w)
  <2> DEFINE e == First(tx[w].list)
             t == [tx[w] EXCEPT !.own = @ \union {BalanceLock},
                     !.refund = IF Refundable(tx[w], e) THEN @ \union {e} ELSE @]
  <2>1. PICK n \in Restoring(t, e) : tx' = [tx EXCEPT ![w] = n]
    BY <1>2 DEF TakeBalance, Go
  <2>2. n.at = "subs"
    <3>1. DOMAIN t = DOMAIN tx[w]
      BY <1>0
    <3> HIDE DEF t, e
    <3> QED
      BY <1>0, <2>1, <3>1 DEF Restoring, Transaction
  <2> QED
    BY <2>1, <2>2, PastEvents
<1>3. CASE TakeSubscription(w)
  <2> DEFINE n == [tx[w] EXCEPT !.own = @ \union {SubscriptionLock(Head(tx[w].subs))},
                                !.subs = Tail(@)]
  <2>1. tx' = [tx EXCEPT ![w] = n]
    BY <1>3 DEF TakeSubscription, Go
  <2>2. n.at = tx[w].at /\ tx[w].at = "subs"
    BY <1>0, <1>3 DEF TakeSubscription, Transaction
  <2>3. n.at # "event"
    BY <2>2
  <2> HIDE DEF n
  <2> QED
    BY <2>1, <2>3, PastEvents
<1>4. CASE NextEvent(w)
  <2> DEFINE t == [tx[w] EXCEPT !.done = @ \union {First(tx[w].list)},
                                !.list = @ \ {First(tx[w].list)}]
  <2>1. tx[w].list # {} /\ tx[w].list \subseteq Nat /\ tx[w].list \subseteq Events
    BY <1>4, Now DEF NextEvent, Refunds
  <2>2. First(tx[w].list) \in Events
    BY <2>1, FirstIsLeast
  <2>3. t \in Transaction
    BY <1>0, <2>2 DEF Transaction
  <2>4. PICK n \in Turns(t) : tx' = [tx EXCEPT ![w] = n]
    BY <1>4 DEF NextEvent, Go
  <2> HIDE DEF t
  <2> QED
    BY <2>3, <2>4, TurnsPast, PastEvents
<1>5. CASE Publish(w) \/ EndBooking(w) \/ CommitCancel(w) \/ CommitExclude(w)
             \/ CreateSeries(w) \/ Reconcile(w)
  <2>1. tx' = [tx EXCEPT ![w] = Idle] /\ Idle.at # "event"
    BY <1>5 DEF Publish, EndBooking, CommitCancel, CommitExclude, CreateSeries, Reconcile,
                End, Go, Idle
  <2> QED
    BY <2>1, PastEvents
<1> QED
  BY <1>1, <1>2, <1>3, <1>4, <1>5 DEF Proceed

LEMMA OrderNext ==
  ASSUME IInv, \A w \in Workers : InOrder(w), [Next]_vars
  PROVE  (\A w \in Workers : InOrder(w))'
<1>1. ASSUME NEW w \in Workers, Start(w) \/ Proceed(w) \/ Rollback(w)
      PROVE  \A v \in Workers : InOrder(v)'
  <2>1. PICK t : tx' = [tx EXCEPT ![w] = t]
    BY <1>1 DEF Start, StartPublish, StartCancel, StartBooking, StartCancelSeries, StartExclude,
         PlanSeries, StartReconcile, Proceed, Publish, EndBooking, TakeEvent, TakeBalance,
         TakeSubscription, NextEvent, CommitCancel, CommitExclude, CreateSeries, Reconcile,
         Rollback, Begin, End, Go
  <2>2. InOrder(w)'
    <3>1. CASE Rollback(w)
      <4>1. tx' = [tx EXCEPT ![w] = Idle] /\ Idle.at # "event"
        BY <3>1 DEF Rollback, End, Go, Idle
      <4> QED
        BY <4>1, PastEvents
    <3> QED
      BY <1>1, <3>1, StartsInOrder, ProceedsInOrder
  <2>3. \A v \in Workers \ {w} : tx'[v] = tx[v]
    BY <2>1 DEF IInv, TypeOK
  <2> QED
    BY <2>2, <2>3 DEF InOrder, Held
<1>2. ASSUME tx' = tx
      PROVE  \A v \in Workers : InOrder(v)'
  BY <1>2 DEF InOrder, Held
<1>3. ASSUME NEW e \in Events, EventStep(e)
      PROVE  tx' = tx
  BY <1>3 DEF EventStep, CreateUnpaid, CreatePublished, SetStatus, PutOffOpening, Opening
<1>4. Operator => tx' = tx
  BY DEF Operator, Ask, Approve, Reject, Adjust
<1>5. ASSUME NEW b \in Enforcement, Restart(b)
      PROVE  \A v \in Workers : InOrder(v)'
  <2>1. \A v \in Workers : tx'[v].at # "event"
    BY <1>5 DEF Restart, Idle
  <2> QED
    BY <2>1 DEF InOrder
<1> QED
  BY <1>1, <1>2, <1>3, <1>4, <1>5 DEF Next, vars

\* Of events there is a last one.
LEMMA LastEvent ==
  ASSUME NEW S \in SUBSET Events, S # {}
  PROVE  \E x \in S : \A y \in S : y <= x
<1> DEFINE after(x) == {y \in S : x < y}
           counts == {Cardinality(after(x)) : x \in S}
<1>1. /\ S \subseteq Nat
      /\ \A x \in S : IsFiniteSet(after(x)) /\ Cardinality(after(x)) \in Nat
  BY EventsAreNumbers, EventsCount
<1>2. counts \subseteq Nat /\ counts # {}
  BY <1>1
<1>3. First(counts) \in counts /\ \A n \in counts : First(counts) <= n
  <2> HIDE DEF counts
  <2> QED
    BY <1>2, FirstIsLeast
<1>4. PICK x \in S : First(counts) = Cardinality(after(x))
  BY <1>3
<1>5. ASSUME NEW y \in S, ~ (y <= x)
      PROVE  FALSE
  <2>1. x \in Nat /\ y \in Nat /\ x < y
    BY <1>1, <1>5
  <2>2. after(y) \subseteq after(x) /\ y \in after(x) /\ y \notin after(y)
    <3>1. \A z \in S : z \in Nat
      BY <1>1
    <3>2. \A z \in S : y < z => x < z
      BY <2>1, <3>1
    <3>3. ~ (y < y)
      BY <2>1
    <3> QED
      BY <2>1, <3>2, <3>3
  <2>3. Cardinality(after(y)) < Cardinality(after(x))
    <3>1. IsFiniteSet(after(x)) /\ after(y) # after(x)
      BY <1>1, <2>2
    <3> HIDE DEF after
    <3> QED
      BY <2>2, <3>1, FS_Subset, FS_CardinalityType
  <2>4. Cardinality(after(x)) <= Cardinality(after(y))
    BY <1>3, <1>4
  <2> QED
    BY <1>1, <2>3, <2>4
<1> QED
  BY <1>5

-----------------------------------------------------------------------------
(* The theorems.                                                           *)

\* The rows and the transactions keep the shape the code gives them, and no
\* lock ever has two owners.
THEOREM TypeCorrect == Spec => []TypeOK
<1>1. IInv => TypeOK
  BY DEF IInv
<1> QED
  BY <1>1, Invariance, PTL

\* A refunded event is cancelled and stays so.
THEOREM RefundedStaysCancelled == Spec => []RefundedIsCancelled
<1>1. IInv => RefundedIsCancelled
  BY DEF IInv, Rows, RefundedIsCancelled
<1> QED
  BY <1>1, Invariance, PTL

\* A series that was planned is still paid for when its dates are inserted.
THEOREM PlanHolds == Spec => []SeriesPlanHolds
<1>1. IInv => SeriesPlanHolds
  BY DEF IInv, Shape, Planned, SeriesPlanHolds
<1> QED
  BY <1>1, Invariance, PTL

\* For the series, the events and the balance no transactions ever wait in a
\* circle, whatever runs beside each other: cancelling and excluding lock their
\* events in the order of the ids, and only then ask for the balance.
THEOREM NoCircle == Spec => []NoWaitCycle
<1>1. Init => \A w \in Workers : InOrder(w)
  BY DEF Init, Idle, InOrder
<1>2. IInv /\ (\A w \in Workers : InOrder(w)) /\ [Next]_vars => (\A w \in Workers : InOrder(w))'
  BY OrderNext
<1>3. ASSUME IInv, \A w \in Workers : InOrder(w)
      PROVE  NoWaitCycle
  <2> SUFFICES ASSUME NEW S \in SUBSET Workers, S # {},
                      \A w \in S : \E l \in Wants(w) \ Subscriptions :
                        \E v \in S \ {w} : l \in tx[v].own
               PROVE  FALSE
    BY DEF NoWaitCycle
  <2>1. ASSUME NEW w \in S
        PROVE  /\ tx[w].at = "event" \/ (tx[w].at = "balance" /\ Wants(w) = {BalanceLock})
               /\ tx[w].at = "event" => Wants(w) = {EventLock(First(tx[w].todo))}
    <3>1. Wants(w) \ Subscriptions # {}
      OBVIOUS
    <3>2. CASE tx[w].at \notin {"event", "balance"}
      <4>1. tx[w] \in Transaction
        BY <1>3, Now
      <4>2. tx[w].subs # <<>> => Head(tx[w].subs) \in Users
        BY <4>1 DEF Transaction
      <4>3. Wants(w) \subseteq Subscriptions
        BY <3>2, <4>2 DEF Wants, Subscriptions
      <4> QED
        BY <3>1, <4>3
    <3>3. CASE tx[w].at \in {"event", "balance"}
      BY <3>3 DEF Wants
    <3> QED
      BY <3>2, <3>3
  <2>2. ASSUME NEW w \in S, tx[w].at = "balance"
        PROVE  FALSE
    <3>1. PICK v \in S \ {w} : BalanceLock \in tx[v].own
      BY <2>1, <2>2
    <3>2. tx[v].at # "event"
      BY <1>3, <3>1 DEF InOrder
    <3>3. PICK u \in S \ {v} : BalanceLock \in tx[u].own
      BY <2>1, <3>2
    <3> QED
      BY <1>3, <3>1, <3>3, OneHolder
  <2> DEFINE next == {First(tx[w].todo) : w \in S}
  <2>3. ASSUME NEW w \in S
        PROVE  tx[w].at = "event" /\ First(tx[w].todo) \in tx[w].todo /\ tx[w].todo \subseteq Events
    <3>1. tx[w].at = "event"
      BY <2>1, <2>2
    <3>2. tx[w].todo \subseteq Nat /\ tx[w].todo # {} /\ tx[w].todo \subseteq Events
      BY <1>3, <3>1, Now DEF OnEvents
    <3> QED
      BY <3>1, <3>2, FirstIsLeast
  <2>4. next \subseteq Events /\ next # {}
    BY <2>3
  <2>5. PICK x \in next : \A y \in next : y <= x
    <3> HIDE DEF next
    <3> QED
      BY <2>4, LastEvent
  <2>6. PICK w \in S : x = First(tx[w].todo)
    OBVIOUS
  <2>7. PICK v \in S : EventLock(x) \in tx[v].own
    BY <2>1, <2>3, <2>6
  <2>8. x < First(tx[v].todo)
    BY <1>3, <2>3, <2>4, <2>7 DEF InOrder, Held
  <2>9. First(tx[v].todo) <= x
    BY <2>5
  <2>10. x \in Nat /\ First(tx[v].todo) \in Nat
    BY <2>3, <2>4, EventsAreNumbers
  <2> QED
    BY <2>8, <2>9, <2>10
<1> QED
  BY <1>1, <1>2, <1>3, Invariance, PTL DEF Spec

\* A refund is decided and written while nobody is booked on the event.
THEOREM NoRefundWhileBooked == Spec => RefundOnlyIfEmpty
<1> DEFINE Quiet == \A e \in Events : e \in journal'.refunded \ journal.refunded => events[e].roster = {}
<1>1. ASSUME IInv, [Next]_vars
      PROVE  [Quiet]_vars
  <2>1. journal \in [spent : SUBSET Events, refunded : SUBSET Events,
                     bought : SUBSET Requests, granted : BOOLEAN, extra : Int]
    BY <1>1 DEF IInv, TypeOK
  <2>2. ASSUME NEW w \in Workers, CommitCancel(w)
        PROVE  Quiet
    <3>1. \A e \in tx[w].refund : events[e].roster = {}
      BY <1>1, <2>2, Now DEF Refunds, CommitCancel
    <3>2. journal'.refunded = journal.refunded \union tx[w].refund
      BY <2>1, <2>2 DEF CommitCancel
    <3> QED
      BY <3>1, <3>2
  <2>3. ASSUME journal'.refunded = journal.refunded
        PROVE  Quiet
    BY <2>3
  <2>4. ASSUME NEW e \in Events, EventStep(e)
        PROVE  journal'.refunded = journal.refunded
    BY <2>1, <2>4 DEF EventStep, CreateUnpaid, CreatePublished, SetStatus, PutOffOpening, Opening
  <2>5. ASSUME NEW w \in Workers, Start(w)
        PROVE  journal'.refunded = journal.refunded
    BY <2>5 DEF Start, StartPublish, StartCancel, StartBooking, StartCancelSeries, StartExclude,
                PlanSeries, StartReconcile
  <2>6. ASSUME NEW w \in Workers, Proceed(w), ~CommitCancel(w)
        PROVE  journal'.refunded = journal.refunded
    BY <2>1, <2>6 DEF Proceed, Publish, EndBooking, TakeEvent, TakeBalance, TakeSubscription,
                NextEvent, CommitExclude, CreateSeries, Reconcile
  <2>7. CASE Operator
    BY <2>1, <2>7 DEF Operator, Ask, Approve, Reject, Adjust
  <2>8. ASSUME NEW w \in Workers, Rollback(w)
        PROVE  journal'.refunded = journal.refunded
    BY <2>8 DEF Rollback
  <2>9. ASSUME NEW b \in Enforcement, Restart(b)
        PROVE  journal'.refunded = journal.refunded
    BY <2>9 DEF Restart
  <2>10. CASE UNCHANGED vars
    BY <2>10 DEF vars
  <2> HIDE DEF Quiet
  <2> QED
    BY <1>1, <2>2, <2>3, <2>4, <2>5, <2>6, <2>7, <2>8, <2>9, <2>10 DEF Next
<1>2. [][Quiet]_vars => RefundOnlyIfEmpty
  BY PTL DEF RefundOnlyIfEmpty
<1> QED
  BY <1>1, <1>2, Invariance, PTL DEF Spec

\* Two facts every step below needs.
LEMMA JournalNow ==
  ASSUME IInv
  PROVE  /\ journal \in [spent : SUBSET Events, refunded : SUBSET Events,
                         bought : SUBSET Requests, granted : BOOLEAN, extra : Int]
         /\ balance \in Nat
BY DEF IInv, TypeOK, Rows

\* A step that leaves balance and journal alone.
LEMMA LedgerStutters ==
  ASSUME UNCHANGED <<balance, journal>>
  PROVE  UNCHANGED Ledger!ledger
BY DEF Ledger!ledger

\* The instance has a copy of Cardinality of its own.
LEMMA SameCardinality ==
  ASSUME NEW S
  PROVE  Ledger!Cardinality(S) = Cardinality(S)
BY DEF Ledger!Cardinality, Cardinality

\* Events that spend their units together.
LEMMA SpendsTogether ==
  ASSUME IInv, NEW S, S \subseteq Events \ journal.spent, Cardinality(S) <= balance,
         balance' = balance - Cardinality(S),
         journal' = [journal EXCEPT !.spent = @ \union S]
  PROVE  Ledger!Next
<1>1. S \in SUBSET Events
  OBVIOUS
<1>2. /\ journal'.spent = journal.spent \union S /\ journal'.refunded = journal.refunded
      /\ journal'.bought = journal.bought /\ journal'.granted = journal.granted
      /\ journal'.extra = journal.extra
  BY JournalNow
<1>3. Ledger!Publish(S)
  BY <1>2, SameCardinality DEF Ledger!Publish
<1> QED
  BY <1>1, <1>3 DEF Ledger!Next

LEMMA ProceedImplements ==
  ASSUME IInv, NEW w \in Workers, Proceed(w)
  PROVE  Ledger!Next \/ UNCHANGED Ledger!ledger
<1>1. CASE Publish(w)
  <2>1. PICK e \in Events : tx[w].list = {e} /\ events[e].status = "draft"
    BY <1>1, Now DEF Publish, OnOneEvent
  <2>2. First(tx[w].list) = e
    BY <2>1, EventsAreNumbers, FirstOfOne
  <2>3. CASE e \in journal.spent
    BY <1>1, <2>2, <2>3, LedgerStutters DEF Publish
  <2>4. CASE e \notin journal.spent
    <3>1. /\ balance > 0 /\ balance' = balance - 1
          /\ journal' = [journal EXCEPT !.spent = @ \union {e}]
      BY <1>1, <2>2, <2>4 DEF Publish
    <3>2. Cardinality({e}) = 1 /\ balance \in Nat
      BY FS_Singleton, JournalNow
    <3>3. {e} \subseteq Events \ journal.spent
      BY <2>4
    <3>4. Cardinality({e}) <= balance /\ balance' = balance - Cardinality({e})
      BY <3>1, <3>2
    <3> QED
      BY <3>1, <3>3, <3>4, SpendsTogether
  <2> QED
    BY <2>3, <2>4
<1>2. CASE CommitCancel(w)
  <2> DEFINE S == tx[w].refund
  <2>1. S \subseteq Events /\ S \subseteq journal.spent \ journal.refunded
    BY <1>2, Now DEF CommitCancel, Refunds
  <2>2. balance' = balance + Cardinality(S) /\ journal' = [journal EXCEPT !.refunded = @ \union S]
    BY <1>2 DEF CommitCancel
  <2> HIDE DEF S
  <2>3. /\ journal'.refunded = journal.refunded \union S /\ journal'.spent = journal.spent
        /\ journal'.bought = journal.bought /\ journal'.granted = journal.granted
        /\ journal'.extra = journal.extra
    BY <2>2, JournalNow
  <2>4. Ledger!Refund(S)
    BY <2>1, <2>2, <2>3, SameCardinality DEF Ledger!Refund
  <2> QED
    BY <2>1, <2>4 DEF Ledger!Next
<1>3. CASE CreateSeries(w)
  <2> DEFINE S == tx[w].spend
  <2>1. /\ S \subseteq Dates /\ ~made /\ Cardinality(S) <= balance
    BY <1>3, Now DEF CreateSeries, Planned
  <2>2. balance' = balance - Cardinality(S) /\ journal' = [journal EXCEPT !.spent = @ \union S]
    BY <1>3 DEF CreateSeries
  <2> HIDE DEF S
  <2>3. S \subseteq Events \ journal.spent
    BY <2>1, Now, EventsAreNumbers DEF Rows
  <2> QED
    BY <2>1, <2>2, <2>3, SpendsTogether
<1>4. CASE Reconcile(w)
  <2>1. /\ ~journal.granted /\ balance' = balance + DemoQuota
        /\ journal' = [journal EXCEPT !.granted = TRUE]
    BY <1>4 DEF Reconcile
  <2>2. /\ journal'.granted = TRUE /\ journal'.spent = journal.spent
        /\ journal'.refunded = journal.refunded
        /\ journal'.bought = journal.bought /\ journal'.extra = journal.extra
    BY <2>1, JournalNow
  <2>3. Ledger!StartingGrant
    BY <2>1, <2>2 DEF Ledger!StartingGrant
  <2> QED
    BY <2>3 DEF Ledger!Next
<1>5. ASSUME ~Publish(w), ~CommitCancel(w), ~CreateSeries(w), ~Reconcile(w)
      PROVE  UNCHANGED <<balance, journal>>
  BY <1>5 DEF Proceed, EndBooking, TakeEvent, TakeBalance, TakeSubscription, NextEvent, CommitExclude
<1> QED
  BY <1>1, <1>2, <1>3, <1>4, <1>5, LedgerStutters

LEMMA StepImplements ==
  ASSUME IInv, [Next]_vars
  PROVE  [Ledger!Next]_(Ledger!ledger)
<1>1. ASSUME NEW e \in Events, EventStep(e)
      PROVE  Ledger!Next \/ UNCHANGED Ledger!ledger
  <2>1. CASE CreatePublished(e)
    <3>1. /\ balance > 0 /\ balance' = balance - 1
          /\ journal' = [journal EXCEPT !.spent = @ \union {e}]
          /\ events[e].status = "none"
      BY <2>1 DEF CreatePublished
    <3>2. Cardinality({e}) = 1 /\ balance \in Nat
      BY FS_Singleton, JournalNow
    <3>3. {e} \subseteq Events \ journal.spent
      BY <3>1 DEF IInv, Rows
    <3>4. Cardinality({e}) <= balance /\ balance' = balance - Cardinality({e})
      BY <3>1, <3>2
    <3> QED
      BY <3>1, <3>3, <3>4, SpendsTogether
  <2>2. CASE ~CreatePublished(e)
    <3>1. UNCHANGED <<balance, journal>>
      BY <1>1, <2>2 DEF EventStep, CreateUnpaid, SetStatus, PutOffOpening, Opening
    <3> QED
      BY <3>1, LedgerStutters
  <2> QED
    BY <2>1, <2>2
<1>2. ASSUME NEW w \in Workers, Start(w)
      PROVE  UNCHANGED Ledger!ledger
  <2>1. UNCHANGED <<balance, journal>>
    BY <1>2 DEF Start, StartPublish, StartCancel, StartBooking, StartCancelSeries, StartExclude,
                PlanSeries, StartReconcile
  <2> QED
    BY <2>1, LedgerStutters
<1>3. ASSUME NEW r \in Requests, Ask(r) \/ Reject(r)
      PROVE  UNCHANGED Ledger!ledger
  BY <1>3, LedgerStutters DEF Ask, Reject
<1>4. ASSUME NEW r \in Requests, Approve(r)
      PROVE  Ledger!Next
  <2>1. /\ r \notin journal.bought /\ balance' = balance + Units
        /\ journal' = [journal EXCEPT !.bought = @ \union {r}]
    BY <1>4 DEF Approve, IInv, Rows
  <2>2. /\ journal'.bought = journal.bought \union {r} /\ journal'.spent = journal.spent
        /\ journal'.refunded = journal.refunded
        /\ journal'.granted = journal.granted /\ journal'.extra = journal.extra
    BY <2>1, JournalNow
  <2>3. Ledger!Purchase(r)
    BY <2>1, <2>2 DEF Ledger!Purchase
  <2> QED
    BY <2>3 DEF Ledger!Next
<1>5. ASSUME NEW n \in Adjustments, Adjust(n)
      PROVE  Ledger!Next
  <2>1. /\ balance + n >= 0 /\ balance' = balance + n
        /\ journal' = [journal EXCEPT !.extra = @ + n]
    BY <1>5 DEF Adjust
  <2>2. /\ journal'.extra = journal.extra + n /\ journal'.spent = journal.spent
        /\ journal'.refunded = journal.refunded
        /\ journal'.bought = journal.bought /\ journal'.granted = journal.granted
    BY <2>1, JournalNow
  <2>3. Ledger!Adjust(n)
    BY <2>1, <2>2 DEF Ledger!Adjust
  <2> QED
    BY <2>3 DEF Ledger!Next
<1>6. ASSUME NEW w \in Workers, Rollback(w)
      PROVE  UNCHANGED Ledger!ledger
  BY <1>6, LedgerStutters DEF Rollback
<1>7. ASSUME NEW b \in Enforcement, Restart(b)
      PROVE  UNCHANGED Ledger!ledger
  BY <1>7, LedgerStutters DEF Restart
<1>8. CASE UNCHANGED vars
  BY <1>8, LedgerStutters DEF vars
<1> QED
  BY <1>1, <1>2, <1>3, <1>4, <1>5, <1>6, <1>7, <1>8, ProceedImplements DEF Next, Operator

\* The transactions and their locks carry out the abstract ledger: no unit is
\* spent twice, refunded twice or granted twice, and none below zero.
THEOREM Implements == Spec => LedgerSpec
<1>1. Init => Ledger!Init
  BY DEF Init, Ledger!Init, Ledger!Grant
<1> QED
  BY <1>1, StepImplements, Invariance, PTL DEF Spec, LedgerSpec, Ledger!Spec
=============================================================================
