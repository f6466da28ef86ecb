--------------------------- MODULE MembershipProofs ---------------------------
(***************************************************************************)
(* For any players, events, links and number of transactions under way:    *)
(* links keep to their limit, an invitation serves one player, a           *)
(* moderation changes nothing but the status it was decided on, and        *)
(* exclusion leaves no booking behind.                                     *)
(*                                                                         *)
(* As in EventBalanceProofs, Shape says what a transaction relies on until *)
(* it commits, and Undisturbed what its locks keep the others from.        *)
(***************************************************************************)
EXTENDS Membership, FiniteSetTheorems, WellFoundedInduction, TLAPS

-----------------------------------------------------------------------------
(* The inductive invariant.                                                *)

DataOK ==
  /\ member \in [Users -> Status] /\ excluded \subseteq Users
  /\ planned \subseteq Events
  /\ links \in [Links -> [uses : Nat, revoked : BOOLEAN]]
  /\ invites \in [Invites -> Invite]
  /\ request \in [Users -> SUBSET Events]
  /\ booking \in [Users -> [Events -> Booking]]

TxOK ==
  /\ tx \in [Workers -> Transaction]
  /\ \A v, w \in Workers : v # w => tx[v].own \intersect tx[w].own = {}

\* What is true of the rows between transactions.
Rows ==
  /\ Planned \subseteq planned
  /\ UsesWithinLimit /\ ExcludedHasNoBooking
  /\ \A u \in excluded : member[u] = "left"
  /\ \A u \in Users : \A e \in Events :
       /\ booking[u][e].invite \in Invites => invites[booking[u][e].invite].used
       /\ booking[u][e].byAdmin => ~booking[u][e].active /\ booking[u][e].invite \in Invites
  /\ InviteServesOne

Excluding(w) == tx[w].op \in {"lock", "read", "cancel"}

\* What a transaction relies on: a use left of the link whose row it holds, a
\* transition there is from the status it read, the player not excluded while it
\* books, every event there was when an exclusion began, and of those every
\* booking.
Shape(w) ==
  /\ tx[w].op # "idle" => tx[w].who \in Users
  /\ tx[w].op = "redeem" =>
       \E l \in Links : tx[w].found = {l} /\ LinkLock(l) \in tx[w].own /\ links[l].uses < MaxUses
  /\ tx[w].op = "moderate" =>
       \E m \in AllModeration : tx[w].saw \in m.from /\ tx[w].to = m.to
  /\ tx[w].op = "ask" => \E e \in Events : tx[w].found = {e}
  /\ tx[w].op = "book" =>
       \E e \in Events : /\ tx[w].found = {e} /\ EventLock(e) \in tx[w].own
                         /\ e \in Planned => tx[w].who \notin excluded
  /\ Excluding(w) =>
       \A e \in Planned :
         /\ EventLock(e) \in tx[w].own \/ (tx[w].op = "lock" /\ e \in tx[w].todo)
         /\ (tx[w].op = "cancel" /\ booking[tx[w].who][e].active) => e \in tx[w].found

IInv == TypeOK /\ Rows /\ \A w \in Workers : Shape(w)

\* What a step of others leaves to transaction v, because of the locks it holds.
Undisturbed(v) ==
  /\ \A l \in Links : LinkLock(l) \in tx[v].own => links'[l].uses = links[l].uses
  /\ \A e \in Planned : EventLock(e) \in tx[v].own =>
       /\ excluded' \subseteq excluded
       /\ \A u \in Users : booking'[u][e].active => booking[u][e].active

-----------------------------------------------------------------------------
(* What one step has to show.                                              *)

LEMMA FirstIsLeast ==
  ASSUME NEW S, S \subseteq Events, S # {}
  PROVE  First(S) \in S
<1> DEFINE R == {ss \in Nat \X Nat : ss[1] < ss[2]}
<1>0. S \subseteq Nat
  BY EventsAssumption
<1>1. IsWellFoundedOn(R, Nat)
  BY NatLessThanWellFounded DEF OpToRel
<1>2. \E x \in S : \A y \in S : ~ (<<y, x>> \in R)
  <2> HIDE DEF R
  <2> QED
    BY <1>0, <1>1, WFMin
<1>3. PICK x \in S : \A y \in S : ~ (<<y, x>> \in R)
  BY <1>2
<1>4. ASSUME NEW y \in S
      PROVE  x <= y
  <2>1. x \in Nat /\ y \in Nat /\ <<y, x>> \in Nat \X Nat
    BY <1>0
  <2>2. ~ (y < x)
    BY <1>3, <2>1
  <2> QED
    BY <2>1, <2>2
<1> QED
  BY <1>4 DEF First

LEMMA FirstOfOne ==
  ASSUME NEW e \in Events
  PROVE  First({e}) = e
BY FirstIsLeast

LEMMA TypeIsBoth ==
  TypeOK <=> DataOK /\ TxOK
BY DEF TypeOK, DataOK, TxOK

LEMMA Now ==
  ASSUME IInv
  PROVE  /\ DataOK /\ Rows
         /\ tx \in [Workers -> Transaction]
         /\ \A w \in Workers : tx[w] \in Transaction /\ Shape(w)
         /\ Planned \subseteq Events
BY EventsAssumption DEF IInv, TypeOK, DataOK

\* A transaction that nobody disturbs keeps its shape.
LEMMA Others ==
  ASSUME IInv, DataOK', NEW v \in Workers, tx'[v] = tx[v], Undisturbed(v)
  PROVE  Shape(v)'
<1>0. Shape(v) /\ tx[v] \in Transaction /\ Planned \subseteq Events
  BY Now
<1>1. tx'[v].op # "idle" => tx'[v].who \in Users
  BY <1>0 DEF Shape
<1>2. tx'[v].op = "redeem" =>
        \E l \in Links : tx'[v].found = {l} /\ LinkLock(l) \in tx'[v].own /\ links'[l].uses < MaxUses
  BY <1>0 DEF Shape, Undisturbed
<1>3. tx'[v].op = "book" =>
        \E e \in Events : /\ tx'[v].found = {e} /\ EventLock(e) \in tx'[v].own
                          /\ e \in Planned => tx'[v].who \notin excluded'
  BY <1>0 DEF Shape, Undisturbed
<1>4. Excluding(v)' =>
        \A e \in Planned :
          /\ EventLock(e) \in tx'[v].own \/ (tx'[v].op = "lock" /\ e \in tx'[v].todo)
          /\ (tx'[v].op = "cancel" /\ booking'[tx'[v].who][e].active) => e \in tx'[v].found
  BY <1>0 DEF Shape, Undisturbed, Excluding
<1> QED
  BY <1>0, <1>1, <1>2, <1>3, <1>4 DEF Shape

\* A step that no transaction is part of.
LEMMA ByNone ==
  ASSUME IInv, DataOK', Rows', tx' = tx, \A v \in Workers : Undisturbed(v)
  PROVE  IInv'
<1>1. TxOK'
  BY DEF IInv, TypeOK, TxOK
<1>2. \A v \in Workers : Shape(v)'
  BY Others
<1> QED
  BY <1>1, <1>2 DEF IInv, TypeOK, DataOK, TxOK

\* A step of transaction w.
LEMMA ByOne ==
  ASSUME IInv, NEW w \in Workers, NEW t, tx' = [tx EXCEPT ![w] = t],
         t \in Transaction, \A l \in t.own : l \in tx[w].own \/ FreeFor(w, l),
         DataOK', Rows', Shape(w)', \A v \in Workers \ {w} : Undisturbed(v)
  PROVE  IInv'
<1>1. /\ tx \in [Workers -> Transaction]
      /\ \A u, v \in Workers : u # v => tx[u].own \intersect tx[v].own = {}
  BY DEF IInv, TypeOK
<1>2. \A v \in Workers \ {w} : tx'[v] = tx[v]
  BY <1>1
<1>3. tx'[w] = t /\ tx' \in [Workers -> Transaction]
  BY <1>1
<1>4. ASSUME NEW u \in Workers, NEW v \in Workers, u # v
      PROVE  tx'[u].own \intersect tx'[v].own = {}
  <2>1. CASE u = w
    BY <1>1, <1>2, <1>3, <1>4, <2>1 DEF FreeFor
  <2>2. CASE v = w
    BY <1>1, <1>2, <1>3, <1>4, <2>2 DEF FreeFor
  <2>3. CASE u # w /\ v # w
    BY <1>1, <1>2, <1>4, <2>3
  <2> QED
    BY <2>1, <2>2, <2>3
<1>5. \A v \in Workers : Shape(v)'
  <2>1. ASSUME NEW v \in Workers, v # w
        PROVE  Shape(v)'
    BY <1>2, <2>1, Others
  <2> QED
    BY <2>1
<1> QED
  BY <1>3, <1>4, <1>5 DEF IInv, TypeOK, DataOK

LEMMA IdleType == Idle \in Transaction /\ Idle.own = {}
BY DEF Idle, Transaction, Status

LEMMA IdleShape ==
  ASSUME NEW w \in Workers, tx'[w] = Idle
  PROVE  Shape(w)'
BY DEF Shape, Excluding, Idle

\* A step that changes no row.
LEMMA SameRows ==
  ASSUME IInv, UNCHANGED <<member, excluded, planned, links, invites, request, booking>>
  PROVE  DataOK' /\ Rows' /\ \A v \in Workers : Undisturbed(v)
<1>1. DataOK'
  BY Now DEF DataOK
<1>2. Rows'
  BY Now DEF Rows, UsesWithinLimit, ExcludedHasNoBooking, InviteServesOne
<1> QED
  BY <1>1, <1>2 DEF Undisturbed

\* A step to t that changes no row.
LEMMA Moves ==
  ASSUME IInv, NEW w \in Workers, NEW t \in Transaction, tx' = [tx EXCEPT ![w] = t],
         UNCHANGED <<member, excluded, planned, links, invites, request, booking>>,
         \A l \in t.own : l \in tx[w].own \/ FreeFor(w, l), Shape(w)'
  PROVE  IInv'
BY SameRows, ByOne

\* A step that ends w.
LEMMA Ends ==
  ASSUME IInv, NEW w \in Workers, End(w), DataOK', Rows',
         \A v \in Workers \ {w} : Undisturbed(v)
  PROVE  IInv'
<1>1. tx' = [tx EXCEPT ![w] = Idle] /\ tx'[w] = Idle
  BY DEF End, Go, IInv, TypeOK
<1>2. Idle \in Transaction /\ Idle.own = {} /\ Shape(w)'
  BY <1>1, IdleType, IdleShape
<1> QED
  BY <1>1, <1>2, ByOne

LEMMA OneHolder ==
  ASSUME IInv, NEW v \in Workers, NEW w \in Workers, v # w, NEW l \in tx[w].own
  PROVE  l \notin tx[v].own
BY DEF IInv, TypeOK

\* Rows that only a part of them concerns.
LEMMA SameBookings ==
  ASSUME IInv, UNCHANGED <<planned, booking>>,
         excluded' \subseteq excluded, \A u \in excluded' : member'[u] = "left",
         UsesWithinLimit', invites' \in [Invites -> Invite],
         \A i \in Invites : invites[i].used => invites'[i].used
  PROVE  Rows'
BY Now DEF Rows, UsesWithinLimit, ExcludedHasNoBooking, InviteServesOne, DataOK, Booking

-----------------------------------------------------------------------------
(* Transactions that begin.                                                *)

LEMMA StartKeeps ==
  ASSUME IInv, NEW w \in Workers, NEW u \in Users, Start(w, u)
  PROVE  IInv'
<1>1. /\ tx \in [Workers -> Transaction] /\ member \in [Users -> Status] /\ Planned \subseteq Events
      /\ Rows /\ planned \subseteq Events
  BY Now DEF DataOK
<1>2. \A l : Untouched(l) => FreeFor(w, l)
  BY DEF Untouched, FreeFor
<1> USE DEF Begin
<1>3. ASSUME NEW l \in Links, StartRedeem(w, u, l)
      PROVE  IInv'
  <2> DEFINE t == [Idle EXCEPT !.op = "redeem", !.own = {LinkLock(l)}, !.who = u,
                               !.saw = member[u], !.found = {l}]
  <2>1. tx' = [tx EXCEPT ![w] = t] /\ FreeFor(w, LinkLock(l)) /\ links[l].uses < MaxUses
    BY <1>2, <1>3 DEF StartRedeem
  <2>2. /\ t \in Transaction /\ t.own = {LinkLock(l)} /\ t.op = "redeem" /\ t.who = u /\ t.found = {l}
    BY <1>1, IdleType DEF Idle, Transaction, Locks
  <2> HIDE DEF t
  <2>3. tx'[w] = t /\ links' = links
    BY <1>1, <1>3, <2>1 DEF StartRedeem
  <2>4. Shape(w)'
    BY <2>1, <2>2, <2>3 DEF Shape, Excluding
  <2>5. UNCHANGED <<member, excluded, planned, links, invites, request, booking>>
    BY <1>3 DEF StartRedeem
  <2>6. \A k \in t.own : k \in tx[w].own \/ FreeFor(w, k)
    BY <2>1, <2>2
  <2> QED
    BY <2>1, <2>2, <2>4, <2>5, <2>6, Moves
<1>4. CASE StartLeave(w, u)
  <2> DEFINE t == [Idle EXCEPT !.op = "leave", !.who = u]
  <2>1. tx' = [tx EXCEPT ![w] = t]
    BY <1>4 DEF StartLeave
  <2>2. t \in Transaction /\ t.own = {} /\ t.op = "leave" /\ t.who = u
    BY IdleType DEF Idle, Transaction
  <2> HIDE DEF t
  <2>3. tx'[w] = t
    BY <1>1, <2>1
  <2>4. Shape(w)'
    BY <2>2, <2>3 DEF Shape, Excluding
  <2> QED
    BY <1>4, <2>1, <2>2, <2>4, Moves DEF StartLeave
<1>5. CASE StartExclude(w, u)
  <2> DEFINE t == [Idle EXCEPT !.op = "lock", !.who = u, !.todo = planned]
  <2>1. tx' = [tx EXCEPT ![w] = t]
    BY <1>5 DEF StartExclude
  <2>2. t \in Transaction /\ t.own = {} /\ t.op = "lock" /\ t.who = u /\ t.todo = planned
    BY <1>1, IdleType DEF Idle, Transaction
  <2> HIDE DEF t
  <2>3. tx'[w] = t
    BY <1>1, <2>1
  <2>4. Shape(w)'
    BY <1>1, <2>2, <2>3 DEF Shape, Excluding, Rows
  <2> QED
    BY <1>5, <2>1, <2>2, <2>4, Moves DEF StartExclude
<1>6. ASSUME NEW m \in Moderation, StartModerate(w, u, m)
      PROVE  IInv'
  <2> DEFINE t == [Idle EXCEPT !.op = "moderate", !.who = u, !.saw = member[u], !.to = m.to]
  <2>1. tx' = [tx EXCEPT ![w] = t] /\ m \in AllModeration /\ member[u] \in m.from
    BY <1>6, ModerationAssumption DEF StartModerate
  <2>2. m.to \in Status
    BY ModerationAssumption DEF AllModeration, Status
  <2>3. /\ t \in Transaction /\ t.own = {} /\ t.op = "moderate" /\ t.who = u
        /\ t.saw = member[u] /\ t.to = m.to
    BY <1>1, <2>2, IdleType DEF Idle, Transaction
  <2> HIDE DEF t
  <2>4. tx'[w] = t
    BY <1>1, <2>1
  <2>5. Shape(w)'
    BY <2>1, <2>3, <2>4 DEF Shape, Excluding
  <2> QED
    BY <1>6, <2>1, <2>3, <2>5, Moves DEF StartModerate
<1>7. ASSUME NEW e \in Events, StartAsk(w, u, e)
      PROVE  IInv'
  <2> DEFINE t == [Idle EXCEPT !.op = "ask", !.who = u, !.found = {e}]
  <2>1. tx' = [tx EXCEPT ![w] = t]
    BY <1>7 DEF StartAsk
  <2>2. t \in Transaction /\ t.own = {} /\ t.op = "ask" /\ t.who = u /\ t.found = {e}
    BY IdleType DEF Idle, Transaction
  <2> HIDE DEF t
  <2>3. tx'[w] = t
    BY <1>1, <2>1
  <2>4. Shape(w)'
    BY <2>2, <2>3 DEF Shape, Excluding
  <2> QED
    BY <1>7, <2>1, <2>2, <2>4, Moves DEF StartAsk
<1>8. ASSUME NEW e \in Events, StartBook(w, u, e)
      PROVE  IInv'
  <2> DEFINE t == [Idle EXCEPT !.op = "book", !.own = {EventLock(e)}, !.who = u, !.found = {e}]
  <2>1. tx' = [tx EXCEPT ![w] = t] /\ FreeFor(w, EventLock(e)) /\ u \notin excluded
    BY <1>1, <1>2, <1>8 DEF StartBook, Rows
  <2>2. t \in Transaction /\ t.own = {EventLock(e)} /\ t.op = "book" /\ t.who = u /\ t.found = {e}
    BY IdleType DEF Idle, Transaction, Locks
  <2> HIDE DEF t
  <2>3. tx'[w] = t /\ excluded' = excluded
    BY <1>1, <1>8, <2>1 DEF StartBook
  <2>4. Shape(w)'
    BY <2>1, <2>2, <2>3 DEF Shape, Excluding
  <2>5. UNCHANGED <<member, excluded, planned, links, invites, request, booking>>
    BY <1>8 DEF StartBook
  <2>6. \A k \in t.own : k \in tx[w].own \/ FreeFor(w, k)
    BY <2>1, <2>2
  <2> QED
    BY <2>1, <2>2, <2>4, <2>5, <2>6, Moves
<1> QED
  BY <1>3, <1>4, <1>5, <1>6, <1>7, <1>8 DEF Start

-----------------------------------------------------------------------------
(* Transactions that go on.                                                *)

LEMMA RedeemKeeps ==
  ASSUME IInv, NEW w \in Workers, Redeem(w)
  PROVE  IInv'
<1> DEFINE u == tx[w].who
<1>1. PICK l \in Links : tx[w].found = {l} /\ LinkLock(l) \in tx[w].own /\ links[l].uses < MaxUses
  BY Now DEF Redeem, Shape
<1>2. u \in Users
  BY Now DEF Redeem, Shape
<1>3. /\ member' = [member EXCEPT ![u] = JoinsAs] /\ excluded' = excluded \ {u}
      /\ links' = [k \in Links |->
           IF k = l THEN [links[k] EXCEPT !.uses = @ + 1] ELSE links[k]]
      /\ End(w) /\ UNCHANGED <<planned, invites, request, booking>>
  BY <1>1 DEF Redeem
<1> HIDE DEF u
<1>4. links' \in [Links -> [uses : Nat, revoked : BOOLEAN]]
  BY <1>3, Now DEF DataOK
<1>5. DataOK'
  BY <1>2, <1>3, <1>4, LinksAssumption, Now DEF DataOK, Status
<1>6. UsesWithinLimit'
  <2>1. \A k \in Links : links[k].uses \in Nat /\ links[k].uses <= MaxUses
    BY Now DEF DataOK, Rows, UsesWithinLimit
  <2>2. links'[l].uses = links[l].uses + 1 /\ \A k \in Links \ {l} : links'[k] = links[k]
    BY <1>3, Now DEF DataOK
  <2> QED
    BY <1>1, <2>1, <2>2, LinksAssumption DEF UsesWithinLimit
<1>7. Rows'
  <2>1. \A v \in excluded' : member'[v] = "left"
    BY <1>2, <1>3, Now DEF DataOK, Rows
  <2> QED
    BY <1>3, <1>6, <2>1, SameBookings, Now DEF DataOK
<1>8. ASSUME NEW v \in Workers \ {w}
      PROVE  Undisturbed(v)
  <2>1. LinkLock(l) \notin tx[v].own
    BY <1>1, OneHolder
  <2> QED
    BY <1>3, <2>1 DEF Undisturbed
<1> QED
  BY <1>3, <1>5, <1>7, <1>8, Ends

LEMMA LeaveKeeps ==
  ASSUME IInv, NEW w \in Workers, Leave(w)
  PROVE  IInv'
<1> DEFINE u == tx[w].who
<1>1. u \in Users
  BY Now DEF Leave, Shape
<1>2. /\ member' = [member EXCEPT ![u] = "left"]
      /\ End(w) /\ UNCHANGED <<excluded, planned, links, invites, request, booking>>
  BY DEF Leave
<1> HIDE DEF u
<1>3. DataOK'
  BY <1>1, <1>2, Now DEF DataOK, Status
<1>4. Rows'
  <2>1. \A v \in excluded' : member'[v] = "left"
    BY <1>1, <1>2, Now DEF DataOK, Rows
  <2>2. UsesWithinLimit'
    BY <1>2, Now DEF Rows, UsesWithinLimit
  <2> QED
    BY <1>2, <2>1, <2>2, SameBookings, Now DEF DataOK
<1> QED
  BY <1>2, <1>3, <1>4, Ends DEF Undisturbed

LEMMA ModerateKeeps ==
  ASSUME IInv, NEW w \in Workers, Moderate(w)
  PROVE  IInv'
<1> DEFINE u == tx[w].who
<1>1. u \in Users /\ member[u] # "left" /\ tx[w].to \in Status
  BY Now DEF Moderate, Shape, AllModeration, Transaction
<1>2. /\ member' = [member EXCEPT ![u] = tx[w].to]
      /\ End(w) /\ UNCHANGED <<excluded, planned, links, invites, request, booking>>
  BY DEF Moderate
<1> HIDE DEF u
<1>3. DataOK'
  BY <1>1, <1>2, Now DEF DataOK
<1>4. Rows'
  <2>1. \A v \in excluded' : member'[v] = "left"
    BY <1>1, <1>2, Now DEF DataOK, Rows
  <2>2. UsesWithinLimit'
    BY <1>2, Now DEF Rows, UsesWithinLimit
  <2> QED
    BY <1>2, <2>1, <2>2, SameBookings, Now DEF DataOK
<1> QED
  BY <1>2, <1>3, <1>4, Ends DEF Undisturbed

LEMMA AskKeeps ==
  ASSUME IInv, NEW w \in Workers, Ask(w)
  PROVE  IInv'
<1>1. PICK e \in Events : tx[w].found = {e}
  BY Now DEF Ask, Shape
<1>2. First(tx[w].found) = e /\ tx[w].who \in Users
  BY <1>1, FirstOfOne, Now DEF Ask, Shape
<1>3. /\ request' = [request EXCEPT ![tx[w].who] = @ \union {e}]
      /\ End(w) /\ UNCHANGED <<member, excluded, planned, links, invites, booking>>
  BY <1>2 DEF Ask
<1>4. DataOK'
  BY <1>2, <1>3, Now DEF DataOK
<1>5. Rows'
  <2>1. UsesWithinLimit'
    BY <1>3, Now DEF Rows, UsesWithinLimit
  <2> QED
    BY <1>3, <2>1, SameBookings, Now DEF DataOK, Rows
<1> QED
  BY <1>3, <1>4, <1>5, Ends DEF Undisturbed

LEMMA LockEventKeeps ==
  ASSUME IInv, NEW w \in Workers, LockEvent(w)
  PROVE  IInv'
<1> DEFINE t == tx[w]
           e == First(t.todo)
           n == [t EXCEPT !.own = @ \union {EventLock(e)}, !.todo = @ \ {e}]
<1>1. /\ t \in Transaction /\ t.op \in {"lock", "cancel"} /\ FreeFor(w, EventLock(e))
      /\ tx' = [tx EXCEPT ![w] = n] /\ Shape(w)
      /\ UNCHANGED <<member, excluded, planned, links, invites, request, booking>>
  BY Now DEF LockEvent, Go
<1>2. e \in t.todo /\ e \in Events
  BY <1>1, FirstIsLeast DEF Transaction, LockEvent
<1> HIDE DEF e
<1>3. /\ n \in Transaction /\ n.own = t.own \union {EventLock(e)} /\ n.todo = t.todo \ {e}
      /\ n.op = t.op /\ n.who = t.who /\ n.found = t.found
  BY <1>1, <1>2 DEF Transaction, Locks
<1> HIDE DEF n
<1>4. tx'[w] = n
  BY <1>1, Now
<1>5. Shape(w)'
  BY <1>1, <1>3, <1>4 DEF Shape, Excluding
<1> QED
  BY <1>1, <1>3, <1>5, Moves

LEMMA LockMemberKeeps ==
  ASSUME IInv, NEW w \in Workers, LockMember(w)
  PROVE  IInv'
<1> DEFINE t == tx[w]
           n == [t EXCEPT !.op = "read", !.own = @ \union {MemberLock(t.who)}]
<1>1. /\ t \in Transaction /\ t.op = "lock" /\ t.todo = {} /\ FreeFor(w, MemberLock(t.who))
      /\ tx' = [tx EXCEPT ![w] = n] /\ Shape(w) /\ t.who \in Users
      /\ UNCHANGED <<member, excluded, planned, links, invites, request, booking>>
  BY Now DEF LockMember, Go, Shape
<1>2. /\ n \in Transaction /\ n.own = t.own \union {MemberLock(t.who)} /\ n.op = "read"
      /\ n.who = t.who
  BY <1>1 DEF Transaction, Locks
<1> HIDE DEF n
<1>3. tx'[w] = n
  BY <1>1, Now
<1>4. Shape(w)'
  BY <1>1, <1>2, <1>3 DEF Shape, Excluding
<1> QED
  BY <1>1, <1>2, <1>4, Moves

LEMMA ReadBookingsKeeps ==
  ASSUME IInv, NEW w \in Workers, ReadBookings(w)
  PROVE  IInv'
<1> DEFINE t == tx[w]
           booked == {e \in planned : booking[t.who][e].active}
           n == [t EXCEPT !.op = "cancel", !.found = booked,
                          !.todo = {e \in booked : EventLock(e) \notin t.own}]
<1>1. /\ t \in Transaction /\ t.op = "read" /\ tx' = [tx EXCEPT ![w] = n] /\ Shape(w)
      /\ UNCHANGED <<member, excluded, planned, links, invites, request, booking>>
  BY Now DEF ReadBookings, Go
<1>2. /\ n \in Transaction /\ n.own = t.own /\ n.op = "cancel" /\ n.who = t.who /\ n.found = booked
  <2>1. planned \subseteq Events
    BY Now DEF DataOK
  <2> QED
    BY <1>1, <2>1 DEF Transaction
<1>3. \A e \in Planned : booking[t.who][e].active => e \in booked
  BY Now DEF Rows
<1> HIDE DEF n, booked
<1>4. tx'[w] = n
  BY <1>1, Now
<1>5. Shape(w)'
  BY <1>1, <1>2, <1>3, <1>4 DEF Shape, Excluding
<1> QED
  BY <1>1, <1>2, <1>5, Moves

\* The invitation a booking takes is unused, or the one it had before.
LEMMA InvitationIsFree ==
  ASSUME IInv, NEW u \in Users, NEW e \in Events, NEW i \in Invitation(u, e)
  PROVE  /\ i \in Invites
         /\ ~invites[i].used \/ (i = booking[u][e].invite /\ ~booking[u][e].byAdmin)
BY DEF Invitation, ByToken, ByRequest, Previous, Usable

LEMMA BookKeeps ==
  ASSUME IInv, NEW w \in Workers, Book(w)
  PROVE  IInv'
<1> DEFINE u == tx[w].who
<1>1. PICK e \in Events : /\ tx[w].found = {e} /\ EventLock(e) \in tx[w].own
                          /\ e \in Planned => u \notin excluded
  BY Now DEF Book, Shape
<1>2. First(tx[w].found) = e /\ u \in Users
  BY <1>1, FirstOfOne, Now DEF Book, Shape
<1>3. PICK i \in IF e \in InviteOnly THEN Invitation(u, e) ELSE {NoInvite} :
        /\ booking' = [booking EXCEPT ![u][e] =
                         [active |-> TRUE, invite |-> i, byAdmin |-> FALSE]]
        /\ invites' = IF i = NoInvite THEN invites ELSE [invites EXCEPT ![i].used = TRUE]
  BY <1>2 DEF Book
<1>4. End(w) /\ UNCHANGED <<member, excluded, planned, links, request>>
  BY DEF Book
<1> HIDE DEF u
<1>5. /\ i \in Invites \union {NoInvite}
      /\ i \in Invites => ~invites[i].used \/ i = booking[u][e].invite
  <2>1. CASE e \in InviteOnly
    BY <1>2, <1>3, <2>1, InvitationIsFree
  <2>2. CASE e \notin InviteOnly
    BY <1>3, <2>2, LinksAssumption
  <2> QED
    BY <2>1, <2>2
<1> DEFINE b == [active |-> TRUE, invite |-> i, byAdmin |-> FALSE]
<1>6. b \in Booking /\ b.active /\ b.invite = i /\ ~b.byAdmin
  BY <1>5 DEF Booking
<1>7. booking' = [booking EXCEPT ![u][e] = b]
  BY <1>3
<1> HIDE DEF b
<1>8. /\ booking' \in [Users -> [Events -> Booking]]
      /\ booking'[u][e] = b
      /\ \A v \in Users : \A f \in Events :
           (v # u \/ f # e) => booking'[v][f] = booking[v][f]
  BY <1>1, <1>2, <1>6, <1>7, Now DEF DataOK
<1>9. /\ invites' \in [Invites -> Invite]
      /\ \A j \in Invites : invites[j].used => invites'[j].used
      /\ i \in Invites => invites'[i].used
  <2>1. invites \in [Invites -> Invite]
    BY Now DEF DataOK
  <2>2. CASE i = NoInvite
    BY <1>3, <2>1, <2>2, LinksAssumption
  <2>3. CASE i # NoInvite
    <3>1. i \in Invites /\ invites' = [invites EXCEPT ![i].used = TRUE]
      BY <1>3, <1>5, <2>3
    <3> QED
      BY <2>1, <3>1 DEF Invite
  <2> QED
    BY <2>2, <2>3
<1>10. DataOK'
  BY <1>4, <1>8, <1>9, Now DEF DataOK
<1>11. Rows'
  <2>1. UsesWithinLimit' /\ Planned \subseteq planned' /\ \A v \in excluded' : member'[v] = "left"
    BY <1>4, Now DEF Rows, UsesWithinLimit
  <2>2. ExcludedHasNoBooking'
    <3>1. \A v \in excluded : v \in Users
      BY Now DEF DataOK
    <3> QED
      BY <1>1, <1>4, <1>8, <3>1, Now DEF Rows, ExcludedHasNoBooking
  <2>3. \A v \in Users : \A f \in Events :
          /\ booking'[v][f].invite \in Invites => invites'[booking'[v][f].invite].used
          /\ booking'[v][f].byAdmin => ~booking'[v][f].active /\ booking'[v][f].invite \in Invites
    <3> SUFFICES ASSUME NEW v \in Users, NEW f \in Events
                 PROVE  /\ booking'[v][f].invite \in Invites => invites'[booking'[v][f].invite].used
                        /\ booking'[v][f].byAdmin =>
                             ~booking'[v][f].active /\ booking'[v][f].invite \in Invites
      OBVIOUS
    <3>1. CASE v = u /\ f = e
      BY <1>6, <1>8, <1>9, <3>1
    <3>2. CASE v # u \/ f # e
      BY <1>8, <1>9, <3>2, Now DEF Rows
    <3> QED
      BY <3>1, <3>2
  <2>4. InviteServesOne'
    <3> SUFFICES ASSUME NEW j \in Invites, NEW v \in Users, NEW x \in Users,
                        NEW f \in Events, NEW g \in Events,
                        booking'[v][f].invite = j, booking'[x][g].invite = j
                 PROVE  v = x /\ f = g
      BY DEF InviteServesOne
    <3>1. ASSUME NEW y \in Users, NEW h \in Events, i \in Invites, booking[y][h].invite = i
          PROVE  y = u /\ h = e
      <4>1. invites[i].used
        BY <3>1, Now DEF Rows
      <4>2. booking[u][e].invite = i
        BY <1>5, <3>1, <4>1
      <4> QED
        BY <1>2, <3>1, <4>2, Now DEF Rows, InviteServesOne
    <3>2. CASE j = i
      BY <1>8, <3>1, <3>2
    <3>3. CASE j # i
      <4>1. booking[v][f].invite = j /\ booking[x][g].invite = j
        BY <1>6, <1>8, <3>3
      <4> QED
        BY <4>1, Now DEF Rows, InviteServesOne
    <3> QED
      BY <3>2, <3>3
  <2> QED
    BY <2>1, <2>2, <2>3, <2>4 DEF Rows
<1>12. ASSUME NEW v \in Workers \ {w}
       PROVE  Undisturbed(v)
  <2>1. EventLock(e) \notin tx[v].own
    BY <1>1, OneHolder
  <2>2. Planned \subseteq Events
    BY Now
  <2> QED
    BY <1>4, <1>8, <2>1, <2>2 DEF Undisturbed
<1> QED
  BY <1>4, <1>10, <1>11, <1>12, Ends

\* A booking that is cancelled, or not touched.
LEMMA CancelledIs ==
  ASSUME NEW b \in Booking, NEW byAdmin \in BOOLEAN
  PROVE  /\ Cancelled(b, byAdmin) \in Booking
         /\ ~Cancelled(b, byAdmin).active /\ Cancelled(b, byAdmin).invite = b.invite
         /\ Cancelled(b, byAdmin).byAdmin => b.invite \in Invites
BY DEF Cancelled, Booking

\* Rows after some bookings were cancelled.
LEMMA FewerBookings ==
  ASSUME IInv,
         booking' \in [Users -> [Events -> Booking]],
         \A u \in Users : \A e \in Events :
           /\ booking'[u][e].active => booking[u][e].active
           /\ booking'[u][e].invite = booking[u][e].invite
           /\ booking'[u][e] = booking[u][e] \/
                (~booking'[u][e].active /\ (booking'[u][e].byAdmin => booking[u][e].invite \in Invites)),
         \A i \in Invites : invites[i].used => invites'[i].used
  PROVE  /\ \A u \in Users : \A e \in Events :
              /\ booking'[u][e].invite \in Invites => invites'[booking'[u][e].invite].used
              /\ booking'[u][e].byAdmin => ~booking'[u][e].active /\ booking'[u][e].invite \in Invites
         /\ InviteServesOne'
BY Now DEF Rows, InviteServesOne

LEMMA ExcludeKeeps ==
  ASSUME IInv, NEW w \in Workers, Exclude(w)
  PROVE  IInv'
<1> DEFINE u == tx[w].who
           found == tx[w].found
<1>1. /\ u \in Users /\ Planned \subseteq Events
      /\ \A e \in Planned : /\ EventLock(e) \in tx[w].own
                            /\ booking[u][e].active => e \in found
  BY Now DEF Exclude, Shape, Excluding
<1>2. /\ member' = [member EXCEPT ![u] = "left"]
      /\ excluded' = excluded \union {u}
      /\ booking' = [booking EXCEPT ![u] = [e \in Events |->
           IF e \in found /\ booking[u][e].active THEN Cancelled(booking[u][e], TRUE)
           ELSE booking[u][e]]]
      /\ request' = [request EXCEPT ![u] = {}]
      /\ invites' = [i \in Invites |->
           IF invites[i].for = u /\ ~invites[i].used THEN [invites[i] EXCEPT !.gone = TRUE]
           ELSE invites[i]]
      /\ End(w) /\ UNCHANGED <<planned, links>>
  BY DEF Exclude
<1> HIDE DEF u, found
<1>3. /\ \A v \in Users \ {u} : booking'[v] = booking[v]
      /\ \A e \in Events : booking'[u][e] =
           IF e \in found /\ booking[u][e].active THEN Cancelled(booking[u][e], TRUE)
           ELSE booking[u][e]
  BY <1>1, <1>2, Now DEF DataOK
<1>4. \A v \in Users : \A e \in Events :
        /\ booking[v][e] \in Booking /\ booking'[v][e] \in Booking
        /\ booking'[v][e].active => booking[v][e].active
        /\ booking'[v][e].invite = booking[v][e].invite
        /\ booking'[v][e] = booking[v][e] \/
             (~booking'[v][e].active /\ (booking'[v][e].byAdmin => booking[v][e].invite \in Invites))
  <2> SUFFICES ASSUME NEW v \in Users, NEW e \in Events
               PROVE  /\ booking[v][e] \in Booking /\ booking'[v][e] \in Booking
                      /\ booking'[v][e].active => booking[v][e].active
                      /\ booking'[v][e].invite = booking[v][e].invite
                      /\ booking'[v][e] = booking[v][e] \/
                           (/\ ~booking'[v][e].active
                            /\ booking'[v][e].byAdmin => booking[v][e].invite \in Invites)
    OBVIOUS
  <2>1. booking[v][e] \in Booking
    BY Now DEF DataOK
  <2>2. CASE booking'[v][e] = booking[v][e]
    BY <2>1, <2>2
  <2>3. CASE booking'[v][e] = Cancelled(booking[v][e], TRUE) /\ booking[v][e].active
    BY <2>1, <2>3, CancelledIs
  <2> QED
    BY <1>3, <2>2, <2>3
<1>5. booking' \in [Users -> [Events -> Booking]]
  <2>1. booking \in [Users -> [Events -> Booking]]
    BY Now DEF DataOK
  <2> DEFINE r == [e \in Events |->
           IF e \in found /\ booking[u][e].active THEN Cancelled(booking[u][e], TRUE)
           ELSE booking[u][e]]
  <2>2. booking'[u] = r /\ booking' = [booking EXCEPT ![u] = r]
    BY <1>1, <1>2, <2>1
  <2>3. r \in [Events -> Booking]
    BY <1>1, <1>4, <2>2
  <2> QED
    BY <2>1, <2>2, <2>3
<1>6. /\ invites' \in [Invites -> Invite]
      /\ \A i \in Invites : invites[i].used => invites'[i].used
  <2>1. invites \in [Invites -> Invite]
    BY Now DEF DataOK
  <2>2. invites' = [i \in Invites |->
           IF invites[i].for = u /\ ~invites[i].used THEN [invites[i] EXCEPT !.gone = TRUE]
           ELSE invites[i]]
    BY <1>2
  <2> QED
    BY <2>1, <2>2 DEF Invite
<1>7. DataOK'
  BY <1>1, <1>2, <1>5, <1>6, Now DEF DataOK, Status
<1>8. Rows'
  <2>1. UsesWithinLimit' /\ Planned \subseteq planned'
    BY <1>2, Now DEF Rows, UsesWithinLimit
  <2>2. \A v \in excluded' : member'[v] = "left"
    BY <1>1, <1>2, Now DEF Rows, DataOK
  <2>3. ExcludedHasNoBooking'
    <3>1. \A e \in Planned : ~booking'[u][e].active
      <4> SUFFICES ASSUME NEW e \in Planned
                   PROVE  ~booking'[u][e].active
        OBVIOUS
      <4>1. booking[u][e] \in Booking /\ e \in Events
        BY <1>1, <1>4
      <4>2. CASE booking[u][e].active
        BY <1>1, <1>3, <4>1, <4>2, CancelledIs
      <4> QED
        BY <1>1, <1>4, <4>1, <4>2
    <3>2. \A v \in excluded : v \in Users
      BY Now DEF DataOK
    <3> QED
      BY <1>1, <1>2, <1>4, <3>1, <3>2, Now DEF Rows, ExcludedHasNoBooking
  <2>4. /\ \A v \in Users : \A e \in Events :
             /\ booking'[v][e].invite \in Invites => invites'[booking'[v][e].invite].used
             /\ booking'[v][e].byAdmin =>
                  ~booking'[v][e].active /\ booking'[v][e].invite \in Invites
        /\ InviteServesOne'
    BY <1>4, <1>5, <1>6, FewerBookings
  <2> QED
    BY <2>1, <2>2, <2>3, <2>4 DEF Rows
<1>9. ASSUME NEW v \in Workers \ {w}
      PROVE  Undisturbed(v)
  <2>1. \A e \in Planned : EventLock(e) \notin tx[v].own
    BY <1>1, OneHolder
  <2> QED
    BY <1>2, <2>1 DEF Undisturbed
<1> QED
  BY <1>2, <1>7, <1>8, <1>9, Ends

LEMMA ProceedKeeps ==
  ASSUME IInv, NEW w \in Workers, Proceed(w)
  PROVE  IInv'
BY RedeemKeeps, LeaveKeeps, ModerateKeeps, AskKeeps, BookKeeps, LockEventKeeps, LockMemberKeeps,
   ReadBookingsKeeps, ExcludeKeeps DEF Proceed

-----------------------------------------------------------------------------
(* Steps that are one transaction each.                                    *)

LEMMA IssueKeeps ==
  ASSUME IInv, NEW i \in Invites, NEW e \in Events, NEW u \in Users \union {Nobody}, Issue(i, e, u)
  PROVE  /\ invites' \in [Invites -> Invite]
         /\ \A j \in Invites : invites[j].used => invites'[j].used
<1>1. invites \in [Invites -> Invite] /\ invites' = [invites EXCEPT ![i].on = e, ![i].for = u]
  BY Now DEF Issue, DataOK
<1> QED
  BY <1>1 DEF Invite

\* A step that concerns neither members nor bookings nor uses of links.
LEMMA OtherRows ==
  ASSUME IInv, UNCHANGED <<member, excluded, booking, tx>>, planned \subseteq planned',
         \A l \in Links : links'[l].uses = links[l].uses,
         \A i \in Invites : invites[i].used => invites'[i].used,
         DataOK'
  PROVE  IInv'
<1>1. Rows'
  BY Now DEF Rows, UsesWithinLimit, ExcludedHasNoBooking, InviteServesOne, DataOK
<1>2. \A v \in Workers : Undisturbed(v)
  BY DEF Undisturbed
<1> QED
  BY <1>1, <1>2, ByNone

LEMMA AtOnceKeeps ==
  ASSUME IInv, AtOnce
  PROVE  IInv'
<1>0. /\ links \in [Links -> [uses : Nat, revoked : BOOLEAN]]
      /\ invites \in [Invites -> Invite] /\ booking \in [Users -> [Events -> Booking]]
  BY Now DEF DataOK
<1>1. ASSUME NEW l \in Links, RevokeLink(l)
      PROVE  IInv'
  <2>1. /\ links' \in [Links -> [uses : Nat, revoked : BOOLEAN]]
        /\ \A k \in Links : links'[k].uses = links[k].uses
    BY <1>0, <1>1 DEF RevokeLink
  <2>2. UNCHANGED <<member, excluded, planned, invites, request, booking, tx>>
    BY <1>1 DEF RevokeLink
  <2>3. DataOK'
    BY <2>1, <2>2, Now DEF DataOK
  <2> QED
    BY <2>1, <2>2, <2>3, OtherRows
<1>2. ASSUME NEW i \in Invites, Expire(i)
      PROVE  IInv'
  <2>1. /\ invites' \in [Invites -> Invite]
        /\ \A j \in Invites : invites[j].used => invites'[j].used
    BY <1>0, <1>2 DEF Expire, Invite
  <2>2. UNCHANGED <<member, excluded, planned, links, request, booking, tx>>
    BY <1>2 DEF Expire
  <2>3. DataOK'
    BY <2>1, <2>2, Now DEF DataOK
  <2> QED
    BY <2>1, <2>2, <2>3, OtherRows
<1>3. ASSUME NEW e \in Events, CreateEvent(e)
      PROVE  IInv'
  <2>1. /\ planned' = planned \union {e}
        /\ UNCHANGED <<member, excluded, links, invites, request, booking, tx>>
    BY <1>3 DEF CreateEvent
  <2>2. DataOK'
    BY <2>1, Now DEF DataOK
  <2> QED
    BY <2>1, <2>2, OtherRows
<1>4. ASSUME NEW e \in Events, NEW i \in Invites, CreateInvite(i, e)
      PROVE  IInv'
  <2>1. /\ Issue(i, e, Nobody)
        /\ UNCHANGED <<member, excluded, planned, links, request, booking, tx>>
    BY <1>4 DEF CreateInvite
  <2>2. DataOK'
    BY <2>1, IssueKeeps, Now DEF DataOK
  <2> QED
    BY <2>1, <2>2, IssueKeeps, OtherRows
<1>5. ASSUME NEW e \in Events, NEW u \in Users, Withdraw(u, e)
      PROVE  IInv'
  <2>1. /\ request' = [request EXCEPT ![u] = @ \ {e}]
        /\ UNCHANGED <<member, excluded, planned, links, invites, booking, tx>>
    BY <1>5 DEF Withdraw
  <2>2. DataOK'
    BY <2>1, Now DEF DataOK
  <2> QED
    BY <2>1, <2>2, OtherRows
<1>6. ASSUME NEW e \in Events, NEW u \in Users, NEW i \in Invites, Approve(u, e, i)
      PROVE  IInv'
  <2>1. /\ Issue(i, e, u) /\ request' = [request EXCEPT ![u] = @ \ {e}]
        /\ UNCHANGED <<member, excluded, planned, links, booking, tx>>
    BY <1>6 DEF Approve
  <2>2. DataOK'
    BY <2>1, IssueKeeps, Now DEF DataOK
  <2> QED
    BY <2>1, <2>2, IssueKeeps, OtherRows
<1>7. ASSUME NEW e \in Events, NEW u \in Users, NEW byAdmin \in BOOLEAN, CancelBooking(u, e, byAdmin)
      PROVE  IInv'
  <2> DEFINE b == Cancelled(booking[u][e], byAdmin)
  <2>1. /\ booking' = [booking EXCEPT ![u][e] = b]
        /\ UNCHANGED <<member, excluded, planned, links, invites, request, tx>>
    BY <1>7 DEF CancelBooking
  <2>2. booking[u][e] \in Booking
    BY <1>0
  <2>3. /\ b \in Booking /\ ~b.active /\ b.invite = booking[u][e].invite
        /\ b.byAdmin => booking[u][e].invite \in Invites
    BY <2>2, CancelledIs
  <2> HIDE DEF b
  <2>4. /\ booking' \in [Users -> [Events -> Booking]]
        /\ booking'[u][e] = b
        /\ \A v \in Users : \A f \in Events : (v # u \/ f # e) => booking'[v][f] = booking[v][f]
    BY <1>0, <2>1, <2>3
  <2>5. \A v \in Users : \A f \in Events :
          /\ booking'[v][f].active => booking[v][f].active
          /\ booking'[v][f].invite = booking[v][f].invite
          /\ booking'[v][f] = booking[v][f] \/
               (~booking'[v][f].active /\ (booking'[v][f].byAdmin => booking[v][f].invite \in Invites))
    BY <2>3, <2>4
  <2>6. DataOK'
    BY <2>1, <2>4, Now DEF DataOK
  <2>7. /\ \A v \in Users : \A f \in Events :
             /\ booking'[v][f].invite \in Invites => invites'[booking'[v][f].invite].used
             /\ booking'[v][f].byAdmin =>
                  ~booking'[v][f].active /\ booking'[v][f].invite \in Invites
        /\ InviteServesOne'
    BY <2>1, <2>4, <2>5, FewerBookings
  <2>8. UsesWithinLimit' /\ ExcludedHasNoBooking' /\ Planned \subseteq planned'
        /\ \A v \in excluded' : member'[v] = "left"
    BY <2>1, <2>5, Now DEF DataOK, Rows, UsesWithinLimit, ExcludedHasNoBooking
  <2>9. Rows'
    BY <2>7, <2>8 DEF Rows
  <2>10. \A v \in Workers : Undisturbed(v)
    BY <2>1, <2>5, Now DEF Undisturbed
  <2> QED
    BY <2>1, <2>6, <2>9, <2>10, ByNone
<1> QED
  BY <1>1, <1>2, <1>3, <1>4, <1>5, <1>6, <1>7 DEF AtOnce

-----------------------------------------------------------------------------
(* The invariant.                                                          *)

LEMMA InvInit == Init => IInv
<1> SUFFICES ASSUME Init
             PROVE  IInv
  OBVIOUS
<1> DEFINE i0 == [on |-> 0, for |-> Nobody, used |-> FALSE, gone |-> FALSE]
           b0 == [active |-> FALSE, invite |-> NoInvite, byAdmin |-> FALSE]
<1>1. /\ i0 \in Invite /\ b0 \in Booking
      /\ ~b0.active /\ b0.invite = NoInvite /\ ~b0.byAdmin
  BY DEF Invite, Booking
<1>2. /\ invites = [i \in Invites |-> i0]
      /\ booking = [u \in Users |-> [e \in Events |-> b0]]
  BY DEF Init
<1> HIDE DEF i0, b0
<1>3. DataOK
  <2>1. \A l \in Links : links[l] \in [uses : Nat, revoked : BOOLEAN]
    BY DEF Init
  <2>2. /\ links \in [Links -> [uses : Nat, revoked : BOOLEAN]]
        /\ request \in [Users -> SUBSET Events]
        /\ member \in [Users -> Status] /\ excluded \subseteq Users
        /\ planned \subseteq Events
    BY <2>1, EventsAssumption, StandingsAssumption DEF Init
  <2>3. /\ invites \in [Invites -> Invite]
        /\ booking \in [Users -> [Events -> Booking]]
    BY <1>1, <1>2
  <2> QED
    BY <2>2, <2>3 DEF DataOK
<1>4. Rows
  <2>1. \A u \in Users : \A e \in Events : booking[u][e] = b0
    BY <1>2
  <2>2. UsesWithinLimit
    BY LinksAssumption DEF Init, UsesWithinLimit
  <2> QED
    BY <1>1, <2>1, <2>2, LinksAssumption DEF Init, Rows, ExcludedHasNoBooking, InviteServesOne
<1>5. TxOK
  BY IdleType DEF Init, TxOK
<1>6. \A w \in Workers : Shape(w)
  BY DEF Init, Idle, Shape, Excluding
<1> QED
  BY <1>3, <1>4, <1>5, <1>6, TypeIsBoth DEF IInv

LEMMA InvNext ==
  ASSUME IInv, [Next]_vars
  PROVE  IInv'
<1>1. ASSUME NEW w \in Workers, Rollback(w)
      PROVE  IInv'
  BY <1>1, SameRows, Ends DEF Rollback
<1>2. CASE UNCHANGED vars
  <2>1. DataOK' /\ Rows' /\ tx' = tx /\ \A v \in Workers : Undisturbed(v)
    BY <1>2, SameRows DEF vars
  <2> QED
    BY <2>1, ByNone
<1> QED
  BY <1>1, <1>2, StartKeeps, ProceedKeeps, AtOnceKeeps DEF Next

\* In every state all holds that a transaction relies on until it commits.
THEOREM Invariance == Spec => []IInv
BY InvInit, InvNext, PTL DEF Spec

-----------------------------------------------------------------------------
(* The theorems.                                                           *)

\* The rows are well typed, and no lock ever has two owners.
THEOREM TypeCorrect == Spec => []TypeOK
<1>1. IInv => TypeOK
  BY DEF IInv
<1> QED
  BY <1>1, Invariance, PTL

\* However many players redeem a link at a time, it lets in no more than its
\* limit: the use is counted by whoever holds its row, at the commit.
THEOREM LinksKeepTheirLimit == Spec => []UsesWithinLimit
<1>1. IInv => UsesWithinLimit
  BY DEF IInv, Rows
<1> QED
  BY <1>1, Invariance, PTL

\* An invitation to an event serves one player and one event.
THEOREM InvitationsServeOne == Spec => []InviteServesOne
<1>1. IInv => InviteServesOne
  BY DEF IInv, Rows
<1> QED
  BY <1>1, Invariance, PTL

\* An exclusion leaves no booking on the events there were when it began, and
\* none comes back while the player is out: a booking holds its event's lock
\* from before it reads the membership, and an exclusion holds all of them.
THEOREM ExclusionHolds == Spec => []ExcludedHasNoBooking
<1>1. IInv => ExcludedHasNoBooking
  BY DEF IInv, Rows
<1> QED
  BY <1>1, Invariance, PTL

\* A booking an organizer cancelled comes back on another invitation or not at all.
THEOREM CancelledInvitationIsOver == Spec => AdminCancelEndsInvite
<1> DEFINE Other == \A u \in Users : \A e \in InviteOnly :
                      (booking[u][e].byAdmin /\ booking'[u][e].active) =>
                         booking'[u][e].invite # booking[u][e].invite
<1>1. ASSUME IInv, [Next]_vars
      PROVE  [Other]_vars
  <2>0. \A u \in Users : \A e \in InviteOnly :
          e \in Events /\ (booking[u][e].byAdmin => ~booking[u][e].active)
    BY <1>1, EventsAssumption, Now DEF Rows
  <2>1. ASSUME \A u \in Users : \A e \in Events : booking'[u][e].active => booking[u][e].active
        PROVE  Other
    BY <2>0, <2>1
  <2>2. ASSUME booking' = booking
        PROVE  Other
    BY <2>0, <2>2
  <2>3. ASSUME NEW w \in Workers, Book(w)
        PROVE  Other
    <3> SUFFICES ASSUME NEW u \in Users, NEW e \in InviteOnly,
                        booking[u][e].byAdmin, booking'[u][e].active
                 PROVE  booking'[u][e].invite # booking[u][e].invite
      OBVIOUS
    <3>1. PICK f \in Events : tx[w].found = {f}
      BY <1>1, <2>3, Now DEF Book, Shape
    <3>2. First(tx[w].found) = f /\ tx[w].who \in Users
      BY <1>1, <2>3, <3>1, FirstOfOne, Now DEF Book, Shape
    <3>3. PICK i \in IF f \in InviteOnly THEN Invitation(tx[w].who, f) ELSE {NoInvite} :
            booking' = [booking EXCEPT ![tx[w].who][f] =
                          [active |-> TRUE, invite |-> i, byAdmin |-> FALSE]]
      BY <2>3, <3>2 DEF Book
    <3>4. booking \in [Users -> [Events -> Booking]] /\ e \in Events
      BY <1>1, <2>0, Now DEF DataOK
    <3>5. u = tx[w].who /\ e = f
      BY <2>0, <3>2, <3>3, <3>4
    <3>6. booking'[u][e].invite = i /\ i \in Invitation(u, e)
      BY <3>2, <3>3, <3>4, <3>5
    <3>7. ~invites[i].used
      BY <1>1, <3>4, <3>6, InvitationIsFree
    <3>8. booking[u][e].invite \in Invites => invites[booking[u][e].invite].used
      BY <1>1, <3>4, Now DEF Rows
    <3>9. i \in Invites
      BY <1>1, <3>4, <3>6, InvitationIsFree
    <3> QED
      BY <3>6, <3>7, <3>8, <3>9
  <2>4. ASSUME NEW w \in Workers, Proceed(w), ~Book(w), ~Exclude(w)
        PROVE  booking' = booking
    BY <2>4 DEF Proceed, Redeem, Leave, Moderate, Ask, LockEvent, LockMember, ReadBookings
  <2>5. ASSUME NEW w \in Workers, Exclude(w)
        PROVE  Other
    <3>1. tx[w].who \in Users /\ booking \in [Users -> [Events -> Booking]]
      BY <1>1, <2>5, Now DEF DataOK, Shape, Exclude
    <3> DEFINE u == tx[w].who
    <3>2. booking' = [booking EXCEPT ![u] = [e \in Events |->
             IF e \in tx[w].found /\ booking[u][e].active THEN Cancelled(booking[u][e], TRUE)
             ELSE booking[u][e]]]
      BY <2>5 DEF Exclude
    <3>3. \A v \in Users : \A e \in Events :
            booking'[v][e] = booking[v][e] \/ booking[v][e].active
      BY <3>1, <3>2
    <3> QED
      BY <2>0, <3>3
  <2>6. ASSUME NEW w \in Workers, NEW u \in Users, Start(w, u)
        PROVE  booking' = booking
    BY <2>6 DEF Start, StartRedeem, StartLeave, StartExclude, StartModerate, StartAsk, StartBook
  <2>7. ASSUME NEW w \in Workers, Rollback(w)
        PROVE  booking' = booking
    BY <2>7 DEF Rollback
  <2>8. CASE AtOnce
    <3>1. ASSUME NEW u \in Users, NEW e \in Events, NEW byAdmin \in BOOLEAN,
                 CancelBooking(u, e, byAdmin)
          PROVE  Other
      <4>1. booking \in [Users -> [Events -> Booking]]
        BY <1>1, Now DEF DataOK
      <4>2. /\ booking[u][e].active
            /\ booking' = [booking EXCEPT ![u][e] = Cancelled(booking[u][e], byAdmin)]
        BY <3>1 DEF CancelBooking
      <4>3. \A v \in Users : \A f \in Events :
              booking'[v][f] = booking[v][f] \/ booking[v][f].active
        BY <4>1, <4>2
      <4> QED
        BY <2>0, <4>3
    <3>2. ASSUME ~ \E u \in Users, e \in Events, byAdmin \in BOOLEAN : CancelBooking(u, e, byAdmin)
          PROVE  booking' = booking
      BY <2>8, <3>2 DEF AtOnce, RevokeLink, Expire, CreateEvent, CreateInvite, Withdraw, Approve
    <3> QED
      BY <2>2, <3>1, <3>2
  <2>9. CASE UNCHANGED vars
    BY <2>9 DEF vars
  <2> HIDE DEF Other
  <2> QED
    BY <1>1, <2>2, <2>3, <2>4, <2>5, <2>6, <2>7, <2>8, <2>9 DEF Next
<1>2. [][Other]_vars => AdminCancelEndsInvite
  BY PTL DEF AdminCancelEndsInvite
<1> QED
  BY <1>1, <1>2, Invariance, PTL DEF Spec

\* A moderation under way is touched by nobody but itself.
LEMMA ModerationStep ==
  ASSUME IInv, [Next]_vars, NEW w \in Workers, tx[w].op = "moderate", tx'[w] # tx[w]
  PROVE  Moderate(w) \/ Rollback(w)
<1>0. tx \in [Workers -> Transaction] /\ Idle.op = "idle"
  BY Now DEF Idle
<1>1. ASSUME NEW v \in Workers, NEW t, tx' = [tx EXCEPT ![v] = t]
      PROVE  v = w
  BY <1>0, <1>1
<1>2. ASSUME NEW v \in Workers, Proceed(v)
      PROVE  Moderate(w)
  <2>1. \E t : tx' = [tx EXCEPT ![v] = t]
    BY <1>2 DEF Proceed, Redeem, Leave, Moderate, Ask, Book, LockEvent, LockMember,
                ReadBookings, Exclude, End, Go
  <2>2. Proceed(w)
    BY <1>1, <1>2, <2>1
  <2> QED
    BY <2>2 DEF Proceed, Redeem, Leave, Ask, Book, LockEvent, LockMember, ReadBookings, Exclude
<1>3. ASSUME NEW v \in Workers, Rollback(v)
      PROVE  Rollback(w)
  BY <1>1, <1>3 DEF Rollback, End, Go
<1>4. ASSUME NEW v \in Workers, NEW u \in Users, Start(v, u)
      PROVE  FALSE
  <2>1. tx[v] = Idle /\ \E t : tx' = [tx EXCEPT ![v] = t]
    BY <1>4 DEF Start, StartRedeem, StartLeave, StartExclude, StartModerate, StartAsk, StartBook, Begin
  <2> QED
    BY <1>0, <1>1, <2>1
<1>5. ~AtOnce
  BY DEF AtOnce, RevokeLink, Expire, CreateEvent, CreateInvite, Withdraw, Approve, CancelBooking
<1> QED
  BY <1>2, <1>3, <1>4, <1>5 DEF Next, vars

\* A moderation is carried out on the status it was decided on or not at all,
\* and of several that read one status one: the update is conditional on it, and
\* no transition ends where it begins.
THEOREM ModerationsAreCurrent == Spec => ModerationIsCurrent
<1> DEFINE Current == \A w \in Workers :
       LET u == tx[w].who IN
       (tx[w].op = "moderate" /\ tx'[w] # tx[w] /\ member' # member) =>
         /\ member[u] = tx[w].saw
         /\ \E m \in AllModeration : member[u] \in m.from /\ member'[u] = m.to
         /\ \A v \in Workers \ {w} :
              (tx[v].op = "moderate" /\ tx[v].who = u /\ tx[v].saw = tx[w].saw) =>
                 member'[u] # tx[v].saw
<1>1. ASSUME IInv, [Next]_vars
      PROVE  [Current]_vars
  <2> SUFFICES ASSUME NEW w \in Workers, tx[w].op = "moderate", tx'[w] # tx[w], member' # member
               PROVE  /\ member[tx[w].who] = tx[w].saw
                      /\ \E m \in AllModeration :
                           member[tx[w].who] \in m.from /\ member'[tx[w].who] = m.to
                      /\ member'[tx[w].who] # tx[w].saw
    OBVIOUS
  <2>1. Moderate(w)
    BY <1>1, ModerationStep DEF Rollback
  <2>2. /\ member \in [Users -> Status] /\ tx[w].who \in Users
        /\ \E m \in AllModeration : tx[w].saw \in m.from /\ tx[w].to = m.to
    BY <1>1, Now DEF DataOK, Shape
  <2>3. member[tx[w].who] = tx[w].saw /\ member'[tx[w].who] = tx[w].to
    BY <2>1, <2>2 DEF Moderate
  <2>4. \A m \in AllModeration : m.to \notin m.from
    BY DEF AllModeration
  <2> QED
    BY <2>2, <2>3, <2>4
<1>2. [][Current]_vars => ModerationIsCurrent
  BY PTL DEF ModerationIsCurrent
<1> QED
  BY <1>1, <1>2, Invariance, PTL DEF Spec
=============================================================================
