----------------------------- MODULE Membership -----------------------------
(***************************************************************************)
(* Who belongs to a group, and what follows from it: joining by a link,    *)
(* leaving, moderation, exclusion, and the bookings, invitations and       *)
(* requests of invitation of its coming events.                            *)
(*                                                                         *)
(* Transactions run at READ COMMITTED.  One that reads a row and writes on *)
(* the strength of it later is two steps here, and everybody else may      *)
(* commit between them; one that decides by a conditional UPDATE is one.   *)
(* Locks held to the end of a transaction: pg_advisory_xact_lock of an     *)
(* event, FOR UPDATE of a member (exclusion only), the row of a link whose *)
(* uses a joining transaction has counted up.                              *)
(*                                                                         *)
(* An operator Mut... is the wrong form of the definition after it that a  *)
(* slip in the code would give.  Nothing uses it: PROJECT.json says which  *)
(* property notices the slip.                                              *)
(***************************************************************************)
EXTENDS Integers, FiniteSets

CONSTANTS
  Users,       \* players of the group: no owner, no organizer
  Managed,     \* of them those the organizers moderate or exclude
  Standings,   \* what the players may be at the start: functions to their status
  Events,      \* ids of published events to come, numbers in the order of creation
  Planned,     \* of them those there are from the start
  InviteOnly,  \* of them those with join_mode "invite"
  Invites,     \* ids of the links to an event
  Links,       \* links to the group
  MaxUses,     \* max_uses of a link to the group
  JoinsAs,     \* its default_member_status
  Moderation,  \* transitions the organizers make: records [to, from]
  Nobody,      \* no user: an invitation for whoever has its token
  NoInvite,    \* no link
  Workers      \* transactions under way at a time

ASSUME EventsAssumption ==
  /\ Managed \subseteq Users
  /\ Events \subseteq Nat /\ IsFiniteSet(Events)
  /\ Planned \subseteq Events /\ InviteOnly \subseteq Events
ASSUME LinksAssumption ==
  /\ MaxUses \in Nat \ {0} /\ JoinsAs \in {"active", "pending"}
  /\ Nobody \notin Users /\ NoInvite \notin Invites

Status == {"none", "pending", "active", "guest", "blocked", "left", "rejected"}

\* memberService.approve, reject, block, unblock.
AllModeration ==
  {[to |-> "active", from |-> {"pending"}], [to |-> "rejected", from |-> {"pending"}],
   [to |-> "blocked", from |-> {"active", "pending", "guest"}],
   [to |-> "active", from |-> {"blocked"}]}

ASSUME ModerationAssumption == Moderation \subseteq AllModeration
ASSUME StandingsAssumption == Standings \subseteq [Users -> Status \ {"left", "rejected", "blocked"}]

VARIABLES
  member,    \* status in organization_members
  excluded,  \* users whose last change of membership was an exclusion
  planned,   \* the events that exist
  links,     \* links to the group
  invites,   \* links to events
  request,   \* the events each user has a pending request of invitation for
  booking,   \* per user and event
  tx         \* the transactions under way

vars == <<member, excluded, planned, links, invites, request, booking, tx>>

Booking == [active : BOOLEAN, invite : Invites \union {NoInvite},
            byAdmin : BOOLEAN]   \* on an invitation, cancelled by an organizer
Invite == [on : Events \union {0},    \* 0: not issued yet
           for : Users \union {Nobody}, used : BOOLEAN,
           gone : BOOLEAN]            \* revoked or expired

EventLock(e) == <<"event", e>>
MemberLock(u) == <<"member", u>>
LinkLock(l) == <<"link", l>>
Locks == {EventLock(e) : e \in Events} \union {MemberLock(u) : u \in Users}
           \union {LinkLock(l) : l \in Links}

Idle == [op |-> "idle", own |-> {}, who |-> Nobody, saw |-> "none", to |-> "none",
         todo |-> {}, found |-> {}]

First(S) == CHOOSE x \in S : \A y \in S : x <= y

MutFreeFor(w, l) == TRUE      \* the lock is gone before the transaction ends
FreeFor(w, l) == \A v \in Workers \ {w} : l \notin tx[v].own
Untouched(l) == \A v \in Workers : l \notin tx[v].own
Begin(w, t) == tx[w] = Idle /\ tx' = [tx EXCEPT ![w] = t]
Go(w, t) == tx' = [tx EXCEPT ![w] = t]
End(w) == Go(w, Idle)

-----------------------------------------------------------------------------
(* Joining, leaving, moderation.                                           *)

MutStartRedeem(w, u, l) ==      \* counts the use without holding the row
  /\ Untouched(LinkLock(l))
  /\ ~links[l].revoked /\ links[l].uses < MaxUses
  /\ member[u] \in {"none", "left", "rejected"}
  /\ Begin(w, [Idle EXCEPT !.op = "redeem", !.own = {}, !.who = u,
                           !.saw = member[u], !.found = {l}])
  /\ UNCHANGED <<member, excluded, planned, links, invites, request, booking>>

\* inviteService.redeem: the conditional increment holds the link's row, then
\* the member is read.
StartRedeem(w, u, l) ==
  /\ Untouched(LinkLock(l))
  /\ ~links[l].revoked /\ links[l].uses < MaxUses
  /\ member[u] \in {"none", "left", "rejected"}
  /\ Begin(w, [Idle EXCEPT !.op = "redeem", !.own = {LinkLock(l)}, !.who = u,
                           !.saw = member[u], !.found = {l}])
  /\ UNCHANGED <<member, excluded, planned, links, invites, request, booking>>

\* A new member is inserted (one row per group and user); one who comes back
\* is updated by the id of the row, whatever has become of it.
Redeem(w) ==
  LET u == tx[w].who IN
  /\ tx[w].op = "redeem" /\ FreeFor(w, MemberLock(u))
  /\ tx[w].saw = "none" => member[u] = "none"
  /\ member' = [member EXCEPT ![u] = JoinsAs]
  /\ excluded' = excluded \ {u}
  /\ links' = [l \in Links |->
       IF l \in tx[w].found THEN [links[l] EXCEPT !.uses = @ + 1] ELSE links[l]]
  /\ End(w)
  /\ UNCHANGED <<planned, invites, request, booking>>

RevokeLink(l) ==
  /\ ~links[l].revoked /\ Untouched(LinkLock(l))
  /\ links' = [links EXCEPT ![l].revoked = TRUE]
  /\ UNCHANGED <<member, excluded, planned, invites, request, booking, tx>>

\* The request is let through for a member who is not blocked ...
StartLeave(w, u) ==
  /\ member[u] \in {"active", "pending", "guest"}
  /\ Begin(w, [Idle EXCEPT !.op = "leave", !.who = u])
  /\ UNCHANGED <<member, excluded, planned, links, invites, request, booking>>

\* ... and leaveOrg updates the row by its id.
Leave(w) ==
  LET u == tx[w].who IN
  /\ tx[w].op = "leave" /\ FreeFor(w, MemberLock(u))
  /\ member' = [member EXCEPT ![u] = "left"]
  /\ End(w)
  /\ UNCHANGED <<excluded, planned, links, invites, request, booking>>

StartModerate(w, u, m) ==
  /\ member[u] \in m.from
  /\ Begin(w, [Idle EXCEPT !.op = "moderate", !.who = u, !.saw = member[u], !.to = m.to])
  /\ UNCHANGED <<member, excluded, planned, links, invites, request, booking>>

MutModerate(w) ==      \* by the id of the row alone
  LET u == tx[w].who IN
  /\ tx[w].op = "moderate" /\ FreeFor(w, MemberLock(u))
  /\ member' = [member EXCEPT ![u] = tx[w].to]
  /\ End(w)
  /\ UNCHANGED <<excluded, planned, links, invites, request, booking>>

\* memberService.transition writes only if the status is still what it read.
Moderate(w) ==
  LET u == tx[w].who IN
  /\ tx[w].op = "moderate" /\ FreeFor(w, MemberLock(u))
  /\ member[u] = tx[w].saw
  /\ member' = [member EXCEPT ![u] = tx[w].to]
  /\ End(w)
  /\ UNCHANGED <<excluded, planned, links, invites, request, booking>>

-----------------------------------------------------------------------------
(* Invitations to events.                                                  *)

CreateEvent(e) ==
  /\ e \notin planned /\ planned' = planned \union {e}
  /\ UNCHANGED <<member, excluded, links, invites, request, booking, tx>>

Usable(i, e) == invites[i].on = e /\ ~invites[i].used /\ ~invites[i].gone

Issue(i, e, u) ==
  /\ e \in planned \intersect InviteOnly /\ invites[i].on = 0
  /\ invites' = [invites EXCEPT ![i].on = e, ![i].for = u]

\* eventInviteService.create: a link with a token, for one booking.
CreateInvite(i, e) ==
  /\ Issue(i, e, Nobody)
  /\ UNCHANGED <<member, excluded, planned, links, request, booking, tx>>

\* Its time runs out.
Expire(i) ==
  /\ invites[i].on # 0 /\ ~invites[i].gone
  /\ invites' = [invites EXCEPT ![i].gone = TRUE]
  /\ UNCHANGED <<member, excluded, planned, links, request, booking, tx>>

\* eventInviteRequestService.request reads the membership and the booking ...
StartAsk(w, u, e) ==
  /\ e \in planned \intersect InviteOnly
  /\ member[u] = "active" /\ ~booking[u][e].active
  /\ Begin(w, [Idle EXCEPT !.op = "ask", !.who = u, !.found = {e}])
  /\ UNCHANGED <<member, excluded, planned, links, invites, request, booking>>

\* ... and inserts, unless one is pending.
Ask(w) ==
  LET e == First(tx[w].found) IN
  /\ tx[w].op = "ask" /\ e \notin request[tx[w].who]
  /\ request' = [request EXCEPT ![tx[w].who] = @ \union {e}]
  /\ End(w)
  /\ UNCHANGED <<member, excluded, planned, links, invites, booking>>

\* The player withdraws it, or an organizer declines it: he may ask again.
Withdraw(u, e) ==
  /\ e \in request[u]
  /\ request' = [request EXCEPT ![u] = @ \ {e}]
  /\ UNCHANGED <<member, excluded, planned, links, invites, booking, tx>>

\* The organizer approves it: a link for that player.
Approve(u, e, i) ==
  /\ e \in request[u]
  /\ request' = [request EXCEPT ![u] = @ \ {e}]
  /\ Issue(i, e, u)
  /\ UNCHANGED <<member, excluded, planned, links, booking, tx>>

-----------------------------------------------------------------------------
(* Bookings.                                                               *)

MutStartBook(w, u, e) ==      \* the member is read before the event is locked
  /\ e \in planned
  /\ member[u] = "active" /\ ~booking[u][e].active
  /\ Begin(w, [Idle EXCEPT !.op = "book", !.own = {}, !.who = u, !.found = {e}])
  /\ UNCHANGED <<member, excluded, planned, links, invites, request, booking>>

\* bookingService.book locks the event, then reads the membership.
StartBook(w, u, e) ==
  /\ e \in planned /\ Untouched(EventLock(e))
  /\ member[u] = "active" /\ ~booking[u][e].active
  /\ Begin(w, [Idle EXCEPT !.op = "book", !.own = {EventLock(e)}, !.who = u, !.found = {e}])
  /\ UNCHANGED <<member, excluded, planned, links, invites, request, booking>>

MutPrevious(u, e) ==      \* whoever cancelled the booking
  {i \in {booking[u][e].invite} \intersect Invites : ~invites[i].gone}

\* The invitation of a booking the player himself cancelled serves again.
Previous(u, e) ==
  {i \in {booking[u][e].invite} \intersect Invites :
     ~invites[i].gone /\ ~booking[u][e].byAdmin}

MutByToken(e) ==      \* used or not
  {i \in Invites : invites[i].on = e /\ ~invites[i].gone /\ invites[i].for = Nobody}
ByToken(e) == {i \in Invites : Usable(i, e) /\ invites[i].for = Nobody}
ByRequest(u, e) == {i \in Invites : Usable(i, e) /\ invites[i].for = u}

\* consumeEventInvite: by the token he has, else the one he had, else the one
\* his request was granted.
Invitation(u, e) ==
  ByToken(e) \union (IF Previous(u, e) # {} THEN Previous(u, e) ELSE ByRequest(u, e))

Book(w) ==
  LET u == tx[w].who
      e == First(tx[w].found)
  IN
  /\ tx[w].op = "book"
  /\ \E i \in IF e \in InviteOnly THEN Invitation(u, e) ELSE {NoInvite} :
       /\ booking' = [booking EXCEPT ![u][e] =
                        [active |-> TRUE, invite |-> i, byAdmin |-> FALSE]]
       /\ invites' = IF i = NoInvite THEN invites ELSE [invites EXCEPT ![i].used = TRUE]
  /\ End(w)
  /\ UNCHANGED <<member, excluded, planned, links, request>>

Cancelled(b, byAdmin) ==
  [b EXCEPT !.active = FALSE, !.byAdmin = byAdmin /\ b.invite # NoInvite]

CancelBooking(u, e, byAdmin) ==
  /\ booking[u][e].active /\ Untouched(EventLock(e))
  /\ booking' = [booking EXCEPT ![u][e] = Cancelled(@, byAdmin)]
  /\ UNCHANGED <<member, excluded, planned, links, invites, request, tx>>

-----------------------------------------------------------------------------
(* Exclusion.                                                              *)

\* The events to come, as the transaction sees them.
StartExclude(w, u) ==
  /\ Begin(w, [Idle EXCEPT !.op = "lock", !.who = u, !.todo = planned])
  /\ UNCHANGED <<member, excluded, planned, links, invites, request, booking>>

\* Each in turn; later those of bookings on events it had not seen.
LockEvent(w) ==
  LET e == First(tx[w].todo) IN
  /\ tx[w].op \in {"lock", "cancel"} /\ tx[w].todo # {}
  /\ FreeFor(w, EventLock(e))
  /\ Go(w, [tx[w] EXCEPT !.own = @ \union {EventLock(e)}, !.todo = @ \ {e}])
  /\ UNCHANGED <<member, excluded, planned, links, invites, request, booking>>

\* Then the row of the member, who has to be one or a guest.
LockMember(w) ==
  LET u == tx[w].who IN
  /\ tx[w].op = "lock" /\ tx[w].todo = {}
  /\ FreeFor(w, MemberLock(u)) /\ member[u] \in {"active", "guest"}
  /\ Go(w, [tx[w] EXCEPT !.op = "read", !.own = @ \union {MemberLock(u)}])
  /\ UNCHANGED <<member, excluded, planned, links, invites, request, booking>>

\* Then his bookings: each is cancelled under the lock of its event.
ReadBookings(w) ==
  LET booked == {e \in planned : booking[tx[w].who][e].active} IN
  /\ tx[w].op = "read"
  /\ Go(w, [tx[w] EXCEPT !.op = "cancel", !.found = booked,
              !.todo = {e \in booked : EventLock(e) \notin tx[w].own}])
  /\ UNCHANGED <<member, excluded, planned, links, invites, request, booking>>

\* All of it commits together: the bookings, the pending requests, the
\* invitations given to him and not used.
Exclude(w) ==
  LET u == tx[w].who IN
  /\ tx[w].op = "cancel" /\ tx[w].todo = {}
  /\ member' = [member EXCEPT ![u] = "left"]
  /\ excluded' = excluded \union {u}
  /\ booking' = [booking EXCEPT ![u] = [e \in Events |->
       IF e \in tx[w].found /\ @[e].active THEN Cancelled(@[e], TRUE) ELSE @[e]]]
  /\ request' = [request EXCEPT ![u] = {}]
  /\ invites' = [i \in Invites |->
       IF invites[i].for = u /\ ~invites[i].used THEN [invites[i] EXCEPT !.gone = TRUE]
       ELSE invites[i]]
  /\ End(w)
  /\ UNCHANGED <<planned, links>>

Rollback(w) ==
  /\ tx[w] # Idle /\ End(w)
  /\ UNCHANGED <<member, excluded, planned, links, invites, request, booking>>

-----------------------------------------------------------------------------
Init ==
  /\ member \in Standings /\ excluded = {}
  /\ planned = Planned
  /\ links = [l \in Links |-> [uses |-> 0, revoked |-> FALSE]]
  /\ invites = [i \in Invites |-> [on |-> 0, for |-> Nobody, used |-> FALSE, gone |-> FALSE]]
  /\ request = [u \in Users |-> {}]
  /\ booking = [u \in Users |-> [e \in Events |->
                  [active |-> FALSE, invite |-> NoInvite, byAdmin |-> FALSE]]]
  /\ tx = [w \in Workers |-> Idle]

Start(w, u) ==
  \/ \E l \in Links : StartRedeem(w, u, l)
  \/ StartLeave(w, u)
  \/ u \in Managed /\ StartExclude(w, u)
  \/ u \in Managed /\ \E m \in Moderation : StartModerate(w, u, m)
  \/ \E e \in Events : StartAsk(w, u, e) \/ StartBook(w, u, e)

Proceed(w) ==
  \/ Redeem(w) \/ Leave(w) \/ Moderate(w) \/ Ask(w) \/ Book(w)
  \/ LockEvent(w) \/ LockMember(w) \/ ReadBookings(w) \/ Exclude(w)

AtOnce ==
  \/ \E l \in Links : RevokeLink(l)
  \/ \E i \in Invites : Expire(i)
  \/ \E e \in Events :
       \/ CreateEvent(e)
       \/ \E i \in Invites : CreateInvite(i, e)
       \/ \E u \in Users :
            \/ Withdraw(u, e)
            \/ \E i \in Invites : Approve(u, e, i)
            \/ \E byAdmin \in BOOLEAN : CancelBooking(u, e, byAdmin)

Next ==
  \/ \E w \in Workers : (\E u \in Users : Start(w, u)) \/ Proceed(w) \/ Rollback(w)
  \/ AtOnce

Spec == Init /\ [][Next]_vars

-----------------------------------------------------------------------------
(* Properties.                                                             *)

Transaction == [op : {"idle", "redeem", "leave", "moderate", "ask", "book", "lock", "read", "cancel"},
                own : SUBSET Locks, who : Users \union {Nobody}, saw : Status, to : Status,
                todo : SUBSET Events, found : SUBSET (Events \union Links)]

TypeOK ==
  /\ member \in [Users -> Status] /\ excluded \subseteq Users
  /\ planned \subseteq Events
  /\ links \in [Links -> [uses : Nat, revoked : BOOLEAN]]
  /\ invites \in [Invites -> Invite]
  /\ request \in [Users -> SUBSET Events]
  /\ booking \in [Users -> [Events -> Booking]]
  /\ tx \in [Workers -> Transaction]
  /\ \A v, w \in Workers : v # w => tx[v].own \intersect tx[w].own = {}

\* However many join at a time, a link lets in no more than its limit.
UsesWithinLimit == \A l \in Links : links[l].uses <= MaxUses

\* A link for one booking serves one player, over all his cancellations and
\* repeated bookings.
InviteServesOne ==
  \A i \in Invites : \A u, v \in Users : \A e, f \in Events :
    (booking[u][e].invite = i /\ booking[v][f].invite = i) => (u = v /\ e = f)

\* A booking an organizer cancelled does not come back on its old invitation.
AdminCancelEndsInvite ==
  [][\A u \in Users : \A e \in InviteOnly :
       (booking[u][e].byAdmin /\ booking'[u][e].active) =>
          booking'[u][e].invite # booking[u][e].invite]_vars

\* Exclusion leaves no booking behind on an event there was when it began, even
\* one that was under way, and none slips in until the player has come back.
ExcludedHasNoBooking ==
  \A u \in excluded : \A e \in Planned : ~booking[u][e].active

\* The same of every event.
ExclusionIsComplete ==
  \A u \in excluded : \A e \in Events : ~booking[u][e].active

\* A blocked member stays so until an organizer unblocks him.
BlockStands ==
  [][\A u \in Users :
       (member[u] = "blocked" /\ member'[u] # "blocked") =>
          \E w \in Workers : tx[w].op = "moderate" /\ tx[w].who = u /\ tx'[w] = Idle]_vars

\* A moderation changes a member only from the status it was decided on, by a
\* transition there is from that status, whatever has been committed since the
\* organizer's request read it: another moderation, a leave, an exclusion, a
\* return by a link.  And what is carried out leaves all other moderations that
\* read the same status nothing to change: of those only one takes effect.
ModerationIsCurrent ==
  [][\A w \in Workers :
       LET u == tx[w].who IN
       (tx[w].op = "moderate" /\ tx'[w] # tx[w] /\ member' # member) =>
         /\ member[u] = tx[w].saw
         /\ \E m \in AllModeration : member[u] \in m.from /\ member'[u] = m.to
         /\ \A v \in Workers \ {w} :
              (tx[v].op = "moderate" /\ tx[v].who = u /\ tx[v].saw = tx[w].saw) =>
                 member'[u] # tx[v].saw]_vars
=============================================================================
