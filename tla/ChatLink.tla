------------------------------ MODULE ChatLink ------------------------------
(***************************************************************************)
(* The link of a group to its Telegram chat: codes the organizers issue,   *)
(* claims the bot makes with them, what Telegram tells of the bot's place  *)
(* in the chat, announcements that fail, and the end of the link.          *)
(*                                                                         *)
(* Transactions run at READ COMMITTED.  A statement sees what is committed *)
(* when it begins.  A DELETE or an UPDATE then takes the rows it has found *)
(* one by one, waits for those another transaction has changed and looks   *)
(* at each again; rows committed meanwhile it does not see.  A SELECT does *)
(* not wait.  An INSERT that meets an open link of its chat or group in a  *)
(* partial UNIQUE index waits if that row is being changed.                *)
(*                                                                         *)
(* An operator Mut... is the wrong form of the definition after it that a  *)
(* slip in the code would give.  Nothing uses it: PROJECT.json says which  *)
(* property notices the slip.                                              *)
(***************************************************************************)
EXTENDS Integers, FiniteSets

CONSTANTS
  Groups,    \* the groups (organizations)
  Chats,     \* the group chats of Telegram
  NoGroup,   \* no group
  NoChat,    \* no chat
  MaxCodes,  \* bounds, for the checks: codes ever issued
  MaxLinks,  \* links ever made
  Workers    \* transactions under way at a time

Codes == 1 .. MaxCodes
Links == 1 .. MaxLinks

ASSUME NobodyAssumption == NoGroup \notin Groups /\ NoChat \notin Chats
ASSUME BoundsAssumption == MaxCodes \in Nat /\ MaxLinks \in Nat

VARIABLES
  bot,   \* the bot's place in each chat: "post", "mute", "out", or the chat "moved"
  news,  \* my_chat_member updates on their way, in any order
  code,  \* telegram_chat_link_codes
  link,  \* organization_telegram_chats
  tx     \* the transactions under way

vars == <<bot, news, code, link, tx>>

Place == {"post", "mute", "out", "moved"}
Code == [group : Groups \union {NoGroup}, status : {"none", "unused", "used", "gone"}]
Link == [group : Groups \union {NoGroup}, chat : Chats \union {NoChat},
         status : {"none", "active", "invalid", "unlinked"},
         why : {"none", "no_rights", "migrated"}]

NoCode == [group |-> NoGroup, status |-> "none"]
NoLink == [group |-> NoGroup, chat |-> NoChat, status |-> "none", why |-> "none"]

\* A transaction: the codes it has deleted or spent, those its DELETE has found
\* and not come to yet, the links it has locked.  Of a release the model also
\* remembers the codes that could be used when it locked its link.
Idle == [op |-> "idle", group |-> NoGroup, chat |-> NoChat, link |-> 0, codes |-> {},
         seen |-> {}, rows |-> {}, old |-> {}, why |-> "none"]

Open == {l \in Links : link[l].status \in {"active", "invalid"}}
OpenOf(g) == {l \in Open : link[l].group = g}
OpenIn(c) == {l \in Open : link[l].chat = c}
UnusedOf(g) == {k \in Codes : code[k].group = g /\ code[k].status = "unused"}

First(S) == {x \in S : \A y \in S : x <= y}

-----------------------------------------------------------------------------
(* Row locks: codes and rows of a transaction under way.                   *)

MutCodesFree(w, S) == TRUE      \* deletes what it can, waits for nothing
CodesFree(w, S) == \A v \in Workers \ {w} : S \intersect tx[v].codes = {}
RowsFree(w, S) == \A v \in Workers \ {w} : S \intersect tx[v].rows = {}
Begin(w, t) == tx[w] = Idle /\ tx' = [tx EXCEPT ![w] = t]
Go(w, t) == tx' = [tx EXCEPT ![w] = t]
End(w) == Go(w, Idle)

SetCodes(S, status) ==
  [k \in Codes |-> IF k \in S THEN [code[k] EXCEPT !.status = status] ELSE code[k]]
SetLink(l, status, why) ==
  link' = [link EXCEPT ![l].status = status, ![l].why = why]

-----------------------------------------------------------------------------
(* The DELETE of the unused codes of a group, in issueCode, unlink and     *)
(* releaseLink.                                                            *)

Finds(w, before, after) ==
  /\ tx[w].op = before
  /\ Go(w, [tx[w] EXCEPT !.op = after, !.seen = UnusedOf(tx[w].group) \ tx[w].codes])
  /\ UNCHANGED <<bot, news, code, link>>

\* A row that is free and still not used is deleted, one that is used is passed over.
DeleteCode(w) ==
  /\ \E k \in tx[w].seen :
       /\ CodesFree(w, {k})
       /\ Go(w, [tx[w] EXCEPT !.seen = @ \ {k},
                              !.codes = @ \union ({k} \intersect UnusedOf(tx[w].group))])
  /\ UNCHANGED <<bot, news, code, link>>

-----------------------------------------------------------------------------
(* Codes and claims.                                                       *)

\* issueCode sees no open link ...
StartIssue(w, g) ==
  /\ OpenOf(g) = {}
  /\ Begin(w, [Idle EXCEPT !.op = "asked", !.group = g])
  /\ UNCHANGED <<bot, news, code, link>>

\* ... begins to delete the unused codes of the group ...
DeleteCodes(w) == Finds(w, "asked", "issue")

\* ... and inserts a new one.
Issue(w) ==
  /\ tx[w].op = "issue" /\ tx[w].seen = {}
  /\ \E k \in First({k \in Codes : code[k].status = "none"}) :
       code' = [SetCodes(tx[w].codes, "gone") EXCEPT
                  ![k] = [group |-> tx[w].group, status |-> "unused"]]
  /\ End(w)
  /\ UNCHANGED <<bot, news, link>>

\* Fifteen minutes are over.
Expire(w, k) ==
  /\ tx[w] = Idle /\ code[k].status = "unused" /\ CodesFree(w, {k})
  /\ code' = SetCodes({k}, "gone")
  /\ UNCHANGED <<bot, news, link, tx>>

\* claim spends the code by a conditional UPDATE.
StartClaim(w, k, c) ==
  /\ code[k].status = "unused" /\ CodesFree(w, {k}) /\ bot[c] \in {"post", "mute"}
  /\ Begin(w, [Idle EXCEPT !.op = "claim", !.group = code[k].group, !.chat = c, !.codes = {k}])
  /\ UNCHANGED <<bot, news, code, link>>

\* No administrator of the chat, the issuer no longer an organizer, the chat or
\* the group taken, be it found by looking or by the index: the code is spent.
Refuse(w) ==
  /\ tx[w].op = "claim"
  /\ code' = SetCodes(tx[w].codes, "used")
  /\ End(w)
  /\ UNCHANGED <<bot, news, link>>

MutClaim(w) ==      \* without looking at the index
  LET t == tx[w] IN
  /\ t.op = "claim"
  /\ code' = SetCodes(t.codes, "used")
  /\ \E l \in First({l \in Links : link[l].status = "none"}) :
       link' = [link EXCEPT ![l] = [group |-> t.group, chat |-> t.chat,
                                    status |-> "active", why |-> "none"]]
  /\ End(w)
  /\ UNCHANGED <<bot, news>>

\* Chat and group are free, or become so while the insert waits in the index.
Claim(w) ==
  LET t == tx[w] IN
  /\ t.op = "claim" /\ OpenOf(t.group) = {} /\ OpenIn(t.chat) = {}
  /\ code' = SetCodes(t.codes, "used")
  /\ \E l \in First({l \in Links : link[l].status = "none"}) :
       link' = [link EXCEPT ![l] = [group |-> t.group, chat |-> t.chat,
                                    status |-> "active", why |-> "none"]]
  /\ End(w)
  /\ UNCHANGED <<bot, news>>

-----------------------------------------------------------------------------
(* The end of a link.                                                      *)

\* unlink reads the link of the group, if it has one ...
StartUnlink(w, g) ==
  /\ \E l \in IF OpenOf(g) = {} THEN {0} ELSE OpenOf(g) :
       Begin(w, [Idle EXCEPT !.op = "unlink", !.link = l, !.group = g])
  /\ UNCHANGED <<bot, news, code, link>>

\* ... begins to delete the unused codes ...
UnlinkCodes(w) == Finds(w, "unlink", "detach")

\* To release a link is to lock it first.
ToRelease(t, l) ==
  [t EXCEPT !.op = "release", !.link = l, !.rows = {l}, !.old = UnusedOf(t.group)]

\* ... and releases the link, if there is one and no other has released it.
Unlink(w) ==
  LET t == tx[w] IN
  /\ t.op = "detach" /\ t.seen = {} /\ RowsFree(w, {t.link})
  /\ IF t.link \in Open
     THEN Go(w, ToRelease(t, t.link)) /\ UNCHANGED code
     ELSE End(w) /\ code' = SetCodes(t.codes, "gone")
  /\ UNCHANGED <<bot, news, link>>

MutRevoke(w) ==      \* the codes live on
  /\ tx[w].op = "release"
  /\ Go(w, [tx[w] EXCEPT !.op = "commit"])
  /\ UNCHANGED <<bot, news, code, link>>

\* releaseLink begins to delete the unused codes of the group ...
Revoke(w) == Finds(w, "release", "commit")

\* ... and commits: the row is history, the codes are gone.
Release(w) ==
  /\ tx[w].op = "commit" /\ tx[w].seen = {}
  /\ SetLink(tx[w].link, "unlinked", "none")
  /\ code' = SetCodes(tx[w].codes, "gone")
  /\ End(w)
  /\ UNCHANGED <<bot, news>>

-----------------------------------------------------------------------------
(* Telegram.                                                               *)

\* The bot is let in, muted or thrown out; Telegram sends an update.
BotMoves(c, p) ==
  /\ bot[c] \notin {p, "moved"} /\ p # "moved"
  /\ bot' = [bot EXCEPT ![c] = p]
  /\ news' = [news EXCEPT ![c] = @ \union {p}]
  /\ UNCHANGED <<code, link, tx>>

\* The chat becomes a supergroup with another id.
Migrate(c) ==
  /\ bot[c] \in {"post", "mute"} /\ bot' = [bot EXCEPT ![c] = "moved"]
  /\ UNCHANGED <<news, code, link, tx>>

Heard(c, p) == p \in news[c] /\ news' = [news EXCEPT ![c] = @ \ {p}]

\* The web does not answer the bot: the update is lost.
Lose(c, p) == Heard(c, p) /\ UNCHANGED <<bot, code, link, tx>>

\* syncBotMembership of a bot thrown out locks the open link to release it.
SyncOut(w, c) ==
  /\ Heard(c, "out")
  /\ \E l \in OpenIn(c) :
       /\ RowsFree(w, {l})
       /\ Begin(w, ToRelease([Idle EXCEPT !.group = link[l].group], l))
  /\ UNCHANGED <<bot, code, link>>

MutSync(w, c, p) ==      \* a link that moved comes back to life
  /\ Heard(c, p) /\ p \in {"post", "mute"}
  /\ tx[w] = Idle
  /\ \E l \in OpenIn(c) :
       /\ RowsFree(w, {l})
       /\ IF p = "post" THEN SetLink(l, "active", "none") ELSE SetLink(l, "invalid", "no_rights")
  /\ UNCHANGED <<bot, code, tx>>

\* Losing the right to post makes the link invalid, regaining it active, unless
\* the chat has moved.
Sync(w, c, p) ==
  /\ Heard(c, p) /\ p \in {"post", "mute"}
  /\ tx[w] = Idle
  /\ \E l \in OpenIn(c) :
       /\ RowsFree(w, {l}) /\ link[l].why # "migrated"
       /\ IF p = "post" THEN SetLink(l, "active", "none") ELSE SetLink(l, "invalid", "no_rights")
  /\ UNCHANGED <<bot, code, tx>>

\* announceEvent reads the link ...
StartAnnounce(w, g) ==
  /\ \E l \in OpenOf(g) :
       /\ link[l].status = "active"
       /\ Begin(w, [Idle EXCEPT !.op = "send", !.link = l, !.group = g, !.chat = link[l].chat])
  /\ UNCHANGED <<bot, news, code, link>>

\* ... sends ...
Send(w) ==
  /\ tx[w].op = "send"
  /\ IF bot[tx[w].chat] = "post" THEN End(w)
     ELSE Go(w, [tx[w] EXCEPT !.op = "failed", !.why = bot[tx[w].chat]])
  /\ UNCHANGED <<bot, news, code, link>>

MutFailed(w) ==      \* whatever is linked to the chat by now
  LET t == tx[w] IN
  /\ t.op = "failed" /\ RowsFree(w, OpenIn(t.chat))
  /\ IF OpenIn(t.chat) = {} THEN End(w) /\ UNCHANGED link
     ELSE \E l \in OpenIn(t.chat) :
       IF t.why = "out"
       THEN Go(w, ToRelease(t, l)) /\ UNCHANGED link
       ELSE /\ SetLink(l, "invalid", IF t.why = "moved" THEN "migrated" ELSE "no_rights")
            /\ End(w)
  /\ UNCHANGED <<bot, news, code>>

\* ... and on failure changes that link, by its id, if it is still active.
Failed(w) ==
  LET t == tx[w] IN
  /\ t.op = "failed" /\ RowsFree(w, {t.link})
  /\ IF link[t.link].status # "active" THEN End(w) /\ UNCHANGED link
     ELSE IF t.why = "out"
     THEN Go(w, ToRelease(t, t.link)) /\ UNCHANGED link
     ELSE /\ SetLink(t.link, "invalid", IF t.why = "moved" THEN "migrated" ELSE "no_rights")
          /\ End(w)
  /\ UNCHANGED <<bot, news, code>>

\* An error, a crash, or the victim of a deadlock.
Rollback(w) == tx[w] # Idle /\ End(w) /\ UNCHANGED <<bot, news, code, link>>

-----------------------------------------------------------------------------
Init ==
  /\ bot \in [Chats -> {"post", "out"}] /\ news = [c \in Chats |-> {}]
  /\ code = [k \in Codes |-> NoCode]
  /\ link = [l \in Links |-> NoLink]
  /\ tx = [w \in Workers |-> Idle]

Cabinet(w, g) == StartIssue(w, g) \/ StartUnlink(w, g) \/ StartAnnounce(w, g)

Bot(w, k) == Expire(w, k) \/ \E c \in Chats : StartClaim(w, k, c)

Proceed(w) ==
  \/ DeleteCodes(w) \/ DeleteCode(w) \/ Issue(w) \/ Refuse(w) \/ Claim(w)
  \/ UnlinkCodes(w) \/ Unlink(w) \/ Revoke(w) \/ Release(w)
  \/ Send(w) \/ Failed(w) \/ Rollback(w)

Telegram(c) ==
  \/ Migrate(c)
  \/ \E p \in Place : BotMoves(c, p) \/ Lose(c, p) \/ \E w \in Workers : Sync(w, c, p)
  \/ \E w \in Workers : SyncOut(w, c)

Next ==
  \/ \E w \in Workers : (\E g \in Groups : Cabinet(w, g)) \/ (\E k \in Codes : Bot(w, k)) \/ Proceed(w)
  \/ \E c \in Chats : Telegram(c)

Spec == Init /\ [][Next]_vars

-----------------------------------------------------------------------------
(* Properties.                                                             *)

Transaction == [op : {"idle", "asked", "issue", "claim", "unlink", "detach", "release", "commit",
                      "send", "failed"},
                group : Groups \union {NoGroup}, chat : Chats \union {NoChat},
                link : Links \union {0}, codes : SUBSET Codes, seen : SUBSET Codes,
                rows : SUBSET Links, old : SUBSET Codes, why : Place \union {"none"}]

\* Two transactions never hold one row, and a link says why it is invalid
\* exactly as long as it is.
TypeOK ==
  /\ bot \in [Chats -> Place] /\ news \in [Chats -> SUBSET Place]
  /\ code \in [Codes -> Code] /\ link \in [Links -> Link]
  /\ tx \in [Workers -> Transaction]
  /\ \A l \in Links : (link[l].status = "invalid") <=> (link[l].why # "none")
  /\ \A v, w \in Workers : v # w =>
       tx[v].codes \intersect tx[w].codes = {} /\ tx[v].rows \intersect tx[w].rows = {}

\* One open link per group, and one group per chat.
OneOpenLink ==
  \A l, m \in Open : (link[l].group = link[m].group \/ link[l].chat = link[m].chat) => l = m

\* When a link ends, every code that could be used when its release took hold of
\* it ends with it, those that claims, issues or other releases were about to use
\* or delete included: no chat is linked later by a code from before.
CodesEndWithLink ==
  [][\A w \in Workers : \A l \in tx[w].rows :
       (link[l].status # "unlinked" /\ link'[l].status = "unlinked") =>
         \A k \in tx[w].old :
           /\ code'[k].status # "unused"
           /\ \A v \in Workers : tx'[v].op = "claim" => k \notin tx'[v].codes]_vars

\* What is unlinked stays history: neither the return of the bot nor an
\* announcement that fails late touches it; and a link whose chat has moved is
\* never active again.
EndsAreFinal ==
  [][\A l \in Links :
       /\ link[l].status = "unlinked" => link'[l] = link[l]
       /\ link[l].why = "migrated" => link'[l].status \in {"invalid", "unlinked"}]_vars

\* An announcement that failed changes no link but the one it was sent by.
FailureHitsItsLink ==
  [][\A w \in Workers : tx[w].op \in {"send", "failed"} /\ tx'[w] # tx[w] =>
       /\ \A l \in Links \ {tx[w].link} : link'[l] = link[l]
       /\ tx'[w].rows \subseteq {tx[w].link}]_vars

\* When a link ends, no code of its group is left to use.
NoCodeOutlivesLink ==
  [][\A l \in Links : (link[l].status # "unlinked" /\ link'[l].status = "unlinked") =>
       \A k \in Codes : code'[k].group = link[l].group => code'[k].status # "unused"]_vars

\* A new code replaces the one before: a group has no two codes to use.
OneUnusedCode == \A g \in Groups : Cardinality(UnusedOf(g)) <= 1
=============================================================================
