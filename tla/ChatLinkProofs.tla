---------------------------- MODULE ChatLinkProofs ----------------------------
(***************************************************************************)
(* For any groups, chats, codes and number of transactions under way: one  *)
(* open link per group and per chat, codes that end with the link, links   *)
(* that stay ended, and failures that reach their own link alone.          *)
(***************************************************************************)
EXTENDS ChatLink, TLAPS

-----------------------------------------------------------------------------
(* The inductive invariant.                                                *)

DataOK ==
  /\ bot \in [Chats -> Place] /\ news \in [Chats -> SUBSET Place]
  /\ code \in [Codes -> Code] /\ link \in [Links -> Link]
  /\ \A l \in Links : (link[l].status = "invalid") <=> (link[l].why # "none")

TxOK ==
  /\ tx \in [Workers -> Transaction]
  /\ \A v, w \in Workers : v # w =>
       tx[v].codes \intersect tx[w].codes = {} /\ tx[v].rows \intersect tx[w].rows = {}

\* One open link per group and per chat, and every one of them to a chat.
OpenOK == OneOpenLink /\ \A l \in Open : link[l].chat \in Chats

\* What a transaction relies on: the code of a claim unused; a link about to be
\* released still open; of the codes usable when it was locked, those still unused
\* deleted or about to be, once the DELETE has found its rows; and nothing locked
\* by an announcement.
Shape(w) ==
  /\ tx[w].op \in {"release", "commit", "send", "failed"} => tx[w].link \in Links
  /\ tx[w].op = "claim" =>
       /\ tx[w].chat \in Chats
       /\ \A k \in tx[w].codes : code[k].status = "unused" /\ code[k].group = tx[w].group
  /\ tx[w].op \in {"release", "commit"} =>
       /\ tx[w].rows = {tx[w].link} /\ tx[w].link \in Open
       /\ \A k \in tx[w].old : code[k].status # "none" /\ code[k].group = tx[w].group
  /\ tx[w].op = "commit" =>
       \A k \in tx[w].old : code[k].status = "unused" => k \in tx[w].codes \union tx[w].seen
  /\ tx[w].op \in {"send", "failed"} => tx[w].rows = {} /\ tx[w].chat \in Chats

IInv == TypeOK /\ OpenOK /\ \A w \in Workers : Shape(w)

\* No code comes back to be used, and none changes its group.
Aged ==
  \A k \in Codes : code[k].status # "none" =>
    /\ code'[k].status # "none" /\ code'[k].group = code[k].group
    /\ code'[k].status = "unused" => code[k].status = "unused"

\* What a step of others leaves to transaction v, because of the rows it holds.
Undisturbed(v) ==
  /\ Aged
  /\ \A k \in tx[v].codes : code[k].status = "unused" => code'[k] = code[k]
  /\ \A l \in tx[v].rows : l \in Open => l \in Open'

\* No link opens, and none changes its group or its chat.
FewerOpen ==
  \A l \in Links : l \in Open' =>
    l \in Open /\ link'[l].group = link[l].group /\ link'[l].chat = link[l].chat

-----------------------------------------------------------------------------
(* What one step has to show.                                              *)

LEMMA Now ==
  ASSUME IInv
  PROVE  /\ DataOK /\ TxOK /\ OpenOK
         /\ tx \in [Workers -> Transaction]
         /\ \A w \in Workers : tx[w] \in Transaction /\ Shape(w)
BY DEF IInv, TypeOK, DataOK, TxOK

LEMMA OneOpenKept ==
  ASSUME IInv, FewerOpen
  PROVE  OpenOK'
BY Now DEF OpenOK, OneOpenLink, FewerOpen, Open

LEMMA Others ==
  ASSUME IInv, NEW v \in Workers, tx'[v] = tx[v], Undisturbed(v)
  PROVE  Shape(v)'
<1>0. Shape(v)
  BY Now
<1>1. tx'[v].op = "claim" =>
        tx'[v].chat \in Chats /\ \A k \in tx'[v].codes : code'[k].status = "unused" /\ code'[k].group = tx'[v].group
  BY <1>0 DEF Shape, Undisturbed
<1>2. tx'[v].op \in {"release", "commit"} =>
        /\ tx'[v].rows = {tx'[v].link} /\ tx'[v].link \in Open'
        /\ \A k \in tx'[v].old : code'[k].status # "none" /\ code'[k].group = tx'[v].group
  BY <1>0, Now DEF Shape, Undisturbed, Aged, Transaction
<1>3. tx'[v].op = "commit" =>
        \A k \in tx'[v].old : code'[k].status = "unused" => k \in tx'[v].codes \union tx'[v].seen
  BY <1>0, Now DEF Shape, Undisturbed, Aged, Transaction
<1> QED
  BY <1>0, <1>1, <1>2, <1>3 DEF Shape

\* A step that no transaction is part of.
LEMMA ByNone ==
  ASSUME IInv, DataOK', OpenOK', tx' = tx, \A v \in Workers : Undisturbed(v)
  PROVE  IInv'
<1>1. TxOK'
  BY Now DEF TxOK
<1>2. \A v \in Workers : Shape(v)'
  BY Others
<1> QED
  BY <1>1, <1>2 DEF IInv, TypeOK, DataOK, TxOK

\* A step of transaction w.
LEMMA ByOne ==
  ASSUME IInv, NEW w \in Workers, NEW t \in Transaction, tx' = [tx EXCEPT ![w] = t],
         CodesFree(w, t.codes \ tx[w].codes), RowsFree(w, t.rows \ tx[w].rows),
         DataOK', OpenOK', Shape(w)', \A v \in Workers \ {w} : Undisturbed(v)
  PROVE  IInv'
<1>1. /\ tx \in [Workers -> Transaction]
      /\ \A u, v \in Workers : u # v =>
           tx[u].codes \intersect tx[v].codes = {} /\ tx[u].rows \intersect tx[v].rows = {}
  BY Now DEF TxOK
<1>2. /\ tx'[w] = t /\ tx' \in [Workers -> Transaction]
      /\ \A v \in Workers \ {w} : tx'[v] = tx[v]
  BY <1>1
<1>3. ASSUME NEW v \in Workers \ {w}
      PROVE  t.codes \intersect tx[v].codes = {} /\ t.rows \intersect tx[v].rows = {}
  BY <1>1 DEF CodesFree, RowsFree
<1>4. ASSUME NEW u \in Workers, NEW v \in Workers, u # v
      PROVE  tx'[u].codes \intersect tx'[v].codes = {} /\ tx'[u].rows \intersect tx'[v].rows = {}
  <2>1. CASE u = w
    BY <1>2, <1>3, <1>4, <2>1
  <2>2. CASE v = w
    BY <1>2, <1>3, <1>4, <2>2
  <2>3. CASE u # w /\ v # w
    BY <1>1, <1>2, <1>4, <2>3
  <2> QED
    BY <2>1, <2>2, <2>3
<1>5. \A v \in Workers : Shape(v)'
  <2>1. ASSUME NEW v \in Workers, v # w
        PROVE  Shape(v)'
    BY <1>2, <2>1, Others
  <2> QED
    BY <2>1
<1> QED
  BY <1>2, <1>4, <1>5 DEF IInv, TypeOK, DataOK

LEMMA IdleType == Idle \in Transaction /\ Idle.codes = {} /\ Idle.rows = {} /\ Idle.op = "idle"
BY DEF Idle, Transaction

\* A step that ends w.
LEMMA Ends ==
  ASSUME IInv, NEW w \in Workers, End(w), DataOK', OpenOK',
         \A v \in Workers \ {w} : Undisturbed(v)
  PROVE  IInv'
<1>1. tx' = [tx EXCEPT ![w] = Idle] /\ tx'[w] = Idle
  BY Now DEF End, Go
<1>2. Shape(w)'
  BY <1>1, IdleType DEF Shape
<1>3. CodesFree(w, Idle.codes \ tx[w].codes) /\ RowsFree(w, Idle.rows \ tx[w].rows)
  BY IdleType DEF CodesFree, RowsFree
<1> QED
  BY <1>1, <1>2, <1>3, IdleType, ByOne

LEMMA SameRows ==
  ASSUME IInv, UNCHANGED <<code, link>>,
         bot' \in [Chats -> Place], news' \in [Chats -> SUBSET Place]
  PROVE  DataOK' /\ OpenOK' /\ \A v \in Workers : Undisturbed(v)
<1>1. Open' = Open
  BY DEF Open
<1>2. DataOK' /\ FewerOpen
  BY <1>1, Now DEF DataOK, FewerOpen
<1> QED
  BY <1>1, <1>2, OneOpenKept DEF Undisturbed, Aged

\* A step of w to t that changes no code and no link.
LEMMA Moves ==
  ASSUME IInv, NEW w \in Workers, NEW t \in Transaction, tx' = [tx EXCEPT ![w] = t],
         UNCHANGED <<bot, code, link>>, news' \in [Chats -> SUBSET Place],
         CodesFree(w, t.codes \ tx[w].codes), RowsFree(w, t.rows \ tx[w].rows), Shape(w)'
  PROVE  IInv'
<1>1. bot' \in [Chats -> Place]
  BY Now DEF DataOK
<1> QED
  BY <1>1, SameRows, ByOne

LEMMA NewsType ==
  ASSUME IInv, NEW c \in Chats, NEW p, Heard(c, p)
  PROVE  news' \in [Chats -> SUBSET Place]
BY Now DEF DataOK, Heard

\* A step that changes the codes of S alone and no link.
LEMMA CodesChange ==
  ASSUME IInv, NEW w \in Workers, NEW S \in SUBSET Codes, NEW status \in {"used", "gone"},
         CodesFree(w, S), code' = SetCodes(S, status), UNCHANGED <<bot, news, link>>
  PROVE  DataOK' /\ OpenOK' /\ Aged /\ \A v \in Workers \ {w} : Undisturbed(v)
<1>1. code \in [Codes -> Code]
  BY Now DEF DataOK
<1>2. code' \in [Codes -> Code] /\ \A k \in Codes \ S : code'[k] = code[k]
  <2>1. \A k \in Codes : [code[k] EXCEPT !.status = status] \in Code
    BY <1>1 DEF Code
  <2> QED
    BY <1>1, <2>1 DEF SetCodes
<1>3. Open' = Open
  BY DEF Open
<1>4. DataOK' /\ FewerOpen
  BY <1>2, <1>3, Now DEF DataOK, FewerOpen
<1>5. Aged
  <2>1. ASSUME NEW k \in S
        PROVE  code'[k].status = status /\ code'[k].group = code[k].group
    <3>1. code[k] \in Code /\ code'[k] = [code[k] EXCEPT !.status = status]
      BY <1>1 DEF SetCodes
    <3> QED
      BY <3>1 DEF Code
  <2> QED
    BY <1>2, <2>1 DEF Aged
<1>6. ASSUME NEW v \in Workers \ {w}
      PROVE  Undisturbed(v)
  <2>1. tx[v].codes \subseteq Codes /\ S \intersect tx[v].codes = {}
    BY Now DEF Transaction, CodesFree
  <2> QED
    BY <1>2, <1>3, <1>5, <2>1 DEF Undisturbed
<1> QED
  BY <1>4, <1>5, <1>6, OneOpenKept

\* A step that changes link l alone, to a status a link can have and still open.
LEMMA LinkStays ==
  ASSUME IInv, NEW l \in Open, NEW status, NEW why,
         <<status, why>> \in {<<"active", "none">>, <<"invalid", "no_rights">>,
                              <<"invalid", "migrated">>},
         SetLink(l, status, why), UNCHANGED code,
         bot' \in [Chats -> Place], news' \in [Chats -> SUBSET Place]
  PROVE  DataOK' /\ OpenOK' /\ \A v \in Workers : Undisturbed(v)
<1>1. code \in [Codes -> Code] /\ link \in [Links -> Link] /\ l \in Links
  BY Now DEF DataOK, Open
<1> DEFINE r == [link[l] EXCEPT !.status = status, !.why = why]
<1>2. /\ r \in Link /\ r.status \in {"active", "invalid"}
      /\ (r.status = "invalid") <=> (r.why # "none")
      /\ r.group = link[l].group /\ r.chat = link[l].chat
  <2>1. link[l] \in Link
    BY <1>1
  <2> QED
    BY <2>1 DEF Link
<1>3. link' = [link EXCEPT ![l] = r]
  BY <1>1 DEF SetLink
<1> HIDE DEF r
<1>4. link' \in [Links -> Link] /\ link'[l] = r /\ \A m \in Links \ {l} : link'[m] = link[m]
  BY <1>1, <1>2, <1>3
<1>5. Open' = Open
  BY <1>2, <1>4 DEF Open
<1>6. DataOK' /\ FewerOpen
  BY <1>1, <1>2, <1>4, <1>5, Now DEF DataOK, FewerOpen
<1> QED
  BY <1>5, <1>6, OneOpenKept DEF Undisturbed, Aged

-----------------------------------------------------------------------------
(* Transactions that begin.                                                *)

LEMMA CabinetKeeps ==
  ASSUME IInv, NEW w \in Workers, NEW g \in Groups, Cabinet(w, g)
  PROVE  IInv'
<1>0. /\ tx \in [Workers -> Transaction] /\ link \in [Links -> Link]
      /\ \A l \in Open : l \in Links
      /\ news \in [Chats -> SUBSET Place]
  BY Now DEF DataOK, Open
<1>1. ASSUME NEW t \in Transaction, tx[w] = Idle, tx' = [tx EXCEPT ![w] = t],
             t.codes = {}, t.rows = {}, Shape(w)', UNCHANGED <<bot, news, code, link>>
      PROVE  IInv'
  BY <1>0, <1>1, Moves DEF CodesFree, RowsFree
<1>2. CASE StartIssue(w, g)
  <2> DEFINE t == [Idle EXCEPT !.op = "asked", !.group = g]
  <2>1. tx' = [tx EXCEPT ![w] = t] /\ tx[w] = Idle
    BY <1>2 DEF StartIssue, Begin
  <2>2. t \in Transaction /\ t.op = "asked" /\ t.codes = {} /\ t.rows = {}
    BY DEF Idle, Transaction
  <2> HIDE DEF t
  <2>3. Shape(w)'
    BY <1>0, <2>1, <2>2 DEF Shape
  <2> QED
    BY <1>1, <1>2, <2>1, <2>2, <2>3 DEF StartIssue
<1>3. CASE StartUnlink(w, g)
  <2>0. PICK l \in IF OpenOf(g) = {} THEN {0} ELSE OpenOf(g) :
          Begin(w, [Idle EXCEPT !.op = "unlink", !.link = l, !.group = g])
    BY <1>3 DEF StartUnlink
  <2>a. l \in Links \union {0}
    BY <1>0, <2>0 DEF OpenOf
  <2> DEFINE t == [Idle EXCEPT !.op = "unlink", !.link = l, !.group = g]
  <2>1. tx' = [tx EXCEPT ![w] = t] /\ tx[w] = Idle
    BY <2>0 DEF Begin
  <2>2. t \in Transaction /\ t.op = "unlink" /\ t.codes = {} /\ t.rows = {}
    BY <2>a DEF Idle, Transaction
  <2> HIDE DEF t
  <2>3. Shape(w)'
    BY <1>0, <2>1, <2>2 DEF Shape
  <2> QED
    BY <1>1, <1>3, <2>1, <2>2, <2>3 DEF StartUnlink
<1>4. CASE StartAnnounce(w, g)
  <2>0. PICK l \in OpenOf(g) :
          Begin(w, [Idle EXCEPT !.op = "send", !.link = l, !.group = g, !.chat = link[l].chat])
    BY <1>4 DEF StartAnnounce
  <2>a. l \in Links /\ link[l].chat \in Chats
    BY <1>0, <2>0, Now DEF OpenOf, OpenOK
  <2> DEFINE t == [Idle EXCEPT !.op = "send", !.link = l, !.group = g, !.chat = link[l].chat]
  <2>1. tx' = [tx EXCEPT ![w] = t] /\ tx[w] = Idle
    BY <2>0 DEF Begin
  <2>2. t \in Transaction /\ t.op = "send" /\ t.link = l /\ t.chat \in Chats /\ t.codes = {} /\ t.rows = {}
    BY <2>a DEF Idle, Transaction
  <2> HIDE DEF t
  <2>3. Shape(w)'
    BY <1>0, <2>a, <2>1, <2>2 DEF Shape
  <2> QED
    BY <1>1, <1>4, <2>1, <2>2, <2>3 DEF StartAnnounce
<1> QED
  BY <1>2, <1>3, <1>4 DEF Cabinet

LEMMA BotKeeps ==
  ASSUME IInv, NEW w \in Workers, NEW k \in Codes, Bot(w, k)
  PROVE  IInv'
<1>0. /\ tx \in [Workers -> Transaction] /\ code \in [Codes -> Code]
      /\ tx[w] = Idle => tx[w].codes = {}
      /\ news \in [Chats -> SUBSET Place]
  BY Now, IdleType DEF DataOK
<1>1. CASE Expire(w, k)
  <2>1. /\ CodesFree(w, {k}) /\ tx[w] = Idle /\ code' = SetCodes({k}, "gone")
        /\ UNCHANGED <<bot, news, link, tx>> /\ {k} \in SUBSET Codes
    BY <1>1 DEF Expire
  <2>2. DataOK' /\ OpenOK' /\ Aged /\ \A v \in Workers \ {w} : Undisturbed(v)
    BY <2>1, CodesChange
  <2>3. Undisturbed(w)
    BY <1>0, <2>1, <2>2, IdleType DEF Undisturbed
  <2> QED
    BY <2>1, <2>2, <2>3, ByNone
<1>2. ASSUME NEW c \in Chats, StartClaim(w, k, c)
      PROVE  IInv'
  <2> DEFINE t == [Idle EXCEPT !.op = "claim", !.group = code[k].group, !.chat = c, !.codes = {k}]
  <2>1. tx' = [tx EXCEPT ![w] = t] /\ tx[w] = Idle /\ CodesFree(w, {k}) /\ code[k].status = "unused"
    BY <1>2 DEF StartClaim, Begin
  <2>2. code[k].group \in Groups \union {NoGroup}
    BY <1>0 DEF Code
  <2>3. /\ t \in Transaction /\ t.op = "claim" /\ t.codes = {k} /\ t.rows = {} /\ t.group = code[k].group
        /\ t.chat = c
    BY <2>2 DEF Idle, Transaction
  <2> HIDE DEF t
  <2>4. tx'[w] = t /\ code' = code
    BY <1>0, <1>2, <2>1 DEF StartClaim
  <2>5. Shape(w)'
    BY <2>1, <2>3, <2>4 DEF Shape
  <2>6. CodesFree(w, t.codes \ tx[w].codes) /\ RowsFree(w, t.rows \ tx[w].rows)
    BY <2>1, <2>3 DEF CodesFree, RowsFree
  <2> QED
    BY <1>0, <1>2, <2>1, <2>3, <2>5, <2>6, Moves DEF StartClaim
<1> QED
  BY <1>1, <1>2 DEF Bot

-----------------------------------------------------------------------------
(* Codes and claims.                                                       *)

\* A DELETE begins.
LEMMA FindsKeeps ==
  ASSUME IInv, NEW w \in Workers, NEW before, NEW after \in {"issue", "detach", "commit"},
         after = "commit" => before = "release", Finds(w, before, after)
  PROVE  IInv'
<1> DEFINE S == UnusedOf(tx[w].group)
           t == [tx[w] EXCEPT !.op = after, !.seen = S \ tx[w].codes]
<1>0. /\ tx \in [Workers -> Transaction] /\ tx[w] \in Transaction /\ S \subseteq Codes
      /\ news \in [Chats -> SUBSET Place]
  BY Now DEF DataOK, UnusedOf
<1>1. tx' = [tx EXCEPT ![w] = t] /\ tx[w].op = before /\ UNCHANGED <<bot, news, code, link>>
  BY DEF Finds, Go
<1>2. \A k \in Codes : code[k].status = "unused" /\ code[k].group = tx[w].group => k \in S
  BY DEF UnusedOf
<1> HIDE DEF S
<1>3. /\ t \in Transaction /\ t.op = after /\ t.codes = tx[w].codes /\ t.seen = S \ tx[w].codes
      /\ t.rows = tx[w].rows /\ t.old = tx[w].old /\ t.link = tx[w].link /\ t.group = tx[w].group
  BY <1>0 DEF Transaction
<1> HIDE DEF t
<1>4. tx'[w] = t /\ Open' = Open
  BY <1>0, <1>1 DEF Open
<1>5. Shape(w)'
  <2>1. CASE after # "commit"
    BY <1>3, <1>4, <2>1 DEF Shape
  <2>2. CASE after = "commit"
    <3>1. /\ tx[w].link \in Links /\ tx[w].rows = {tx[w].link} /\ tx[w].link \in Open
          /\ \A k \in tx[w].old : code[k].status # "none" /\ code[k].group = tx[w].group
      BY <1>1, <2>2, Now DEF Shape
    <3>2. \A k \in tx[w].old : code[k].status = "unused" => k \in t.codes \union t.seen
      BY <1>0, <1>2, <1>3, <3>1 DEF Transaction
    <3> QED
      BY <1>1, <1>3, <1>4, <2>2, <3>1, <3>2 DEF Shape
  <2> QED
    BY <2>1, <2>2
<1>6. CodesFree(w, t.codes \ tx[w].codes) /\ RowsFree(w, t.rows \ tx[w].rows)
  BY <1>3 DEF CodesFree, RowsFree
<1> QED
  BY <1>0, <1>1, <1>3, <1>5, <1>6, Moves

\* The DELETE comes to one of its rows.
LEMMA DeleteCodeKeeps ==
  ASSUME IInv, NEW w \in Workers, DeleteCode(w)
  PROVE  IInv'
<1>0. /\ tx \in [Workers -> Transaction] /\ tx[w] \in Transaction
      /\ news \in [Chats -> SUBSET Place]
  BY Now DEF DataOK
<1>1. PICK k \in tx[w].seen :
        /\ CodesFree(w, {k})
        /\ Go(w, [tx[w] EXCEPT !.seen = @ \ {k},
                               !.codes = @ \union ({k} \intersect UnusedOf(tx[w].group))])
  BY DEF DeleteCode
<1> DEFINE S == {k} \intersect UnusedOf(tx[w].group)
           t == [tx[w] EXCEPT !.seen = tx[w].seen \ {k}, !.codes = tx[w].codes \union S]
<1>2. tx' = [tx EXCEPT ![w] = t] /\ UNCHANGED <<bot, news, code, link>>
  BY <1>1 DEF DeleteCode, Go
<1>3. /\ S \subseteq Codes /\ S \subseteq {k}
      /\ \A j \in S : code[j].status = "unused" /\ code[j].group = tx[w].group
      /\ k \in Codes /\ (code[k].status = "unused" /\ code[k].group = tx[w].group => k \in S)
  BY <1>0 DEF UnusedOf, Transaction
<1> HIDE DEF S
<1>4. /\ t \in Transaction /\ t.op = tx[w].op /\ t.codes = tx[w].codes \union S
      /\ t.seen = tx[w].seen \ {k} /\ t.rows = tx[w].rows /\ t.old = tx[w].old
      /\ t.link = tx[w].link /\ t.group = tx[w].group /\ t.chat = tx[w].chat
  BY <1>0, <1>3 DEF Transaction
<1> HIDE DEF t
<1>5. tx'[w] = t /\ Open' = Open /\ Shape(w)
  BY <1>0, <1>2, Now DEF Open
<1>6. t.op = "claim" =>
        \A j \in t.codes : code[j].status = "unused" /\ code[j].group = t.group
  BY <1>3, <1>4, <1>5 DEF Shape
<1>7. t.op = "commit" => \A j \in t.old : code[j].status = "unused" => j \in t.codes \union t.seen
  BY <1>3, <1>4, <1>5 DEF Shape
<1>8. Shape(w)'
  BY <1>2, <1>4, <1>5, <1>6, <1>7 DEF Shape
<1>9. CodesFree(w, t.codes \ tx[w].codes) /\ RowsFree(w, t.rows \ tx[w].rows)
  BY <1>1, <1>3, <1>4 DEF CodesFree, RowsFree
<1> QED
  BY <1>0, <1>2, <1>4, <1>8, <1>9, Moves

\* The codes a transaction holds are no other's.
LEMMA OwnCodesFree ==
  ASSUME IInv, NEW w \in Workers
  PROVE  /\ CodesFree(w, tx[w].codes) /\ tx[w].codes \in SUBSET Codes
         /\ RowsFree(w, tx[w].rows) /\ tx[w].rows \in SUBSET Links
BY Now DEF TxOK, CodesFree, RowsFree, Transaction

LEMMA IssueKeeps ==
  ASSUME IInv, NEW w \in Workers, Issue(w)
  PROVE  IInv'
<1> DEFINE S == tx[w].codes
           r == [group |-> tx[w].group, status |-> "unused"]
<1>0. /\ code \in [Codes -> Code] /\ tx[w] \in Transaction
      /\ \A v \in Workers : tx[v].codes \subseteq Codes
  BY Now, OwnCodesFree DEF DataOK
<1>1. PICK k \in First({j \in Codes : code[j].status = "none"}) :
        code' = [SetCodes(S, "gone") EXCEPT ![k] = r]
  BY DEF Issue
<1>2. k \in Codes /\ code[k].status = "none"
  BY <1>1 DEF First
<1>3. r \in Code
  BY <1>0 DEF Transaction, Code
<1> HIDE DEF r
<1>4. SetCodes(S, "gone") \in [Codes -> Code] /\ \A j \in Codes \ S : SetCodes(S, "gone")[j] = code[j]
  <2>1. \A j \in Codes : [code[j] EXCEPT !.status = "gone"] \in Code
    BY <1>0 DEF Code
  <2> QED
    BY <1>0, <2>1 DEF SetCodes
<1>5. code' \in [Codes -> Code] /\ \A j \in Codes \ S : j # k => code'[j] = code[j]
  BY <1>1, <1>2, <1>3, <1>4
<1>6. Open' = Open /\ End(w) /\ UNCHANGED <<bot, news, link>>
  BY DEF Open, Issue
<1>7. DataOK' /\ FewerOpen
  BY <1>5, <1>6, Now DEF DataOK, FewerOpen
<1>8. Aged
  <2>1. ASSUME NEW j \in S, j # k
        PROVE  code'[j].status = "gone" /\ code'[j].group = code[j].group
    <3>1. j \in Codes /\ code[j] \in Code
      BY <1>0
    <3>2. code'[j] = [code[j] EXCEPT !.status = "gone"]
      BY <1>1, <1>2, <1>4, <2>1, <3>1 DEF SetCodes
    <3> QED
      BY <3>1, <3>2 DEF Code
  <2> QED
    BY <1>2, <1>5, <2>1 DEF Aged
<1>9. ASSUME NEW v \in Workers \ {w}
      PROVE  Undisturbed(v)
  <2>1. S \intersect tx[v].codes = {}
    BY OwnCodesFree DEF CodesFree
  <2> QED
    BY <1>0, <1>2, <1>5, <1>6, <1>8, <2>1 DEF Undisturbed
<1> QED
  BY <1>6, <1>7, <1>9, OneOpenKept, Ends

\* A transaction that ends by setting the codes it holds.
LEMMA OwnCodesSet ==
  ASSUME IInv, NEW w \in Workers, NEW status \in {"used", "gone"},
         code' = SetCodes(tx[w].codes, status), End(w), UNCHANGED <<bot, news, link>>
  PROVE  IInv'
BY OwnCodesFree, CodesChange, Ends

LEMMA ClaimKeeps ==
  ASSUME IInv, NEW w \in Workers, Claim(w)
  PROVE  IInv'
<1> DEFINE t == tx[w]
           r == [group |-> t.group, chat |-> t.chat, status |-> "active", why |-> "none"]
<1>0. /\ code \in [Codes -> Code] /\ link \in [Links -> Link] /\ t \in Transaction
      /\ \A v \in Workers : tx[v].codes \subseteq Codes /\ tx[v].rows \subseteq Links
  BY Now, OwnCodesFree DEF DataOK
<1>a. \A v \in Workers \ {w} : t.codes \intersect tx[v].codes = {}
  BY OwnCodesFree DEF CodesFree
<1>1. code' = SetCodes(t.codes, "used") /\ End(w) /\ UNCHANGED <<bot, news>>
  BY DEF Claim
<1>2. code' \in [Codes -> Code] /\ \A j \in Codes \ t.codes : code'[j] = code[j]
  <2>1. \A j \in Codes : [code[j] EXCEPT !.status = "used"] \in Code
    BY <1>0 DEF Code
  <2> QED
    BY <1>0, <1>1, <2>1 DEF SetCodes
<1>3. Aged
  <2>1. ASSUME NEW j \in t.codes
        PROVE  code'[j].status = "used" /\ code'[j].group = code[j].group
    <3>1. j \in Codes /\ code[j] \in Code
      BY <1>0
    <3>2. code'[j] = [code[j] EXCEPT !.status = "used"]
      BY <1>1, <3>1 DEF SetCodes
    <3> QED
      BY <3>1, <3>2 DEF Code
  <2> QED
    BY <1>2, <2>1 DEF Aged
<1>4. IInv'
  <2>1. PICK l \in First({m \in Links : link[m].status = "none"}) : link' = [link EXCEPT ![l] = r]
    BY DEF Claim
  <2>2. l \in Links /\ link[l].status = "none"
    BY <2>1 DEF First
  <2>3. r \in Link /\ r.status = "active" /\ r.why = "none" /\ r.group = t.group /\ r.chat = t.chat
    BY <1>0 DEF Transaction, Link
  <2> HIDE DEF r
  <2>4. /\ link' \in [Links -> Link] /\ link'[l] = r
        /\ \A m \in Links \ {l} : link'[m] = link[m]
    BY <1>0, <2>1, <2>2, <2>3
  <2>5. Open' = Open \union {l} /\ Open \subseteq Links \ {l}
    BY <2>2, <2>3, <2>4 DEF Open
  <2>6. \A m \in Open : link[m].group # r.group /\ link[m].chat # r.chat
    BY <2>3 DEF Claim, OpenOf, OpenIn
  <2>7. OneOpenLink'
    <3> SUFFICES ASSUME NEW m \in Open', NEW n \in Open',
                        link'[m].group = link'[n].group \/ link'[m].chat = link'[n].chat
                 PROVE  m = n
      BY DEF OneOpenLink
    <3>1. CASE m = l \/ n = l
      BY <2>4, <2>5, <2>6, <3>1
    <3>2. CASE m # l /\ n # l
      BY <2>4, <2>5, <3>2, Now DEF OpenOK, OneOpenLink
    <3> QED
      BY <3>1, <3>2
  <2>a. OpenOK'
    <3>1. t.chat \in Chats
      BY Now DEF Claim, Shape
    <3> QED
      BY <2>3, <2>4, <2>5, <2>7, <3>1, Now DEF OpenOK
  <2>8. \A m \in Links : (link'[m].status = "invalid") <=> (link'[m].why # "none")
    BY <2>3, <2>4, Now DEF DataOK
  <2>9. DataOK'
    BY <1>1, <1>2, <2>4, <2>8, Now DEF DataOK
  <2>10. \A v \in Workers \ {w} : Undisturbed(v)
    BY <1>0, <1>a, <1>2, <1>3, <2>5 DEF Undisturbed
  <2> QED
    BY <1>1, <2>a, <2>9, <2>10, Ends
<1> QED
  BY <1>4

-----------------------------------------------------------------------------
(* The end of a link.                                                      *)

\* A transaction that goes on to release link l, which it locks.
LEMMA Locks ==
  ASSUME IInv, NEW w \in Workers, NEW u \in Transaction, NEW l \in Open,
         u.codes \subseteq tx[w].codes, RowsFree(w, {l}),
         tx' = [tx EXCEPT ![w] = ToRelease(u, l)],
         UNCHANGED <<bot, code, link>>, news' \in [Chats -> SUBSET Place]
  PROVE  IInv'
<1> DEFINE t == ToRelease(u, l)
<1>0. tx \in [Workers -> Transaction] /\ l \in Links
  BY Now DEF Open
<1>1. /\ UnusedOf(u.group) \subseteq Codes
      /\ \A k \in UnusedOf(u.group) : code[k].status = "unused" /\ code[k].group = u.group
  BY DEF UnusedOf
<1>2. /\ t \in Transaction /\ t.op = "release" /\ t.link = l /\ t.rows = {l}
      /\ t.codes = u.codes /\ t.group = u.group /\ t.old = UnusedOf(u.group)
  BY <1>0, <1>1 DEF Transaction, ToRelease
<1> HIDE DEF t
<1>3. Open' = Open /\ tx'[w] = t
  BY <1>0 DEF Open, t
<1>4. Shape(w)'
  BY <1>0, <1>1, <1>2, <1>3 DEF Shape
<1>5. CodesFree(w, t.codes \ tx[w].codes) /\ RowsFree(w, t.rows \ tx[w].rows)
  BY <1>2 DEF CodesFree, RowsFree
<1> QED
  BY <1>2, <1>4, <1>5, Moves DEF t

LEMMA UnlinkKeeps ==
  ASSUME IInv, NEW w \in Workers, Unlink(w)
  PROVE  IInv'
<1>1. /\ RowsFree(w, {tx[w].link}) /\ UNCHANGED <<bot, news, link>>
      /\ tx[w] \in Transaction /\ news \in [Chats -> SUBSET Place]
  BY Now DEF Unlink, DataOK
<1>2. CASE tx[w].link \in Open
  <2>1. tx' = [tx EXCEPT ![w] = ToRelease(tx[w], tx[w].link)] /\ code' = code
    BY <1>2 DEF Unlink, Go
  <2> QED
    BY <1>1, <1>2, <2>1, Locks
<1>3. CASE tx[w].link \notin Open
  <2>1. End(w) /\ code' = SetCodes(tx[w].codes, "gone")
    BY <1>3 DEF Unlink
  <2> QED
    BY <1>1, <2>1, OwnCodesSet
<1> QED
  BY <1>2, <1>3

\* What a release does to the rows.
LEMMA ReleaseStep ==
  ASSUME IInv, NEW w \in Workers, Release(w)
  PROVE  /\ tx[w].link \in Links /\ tx[w].link \in Open /\ tx[w].rows = {tx[w].link}
         /\ link' \in [Links -> Link]
         /\ link'[tx[w].link].status = "unlinked" /\ link'[tx[w].link].why = "none"
         /\ \A m \in Links \ {tx[w].link} : link'[m] = link[m]
         /\ code' \in [Codes -> Code]
         /\ \A k \in Codes : code'[k].group = code[k].group
         /\ \A k \in tx[w].codes : code'[k].status = "gone"
         /\ \A k \in Codes \ tx[w].codes : code'[k] = code[k]
<1> DEFINE l == tx[w].link
           S == tx[w].codes
           r == [link[l] EXCEPT !.status = "unlinked", !.why = "none"]
<1>0. code \in [Codes -> Code] /\ link \in [Links -> Link]
  BY Now DEF DataOK
<1>1. l \in Links /\ l \in Open /\ tx[w].rows = {l}
  BY Now DEF Release, Shape
<1>2. code' = SetCodes(S, "gone") /\ link' = [link EXCEPT ![l] = r] /\ S \subseteq Codes
  <2>1. SetLink(l, "unlinked", "none") /\ code' = SetCodes(S, "gone")
    BY DEF Release
  <2> QED
    BY <1>0, <1>1, <2>1, OwnCodesFree DEF SetLink
<1>3. r \in Link /\ r.status = "unlinked" /\ r.why = "none"
  <2>1. link[l] \in Link
    BY <1>0, <1>1
  <2> QED
    BY <2>1 DEF Link
<1> HIDE DEF r, S
<1>4. /\ link' \in [Links -> Link] /\ link'[l] = r
      /\ \A m \in Links \ {l} : link'[m] = link[m]
  BY <1>0, <1>1, <1>2, <1>3
<1>5. \A k \in Codes : /\ [code[k] EXCEPT !.status = "gone"] \in Code
                       /\ [code[k] EXCEPT !.status = "gone"].group = code[k].group
                       /\ [code[k] EXCEPT !.status = "gone"].status = "gone"
  BY <1>0 DEF Code
<1>6. /\ code' \in [Codes -> Code]
      /\ \A k \in S : code'[k] = [code[k] EXCEPT !.status = "gone"]
      /\ \A k \in Codes \ S : code'[k] = code[k]
  BY <1>0, <1>2, <1>5 DEF SetCodes
<1>7. /\ \A k \in Codes : code'[k].group = code[k].group
      /\ \A k \in S : code'[k].status = "gone"
  <2>1. ASSUME NEW k \in S
        PROVE  code'[k].group = code[k].group /\ code'[k].status = "gone"
    <3>1. k \in Codes /\ code'[k] = [code[k] EXCEPT !.status = "gone"]
      BY <1>2, <1>6
    <3> QED
      BY <1>5, <3>1
  <2>2. \A k \in Codes \ S : code'[k].group = code[k].group
    BY <1>6
  <2> QED
    BY <2>1, <2>2
<1> QED
  BY <1>1, <1>3, <1>4, <1>6, <1>7 DEF S

LEMMA ReleaseKeeps ==
  ASSUME IInv, NEW w \in Workers, Release(w)
  PROVE  IInv'
<1> DEFINE l == tx[w].link
<1>1. End(w) /\ UNCHANGED <<bot, news>>
  BY DEF Release
<1>2. Open' = Open \ {l}
  BY ReleaseStep DEF Open
<1>3. \A m \in Links : (link'[m].status = "invalid") <=> (link'[m].why # "none")
  BY ReleaseStep, Now DEF DataOK
<1>4. DataOK' /\ FewerOpen
  BY <1>1, <1>2, <1>3, ReleaseStep, Now DEF DataOK, FewerOpen
<1>5. Aged
  BY ReleaseStep DEF Aged
<1>6. ASSUME NEW v \in Workers \ {w}
      PROVE  Undisturbed(v)
  <2>1. /\ tx[w].codes \intersect tx[v].codes = {} /\ tx[v].codes \subseteq Codes
        /\ l \notin tx[v].rows
    BY ReleaseStep, OwnCodesFree DEF CodesFree, RowsFree
  <2> QED
    BY <1>2, <1>5, <2>1, ReleaseStep DEF Undisturbed
<1> QED
  BY <1>1, <1>4, <1>6, OneOpenKept, Ends

-----------------------------------------------------------------------------
(* Telegram.                                                               *)

LEMMA TelegramKeeps ==
  ASSUME IInv, NEW c \in Chats, Telegram(c)
  PROVE  IInv'
<1>0. /\ tx \in [Workers -> Transaction] /\ link \in [Links -> Link]
      /\ bot \in [Chats -> Place] /\ news \in [Chats -> SUBSET Place]
  BY Now DEF DataOK
<1>1. ASSUME UNCHANGED <<code, link, tx>>, bot' \in [Chats -> Place], news' \in [Chats -> SUBSET Place]
      PROVE  IInv'
  BY <1>1, SameRows, ByNone
<1>2. CASE Migrate(c)
  <2>1. bot' \in [Chats -> Place]
    BY <1>0, <1>2 DEF Migrate, Place
  <2> QED
    BY <1>0, <1>1, <1>2, <2>1 DEF Migrate
<1>3. ASSUME NEW p \in Place, BotMoves(c, p)
      PROVE  IInv'
  <2>1. bot' \in [Chats -> Place] /\ news' \in [Chats -> SUBSET Place]
    BY <1>0, <1>3 DEF BotMoves
  <2> QED
    BY <1>1, <1>3, <2>1 DEF BotMoves
<1>4. ASSUME NEW p \in Place, Lose(c, p)
      PROVE  IInv'
  BY <1>0, <1>1, <1>4, NewsType DEF Lose
<1>5. ASSUME NEW p \in Place, NEW w \in Workers, Sync(w, c, p)
      PROVE  IInv'
  <2>1. PICK l \in OpenIn(c) :
          IF p = "post" THEN SetLink(l, "active", "none") ELSE SetLink(l, "invalid", "no_rights")
    BY <1>5 DEF Sync
  <2>2. /\ l \in Open /\ UNCHANGED <<bot, code, tx>>
        /\ bot' \in [Chats -> Place] /\ news' \in [Chats -> SUBSET Place]
    BY <1>0, <1>5, NewsType DEF Sync, OpenIn
  <2>3. DataOK' /\ OpenOK' /\ \A v \in Workers : Undisturbed(v)
    <3>1. CASE SetLink(l, "active", "none")
      BY <2>2, <3>1, LinkStays
    <3>2. CASE SetLink(l, "invalid", "no_rights")
      BY <2>2, <3>2, LinkStays
    <3> QED
      BY <2>1, <3>1, <3>2
  <2> QED
    BY <2>2, <2>3, ByNone
<1>6. ASSUME NEW w \in Workers, SyncOut(w, c)
      PROVE  IInv'
  <2>1. PICK l \in OpenIn(c) :
          RowsFree(w, {l}) /\ Begin(w, ToRelease([Idle EXCEPT !.group = link[l].group], l))
    BY <1>6 DEF SyncOut
  <2>2. l \in Open /\ link[l].group \in Groups \union {NoGroup}
    BY <1>0, <2>1 DEF OpenIn, Open, Link
  <2> DEFINE u == [Idle EXCEPT !.group = link[l].group]
  <2>3. tx' = [tx EXCEPT ![w] = ToRelease(u, l)] /\ UNCHANGED <<bot, code, link>>
    BY <1>6, <2>1 DEF Begin, SyncOut
  <2>4. u \in Transaction /\ u.codes = {}
    BY <2>2 DEF Idle, Transaction
  <2> HIDE DEF u
  <2>5. news' \in [Chats -> SUBSET Place]
    BY <1>0, <1>6, NewsType DEF SyncOut, Place
  <2> QED
    BY <2>1, <2>2, <2>3, <2>4, <2>5, Locks
<1> QED
  BY <1>2, <1>3, <1>4, <1>5, <1>6 DEF Telegram

LEMMA SendKeeps ==
  ASSUME IInv, NEW w \in Workers, Send(w)
  PROVE  IInv'
<1>0. /\ tx \in [Workers -> Transaction] /\ tx[w] \in Transaction /\ Shape(w)
      /\ bot \in [Chats -> Place] /\ news \in [Chats -> SUBSET Place]
  BY Now DEF DataOK
<1>1. UNCHANGED <<bot, news, code, link>> /\ tx[w].op = "send"
  BY DEF Send
<1>2. CASE End(w)
  BY <1>0, <1>1, <1>2, SameRows, Ends
<1>3. CASE bot[tx[w].chat] # "post"
  <2> DEFINE t == [tx[w] EXCEPT !.op = "failed", !.why = bot[tx[w].chat]]
  <2>1. tx' = [tx EXCEPT ![w] = t]
    BY <1>3 DEF Send, Go
  <2>2. bot[tx[w].chat] \in Place
    BY <1>0, <1>1 DEF Shape
  <2>3. /\ t \in Transaction /\ t.op = "failed" /\ t.link = tx[w].link /\ t.chat = tx[w].chat
        /\ t.rows = tx[w].rows /\ t.codes = tx[w].codes
    BY <1>0, <2>2 DEF Transaction
  <2> HIDE DEF t
  <2>4. Shape(w)'
    BY <1>0, <1>1, <2>1, <2>3 DEF Shape
  <2>5. CodesFree(w, t.codes \ tx[w].codes) /\ RowsFree(w, t.rows \ tx[w].rows)
    BY <2>3 DEF CodesFree, RowsFree
  <2> QED
    BY <1>0, <1>1, <2>1, <2>3, <2>4, <2>5, Moves
<1> QED
  BY <1>2, <1>3 DEF Send

LEMMA FailedKeeps ==
  ASSUME IInv, NEW w \in Workers, Failed(w)
  PROVE  IInv'
<1> DEFINE l == tx[w].link
<1>0. /\ l \in Links /\ RowsFree(w, {l}) /\ UNCHANGED <<bot, news, code>>
      /\ bot \in [Chats -> Place] /\ news \in [Chats -> SUBSET Place]
      /\ tx[w] \in Transaction
  BY Now DEF Failed, Shape, DataOK
<1>1. link[l].status = "active" => l \in Open
  BY <1>0 DEF Open
<1>2. CASE End(w) /\ UNCHANGED link
  BY <1>0, <1>2, SameRows, Ends
<1>3. CASE /\ link[l].status = "active" /\ UNCHANGED link
           /\ Go(w, ToRelease(tx[w], l))
  BY <1>0, <1>1, <1>3, Locks DEF Go
<1>4. CASE /\ link[l].status = "active" /\ End(w)
           /\ SetLink(l, "invalid", IF tx[w].why = "moved" THEN "migrated" ELSE "no_rights")
  <2>1. PICK why \in {"migrated", "no_rights"} : SetLink(l, "invalid", why)
    BY <1>4
  <2>2. DataOK' /\ OpenOK' /\ \A v \in Workers : Undisturbed(v)
    BY <1>0, <1>1, <1>4, <2>1, LinkStays
  <2> QED
    BY <1>4, <2>2, Ends
<1> QED
  BY <1>2, <1>3, <1>4 DEF Failed

-----------------------------------------------------------------------------
(* The invariant.                                                          *)

LEMMA InvInit == Init => IInv
<1> SUFFICES ASSUME Init
             PROVE  IInv
  OBVIOUS
<1>1. NoCode \in Code /\ NoLink \in Link /\ NoLink.status = "none" /\ NoLink.why = "none"
  BY DEF NoCode, Code, NoLink, Link
<1>2. /\ code \in [Codes -> Code] /\ link \in [Links -> Link]
      /\ \A l \in Links : link[l] = NoLink
  BY <1>1 DEF Init
<1>3. bot \in [Chats -> Place] /\ news \in [Chats -> SUBSET Place]
  BY DEF Init, Place
<1>4. Open = {}
  BY <1>1, <1>2 DEF Open
<1>5. \A w \in Workers : tx[w] = Idle /\ Shape(w)
  BY IdleType DEF Init, Shape
<1>6. TxOK
  BY <1>5, IdleType DEF Init, TxOK
<1> QED
  BY <1>1, <1>2, <1>3, <1>4, <1>5, <1>6 DEF IInv, TypeOK, TxOK, OpenOK, OneOpenLink

LEMMA InvNext ==
  ASSUME IInv, [Next]_vars
  PROVE  IInv'
<1>1. ASSUME NEW w \in Workers, Rollback(w)
      PROVE  IInv'
  BY <1>1, Now, SameRows, Ends DEF Rollback, DataOK
<1>2. CASE UNCHANGED vars
  BY <1>2, Now, SameRows, ByNone DEF vars, DataOK
<1>3. ASSUME NEW w \in Workers, Proceed(w)
      PROVE  IInv'
  <2>1. DeleteCodes(w) \/ UnlinkCodes(w) \/ Revoke(w) => IInv'
    BY FindsKeeps DEF DeleteCodes, UnlinkCodes, Revoke
  <2>2. Refuse(w) => IInv'
    BY OwnCodesSet DEF Refuse
  <2> QED
    BY <1>1, <1>3, <2>1, <2>2, DeleteCodeKeeps, IssueKeeps, ClaimKeeps, UnlinkKeeps,
       ReleaseKeeps, SendKeeps, FailedKeeps DEF Proceed
<1> QED
  BY <1>2, <1>3, CabinetKeeps, BotKeeps, TelegramKeeps DEF Next

\* In every state all holds that a transaction relies on until it commits.
THEOREM Invariance == Spec => []IInv
BY InvInit, InvNext, PTL DEF Spec

-----------------------------------------------------------------------------
(* What each step does to the links.                                       *)

LEMMA FailedEnds ==
  ASSUME IInv, NEW w \in Workers, Failed(w)
  PROVE  /\ tx[w].link \in Links
         /\ \A m \in Links \ {tx[w].link} : link'[m] = link[m]
         /\ \/ link' = link
            \/ /\ link[tx[w].link].status = "active" /\ link[tx[w].link].why # "migrated"
               /\ link'[tx[w].link].status = "invalid"
<1> DEFINE l == tx[w].link
<1>1. l \in Links /\ link \in [Links -> Link] /\ (link[l].status = "active" => link[l].why = "none")
  BY Now DEF Failed, Shape, DataOK
<1>2. CASE UNCHANGED link
  BY <1>1, <1>2
<1>3. ASSUME NEW why, link[l].status = "active", SetLink(l, "invalid", why)
      PROVE  /\ \A m \in Links \ {l} : link'[m] = link[m]
             /\ link'[l].status = "invalid"
  <2>1. link[l] \in Link
    BY <1>1
  <2>2. [link[l] EXCEPT !.status = "invalid", !.why = why].status = "invalid"
    BY <2>1 DEF Link
  <2> QED
    BY <1>1, <1>3, <2>2 DEF SetLink
<1> QED
  BY <1>1, <1>2, <1>3 DEF Failed

LEMMA ClaimEnds ==
  ASSUME IInv, NEW w \in Workers, Claim(w)
  PROVE  \E l \in Links : /\ link[l].status = "none" /\ link[l].why # "migrated"
                          /\ link'[l].status = "active"
                          /\ \A m \in Links \ {l} : link'[m] = link[m]
<1>0. link \in [Links -> Link]
  BY Now DEF DataOK
<1>1. PICK l \in First({m \in Links : link[m].status = "none"}) :
        link' = [link EXCEPT ![l] = [group |-> tx[w].group, chat |-> tx[w].chat,
                                     status |-> "active", why |-> "none"]]
  BY DEF Claim
<1>2. l \in Links /\ link[l].status = "none" /\ link[l].why = "none"
  BY <1>1, Now DEF First, DataOK
<1>3. link'[l].status = "active" /\ \A m \in Links \ {l} : link'[m] = link[m]
  BY <1>0, <1>1, <1>2
<1> QED
  BY <1>2, <1>3

LEMMA SyncEnds ==
  ASSUME IInv, NEW w \in Workers, NEW c \in Chats, NEW p \in Place, Sync(w, c, p)
  PROVE  \E l \in Links : /\ link[l].status # "unlinked" /\ link[l].why # "migrated"
                          /\ link'[l].status # "unlinked"
                          /\ \A m \in Links \ {l} : link'[m] = link[m]
<1>0. link \in [Links -> Link]
  BY Now DEF DataOK
<1>1. PICK l \in OpenIn(c) :
        /\ link[l].why # "migrated"
        /\ IF p = "post" THEN SetLink(l, "active", "none") ELSE SetLink(l, "invalid", "no_rights")
  BY DEF Sync
<1>2. l \in Links /\ link[l].status # "unlinked"
  BY <1>1 DEF OpenIn, Open
<1>3. ASSUME NEW status \in {"active", "invalid"}, NEW why, SetLink(l, status, why)
      PROVE  link'[l].status # "unlinked" /\ \A m \in Links \ {l} : link'[m] = link[m]
  <2>1. link[l] \in Link
    BY <1>0, <1>2
  <2>2. [link[l] EXCEPT !.status = status, !.why = why].status = status
    BY <2>1 DEF Link
  <2> QED
    BY <1>0, <1>2, <1>3, <2>2 DEF SetLink
<1> QED
  BY <1>1, <1>2, <1>3

LEMMA OtherStepsKeepLinks ==
  ASSUME [Next]_vars,
         \A w \in Workers : ~Release(w) /\ ~Failed(w) /\ ~Claim(w),
         \A w \in Workers : \A c \in Chats : \A p \in Place : ~Sync(w, c, p)
  PROVE  link' = link
<1>1. ASSUME NEW w \in Workers, Proceed(w)
      PROVE  link' = link
  BY <1>1 DEF Proceed, DeleteCodes, UnlinkCodes, Revoke, Finds, DeleteCode, Issue, Refuse,
              Unlink, Send, Rollback
<1>2. ASSUME NEW w \in Workers, NEW g \in Groups, Cabinet(w, g)
      PROVE  link' = link
  BY <1>2 DEF Cabinet, StartIssue, StartUnlink, StartAnnounce
<1>3. ASSUME NEW w \in Workers, NEW k \in Codes, Bot(w, k)
      PROVE  link' = link
  BY <1>3 DEF Bot, Expire, StartClaim
<1>4. ASSUME NEW c \in Chats, Telegram(c)
      PROVE  link' = link
  BY <1>4 DEF Telegram, Migrate, BotMoves, Lose, SyncOut
<1> QED
  BY <1>1, <1>2, <1>3, <1>4 DEF Next, vars

-----------------------------------------------------------------------------
(* The theorems.                                                           *)

\* The rows are well typed, no row is held twice, and a link says why it is
\* invalid exactly as long as it is.
THEOREM TypeCorrect == Spec => []TypeOK
<1>1. IInv => TypeOK
  BY DEF IInv
<1> QED
  BY <1>1, Invariance, PTL

\* A group has one open link and a chat one group, whatever claims run at a
\* time: the partial unique indexes, and the wait for a row that is changing.
THEOREM OneOpenLinkEach == Spec => []OneOpenLink
<1>1. IInv => OneOpenLink
  BY DEF IInv, OpenOK
<1> QED
  BY <1>1, Invariance, PTL

\* Of the codes that could be used when a release locked its link, none is left
\* to use when the link ends: the DELETE waits for whoever is about to use one,
\* takes it if it is still unused, and a claim holds its code unused to the end.
THEOREM CodesGo == Spec => CodesEndWithLink
<1> DEFINE Gone == \A w \in Workers : \A l \in tx[w].rows :
              (link[l].status # "unlinked" /\ link'[l].status = "unlinked") =>
                \A k \in tx[w].old :
                  /\ code'[k].status # "unused"
                  /\ \A v \in Workers : tx'[v].op = "claim" => k \notin tx'[v].codes
<1>1. ASSUME IInv, [Next]_vars
      PROVE  [Gone]_vars
  <2>0. \A w \in Workers : tx[w].rows \subseteq Links /\ tx[w].old \subseteq Codes
    BY <1>1, Now DEF Transaction
  <2>1. ASSUME \A l \in Links : link'[l].status = "unlinked" => link[l].status = "unlinked"
        PROVE  Gone
    BY <2>0, <2>1
  <2>2. ASSUME NEW x \in Workers, Release(x)
        PROVE  Gone
    <3> SUFFICES ASSUME NEW w \in Workers, NEW l \in tx[w].rows, NEW k \in tx[w].old,
                        link[l].status # "unlinked", link'[l].status = "unlinked"
                 PROVE  /\ code'[k].status # "unused"
                        /\ \A v \in Workers : tx'[v].op = "claim" => k \notin tx'[v].codes
      OBVIOUS
    <3>1. l = tx[x].link /\ tx[x].rows = {l}
      BY <1>1, <2>0, <2>2, ReleaseStep
    <3>2. w = x
      BY <1>1, <3>1, Now DEF TxOK
    <3>3. code[k].status = "unused" => k \in tx[w].codes
      BY <1>1, <2>2, <3>2, Now DEF Release, Shape
    <3>4. code'[k].status # "unused"
      BY <1>1, <2>0, <2>2, <3>2, <3>3, ReleaseStep
    <3>5. ASSUME NEW v \in Workers, tx'[v].op = "claim"
          PROVE  k \notin tx'[v].codes
      <4>1. IInv' /\ Shape(v)'
        BY <1>1, <2>2, ReleaseKeeps DEF IInv
      <4> QED
        BY <3>4, <3>5, <4>1 DEF Shape
    <3> QED
      BY <3>4, <3>5
  <2>3. ASSUME link' = link
        PROVE  Gone
    BY <2>1, <2>3
  <2>4. ASSUME NEW w \in Workers, Failed(w) \/ Claim(w)
        PROVE  Gone
    BY <1>1, <2>1, <2>4, FailedEnds, ClaimEnds
  <2>5. ASSUME NEW w \in Workers, NEW c \in Chats, NEW p \in Place, Sync(w, c, p)
        PROVE  Gone
    BY <1>1, <2>1, <2>5, SyncEnds
  <2> HIDE DEF Gone
  <2> QED
    BY <1>1, <2>2, <2>3, <2>4, <2>5, OtherStepsKeepLinks
<1>2. [][Gone]_vars => CodesEndWithLink
  BY PTL DEF CodesEndWithLink
<1> QED
  BY <1>1, <1>2, Invariance, PTL DEF Spec

\* What is unlinked stays as it is, and a link whose chat moved never comes back.
THEOREM EndsStand == Spec => EndsAreFinal
<1> DEFINE Final == \A l \in Links :
             /\ link[l].status = "unlinked" => link'[l] = link[l]
             /\ link[l].why = "migrated" => link'[l].status \in {"invalid", "unlinked"}
<1>1. ASSUME IInv, [Next]_vars
      PROVE  [Final]_vars
  <2>0. \A l \in Links : link[l].why = "migrated" => link[l].status = "invalid"
    BY <1>1, Now DEF DataOK
  <2>1. ASSUME NEW w \in Workers, Release(w)
        PROVE  Final
    <3>1. tx[w].link \in Open /\ link[tx[w].link].status # "unlinked"
      BY <1>1, <2>1, ReleaseStep DEF Open
    <3> QED
      BY <1>1, <2>0, <2>1, <3>1, ReleaseStep
  <2>2. ASSUME link' = link
        PROVE  Final
    BY <2>0, <2>2
  <2>3. ASSUME NEW l \in Links, link[l].status # "unlinked", link[l].why # "migrated",
               \A m \in Links \ {l} : link'[m] = link[m]
        PROVE  Final
    BY <2>0, <2>3
  <2>4. ASSUME NEW w \in Workers, Failed(w) \/ Claim(w)
        PROVE  Final
    BY <1>1, <2>0, <2>2, <2>3, <2>4, FailedEnds, ClaimEnds
  <2>5. ASSUME NEW w \in Workers, NEW c \in Chats, NEW p \in Place, Sync(w, c, p)
        PROVE  Final
    BY <1>1, <2>3, <2>5, SyncEnds
  <2> HIDE DEF Final
  <2> QED
    BY <1>1, <2>1, <2>2, <2>4, <2>5, OtherStepsKeepLinks
<1>2. [][Final]_vars => EndsAreFinal
  BY PTL DEF EndsAreFinal
<1> QED
  BY <1>1, <1>2, Invariance, PTL DEF Spec

\* An announcement that failed changes the link it was sent by and no other,
\* and goes on to release no other.
THEOREM FailuresStay == Spec => FailureHitsItsLink
<1> DEFINE Own == \A w \in Workers : tx[w].op \in {"send", "failed"} /\ tx'[w] # tx[w] =>
             /\ \A l \in Links \ {tx[w].link} : link'[l] = link[l]
             /\ tx'[w].rows \subseteq {tx[w].link}
<1>1. ASSUME IInv, [Next]_vars
      PROVE  [Own]_vars
  <2> SUFFICES ASSUME NEW w \in Workers, tx[w].op \in {"send", "failed"}, tx'[w] # tx[w]
               PROVE  /\ \A l \in Links \ {tx[w].link} : link'[l] = link[l]
                      /\ tx'[w].rows \subseteq {tx[w].link}
    OBVIOUS
  <2>0. /\ tx \in [Workers -> Transaction] /\ tx[w].rows = {}
        /\ Idle.rows = {} /\ Idle.op = "idle"
    BY <1>1, IdleType, Now DEF Shape
  <2>1. CASE Send(w)
    <3>1. tx'[w].rows = {} /\ link' = link
      <4>1. tx'[w] \in {Idle, [tx[w] EXCEPT !.op = "failed", !.why = bot[tx[w].chat]]}
        BY <2>0, <2>1 DEF Send, End, Go
      <4>2. [tx[w] EXCEPT !.op = "failed", !.why = bot[tx[w].chat]].rows = tx[w].rows
        BY <2>0 DEF Transaction
      <4> QED
        BY <2>0, <2>1, <4>1, <4>2 DEF Send
    <3> QED
      BY <3>1
  <2>2. CASE Failed(w)
    <3>1. \A l \in Links \ {tx[w].link} : link'[l] = link[l]
      BY <1>1, <2>2, FailedEnds
    <3>2. tx'[w].rows \subseteq {tx[w].link}
      <4>1. tx'[w] \in {Idle, ToRelease(tx[w], tx[w].link)}
        BY <2>0, <2>2 DEF Failed, End, Go
      <4>2. ToRelease(tx[w], tx[w].link).rows = {tx[w].link}
        BY <2>0 DEF Transaction, ToRelease
      <4> QED
        BY <2>0, <4>1, <4>2
    <3> QED
      BY <3>1, <3>2
  <2>3. CASE Rollback(w)
    <3>1. tx'[w].rows = {} /\ link' = link
      BY <2>0, <2>3 DEF Rollback, End, Go
    <3> QED
      BY <3>1
  <2>a. CASE DeleteCode(w)
    <3>1. tx'[w].rows = {} /\ link' = link
      <4>1. PICK k \in tx[w].seen :
              tx'[w] = [tx[w] EXCEPT !.seen = @ \ {k},
                                     !.codes = @ \union ({k} \intersect UnusedOf(tx[w].group))]
        BY <2>0, <2>a DEF DeleteCode, Go
      <4>2. tx'[w].rows = tx[w].rows
        BY <2>0, <4>1 DEF Transaction
      <4> QED
        BY <2>0, <2>a, <4>2 DEF DeleteCode
    <3> QED
      BY <3>1
  <2>4. ASSUME NEW v \in Workers, NEW t, v # w, tx' = [tx EXCEPT ![v] = t]
        PROVE  FALSE
    BY <2>0, <2>4
  <2>5. ASSUME NEW v \in Workers, NEW t, tx[v].op \notin {"send", "failed"}, tx' = [tx EXCEPT ![v] = t]
        PROVE  FALSE
    BY <2>4, <2>5
  <2>6. ASSUME NEW v \in Workers, Proceed(v)
        PROVE  Send(w) \/ Failed(w) \/ Rollback(w) \/ DeleteCode(w)
    <3>1. \E t : tx' = [tx EXCEPT ![v] = t]
      BY <2>6 DEF Proceed, DeleteCodes, UnlinkCodes, Revoke, Finds, DeleteCode, Issue, Refuse,
                  Claim, Unlink, Release, Send, Failed, Rollback, End, Go
    <3>2. v = w
      BY <2>4, <3>1
    <3>3. tx[w].op \notin {"asked", "issue", "claim", "unlink", "detach", "release", "commit"}
      OBVIOUS
    <3> QED
      BY <2>6, <3>2, <3>3 DEF Proceed, DeleteCodes, UnlinkCodes, Revoke, Finds, Issue, Refuse,
                              Claim, Unlink, Release
  <2>7. ASSUME NEW v \in Workers, NEW g \in Groups, Cabinet(v, g)
        PROVE  FALSE
    BY <2>0, <2>5, <2>7 DEF Cabinet, StartIssue, StartUnlink, StartAnnounce, Begin
  <2>8. ASSUME NEW v \in Workers, NEW k \in Codes, Bot(v, k)
        PROVE  FALSE
    BY <2>0, <2>5, <2>8 DEF Bot, Expire, StartClaim, Begin
  <2>9. ASSUME NEW c \in Chats, Telegram(c)
        PROVE  FALSE
    BY <2>0, <2>5, <2>9 DEF Telegram, Migrate, BotMoves, Lose, Sync, SyncOut, Begin
  <2>10. tx' # tx
    OBVIOUS
  <2> QED
    BY <1>1, <2>1, <2>2, <2>3, <2>a, <2>6, <2>7, <2>8, <2>9, <2>10 DEF Next, vars
<1>2. [][Own]_vars => FailureHitsItsLink
  BY PTL DEF FailureHitsItsLink
<1> QED
  BY <1>1, <1>2, Invariance, PTL DEF Spec
=============================================================================
