-------------------------- MODULE GroupPaymentsProofs --------------------------
(***************************************************************************)
(* For any players, collections, price and number of payments: what the    *)
(* ledger tells of every payment, what may still be asked of whom, one     *)
(* payment per seat, and decisions on what was on the screen.              *)
(***************************************************************************)
EXTENDS GroupPayments, FiniteSetTheorems, WellFoundedInduction, TLAPS

-----------------------------------------------------------------------------
(* Sums and ranks over finite sets of payments.                            *)

LEMMA LeastOf ==
  ASSUME NEW T, T \subseteq Nat, T # {}
  PROVE  \E x \in T : \A y \in T : x <= y
<1> DEFINE R == {ss \in Nat \X Nat : ss[1] < ss[2]}
<1>1. IsWellFoundedOn(R, Nat)
  BY NatLessThanWellFounded DEF OpToRel
<1>2. \E x \in T : \A y \in T : ~ (<<y, x>> \in R)
  <2> HIDE DEF R
  <2> QED
    BY <1>1, WFMin
<1>3. PICK x \in T : \A y \in T : ~ (<<y, x>> \in R)
  BY <1>2
<1>4. ASSUME NEW y \in T
      PROVE  x <= y
  <2>1. x \in Nat /\ y \in Nat /\ <<y, x>> \in Nat \X Nat
    OBVIOUS
  <2>2. ~ (y < x)
    BY <1>3, <2>1
  <2> QED
    BY <2>1, <2>2
<1> QED
  BY <1>4

LEMMA GreatestOf ==
  ASSUME NEW T, T \subseteq Ids, T # {}
  PROVE  \E x \in T : \A y \in T : y <= x
<1> DEFINE U == {MaxPayments - i : i \in T}
<1>1. U \subseteq Nat /\ U # {}
  BY AmountsAssumption DEF Ids
<1>2. PICK n \in U : \A m \in U : n <= m
  BY <1>1, LeastOf
<1>3. PICK x \in T : n = MaxPayments - x
  OBVIOUS
<1>4. ASSUME NEW y \in T
      PROVE  y <= x
  <2>1. MaxPayments - x <= MaxPayments - y
    BY <1>2, <1>3
  <2> QED
    BY <2>1, AmountsAssumption DEF Ids
<1> QED
  BY <1>4

\* The amounts on the screen add up: rows of one amount, as the seats of a
\* booking are, come to that amount for each.
LEMMA SumOfEqual ==
  ASSUME NEW S, IsFiniteSet(S), NEW c \in Nat, \A j \in S : payment[j].amount = c
  PROVE  MapThenSumSet(LAMBDA j : payment[j].amount, S) = c * Cardinality(S)
<1> DEFINE Pick(s) == CHOOSE x \in s : TRUE
           Rec(g) == g = [s \in SUBSET S |-> IF s = {} THEN 0
                            ELSE payment[Pick(s)].amount + g[s \ {Pick(s)}]]
           sum == CHOOSE g : Rec(g)
           h == [s \in SUBSET S |-> c * Cardinality(s)]
<1>1. MapThenSumSet(LAMBDA j : payment[j].amount, S) = sum[S]
  BY DEF MapThenSumSet, MapThenFoldSet
<1>2. ASSUME NEW s \in SUBSET S, s # {}
      PROVE  /\ Pick(s) \in s /\ s \ {Pick(s)} \in SUBSET S
             /\ Cardinality(s) \in Nat \ {0}
             /\ Cardinality(s \ {Pick(s)}) = Cardinality(s) - 1
             /\ payment[Pick(s)].amount = c
             /\ c * Cardinality(s) = c + c * Cardinality(s \ {Pick(s)})
  <2>1. Pick(s) \in s
    BY <1>2
  <2>2. IsFiniteSet(s) /\ Cardinality(s) \in Nat /\ Cardinality(s) # 0
    BY <1>2, FS_Subset, FS_CardinalityType, FS_EmptySet
  <2>3. Cardinality(s \ {Pick(s)}) = Cardinality(s) - 1
    BY <2>1, <2>2, FS_RemoveElement
  <2>4. \A n \in Nat : c * n = c + c * (n - 1)
    OBVIOUS
  <2> QED
    BY <2>1, <2>2, <2>3, <2>4
<1>3. Cardinality({}) = 0 /\ c * 0 = 0
  BY FS_EmptySet
<1> HIDE DEF Pick
<1>4. Rec(h)
  <2>1. \A s \in SUBSET S : s # {} =>
          h[s] = payment[Pick(s)].amount + h[s \ {Pick(s)}]
    BY <1>2
  <2>2. h[{}] = 0
    BY <1>3
  <2> HIDE DEF h
  <2>3. h = [s \in SUBSET S |-> h[s]]
    BY DEF h
  <2> QED
    BY <2>1, <2>2, <2>3
<1>5. Rec(sum)
  BY <1>4
<1> HIDE DEF sum, h
<1> DEFINE Wrong == {n \in Nat : \E s \in SUBSET S : Cardinality(s) = n /\ sum[s] # c * n}
<1>6. Wrong = {}
  <2> SUFFICES ASSUME Wrong # {}
               PROVE  FALSE
    OBVIOUS
  <2>1. PICK n \in Wrong : \A m \in Wrong : n <= m
    BY LeastOf
  <2>2. PICK s \in SUBSET S : Cardinality(s) = n /\ sum[s] # c * n
    OBVIOUS
  <2>3. s # {}
    BY <1>3, <1>5, <2>2
  <2>4. sum[s] = c + sum[s \ {Pick(s)}]
    BY <1>2, <1>5, <2>3
  <2>5. sum[s \ {Pick(s)}] = c * (n - 1)
    BY <1>2, <2>1, <2>2, <2>3
  <2> QED
    BY <1>2, <2>2, <2>3, <2>4, <2>5
<1>7. Cardinality(S) \in Nat
  BY FS_CardinalityType
<1> QED
  BY <1>1, <1>6, <1>7

LEMMA FiniteIds ==
  ASSUME NEW S, S \subseteq Ids
  PROVE  IsFiniteSet(S) /\ Cardinality(S) \in Nat
<1>1. MaxPayments \in Int /\ 1 \in Int
  BY AmountsAssumption
<1>2. IsFiniteSet(1 .. MaxPayments)
  BY <1>1, FS_Interval
<1>3. IsFiniteSet(S)
  BY <1>2, FS_Subset DEF Ids
<1> QED
  BY <1>3, FS_CardinalityType

\* The k latest of S are k, or all there are.
LEMMA LatestCount ==
  ASSUME NEW S, S \subseteq Ids, NEW k \in Nat
  PROVE  /\ Latest(S, k) \subseteq S
         /\ Cardinality(Latest(S, k)) <= k
         /\ Cardinality(Latest(S, k)) < k => Latest(S, k) = S
<1> DEFINE K == Latest(S, k)
           Side(i) == {j \in S : j > i}
<1>0. /\ K \subseteq S /\ IsFiniteSet(K) /\ Cardinality(K) \in Nat
      /\ S \subseteq Nat /\ S \subseteq Ids /\ K \subseteq Nat
  <2>1. K \subseteq S /\ S \subseteq Ids
    BY DEF Latest
  <2>2. K \subseteq Ids
    BY <2>1
  <2> HIDE DEF K
  <2>3. IsFiniteSet(K) /\ Cardinality(K) \in Nat
    BY <2>2, FiniteIds
  <2>4. Ids \subseteq Nat
    BY DEF Ids
  <2> QED
    BY <2>1, <2>3, <2>4
<1>1. ASSUME NEW i \in S
      PROVE  /\ IsFiniteSet(Side(i)) /\ Cardinality(Side(i)) \in Nat
             /\ i \in K <=> Cardinality(Side(i)) < k
             /\ \A j : j \in Side(i) <=> j \in S /\ j > i
  <2>1. Side(i) \subseteq Ids
    BY <1>0
  <2>2. i \in K <=> Cardinality(Side(i)) < k
    BY DEF Latest
  <2>3. IsFiniteSet(Side(i)) /\ Cardinality(Side(i)) \in Nat
    BY <2>1, FiniteIds
  <2>4. \A j : j \in Side(i) <=> j \in S /\ j > i
    OBVIOUS
  <2> QED
    BY <2>2, <2>3, <2>4
<1> HIDE DEF K, Side
<1>2. Cardinality(K) <= k
  <2>1. CASE K = {}
    BY <2>1, FS_EmptySet
  <2>2. CASE K # {}
    <3>1. PICK i \in K : \A j \in K : i <= j
      BY <1>0, <2>2, LeastOf
    <3>2. i \in S /\ i \in Nat
      BY <1>0
    <3>3. ASSUME NEW j \in K
          PROVE  j \in Side(i) \union {i}
      <4>1. j \in S /\ j \in Nat /\ i <= j
        BY <1>0, <3>1
      <4> QED
        BY <1>1, <3>2, <4>1
    <3>4. /\ IsFiniteSet(Side(i) \union {i})
          /\ Cardinality(Side(i) \union {i}) <= Cardinality(Side(i)) + 1
          /\ Cardinality(Side(i) \union {i}) \in Nat
      <4>1. IsFiniteSet(Side(i)) /\ Cardinality(Side(i)) \in Nat
        BY <1>1, <3>2
      <4>2. /\ IsFiniteSet(Side(i) \union {i})
            /\ Cardinality(Side(i) \union {i}) =
                 IF i \in Side(i) THEN Cardinality(Side(i)) ELSE Cardinality(Side(i)) + 1
        BY <4>1, FS_AddElement
      <4> QED
        BY <4>1, <4>2
    <3>5. Cardinality(K) <= Cardinality(Side(i) \union {i})
      BY <3>3, <3>4, FS_Subset
    <3>6. Cardinality(Side(i)) < k /\ Cardinality(Side(i)) \in Nat
      BY <1>1, <3>2
    <3> QED
      BY <1>0, <3>4, <3>5, <3>6
  <2> QED
    BY <2>1, <2>2
<1>3. ASSUME K # S
      PROVE  Cardinality(K) >= k
  <2>1. PICK i \in S \ K : \A j \in S \ K : j <= i
    <3>1. S \ K # {} /\ S \ K \subseteq Ids /\ S \ K \subseteq Nat
      BY <1>0, <1>3
    <3> QED
      BY <3>1, GreatestOf
  <2>2. ASSUME NEW j \in Side(i)
        PROVE  j \in K
    <3>1. j \in S /\ j > i /\ j \in Nat /\ i \in Nat
      BY <1>0, <1>1, <2>1
    <3>2. ~(j <= i)
      BY <3>1
    <3> QED
      BY <2>1, <3>1, <3>2
  <2>3. Cardinality(Side(i)) <= Cardinality(K)
    BY <1>0, <2>2, FS_Subset
  <2>4. ~(Cardinality(Side(i)) < k) /\ Cardinality(Side(i)) \in Nat
    BY <1>1
  <2> QED
    BY <1>0, <2>3, <2>4
<1> QED
  BY <1>0, <1>2, <1>3 DEF K

\* The first k ids not used, if there are so many, are k.
LEMMA FreshCount ==
  ASSUME NEW k \in Nat
  PROVE  /\ Fresh(k) \subseteq Unused
         /\ Cardinality(Fresh(k)) <= k
         /\ Cardinality(Unused) >= k => Cardinality(Fresh(k)) = k
<1> DEFINE K == Fresh(k)
           Side(i) == {j \in Unused : j < i}
<1>0. /\ K \subseteq Unused /\ IsFiniteSet(K) /\ Cardinality(K) \in Nat
      /\ Unused \subseteq Nat /\ Unused \subseteq Ids /\ K \subseteq Nat
  <2>1. K \subseteq Unused /\ Unused \subseteq Ids
    BY DEF Fresh, Unused
  <2>2. K \subseteq Ids
    BY <2>1
  <2> HIDE DEF K
  <2>3. IsFiniteSet(K) /\ Cardinality(K) \in Nat
    BY <2>2, FiniteIds
  <2>4. Ids \subseteq Nat
    BY DEF Ids
  <2> QED
    BY <2>1, <2>3, <2>4
<1>1. ASSUME NEW i \in Unused
      PROVE  /\ IsFiniteSet(Side(i)) /\ Cardinality(Side(i)) \in Nat
             /\ i \in K <=> Cardinality(Side(i)) < k
             /\ \A j : j \in Side(i) <=> j \in Unused /\ j < i
  <2>1. Side(i) \subseteq Ids
    BY <1>0
  <2>2. i \in K <=> Cardinality(Side(i)) < k
    BY DEF Fresh
  <2>3. IsFiniteSet(Side(i)) /\ Cardinality(Side(i)) \in Nat
    BY <2>1, FiniteIds
  <2>4. \A j : j \in Side(i) <=> j \in Unused /\ j < i
    OBVIOUS
  <2> QED
    BY <2>2, <2>3, <2>4
<1> HIDE DEF K, Side
<1>2. Cardinality(K) <= k
  <2>1. CASE K = {}
    BY <2>1, FS_EmptySet
  <2>2. CASE K # {}
    <3>1. PICK i \in K : \A j \in K : j <= i
      BY <1>0, <2>2, GreatestOf
    <3>2. i \in Unused /\ i \in Nat
      BY <1>0
    <3>3. ASSUME NEW j \in K
          PROVE  j \in Side(i) \union {i}
      <4>1. j \in Unused /\ j \in Nat /\ j <= i
        BY <1>0, <3>1
      <4> QED
        BY <1>1, <3>2, <4>1
    <3>4. /\ IsFiniteSet(Side(i) \union {i})
          /\ Cardinality(Side(i) \union {i}) <= Cardinality(Side(i)) + 1
          /\ Cardinality(Side(i) \union {i}) \in Nat
      <4>1. IsFiniteSet(Side(i)) /\ Cardinality(Side(i)) \in Nat
        BY <1>1, <3>2
      <4>2. /\ IsFiniteSet(Side(i) \union {i})
            /\ Cardinality(Side(i) \union {i}) =
                 IF i \in Side(i) THEN Cardinality(Side(i)) ELSE Cardinality(Side(i)) + 1
        BY <4>1, FS_AddElement
      <4> QED
        BY <4>1, <4>2
    <3>5. Cardinality(K) <= Cardinality(Side(i) \union {i})
      BY <3>3, <3>4, FS_Subset
    <3>6. Cardinality(Side(i)) < k /\ Cardinality(Side(i)) \in Nat
      BY <1>1, <3>2
    <3> QED
      BY <1>0, <3>4, <3>5, <3>6
  <2> QED
    BY <2>1, <2>2
<1>3. ASSUME K # Unused
      PROVE  Cardinality(K) >= k
  <2>1. PICK i \in Unused \ K : \A j \in Unused \ K : i <= j
    <3>1. Unused \ K # {} /\ Unused \ K \subseteq Ids /\ Unused \ K \subseteq Nat
      BY <1>0, <1>3
    <3> QED
      BY <3>1, LeastOf
  <2>2. ASSUME NEW j \in Side(i)
        PROVE  j \in K
    <3>1. j \in Unused /\ j < i /\ j \in Nat /\ i \in Nat
      BY <1>0, <1>1, <2>1
    <3>2. ~(i <= j)
      BY <3>1
    <3> QED
      BY <2>1, <3>1, <3>2
  <2>3. Cardinality(Side(i)) <= Cardinality(K)
    BY <1>0, <2>2, FS_Subset
  <2>4. ~(Cardinality(Side(i)) < k) /\ Cardinality(Side(i)) \in Nat
    BY <1>1
  <2> QED
    BY <1>0, <2>3, <2>4
<1> QED
  BY <1>0, <1>2, <1>3 DEF K

-----------------------------------------------------------------------------
(* The inductive invariant.                                                *)

Statuses == {"none", "pending", "succeeded", "cancelled", "refunded"}
Held == {"pending_payment", "confirmed", "attended"}

SeatOf(i, v) == payment[i].of = "seat" /\ payment[i].user = v /\ payment[i].status # "none"

\* The seats of one player: as many live payments as seats, none unpaid if the
\* booking is confirmed, nothing to pay that is not of its present incarnation.
SeatsOK(v) ==
  /\ booking[v].status \in {"pending_payment", "confirmed"} =>
       /\ Cardinality(Live(v)) = booking[v].seats
       /\ (booking[v].status = "confirmed") <=> (With(Live(v), "pending") = {})
  /\ \A i \in Ids : SeatOf(i, v) =>
       /\ payment[i].amount = Price /\ payment[i].inc <= booking[v].inc
       /\ payment[i].status = "pending" => i \in Live(v) /\ booking[v].status \in Held

SeatsHaveUsers ==
  \A i \in Ids : (payment[i].of = "seat" /\ payment[i].status # "none") => payment[i].user \in Users

\* What waits for a decision and is no seat.
MoneyOK ==
  /\ \A i \in Ids : (payment[i].status = "pending" /\ payment[i].of # "seat") =>
       /\ payment[i].of \in Collections => collection[payment[i].of] \in {"active", "completed"}
       /\ \A j \in Ids :
            (/\ payment[j].status = "pending" /\ payment[j].of = payment[i].of
             /\ payment[j].user = payment[i].user) => i = j
  /\ \A i \in Ids : (subscription[i] = "pending") <=>
       (payment[i].of = "subscription" /\ payment[i].status = "pending")

\* The row on the screen is one that there is, a pledge with its amount.
ScreenOK ==
  screen.id # 0 =>
    /\ payment[screen.id].status # "none"
    /\ payment[screen.id].of \in Collections => screen.amount = payment[screen.id].amount

IInv ==
  /\ TypeOK /\ LedgerMatchesPayments
  /\ \A v \in Users : SeatsOK(v)
  /\ SeatsHaveUsers /\ MoneyOK /\ ScreenOK

\* No step changes what a row is for, whose it is or how much it is.
Kept ==
  \A i \in Ids : payment[i].status # "none" =>
    /\ payment'[i].status # "none"
    /\ payment'[i].of = payment[i].of /\ payment'[i].user = payment[i].user
    /\ payment'[i].amount = payment[i].amount /\ payment'[i].inc = payment[i].inc

\* A step that is not about the seats of v.
Apart(v) ==
  /\ booking'[v] = booking[v]
  /\ \A i \in Ids : SeatOf(i, v) \/ SeatOf(i, v)' => payment'[i] = payment[i]

\* A step that is about seats alone.
SeatsOnly ==
  /\ \A i \in Ids :
       \/ payment'[i] = payment[i]
       \/ payment'[i].of = "seat" /\ (payment[i].of = "seat" \/ payment[i].status = "none")
  /\ UNCHANGED <<subscription, collection>>

-----------------------------------------------------------------------------
(* Rows.                                                                   *)

LEMMA Now ==
  ASSUME IInv
  PROVE  /\ payment \in [Ids -> Payment] /\ booking \in [Users -> Booking]
         /\ ledger \subseteq Entry /\ event \in {"open", "started", "cancelled"}
         /\ subscription \in [Ids -> {"none", "pending", "active", "cancelled"}]
         /\ collection \in [Collections -> {"none", "draft", "active", "completed", "cancelled"}]
         /\ screen \in Screen
         /\ LedgerMatchesPayments /\ SeatsHaveUsers /\ MoneyOK /\ ScreenOK
         /\ \A v \in Users : SeatsOK(v)
BY DEF IInv, TypeOK

LEMMA Fields ==
  ASSUME NEW p \in Payment, NEW s \in Statuses
  PROVE  LET q == [p EXCEPT !.status = s]
             r == [p EXCEPT !.released = TRUE]
         IN  /\ q \in Payment /\ q.status = s /\ q.released = p.released
             /\ q.of = p.of /\ q.user = p.user /\ q.amount = p.amount /\ q.inc = p.inc
             /\ r \in Payment /\ r.status = p.status /\ r.released
             /\ r.of = p.of /\ r.user = p.user /\ r.amount = p.amount /\ r.inc = p.inc
BY DEF Payment, Statuses

LEMMA Moved ==
  ASSUME payment \in [Ids -> Payment], NEW S, NEW s \in Statuses
  PROVE  /\ Move(S, s) \in [Ids -> Payment]
         /\ \A i \in Ids \ S : Move(S, s)[i] = payment[i]
         /\ \A i \in Ids : /\ Move(S, s)[i].of = payment[i].of
                           /\ Move(S, s)[i].user = payment[i].user
                           /\ Move(S, s)[i].amount = payment[i].amount
                           /\ Move(S, s)[i].inc = payment[i].inc
                           /\ Move(S, s)[i].released = payment[i].released
                           /\ i \in S => Move(S, s)[i].status = s
<1> DEFINE m == Move(S, s)
           q(i) == [payment[i] EXCEPT !.status = s]
<1>1. m = [i \in Ids |-> IF i \in S THEN q(i) ELSE payment[i]]
  BY DEF Move
<1>2. \A i \in Ids : /\ q(i) \in Payment /\ q(i).status = s /\ q(i).released = payment[i].released
                     /\ q(i).of = payment[i].of /\ q(i).user = payment[i].user
                     /\ q(i).amount = payment[i].amount /\ q(i).inc = payment[i].inc
  <2> HIDE DEF m
  <2> TAKE i \in Ids
  <2>1. payment[i] \in Payment
    OBVIOUS
  <2> QED
    BY <2>1, Fields
<1> HIDE DEF m, q
<1> QED
  BY <1>1, <1>2 DEF m

LEMMA ReleasedRows ==
  ASSUME payment \in [Ids -> Payment], NEW P, NEW Q, P \intersect Q = {}
  PROVE  LET m == Released(P, Q)
         IN  /\ m \in [Ids -> Payment]
             /\ \A i \in Ids \ (P \union Q) : m[i] = payment[i]
             /\ \A i \in Ids : /\ m[i].of = payment[i].of /\ m[i].user = payment[i].user
                               /\ m[i].amount = payment[i].amount /\ m[i].inc = payment[i].inc
                               /\ i \in P => m[i].status = "cancelled"
                               /\ i \notin P => m[i].status = payment[i].status
                               /\ i \in Q => m[i].released
                               /\ i \notin Q => m[i].released = payment[i].released
<1> DEFINE m == Released(P, Q)
           q(i) == [payment[i] EXCEPT !.status = "cancelled"]
           r(i) == [payment[i] EXCEPT !.released = TRUE]
<1>1. m = [i \in Ids |-> IF i \in P THEN q(i) ELSE IF i \in Q THEN r(i) ELSE payment[i]]
  BY DEF Released
<1>2. \A i \in Ids : /\ q(i) \in Payment /\ q(i).status = "cancelled" /\ q(i).released = payment[i].released
                     /\ q(i).of = payment[i].of /\ q(i).user = payment[i].user
                     /\ q(i).amount = payment[i].amount /\ q(i).inc = payment[i].inc
                     /\ r(i) \in Payment /\ r(i).status = payment[i].status /\ r(i).released
                     /\ r(i).of = payment[i].of /\ r(i).user = payment[i].user
                     /\ r(i).amount = payment[i].amount /\ r(i).inc = payment[i].inc
  <2>1. "cancelled" \in Statuses
    BY DEF Statuses
  <2> QED
    BY <2>1, Fields
<1> HIDE DEF q, r
<1>3. m \in [Ids -> Payment] /\ \A i \in Ids \ (P \union Q) : m[i] = payment[i]
  BY <1>1, <1>2
<1>4. \A i \in Ids : /\ i \in P => m[i] = q(i)
                     /\ i \in Q => m[i] = r(i)
                     /\ i \notin P \union Q => m[i] = payment[i]
  BY <1>1
<1> HIDE DEF m
<1> QED
  BY <1>2, <1>3, <1>4 DEF m

LEMMA Inserted ==
  ASSUME payment \in [Ids -> Payment], NEW S, NEW p \in Payment
  PROVE  /\ Insert(S, p) \in [Ids -> Payment]
         /\ \A i \in Ids : Insert(S, p)[i] = IF i \in S THEN p ELSE payment[i]
BY DEF Insert

LEMMA LiveIs ==
  ASSUME NEW v, NEW i
  PROVE  i \in Live(v) <=> /\ i \in Ids /\ payment[i].of = "seat" /\ payment[i].user = v
                           /\ payment[i].inc = booking[v].inc /\ ~payment[i].released
                           /\ payment[i].status \in {"pending", "succeeded"}
BY DEF Live

LEMMA WithIs ==
  ASSUME NEW S, NEW i, NEW s
  PROVE  i \in With(S, s) <=> i \in S /\ payment[i].status = s
BY DEF With

-----------------------------------------------------------------------------
(* What one step has to show.                                              *)

LEMMA ApartKeeps ==
  ASSUME NEW v, SeatsOK(v), Apart(v)
  PROVE  SeatsOK(v)'
<1>1. \A i \in Ids : SeatOf(i, v) <=> SeatOf(i, v)'
  BY DEF Apart, SeatOf
<1>2. \A i : i \in Live(v)' <=> i \in Live(v)
  BY LiveIs, <1>1 DEF Apart, SeatOf, Live
<1>3. Live(v)' = Live(v)
  BY <1>2
<1>4. \A i \in Live(v) : payment'[i] = payment[i]
  BY DEF Apart, SeatOf, Live
<1>5. With(Live(v), "pending")' = With(Live(v), "pending")
  BY <1>3, <1>4 DEF With
<1>6. booking'[v] = booking[v] /\ \A i \in Ids : SeatOf(i, v)' => payment'[i] = payment[i]
  BY DEF Apart
<1> QED
  BY <1>1, <1>3, <1>5, <1>6 DEF SeatsOK

LEMMA KeptUsers ==
  ASSUME SeatsHaveUsers, Kept,
         \A i \in Ids : (payment[i].status = "none" /\ payment'[i].status # "none"
                           /\ payment'[i].of = "seat") => payment'[i].user \in Users
  PROVE  SeatsHaveUsers'
BY DEF SeatsHaveUsers, Kept

LEMMA KeptScreen ==
  ASSUME ScreenOK, screen \in Screen, Kept, UNCHANGED screen
  PROVE  ScreenOK'
<1>1. screen.id # 0 => screen.id \in Ids
  BY DEF Screen
<1> QED
  BY <1>1 DEF ScreenOK, Kept

LEMMA SeatsOnlyKeep ==
  ASSUME MoneyOK, SeatsOnly, Kept
  PROVE  MoneyOK'
<1>1. \A i \in Ids : (payment[i].of # "seat" /\ payment[i].status # "none") => payment'[i] = payment[i]
  BY DEF SeatsOnly, SeatOf
<1>2. \A i \in Ids : payment'[i].of # "seat" => payment'[i] = payment[i]
  BY DEF SeatsOnly
<1>3. subscription' = subscription /\ collection' = collection
  BY DEF SeatsOnly
<1> QED
  BY <1>1, <1>2, <1>3 DEF MoneyOK

\* The entries of rows that keep their amounts, and of those confirmed or
\* given back now.
LEMMA LedgerStep ==
  ASSUME IInv, payment' \in [Ids -> Payment], Kept, NEW S \in SUBSET Ids, NEW R \in SUBSET Ids,
         \A i \in S \union R : payment[i].status # "none",
         \A i \in Ids : (payment'[i].status \in {"succeeded", "refunded"}) <=>
                          (payment[i].status \in {"succeeded", "refunded"} \/ i \in S),
         \A i \in Ids : (payment'[i].status = "refunded") <=>
                          (payment[i].status = "refunded" \/ i \in R),
         ledger' = ledger \union Entries(S, "income") \union Entries(R, "refund")
  PROVE  LedgerMatchesPayments' /\ ledger' \subseteq Entry
<1> DEFINE Paid == {i \in Ids : payment[i].status \in {"succeeded", "refunded"}}
           Back == {i \in Ids : payment[i].status = "refunded"}
           New(T, type) == {[type |-> type, id |-> i, amount |-> payment'[i].amount] : i \in T}
<1>1. {i \in Ids : payment'[i].status \in {"succeeded", "refunded"}} = Paid \union S
  OBVIOUS
<1>2. {i \in Ids : payment'[i].status = "refunded"} = Back \union R
  OBVIOUS
<1>3. ASSUME NEW T \in SUBSET Ids, NEW type, \A i \in T : payment[i].status # "none"
      PROVE  New(T, type) = Entries(T, type)
  <2>1. \A i \in T : payment'[i].amount = payment[i].amount
    BY <1>3 DEF Kept
  <2> QED
    BY <2>1 DEF Entries
<1>4. New(Paid, "income") = Entries(Paid, "income") /\ New(Back, "refund") = Entries(Back, "refund")
      /\ New(S, "income") = Entries(S, "income") /\ New(R, "refund") = Entries(R, "refund")
  <2>1. /\ \A i \in Paid \union Back : payment[i].status # "none"
        /\ Paid \in SUBSET Ids /\ Back \in SUBSET Ids
    OBVIOUS
  <2> HIDE DEF Paid, Back, New
  <2> QED
    BY <1>3, <2>1
<1>5. ledger = Entries(Paid, "income") \union Entries(Back, "refund")
  BY Now DEF LedgerMatchesPayments
<1>6. ledger' = New(Paid \union S, "income") \union New(Back \union R, "refund")
  <2>1. /\ New(Paid \union S, "income") = New(Paid, "income") \union New(S, "income")
        /\ New(Back \union R, "refund") = New(Back, "refund") \union New(R, "refund")
    OBVIOUS
  <2> HIDE DEF Paid, Back, New
  <2> QED
    BY <1>4, <1>5, <2>1
<1>7. LedgerMatchesPayments'
  BY <1>1, <1>2, <1>6 DEF LedgerMatchesPayments, Entries
<1>8. ledger' \subseteq Entry
  <2>1. \A i \in Ids : payment'[i].amount \in Nat
    BY DEF Payment
  <2>2. \A T \in SUBSET Ids : New(T, "income") \subseteq Entry /\ New(T, "refund") \subseteq Entry
    BY <2>1 DEF Entry
  <2>3. Paid \union S \in SUBSET Ids /\ Back \union R \in SUBSET Ids
    OBVIOUS
  <2> HIDE DEF Paid, Back, New
  <2> QED
    BY <1>6, <2>2, <2>3
<1> QED
  BY <1>7, <1>8

\* A step that neither confirms nor gives back.
LEMMA LedgerStays ==
  ASSUME IInv, payment' \in [Ids -> Payment], Kept, UNCHANGED ledger,
         \A i \in Ids : \/ payment'[i].status = payment[i].status
                        \/ /\ payment[i].status \in {"none", "pending"}
                           /\ payment'[i].status \in {"pending", "cancelled"}
  PROVE  LedgerMatchesPayments' /\ ledger' \subseteq Entry
<1>1. /\ \A i \in Ids : (payment'[i].status \in {"succeeded", "refunded"}) <=>
                          (payment[i].status \in {"succeeded", "refunded"})
      /\ \A i \in Ids : (payment'[i].status = "refunded") <=> (payment[i].status = "refunded")
  OBVIOUS
<1>2. ledger' = ledger \union Entries({}, "income") \union Entries({}, "refund")
  BY DEF Entries
<1> QED
  BY <1>1, <1>2, LedgerStep

\* All of the invariant from its parts.
LEMMA Step ==
  ASSUME IInv, Kept, UNCHANGED screen,
         payment' \in [Ids -> Payment], booking' \in [Users -> Booking],
         event' \in {"open", "started", "cancelled"},
         subscription' \in [Ids -> {"none", "pending", "active", "cancelled"}],
         collection' \in [Collections -> {"none", "draft", "active", "completed", "cancelled"}],
         LedgerMatchesPayments', ledger' \subseteq Entry,
         \A i \in Ids : (payment[i].status = "none" /\ payment'[i].status # "none"
                           /\ payment'[i].of = "seat") => payment'[i].user \in Users,
         \A v \in Users : SeatsOK(v)', MoneyOK'
  PROVE  IInv'
<1>1. ScreenOK' /\ SeatsHaveUsers' /\ screen' \in Screen
  BY Now, KeptScreen, KeptUsers
<1> QED
  BY <1>1 DEF IInv, TypeOK

-----------------------------------------------------------------------------
(* Purchases and pledges.                                                  *)

LEMMA FreshOne ==
         /\ Fresh(1) \subseteq Unused /\ Fresh(1) \subseteq Ids
         /\ \A i \in Fresh(1) : payment[i].status = "none"
         /\ \A i, j \in Fresh(1) : i = j
<1>1. /\ Fresh(1) \subseteq Unused /\ Cardinality(Fresh(1)) <= 1
      /\ Fresh(1) \subseteq Ids
      /\ \A i \in Fresh(1) : payment[i].status = "none"
  BY FreshCount DEF Unused
<1>2. IsFiniteSet(Fresh(1)) /\ Cardinality(Fresh(1)) \in Nat
  BY <1>1, FiniteIds
<1>3. ASSUME NEW i \in Fresh(1), NEW j \in Fresh(1)
      PROVE  i = j
  <2>1. Cardinality(Fresh(1)) # 0
    BY <1>2, FS_EmptySet
  <2>2. Cardinality(Fresh(1)) = 1
    BY <1>1, <1>2, <2>1
  <2> QED
    BY <1>2, <2>2, FS_Singleton
<1> QED
  BY <1>1, <1>3

LEMMA PurchaseKeeps ==
  ASSUME IInv, NEW u \in Users, Purchase(u)
  PROVE  IInv'
<1> DEFINE p == [NoPayment EXCEPT !.of = "subscription", !.user = u, !.amount = Price, !.status = "pending"]
           F == Fresh(1)
<1>1. /\ p \in Payment /\ p.of = "subscription" /\ p.user = u /\ p.status = "pending"
  BY AmountsAssumption DEF NoPayment, Payment, Targets
<1>2. /\ payment' = Insert(F, p)
      /\ \A i \in Ids : payment[i].user = u => subscription[i] # "pending"
      /\ subscription' = [i \in Ids |-> IF i \in F THEN "pending" ELSE subscription[i]]
      /\ UNCHANGED <<ledger, booking, event, collection, screen>>
  BY DEF Purchase
<1> HIDE DEF p
<1>3. /\ F \subseteq Ids /\ \A i \in F : payment[i].status = "none"
      /\ \A i, j \in F : i = j
  BY FreshOne
<1> HIDE DEF F
<1>4. /\ payment' \in [Ids -> Payment]
      /\ \A i \in Ids : payment'[i] = IF i \in F THEN p ELSE payment[i]
  BY <1>1, <1>2, Inserted, Now
<1>5. subscription' \in [Ids -> {"none", "pending", "active", "cancelled"}]
  BY <1>2, Now
<1>6. Kept
  BY <1>3, <1>4 DEF Kept
<1>7. LedgerMatchesPayments' /\ ledger' \subseteq Entry
  BY <1>1, <1>2, <1>3, <1>4, <1>6, LedgerStays
<1>8. \A v \in Users : SeatsOK(v)'
  <2>1. \A v \in Users : Apart(v)
    BY <1>1, <1>2, <1>3, <1>4 DEF Apart, SeatOf
  <2> QED
    BY <2>1, Now, ApartKeeps
<1>9. MoneyOK'
  <2>0. MoneyOK /\ {"seat", "subscription"} \intersect Collections = {}
    BY Now, TargetsAssumption
  <2>1. ASSUME NEW i \in Ids, payment'[i].status = "pending", payment'[i].of # "seat"
        PROVE  /\ payment'[i].of \in Collections => collection'[payment'[i].of] \in {"active", "completed"}
               /\ \A j \in Ids :
                    (/\ payment'[j].status = "pending" /\ payment'[j].of = payment'[i].of
                     /\ payment'[j].user = payment'[i].user) => i = j
    <3>1. \A j \in Ids \ F : (payment[j].status = "pending" /\ payment[j].of = "subscription")
                               => payment[j].user # u
      BY <1>2, <2>0 DEF MoneyOK
    <3>2. CASE i \in F
      BY <1>1, <1>3, <1>4, <2>0, <3>1, <3>2
    <3>3. CASE i \notin F
      BY <1>1, <1>2, <1>4, <2>0, <2>1, <3>1, <3>3 DEF MoneyOK
    <3> QED
      BY <3>2, <3>3
  <2>2. \A i \in Ids : (subscription'[i] = "pending") <=>
          (payment'[i].of = "subscription" /\ payment'[i].status = "pending")
    BY <1>1, <1>2, <1>4, <2>0 DEF MoneyOK
  <2> QED
    BY <2>1, <2>2 DEF MoneyOK
<1> QED
  BY <1>1, <1>2, <1>4, <1>5, <1>6, <1>7, <1>8, <1>9, Now, Step

LEMMA ContributeKeeps ==
  ASSUME IInv, NEW u \in Users, NEW c \in Collections, NEW a \in Pledges, Contribute(u, c, a)
  PROVE  IInv'
<1> DEFINE p == [NoPayment EXCEPT !.of = c, !.user = u, !.amount = a, !.status = "pending"]
           F == Fresh(1)
           mine == {i \in Pending(c) : payment[i].user = u}
           m == Move(mine, "cancelled")
<1>0. c \notin {"seat", "subscription"}
  BY TargetsAssumption
<1>1. p \in Payment /\ p.of = c /\ p.user = u /\ p.status = "pending"
  BY AmountsAssumption DEF NoPayment, Payment, Targets
<1>2. /\ payment' = [i \in Ids |-> IF i \in F THEN p ELSE m[i]]
      /\ collection[c] = "active"
      /\ UNCHANGED <<ledger, booking, event, subscription, collection, screen>>
  BY DEF Contribute
<1>a. \A i : i \in mine <=> i \in Ids /\ payment[i].of = c /\ payment[i].status = "pending"
                              /\ payment[i].user = u
  BY DEF Pending
<1> HIDE DEF p, mine
<1>3. F \subseteq Ids /\ (\A i \in F : payment[i].status = "none") /\ \A i, j \in F : i = j
  BY FreshOne
<1> HIDE DEF F
<1>b. /\ m \in [Ids -> Payment]
      /\ \A i \in Ids \ mine : m[i] = payment[i]
      /\ \A i \in Ids : /\ m[i].of = payment[i].of /\ m[i].user = payment[i].user
                        /\ m[i].amount = payment[i].amount /\ m[i].inc = payment[i].inc
                        /\ i \in mine => m[i].status = "cancelled"
  BY Moved, Now DEF Statuses
<1> HIDE DEF m
<1>4. /\ payment' \in [Ids -> Payment]
      /\ \A i \in Ids : payment'[i] = IF i \in F THEN p ELSE m[i]
  BY <1>1, <1>2, <1>b
<1>6. Kept
  BY <1>3, <1>4, <1>b DEF Kept
<1>7. LedgerMatchesPayments' /\ ledger' \subseteq Entry
  BY <1>1, <1>2, <1>3, <1>4, <1>6, <1>a, <1>b, LedgerStays
<1>8. \A v \in Users : SeatsOK(v)'
  <2>1. \A v \in Users : Apart(v)
    BY <1>0, <1>1, <1>2, <1>3, <1>4, <1>a, <1>b DEF Apart, SeatOf
  <2> QED
    BY <2>1, Now, ApartKeeps
<1>9. MoneyOK'
  <2>0. MoneyOK
    BY Now
  <2>1. ASSUME NEW i \in Ids, payment'[i].status = "pending", payment'[i].of # "seat"
        PROVE  /\ payment'[i].of \in Collections => collection'[payment'[i].of] \in {"active", "completed"}
               /\ \A j \in Ids :
                    (/\ payment'[j].status = "pending" /\ payment'[j].of = payment'[i].of
                     /\ payment'[j].user = payment'[i].user) => i = j
    <3>1. \A j \in Ids \ F : payment'[j].status = "pending" =>
            payment'[j] = payment[j] /\ (payment[j].of # c \/ payment[j].user # u)
      BY <1>4, <1>a, <1>b
    <3>2. CASE i \in F
      BY <1>1, <1>2, <1>3, <1>4, <3>1, <3>2
    <3>3. CASE i \notin F
      <4>1. payment'[i] = payment[i] /\ (payment[i].of # c \/ payment[i].user # u)
        BY <2>1, <3>1, <3>3
      <4>2. \A j \in F : payment'[j].of = c /\ payment'[j].user = u
        BY <1>1, <1>3, <1>4
      <4> QED
        BY <1>2, <2>0, <2>1, <3>1, <3>3, <4>1, <4>2 DEF MoneyOK
    <3> QED
      BY <3>2, <3>3
  <2>2. \A i \in Ids : (subscription'[i] = "pending") <=>
          (payment'[i].of = "subscription" /\ payment'[i].status = "pending")
    <3>1. \A i \in Ids : (payment'[i].of = "subscription" /\ payment'[i].status = "pending") <=>
            (payment[i].of = "subscription" /\ payment[i].status = "pending")
      BY <1>0, <1>1, <1>3, <1>4, <1>a, <1>b
    <3> QED
      BY <1>2, <2>0, <3>1 DEF MoneyOK
  <2> QED
    BY <2>1, <2>2 DEF MoneyOK
<1>10. \A i \in Ids : (payment[i].status = "none" /\ payment'[i].status # "none")
                        => payment'[i].of # "seat"
  BY <1>0, <1>1, <1>3, <1>4, <1>a, <1>b
<1>11. payment' \in [Ids -> Payment]
  BY <1>4
<1> QED
  BY <1>2, <1>6, <1>7, <1>8, <1>9, <1>10, <1>11, Now, Step

LEMMA SetCollectionKeeps ==
  ASSUME IInv, NEW c \in Collections, NEW from, NEW to, SetCollection(c, from, to)
  PROVE  IInv'
<1>1. /\ <<from, to>> \in {<<"none", "draft">>, <<"none", "active">>, <<"draft", "active">>,
                           <<"active", "completed">>}
      /\ collection[c] = from /\ collection' = [collection EXCEPT ![c] = to]
      /\ UNCHANGED <<payment, ledger, booking, event, subscription, screen>>
  BY DEF SetCollection
<1>2. Kept /\ payment' \in [Ids -> Payment] /\ booking' \in [Users -> Booking]
  BY <1>1, Now DEF Kept
<1>3. collection' \in [Collections -> {"none", "draft", "active", "completed", "cancelled"}]
  BY <1>1, Now
<1>4. LedgerMatchesPayments' /\ ledger' \subseteq Entry
  BY <1>1, <1>2, LedgerStays
<1>5. \A v \in Users : SeatsOK(v)'
  BY <1>1, Now, ApartKeeps DEF Apart
<1>6. \A d \in Collections : collection[d] \in {"active", "completed"} =>
        collection'[d] \in {"active", "completed"}
  BY <1>1, Now
<1>7. MoneyOK'
  BY <1>1, <1>6, Now DEF MoneyOK
<1> QED
  BY <1>1, <1>2, <1>3, <1>4, <1>5, <1>7, Now, Step

LEMMA CancelCollectionKeeps ==
  ASSUME IInv, NEW c \in Collections, CancelCollection(c)
  PROVE  IInv'
<1> DEFINE S == Pending(c)
           m == Move(S, "cancelled")
<1>0. c \notin {"seat", "subscription"}
  BY TargetsAssumption
<1>1. /\ payment' = m
      /\ collection' = [collection EXCEPT ![c] = "cancelled"]
      /\ UNCHANGED <<ledger, booking, event, subscription, screen>>
  BY DEF CancelCollection
<1>2. \A i : i \in S <=> i \in Ids /\ payment[i].of = c /\ payment[i].status = "pending"
  BY DEF Pending
<1> HIDE DEF S
<1>3. /\ payment' \in [Ids -> Payment]
      /\ \A i \in Ids \ S : payment'[i] = payment[i]
      /\ \A i \in Ids : /\ payment'[i].of = payment[i].of /\ payment'[i].user = payment[i].user
                        /\ payment'[i].amount = payment[i].amount /\ payment'[i].inc = payment[i].inc
                        /\ i \in S => payment'[i].status = "cancelled"
  BY <1>1, Moved, Now DEF Statuses
<1>4. collection' \in [Collections -> {"none", "draft", "active", "completed", "cancelled"}]
      /\ \A d \in Collections \ {c} : collection'[d] = collection[d]
  BY <1>1, Now
<1>5. Kept
  BY <1>2, <1>3 DEF Kept
<1>6. LedgerMatchesPayments' /\ ledger' \subseteq Entry
  BY <1>1, <1>2, <1>3, <1>5, LedgerStays
<1>7. \A v \in Users : SeatsOK(v)'
  <2>1. \A v \in Users : Apart(v)
    BY <1>0, <1>1, <1>2, <1>3 DEF Apart, SeatOf
  <2> QED
    BY <2>1, Now, ApartKeeps
<1>8. MoneyOK'
  <2>0. MoneyOK
    BY Now
  <2>1. \A i \in Ids : payment'[i].status = "pending" =>
          payment'[i] = payment[i] /\ payment[i].of # c
    BY <1>2, <1>3
  <2>2. \A i \in Ids : (payment'[i].of = "subscription" /\ payment'[i].status = "pending") <=>
          (payment[i].of = "subscription" /\ payment[i].status = "pending")
    BY <1>0, <1>2, <1>3
  <2> QED
    BY <1>1, <1>4, <2>0, <2>1, <2>2 DEF MoneyOK
<1>9. \A i \in Ids : payment[i].status = "none" => payment'[i] = payment[i]
  BY <1>2, <1>3
<1> QED
  BY <1>1, <1>3, <1>4, <1>5, <1>6, <1>7, <1>8, <1>9, Now, Step

-----------------------------------------------------------------------------
(* Seats.                                                                  *)

\* What a step about the seats of u has to show.
LEMMA SeatStep ==
  ASSUME IInv, NEW u \in Users, NEW b \in Booking,
         payment' \in [Ids -> Payment], booking' = [booking EXCEPT ![u] = b],
         UNCHANGED <<ledger, event, subscription, collection, screen>>,
         \A i \in Ids : payment'[i] = payment[i] \/ SeatOf(i, u) \/ payment[i].status = "none",
         \A i \in Ids : payment[i].status = "none" /\ payment'[i] # payment[i] =>
           payment'[i].of = "seat" /\ payment'[i].user = u /\ payment'[i].status = "pending",
         \A i \in Ids : SeatOf(i, u) =>
           /\ payment'[i].of = "seat" /\ payment'[i].user = u
           /\ payment'[i].amount = payment[i].amount /\ payment'[i].inc = payment[i].inc
           /\ \/ payment'[i].status = payment[i].status
              \/ payment[i].status = "pending" /\ payment'[i].status = "cancelled",
         SeatsOK(u)'
  PROVE  IInv'
<1>1. booking' \in [Users -> Booking] /\ \A v \in Users \ {u} : booking'[v] = booking[v]
  BY Now
<1>2. Kept
  BY DEF Kept, SeatOf
<1>3. LedgerMatchesPayments' /\ ledger' \subseteq Entry
  <2>1. \A i \in Ids : \/ payment'[i].status = payment[i].status
                       \/ /\ payment[i].status \in {"none", "pending"}
                          /\ payment'[i].status \in {"pending", "cancelled"}
    OBVIOUS
  <2> QED
    BY <1>2, <2>1, LedgerStays
<1>4. ASSUME NEW v \in Users
      PROVE  SeatsOK(v)'
  <2>1. ASSUME v # u
        PROVE  Apart(v)
    BY <1>1, <2>1 DEF Apart, SeatOf
  <2> QED
    BY <2>1, ApartKeeps, Now
<1>5. SeatsOnly
  BY DEF SeatsOnly, SeatOf
<1>6. MoneyOK'
  BY <1>2, <1>5, Now, SeatsOnlyKeep
<1> QED
  BY <1>1, <1>2, <1>3, <1>4, <1>6, Now, Step

\* New seats: k rows that were not used.
LEMMA FreshSeats ==
  ASSUME IInv, NEW u \in Users, NEW k \in 1 .. MaxSeats, NEW inc \in Nat,
         Cardinality(Unused) >= k, payment' = Insert(Fresh(k), Seat(u, inc))
  PROVE  /\ Fresh(k) \subseteq Ids /\ IsFiniteSet(Fresh(k)) /\ Cardinality(Fresh(k)) = k
         /\ Fresh(k) # {} /\ \A i \in Fresh(k) : payment[i].status = "none"
         /\ payment' \in [Ids -> Payment]
         /\ \A i \in Ids : i \notin Fresh(k) => payment'[i] = payment[i]
         /\ \A i \in Fresh(k) :
              /\ payment'[i].of = "seat" /\ payment'[i].user = u /\ payment'[i].amount = Price
              /\ payment'[i].status = "pending" /\ payment'[i].inc = inc /\ ~payment'[i].released
<1>1. k \in Nat /\ k >= 1
  OBVIOUS
<1>2. /\ Fresh(k) \subseteq Unused /\ Cardinality(Fresh(k)) = k
  BY <1>1, FreshCount
<1>3. Fresh(k) \subseteq Ids /\ \A i \in Fresh(k) : payment[i].status = "none"
  BY <1>2 DEF Unused
<1>4. IsFiniteSet(Fresh(k)) /\ Fresh(k) # {}
  BY <1>1, <1>2, <1>3, FiniteIds, FS_EmptySet
<1> DEFINE p == Seat(u, inc)
<1>5. /\ p \in Payment /\ p.of = "seat" /\ p.user = u /\ p.amount = Price
      /\ p.status = "pending" /\ p.inc = inc /\ ~p.released
  BY AmountsAssumption DEF Seat, NoPayment, Payment, Targets
<1> HIDE DEF p
<1>6. /\ payment' \in [Ids -> Payment]
      /\ \A i \in Ids : payment'[i] = IF i \in Fresh(k) THEN p ELSE payment[i]
  <2>1. payment' = Insert(Fresh(k), p)
    BY DEF p
  <2> QED
    BY <1>5, <2>1, Inserted, Now
<1> QED
  BY <1>2, <1>3, <1>4, <1>5, <1>6

LEMMA BookKeeps ==
  ASSUME IInv, NEW u \in Users, NEW k \in 1 .. MaxSeats, Book(u, k)
  PROVE  IInv'
<1> DEFINE inc == booking[u].inc + 1
           b == [status |-> "pending_payment", seats |-> k, inc |-> inc]
           F == Fresh(k)
<1>1. booking[u] \in Booking /\ booking[u].inc \in Nat /\ inc \in Nat /\ inc > booking[u].inc
      /\ k \in Nat /\ MaxSeats \in Nat
  BY Now, AmountsAssumption DEF Booking
<1>2. /\ booking[u].status \in {"none", "cancelled"} /\ Cardinality(Unused) >= k
      /\ payment' = Insert(F, Seat(u, inc)) /\ booking' = [booking EXCEPT ![u] = b]
      /\ UNCHANGED <<ledger, event, subscription, collection, screen>>
  BY DEF Book
<1>3. /\ F \subseteq Ids /\ IsFiniteSet(F) /\ Cardinality(F) = k
      /\ F # {} /\ \A i \in F : payment[i].status = "none"
      /\ payment' \in [Ids -> Payment]
      /\ \A i \in Ids : i \notin F => payment'[i] = payment[i]
      /\ \A i \in F :
              /\ payment'[i].of = "seat" /\ payment'[i].user = u /\ payment'[i].amount = Price
              /\ payment'[i].status = "pending" /\ payment'[i].inc = inc /\ ~payment'[i].released
  BY <1>1, <1>2, FreshSeats
<1>4. b \in Booking /\ b.status = "pending_payment" /\ b.seats = k /\ b.inc = inc
  BY <1>1 DEF Booking
<1> HIDE DEF b, F, inc
<1>5. booking'[u] = b
  BY <1>2, Now
<1>6. \A i \in Ids : SeatOf(i, u) => payment[i].amount = Price /\ payment[i].inc < inc
                                     /\ payment[i].status # "pending"
  <2>1. SeatsOK(u) /\ \A i \in Ids : payment[i].inc \in Nat
    BY Now DEF Payment
  <2>2. \A i \in Ids : SeatOf(i, u) => payment[i].amount = Price /\ payment[i].inc <= booking[u].inc
                                       /\ payment[i].status # "pending"
    BY <1>2, <2>1 DEF SeatsOK, Held
  <2> QED
    BY <1>1, <2>1, <2>2
<1>7. Live(u)' = F
  <2>1. \A i \in Ids : i \in Live(u)' <=> i \in F
    <3> SUFFICES ASSUME NEW i \in Ids
                 PROVE  i \in Live(u)' <=> i \in F
      OBVIOUS
    <3>1. CASE i \in F
      BY <1>3, <1>4, <1>5, <3>1 DEF Live
    <3>2. CASE i \notin F
      <4>1. payment'[i] = payment[i]
        BY <1>3, <3>2
      <4>2. SeatOf(i, u) => payment'[i].inc # inc
        <5>1. payment[i].inc \in Nat
          BY Now DEF Payment
        <5> QED
          BY <1>1, <1>6, <4>1, <5>1
      <4> QED
        BY <1>4, <1>5, <3>2, <4>1, <4>2 DEF Live, SeatOf
    <3> QED
      BY <3>1, <3>2
  <2> QED
    BY <1>3, <2>1 DEF Live
<1>8. SeatsOK(u)'
  <2>1. Cardinality(Live(u)') = booking'[u].seats
    BY <1>3, <1>4, <1>5, <1>7
  <2>2. With(Live(u), "pending")' # {}
    BY <1>3, <1>7 DEF With
  <2>3. ASSUME NEW i \in Ids, SeatOf(i, u)'
        PROVE  /\ payment'[i].amount = Price /\ payment'[i].inc <= booking'[u].inc
               /\ payment'[i].status = "pending" => i \in Live(u)' /\ booking'[u].status \in Held
    <3>1. CASE i \in F
      BY <1>1, <1>3, <1>4, <1>5, <1>7, <3>1 DEF Held
    <3>2. CASE i \notin F
      <4>1. payment'[i] = payment[i] /\ SeatOf(i, u) /\ payment[i].inc \in Nat
        BY <1>3, <2>3, <3>2, Now DEF SeatOf, Payment
      <4> QED
        BY <1>1, <1>4, <1>5, <1>6, <4>1
    <3> QED
      BY <3>1, <3>2
  <2> QED
    BY <1>4, <1>5, <2>1, <2>2, <2>3 DEF SeatsOK
<1>9. \A i \in Ids : payment'[i] = payment[i] \/ i \in F
  BY <1>3
<1>10. \A i \in Ids : SeatOf(i, u) => payment'[i] = payment[i]
  BY <1>3, <1>9 DEF SeatOf
<1>11. /\ \A i \in Ids : payment'[i] = payment[i] \/ SeatOf(i, u) \/ payment[i].status = "none"
       /\ \A i \in Ids : payment[i].status = "none" /\ payment'[i] # payment[i] =>
            payment'[i].of = "seat" /\ payment'[i].user = u /\ payment'[i].status = "pending"
  BY <1>3, <1>9
<1>12. \A i \in Ids : SeatOf(i, u) =>
           /\ payment'[i].of = "seat" /\ payment'[i].user = u
           /\ payment'[i].amount = payment[i].amount /\ payment'[i].inc = payment[i].inc
           /\ \/ payment'[i].status = payment[i].status
              \/ payment[i].status = "pending" /\ payment'[i].status = "cancelled"
  BY <1>10 DEF SeatOf
<1>13. /\ booking' = [booking EXCEPT ![u] = b] /\ payment' \in [Ids -> Payment]
       /\ UNCHANGED <<ledger, event, subscription, collection, screen>>
  BY <1>2, <1>3
<1> QED
  BY <1>4, <1>8, <1>11, <1>12, <1>13, SeatStep

LEMMA AddSeatsKeeps ==
  ASSUME IInv, NEW u \in Users, NEW k \in 1 .. MaxSeats, AddSeats(u, k)
  PROVE  IInv'
<1> DEFINE inc == booking[u].inc
           b == [booking[u] EXCEPT !.seats = @ + k, !.status = "pending_payment"]
           F == Fresh(k)
<1>1. /\ booking[u] \in Booking /\ inc \in Nat /\ booking[u].seats \in Nat
      /\ k \in Nat /\ MaxSeats \in Nat /\ SeatsOK(u)
  BY Now, AmountsAssumption DEF Booking
<1>2. /\ booking[u].status \in {"pending_payment", "confirmed"} /\ Cardinality(Unused) >= k
      /\ booking[u].seats + k <= MaxSeats
      /\ payment' = Insert(F, Seat(u, inc)) /\ booking' = [booking EXCEPT ![u] = b]
      /\ UNCHANGED <<ledger, event, subscription, collection, screen>>
  BY Now DEF AddSeats, Fits
<1>3. /\ F \subseteq Ids /\ IsFiniteSet(F) /\ Cardinality(F) = k
      /\ F # {} /\ \A i \in F : payment[i].status = "none"
      /\ payment' \in [Ids -> Payment]
      /\ \A i \in Ids : i \notin F => payment'[i] = payment[i]
      /\ \A i \in F :
              /\ payment'[i].of = "seat" /\ payment'[i].user = u /\ payment'[i].amount = Price
              /\ payment'[i].status = "pending" /\ payment'[i].inc = inc /\ ~payment'[i].released
  BY <1>1, <1>2, FreshSeats
<1>4. /\ b \in Booking /\ b.status = "pending_payment" /\ b.seats = booking[u].seats + k
      /\ b.inc = inc
  <2> DEFINE n == booking[u].seats + k
  <2>1. n \in 0 .. MaxSeats
    BY <1>1, <1>2
  <2>2. b = [booking[u] EXCEPT !.seats = n, !.status = "pending_payment"]
    BY <1>1 DEF Booking
  <2> HIDE DEF n, b
  <2>3. b \in Booking /\ b.status = "pending_payment" /\ b.seats = n /\ b.inc = inc
    BY <1>1, <2>1, <2>2 DEF Booking
  <2> QED
    BY <2>3 DEF n
<1> HIDE DEF b, F
<1>5. booking'[u] = b
  BY <1>2, Now
<1>6. Live(u) \intersect F = {} /\ Live(u) \subseteq Ids
  BY <1>3 DEF Live
<1>7. Live(u)' = Live(u) \union F
  <2>1. \A i \in Ids : i \in Live(u)' <=> i \in Live(u) \union F
    <3> SUFFICES ASSUME NEW i \in Ids
                 PROVE  i \in Live(u)' <=> i \in Live(u) \union F
      OBVIOUS
    <3>1. CASE i \in F
      BY <1>3, <1>4, <1>5, <3>1 DEF Live
    <3>2. CASE i \notin F
      BY <1>3, <1>4, <1>5, <3>2 DEF Live
    <3> QED
      BY <3>1, <3>2
  <2> QED
    BY <1>3, <1>6, <2>1 DEF Live
<1>8. SeatsOK(u)'
  <2>1. Cardinality(Live(u)') = booking'[u].seats
    <3>1. IsFiniteSet(Live(u)) /\ Cardinality(Live(u)) = booking[u].seats
      BY <1>1, <1>2, <1>6, FiniteIds DEF SeatsOK
    <3>2. Cardinality(Live(u) \union F) =
            Cardinality(Live(u)) + Cardinality(F) - Cardinality(Live(u) \intersect F)
      BY <1>3, <3>1, FS_Union
    <3>3. Cardinality(Live(u) \intersect F) = 0
      BY <1>6, FS_EmptySet
    <3>4. Cardinality(Live(u) \union F) = booking[u].seats + k
      BY <1>1, <1>3, <3>1, <3>2, <3>3
    <3> QED
      BY <1>4, <1>5, <1>7, <3>4
  <2>2. With(Live(u), "pending")' # {}
    BY <1>3, <1>7 DEF With
  <2>3. ASSUME NEW i \in Ids, SeatOf(i, u)'
        PROVE  /\ payment'[i].amount = Price /\ payment'[i].inc <= booking'[u].inc
               /\ payment'[i].status = "pending" => i \in Live(u)' /\ booking'[u].status \in Held
    <3>1. CASE i \in F
      BY <1>1, <1>3, <1>4, <1>5, <1>7, <3>1 DEF Held
    <3>2. CASE i \notin F
      <4>1. payment'[i] = payment[i] /\ SeatOf(i, u)
        BY <1>3, <2>3, <3>2 DEF SeatOf
      <4> QED
        BY <1>1, <1>4, <1>5, <1>7, <4>1 DEF SeatsOK, Held
    <3> QED
      BY <3>1, <3>2
  <2> QED
    BY <1>4, <1>5, <2>1, <2>2, <2>3 DEF SeatsOK
<1>9. \A i \in Ids : payment'[i] = payment[i] \/ i \in F
  BY <1>3
<1>10. \A i \in Ids : SeatOf(i, u) => payment'[i] = payment[i]
  BY <1>3, <1>9 DEF SeatOf
<1>11. /\ \A i \in Ids : payment'[i] = payment[i] \/ SeatOf(i, u) \/ payment[i].status = "none"
       /\ \A i \in Ids : payment[i].status = "none" /\ payment'[i] # payment[i] =>
            payment'[i].of = "seat" /\ payment'[i].user = u /\ payment'[i].status = "pending"
  BY <1>3, <1>9
<1>12. \A i \in Ids : SeatOf(i, u) =>
           /\ payment'[i].of = "seat" /\ payment'[i].user = u
           /\ payment'[i].amount = payment[i].amount /\ payment'[i].inc = payment[i].inc
           /\ \/ payment'[i].status = payment[i].status
              \/ payment[i].status = "pending" /\ payment'[i].status = "cancelled"
  BY <1>10 DEF SeatOf
<1>13. /\ booking' = [booking EXCEPT ![u] = b] /\ payment' \in [Ids -> Payment]
       /\ UNCHANGED <<ledger, event, subscription, collection, screen>>
  BY <1>2, <1>3
<1> QED
  BY <1>4, <1>8, <1>11, <1>12, <1>13, SeatStep

\* The seats of one booking are its unpaid and its paid ones.
LEMMA LiveParts ==
  ASSUME NEW u
  PROVE  /\ Live(u) = With(Live(u), "pending") \union With(Live(u), "succeeded")
         /\ With(Live(u), "pending") \intersect With(Live(u), "succeeded") = {}
         /\ Live(u) \subseteq Ids
         /\ \A i \in Live(u) : SeatOf(i, u)
BY DEF Live, With, SeatOf

\* Seats given up: P unpaid, Q paid.
LEMMA GivenUp ==
  ASSUME IInv, NEW u \in Users, NEW P, NEW Q,
         P \subseteq With(Live(u), "pending"), Q \subseteq With(Live(u), "succeeded"),
         payment' = Released(P, Q), booking'[u].inc = booking[u].inc
  PROVE  /\ payment' \in [Ids -> Payment]
         /\ Live(u)' = Live(u) \ (P \union Q)
         /\ With(Live(u), "pending")' = With(Live(u), "pending") \ P
         /\ \A i \in Ids : payment'[i] = payment[i] \/ SeatOf(i, u)
         /\ \A i \in Ids : /\ payment'[i].of = payment[i].of /\ payment'[i].user = payment[i].user
                           /\ payment'[i].amount = payment[i].amount /\ payment'[i].inc = payment[i].inc
                           /\ i \in P => payment[i].status = "pending" /\ payment'[i].status = "cancelled"
                           /\ i \notin P => payment'[i].status = payment[i].status
                           /\ i \notin P \union Q => payment'[i] = payment[i]
<1>1. /\ P \intersect Q = {} /\ P \subseteq Live(u) /\ Q \subseteq Live(u)
      /\ \A i \in P : payment[i].status = "pending"
      /\ \A i \in Q : payment[i].status = "succeeded"
  BY DEF With
<1>2. /\ payment' \in [Ids -> Payment]
      /\ \A i \in Ids \ (P \union Q) : payment'[i] = payment[i]
      /\ \A i \in Ids : /\ payment'[i].of = payment[i].of /\ payment'[i].user = payment[i].user
                        /\ payment'[i].amount = payment[i].amount /\ payment'[i].inc = payment[i].inc
                        /\ i \in P => payment'[i].status = "cancelled"
                        /\ i \notin P => payment'[i].status = payment[i].status
                        /\ i \in Q => payment'[i].released
                        /\ i \notin Q => payment'[i].released = payment[i].released
  BY <1>1, ReleasedRows, Now
<1>3. \A i \in Ids : i \in Live(u)' <=> i \in Live(u) \ (P \union Q)
  <2> SUFFICES ASSUME NEW i \in Ids
               PROVE  i \in Live(u)' <=> i \in Live(u) \ (P \union Q)
    OBVIOUS
  <2>1. CASE i \in P
    BY <1>2, <2>1 DEF Live
  <2>2. CASE i \in Q
    BY <1>2, <2>2 DEF Live
  <2>3. CASE i \notin P \union Q
    BY <1>2, <2>3 DEF Live
  <2> QED
    BY <2>1, <2>2, <2>3
<1>4. Live(u)' = Live(u) \ (P \union Q)
  BY <1>3 DEF Live
<1>5. With(Live(u), "pending")' = With(Live(u), "pending") \ P
  <2>1. With(Live(u), "pending")' = {i \in Live(u) \ (P \union Q) : payment'[i].status = "pending"}
    BY <1>4 DEF With
  <2>2. \A i \in Live(u) \ (P \union Q) : payment'[i].status = payment[i].status
    BY <1>2 DEF Live
  <2> QED
    BY <1>1, <2>1, <2>2 DEF With
<1>6. \A i \in Ids : payment'[i] = payment[i] \/ SeatOf(i, u)
  BY <1>1, <1>2, LiveParts
<1> QED
  BY <1>1, <1>2, <1>4, <1>5, <1>6

\* What is left of the seats is in order if the booking says how many they are
\* and whether they are paid.
LEMMA GivenUpKeeps ==
  ASSUME IInv, NEW u \in Users, NEW P, NEW Q, NEW b \in Booking,
         P \subseteq With(Live(u), "pending"), Q \subseteq With(Live(u), "succeeded"),
         payment' = Released(P, Q), booking' = [booking EXCEPT ![u] = b],
         UNCHANGED <<ledger, event, subscription, collection, screen>>,
         b.inc = booking[u].inc,
         b.status \in Held \/ P = With(Live(u), "pending"),
         b.status \in {"pending_payment", "confirmed"} =>
           /\ Cardinality(Live(u) \ (P \union Q)) = b.seats
           /\ (b.status = "confirmed") <=> (With(Live(u), "pending") \ P = {})
  PROVE  IInv'
<1>1. booking'[u] = b /\ SeatsOK(u)
  BY Now
<1>2. /\ payment' \in [Ids -> Payment]
      /\ Live(u)' = Live(u) \ (P \union Q)
      /\ With(Live(u), "pending")' = With(Live(u), "pending") \ P
      /\ \A i \in Ids : payment'[i] = payment[i] \/ SeatOf(i, u)
      /\ \A i \in Ids : /\ payment'[i].of = payment[i].of /\ payment'[i].user = payment[i].user
                        /\ payment'[i].amount = payment[i].amount /\ payment'[i].inc = payment[i].inc
                        /\ i \in P => payment[i].status = "pending" /\ payment'[i].status = "cancelled"
                        /\ i \notin P => payment'[i].status = payment[i].status
                        /\ i \notin P \union Q => payment'[i] = payment[i]
  BY <1>1, GivenUp
<1>3. SeatsOK(u)'
  <2>1. ASSUME NEW i \in Ids, SeatOf(i, u)'
        PROVE  /\ payment'[i].amount = Price /\ payment'[i].inc <= booking'[u].inc
               /\ payment'[i].status = "pending" => i \in Live(u)' /\ booking'[u].status \in Held
    <3>1. SeatOf(i, u)
      BY <1>2, <2>1 DEF SeatOf
    <3>2. payment'[i].amount = Price /\ payment'[i].inc <= booking'[u].inc
      BY <1>1, <1>2, <3>1 DEF SeatsOK
    <3>3. ASSUME payment'[i].status = "pending"
          PROVE  i \in Live(u)' /\ booking'[u].status \in Held
      <4>1. payment[i].status = "pending" /\ i \notin P
        BY <1>2, <3>3
      <4>2. i \in Live(u)
        BY <1>1, <3>1, <4>1 DEF SeatsOK
      <4>3. i \in With(Live(u), "pending") /\ i \notin Q
        BY <4>1, <4>2 DEF With
      <4> QED
        BY <1>1, <1>2, <4>1, <4>2, <4>3
    <3> QED
      BY <3>2, <3>3
  <2> QED
    BY <1>1, <1>2, <2>1 DEF SeatsOK
<1>4. /\ \A i \in Ids : payment[i].status = "none" /\ payment'[i] # payment[i] =>
           payment'[i].of = "seat" /\ payment'[i].user = u /\ payment'[i].status = "pending"
      /\ \A i \in Ids : SeatOf(i, u) =>
           /\ payment'[i].of = "seat" /\ payment'[i].user = u
           /\ payment'[i].amount = payment[i].amount /\ payment'[i].inc = payment[i].inc
           /\ \/ payment'[i].status = payment[i].status
              \/ payment[i].status = "pending" /\ payment'[i].status = "cancelled"
  BY <1>2 DEF SeatOf
<1> QED
  BY <1>2, <1>3, <1>4, SeatStep

LEMMA CancelBookingKeeps ==
  ASSUME IInv, NEW u \in Users, CancelBooking(u)
  PROVE  IInv'
<1> DEFINE b == [booking[u] EXCEPT !.status = "cancelled"]
           P == With(Live(u), "pending")
           Q == With(Live(u), "succeeded")
<1>1. booking[u] \in Booking
  BY Now
<1>2. b \in Booking /\ b.inc = booking[u].inc /\ b.status = "cancelled"
  BY <1>1 DEF Booking
<1>3. /\ payment' = Released(P, Q) /\ booking' = [booking EXCEPT ![u] = b]
      /\ UNCHANGED <<ledger, event, subscription, collection, screen>>
  BY <1>1 DEF CancelBooking, Booking
<1> HIDE DEF b
<1> QED
  BY <1>2, <1>3, GivenUpKeeps

LEMMA DropSeatsKeeps ==
  ASSUME IInv, NEW u \in Users, NEW k \in 1 .. MaxSeats, DropSeats(u, k)
  PROVE  IInv'
<1> DEFINE unpaid == With(Live(u), "pending")
           paid == With(Live(u), "succeeded")
           P == Latest(unpaid, k)
           left == k - Cardinality(P)
           Q == Latest(paid, left)
           fewer == [booking[u] EXCEPT !.seats = @ - k]
           b == Derived(fewer, unpaid \ P)
<1>1. /\ booking[u] \in Booking /\ booking[u].seats \in Nat /\ SeatsOK(u)
      /\ k \in Nat /\ MaxSeats \in Nat
  BY Now, AmountsAssumption DEF Booking
<1>2. /\ booking[u].status \in {"pending_payment", "confirmed"} /\ k < booking[u].seats
      /\ payment' = Released(P, Q)
      /\ UNCHANGED <<ledger, event, subscription, collection, screen>>
  BY DEF DropSeats
<1>3. booking' = [booking EXCEPT ![u] = b]
  BY DEF DropSeats
<1>4. fewer \in Booking /\ fewer.seats = booking[u].seats - k
      /\ fewer.inc = booking[u].inc /\ fewer.status = booking[u].status
  <2> DEFINE n == booking[u].seats - k
  <2>1. n \in 0 .. MaxSeats
    BY <1>1, <1>2 DEF Booking
  <2>2. fewer = [booking[u] EXCEPT !.seats = n]
    OBVIOUS
  <2> HIDE DEF n, fewer
  <2>3. fewer \in Booking /\ fewer.seats = n /\ fewer.inc = booking[u].inc
        /\ fewer.status = booking[u].status
    BY <1>1, <2>1, <2>2 DEF Booking
  <2> QED
    BY <2>3 DEF n
<1> HIDE DEF fewer
<1>5. /\ b \in Booking /\ b.seats = booking[u].seats - k /\ b.inc = booking[u].inc
      /\ b.status \in {"pending_payment", "confirmed"}
      /\ (b.status = "confirmed") <=> (unpaid \ P = {})
  <2>1. b = [fewer EXCEPT !.status = IF unpaid \ P = {} THEN "confirmed" ELSE "pending_payment"]
    BY <1>2, <1>4 DEF Derived
  <2> HIDE DEF b, unpaid, P
  <2>2. CASE unpaid \ P = {}
    BY <1>4, <2>1, <2>2 DEF Booking
  <2>3. CASE unpaid \ P # {}
    BY <1>4, <2>1, <2>3 DEF Booking
  <2> QED
    BY <2>2, <2>3
<1> HIDE DEF b
<1>6. /\ Live(u) = unpaid \union paid /\ unpaid \intersect paid = {}
      /\ unpaid \subseteq Ids /\ paid \subseteq Ids
      /\ Live(u) \subseteq Ids
  BY LiveParts
<1> HIDE DEF unpaid, paid
<1>7. /\ P \subseteq unpaid /\ Cardinality(P) <= k /\ (Cardinality(P) < k => P = unpaid)
      /\ P \subseteq Ids
  BY <1>1, <1>6, LatestCount
<1>8. IsFiniteSet(P) /\ Cardinality(P) \in Nat
  BY <1>7, FiniteIds
<1> HIDE DEF P
<1>9. left \in Nat
  BY <1>1, <1>7, <1>8
<1>10. /\ Q \subseteq paid /\ Cardinality(Q) <= left /\ (Cardinality(Q) < left => Q = paid)
       /\ Q \subseteq Ids
  BY <1>6, <1>9, LatestCount
<1>11. IsFiniteSet(Q) /\ Cardinality(Q) \in Nat
  BY <1>10, FiniteIds
<1> HIDE DEF Q
<1>12. Cardinality(P \union Q) = Cardinality(P) + Cardinality(Q)
  <2>1. P \intersect Q = {}
    BY <1>6, <1>7, <1>10
  <2>2. Cardinality(P \intersect Q) = 0
    BY <2>1, FS_EmptySet
  <2>3. Cardinality(P \union Q) = Cardinality(P) + Cardinality(Q) - Cardinality(P \intersect Q)
    BY <1>8, <1>11, FS_Union
  <2> QED
    BY <1>8, <1>11, <2>2, <2>3
<1>13. Cardinality(Live(u)) = booking[u].seats /\ IsFiniteSet(Live(u))
  BY <1>1, <1>2, <1>6, FiniteIds DEF SeatsOK
<1>14. Cardinality(Q) = left
  <2> SUFFICES ASSUME Cardinality(Q) # left
               PROVE  FALSE
    OBVIOUS
  <2>1. Cardinality(Q) < left
    BY <1>9, <1>10, <1>11
  <2>2. Cardinality(P) < k
    BY <1>1, <1>7, <1>8, <1>11, <2>1
  <2>3. Live(u) = P \union Q
    BY <1>6, <1>7, <1>10, <2>1, <2>2
  <2>4. Cardinality(Live(u)) < k
    BY <1>1, <1>8, <1>11, <1>12, <2>1, <2>3
  <2> QED
    BY <1>1, <1>2, <1>13, <2>4
<1>15. Cardinality(Live(u) \ (P \union Q)) = b.seats
  <2> DEFINE R == Live(u) \ (P \union Q)
  <2>1. R \subseteq Ids /\ R \intersect (P \union Q) = {} /\ R \union (P \union Q) = Live(u)
    BY <1>6, <1>7, <1>10
  <2>2. IsFiniteSet(R) /\ Cardinality(R) \in Nat /\ IsFiniteSet(P \union Q)
    BY <1>7, <1>10, <2>1, FiniteIds
  <2> HIDE DEF R
  <2> DEFINE G == P \union Q
  <2>a. IsFiniteSet(G)
    BY <2>2
  <2> HIDE DEF G
  <2>b. Cardinality(R \union G) = Cardinality(R) + Cardinality(G) - Cardinality(R \intersect G)
    BY <2>2, <2>a, FS_Union
  <2>3. Cardinality(R \union (P \union Q))
          = Cardinality(R) + Cardinality(P \union Q) - Cardinality(R \intersect (P \union Q))
    BY <2>b DEF G
  <2>4. Cardinality(R \intersect (P \union Q)) = 0
    BY <2>1, FS_EmptySet
  <2>5. Cardinality(P \union Q) = k
    BY <1>1, <1>8, <1>12, <1>14
  <2>c. Cardinality(R \union (P \union Q)) = booking[u].seats
    BY <1>13, <2>1
  <2>6. Cardinality(R) = booking[u].seats - k
    BY <1>1, <2>2, <2>3, <2>4, <2>5, <2>c
  <2> QED
    BY <1>5, <2>6 DEF R
<1>16. b.status \in Held
  BY <1>5 DEF Held
<1> QED
  BY <1>2, <1>3, <1>5, <1>7, <1>10, <1>15, <1>16, GivenUpKeeps DEF unpaid, paid

LEMMA AttendKeeps ==
  ASSUME IInv, NEW u \in Users, Attend(u)
  PROVE  IInv'
<1> DEFINE b == [booking[u] EXCEPT !.status = "attended"]
<1>1. booking[u] \in Booking /\ SeatsOK(u)
  BY Now
<1>2. b \in Booking /\ b.inc = booking[u].inc /\ b.status = "attended"
  BY <1>1 DEF Booking
<1>3. /\ booking' = [booking EXCEPT ![u] = b]
      /\ UNCHANGED <<payment, ledger, event, subscription, collection, screen>>
  BY DEF Attend
<1> HIDE DEF b
<1>4. booking'[u] = b /\ payment' \in [Ids -> Payment]
  BY <1>3, Now
<1>5. Live(u)' = Live(u)
  BY <1>2, <1>3, <1>4 DEF Live
<1>6. SeatsOK(u)'
  BY <1>1, <1>2, <1>3, <1>4, <1>5 DEF SeatsOK, SeatOf, Held
<1>7. \A i \in Ids : SeatOf(i, u) =>
        /\ payment'[i].of = "seat" /\ payment'[i].user = u
        /\ payment'[i].amount = payment[i].amount /\ payment'[i].inc = payment[i].inc
        /\ payment'[i].status = payment[i].status
  BY <1>3 DEF SeatOf
<1> QED
  BY <1>2, <1>3, <1>4, <1>6, <1>7, SeatStep

-----------------------------------------------------------------------------
(* The event.                                                              *)

LEMMA BeginKeeps ==
  ASSUME IInv, Begin
  PROVE  IInv'
<1>1. /\ event' = "started"
      /\ UNCHANGED <<payment, ledger, booking, subscription, collection, screen>>
  BY DEF Begin
<1>2. Kept /\ MoneyOK' /\ \A v \in Users : SeatsOK(v)'
  BY <1>1, Now, ApartKeeps DEF Kept, Apart, MoneyOK
<1>3. LedgerMatchesPayments' /\ ledger' \subseteq Entry
  BY <1>1, Now DEF LedgerMatchesPayments, Entries
<1> QED
  BY <1>1, <1>2, <1>3, Now, Step

\* A seat that waits to be paid is live, and its booking stands.
LEMMA PendingSeat ==
  ASSUME IInv, NEW i \in Ids, payment[i].of = "seat", payment[i].status = "pending"
  PROVE  /\ payment[i].user \in Users /\ SeatOf(i, payment[i].user)
         /\ i \in Live(payment[i].user) /\ booking[payment[i].user].status \in Held
<1>1. payment[i].user \in Users /\ SeatOf(i, payment[i].user)
  BY Now DEF SeatsHaveUsers, SeatOf
<1> QED
  BY <1>1, Now DEF SeatsOK

LEMMA CancelEventKeeps ==
  ASSUME IInv, CancelEvent
  PROVE  IInv'
<1> DEFINE held == {u \in Users : booking[u].status \notin {"none", "cancelled"}}
           live == UNION {Live(u) : u \in held}
           R == With(live, "succeeded")
           q(i) == [payment[i] EXCEPT !.status = IF @ = "pending" THEN "cancelled" ELSE "refunded"]
           b(u) == [booking[u] EXCEPT !.status = "cancelled"]
<1>1. /\ event' = "cancelled"
      /\ payment' = [i \in Ids |-> IF i \notin live THEN payment[i] ELSE q(i)]
      /\ ledger' = ledger \union Entries(R, "refund")
      /\ booking' = [u \in Users |-> IF u \in held THEN b(u) ELSE booking[u]]
      /\ UNCHANGED <<subscription, collection, screen>>
  BY DEF CancelEvent
<1>2. \A i \in Ids : /\ q(i) \in Payment /\ q(i).status = IF payment[i].status = "pending" THEN "cancelled" ELSE "refunded"
                     /\ q(i).of = payment[i].of /\ q(i).user = payment[i].user
                     /\ q(i).amount = payment[i].amount /\ q(i).inc = payment[i].inc
  BY Now DEF Payment
<1>3. \A u \in Users : b(u) \in Booking /\ b(u).inc = booking[u].inc /\ b(u).status = "cancelled"
  BY Now DEF Booking
<1>4. /\ live \subseteq Ids
      /\ \A i \in live : /\ payment[i].of = "seat" /\ payment[i].status \in {"pending", "succeeded"}
      /\ \A u \in held : Live(u) \subseteq live
  BY DEF Live
<1>5. \A u \in Users : u \in held <=> booking[u].status \notin {"none", "cancelled"}
  OBVIOUS
<1>6. R \in SUBSET Ids /\ \A i : i \in R <=> i \in live /\ payment[i].status = "succeeded"
  BY <1>4 DEF With
<1> HIDE DEF held, live, R, q, b
<1>7. /\ payment' \in [Ids -> Payment]
      /\ \A i \in Ids : payment'[i] = IF i \notin live THEN payment[i] ELSE q(i)
  BY <1>1, <1>2, Now
<1>8. /\ booking' \in [Users -> Booking]
      /\ \A u \in Users : /\ booking'[u].inc = booking[u].inc
                          /\ booking'[u].status \in {"none", "cancelled"}
  <2>1. \A u \in Users : booking'[u] = IF u \in held THEN b(u) ELSE booking[u]
    BY <1>1
  <2> QED
    BY <1>1, <1>3, <1>5, <2>1, Now
<1>9. Kept
  BY <1>2, <1>4, <1>7 DEF Kept
<1>10. LedgerMatchesPayments' /\ ledger' \subseteq Entry
  <2>1. ledger' = ledger \union Entries({}, "income") \union Entries(R, "refund")
    BY <1>1 DEF Entries
  <2>2. /\ \A i \in {} \union R : payment[i].status # "none"
        /\ \A i \in Ids : (payment'[i].status \in {"succeeded", "refunded"}) <=>
                            (payment[i].status \in {"succeeded", "refunded"} \/ i \in {})
        /\ \A i \in Ids : (payment'[i].status = "refunded") <=>
                            (payment[i].status = "refunded" \/ i \in R)
    BY <1>2, <1>4, <1>6, <1>7
  <2> QED
    BY <1>6, <1>7, <1>9, <2>1, <2>2, LedgerStep
<1>11. ASSUME NEW v \in Users
       PROVE  SeatsOK(v)'
  <2>1. ASSUME NEW i \in Ids, SeatOf(i, v)'
        PROVE  /\ payment'[i].amount = Price /\ payment'[i].inc <= booking'[v].inc
               /\ payment'[i].status # "pending"
    <3>1. SeatOf(i, v) /\ payment'[i].amount = payment[i].amount /\ payment'[i].inc = payment[i].inc
      BY <1>2, <1>4, <1>7, <2>1 DEF SeatOf
    <3>2. payment[i].amount = Price /\ payment[i].inc <= booking[v].inc
      BY <3>1, Now DEF SeatsOK
    <3>3. payment[i].status = "pending" => i \in live
      BY <1>4, <1>5, <3>1, Now DEF SeatsOK, Held
    <3>4. payment'[i].status # "pending"
      BY <1>2, <1>4, <1>7, <3>3
    <3> QED
      BY <1>8, <3>1, <3>2, <3>4
  <2> QED
    BY <1>8, <2>1 DEF SeatsOK
<1>12. SeatsOnly
  BY <1>1, <1>2, <1>4, <1>7 DEF SeatsOnly
<1>13. MoneyOK'
  BY <1>9, <1>12, SeatsOnlyKeep, Now
<1>14. \A i \in Ids : payment[i].status = "none" => payment'[i] = payment[i]
  BY <1>4, <1>7
<1> QED
  BY <1>1, <1>7, <1>8, <1>9, <1>10, <1>11, <1>13, <1>14, Now, Step

-----------------------------------------------------------------------------
(* The organizer.                                                          *)

\* A look at a pledge or a purchase shows its amount, at a seat that of all the
\* unpaid seats of the booking.
LEMMA LookKeeps ==
  ASSUME IInv, NEW i \in Ids, Look(i)
  PROVE  IInv'
<1> DEFINE sum == MapThenSumSet(LAMBDA j : payment[j].amount, Decided(i))
<1>1. /\ payment[i].status = "pending" /\ screen' = [id |-> i, amount |-> sum]
      /\ UNCHANGED <<payment, ledger, booking, event, subscription, collection>>
  BY DEF Look
<1>2. payment[i].amount \in Nat /\ Price \in Nat
  BY Now, AmountsAssumption DEF Payment
<1>3. sum \in Nat /\ (payment[i].of # "seat" => sum = payment[i].amount)
  <2>1. CASE payment[i].of = "seat"
    <3> DEFINE u == payment[i].user
               S == With(Live(u), "pending")
    <3>1. u \in Users /\ i \in Live(u)
      BY <1>1, <2>1, PendingSeat
    <3>2. Decided(i) = S
      BY <2>1, <3>1 DEF Decided
    <3>3. S \subseteq Ids /\ \A j \in S : payment[j].amount = Price
      <4>1. \A j \in S : j \in Ids /\ SeatOf(j, u)
        BY DEF With, Live, SeatOf
      <4> QED
        BY <3>1, <4>1, Now DEF SeatsOK
    <3> HIDE DEF S
    <3>4. IsFiniteSet(S) /\ Cardinality(S) \in Nat
      BY <3>3, FiniteIds
    <3>5. MapThenSumSet(LAMBDA j : payment[j].amount, S) = Price * Cardinality(S)
      BY <1>2, <3>3, <3>4, SumOfEqual
    <3>6. Price * Cardinality(S) \in Nat
      BY <1>2, <3>4
    <3> QED
      BY <2>1, <3>2, <3>5, <3>6
  <2>2. CASE payment[i].of # "seat"
    <3>1. Decided(i) = {i} /\ IsFiniteSet({i}) /\ Cardinality({i}) = 1
      BY <2>2, FS_Singleton DEF Decided
    <3>2. MapThenSumSet(LAMBDA j : payment[j].amount, {i}) = payment[i].amount * Cardinality({i})
      BY <1>2, <3>1, SumOfEqual
    <3> QED
      BY <1>2, <3>1, <3>2
  <2> QED
    BY <2>1, <2>2
<1> HIDE DEF sum
<1>4. screen' \in Screen /\ ScreenOK'
  BY <1>1, <1>3, TargetsAssumption DEF Screen, ScreenOK
<1>5. Kept /\ \A v \in Users : SeatsOK(v)'
  BY <1>1, Now, ApartKeeps DEF Kept, Apart
<1>6. MoneyOK' /\ SeatsHaveUsers' /\ LedgerMatchesPayments'
  BY <1>1, Now DEF MoneyOK, SeatsHaveUsers, LedgerMatchesPayments, Entries
<1>7. TypeOK'
  BY <1>1, <1>4 DEF IInv, TypeOK
<1> QED
  BY <1>4, <1>5, <1>6, <1>7 DEF IInv

\* A decision on a pledge or a purchase is about its row alone.
LEMMA Decide ==
  ASSUME IInv, NEW i \in Ids, payment[i].status = "pending", payment[i].of # "seat",
         NEW s \in {"succeeded", "cancelled"}, NEW t \in {"active", "cancelled"},
         payment' = Move({i}, s),
         subscription' = IF subscription[i] = "pending"
                         THEN [subscription EXCEPT ![i] = t] ELSE subscription,
         UNCHANGED <<booking, event, collection, screen>>
  PROVE  /\ payment' \in [Ids -> Payment] /\ Kept
         /\ payment'[i].status = s /\ \A j \in Ids \ {i} : payment'[j] = payment[j]
         /\ subscription' \in [Ids -> {"none", "pending", "active", "cancelled"}]
         /\ \A v \in Users : SeatsOK(v)'
         /\ MoneyOK'
<1>1. /\ payment' \in [Ids -> Payment]
      /\ \A j \in Ids \ {i} : payment'[j] = payment[j]
      /\ payment'[i].of = payment[i].of /\ payment'[i].user = payment[i].user
      /\ payment'[i].amount = payment[i].amount /\ payment'[i].inc = payment[i].inc
      /\ payment'[i].status = s
  BY Moved, Now DEF Statuses
<1>2. Kept
  BY <1>1 DEF Kept
<1>3. subscription' \in [Ids -> {"none", "pending", "active", "cancelled"}]
  BY Now
<1>4. \A v \in Users : SeatsOK(v)'
  <2>1. \A v \in Users : Apart(v)
    BY <1>1 DEF Apart, SeatOf
  <2> QED
    BY <2>1, Now, ApartKeeps
<1>5. MoneyOK'
  <2>0. MoneyOK
    BY Now
  <2>1. \A j \in Ids : payment'[j].status = "pending" => j # i /\ payment'[j] = payment[j]
    BY <1>1
  <2>2. \A j \in Ids : (subscription'[j] = "pending") <=> (subscription[j] = "pending" /\ j # i)
    BY Now
  <2>3. ASSUME NEW j \in Ids
        PROVE  (subscription'[j] = "pending") <=>
                 (payment'[j].of = "subscription" /\ payment'[j].status = "pending")
    <3>1. CASE j = i
      <4>1. payment'[j].status # "pending" /\ subscription'[j] # "pending"
        BY <1>1, <2>2, <3>1
      <4> QED
        BY <4>1
    <3>2. CASE j # i
      <4>1. payment'[j] = payment[j]
        BY <1>1, <3>2
      <4>2. (subscription'[j] = "pending") <=> (subscription[j] = "pending")
        BY <2>2, <3>2
      <4> QED
        BY <2>0, <4>1, <4>2 DEF MoneyOK
    <3> QED
      BY <3>1, <3>2
  <2>4. ASSUME NEW k \in Ids, payment'[k].status = "pending", payment'[k].of # "seat"
        PROVE  /\ payment'[k].of \in Collections =>
                    collection'[payment'[k].of] \in {"active", "completed"}
               /\ \A j \in Ids :
                    (/\ payment'[j].status = "pending" /\ payment'[j].of = payment'[k].of
                     /\ payment'[j].user = payment'[k].user) => k = j
    <3>1. k # i /\ payment'[k] = payment[k] /\ collection' = collection
      BY <2>1, <2>4
    <3>2. payment[k].status = "pending" /\ payment[k].of # "seat"
      BY <2>4, <3>1
    <3>3. ASSUME NEW j \in Ids, payment'[j].status = "pending",
                 payment'[j].of = payment'[k].of, payment'[j].user = payment'[k].user
          PROVE  k = j
      <4>1. payment'[j] = payment[j]
        BY <2>1, <3>3
      <4> QED
        BY <2>0, <3>1, <3>2, <3>3, <4>1 DEF MoneyOK
    <3>4. payment[k].of \in Collections => collection[payment[k].of] \in {"active", "completed"}
      BY <2>0, <3>2 DEF MoneyOK
    <3> QED
      BY <3>1, <3>3, <3>4
  <2> QED
    BY <2>3, <2>4 DEF MoneyOK
<1> QED
  BY <1>1, <1>2, <1>3, <1>4, <1>5

LEMMA ConfirmKeeps ==
  ASSUME IInv, NEW i \in Ids, Confirm(i)
  PROVE  IInv'
<1> DEFINE rows == Decided(i)
<1>1. /\ payment[i].status = "pending"
      /\ payment' = Move(rows, "succeeded")
      /\ ledger' = ledger \union Entries(rows, "income")
      /\ booking' = IF payment[i].of = "seat" /\ i \in Live(payment[i].user)
                    THEN [booking EXCEPT ![payment[i].user] = Derived(booking[payment[i].user], {})]
                    ELSE booking
      /\ subscription' = IF subscription[i] = "pending"
                         THEN [subscription EXCEPT ![i] = "active"] ELSE subscription
      /\ UNCHANGED <<event, collection, screen>>
  BY DEF Confirm
<1>2. /\ rows \in SUBSET Ids /\ i \in rows
      /\ \A j \in rows : payment[j].status = "pending"
  BY <1>1 DEF Decided, With, Live
<1>3. ASSUME payment' \in [Ids -> Payment], Kept,
             \A j \in Ids \ rows : payment'[j] = payment[j],
             \A j \in rows : payment'[j].status = "succeeded"
      PROVE  LedgerMatchesPayments' /\ ledger' \subseteq Entry
  <2> HIDE DEF rows
  <2>1. ledger' = ledger \union Entries(rows, "income") \union Entries({}, "refund")
    BY <1>1 DEF Entries
  <2>2. /\ \A j \in rows \union {} : payment[j].status # "none"
        /\ \A j \in Ids : (payment'[j].status \in {"succeeded", "refunded"}) <=>
                            (payment[j].status \in {"succeeded", "refunded"} \/ j \in rows)
        /\ \A j \in Ids : (payment'[j].status = "refunded") <=>
                            (payment[j].status = "refunded" \/ j \in {})
    BY <1>2, <1>3
  <2> QED
    BY <1>2, <1>3, <2>1, <2>2, LedgerStep
<1>4. CASE payment[i].of # "seat"
  <2>1. rows = {i} /\ booking' = booking
    BY <1>1, <1>4 DEF Decided
  <2>2. /\ payment' \in [Ids -> Payment] /\ Kept
        /\ payment'[i].status = "succeeded" /\ \A j \in Ids \ {i} : payment'[j] = payment[j]
        /\ subscription' \in [Ids -> {"none", "pending", "active", "cancelled"}]
        /\ \A v \in Users : SeatsOK(v)'
        /\ MoneyOK'
    BY <1>1, <1>4, <2>1, Decide
  <2>3. LedgerMatchesPayments' /\ ledger' \subseteq Entry
    BY <1>3, <2>1, <2>2
  <2>4. \A j \in Ids : payment[j].status = "none" => payment'[j] = payment[j]
    BY <1>1, <2>2
  <2> QED
    BY <1>1, <2>1, <2>2, <2>3, <2>4, Now, Step
<1>5. CASE payment[i].of = "seat"
  <2>1. PICK u \in Users : /\ u = payment[i].user /\ i \in Live(u)
                           /\ booking[u].status \in Held /\ SeatsOK(u)
    BY <1>1, <1>5, PendingSeat, Now
  <2>2. rows = With(Live(u), "pending")
    BY <1>5, <2>1 DEF Decided
  <2>3. booking' = [booking EXCEPT ![u] = Derived(booking[u], {})] /\ subscription' = subscription
    BY <1>1, <1>5, <2>1, Now DEF MoneyOK
  <2> DEFINE b == Derived(booking[u], {})
  <2>4. /\ b \in Booking /\ b.inc = booking[u].inc /\ b.seats = booking[u].seats /\ b.status \in Held
        /\ b.status # "pending_payment"
        /\ b.status = "confirmed" => booking[u].status \in {"pending_payment", "confirmed"}
    <3>1. booking[u] \in Booking
      BY <2>1, Now
    <3> QED
      BY <2>1, <3>1 DEF Derived, Booking, Held
  <2> HIDE DEF b, rows
  <2>5. booking'[u] = b /\ booking' \in [Users -> Booking] /\ \A v \in Users \ {u} : booking'[v] = booking[v]
    BY <2>1, <2>3, <2>4, Now DEF b
  <2>6. /\ payment' \in [Ids -> Payment]
        /\ \A j \in Ids \ rows : payment'[j] = payment[j]
        /\ \A j \in Ids : /\ payment'[j].of = payment[j].of /\ payment'[j].user = payment[j].user
                          /\ payment'[j].amount = payment[j].amount /\ payment'[j].inc = payment[j].inc
                          /\ payment'[j].released = payment[j].released
                          /\ j \in rows => payment'[j].status = "succeeded"
    BY <1>1, Moved, Now DEF Statuses
  <2>7. Kept
    BY <1>2, <2>6 DEF Kept
  <2>8. LedgerMatchesPayments' /\ ledger' \subseteq Entry
    BY <1>2, <1>3, <2>6, <2>7
  <2>9. \A j \in rows : SeatOf(j, u)
    BY <2>2 DEF With, Live, SeatOf
  <2>10. Live(u)' = Live(u)
    <3>1. \A j \in Ids : j \in Live(u)' <=> j \in Live(u)
      <4> SUFFICES ASSUME NEW j \in Ids
                   PROVE  j \in Live(u)' <=> j \in Live(u)
        OBVIOUS
      <4>1. CASE j \in rows
        BY <2>2, <2>4, <2>5, <2>6, <4>1 DEF With, Live
      <4>2. CASE j \notin rows
        BY <2>4, <2>5, <2>6, <4>2 DEF Live
      <4> QED
        BY <4>1, <4>2
    <3> QED
      BY <3>1 DEF Live
  <2>11. With(Live(u), "pending")' = {}
    BY <2>2, <2>6, <2>10, LiveParts DEF With
  <2>12. SeatsOK(u)'
    <3>1. ASSUME NEW j \in Ids, SeatOf(j, u)'
          PROVE  /\ payment'[j].amount = Price /\ payment'[j].inc <= booking'[u].inc
                 /\ payment'[j].status = "pending" => j \in Live(u)' /\ booking'[u].status \in Held
      <4>1. SeatOf(j, u)
        BY <1>2, <2>6, <3>1 DEF SeatOf
      <4>2. payment'[j].status = "pending" => payment[j].status = "pending"
        BY <1>2, <2>6
      <4> QED
        BY <2>1, <2>4, <2>5, <2>6, <2>10, <4>1, <4>2 DEF SeatsOK
    <3> QED
      BY <2>1, <2>4, <2>5, <2>10, <2>11, <3>1 DEF SeatsOK
  <2>13. ASSUME NEW v \in Users
         PROVE  SeatsOK(v)'
    <3>1. ASSUME v # u
          PROVE  Apart(v)
      BY <2>5, <2>6, <2>9, <3>1 DEF Apart, SeatOf
    <3> QED
      BY <2>12, <3>1, ApartKeeps, Now
  <2>14. SeatsOnly
    BY <1>1, <2>3, <2>6, <2>9 DEF SeatsOnly, SeatOf
  <2>15. MoneyOK'
    BY <2>7, <2>14, Now, SeatsOnlyKeep
  <2>16. \A j \in Ids : payment[j].status = "none" => payment'[j] = payment[j]
    BY <1>2, <2>6
  <2> QED
    BY <1>1, <2>3, <2>5, <2>6, <2>7, <2>8, <2>13, <2>15, <2>16, Now, Step
<1> QED
  BY <1>4, <1>5

\* The rows of a decision "no" are seats given up unpaid, or one row.
LEMMA RejectKeeps ==
  ASSUME IInv, NEW i \in Ids, Reject(i)
  PROVE  IInv'
<1>1. payment[i].status = "pending" /\ UNCHANGED <<ledger, event, collection, screen>>
  BY DEF Reject
<1>2. CASE payment[i].of # "seat"
  <2>1. /\ payment' = Move({i}, "cancelled") /\ booking' = booking
        /\ subscription' = IF subscription[i] = "pending"
                           THEN [subscription EXCEPT ![i] = "cancelled"] ELSE subscription
    BY <1>2 DEF Reject
  <2>2. /\ payment' \in [Ids -> Payment] /\ Kept
        /\ payment'[i].status = "cancelled" /\ \A j \in Ids \ {i} : payment'[j] = payment[j]
        /\ subscription' \in [Ids -> {"none", "pending", "active", "cancelled"}]
        /\ \A v \in Users : SeatsOK(v)'
        /\ MoneyOK'
    BY <1>1, <1>2, <2>1, Decide
  <2>3. LedgerMatchesPayments' /\ ledger' \subseteq Entry
    BY <1>1, <2>2, LedgerStays
  <2>4. \A j \in Ids : payment[j].status = "none" => payment'[j] = payment[j]
    BY <1>1, <2>2
  <2> QED
    BY <1>1, <2>1, <2>2, <2>3, <2>4, Now, Step
<1>3. CASE payment[i].of = "seat"
  <2>1. PICK u \in Users : /\ u = payment[i].user /\ i \in Live(u)
                           /\ booking[u].status \in Held /\ SeatsOK(u)
    BY <1>1, <1>3, PendingSeat, Now
  <2> DEFINE P == With(Live(u), "pending")
             paid == With(Live(u), "succeeded")
  <2>2. booking[u] \in Booking /\ booking \in [Users -> Booking] /\ i \in P
        /\ MaxSeats \in Nat
    BY <1>1, <2>1, Now, AmountsAssumption DEF With
  <2>3. subscription' = subscription
    BY <1>3, Now DEF Reject, MoneyOK
  <2>4. CASE booking[u].status \in {"pending_payment", "confirmed"}
    <3> DEFINE b == Reduced(booking[u], paid)
    <3>1. payment' = Move(P, "cancelled") /\ booking' = [booking EXCEPT ![u] = b]
      BY <1>3, <2>1, <2>4 DEF Reject, Decided
    <3>2. payment' = Released(P, {})
      BY <3>1 DEF Move, Released
    <3>3. /\ Live(u) = P \union paid /\ P \intersect paid = {} /\ Live(u) \subseteq Ids
      BY LiveParts
    <3>4. Cardinality(paid) \in 0 .. MaxSeats
      <4>1. IsFiniteSet(Live(u)) /\ Cardinality(Live(u)) = booking[u].seats /\ paid \subseteq Live(u)
            /\ IsFiniteSet(paid) /\ Cardinality(paid) \in Nat
        BY <2>1, <2>4, <3>3, FiniteIds DEF SeatsOK
      <4>2. Cardinality(paid) <= Cardinality(Live(u))
        BY <4>1, FS_Subset
      <4>3. booking[u].seats \in 0 .. MaxSeats
        BY <2>2 DEF Booking
      <4> QED
        BY <2>2, <4>1, <4>2, <4>3
    <3> HIDE DEF paid
    <3>5. /\ b \in Booking /\ b.inc = booking[u].inc /\ b.status \in {"cancelled", "confirmed"}
          /\ b.status = "confirmed" => b.seats = Cardinality(paid)
      <4>1. CASE paid = {}
        BY <2>2, <4>1 DEF Reduced, Booking
      <4>2. CASE paid # {}
        BY <2>2, <3>4, <4>2 DEF Reduced, Booking
      <4> QED
        BY <4>1, <4>2
    <3> HIDE DEF b
    <3>6. Live(u) \ (P \union {}) = paid /\ P \ P = {}
      BY <3>3
    <3>7. b.status \in {"pending_payment", "confirmed"} =>
            /\ Cardinality(Live(u) \ (P \union {})) = b.seats
            /\ (b.status = "confirmed") <=> (P \ P = {})
      BY <3>5, <3>6
    <3> QED
      BY <1>1, <2>3, <3>1, <3>2, <3>5, <3>7, GivenUpKeeps
  <2>5. CASE booking[u].status \notin {"pending_payment", "confirmed"}
    <3>1. payment' = Move({i}, "cancelled") /\ booking' = booking
      BY <1>3, <2>1, <2>5 DEF Reject
    <3>2. payment' = Released({i}, {})
      BY <3>1 DEF Move, Released
    <3>3. booking' = [booking EXCEPT ![u] = booking[u]]
      BY <2>2, <3>1
    <3>4. {i} \subseteq P /\ {} \subseteq paid
      BY <2>2
    <3> QED
      BY <1>1, <2>1, <2>2, <2>3, <2>5, <3>2, <3>3, <3>4, GivenUpKeeps
  <2> QED
    BY <2>4, <2>5
<1> QED
  BY <1>2, <1>3

-----------------------------------------------------------------------------
(* The theorems.                                                           *)

LEMMA InvInit ==
  ASSUME Init
  PROVE  IInv
<1>1. NoPayment \in Payment /\ NoPayment.status = "none" /\ NoPayment.of = "seat"
  BY DEF NoPayment, Payment, Targets
<1>2. \A i \in Ids : payment[i] = NoPayment
  BY DEF Init
<1>3. TypeOK
  <2>1. [status |-> "none", seats |-> 0, inc |-> 0] \in Booking
    BY AmountsAssumption DEF Booking
  <2> QED
    BY <1>1, <2>1 DEF Init, TypeOK, Screen
<1>4. LedgerMatchesPayments
  BY <1>1, <1>2 DEF Init, LedgerMatchesPayments, Entries
<1>5. \A v \in Users : SeatsOK(v)
  BY <1>1, <1>2 DEF Init, SeatsOK, SeatOf
<1>6. SeatsHaveUsers /\ MoneyOK /\ ScreenOK
  BY <1>1, <1>2 DEF Init, SeatsHaveUsers, MoneyOK, ScreenOK
<1> QED
  BY <1>3, <1>4, <1>5, <1>6 DEF IInv

LEMMA StutterKeeps ==
  ASSUME IInv, UNCHANGED vars
  PROVE  IInv'
<1>1. /\ UNCHANGED payment /\ UNCHANGED ledger /\ UNCHANGED booking /\ UNCHANGED event
      /\ UNCHANGED subscription /\ UNCHANGED collection /\ UNCHANGED screen
  BY DEF vars
<1>2. Kept /\ \A v \in Users : Apart(v)
  BY <1>1 DEF Kept, Apart
<1>3. \A v \in Users : SeatsOK(v)'
  BY <1>2, Now, ApartKeeps
<1>4. LedgerMatchesPayments' /\ ledger' \subseteq Entry
  BY <1>1, Now DEF LedgerMatchesPayments, Entries
<1>5. MoneyOK'
  BY <1>1, Now DEF MoneyOK
<1> QED
  BY <1>1, <1>2, <1>3, <1>4, <1>5, Now, Step

LEMMA InvNext ==
  ASSUME IInv, Next
  PROVE  IInv'
<1>1. ASSUME NEW u \in Users, Player(u)
      PROVE  IInv'
  <2>1. ASSUME NEW k \in 1 .. MaxSeats, Book(u, k) \/ AddSeats(u, k) \/ DropSeats(u, k)
        PROVE  IInv'
    BY <2>1, BookKeeps, AddSeatsKeeps, DropSeatsKeeps
  <2>2. ASSUME NEW c \in Collections, NEW a \in Pledges, Contribute(u, c, a)
        PROVE  IInv'
    BY <2>2, ContributeKeeps
  <2> QED
    BY <1>1, <2>1, <2>2, CancelBookingKeeps, PurchaseKeeps DEF Player
<1>2. ASSUME Organizer
      PROVE  IInv'
  <2>1. screen.id # 0 => screen.id \in Ids
    BY Now DEF Screen
  <2>2. ASSUME NEW c \in Collections, CancelCollection(c)
        PROVE  IInv'
    BY <2>2, CancelCollectionKeeps
  <2>3. ASSUME NEW c \in Collections, NEW from, NEW to, SetCollection(c, from, to)
        PROVE  IInv'
    BY <2>3, SetCollectionKeeps
  <2> QED
    BY <1>2, <2>1, <2>2, <2>3, LookKeeps, ConfirmKeeps, RejectKeeps, AttendKeeps,
       CancelEventKeeps DEF Organizer
<1> QED
  BY <1>1, <1>2, BeginKeeps DEF Next

\* The invariant of the whole module holds in every reachable state.
THEOREM Invariance == Spec => []IInv
<1>1. Init => IInv
  BY InvInit
<1>2. IInv /\ [Next]_vars => IInv'
  BY InvNext, StutterKeeps
<1> QED
  BY <1>1, <1>2, PTL DEF Spec

\* Every row, entry, booking and collection has a state the code gives it.
THEOREM TypeCorrect == Spec => []TypeOK
<1>1. IInv => TypeOK
  BY DEF IInv
<1> QED
  BY <1>1, Invariance, PTL

\* However payments are decided on, seats given up and events cancelled, the
\* ledger has one income of every payment ever confirmed and one refund of
\* every payment given back.
THEOREM LedgerIsTrue == Spec => []LedgerMatchesPayments
<1>1. IInv => LedgerMatchesPayments
  BY DEF IInv
<1> QED
  BY <1>1, Invariance, PTL

\* Through changes of the number of seats and partial payments a booking has a
\* live payment per seat, and is confirmed when all are paid.
THEOREM OnePaymentEach == Spec => []OnePaymentPerSeat
<1>1. IInv => OnePaymentPerSeat
  BY DEF IInv, SeatsOK, OnePaymentPerSeat
<1> QED
  BY <1>1, Invariance, PTL

\* Nobody is asked for what he gave up, or twice for a pledge or a purchase.
THEOREM NothingIsOwedTwice == Spec => []PendingIsOwed
<1>1. ASSUME IInv
      PROVE  PendingIsOwed
  <2>1. ASSUME NEW i \in Ids, payment[i].status = "pending"
        PROVE  IF payment[i].of = "seat"
               THEN i \in Live(payment[i].user) /\ booking[payment[i].user].status # "cancelled"
               ELSE /\ payment[i].of \in Collections =>
                         collection[payment[i].of] \in {"active", "completed"}
                    /\ \A j \in Ids :
                         (/\ payment[j].status = "pending" /\ payment[j].of = payment[i].of
                          /\ payment[j].user = payment[i].user) => i = j
    <3>1. CASE payment[i].of = "seat"
      BY <1>1, <2>1, <3>1, PendingSeat DEF Held
    <3>2. CASE payment[i].of # "seat"
      BY <1>1, <2>1, <3>2, Now DEF MoneyOK
    <3> QED
      BY <3>1, <3>2
  <2>2. \A i \in Ids : (subscription[i] = "pending") <=>
          (payment[i].of = "subscription" /\ payment[i].status = "pending")
    BY <1>1, Now DEF MoneyOK
  <2> QED
    BY <2>1, <2>2 DEF PendingIsOwed
<1> QED
  BY <1>1, Invariance, PTL

\* A decision on a collection is on the amount that was on the screen.
THEOREM ConfirmedIsSeen == Spec => ConfirmedAsSeen
<1> DEFINE A == \A e \in ledger' \ ledger :
                  (e.type = "income" /\ payment[e.id].of \in Collections) =>
                     screen = [id |-> e.id, amount |-> e.amount]
<1>1. ASSUME IInv, Next
      PROVE  A
  <2>1. ASSUME NEW i \in Ids, i = screen.id, Confirm(i)
        PROVE  A
    <3> SUFFICES ASSUME NEW e \in ledger' \ ledger, e.type = "income",
                        payment[e.id].of \in Collections
                 PROVE  screen = [id |-> e.id, amount |-> e.amount]
      OBVIOUS
    <3>1. PICK j \in Decided(i) : e = [type |-> "income", id |-> j, amount |-> payment[j].amount]
      BY <2>1 DEF Confirm, Entries
    <3>2. j = i
      BY <3>1, TargetsAssumption DEF Decided, With, Live
    <3>3. screen.id # 0
      BY <2>1 DEF Ids
    <3>4. screen.amount = payment[i].amount /\ screen \in Screen
      BY <1>1, <2>1, <3>1, <3>2, <3>3, Now DEF ScreenOK
    <3> QED
      BY <2>1, <3>1, <3>2, <3>4 DEF Screen
  <2>2. ASSUME CancelEvent
        PROVE  A
    <3>1. PICK T : ledger' = ledger \union Entries(T, "refund")
      BY <2>2 DEF CancelEvent
    <3>2. \A e \in Entries(T, "refund") : e.type = "refund"
      BY DEF Entries
    <3> QED
      BY <3>1, <3>2
  <2>3. ASSUME ledger' = ledger
        PROVE  A
    BY <2>3
  <2>4. ASSUME NEW u \in Users, Player(u)
        PROVE  ledger' = ledger
    BY <2>4 DEF Player, Book, AddSeats, DropSeats, CancelBooking, Purchase, Contribute
  <2>5. screen.id # 0 => screen.id \in Ids
    BY <1>1, Now DEF Screen
  <2>6. CASE Organizer
    <3>1. \/ ledger' = ledger
          \/ CancelEvent
          \/ screen.id # 0 /\ Confirm(screen.id)
      BY <2>6 DEF Organizer, Look, Reject, Attend, CancelCollection, SetCollection
    <3> QED
      BY <2>1, <2>2, <2>3, <2>5, <3>1
  <2>7. Begin => ledger' = ledger
    BY DEF Begin
  <2> QED
    BY <1>1, <2>3, <2>4, <2>6, <2>7 DEF Next
<1>2. IInv /\ [Next]_vars => [A]_vars
  BY <1>1
<1> QED
  BY <1>2, Invariance, PTL DEF Spec, ConfirmedAsSeen

\* A player who gives up some of his seats gives up the unpaid ones first.
THEOREM PaidLast == Spec => PaidSeatsGoLast
<1> DEFINE B(u) ==
        (/\ booking[u].status \in {"pending_payment", "confirmed"} /\ booking'[u].status # "cancelled"
         /\ \E i \in Live(u) : payment'[i].released)
          => \A i \in Live(u) : payment'[i].status # "pending"
           A == \A u \in Users : B(u)
<1>1. ASSUME \A u \in Users : \A i \in Live(u) : ~payment'[i].released
      PROVE  A
  BY <1>1
<1>2. \A u : \A i \in Live(u) : /\ i \in Ids /\ ~payment[i].released
                                /\ payment[i].of = "seat" /\ payment[i].user = u
                                /\ payment[i].status \in {"pending", "succeeded"}
  BY DEF Live
<1>3. ASSUME IInv, UNCHANGED payment
      PROVE  A
  BY <1>1, <1>2, <1>3
<1>4. ASSUME IInv, NEW u \in Users, NEW P, NEW Q, P \intersect Q = {},
             payment' = Released(P, Q),
             \A i \in Q : payment[i].user = u,
             \/ booking'[u].status = "cancelled"
             \/ Q = {}
             \/ With(Live(u), "pending") \subseteq P
      PROVE  A
  <2>1. \A i \in Ids : /\ i \in P => payment'[i].status = "cancelled"
                       /\ i \notin P => payment'[i].status = payment[i].status
                       /\ i \notin Q => payment'[i].released = payment[i].released
    BY <1>4, ReleasedRows, Now
  <2> SUFFICES ASSUME NEW v \in Users, booking'[v].status # "cancelled",
                      NEW j \in Live(v), payment'[j].released,
                      NEW i \in Live(v)
               PROVE  payment'[i].status # "pending"
    OBVIOUS
  <2>2. j \in Q /\ v = u
    BY <1>2, <1>4, <2>1
  <2>3. With(Live(u), "pending") \subseteq P
    BY <1>4, <2>2
  <2>4. payment[i].status = "pending" => i \in P
    BY <2>2, <2>3 DEF With
  <2> QED
    BY <1>2, <2>1, <2>4
<1> HIDE DEF A
<1>5. ASSUME IInv, Next
      PROVE  A
  <2>1. ASSUME NEW u \in Users, NEW k \in 1 .. MaxSeats, DropSeats(u, k)
        PROVE  A
    <3> DEFINE unpaid == With(Live(u), "pending")
               P == Latest(unpaid, k)
               left == k - Cardinality(P)
               Q == Latest(With(Live(u), "succeeded"), left)
    <3>1. payment' = Released(P, Q) /\ k \in Nat
      BY <2>1 DEF DropSeats
    <3>2. unpaid \subseteq Ids
      BY DEF With, Live
    <3>3. /\ Cardinality(P) <= k /\ (Cardinality(P) < k => P = unpaid)
          /\ P \subseteq unpaid
      BY <3>1, <3>2, LatestCount
    <3>4. Cardinality(P) \in Nat
      BY <3>2, <3>3, FiniteIds
    <3>5. Q \subseteq With(Live(u), "succeeded")
      BY DEF Latest
    <3>6. P \intersect Q = {} /\ \A i \in Q : payment[i].user = u
      BY <3>3, <3>5 DEF With, Live
    <3>7. Q = {} \/ unpaid \subseteq P
      <4>1. CASE Cardinality(P) < k
        BY <3>3, <4>1
      <4>2. CASE Cardinality(P) = k
        <5>1. left = 0
          BY <3>1, <4>2
        <5>2. Q \subseteq Ids /\ IsFiniteSet(Q) /\ Cardinality(Q) <= 0 /\ Cardinality(Q) \in Nat
          BY <3>5, <5>1, LatestCount, FiniteIds DEF With, Live
        <5> QED
          BY <5>2, FS_EmptySet
      <4> QED
        BY <3>1, <3>3, <3>4, <4>1, <4>2
    <3> HIDE DEF P, Q
    <3> QED
      BY <1>4, <1>5, <3>1, <3>6, <3>7
  <2>2. ASSUME NEW u \in Users, CancelBooking(u)
        PROVE  A
    <3>1. /\ payment' = Released(With(Live(u), "pending"), With(Live(u), "succeeded"))
          /\ booking' = [booking EXCEPT ![u].status = "cancelled"]
      BY <2>2 DEF CancelBooking
    <3>2. booking'[u].status = "cancelled"
      BY <1>5, <3>1, Now DEF Booking
    <3>3. /\ With(Live(u), "pending") \intersect With(Live(u), "succeeded") = {}
          /\ \A i \in With(Live(u), "succeeded") : payment[i].user = u
      BY DEF With, Live
    <3> QED
      BY <1>4, <1>5, <3>1, <3>2, <3>3
  <2>3. ASSUME NEW S, NEW p \in Payment, \A i \in S : payment[i].status = "none",
               payment' = Insert(S, p)
        PROVE  A
    <3>1. \A i \in Ids : i \notin S => payment'[i] = payment[i]
      BY <1>5, <2>3, Inserted, Now
    <3>2. \A u : \A i \in Live(u) : i \notin S
      BY <1>2, <2>3
    <3> QED
      BY <1>1, <1>2, <3>1, <3>2
  <2>4. ASSUME NEW S, NEW s \in Statuses, payment' = Move(S, s)
        PROVE  A
    BY <1>1, <1>2, <1>5, <2>4, Moved, Now
  <2>5. ASSUME NEW u \in Users, Player(u)
        PROVE  A
    <3>1. ASSUME NEW k, Book(u, k) \/ AddSeats(u, k)
          PROVE  A
      <4>1. PICK inc \in Nat : payment' = Insert(Fresh(k), Seat(u, inc))
        BY <1>5, <3>1, Now DEF Book, AddSeats, Booking
      <4>2. \A i \in Fresh(k) : payment[i].status = "none"
        BY DEF Fresh, Unused
      <4>3. Seat(u, inc) \in Payment
        BY AmountsAssumption DEF Seat, NoPayment, Payment, Targets
      <4> QED
        BY <2>3, <4>1, <4>2, <4>3
    <3>2. ASSUME Purchase(u)
          PROVE  A
      <4> DEFINE p == [NoPayment EXCEPT !.of = "subscription", !.user = u, !.amount = Price,
                                        !.status = "pending"]
      <4>1. payment' = Insert(Fresh(1), p)
        BY <3>2 DEF Purchase
      <4>2. \A i \in Fresh(1) : payment[i].status = "none"
        BY DEF Fresh, Unused
      <4>3. p \in Payment
        BY AmountsAssumption DEF NoPayment, Payment, Targets
      <4> HIDE DEF p
      <4> QED
        BY <2>3, <4>1, <4>2, <4>3
    <3>3. ASSUME NEW c \in Collections, NEW a \in Pledges, Contribute(u, c, a)
          PROVE  A
      <4> DEFINE mine == {i \in Pending(c) : payment[i].user = u}
                 new == [NoPayment EXCEPT !.of = c, !.user = u, !.amount = a, !.status = "pending"]
                 m == Move(mine, "cancelled")
      <4>1. payment' = [i \in Ids |-> IF i \in Fresh(1) THEN new ELSE m[i]]
        BY <3>3 DEF Contribute
      <4>2. \A i \in Ids : m[i].released = payment[i].released
        BY <1>5, Moved, Now DEF Statuses
      <4> HIDE DEF m, new
      <4>3. \A i \in Ids : payment[i].status # "none" => payment'[i].released = payment[i].released
        BY <4>1, <4>2 DEF Fresh, Unused
      <4> QED
        BY <1>1, <1>2, <4>3
    <3> QED
      BY <2>1, <2>2, <2>5, <3>1, <3>2, <3>3 DEF Player
  <2>6. ASSUME CancelEvent
        PROVE  A
    <3> DEFINE held == {u \in Users : booking[u].status \notin {"none", "cancelled"}}
               live == UNION {Live(u) : u \in held}
               q(i) == [payment[i] EXCEPT !.status = IF @ = "pending" THEN "cancelled" ELSE "refunded"]
    <3>1. payment' = [i \in Ids |-> IF i \notin live THEN payment[i] ELSE q(i)]
      BY <2>6 DEF CancelEvent
    <3>2. \A i \in Ids : q(i).released = payment[i].released
      BY <1>5, Now DEF Payment
    <3> HIDE DEF live, q
    <3>3. \A i \in Ids : payment'[i].released = payment[i].released
      BY <3>1, <3>2
    <3> QED
      BY <1>1, <1>2, <3>3
  <2>7. ASSUME NEW i, Look(i) \/ Confirm(i) \/ Reject(i)
        PROVE  A
    BY <1>3, <1>5, <2>4, <2>7 DEF Look, Confirm, Reject, Statuses
  <2>8. ASSUME NEW c, CancelCollection(c)
        PROVE  A
    BY <2>4, <2>8 DEF CancelCollection, Statuses
  <2>9. CASE Organizer
    <3>1. ASSUME NEW c \in Collections, NEW from, NEW to, SetCollection(c, from, to)
          PROVE  A
      BY <1>3, <1>5, <3>1 DEF SetCollection
    <3>2. ASSUME NEW u \in Users, Attend(u)
          PROVE  A
      BY <1>3, <1>5, <3>2 DEF Attend
    <3> QED
      BY <2>6, <2>7, <2>8, <2>9, <3>1, <3>2 DEF Organizer
  <2>10. Begin => A
    BY <1>3, <1>5 DEF Begin
  <2> QED
    BY <1>5, <2>5, <2>9, <2>10 DEF Next
<1>6. IInv /\ [Next]_vars => [A]_vars
  BY <1>5
<1> QED
  BY <1>6, Invariance, PTL DEF Spec, PaidSeatsGoLast, A
=============================================================================
