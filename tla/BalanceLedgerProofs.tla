------------------------- MODULE BalanceLedgerProofs -------------------------
(***************************************************************************)
(* The abstract balance keeps its promise: the number is never negative    *)
(* and is always what the journal adds up to.  Both are one inductive      *)
(* invariant; the sets it counts are finite because events and requests    *)
(* are.                                                                    *)
(***************************************************************************)
EXTENDS BalanceLedger, FiniteSetTheorems, TLAPS

Inv == LedgerTypeOK /\ BalanceMatchesJournal

\* Counting elements added to part of a finite set.
LEMMA AddedCount ==
  ASSUME NEW U, NEW S, NEW T, IsFiniteSet(U),
         S \subseteq U, T \subseteq U, S \intersect T = {}
  PROVE  /\ Cardinality(S) \in Nat /\ Cardinality(T) \in Nat
         /\ Cardinality(S \union T) = Cardinality(S) + Cardinality(T)
<1>1. IsFiniteSet(S) /\ IsFiniteSet(T)
  <2>1. S \in SUBSET U /\ T \in SUBSET U
    OBVIOUS
  <2> QED
    BY <2>1, FS_Subset
<1>3. Cardinality(S \union T)
        = Cardinality(S) + Cardinality(T) - Cardinality(S \intersect T)
  BY <1>1, FS_Union
<1>4. Cardinality(S) \in Nat /\ Cardinality(T) \in Nat
  BY <1>1, FS_CardinalityType
<1>5. Cardinality(S \intersect T) = 0
  BY FS_EmptySet, Zenon
<1> QED
  BY <1>3, <1>4, <1>5

\* The state before anything happened.
LEMMA InvInit ==
  ASSUME LedgerConstants, Init
  PROVE  Inv
<1>1. Cardinality({}) = 0
  BY FS_EmptySet
<1>2. DemoQuota \in Nat /\ Units \in Nat
  BY DEF LedgerConstants
<1>3. LedgerTypeOK
  BY <1>2 DEF Init, Grant, LedgerTypeOK
<1>4. Journal = 0 + Grant + Units * 0 - 0 + 0
  BY <1>1 DEF Init, Journal
<1> QED
  BY <1>2, <1>3, <1>4 DEF Init, Inv, BalanceMatchesJournal, Grant

\* Every step of the ledger changes balance and journal alike.
LEMMA InvNext ==
  ASSUME LedgerConstants, Inv, [Next]_ledger
  PROVE  Inv'
<1> USE DEF Inv, LedgerTypeOK
<1>0. /\ IsFiniteSet(Events) /\ IsFiniteSet(Requests)
      /\ DemoQuota \in Nat /\ Units \in Nat /\ Adjustments \subseteq Int
  BY DEF LedgerConstants
<1>1. Cardinality(bought) \in Nat /\ Cardinality(spent) \in Nat /\ Cardinality(refunded) \in Nat
  <2>1. bought \in SUBSET Requests /\ spent \in SUBSET Events /\ refunded \in SUBSET Events
    OBVIOUS
  <2> QED
    BY <1>0, <2>1, FS_Subset, FS_CardinalityType
<1>2. Units * Cardinality(bought) \in Nat
  BY <1>0, <1>1
<1>3. CASE UNCHANGED ledger
  BY <1>3 DEF ledger, BalanceMatchesJournal, Journal, Grant
<1>4. ASSUME NEW S \in SUBSET Events, Publish(S)
      PROVE  Inv'
  <2>1. /\ Cardinality(S) \in Nat
        /\ Cardinality(spent \union S) = Cardinality(spent) + Cardinality(S)
    <3>1. spent \subseteq Events /\ S \subseteq Events /\ spent \intersect S = {}
      BY <1>4 DEF Publish
    <3>2. IsFiniteSet(Events)
      BY <1>0
    <3> HIDE DEF Inv, LedgerTypeOK
    <3> QED
      BY <3>1, <3>2, AddedCount, Zenon
  <2>2. LedgerTypeOK'
    BY <1>4, <2>1 DEF Publish
  <2>3. BalanceMatchesJournal'
    BY <1>0, <1>1, <1>2, <1>4, <2>1
    DEF Publish, BalanceMatchesJournal, Journal, Grant
  <2> QED
    BY <2>2, <2>3
<1>5. ASSUME NEW S \in SUBSET Events, Refund(S)
      PROVE  Inv'
  <2>1. /\ Cardinality(S) \in Nat
        /\ Cardinality(refunded \union S) = Cardinality(refunded) + Cardinality(S)
    <3>1. refunded \subseteq Events /\ S \subseteq Events /\ refunded \intersect S = {}
      BY <1>5 DEF Refund
    <3>2. IsFiniteSet(Events)
      BY <1>0
    <3> HIDE DEF Inv, LedgerTypeOK
    <3> QED
      BY <3>1, <3>2, AddedCount, Zenon
  <2>2. LedgerTypeOK'
    BY <1>5, <2>1 DEF Refund
  <2>3. BalanceMatchesJournal'
    BY <1>0, <1>1, <1>2, <1>5, <2>1
    DEF Refund, BalanceMatchesJournal, Journal, Grant
  <2> QED
    BY <2>2, <2>3
<1>6. ASSUME NEW r \in Requests, Purchase(r)
      PROVE  Inv'
  <2>1. Cardinality(bought \union {r}) = Cardinality(bought) + 1
    <3>1. IsFiniteSet(bought)
      BY <1>0, FS_Subset
    <3> QED
      BY <1>6, <3>1, FS_AddElement DEF Purchase
  <2>2. Units * (Cardinality(bought) + 1) = Units * Cardinality(bought) + Units
    BY <1>0, <1>1
  <2>3. LedgerTypeOK'
    BY <1>0, <1>6 DEF Purchase
  <2>4. Journal' = Journal + Units
    <3>1. Units * Cardinality(bought') = Units * Cardinality(bought) + Units
      BY <1>6, <2>1, <2>2 DEF Purchase
    <3> HIDE <2>1, <2>2
    <3> QED
      BY <1>0, <1>1, <1>2, <1>6, <3>1 DEF Purchase, Journal, Grant
  <2> QED
    BY <1>0, <1>6, <2>3, <2>4 DEF Purchase, BalanceMatchesJournal
<1>7. CASE StartingGrant
  BY <1>0, <1>1, <1>2, <1>7 DEF StartingGrant, BalanceMatchesJournal, Journal, Grant
<1>8. ASSUME NEW n \in Adjustments, Adjust(n)
      PROVE  Inv'
  BY <1>0, <1>1, <1>2, <1>8 DEF Adjust, BalanceMatchesJournal, Journal, Grant
<1> QED
  BY <1>3, <1>4, <1>5, <1>6, <1>7, <1>8 DEF Next

\* The balance is a natural number, and the operator's reconciliation never
\* finds it apart from the sum of its journal (scripts/event-balance.ts).
THEOREM Balanced ==
  ASSUME LedgerConstants
  PROVE  Spec => [](LedgerTypeOK /\ BalanceMatchesJournal)
<1>1. Init => Inv
  BY InvInit
<1>2. Inv /\ [Next]_ledger => Inv'
  BY InvNext
<1> QED
  BY <1>1, <1>2, PTL DEF Spec, Inv
=============================================================================
