--------------------------- MODULE BalanceLedger ---------------------------
(***************************************************************************)
(* What the balance of events of a group promises, whatever transactions   *)
(* and locks carry it out: a number that is never below zero, and a        *)
(* journal in which every change of that number is written once.           *)
(*                                                                         *)
(* The journal is kept as what its partial UNIQUE indexes tell apart: the  *)
(* events with a "spend" row, those with a "refund" row, the purchase      *)
(* requests with a "purchase" row, the starting grant, and the sum of the  *)
(* operator's grants and corrections.                                      *)
(***************************************************************************)
EXTENDS Integers, FiniteSets

CONSTANTS
  Events,       \* the events of the group
  Requests,     \* the purchase requests of the group
  DemoQuota,    \* EVENT_BALANCE_DEMO_QUOTA
  Units,        \* units of the one package on sale
  Adjustments   \* the amounts an operator grants or corrects by

\* What the constants have to be; EventBalance assumes it of its own.
LedgerConstants ==
  /\ IsFiniteSet(Events) /\ IsFiniteSet(Requests)
  /\ DemoQuota \in Nat \ {0} /\ Units \in Nat \ {0} /\ Adjustments \subseteq Int \ {0}

VARIABLES
  balance,    \* organization_event_balances.balance
  spent,      \* events with a "spend" row
  refunded,   \* events with a "refund" row
  bought,     \* requests with a "purchase" row
  granted,    \* there is a starting grant
  extra       \* sum of the "grant" and "correction" rows

ledger == <<balance, spent, refunded, bought, granted, extra>>

Grant == IF granted THEN DemoQuota ELSE 0

Init ==
  /\ granted \in BOOLEAN
  /\ balance = Grant
  /\ spent = {} /\ refunded = {} /\ bought = {} /\ extra = 0

\* Events published together: one unit each, all or none.
Publish(S) ==
  /\ S \subseteq Events \ spent
  /\ Cardinality(S) <= balance
  /\ spent' = spent \union S /\ balance' = balance - Cardinality(S)
  /\ UNCHANGED <<refunded, bought, granted, extra>>

\* Events cancelled together: a unit back for each that spent one, once.
Refund(S) ==
  /\ S \subseteq spent \ refunded
  /\ refunded' = refunded \union S /\ balance' = balance + Cardinality(S)
  /\ UNCHANGED <<spent, bought, granted, extra>>

Purchase(r) ==
  /\ r \notin bought
  /\ bought' = bought \union {r} /\ balance' = balance + Units
  /\ UNCHANGED <<spent, refunded, granted, extra>>

StartingGrant ==
  /\ ~granted
  /\ granted' = TRUE /\ balance' = balance + DemoQuota
  /\ UNCHANGED <<spent, refunded, bought, extra>>

Adjust(n) ==
  /\ balance + n >= 0
  /\ extra' = extra + n /\ balance' = balance + n
  /\ UNCHANGED <<spent, refunded, bought, granted>>

Next ==
  \/ \E S \in SUBSET Events : Publish(S) \/ Refund(S)
  \/ \E r \in Requests : Purchase(r)
  \/ StartingGrant
  \/ \E n \in Adjustments : Adjust(n)

Spec == Init /\ [][Next]_ledger

LedgerTypeOK ==
  /\ balance \in Nat /\ extra \in Int /\ granted \in BOOLEAN
  /\ refunded \subseteq spent /\ spent \subseteq Events
  /\ bought \subseteq Requests

\* The sum of the journal, as the operator's reconciliation adds it up.
Journal ==
  extra + Grant + Units * Cardinality(bought) - Cardinality(spent) + Cardinality(refunded)

\* The projection never drifts from the journal.
BalanceMatchesJournal == balance = Journal
=============================================================================
