--------------------------- MODULE MCGroupPayments ---------------------------
\* GroupPayments with two players and one collection.
EXTENDS GroupPayments, TLC

CONSTANTS u1, u2, c1

Symmetry == Permutations(Users)
=============================================================================
