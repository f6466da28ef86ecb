--------------------------- MODULE MCEventBalance ---------------------------
\* EventBalance with a series of two dates and one single event.
EXTENDS EventBalance, TLC

CONSTANTS u1, u2, w1, w2, r1

Corrections == {-1}
Symmetry == Permutations({w1, w2})
=============================================================================
