---------------------------- MODULE MCMembership ----------------------------
\* Membership with a player the organizers manage and another who comes by a link.
EXTENDS Membership, TLC

CONSTANTS u1, u2, w1, w2, i1, l1

AtFirst ==
  {[u \in Users |-> IF u \in Managed THEN status ELSE "none"] :
     status \in {"none", "pending", "active", "guest"}}

Symmetry == Permutations({w1, w2})
=============================================================================
