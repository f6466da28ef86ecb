----------------------------- MODULE MCChatLink -----------------------------
\* ChatLink with two groups that may want one chat.
EXTENDS ChatLink, TLC

CONSTANTS g1, g2, c1, w1, w2

Symmetry == Permutations({w1, w2}) \union Permutations(Groups)
=============================================================================
