------------------------- MODULE MCDeliveryJournal -------------------------
(* Small instances of DeliveryJournal for TLC.                             *)
EXTENDS DeliveryJournal, TLC

\* Jobs are alike, and so are passes.
Symmetry == Permutations(Jobs) \union Permutations(Passes)
=============================================================================
