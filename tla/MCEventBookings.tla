-------------------------- MODULE MCEventBookings --------------------------
(* Small instances of EventBookings for TLC.                               *)
EXTENDS EventBookings, TLC

\* Players differ only in what they do; `ahead` is a relation among them.
Symmetry == Permutations(Players)
=============================================================================
