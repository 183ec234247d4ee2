--------------------------- MODULE MCIssueLedger ---------------------------
EXTENDS IssueLedger, TLC

CONSTANTS a1, a2

(* The actors are alike.                                                     *)
Symmetry == Permutations(Actors)
=============================================================================
