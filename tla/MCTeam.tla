------------------------------- MODULE MCTeam -------------------------------
(* Three people, the founder among them, and two requests at a time. *)
EXTENDS Team, TLC
CONSTANTS p1, p2, p3, r1, r2, i1
Symmetry == Permutations({p2, p3}) \union Permutations({r1, r2})
=============================================================================
