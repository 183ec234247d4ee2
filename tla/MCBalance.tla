------------------------------ MODULE MCBalance -----------------------------
EXTENDS Balance_proofs, TLC

CONSTANTS r1, r2, s1, s2, w1, w2, w3

MCPrice == [r \in Runs |-> IF r = r1 THEN 2 ELSE 3]
MCAmount == [s \in Sessions |-> 2]

Symmetry == Permutations(Workers) \union Permutations(Sessions)
=============================================================================
