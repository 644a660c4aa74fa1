---------------------------- MODULE MCRepository ----------------------------
EXTENDS Repository, TLC

CONSTANTS a, b, c, w1, w2, v1, v2

MCIds == {a, b}
MCTwoWriters == {w1, w2}
MCValues == {v1, v2}
MCTableNotes == {a, b, c}

\* c was embedded by another model.
MCDimOf == [n \in {a, b, c} |-> IF n = c THEN 2 ELSE 1]

Symmetric == Permutations({a, b})
=============================================================================
