-------------------------- MODULE MCRequestBinding --------------------------
(* Four copies of a keyed request, the last with another payload.          *)
EXTENDS RequestBinding, TLC

CONSTANTS c1, c2, c3, c4

OnePayloadDiffers == [c \in Copies |-> IF c = c4 THEN "p2" ELSE "p1"]
Symmetry == Permutations({c1, c2, c3})
=============================================================================
