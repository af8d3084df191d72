--------------------------- MODULE MCIdempotency ---------------------------
(* Instances of Idempotency for TLC. *)
EXTENDS Idempotency, TLC

CONSTANTS k1, k2, w1, w2, s1

Symmetry == Permutations(Keys) \union Permutations(Workers)
=============================================================================
