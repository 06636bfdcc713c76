--------------------------- MODULE MCWalkInCheckout ---------------------------
(* Small instances of WalkInCheckout for TLC. *)
EXTENDS WalkInCheckout, TLC

Symmetry == Permutations(Workers) \cup Permutations(Rows)
=============================================================================
