-------------------------- MODULE MCBalancePayment --------------------------
(* Small instances of BalancePayment for TLC. *)
EXTENDS BalancePayment, TLC

Symmetry == Permutations(Workers) \cup Permutations(Links)
=============================================================================
