----------------------------- MODULE MCCheckout -----------------------------
(* Small instances of Checkout for TLC. *)
EXTENDS Checkout, TLC

CONSTANTS single, group, b1, b2

\* A booking paid for on its own or together with another one.
MCBookingsOf == [k \in Keys |-> IF k = single THEN {b1} ELSE {b1, b2}]

Symmetry == Permutations(Workers)
=============================================================================
