---------------------------- MODULE FavouriteSet ----------------------------
(***************************************************************************)
(* What the favourites of a customer promise: every call that is answered  *)
(* takes effect at one moment, and its answer is true at that moment.  The *)
(* rows of the table, the look before each write and the calls that fail   *)
(* are left to Collections, which implements this module.                  *)
(***************************************************************************)
CONSTANT Things

VARIABLES favs, answer

vars == <<favs, answer>>

Init == favs = {} /\ answer = {}

Ops == {"add", "remove", "toggle"}

Answered(op, t) ==
  LET before == t \in favs
      after == op = "add" \/ (op = "toggle" /\ ~before)
  IN /\ favs' = IF after THEN favs \cup {t} ELSE favs \ {t}
     /\ answer' = {<<op, t, before, after>>}

Next == \E op \in Ops, t \in Things : Answered(op, t)

Spec == Init /\ [][Next]_vars
=============================================================================
