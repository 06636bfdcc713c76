---------------------------- MODULE MCSettlement ----------------------------
(* Small instances of Settlement for TLC. *)
EXTENDS Settlement, TLC

CONSTANTS c1, c2, p1, p2, p3, p4, salon, stylist, x1, x2

\* Two checkouts, each of which can book the salon and the stylist together.
\* Each configuration takes the part of this world it names.
MCCheckoutOf == [p \in Payments |-> (p1 :> c1 @@ p2 :> c1 @@ p3 :> c2 @@ p4 :> c2)[p]]
MCProviderOf == [p \in Payments |-> (p1 :> salon @@ p2 :> stylist @@ p3 :> salon @@ p4 :> stylist)[p]]
MCCreatedAt == [p \in Payments |-> (p1 :> 1 @@ p2 :> 2 @@ p3 :> 3 @@ p4 :> 4)[p]]
MCKeyOrder == [v \in Providers |-> IF v = salon THEN 1 ELSE 2]
MCAmount == [p \in Payments |-> (p1 :> 2 @@ p2 :> 1 @@ p3 :> 3 @@ p4 :> 2)[p]]
MCRequesterOf == [x \in Withdrawals |-> salon]
MCWithdrawAmount == [x \in Withdrawals |-> (x1 :> 2 @@ x2 :> 1)[x]]

Symmetry == Permutations(Workers)
=============================================================================
