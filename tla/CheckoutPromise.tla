-------------------------- MODULE CheckoutPromise ---------------------------
(***************************************************************************)
(* What initializePayment promises a customer: whoever asks for a link     *)
(* while the bookings are unpaid may be handed one, of a checkout whose    *)
(* payments were inserted once; only a link that was handed out is         *)
(* charged; and a charge that is settled pays all its bookings.  The       *)
(* statements, retries, races and faults are left to Checkout, which       *)
(* implements this module.                                                 *)
(***************************************************************************)
EXTENDS Naturals

CONSTANTS Keys, BookingsOf

VARIABLES asking, priced, links, charged, settled, paid

vars == <<asking, priced, links, charged, settled, paid>>

Init ==
  /\ asking = {} /\ links = {} /\ charged = {} /\ settled = {} /\ paid = {}
  /\ priced = [k \in Keys |-> 0]

Ask(k) ==
  /\ BookingsOf[k] \cap paid = {}
  /\ asking' = asking \cup {k}
  /\ UNCHANGED <<priced, links, charged, settled, paid>>

\* With an answer, or without one.
Leave(k) ==
  /\ asking' = asking \ {k}
  /\ UNCHANGED <<priced, links, charged, settled, paid>>

Price(k) ==
  /\ k \in asking /\ priced[k] = 0
  /\ priced' = [priced EXCEPT ![k] = 1]
  /\ UNCHANGED <<asking, links, charged, settled, paid>>

\* Others may be asking for the same link still.
HandOut(k) ==
  /\ k \in asking /\ priced[k] = 1
  /\ links' = links \cup {k}
  /\ asking' \in {asking, asking \ {k}}
  /\ UNCHANGED <<priced, charged, settled, paid>>

Charge(k) ==
  /\ k \in links \ charged
  /\ charged' = charged \cup {k}
  /\ UNCHANGED <<asking, priced, links, settled, paid>>

Settle(k) ==
  /\ k \in charged \ settled
  /\ settled' = settled \cup {k} /\ paid' = paid \cup BookingsOf[k]
  /\ UNCHANGED <<asking, priced, links, charged>>

Next ==
  \E k \in Keys :
    Ask(k) \/ Leave(k) \/ Price(k) \/ HandOut(k) \/ Charge(k) \/ Settle(k)

Spec == Init /\ [][Next]_vars
=============================================================================
