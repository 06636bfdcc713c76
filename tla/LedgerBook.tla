----------------------------- MODULE LedgerBook -----------------------------
(***************************************************************************)
(* What settlement promises about a payment: its deposit, its payout and   *)
(* the ledger move together, in whole checkouts.  Transactions, locks, the *)
(* gateway, webhooks and wallets are all left to Settlement, which         *)
(* implements this module.                                                 *)
(***************************************************************************)
CONSTANTS Checkouts, Payments, CheckoutOf

VARIABLES deposit, payout, ledger

vars == <<deposit, payout, ledger>>

EntryTypes == {"deposit_pending_credit", "refund_debit", "payout_release_credit"}
Entered(type, p) == <<type, p>> \in ledger
PaymentsOf(c) == {p \in Payments : CheckoutOf[p] = c}

Init ==
  /\ deposit = [p \in Payments |-> "pending"]
  /\ payout = [p \in Payments |-> "pending"]
  /\ ledger = {}

Becomes(S, status) ==
  deposit' = [p \in Payments |-> IF p \in S THEN status ELSE deposit[p]]
Enter(type, S) == ledger' = ledger \cup ({type} \X S)

\* markCheckoutPaid: every payment of the checkout ends with its deposit
\* entered; those it does not mark paid had theirs already.
Settle(c, unpaid) ==
  /\ \A p \in PaymentsOf(c) \ unpaid : Entered("deposit_pending_credit", p)
  /\ Becomes(unpaid, "paid")
  /\ Enter("deposit_pending_credit", PaymentsOf(c))
  /\ UNCHANGED payout

\* processRefund: only deposits that were entered are refunded.
Refund(refundable) ==
  /\ \A p \in refundable : Entered("deposit_pending_credit", p)
  /\ Becomes(refundable, "refunded")
  /\ Enter("refund_debit", refundable)
  /\ UNCHANGED payout

\* releaseProviderPayout, once per payment.
Release(p) ==
  /\ payout[p] = "pending"
  /\ payout' = [payout EXCEPT ![p] = "released"]
  /\ Enter("payout_release_credit", {p})
  /\ UNCHANGED deposit

Next ==
  \/ \E c \in Checkouts : \E S \in SUBSET PaymentsOf(c) : Settle(c, S) \/ Refund(S)
  \/ \E p \in Payments : Release(p)

Spec == Init /\ [][Next]_vars
=============================================================================
