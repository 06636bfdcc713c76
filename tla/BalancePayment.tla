--------------------------- MODULE BalancePayment ---------------------------
(***************************************************************************)
(* A booking paid in two parts: the deposit, charged with the checkout, and *)
(* the balance, collected later by a payment link or in cash.  The module   *)
(* holds the Payment row of the booking and Booking.paymentStatus, and all  *)
(* calls that write either: the settlement and the refund of the deposit,   *)
(* generateBalancePaymentLink, markBalanceCashPaid, markRemainingCaptured   *)
(* (src/modules/payments/payments.service.ts), and the two places where the *)
(* walk-in queue writes the status of a booking on its own account          *)
(* (src/modules/qr-checkin/qr-checkin.service.ts).  updateBookingStatus     *)
(* reads it: a booking that is shown as paid is paid out when it is         *)
(* completed, and refunded when it is cancelled; and it writes what a       *)
(* request asks for (src/modules/bookings/bookings.service.ts).  Anybody    *)
(* signed in may ask for a payout, too (payments.controller.ts).            *)
(*                                                                          *)
(* A database transaction is one step here, its commit: Settlement has the  *)
(* statements.  What a call read before its transaction is in call[w].      *)
(***************************************************************************)
EXTENDS Naturals, FiniteSets

CONSTANTS
  Links,       \* bound: balance payments opened at Paystack, by their references
  Workers,     \* calls that may be in flight at the same time
  None,        \* "no reference"
  MaxCash,     \* bound: how often the vendor takes the balance in cash
  MaxFaults,   \* bound: calls cut short and statuses written by requests, together
  Queue,       \* TRUE if the salon uses the walk-in queue
  Refunds      \* TRUE if the deposit may be refunded

ASSUME BalanceAssumption ==
  /\ None \notin Links
  /\ MaxCash \in Nat /\ MaxFaults \in Nat
  /\ Queue \in BOOLEAN /\ Refunds \in BOOLEAN

VARIABLES
  deposit,    \* Payment.depositStatus
  remaining,  \* Payment.remainingStatus
  reference,  \* Payment.paystackRemainingRef
  booking,    \* Booking.paymentStatus
  payout,     \* Payment.payoutStatus
  given,      \* links handed out
  charged,    \* Paystack: links that were paid
  due,        \* events of Paystack not processed yet
  returned,   \* Paystack: the deposit was refunded
  cash,       \* how often the vendor took the balance in cash
  queued,     \* TRUE once the queue wrote the booking as paid on its own account
  edits,      \* payment statuses written by requests so far
  resettled,  \* TRUE once the deposit was settled after the balance was captured
  late,       \* TRUE if the balance was captured after the deposit was refunded
  call,       \* what each worker is doing
  crashes     \* calls cut short so far

rows == <<deposit, remaining, reference, booking, payout>>
money == <<given, charged, due, returned, cash, queued, edits>>
history == <<resettled, late>>
vars == <<rows, money, history, call, crashes>>

PaymentStatuses == {"unpaid", "partial", "paid", "refunded"}
Ops == {"idle", "settle", "refund", "link", "cash", "capture", "sync", "record",
        "complete", "outdated", "cancel"}
Calls == [op : Ops, link : Links \cup {None}]
Idle == [op |-> "idle", link |-> None]

\* The customer has paid the deposit; Paystack is about to say so.
Init ==
  /\ deposit = "pending" /\ remaining = "pending" /\ reference = None
  /\ booking = "unpaid" /\ payout = "pending"
  /\ given = {} /\ charged = {} /\ due = {None} /\ returned = FALSE
  /\ cash = 0 /\ queued = FALSE /\ edits = 0
  /\ resettled = FALSE /\ late = FALSE
  /\ call = [w \in Workers |-> Idle]
  /\ crashes = 0

Start(w, op, link) ==
  /\ call[w] = Idle
  /\ call' = [call EXCEPT ![w] = [op |-> op, link |-> link]]
Return(w) == call' = [call EXCEPT ![w] = Idle]

\* The booking is written as no longer paid: a call about to pay out has read
\* what does not hold any more.
Overtake(c, status) ==
  IF c.op = "complete" /\ status # "paid" THEN [c EXCEPT !.op = "outdated"] ELSE c
ReturnWriting(w, status) ==
  call' = [u \in Workers |-> IF u = w THEN Idle ELSE Overtake(call[u], status)]

\* The balance is captured, whatever became of the deposit.
Capture ==
  /\ remaining' = "captured" /\ booking' = "paid"
  /\ late' = (deposit = "refunded")
  /\ UNCHANGED <<deposit, reference, payout, money, resettled, crashes>>

-----------------------------------------------------------------------------
(* The deposit.  Its event is None in due.                                  *)

\* processWebhookEvent and verifyPayment both go on to markCheckoutPaid; the
\* latter only if it read the checkout as not paid yet.
HearOfDeposit(w) ==
  /\ Start(w, "settle", None)
  /\ \/ None \in due /\ due' = due \ {None}
     \/ deposit = "pending" /\ UNCHANGED due
  /\ UNCHANGED <<rows, given, charged, returned, cash, queued, edits, history, crashes>>

\* Mutant: the deposit is written whether or not it is there already.
MarkCheckoutPaidAgain(w) ==
  /\ call[w].op = "settle"
  /\ deposit' = "paid" /\ remaining' = "authorized"
  /\ booking' = "partial"
  /\ resettled' = (resettled \/ remaining = "captured")
  /\ late' = FALSE
  /\ ReturnWriting(w, "partial")
  /\ UNCHANGED <<reference, payout, money, crashes>>

\* markCheckoutPaid: a deposit that is paid is left alone, and so is its balance,
\* but the bookings become partial in any case.
MarkCheckoutPaid(w) ==
  /\ call[w].op = "settle"
  /\ IF deposit = "paid"
       THEN UNCHANGED <<deposit, remaining>>
       ELSE deposit' = "paid" /\ remaining' = "authorized"
  /\ booking' = "partial"
  /\ resettled' = (resettled \/ remaining = "captured")
  /\ late' = FALSE
  /\ ReturnWriting(w, "partial")
  /\ UNCHANGED <<reference, payout, money, crashes>>

\* processRefund reads a paid deposit, and Paystack returns it, once.
RefundAtGateway(w) ==
  /\ Refunds /\ deposit = "paid" /\ ~returned
  /\ Start(w, "refund", None)
  /\ returned' = TRUE
  /\ UNCHANGED <<rows, given, charged, due, cash, queued, edits, history, crashes>>

\* The refund is recorded.
ProcessRefund(w) ==
  /\ call[w].op = "refund"
  /\ deposit' = "refunded" /\ booking' = "refunded"
  /\ late' = FALSE
  /\ ReturnWriting(w, "refunded")
  /\ UNCHANGED <<remaining, reference, payout, money, resettled, crashes>>

-----------------------------------------------------------------------------
(* The balance.                                                             *)

Collectable == deposit = "paid" /\ remaining # "captured"

\* A reference no payment was opened with yet; which one does not matter.
Unused == {l \in Links \ given : \A w \in Workers : call[w].link # l}
Fresh(l) == l \in Unused /\ l = CHOOSE k \in Unused : TRUE

\* Mutant: the customer has the link before the reference is recorded.
GenerateAndSendLink(w, l) ==
  /\ Collectable
  /\ Fresh(l)
  /\ Start(w, "link", l)
  /\ given' = given \cup {l}
  /\ UNCHANGED <<rows, charged, due, returned, cash, queued, edits, history, crashes>>

\* generateBalancePaymentLink: the balance is open; Paystack is asked for a
\* transaction under a reference of its own.
GenerateBalancePaymentLink(w, l) ==
  /\ Collectable
  /\ Fresh(l)
  /\ Start(w, "link", l)
  /\ UNCHANGED <<rows, money, history, crashes>>

\* The reference replaces the one before, and the link is handed out.
RecordLink(w) ==
  /\ call[w].op = "link"
  /\ reference' = call[w].link
  /\ given' = given \cup {call[w].link}
  /\ Return(w)
  /\ UNCHANGED <<deposit, remaining, booking, payout, charged, due, returned, cash,
                 queued, edits, history, crashes>>

\* External: a customer pays a link; Paystack will tell.
PayLink(l) ==
  /\ l \in given \ charged
  /\ charged' = charged \cup {l}
  /\ due' = due \cup {l}
  /\ UNCHANGED <<rows, given, returned, cash, queued, edits, history, call, crashes>>

\* processWebhookEvent: the reference is looked up among the payments; an event
\* for a reference that was replaced, or a balance captured already, is dropped.
ProcessBalanceEvent(w, l) ==
  /\ l \in due \cap Links
  /\ due' = due \ {l}
  /\ IF l = reference /\ remaining # "captured"
       THEN Start(w, "capture", l)
       ELSE call[w] = Idle /\ UNCHANGED call
  /\ UNCHANGED <<rows, given, charged, returned, cash, queued, edits, history, crashes>>

\* verifyPayment with the reference of the balance: Paystack says it was paid.
VerifyBalance(w, l) ==
  /\ l = reference /\ remaining # "captured"
  /\ l \in charged
  /\ Start(w, "capture", l)
  /\ UNCHANGED <<rows, money, history, crashes>>

\* Mutant: the booking is synchronised with the remaining amount of the row.
MarkRemainingCapturedAsIs(w) ==
  /\ call[w].op = "capture"
  /\ remaining' = "captured" /\ booking' = "partial"
  /\ Return(w)
  /\ UNCHANGED <<deposit, reference, payout, money, history, crashes>>

\* markRemainingCaptured: nothing is left to pay.
MarkRemainingCaptured(w) ==
  /\ call[w].op = "capture"
  /\ Capture
  /\ Return(w)

\* markBalanceCashPaid: the vendor has the money, the balance is open ...
TakeCash(w) ==
  /\ Collectable /\ cash < MaxCash
  /\ Start(w, "cash", None)
  /\ cash' = cash + 1
  /\ UNCHANGED <<rows, given, charged, due, returned, queued, edits, history, crashes>>

\* ... and it is recorded.
MarkBalanceCashPaid(w) ==
  /\ call[w].op = "cash"
  /\ Capture
  /\ Return(w)

-----------------------------------------------------------------------------
(* The walk-in queue.                                                       *)

\* getQueue and getPaymentStatus look for a paid deposit of a booking that is
\* not shown as paid ...
FindMismatch(w) ==
  /\ Queue /\ booking # "paid" /\ deposit = "paid"
  /\ Start(w, "sync", None)
  /\ UNCHANGED <<rows, money, history, crashes>>

\* ... and synchronise it.
SyncMismatch(w) ==
  /\ call[w].op = "sync"
  /\ booking' = "paid" /\ queued' = TRUE
  /\ Return(w)
  /\ UNCHANGED <<deposit, remaining, reference, payout, given, charged, due, returned,
                 cash, edits, history, crashes>>

\* recordPayment: a payment in cash or by transfer, of a booking not paid yet ...
TakePayment(w) ==
  /\ Queue /\ booking # "paid"
  /\ Start(w, "record", None)
  /\ UNCHANGED <<rows, money, history, crashes>>

\* ... is recorded.
RecordPayment(w) ==
  /\ call[w].op = "record"
  /\ booking' = "paid" /\ queued' = TRUE
  /\ Return(w)
  /\ UNCHANGED <<deposit, remaining, reference, payout, given, charged, due, returned,
                 cash, edits, history, crashes>>

-----------------------------------------------------------------------------
(* The booking is completed or cancelled.                                   *)

\* Mutant: a booking that shows anything but unpaid is paid out.
CompletePartlyPaid(w) ==
  /\ booking # "unpaid"
  /\ Start(w, "complete", None)
  /\ UNCHANGED <<rows, money, history, crashes>>

\* updateBookingStatus to completed: a booking that was read as paid is paid out
\* after the status is written ...
CompleteBooking(w) ==
  /\ booking = "paid"
  /\ Start(w, "complete", None)
  /\ UNCHANGED <<rows, money, history, crashes>>

\* ... by releaseProviderPayout, which looks at the payout alone.
ReleaseProviderPayout(w) ==
  /\ call[w].op \in {"complete", "outdated"}
  /\ payout' = "released"
  /\ Return(w)
  /\ UNCHANGED <<deposit, remaining, reference, booking, money, history, crashes>>

\* POST /payment/release-payout runs it for any payment that was not paid out yet,
\* whatever became of its deposit, its balance and its booking.
RequestRelease ==
  /\ payout = "pending" /\ payout' = "released"
  /\ UNCHANGED <<deposit, remaining, reference, booking, money, history, call, crashes>>

\* updateBookingStatus to cancelled: a booking that was read as paid is refunded
\* after the status is written ...
CancelBooking(w) ==
  /\ Refunds /\ booking = "paid"
  /\ Start(w, "cancel", None)
  /\ UNCHANGED <<rows, money, history, crashes>>

\* ... by processRefund; if it or Paystack refuses, the call goes on without it.
RefundCancelled(w) ==
  /\ call[w].op = "cancel"
  /\ IF deposit = "paid" /\ ~returned
       THEN returned' = TRUE /\ call' = [call EXCEPT ![w].op = "refund"]
       ELSE UNCHANGED returned /\ Return(w)
  /\ UNCHANGED <<rows, given, charged, due, cash, queued, edits, history, crashes>>

\* updateBookingStatus writes the payment status that a request names.
EditPaymentStatus(s) ==
  /\ edits + crashes < MaxFaults /\ edits' = edits + 1
  /\ booking' = s
  /\ call' = [w \in Workers |-> Overtake(call[w], s)]
  /\ UNCHANGED <<deposit, remaining, reference, payout, given, charged, due, returned,
                 cash, queued, history, crashes>>

\* A call is cut short before its transaction commits.
Crash(w) ==
  /\ call[w].op # "idle" /\ edits + crashes < MaxFaults
  /\ crashes' = crashes + 1
  /\ Return(w)
  /\ UNCHANGED <<rows, money, history>>

Finish(w) ==
  \/ MarkCheckoutPaid(w) \/ ProcessRefund(w) \/ RecordLink(w)
  \/ MarkRemainingCaptured(w) \/ MarkBalanceCashPaid(w) \/ SyncMismatch(w)
  \/ RecordPayment(w)
  \/ ReleaseProviderPayout(w) \/ RefundCancelled(w)

Next ==
  \/ \E w \in Workers :
       \/ HearOfDeposit(w) \/ RefundAtGateway(w) \/ TakeCash(w)
       \/ FindMismatch(w) \/ TakePayment(w) \/ Finish(w) \/ Crash(w)
       \/ CompleteBooking(w) \/ CancelBooking(w)
       \/ \E l \in Links : \/ GenerateBalancePaymentLink(w, l)
                           \/ ProcessBalanceEvent(w, l) \/ VerifyBalance(w, l)
  \/ \E l \in Links : PayLink(l)
  \/ RequestRelease
  \/ \E s \in PaymentStatuses : EditPaymentStatus(s)

Spec == Init /\ [][Next]_vars

\* Calls go on, and Paystack delivers its events and they are processed.
Fairness ==
  /\ \A w \in Workers : WF_vars(Finish(w))
  /\ \A l \in Links : SF_vars(\E w \in Workers : ProcessBalanceEvent(w, l))

FairSpec == Spec /\ Fairness

-----------------------------------------------------------------------------
\* The columns and calls have their types.
TypeOK ==
  /\ deposit \in {"pending", "paid", "refunded"}
  /\ remaining \in {"pending", "authorized", "captured"}
  /\ reference \in Links \cup {None}
  /\ booking \in PaymentStatuses
  /\ payout \in {"pending", "released"}
  /\ given \subseteq Links /\ charged \subseteq Links /\ due \subseteq Links \cup {None}
  /\ returned \in BOOLEAN /\ queued \in BOOLEAN
  /\ resettled \in BOOLEAN /\ late \in BOOLEAN
  /\ cash \in 0..MaxCash /\ crashes \in 0..MaxFaults /\ edits \in 0..MaxFaults
  /\ call \in [Workers -> Calls]

\* Nothing counts as captured that nobody paid: behind a captured balance is a
\* paid link or cash, however the calls that capture it cross each other.
CapturedIsCollected == remaining = "captured" => charged # {} \/ cash > 0

\* A captured balance stays captured: the settlement of the deposit, which
\* writes remainingStatus too, may come late or twice, but reopens the balance
\* only of a deposit that was refunded.
CapturedStays ==
  [][remaining = "captured" /\ deposit # "refunded" => remaining' = "captured"]_vars

\* The booking shows what became of the payment, whichever call wrote it last: one
\* whose two parts are paid is shown as paid, unless the deposit was settled once
\* more afterwards (markCheckoutPaid makes it partial again); one whose deposit was
\* refunded is shown as refunded, unless the balance was taken all the same or the
\* queue wrote what it had read before (getQueue).  A request may write anything.
BookingFollowsPayment ==
  edits = 0 =>
    /\ remaining = "captured" /\ deposit = "paid" => booking = "paid" \/ resettled
    /\ deposit = "refunded" => booking = "refunded" \/ remaining = "captured" \/ queued

\* Completing a booking pays the provider out only if both parts stand: the balance
\* is captured, and the deposit paid, unless the balance was captured after the
\* deposit was returned.  It may be otherwise only if the queue or a request had
\* called the booking paid, or if the booking changed after updateBookingStatus had
\* read it as paid.  A request for the payout itself is not held to any of this.
PaidUp == remaining = "captured" /\ (deposit = "paid" \/ late)
PayoutEarned ==
  [][\A w \in Workers : call[w].op = "complete" /\ call'[w] = Idle /\ payout' # payout =>
       PaidUp \/ queued \/ edits > 0]_vars

\* A paid link that the payment still refers to is captured in the end, through
\* the event alone, unless the deposit is refunded or the call that processes the
\* event is cut short.
PaidLinkCaptured ==
  reference \in charged
    ~> remaining = "captured" \/ reference \notin charged \/ returned \/ crashes > 0
=============================================================================
