---------------------------- MODULE WalkInCheckout ----------------------------
(***************************************************************************)
(* The payment link of one walk-in booking: initializePayment of           *)
(* src/modules/qr-checkin/qr-checkin.service.ts, which the vendor's screen *)
(* and checkIn call, with what Paystack's events and the polling of the    *)
(* screen do to the rows it makes.                                         *)
(*                                                                         *)
(* Unlike PaymentsService.initializePayment (module Checkout) it throws an *)
(* unfinished checkout away and makes a new one under the same key, and it *)
(* uses no transaction.  So a booking goes through several checkout rows,  *)
(* each with a payment row and a Paystack reference of its own.            *)
(***************************************************************************)
EXTENDS Naturals, FiniteSets

CONSTANTS
  Rows,        \* checkout rows the booking may go through (bounds the retries)
  Workers,     \* calls that may be in flight at the same time
  None,        \* "no row"
  FaultKinds,  \* bound: what may go wrong in an instance
  MaxFaults    \* bound: how often

ASSUME WalkInAssumption ==
  /\ None \notin Rows
  /\ FaultKinds \subseteq {"unreachable", "unanswered", "crash"}
  /\ MaxFaults \in Nat

VARIABLES
  status,      \* PaymentCheckout.status of each row
  payment,     \* depositStatus of its payment row, which may outlive it
  linked,      \* rows that recorded a reference and a URL
  bookingPaid, \* Booking.paymentStatus is 'paid'
  opened,      \* Paystack: references it has a transaction for
  given,       \* rows whose link was handed out
  charged,     \* Paystack: references that were paid
  declined,    \* Paystack: references with a declined attempt
  heard,       \* charges whose event was taken up
  settling,    \* checkouts that are about to be marked paid
  failing,     \* checkouts that are about to be marked failed
  mismatch,    \* a poll saw a paid row of an unpaid booking
  call,        \* what each worker is doing
  faults,      \* things that went wrong so far
  overtaken,   \* history: rows a call found before their link was recorded
  refused,     \* history: rows marked failed
  halfCleared  \* history: rows whose removal was cut short

tables == <<status, payment, linked, bookingPaid>>
paystack == <<opened, given, charged, declined>>
events == <<heard, settling, failing, mismatch>>
history == <<overtaken, refused, halfCleared>>
vars == <<tables, paystack, events, call, faults, history>>

Steps == {"idle", "find", "clearPayments", "clearCheckout", "create", "pay",
          "open", "record", "undoPayments", "undoCheckout"}
\* paidSince: the rows settled since the call looked at the booking.
Calls == [step : Steps, row : Rows \cup {None}, paidSince : SUBSET Rows]
Idle == [step |-> "idle", row |-> None, paidSince |-> {}]

Present == {r \in Rows : status[r] \in {"pending", "paid", "failed"}}
Unused == {r \in Rows : status[r] = "none"}

Init ==
  /\ status = [r \in Rows |-> "none"]
  /\ payment = [r \in Rows |-> "none"]
  /\ linked = {} /\ bookingPaid = FALSE
  /\ opened = {} /\ given = {} /\ charged = {} /\ declined = {}
  /\ heard = {} /\ settling = {} /\ failing = {} /\ mismatch = FALSE
  /\ call = [w \in Workers |-> Idle]
  /\ faults = 0
  /\ overtaken = {} /\ refused = {} /\ halfCleared = {}

Goto(w, step) == call' = [call EXCEPT ![w].step = step]
GotoWith(w, step, r) == call' = [call EXCEPT ![w].step = step, ![w].row = r]
Return(w) == call' = [call EXCEPT ![w] = Idle]
Fault(kind) == kind \in FaultKinds /\ faults < MaxFaults /\ faults' = faults + 1

-----------------------------------------------------------------------------
\* Mutant: the booking is not looked at.
InitializeAnyPayment(w) ==
  /\ call[w].step = "idle"
  /\ Goto(w, "find")
  /\ UNCHANGED <<tables, paystack, events, faults, history>>

\* initializePayment: the booking must not be paid yet.
InitializePayment(w) ==
  /\ call[w].step = "idle"
  /\ ~bookingPaid
  /\ Goto(w, "find")
  /\ UNCHANGED <<tables, paystack, events, faults, history>>

\* Mutant: every call makes a new link.
FindCheckoutToReplace(w) ==
  /\ call[w].step = "find"
  /\ IF Present = {}
       THEN Goto(w, "create")
       ELSE \E r \in Present : GotoWith(w, "clearPayments", r)
  /\ UNCHANGED <<tables, paystack, events, faults, history>>

\* A pending checkout with a link is the answer; any other one is to be
\* cleared away.
FindCheckout(w) ==
  /\ call[w].step = "find"
  /\ \/ /\ Present = {}
        /\ Goto(w, "create")
        /\ UNCHANGED <<given, overtaken>>
     \/ \E r \in Present :
          IF r \in linked /\ status[r] = "pending"
            THEN Return(w) /\ given' = given \cup {r} /\ UNCHANGED overtaken
            ELSE /\ GotoWith(w, "clearPayments", r)
                 /\ overtaken' = IF r \in linked THEN overtaken ELSE overtaken \cup {r}
                 /\ UNCHANGED given
  /\ UNCHANGED <<tables, opened, charged, declined, events, faults, refused, halfCleared>>

\* payment.deleteMany by checkout: a payment whose checkout is gone has lost
\* its checkoutId and is not found.
DeletePayments(w) ==
  LET r == call[w].row
  IN /\ call[w].step \in {"clearPayments", "undoPayments"}
     /\ payment' = [payment EXCEPT ![r] =
                      IF r \in Present /\ @ # "none" THEN "deleted" ELSE @]
     /\ Goto(w, IF call[w].step = "clearPayments" THEN "clearCheckout" ELSE "undoCheckout")
     /\ UNCHANGED <<status, linked, bookingPaid, paystack, events, faults, history>>

\* Mutant: a checkout with a link is reset instead of deleted.
DeleteUnlinkedCheckout(w) ==
  LET r == call[w].row
  IN /\ call[w].step \in {"clearCheckout", "undoCheckout"}
     /\ status' = [status EXCEPT ![r] = IF r \in linked THEN "pending" ELSE "deleted"]
     /\ IF r \in Present /\ call[w].step = "clearCheckout" /\ r \notin linked
          THEN Goto(w, "create")
          ELSE Return(w)
     /\ UNCHANGED <<payment, linked, bookingPaid, paystack, events, faults, history>>

\* paymentCheckout.delete throws if another call was faster.
DeleteCheckout(w) ==
  LET r == call[w].row
  IN /\ call[w].step \in {"clearCheckout", "undoCheckout"}
     /\ status' = [status EXCEPT ![r] = "deleted"]
     /\ IF r \in Present /\ call[w].step = "clearCheckout"
          THEN Goto(w, "create")
          ELSE Return(w)
     /\ UNCHANGED <<payment, linked, bookingPaid, paystack, events, faults, history>>

\* The unique key lets one checkout exist at a time: the insert throws
\* otherwise, and nobody looks for the winner.
CreateCheckout(w) ==
  /\ call[w].step = "create"
  /\ \/ Present # {} /\ Return(w) /\ UNCHANGED status
     \/ /\ Present = {}
        /\ \E r \in Unused :
             GotoWith(w, "pay", r) /\ status' = [status EXCEPT ![r] = "pending"]
  /\ UNCHANGED <<payment, linked, bookingPaid, paystack, events, faults, history>>

\* payment.create throws if the checkout it refers to was deleted.
CreatePayment(w) ==
  LET r == call[w].row
  IN /\ call[w].step = "pay"
     /\ IF r \in Present
          THEN payment' = [payment EXCEPT ![r] = "pending"] /\ Goto(w, "open")
          ELSE Return(w) /\ UNCHANGED payment
     /\ UNCHANGED <<status, linked, bookingPaid, paystack, events, faults, history>>

\* External: Paystack opens a transaction under the new reference, unless it or
\* its answer does not get through.
OpenTransaction(w) ==
  LET r == call[w].row
  IN /\ call[w].step = "open"
     /\ \/ opened' = opened \cup {r} /\ Goto(w, "record") /\ UNCHANGED faults
        \/ Fault("unreachable") /\ Goto(w, "undoPayments") /\ UNCHANGED opened
        \/ Fault("unanswered") /\ opened' = opened \cup {r} /\ Goto(w, "undoPayments")
     /\ UNCHANGED <<tables, given, charged, declined, events, history>>

\* The reference and the URL are recorded and the link handed out; the update
\* throws if the checkout is gone, and the catch block cleans up.
RecordLink(w) ==
  LET r == call[w].row
  IN /\ call[w].step = "record"
     /\ IF r \in Present
          THEN linked' = linked \cup {r} /\ given' = given \cup {r} /\ Return(w)
          ELSE Goto(w, "undoPayments") /\ UNCHANGED <<linked, given>>
     /\ UNCHANGED <<status, payment, bookingPaid, opened, charged, declined, events, faults, history>>

\* The process stops in the middle of a call, or a statement of it throws.
Crash(w) ==
  /\ call[w].step # "idle"
  /\ Fault("crash")
  /\ halfCleared' = IF call[w].step \in {"clearCheckout", "undoCheckout"}
                      THEN halfCleared \cup {call[w].row} ELSE halfCleared
  /\ Return(w)
  /\ UNCHANGED <<tables, paystack, events, overtaken, refused>>

-----------------------------------------------------------------------------
\* External: someone with the link pays, perhaps after a declined attempt.
Pay(r) ==
  /\ r \in given \ charged
  /\ charged' = charged \cup {r}
  /\ UNCHANGED <<tables, opened, given, declined, events, call, faults, history>>

Decline(r) ==
  /\ r \in given \ (charged \cup declined)
  /\ declined' = declined \cup {r}
  /\ UNCHANGED <<tables, opened, given, charged, events, call, faults, history>>

\* charge.failed: a checkout read as pending ...
HearOfFailure(r) ==
  /\ r \in declined \cap linked \cap Present
  /\ status[r] = "pending" /\ r \notin refused
  /\ failing' = failing \cup {r}
  /\ UNCHANGED <<tables, paystack, heard, settling, mismatch, call, faults, history>>

\* ... is marked failed, whatever it is by now.
MarkCheckoutFailed(r) ==
  /\ r \in failing
  /\ failing' = failing \ {r}
  /\ status' = [status EXCEPT ![r] = IF r \in Present THEN "failed" ELSE @]
  /\ refused' = IF r \in Present THEN refused \cup {r} ELSE refused
  /\ UNCHANGED <<payment, linked, bookingPaid, paystack, heard, settling, mismatch,
                 call, faults, overtaken, halfCleared>>

\* charge.success: the checkout with the reference is looked up.  If there is
\* none the payment is found, but a reference that starts with qr_ is neither a
\* deposit nor a balance, and the event is dropped.
HearOfCharge(r) ==
  /\ r \in charged \ heard
  /\ heard' = heard \cup {r}
  /\ settling' = IF r \in linked \cap Present THEN settling \cup {r} ELSE settling
  /\ UNCHANGED <<tables, paystack, failing, mismatch, call, faults, history>>

\* verifyPayment, asked by reference, does the same for a checkout, unless it
\* is paid ...
VerifyCheckout(r) ==
  /\ r \in charged \cap linked \cap Present
  /\ status[r] # "paid"
  /\ settling' = settling \cup {r}
  /\ UNCHANGED <<tables, paystack, heard, failing, mismatch, call, faults, history>>

\* ... and settles a payment that has lost its checkout.
VerifyPayment(r) ==
  /\ r \in charged \ Present
  /\ payment[r] = "pending"
  /\ payment' = [payment EXCEPT ![r] = "paid"]
  /\ bookingPaid' = TRUE
  /\ call' = [w \in Workers |->
                IF call[w] = Idle THEN Idle
                ELSE [call[w] EXCEPT !.paidSince = @ \cup {r}]]
  /\ UNCHANGED <<status, linked, paystack, events, faults, history>>

\* markCheckoutPaid: the checkout, the payments it has, and their booking.  It
\* throws if the checkout is gone, or if the payments go under its hands.
MarkCheckoutPaid(r) ==
  /\ r \in settling
  /\ settling' = settling \ {r}
  /\ \/ /\ r \in Present
        /\ status' = [status EXCEPT ![r] = "paid"]
        /\ IF payment[r] \in {"pending", "paid"}
             THEN payment' = [payment EXCEPT ![r] = "paid"] /\ bookingPaid' = TRUE
             ELSE UNCHANGED <<payment, bookingPaid>>
        /\ call' = [w \in Workers |->
                      IF call[w] = Idle THEN Idle
                      ELSE [call[w] EXCEPT !.paidSince = @ \cup {r}]]
     \/ /\ \/ r \notin Present
           \/ \E w \in Workers : call[w].step = "clearCheckout" /\ call[w].row = r
        /\ UNCHANGED <<status, payment, bookingPaid, call>>
  /\ UNCHANGED <<linked, paystack, heard, failing, mismatch, faults, history>>

\* getPaymentStatus and getQueue: a paid payment or checkout of an unpaid
\* booking is noticed, and the booking is set to paid.
FindMismatch ==
  /\ ~bookingPaid /\ ~mismatch
  /\ \E r \in Rows : payment[r] = "paid" \/ status[r] = "paid"
  /\ mismatch' = TRUE
  /\ UNCHANGED <<tables, paystack, heard, settling, failing, call, faults, history>>

SyncMismatch ==
  /\ mismatch
  /\ mismatch' = FALSE
  /\ bookingPaid' = TRUE
  /\ UNCHANGED <<status, payment, linked, paystack, heard, settling, failing,
                 call, faults, history>>

Continue(w) ==
  \/ FindCheckout(w) \/ DeletePayments(w) \/ DeleteCheckout(w)
  \/ CreateCheckout(w) \/ CreatePayment(w) \/ OpenTransaction(w) \/ RecordLink(w)

Next ==
  \/ \E w \in Workers : InitializePayment(w) \/ Continue(w) \/ Crash(w)
  \/ \E r \in Rows :
       \/ Pay(r) \/ Decline(r)
       \/ HearOfFailure(r) \/ MarkCheckoutFailed(r)
       \/ HearOfCharge(r) \/ MarkCheckoutPaid(r)
       \/ VerifyCheckout(r) \/ VerifyPayment(r)
  \/ FindMismatch \/ SyncMismatch

Spec == Init /\ [][Next]_vars

-----------------------------------------------------------------------------
\* Rows, Paystack's records, events and calls have their types, and there is
\* one checkout of the booking at a time.
TypeOK ==
  /\ status \in [Rows -> {"none", "pending", "paid", "failed", "deleted"}]
  /\ payment \in [Rows -> {"none", "pending", "paid", "deleted"}]
  /\ bookingPaid \in BOOLEAN /\ mismatch \in BOOLEAN
  /\ linked \subseteq Rows /\ opened \subseteq Rows /\ given \subseteq Rows
  /\ charged \subseteq Rows /\ declined \subseteq Rows /\ heard \subseteq Rows
  /\ settling \subseteq Rows /\ failing \subseteq Rows
  /\ overtaken \subseteq Rows /\ refused \subseteq Rows /\ halfCleared \subseteq Rows
  /\ call \in [Workers -> Calls]
  /\ faults \in 0..MaxFaults
  /\ \A r, s \in Present : r = s

\* A charge that was taken up and left the booking unpaid is explained: another
\* call had found the checkout before its link was recorded and cleared it
\* away, or a declined attempt had made it look dead while its link was still
\* good (initializePayment deletes what is pending without a URL, or failed).
ChargeExplained ==
  \A r \in heard \ settling : bookingPaid \/ r \in overtaken \cup refused

\* A checkout with a link has the payment through which a charge reaches the
\* booking, but for the moment between the two deletes, unless they were cut
\* apart there.
PaymentBehindLink ==
  \A r \in linked \cap Present :
    \/ payment[r] \in {"pending", "paid"}
    \/ r \in halfCleared
    \/ \E w \in Workers : call[w].step = "clearCheckout" /\ call[w].row = r

\* The record of a payment that was taken is deleted only by a call that looked
\* at the booking before it was taken.
PaidClearedByLateCall ==
  [][\A r \in Rows : payment[r] = "paid" /\ payment'[r] = "deleted" =>
       \E w \in Workers : call[w].row = r /\ r \in call[w].paidSince]_vars
=============================================================================
