------------------------------ MODULE Checkout ------------------------------
(***************************************************************************)
(* How a checkout comes to be: PaymentsService.initializePayment           *)
(* (src/modules/payments/payments.service.ts), called by the customer's    *)
(* app, by BookingsService for a new booking, and again by whoever did not *)
(* get an answer.  A call ends by handing out the link of a Paystack page; *)
(* what happens to the money after that is Settlement's business, and one  *)
(* step here.                                                              *)
(*                                                                         *)
(* A checkout is named by its clientCheckoutId.  The ids the backend makes *)
(* itself (`single:', `group:', `bookings:', `vendor-booking:') are made   *)
(* from the booking ids, so the key fixes the bookings.                    *)
(***************************************************************************)
EXTENDS Naturals, FiniteSets

CONSTANTS
  Keys,         \* clientCheckoutIds of one customer
  Bookings,     \* the customer's bookings
  BookingsOf,   \* the bookings each key stands for
  Workers,      \* calls that may be in flight at the same time
  None,         \* "no key"
  FaultKinds,   \* bound: what may go wrong in an instance
  MaxFaults     \* bound: how often

ASSUME KeysAssumption ==
  /\ BookingsOf \in [Keys -> SUBSET Bookings]
  /\ \A k \in Keys : BookingsOf[k] # {}
  /\ None \notin Keys

ASSUME FaultsAssumption ==
  /\ FaultKinds \subseteq {"unreachable", "unanswered", "crash"}
  /\ MaxFaults \in Nat

VARIABLES
  status,     \* PaymentCheckout.status; "none" if there is no row
  priced,     \* how often the payment rows of the checkout were inserted
  linked,     \* checkouts with a paystackReference and a URL
  paid,       \* bookings whose paymentStatus is no longer unpaid
  opened,     \* Paystack: references it has a transaction for
  charged,    \* Paystack: references that were paid
  notified,   \* Paystack: paid references whose event was processed
  links,      \* keys whose link was handed to a customer
  call,       \* what each worker is doing
  faults      \* things that went wrong so far

tables == <<status, priced, linked, paid>>
paystack == <<opened, charged, notified>>
vars == <<tables, paystack, links, call, faults>>

Steps == {"idle", "find", "ensure", "price", "insert", "rows", "winner",
          "open", "record", "refused"}
Calls == [step : Steps, key : Keys \cup {None}]
Idle == [step |-> "idle", key |-> None]

Init ==
  /\ status = [k \in Keys |-> "none"]
  /\ priced = [k \in Keys |-> 0]
  /\ linked = {} /\ paid = {}
  /\ opened = {} /\ charged = {} /\ notified = {}
  /\ links = {}
  /\ call = [w \in Workers |-> Idle]
  /\ faults = 0

Goto(w, step) == call' = [call EXCEPT ![w].step = step]
Return(w) == call' = [call EXCEPT ![w] = Idle]
HandOut(w, k) == Return(w) /\ links' = links \cup {k}
Fault(kind) == kind \in FaultKinds /\ faults < MaxFaults /\ faults' = faults + 1

\* The unique index on (customerId, clientCheckoutId) makes an insert wait for
\* a transaction that has inserted the same key.
Inserting(k) == \E u \in Workers : call[u] = [step |-> "rows", key |-> k]

-----------------------------------------------------------------------------
\* loadBookingTargets and assertBookingsUnpaid: every booking asked for must be
\* there and unpaid.
AssertBookingsUnpaid(k) == BookingsOf[k] \cap paid = {}

\* Mutant: the bookings are not looked at.
InitializePaymentUnchecked(w, k) ==
  /\ call[w].step = "idle"
  /\ call' = [call EXCEPT ![w] = [step |-> "find", key |-> k]]
  /\ UNCHANGED <<tables, paystack, links, faults>>

InitializePayment(w, k) ==
  /\ call[w].step = "idle"
  /\ AssertBookingsUnpaid(k)
  /\ call' = [call EXCEPT ![w] = [step |-> "find", key |-> k]]
  /\ UNCHANGED <<tables, paystack, links, faults>>

\* Mutant: a checkout that failed is answered with an error.
FindUnfailedCheckout(w) ==
  LET k == call[w].key
  IN /\ call[w].step = "find"
     /\ CASE k \in linked          -> HandOut(w, k)
          [] status[k] = "none"    -> Goto(w, "insert") /\ UNCHANGED links
          [] status[k] = "failed"  -> Return(w) /\ UNCHANGED links
          [] OTHER                 -> Goto(w, "ensure") /\ UNCHANGED links
     /\ UNCHANGED <<tables, paystack, faults>>

\* A checkout that has a link, whatever its status, is answered at once.
FindCheckout(w) ==
  LET k == call[w].key
  IN /\ call[w].step = "find"
     /\ CASE k \in linked          -> HandOut(w, k)
          [] status[k] = "none"    -> Goto(w, "insert") /\ UNCHANGED links
          [] OTHER                 -> Goto(w, "ensure") /\ UNCHANGED links
     /\ UNCHANGED <<tables, paystack, faults>>

\* ensurePaymentsForExistingCheckout lists the payments; if it saw none it
\* inserts them, in a statement of its own.
EnsurePayments(w) ==
  LET k == call[w].key
  IN /\ call[w].step \in {"ensure", "price"}
     /\ Goto(w, IF call[w].step = "ensure" /\ priced[k] = 0 THEN "price" ELSE "open")
     /\ priced' = IF call[w].step = "price" THEN [priced EXCEPT ![k] = @ + 1] ELSE priced
     /\ UNCHANGED <<status, linked, paid, paystack, links, faults>>

\* Mutant: the row is committed before its payments are inserted.
InsertCheckoutAlone(w) ==
  LET k == call[w].key
  IN /\ call[w].step = "insert"
     /\ Goto(w, IF status[k] = "none" THEN "rows" ELSE "winner")
     /\ status' = [status EXCEPT ![k] = IF @ = "none" THEN "pending" ELSE @]
     /\ UNCHANGED <<priced, linked, paid, paystack, links, faults>>

\* createCheckoutWithPayments: the row is inserted, in a transaction.  A row
\* that is there by now makes it throw.
InsertCheckout(w) ==
  LET k == call[w].key
  IN /\ call[w].step = "insert"
     /\ ~Inserting(k)
     /\ Goto(w, IF status[k] = "none" THEN "rows" ELSE "winner")
     /\ UNCHANGED <<tables, paystack, links, faults>>

\* createProviderPayments, and the commit of both ...
CommitCheckout(w) ==
  LET k == call[w].key
  IN /\ call[w].step = "rows"
     /\ status' = [status EXCEPT ![k] = "pending"]
     /\ priced' = [priced EXCEPT ![k] = @ + 1]
     /\ Goto(w, "open")
     /\ UNCHANGED <<linked, paid, paystack, links, faults>>

\* ... or it throws, for a provider without bank details, and rolls back.
RollBackCheckout(w) ==
  /\ call[w].step = "rows"
  /\ Fault("crash")
  /\ Goto(w, "winner")
  /\ UNCHANGED <<tables, paystack, links>>

\* Whatever was thrown, a checkout found under the key is taken as the winner
\* of a race; one that has its link already needs nothing more.
FindRaceWinner(w) ==
  LET k == call[w].key
  IN /\ call[w].step = "winner"
     /\ CASE k \in linked       -> HandOut(w, k)
          [] status[k] = "none" -> Return(w) /\ UNCHANGED links
          [] OTHER              -> Goto(w, "open") /\ UNCHANGED links
     /\ UNCHANGED <<tables, paystack, faults>>

\* Mutant: the link is handed out while the update is still under way.
OpenTransactionAndAnswer(w) ==
  LET k == call[w].key
  IN /\ call[w].step = "open"
     /\ IF k \in opened
          THEN Goto(w, "refused") /\ UNCHANGED <<opened, links>>
          ELSE /\ opened' = opened \cup {k}
               /\ links' = links \cup {k}
               /\ Goto(w, "record")
     /\ UNCHANGED <<tables, charged, notified, faults>>

\* Mutant: each attempt uses a reference of its own, which Paystack accepts.
OpenTransactionAfresh(w) ==
  /\ call[w].step = "open"
  /\ opened' = opened \cup {call[w].key}
  /\ Goto(w, "record")
  /\ UNCHANGED <<tables, charged, notified, links, faults>>

\* initializeCheckoutWithPaystack asks for a transaction under the reference
\* CHK_<checkout id>.  External: Paystack takes a reference once.  It may also
\* be out of reach, or its answer may be.
OpenTransaction(w) ==
  LET k == call[w].key
      open(step) == opened' = opened \cup {k} /\ Goto(w, step)
  IN /\ call[w].step = "open"
     /\ \/ k \notin opened /\ open("record") /\ UNCHANGED faults
        \/ k \in opened /\ Goto(w, "refused") /\ UNCHANGED <<opened, faults>>
        \/ Fault("unreachable") /\ Goto(w, "refused") /\ UNCHANGED opened
        \/ k \notin opened /\ Fault("unanswered") /\ open("refused")
     /\ UNCHANGED <<tables, charged, notified, links>>

\* The reference and the link are recorded, then the link is handed out.
RecordLink(w) ==
  LET k == call[w].key
  IN /\ call[w].step = "record"
     /\ linked' = linked \cup {k}
     /\ status' = [status EXCEPT ![k] = "pending"]
     /\ HandOut(w, k)
     /\ UNCHANGED <<priced, paid, paystack, faults>>

\* The gateway refused: the checkout is marked failed, whatever it was.
MarkFailed(w) ==
  /\ call[w].step = "refused"
  /\ status' = [status EXCEPT ![call[w].key] = "failed"]
  /\ Return(w)
  /\ UNCHANGED <<priced, linked, paid, paystack, links, faults>>

\* The process stops in the middle of a call, or a statement of it throws.
Crash(w) ==
  /\ call[w].step # "idle"
  /\ Fault("crash")
  /\ Return(w)
  /\ UNCHANGED <<tables, paystack, links>>

-----------------------------------------------------------------------------
\* External: a customer who was given a link pays.
Pay(k) ==
  /\ k \in links \ charged
  /\ charged' = charged \cup {k}
  /\ UNCHANGED <<tables, opened, notified, links, call, faults>>

\* The charge is settled (processWebhookEvent, verifyPayment), if the reference
\* belongs to a checkout; Settlement has the details.
Settle(k) ==
  /\ k \in charged \ notified
  /\ notified' = notified \cup {k}
  /\ IF k \in linked
       THEN /\ status' = [status EXCEPT ![k] = "paid"]
            /\ paid' = paid \cup BookingsOf[k]
       ELSE UNCHANGED <<status, paid>>
  /\ UNCHANGED <<priced, linked, opened, charged, links, call, faults>>

Continue(w) ==
  \/ FindCheckout(w) \/ EnsurePayments(w) \/ InsertCheckout(w)
  \/ CommitCheckout(w) \/ FindRaceWinner(w) \/ OpenTransaction(w)
  \/ RecordLink(w) \/ MarkFailed(w)

Next ==
  \/ \E w \in Workers :
       \/ \E k \in Keys : InitializePayment(w, k)
       \/ Continue(w) \/ RollBackCheckout(w) \/ Crash(w)
  \/ \E k \in Keys : Pay(k) \/ Settle(k)

Spec == Init /\ [][Next]_vars

\* A call in flight goes on, an insert gets the key it waits for in its turn,
\* and a customer without a link asks again.
Fairness ==
  /\ \A w \in Workers : SF_vars(Continue(w))
  /\ \A k \in Keys : SF_vars(\E w \in Workers : InitializePayment(w, k))

FairSpec == Spec /\ Fairness

-----------------------------------------------------------------------------
\* Rows, Paystack's records and calls have their types.
TypeOK ==
  /\ status \in [Keys -> {"none", "pending", "paid", "failed"}]
  /\ priced \in [Keys -> Nat]
  /\ linked \subseteq Keys /\ links \subseteq Keys
  /\ opened \subseteq Keys /\ charged \subseteq Keys /\ notified \subseteq Keys
  /\ paid \subseteq Bookings
  /\ call \in [Workers -> Calls]
  /\ faults \in 0..MaxFaults

\* A checkout has its payment rows exactly once, however many calls race to
\* create it or find it half made: each call either inserts both or joins a
\* checkout that has them (createCheckoutWithPayments,
\* ensurePaymentsForExistingCheckout).
PricedOnce == \A k \in Keys : priced[k] = IF status[k] = "none" THEN 0 ELSE 1

\* No charge falls through: when Paystack reports one, the reference is already
\* on the checkout, and the bookings become paid, although the row is updated
\* only after Paystack knows the reference.
ChargeReachesBookings == \A k \in notified : BookingsOf[k] \subseteq paid

\* A checkout that was paid is never set back to pending by a call that opened
\* its transaction: initializeCheckoutWithPaystack's update writes the status
\* without looking at it.
PaidNotReset == [][\A k \in Keys : status[k] = "paid" => status'[k] # "pending"]_vars

\* Paystack knows the checkout's reference, and nobody is about to record it.
AnswerLost(k) ==
  k \in opened \ linked /\ \A w \in Workers : call[w] # [step |-> "record", key |-> k]

\* A checkout that has no link, and that nobody is asking for.
Closed(k) ==
  BookingsOf[k] \cap paid # {} /\ k \notin links /\ \A w \in Workers : call[w].key # k

\* Once one of its bookings is paid, whichever checkout paid it, a checkout that
\* has no link gets none: only links handed out before, and calls that had
\* passed assertBookingsUnpaid by then, can have a booking charged a second time.
NoLinkOncePaid == [][\A k \in Keys : Closed(k) => Closed(k)']_vars

\* initializePayment keeps the promise of CheckoutPromise: a call that is under
\* way asks, whatever it has done so far.
Asking == {k \in Keys : \E w \in Workers : call[w].key = k}
Promise == INSTANCE CheckoutPromise WITH asking <- Asking, settled <- notified
PromiseKept == Promise!Spec

\* Whoever keeps asking for a payment link gets one, unless the bookings are paid
\* by then or an answer of Paystack was lost: races, rollbacks, crashes at any
\* other point and an unreachable gateway only cost a retry.
LinkInTheEnd ==
  \A k \in Keys : <>(k \in links \/ BookingsOf[k] \cap paid # {} \/ AnswerLost(k))
=============================================================================
