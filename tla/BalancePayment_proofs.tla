------------------------ MODULE BalancePayment_proofs ------------------------
(***************************************************************************)
(* Proofs about BalancePayment, for any number of links and calls in       *)
(* flight, any amount of cash and any number of crashes.                   *)
(***************************************************************************)
EXTENDS BalancePayment, TLAPS

\* Nothing of the balance happens before the deposit is settled, and a call that
\* is about to capture it has seen its money.
BalanceFollowsDeposit ==
  /\ deposit = "pending" => remaining # "captured" /\ reference = None /\ cash = 0
  /\ due \subseteq charged \cup {None}
  /\ \A w \in Workers :
       /\ call[w].op \in {"link", "cash", "capture", "refund"} => deposit # "pending"
       /\ call[w].op \in {"link", "capture"} => call[w].link \in Links
       /\ call[w].op = "cash" => cash > 0
       /\ call[w].op = "capture" => charged # {}

\* What a call may take a booking that is shown as paid for.
Earned == PaidUp \/ queued \/ edits > 0

\* A booking is shown as paid for a reason, which holds as long as a call that was
\* told to pay out is not overtaken.
PaidForReason ==
  /\ booking = "paid" => Earned
  /\ \A w \in Workers : call[w].op = "complete" => Earned

IInv == /\ TypeOK /\ CapturedIsCollected /\ BookingFollowsPayment
        /\ BalanceFollowsDeposit /\ PaidForReason

\* It holds when the customer has just paid the deposit.
LEMMA InitIInv == Init => IInv
<1> SUFFICES ASSUME Init PROVE IInv
  OBVIOUS
<1>1. Idle \in Calls /\ Idle.op = "idle"
  BY DEF Idle, Calls, Ops
<1>2. call \in [Workers -> Calls] /\ \A w \in Workers : call[w].op = "idle"
  <2>1. call = [w \in Workers |-> Idle]
    BY DEF Init
  <2>2. QED
    BY <1>1, <2>1
<1>3. TypeOK
  <2>1. returned \in BOOLEAN /\ queued \in BOOLEAN /\ resettled \in BOOLEAN
    BY DEF Init
  <2>2. cash \in 0..MaxCash /\ crashes \in 0..MaxFaults /\ edits \in 0..MaxFaults
    BY BalanceAssumption DEF Init
  <2>3. QED
    BY <1>2, <2>1, <2>2 DEF Init, TypeOK, PaymentStatuses
<1>4. CapturedIsCollected /\ BookingFollowsPayment
  BY DEF Init, CapturedIsCollected, BookingFollowsPayment
<1>0. BalanceFollowsDeposit /\ PaidForReason
  BY <1>2 DEF Init, BalanceFollowsDeposit, PaidForReason
<1>5. QED
  BY <1>3, <1>4, <1>0 DEF IInv

\* A call that starts or returns has its type, and leaves the others alone.
LEMMA CallMoves ==
  ASSUME TypeOK, NEW w \in Workers
  PROVE  /\ \A o \in Ops, l \in Links \cup {None} : Start(w, o, l) =>
              /\ call' \in [Workers -> Calls] /\ call'[w].op = o /\ call'[w].link = l
              /\ \A u \in Workers : u # w => call'[u] = call[u]
         /\ Return(w) =>
              /\ call' \in [Workers -> Calls] /\ call'[w].op = "idle"
              /\ \A u \in Workers : u # w => call'[u] = call[u]
<1>1. /\ call \in [Workers -> Calls] /\ Idle \in Calls /\ Idle.op = "idle"
      /\ \A o \in Ops, l \in Links \cup {None} :
           LET k == [op |-> o, link |-> l] IN k \in Calls /\ k.op = o /\ k.link = l
  BY DEF TypeOK, Calls, Ops, Idle
<1>2. QED
  BY <1>1 DEF Start, Return

\* A booking that is written as anything but paid overtakes the calls that were
\* about to pay out, and leaves the others alone.
LEMMA CallOvertaken ==
  ASSUME NEW c \in Calls, NEW s
  PROVE  /\ Overtake(c, s) \in Calls /\ Overtake(c, s).link = c.link
         /\ \/ Overtake(c, s).op = c.op
            \/ c.op = "complete" /\ Overtake(c, s).op = "outdated"
         /\ s # "paid" => Overtake(c, s).op # "complete"
  BY DEF Overtake, Calls, Ops

LEMMA ReturnOvertakes ==
  ASSUME TypeOK, NEW w \in Workers, NEW s, s # "paid", ReturnWriting(w, s)
  PROVE  /\ call' \in [Workers -> Calls] /\ call'[w].op = "idle"
         /\ \A u \in Workers : u # w =>
              /\ call'[u].link = call[u].link
              /\ \/ call'[u].op = call[u].op
                 \/ call[u].op = "complete" /\ call'[u].op = "outdated"
         /\ \A u \in Workers : call'[u].op # "complete"
<1>1. Idle \in Calls /\ Idle.op = "idle" /\ \A u \in Workers : call[u] \in Calls
  BY DEF TypeOK, Calls, Ops, Idle
<1>2. \A u \in Workers : call'[u] = IF u = w THEN Idle ELSE Overtake(call[u], s)
  BY DEF ReturnWriting
<1>3. call' \in [Workers -> Calls]
  BY <1>1, CallOvertaken DEF ReturnWriting
<1>4. QED
  BY <1>1, <1>2, <1>3, CallOvertaken

-----------------------------------------------------------------------------
(* A call that starts writes no row.                                        *)

\* The settlement or the refund of the deposit starts, or a synchronisation.
LEMMA OtherStarts ==
  ASSUME IInv, NEW w \in Workers,
         \/ HearOfDeposit(w) \/ RefundAtGateway(w) \/ FindMismatch(w)
         \/ CompleteBooking(w) \/ CancelBooking(w)
  PROVE  IInv'
<1> USE DEF IInv
<1>1. \/ Start(w, "settle", None)
      \/ Start(w, "refund", None) /\ deposit = "paid"
      \/ Start(w, "sync", None) \/ Start(w, "cancel", None)
      \/ Start(w, "complete", None) /\ booking = "paid"
  BY DEF HearOfDeposit, RefundAtGateway, FindMismatch, CompleteBooking, CancelBooking
<1>2. /\ call' \in [Workers -> Calls] /\ \A u \in Workers : u # w => call'[u] = call[u]
      /\ \/ call'[w].op \in {"settle", "sync", "cancel"}
         \/ call'[w].op = "refund" /\ deposit = "paid"
         \/ call'[w].op = "complete" /\ Earned
  BY <1>1, CallMoves DEF Ops, PaidForReason
<1>3. /\ UNCHANGED <<rows, given, charged, cash, queued, edits, history, crashes>>
      /\ due' \subseteq due /\ returned' \in BOOLEAN
  BY
     DEF HearOfDeposit, RefundAtGateway, FindMismatch, CompleteBooking, CancelBooking, money,
         TypeOK
<1>4. TypeOK' /\ CapturedIsCollected' /\ BookingFollowsPayment'
  BY <1>2, <1>3
     DEF TypeOK, PaymentStatuses, CapturedIsCollected, BookingFollowsPayment, history, rows
<1>5. BalanceFollowsDeposit' /\ PaidForReason'
  BY <1>2, <1>3 DEF BalanceFollowsDeposit, PaidForReason, Earned, PaidUp, history, rows
<1>6. QED
  BY <1>4, <1>5

\* A link is asked for, or cash taken: the deposit is settled by then.
LEMMA CollectionStarts ==
  ASSUME IInv, NEW w \in Workers,
         TakeCash(w) \/ \E l \in Links : GenerateBalancePaymentLink(w, l)
  PROVE  IInv'
<1> USE DEF IInv
<1>1. \/ Start(w, "cash", None) /\ cash' = cash + 1 /\ cash < MaxCash
      \/ cash' = cash /\ \E l \in Links : Start(w, "link", l)
  BY DEF TakeCash, GenerateBalancePaymentLink, money
<1>2. /\ call' \in [Workers -> Calls] /\ \A u \in Workers : u # w => call'[u] = call[u]
      /\ \/ call'[w].op = "cash" /\ cash' = cash + 1
         \/ call'[w].op = "link" /\ call'[w].link \in Links /\ cash' = cash
  BY <1>1, CallMoves DEF Ops
<1>3. /\ UNCHANGED <<rows, given, charged, due, returned, queued, edits, history, crashes>>
      /\ deposit = "paid" /\ cash' \in 0..MaxCash
  BY <1>1, BalanceAssumption
     DEF TakeCash, GenerateBalancePaymentLink, money, TypeOK, Collectable
<1>4. cash \in Nat /\ cash' \in Nat /\ (cash > 0 => cash' > 0)
      /\ (cash' = cash + 1 => cash' > 0)
  BY <1>1, <1>2, BalanceAssumption DEF TypeOK
<1>5. TypeOK' /\ CapturedIsCollected' /\ BookingFollowsPayment'
  BY <1>2, <1>3, <1>4
     DEF TypeOK, PaymentStatuses, CapturedIsCollected, BookingFollowsPayment, history, rows
<1>6. BalanceFollowsDeposit' /\ PaidForReason'
  BY <1>2, <1>3, <1>4 DEF BalanceFollowsDeposit, PaidForReason, Earned, PaidUp, history, rows
<1>7. QED
  BY <1>5, <1>6

\* An event or Paystack's answer says that the link of the row was paid.
LEMMA CaptureStarts ==
  ASSUME IInv, NEW w \in Workers, NEW l \in Links,
         ProcessBalanceEvent(w, l) \/ VerifyBalance(w, l)
  PROVE  IInv'
<1> USE DEF IInv
<1>1. /\ UNCHANGED <<rows, given, charged, returned, cash, queued, edits, history, crashes>>
      /\ due' \subseteq due
  BY DEF ProcessBalanceEvent, VerifyBalance, money
<1>2. \/ Start(w, "capture", l) /\ l = reference /\ l \in charged
      \/ UNCHANGED call
  BY BalanceAssumption DEF ProcessBalanceEvent, VerifyBalance, BalanceFollowsDeposit
<1>3. /\ call' \in [Workers -> Calls] /\ \A u \in Workers : u # w => call'[u] = call[u]
      /\ \/ call'[w].op = "capture" /\ call'[w].link = l /\ l = reference /\ l \in charged
         \/ call'[w] = call[w]
  BY <1>2, CallMoves DEF Ops, TypeOK
<1>4. reference \in Links => deposit # "pending"
  BY BalanceAssumption DEF BalanceFollowsDeposit, PaidForReason, Earned, PaidUp, history
<1>5. TypeOK' /\ CapturedIsCollected' /\ BookingFollowsPayment'
  BY <1>1, <1>3
     DEF TypeOK, PaymentStatuses, CapturedIsCollected, BookingFollowsPayment, history, rows
<1>6. BalanceFollowsDeposit' /\ PaidForReason'
  BY <1>1, <1>3, <1>4 DEF BalanceFollowsDeposit, PaidForReason, Earned, PaidUp, history, rows
<1>7. QED
  BY <1>5, <1>6
-----------------------------------------------------------------------------
(* A call that ends writes its rows.                                        *)

\* The deposit is settled: an open balance becomes authorized, a captured one
\* marks the settlement as late.
LEMMA MarkCheckoutPaidIInv ==
  ASSUME IInv, NEW w \in Workers, MarkCheckoutPaid(w)
  PROVE  IInv'
<1> USE DEF IInv
<1>1. /\ call' \in [Workers -> Calls] /\ call'[w].op = "idle"
      /\ \A u \in Workers : u # w =>
           /\ call'[u].link = call[u].link
           /\ \/ call'[u].op = call[u].op
              \/ call[u].op = "complete" /\ call'[u].op = "outdated"
      /\ \A u \in Workers : call'[u].op # "complete"
  BY ReturnOvertakes DEF MarkCheckoutPaid
<1>2. /\ UNCHANGED <<reference, payout, money, crashes>> /\ booking' = "partial"
      /\ resettled' = (resettled \/ remaining = "captured") /\ deposit' = "paid"
      /\ remaining' = remaining \/ remaining' = "authorized"
      /\ late' = FALSE
  BY DEF MarkCheckoutPaid
<1>3. TypeOK'
  <2>1. resettled' \in BOOLEAN /\ late' \in BOOLEAN
    BY <1>2
  <2>2. QED
    BY <1>1, <1>2, <2>1 DEF TypeOK, PaymentStatuses, money
<1>4. CapturedIsCollected' /\ BookingFollowsPayment'
  BY <1>2 DEF CapturedIsCollected, BookingFollowsPayment, money
<1>5. BalanceFollowsDeposit' /\ PaidForReason'
  BY <1>1, <1>2 DEF BalanceFollowsDeposit, PaidForReason, money
<1>6. QED
  BY <1>3, <1>4, <1>5

\* The refund is recorded, or a link.
LEMMA RecordsIInv ==
  ASSUME IInv, NEW w \in Workers, ProcessRefund(w) \/ RecordLink(w)
  PROVE  IInv'
<1> USE DEF IInv
<1>2. CASE ProcessRefund(w)
  <2>0. /\ call' \in [Workers -> Calls] /\ call'[w].op = "idle"
        /\ \A u \in Workers : u # w =>
             /\ call'[u].link = call[u].link
             /\ \/ call'[u].op = call[u].op
                \/ call[u].op = "complete" /\ call'[u].op = "outdated"
        /\ \A u \in Workers : call'[u].op # "complete"
    BY <1>2, ReturnOvertakes DEF ProcessRefund
  <2>1. /\ UNCHANGED <<remaining, reference, payout, money, resettled, crashes>>
        /\ deposit' = "refunded" /\ booking' = "refunded" /\ late' = FALSE
    BY <1>2 DEF ProcessRefund
  <2>2. TypeOK' /\ CapturedIsCollected' /\ BookingFollowsPayment'
    BY <2>0, <2>1
       DEF TypeOK, PaymentStatuses, CapturedIsCollected, BookingFollowsPayment, money
  <2>3. BalanceFollowsDeposit' /\ PaidForReason'
    BY <2>0, <2>1 DEF BalanceFollowsDeposit, PaidForReason, money
  <2>4. QED
    BY <2>2, <2>3
<1>3. CASE RecordLink(w)
  <2>0. /\ call' \in [Workers -> Calls] /\ \A u \in Workers : u # w => call'[u] = call[u]
        /\ call'[w].op = "idle"
    BY <1>3, CallMoves DEF RecordLink
  <2>1. /\ UNCHANGED <<deposit, remaining, booking, payout, charged, due, returned,
                       cash, queued, edits, history, crashes>>
        /\ reference' \in Links /\ given' \subseteq Links /\ deposit # "pending"
    BY <1>3 DEF RecordLink, BalanceFollowsDeposit, TypeOK
  <2>2. TypeOK' /\ CapturedIsCollected' /\ BookingFollowsPayment'
    BY <2>0, <2>1
       DEF TypeOK, PaymentStatuses, CapturedIsCollected, BookingFollowsPayment, history
  <2>3. BalanceFollowsDeposit' /\ PaidForReason'
    BY <2>0, <2>1 DEF BalanceFollowsDeposit, PaidForReason, Earned, PaidUp, history
  <2>4. QED
    BY <2>2, <2>3
<1>4. QED
  BY <1>2, <1>3

\* The balance is captured: its money was seen when the call started.
LEMMA CapturesIInv ==
  ASSUME IInv, NEW w \in Workers, MarkRemainingCaptured(w) \/ MarkBalanceCashPaid(w)
  PROVE  IInv'
<1> USE DEF IInv
<1>1. /\ call' \in [Workers -> Calls] /\ \A u \in Workers : u # w => call'[u] = call[u]
      /\ call'[w].op = "idle"
  BY CallMoves DEF MarkRemainingCaptured, MarkBalanceCashPaid
<1>2. /\ UNCHANGED <<deposit, reference, payout, money, resettled, crashes>>
      /\ remaining' = "captured" /\ booking' = "paid" /\ late' = (deposit = "refunded")
      /\ deposit # "pending" /\ (charged # {} \/ cash > 0)
  BY DEF MarkRemainingCaptured, MarkBalanceCashPaid, Capture, BalanceFollowsDeposit
<1>0. late' \in BOOLEAN /\ (deposit = "paid" \/ late')
  BY <1>2 DEF TypeOK
<1>3. TypeOK' /\ CapturedIsCollected' /\ BookingFollowsPayment'
  BY <1>0, <1>1, <1>2
     DEF TypeOK, PaymentStatuses, CapturedIsCollected, BookingFollowsPayment, money
<1>4. BalanceFollowsDeposit' /\ PaidForReason'
  BY <1>0, <1>1, <1>2 DEF BalanceFollowsDeposit, PaidForReason, Earned, PaidUp, history, money
<1>5. QED
  BY <1>3, <1>4

\* The provider is paid out, on completion or on request, or the refund of a cancelled booking goes on or is
\* given up.
LEMMA StatusChangesIInv ==
  ASSUME IInv, NEW w \in Workers, ReleaseProviderPayout(w) \/ RefundCancelled(w)
  PROVE  IInv'
<1> USE DEF IInv
<1>1. CASE ReleaseProviderPayout(w)
  <2>1. /\ call' \in [Workers -> Calls] /\ \A u \in Workers : u # w => call'[u] = call[u]
        /\ call'[w].op = "idle"
    BY <1>1, CallMoves DEF ReleaseProviderPayout
  <2>2. /\ UNCHANGED <<deposit, remaining, reference, booking, money, history, crashes>>
        /\ payout' = "released"
    BY <1>1 DEF ReleaseProviderPayout
  <2>3. TypeOK' /\ CapturedIsCollected' /\ BookingFollowsPayment'
    BY <2>1, <2>2
       DEF TypeOK, PaymentStatuses, CapturedIsCollected, BookingFollowsPayment, history,
           Earned, money
  <2>4. BalanceFollowsDeposit' /\ PaidForReason'
    BY <2>1, <2>2 DEF BalanceFollowsDeposit, PaidForReason, Earned, PaidUp, history, money
  <2>5. QED
    BY <2>3, <2>4
<1>2. CASE RefundCancelled(w)
  <2>1. /\ call' \in [Workers -> Calls] /\ \A u \in Workers : u # w => call'[u] = call[u]
        /\ \/ call'[w].op = "idle"
           \/ call'[w].op = "refund" /\ deposit = "paid"
    <3>1. CASE Return(w)
      BY <3>1, CallMoves
    <3>2. CASE deposit = "paid" /\ call' = [call EXCEPT ![w].op = "refund"]
      BY <3>2 DEF TypeOK, Calls, Ops
    <3>3. QED
      BY <1>2, <3>1, <3>2 DEF RefundCancelled
  <2>2. /\ UNCHANGED <<rows, given, charged, due, cash, queued, edits, history, crashes>>
        /\ returned' \in BOOLEAN
    BY <1>2 DEF RefundCancelled, TypeOK
  <2>3. TypeOK' /\ CapturedIsCollected' /\ BookingFollowsPayment'
    BY <2>1, <2>2
       DEF TypeOK, PaymentStatuses, CapturedIsCollected, BookingFollowsPayment, history, rows
  <2>4. BalanceFollowsDeposit' /\ PaidForReason'
    BY <2>1, <2>2 DEF BalanceFollowsDeposit, PaidForReason, Earned, PaidUp, history, rows
  <2>5. QED
    BY <2>3, <2>4
<1>3. QED
  BY <1>1, <1>2

\* A request writes the status of the booking.
LEMMA EditIInv ==
  ASSUME IInv, NEW s \in PaymentStatuses, EditPaymentStatus(s)
  PROVE  IInv'
<1> USE DEF IInv
<1>1. /\ edits' = edits + 1 /\ edits' \in 0..MaxFaults /\ booking' \in PaymentStatuses
      /\ edits' > 0
  BY BalanceAssumption DEF EditPaymentStatus, TypeOK
<1>2. UNCHANGED <<deposit, remaining, reference, payout, given, charged, due, returned,
                  cash, queued, history, crashes>>
  BY DEF EditPaymentStatus
<1>3. /\ call' \in [Workers -> Calls]
      /\ \A u \in Workers :
           /\ call'[u].link = call[u].link
           /\ \/ call'[u].op = call[u].op
              \/ call[u].op = "complete" /\ call'[u].op = "outdated"
  <2>1. \A u \in Workers : call[u] \in Calls
    BY DEF TypeOK
  <2>2. call' = [u \in Workers |-> Overtake(call[u], s)]
    BY DEF EditPaymentStatus
  <2>3. \A u \in Workers : call'[u] = Overtake(call[u], s)
    BY <2>2
  <2>4. QED
    BY <2>1, <2>2, <2>3, CallOvertaken
<1>4. TypeOK' /\ CapturedIsCollected' /\ BookingFollowsPayment'
  BY <1>1, <1>2, <1>3
     DEF TypeOK, PaymentStatuses, CapturedIsCollected, BookingFollowsPayment, history
<1>5. BalanceFollowsDeposit' /\ PaidForReason'
  BY <1>1, <1>2, <1>3 DEF BalanceFollowsDeposit, PaidForReason, Earned, history
<1>6. QED
  BY <1>4, <1>5

\* The queue starts to record a payment or writes the booking; a call is cut short.
LEMMA QueueIInv ==
  ASSUME IInv, NEW w \in Workers, SyncMismatch(w) \/ TakePayment(w) \/ RecordPayment(w) \/ Crash(w)
  PROVE  IInv'
<1> USE DEF IInv
<1>1. Return(w) \/ Start(w, "record", None)
  BY DEF SyncMismatch, TakePayment, RecordPayment, Crash
<1>2. /\ call' \in [Workers -> Calls] /\ \A u \in Workers : u # w => call'[u] = call[u]
      /\ call'[w].op \in {"idle", "record"}
  BY <1>1, CallMoves DEF Ops
<1>3. /\ UNCHANGED <<deposit, remaining, reference, payout, given, charged, due, returned,
                     cash, edits, history>>
      /\ \/ booking' = booking /\ queued' = queued
         \/ booking' = "paid" /\ queued' = TRUE
      /\ queued' \in BOOLEAN
  BY DEF SyncMismatch, TakePayment, RecordPayment, Crash, rows, money, TypeOK
<1>0. crashes' \in 0..MaxFaults
  BY BalanceAssumption DEF SyncMismatch, TakePayment, RecordPayment, Crash, TypeOK
<1>4. TypeOK'
  BY <1>0, <1>2, <1>3 DEF TypeOK, PaymentStatuses, history
<1>7. CapturedIsCollected' /\ BookingFollowsPayment'
  BY <1>2, <1>3 DEF CapturedIsCollected, BookingFollowsPayment, history
<1>5. BalanceFollowsDeposit' /\ PaidForReason'
  BY <1>2, <1>3 DEF BalanceFollowsDeposit, PaidForReason, Earned, PaidUp, history
<1>6. QED
  BY <1>4, <1>5, <1>7

\* Every step keeps the invariant.
LEMMA StepIInv == IInv /\ [Next]_vars => IInv'
<1> SUFFICES ASSUME IInv, [Next]_vars PROVE IInv'
  OBVIOUS
<1>1. ASSUME NEW l \in Links, PayLink(l) PROVE IInv'
  <2>1. UNCHANGED <<rows, given, returned, cash, queued, edits, history, call, crashes>>
        /\ charged' = charged \cup {l} /\ due' = due \cup {l}
    BY <1>1 DEF PayLink
  <2>2. TypeOK' /\ CapturedIsCollected' /\ BookingFollowsPayment'
    BY <2>1 DEF IInv, TypeOK, CapturedIsCollected, BookingFollowsPayment, history, rows
  <2>3. BalanceFollowsDeposit' /\ PaidForReason'
    BY <2>1 DEF IInv, BalanceFollowsDeposit, PaidForReason, Earned, PaidUp, history, rows
  <2>4. QED
    BY <2>2, <2>3 DEF IInv
<1>2. CASE UNCHANGED vars
  BY <1>2 DEF vars, rows, money, IInv, TypeOK, CapturedIsCollected, BookingFollowsPayment,
              BalanceFollowsDeposit, PaidForReason, Earned, PaidUp, history
<1>3. ASSUME RequestRelease PROVE IInv'
  <2>1. /\ UNCHANGED <<deposit, remaining, reference, booking, money, history, call, crashes>>
        /\ payout' = "released"
    BY <1>3 DEF RequestRelease
  <2>2. TypeOK' /\ CapturedIsCollected' /\ BookingFollowsPayment'
    BY <2>1 DEF IInv, TypeOK, CapturedIsCollected, BookingFollowsPayment, money, history
  <2>3. BalanceFollowsDeposit' /\ PaidForReason'
    BY <2>1 DEF IInv, BalanceFollowsDeposit, PaidForReason, Earned, PaidUp, money, history
  <2>4. QED
    BY <2>2, <2>3 DEF IInv
<1>4. QED
  BY <1>1, <1>2, <1>3, OtherStarts, CollectionStarts, CaptureStarts, MarkCheckoutPaidIInv,
     RecordsIInv, CapturesIInv, QueueIInv, StatusChangesIInv, EditIInv DEF Next, Finish

\* The invariant holds in every reachable state.
LEMMA Invariance == Spec => []IInv
  BY InitIInv, StepIInv, PTL DEF Spec

-----------------------------------------------------------------------------
\* Columns and calls keep their types.
THEOREM TypeCorrect == Spec => []TypeOK
<1>1. IInv => TypeOK
  BY DEF IInv
<1>2. QED
  BY Invariance, <1>1, PTL

\* A captured balance was paid by link or in cash.
THEOREM CapturedIsCollectedCorrect == Spec => []CapturedIsCollected
<1>1. IInv => CapturedIsCollected
  BY DEF IInv
<1>2. QED
  BY Invariance, <1>1, PTL

\* What a booking shows follows its payment, but for a late settlement, the queue
\* and requests.
THEOREM BookingFollowsPaymentCorrect == Spec => []BookingFollowsPayment
<1>1. IInv => BookingFollowsPayment
  BY DEF IInv
<1>2. QED
  BY Invariance, <1>1, PTL

\* Completing a booking pays out only what stands paid in both parts, but for the
\* queue, requests, and a booking that changed after it was read.
THEOREM PayoutEarnedCorrect == Spec => PayoutEarned
<1>1. IInv /\ [Next]_vars =>
        [\A w \in Workers : call[w].op = "complete" /\ call'[w] = Idle /\ payout' # payout =>
           PaidUp \/ queued \/ edits > 0]_vars
  BY DEF IInv, PaidForReason, Earned
<1>2. QED
  BY Invariance, <1>1, PTL DEF Spec, PayoutEarned

\* No settlement reopens a captured balance of a deposit that was not refunded.
THEOREM CapturedStaysCorrect == Spec => CapturedStays
<1>1. IInv /\ [Next]_vars =>
        [remaining = "captured" /\ deposit # "refunded" => remaining' = "captured"]_vars
  <2> SUFFICES ASSUME IInv, Next, remaining = "captured", deposit # "refunded"
               PROVE  remaining' = "captured"
    OBVIOUS
  <2>1. deposit = "paid"
    BY DEF IInv, TypeOK, BalanceFollowsDeposit
  <2>2. ASSUME NEW w \in Workers, MarkCheckoutPaid(w) PROVE remaining' = remaining
    BY <2>1, <2>2 DEF MarkCheckoutPaid
  <2>3. ASSUME NEW w \in Workers, Finish(w) PROVE remaining' = "captured"
    BY <2>2, <2>3 DEF Finish, ProcessRefund, RecordLink, MarkRemainingCaptured,
                      MarkBalanceCashPaid, Capture, SyncMismatch, RecordPayment, ReleaseProviderPayout,
                      RefundCancelled, rows
  <2>4. QED
    BY <2>3 DEF Next, HearOfDeposit, RefundAtGateway, TakeCash, FindMismatch, TakePayment,
       Crash, GenerateBalancePaymentLink, ProcessBalanceEvent, VerifyBalance, PayLink,
       CompleteBooking, CancelBooking, EditPaymentStatus, RequestRelease, rows
<1>2. QED
  BY Invariance, <1>1, PTL DEF Spec, CapturedStays
=============================================================================
