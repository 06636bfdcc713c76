--------------------------- MODULE Checkout_proofs ---------------------------
(***************************************************************************)
(* Proofs about Checkout, for any number of keys, bookings and calls in    *)
(* flight, and any faults; and about Pricing, what the checkout costs, for *)
(* any cart, any discount rules and any number of changes of them.         *)
(***************************************************************************)
EXTENDS Checkout, Pricing, TLAPS

-----------------------------------------------------------------------------
(* The inductive invariant.                                                 *)

\* Money follows a link, a link follows the row it is recorded in, and that row
\* follows the transaction at Paystack.
MoneyFollowsLinks ==
  /\ linked \subseteq opened /\ links \subseteq linked
  /\ charged \subseteq links /\ notified \subseteq charged

\* What the rows of a checkout say together.
RowsAgree ==
  \A k \in Keys : /\ k \in linked => status[k] # "none"
                  /\ status[k] = "paid" => k \in linked

\* What a call that has come to a step may rely on, whatever the others do.
CallsRely ==
  \A w \in Workers :
    LET k == call[w].key IN
      /\ call[w].step # "price"
      /\ call[w].step # "idle" => k \in Keys
      /\ call[w].step = "rows" => status[k] = "none"
      /\ call[w].step \in {"ensure", "open", "record", "refused"} => status[k] # "none"
      /\ call[w].step = "record" => k \in opened \ linked

\* Two calls are never inserting, or never recording, under the same key.
CallsAlone ==
  \A u, w \in Workers :
    call[u] = call[w] /\ call[u].step \in {"rows", "record"} => u = w

IInv == /\ TypeOK /\ PricedOnce /\ ChargeReachesBookings
        /\ MoneyFollowsLinks /\ RowsAgree /\ CallsRely /\ CallsAlone

\* It holds before the first call.
LEMMA InitIInv == Init => IInv
  BY FaultsAssumption
  DEF Init, IInv, TypeOK, PricedOnce, ChargeReachesBookings, MoneyFollowsLinks,
      RowsAgree, CallsRely, CallsAlone, Calls, Steps, Idle

\* A call that goes on, or returns, keeps its type; the others are as before.
LEMMA CallsType ==
  ASSUME TypeOK, NEW w \in Workers
  PROVE  /\ \A s \in Steps : Goto(w, s) =>
              /\ call' \in [Workers -> Calls]
              /\ call'[w] = [step |-> s, key |-> call[w].key]
              /\ call'[w].step = s /\ call'[w].key = call[w].key
              /\ \A u \in Workers : u # w => call'[u] = call[u]
         /\ Return(w) =>
              /\ call' \in [Workers -> Calls]
              /\ call'[w] = Idle
              /\ \A u \in Workers : u # w => call'[u] = call[u]
<1>1. /\ call \in [Workers -> Calls] /\ Idle \in Calls
      /\ \A s \in Steps : [step |-> s, key |-> call[w].key] \in Calls
      /\ \A s \in Steps : /\ [step |-> s, key |-> call[w].key].step = s
                         /\ [step |-> s, key |-> call[w].key].key = call[w].key
  BY DEF TypeOK, Calls, Idle, Steps
<1>2. \A s \in Steps :
        [call[w] EXCEPT !.step = s] = [step |-> s, key |-> call[w].key]
  BY <1>1 DEF Calls
<1>3. QED
  BY <1>1, <1>2 DEF Goto, Return

\* Calls and keys as they are used below.
LEMMA CallFields ==
  ASSUME TypeOK, NEW w \in Workers
  PROVE  call[w].step \in Steps /\ call[w].key \in Keys \cup {None}
  BY DEF TypeOK, Calls

\* initializePayment starts a call.
LEMMA InitializePaymentIInv ==
  ASSUME IInv, NEW w \in Workers, NEW k \in Keys, InitializePayment(w, k)
  PROVE  IInv'
  BY DEF InitializePayment, tables, paystack, IInv, TypeOK, PricedOnce,
     ChargeReachesBookings, MoneyFollowsLinks, RowsAgree, CallsRely, CallsAlone, Calls, Steps

\* A step that only sends the call on to another step, hands out a link or ends it.
LEMMA OnlyCall ==
  ASSUME IInv, NEW w \in Workers, UNCHANGED <<tables, paystack>>, faults' \in 0..MaxFaults,
         \/ /\ links' = links
            /\ \/ Return(w)
               \/ Goto(w, "insert") /\ call[w].step # "idle"
               \/ Goto(w, "winner") /\ call[w].step # "idle"
               \/ /\ status[call[w].key] # "none" /\ call[w].step # "idle"
                  /\ \E s \in {"ensure", "open", "refused"} : Goto(w, s)
               \/ /\ status[call[w].key] = "none" /\ call[w].step # "idle"
                  /\ ~Inserting(call[w].key) /\ Goto(w, "rows")
         \/ HandOut(w, call[w].key) /\ call[w].key \in linked
  PROVE  IInv'
<1> USE DEF IInv
<1>0. call[w].step # "idle" => call[w].key \in Keys
  BY DEF CallsRely
<1>1. call' \in [Workers -> Calls] /\ \A u \in Workers : u # w => call'[u] = call[u]
  <2>1. CASE Return(w)
    BY <2>1, CallsType
  <2>2. ASSUME NEW s \in Steps, Goto(w, s)
        PROVE  call' \in [Workers -> Calls] /\ \A u \in Workers : u # w => call'[u] = call[u]
    BY <2>2, CallsType
  <2>3. Return(w) \/ \E s \in Steps : Goto(w, s)
    BY DEF HandOut, Steps
  <2>4. QED
    BY <2>1, <2>2, <2>3
<1>2. \/ call'[w] = Idle
      \/ /\ call'[w].key = call[w].key /\ call[w].key \in Keys
         /\ \/ call'[w].step \in {"insert", "winner"}
            \/ call'[w].step \in {"ensure", "open", "refused"} /\ status[call[w].key] # "none"
            \/ /\ call'[w].step = "rows" /\ status[call[w].key] = "none"
               /\ ~Inserting(call[w].key)
  BY CallsType, <1>0 DEF HandOut, Steps
<1>3. links' \subseteq linked /\ links \subseteq links'
  BY DEF HandOut, MoneyFollowsLinks
<1>4. TypeOK'
  BY <1>1, <1>3 DEF TypeOK, tables, paystack
<1>5. (PricedOnce /\ ChargeReachesBookings /\ MoneyFollowsLinks /\ RowsAgree)'
  BY <1>3 DEF PricedOnce, ChargeReachesBookings, MoneyFollowsLinks, RowsAgree, tables, paystack
<1>6. CallsRely'
  BY <1>1, <1>2 DEF CallsRely, tables, paystack, Idle
<1>7. \A u \in Workers : u # w /\ call'[u] = call'[w] => call'[w].step \notin {"rows", "record"}
  <2>1. SUFFICES ASSUME NEW u \in Workers, u # w, call[u] = call'[w], call'[w].step = "rows"
                 PROVE  FALSE
    BY <1>1, <1>2 DEF Idle
  <2>2. call[u].key = call[w].key /\ call[u].step = "rows" /\ ~Inserting(call[w].key)
    BY <1>2, <2>1 DEF Idle
  <2>3. call[u] = [step |-> "rows", key |-> call[w].key]
    BY <2>2 DEF TypeOK, Calls
  <2>4. QED
    BY <2>2, <2>3 DEF Inserting
<1>8. CallsAlone'
  BY <1>1, <1>7 DEF CallsAlone
<1>9. QED
  BY <1>4, <1>5, <1>6, <1>8

\* The rows of the key are committed: the call inserts them alone, and no other
\* call relies on their absence.
LEMMA CommitCheckoutIInv ==
  ASSUME IInv, NEW w \in Workers, CommitCheckout(w)
  PROVE  IInv'
<1> DEFINE k == call[w].key
<1> USE DEF IInv
<1>1. k \in Keys /\ status[k] = "none" /\ priced[k] = 0 /\ k \notin linked
  BY DEF CommitCheckout, CallsRely, PricedOnce, RowsAgree
<1>2. /\ call' \in [Workers -> Calls] /\ \A u \in Workers : u # w => call'[u] = call[u]
      /\ call'[w] = [step |-> "open", key |-> k]
  BY CallsType DEF CommitCheckout, Steps
<1>3. /\ status' = [status EXCEPT ![k] = "pending"] /\ priced' = [priced EXCEPT ![k] = 1]
      /\ UNCHANGED <<linked, paid, paystack, links, faults>>
  BY <1>1 DEF CommitCheckout, TypeOK
<1>4. TypeOK'
  BY <1>1, <1>2, <1>3 DEF TypeOK, paystack
<1>5. (PricedOnce /\ ChargeReachesBookings /\ MoneyFollowsLinks /\ RowsAgree)'
  BY <1>1, <1>3 DEF TypeOK, PricedOnce, ChargeReachesBookings, MoneyFollowsLinks, RowsAgree,
                    paystack
<1>6. \A u \in Workers : u # w /\ call[u].step = "rows" => call[u].key # k
  BY CallFields DEF CommitCheckout, CallsAlone, TypeOK, Calls
<1>7. CallsRely'
  BY <1>1, <1>2, <1>3, <1>6 DEF CallsRely, TypeOK, paystack
<1>8. CallsAlone'
  BY <1>2 DEF CallsAlone
<1>9. QED
  BY <1>4, <1>5, <1>7, <1>8

\* Paystack opens the transaction: nobody else is recording the key, for it was
\* not open before.
LEMMA OpenTransactionIInv ==
  ASSUME IInv, NEW w \in Workers, OpenTransaction(w)
  PROVE  IInv'
<1> DEFINE k == call[w].key
<1> USE DEF IInv
<1>1. call[w].step = "open" /\ k \in Keys /\ status[k] # "none"
  BY DEF OpenTransaction, CallsRely
<1>2. faults' \in 0..MaxFaults /\ UNCHANGED <<tables, charged, notified, links>>
  BY FaultsAssumption DEF OpenTransaction, Fault, TypeOK
<1>3. CASE opened' = opened
  <2>1. Goto(w, "refused")
    BY <1>1, <1>3 DEF OpenTransaction
  <2>2. QED
    BY <1>1, <1>2, <1>3, <2>1, OnlyCall DEF paystack
<1>4. CASE opened' # opened
  <2>1. k \notin opened /\ opened' = opened \cup {k} /\ (Goto(w, "record") \/ Goto(w, "refused"))
    BY <1>4 DEF OpenTransaction
  <2>2. /\ call' \in [Workers -> Calls] /\ \A u \in Workers : u # w => call'[u] = call[u]
        /\ call'[w].key = k /\ call'[w].step \in {"record", "refused"}
    <3>1. CASE Goto(w, "record")
      BY <3>1, CallsType DEF Steps
    <3>2. CASE Goto(w, "refused")
      BY <3>2, CallsType DEF Steps
    <3>3. QED
      BY <2>1, <3>1, <3>2
  <2>3. k \notin linked
    BY <2>1 DEF MoneyFollowsLinks
  <2>4. TypeOK'
    BY <1>1, <1>2, <2>1, <2>2 DEF TypeOK, tables
  <2>5. (PricedOnce /\ ChargeReachesBookings /\ MoneyFollowsLinks /\ RowsAgree)'
    BY <1>2, <2>1 DEF PricedOnce, ChargeReachesBookings, MoneyFollowsLinks, RowsAgree, tables
  <2>6. CallsRely'
    BY <1>1, <1>2, <2>1, <2>2, <2>3 DEF CallsRely, tables
  <2>7. \A u \in Workers : call[u].step = "record" => call[u].key # k
    BY <2>1 DEF CallsRely
  <2>8. CallsAlone'
    BY <2>2, <2>7 DEF CallsAlone
  <2>9. QED
    BY <2>4, <2>5, <2>6, <2>8
<1>5. QED
  BY <1>3, <1>4

\* The link is recorded by the one call that opened the transaction.
LEMMA RecordLinkIInv ==
  ASSUME IInv, NEW w \in Workers, RecordLink(w)
  PROVE  IInv'
<1> DEFINE k == call[w].key
<1> USE DEF IInv
<1>1. k \in Keys /\ status[k] # "none" /\ k \in opened \ linked
  BY DEF RecordLink, CallsRely
<1>2. /\ call' \in [Workers -> Calls] /\ \A u \in Workers : u # w => call'[u] = call[u]
      /\ call'[w] = Idle
  BY CallsType DEF RecordLink, HandOut
<1>3. /\ linked' = linked \cup {k} /\ status' = [status EXCEPT ![k] = "pending"]
      /\ links' = links \cup {k} /\ UNCHANGED <<priced, paid, paystack, faults>>
  BY DEF RecordLink, HandOut
<1>4. TypeOK'
  BY <1>1, <1>2, <1>3 DEF TypeOK, paystack
<1>5. (PricedOnce /\ ChargeReachesBookings /\ MoneyFollowsLinks /\ RowsAgree)'
  BY <1>1, <1>3 DEF TypeOK, PricedOnce, ChargeReachesBookings, MoneyFollowsLinks, RowsAgree,
                    paystack
<1>6. \A u \in Workers : u # w /\ call[u].step = "record" => call[u].key # k
  BY CallFields DEF RecordLink, CallsAlone, TypeOK, Calls
<1>7. CallsRely'
  BY <1>1, <1>2, <1>3, <1>6 DEF CallsRely, TypeOK, paystack, Idle
<1>8. CallsAlone'
  BY <1>2 DEF CallsAlone, Idle
<1>9. QED
  BY <1>4, <1>5, <1>7, <1>8

\* A refused call marks its checkout failed; the row is there.
LEMMA MarkFailedIInv ==
  ASSUME IInv, NEW w \in Workers, MarkFailed(w)
  PROVE  IInv'
<1> DEFINE k == call[w].key
<1> USE DEF IInv
<1>1. k \in Keys /\ status[k] # "none"
  BY DEF MarkFailed, CallsRely
<1>2. /\ call' \in [Workers -> Calls] /\ \A u \in Workers : u # w => call'[u] = call[u]
      /\ call'[w] = Idle
  BY CallsType DEF MarkFailed
<1>3. /\ status' = [status EXCEPT ![k] = "failed"]
      /\ UNCHANGED <<priced, linked, paid, paystack, links, faults>>
  BY DEF MarkFailed
<1>4. TypeOK'
  BY <1>1, <1>2, <1>3 DEF TypeOK, paystack
<1>5. (PricedOnce /\ ChargeReachesBookings /\ MoneyFollowsLinks /\ RowsAgree)'
  BY <1>1, <1>3 DEF TypeOK, PricedOnce, ChargeReachesBookings, MoneyFollowsLinks, RowsAgree,
                    paystack
<1>6. CallsRely'
  BY <1>1, <1>2, <1>3 DEF CallsRely, TypeOK, paystack, Idle
<1>7. CallsAlone'
  BY <1>2 DEF CallsAlone, Idle
<1>8. QED
  BY <1>4, <1>5, <1>6, <1>7

\* A charge is settled: its reference is on the checkout by then.
LEMMA SettleIInv ==
  ASSUME IInv, NEW k \in Keys, Settle(k)
  PROVE  IInv'
<1> USE DEF IInv
<1>1. k \in linked /\ status[k] # "none" /\ BookingsOf[k] \subseteq Bookings
  BY KeysAssumption DEF Settle, MoneyFollowsLinks, RowsAgree
<1>2. /\ notified' = notified \cup {k} /\ status' = [status EXCEPT ![k] = "paid"]
      /\ paid' = paid \cup BookingsOf[k]
      /\ UNCHANGED <<priced, linked, opened, charged, links, call, faults>>
  BY <1>1 DEF Settle
<1>3. TypeOK'
  BY <1>1, <1>2 DEF TypeOK
<1>4. (PricedOnce /\ ChargeReachesBookings /\ RowsAgree)'
  BY <1>1, <1>2 DEF TypeOK, PricedOnce, ChargeReachesBookings, RowsAgree
<1>5. MoneyFollowsLinks'
  BY <1>2 DEF MoneyFollowsLinks, Settle
<1>6. (CallsRely /\ CallsAlone)'
  BY <1>1, <1>2 DEF CallsRely, CallsAlone, TypeOK
<1>7. QED
  BY <1>3, <1>4, <1>5, <1>6

\* Every step keeps the invariant.
LEMMA StepIInv == IInv /\ [Next]_vars => IInv'
<1> SUFFICES ASSUME IInv, [Next]_vars PROVE IInv'
  OBVIOUS
<1>1. ASSUME NEW w \in Workers, FindCheckout(w) PROVE IInv'
  <2>1. faults' \in 0..MaxFaults /\ UNCHANGED <<tables, paystack>> /\ call[w].step = "find"
    BY <1>1 DEF FindCheckout, IInv, TypeOK
  <2>2. QED
    BY <1>1, <2>1, OnlyCall DEF FindCheckout
<1>2. ASSUME NEW w \in Workers, EnsurePayments(w) PROVE IInv'
  <2>1. call[w].step = "ensure" /\ call[w].key \in Keys /\ status[call[w].key] # "none"
    BY <1>2 DEF EnsurePayments, IInv, CallsRely
  <2>2. priced[call[w].key] # 0
    BY <2>1 DEF IInv, PricedOnce
  <2>3. Goto(w, "open") /\ UNCHANGED <<tables, paystack, links>> /\ faults' \in 0..MaxFaults
    BY <1>2, <2>1, <2>2 DEF EnsurePayments, tables, IInv, TypeOK
  <2>4. QED
    BY <2>1, <2>3, OnlyCall
<1>3. ASSUME NEW w \in Workers, InsertCheckout(w) PROVE IInv'
  <2>1. faults' \in 0..MaxFaults /\ UNCHANGED <<tables, paystack, links>> /\ call[w].step # "idle"
    BY <1>3 DEF InsertCheckout, IInv, TypeOK
  <2>2. QED
    BY <1>3, <2>1, OnlyCall DEF InsertCheckout
<1>4. ASSUME NEW w \in Workers, RollBackCheckout(w) \/ Crash(w) PROVE IInv'
  <2>1. faults' \in 0..MaxFaults /\ UNCHANGED <<tables, paystack, links>> /\ call[w].step # "idle"
    BY <1>4, FaultsAssumption DEF RollBackCheckout, Crash, Fault, IInv, TypeOK
  <2>2. Return(w) \/ Goto(w, "winner")
    BY <1>4 DEF RollBackCheckout, Crash
  <2>3. QED
    BY <2>1, <2>2, OnlyCall
<1>5. ASSUME NEW w \in Workers, FindRaceWinner(w) PROVE IInv'
  <2>1. faults' \in 0..MaxFaults /\ UNCHANGED <<tables, paystack>> /\ call[w].step # "idle"
    BY <1>5 DEF FindRaceWinner, IInv, TypeOK
  <2>2. QED
    BY <1>5, <2>1, OnlyCall DEF FindRaceWinner
<1>6. ASSUME NEW k \in Keys, Pay(k) PROVE IInv'
  BY <1>6 DEF Pay, tables, IInv, TypeOK, PricedOnce, ChargeReachesBookings,
     MoneyFollowsLinks, RowsAgree, CallsRely, CallsAlone
<1>7. CASE UNCHANGED vars
  BY <1>7 DEF vars, tables, paystack, IInv, TypeOK, PricedOnce, ChargeReachesBookings,
     MoneyFollowsLinks, RowsAgree, CallsRely, CallsAlone
<1>8. QED
  BY <1>1, <1>2, <1>3, <1>4, <1>5, <1>6, <1>7, InitializePaymentIInv, CommitCheckoutIInv,
     OpenTransactionIInv, RecordLinkIInv, MarkFailedIInv, SettleIInv DEF Next, Continue

\* The invariant holds in every reachable state.
THEOREM Invariance == Spec => []IInv
  BY InitIInv, StepIInv, PTL DEF Spec

-----------------------------------------------------------------------------
\* Rows and calls keep their types, for every number of calls and faults.
THEOREM TypeCorrect == Spec => []TypeOK
<1>1. IInv => TypeOK
  BY DEF IInv
<1>2. QED
  BY Invariance, <1>1, PTL

\* However many calls race under a key, its payment rows are inserted once.
THEOREM PricedOnceCorrect == Spec => []PricedOnce
<1>1. IInv => PricedOnce
  BY DEF IInv
<1>2. QED
  BY Invariance, <1>1, PTL

\* Every charge that Paystack reports reaches the bookings it pays for: whoever
\* has a link has it from a checkout that carries the reference.
THEOREM ChargeCorrect == Spec => []ChargeReachesBookings
<1>1. IInv => ChargeReachesBookings
  BY DEF IInv
<1>2. QED
  BY Invariance, <1>1, PTL

\* No call sets a paid checkout back to pending.
THEOREM PaidNotResetCorrect == Spec => PaidNotReset
<1>1. IInv /\ [Next]_vars => [\A k \in Keys : status[k] = "paid" => status'[k] # "pending"]_vars
  <2>1. SUFFICES ASSUME IInv, Next, NEW k \in Keys, status[k] = "paid"
                 PROVE  status'[k] # "pending"
    OBVIOUS
  <2>2. status \in [Keys -> {"none", "pending", "paid", "failed"}] /\ k \in linked
    BY <2>1 DEF IInv, TypeOK, RowsAgree
  <2>3. CASE UNCHANGED status
    BY <2>1, <2>3
  <2>4. ASSUME NEW w \in Workers, CommitCheckout(w) PROVE status'[k] # "pending"
    BY <2>1, <2>2, <2>4 DEF CommitCheckout, IInv, CallsRely
  <2>5. ASSUME NEW w \in Workers, RecordLink(w) PROVE status'[k] # "pending"
    BY <2>1, <2>2, <2>5 DEF RecordLink, IInv, CallsRely
  <2>6. ASSUME NEW w \in Workers, MarkFailed(w) PROVE status'[k] # "pending"
    BY <2>1, <2>2, <2>6 DEF MarkFailed
  <2>7. ASSUME NEW j \in Keys, Settle(j) PROVE status'[k] # "pending"
    BY <2>1, <2>2, <2>7 DEF Settle
  <2>8. Next => \/ UNCHANGED status
                \/ \E w \in Workers : CommitCheckout(w) \/ RecordLink(w) \/ MarkFailed(w)
                \/ \E j \in Keys : Settle(j)
    BY DEF Next, Continue, InitializePayment, FindCheckout, EnsurePayments, InsertCheckout,
           RollBackCheckout, FindRaceWinner, OpenTransaction, Crash, Pay, tables
  <2>9. QED
    BY <2>1, <2>3, <2>4, <2>5, <2>6, <2>7, <2>8
<1>2. QED
  BY Invariance, <1>1, PTL DEF Spec, PaidNotReset

-----------------------------------------------------------------------------
(* Checkout keeps its promise. *)

\* A call that is idle is about no key.
IdleAsksNothing == \A w \in Workers : call[w].step = "idle" => call[w].key = None

\* A call in flight goes on, and is about the same key.
LEMMA GotoAsksOn ==
  ASSUME TypeOK, NEW w \in Workers, NEW s \in Steps, Goto(w, s)
  PROVE  /\ \A v \in Workers : call'[v].key = call[v].key
         /\ \A v \in Workers : v # w => call'[v] = call[v]
         /\ call'[w].step = s
         /\ Asking' = Asking
<1>1. call[w] \in Calls /\ \A v \in Workers : call[v] \in Calls
  BY DEF TypeOK
<1>2. call'[w] = [call[w] EXCEPT !.step = s] /\ \A v \in Workers : v # w => call'[v] = call[v]
  BY DEF Goto, TypeOK
<1>3. call'[w].key = call[w].key /\ call'[w].step = s
  BY <1>1, <1>2 DEF Calls
<1>4. \A v \in Workers : call'[v].key = call[v].key
  BY <1>2, <1>3
<1>5. QED  BY <1>2, <1>3, <1>4 DEF Asking

\* A call that ends asks no more; another one may still ask for its key.
LEMMA ReturnAsksNoMore ==
  ASSUME TypeOK, NEW w \in Workers, Return(w)
  PROVE  /\ \A v \in Workers : v # w => call'[v] = call[v]
         /\ call'[w].step = "idle" /\ call'[w].key = None
         /\ Asking' \in {Asking, Asking \ {call[w].key}}
<1>1. /\ \A v \in Workers : v # w => call'[v] = call[v]
      /\ call'[w].step = "idle" /\ call'[w].key = None
  BY DEF Return, TypeOK, Idle
<1>2. \A k \in Keys : (\E v \in Workers : call'[v].key = k)
                        <=> (\E v \in Workers : v # w /\ call[v].key = k)
  BY <1>1, KeysAssumption
<1>3. Asking' = {k \in Keys : \E v \in Workers : v # w /\ call[v].key = k}
  BY <1>2 DEF Asking
<1>4. CASE \E v \in Workers : v # w /\ call[v].key = call[w].key
  <2>1. \A k \in Keys : (\E v \in Workers : call[v].key = k)
                          <=> (\E v \in Workers : v # w /\ call[v].key = k)
    BY <1>4
  <2>2. Asking' = Asking
    BY <1>3, <2>1 DEF Asking
  <2>3. QED  BY <1>1, <2>2
<1>5. CASE ~\E v \in Workers : v # w /\ call[v].key = call[w].key
  <2>1. \A k \in Keys : ((\E v \in Workers : call[v].key = k) /\ k # call[w].key)
                          <=> (\E v \in Workers : v # w /\ call[v].key = k)
    BY <1>5
  <2>2. Asking' = Asking \ {call[w].key}
    BY <1>3, <2>1 DEF Asking
  <2>3. QED  BY <1>1, <2>2
<1>6. QED  BY <1>4, <1>5

\* What a step does to the calls: one asks, or goes on, or ends, or none moves.
CallSteps ==
  \/ \E w \in Workers, k \in Keys : InitializePayment(w, k)
  \/ \E w \in Workers : call[w].step # "idle" /\ \E s \in Steps \ {"idle"} : Goto(w, s)
  \/ \E w \in Workers : Return(w)
  \/ UNCHANGED call

LEMMA NextMovesCalls == [Next]_vars => CallSteps
<1>1. ASSUME NEW w \in Workers, Continue(w) \/ RollBackCheckout(w) \/ Crash(w)
      PROVE  CallSteps
  BY <1>1 DEF Continue, FindCheckout, EnsurePayments, InsertCheckout, CommitCheckout,
     FindRaceWinner, OpenTransaction, RecordLink, MarkFailed, RollBackCheckout, Crash,
     HandOut, CallSteps, Steps
<1>2. ASSUME NEW k \in Keys, Pay(k) \/ Settle(k)
      PROVE  CallSteps
  BY <1>2 DEF Pay, Settle, CallSteps
<1>3. QED
  BY <1>1, <1>2 DEF Next, vars, CallSteps

LEMMA IdleAsksNothingHolds == Spec => []IdleAsksNothing
<1>1. Init => IdleAsksNothing
  BY DEF Init, Idle, IdleAsksNothing
<1>2. IInv /\ IdleAsksNothing /\ [Next]_vars => IdleAsksNothing'
  <2> SUFFICES ASSUME IInv, IdleAsksNothing, [Next]_vars, NEW v \in Workers,
                      call'[v].step = "idle"
               PROVE  call'[v].key = None
    BY DEF IdleAsksNothing
  <2>1. TypeOK /\ (call[v].step = "idle" => call[v].key = None) /\ CallSteps
    BY NextMovesCalls DEF IInv, IdleAsksNothing
  <2>2. ASSUME NEW w \in Workers, NEW k \in Keys, InitializePayment(w, k)
        PROVE  call'[v].key = None
    BY <2>1, <2>2 DEF InitializePayment, TypeOK
  <2>3. ASSUME NEW w \in Workers, NEW s \in Steps \ {"idle"}, Goto(w, s)
        PROVE  call'[v].key = None
    BY <2>1, <2>3, GotoAsksOn
  <2>4. ASSUME NEW w \in Workers, Return(w)
        PROVE  call'[v].key = None
    BY <2>1, <2>4, ReturnAsksNoMore
  <2>5. QED
    BY <2>1, <2>2, <2>3, <2>4 DEF CallSteps
<1>3. QED
  BY <1>1, <1>2, Invariance, PTL DEF Spec

\* A checkout is closed by the payment of any of its bookings, unless its link
\* was handed out or a call that had seen them unpaid was under way
\* (assertBookingsUnpaid, in initializePayment): it stays closed.
THEOREM NoLinkOncePaidCorrect == Spec => NoLinkOncePaid
<1>1. IInv /\ [Next]_vars => [\A k \in Keys : Closed(k) => Closed(k)']_vars
  <2> SUFFICES ASSUME IInv, [Next]_vars, NEW k \in Keys, Closed(k)
               PROVE  Closed(k)'
    OBVIOUS
  <2>1. TypeOK /\ CallSteps /\ k # None
    BY NextMovesCalls, KeysAssumption DEF IInv
  <2>2. \A w \in Workers : call'[w].key # k
    <3>1. ASSUME NEW w \in Workers, NEW j \in Keys, InitializePayment(w, j)
          PROVE  \A v \in Workers : call'[v].key # k
      <4>1. j # k /\ call' = [call EXCEPT ![w] = [step |-> "find", key |-> j]]
        BY <3>1 DEF InitializePayment, AssertBookingsUnpaid, Closed
      <4>2. QED  BY <2>1, <4>1 DEF TypeOK, Closed
    <3>2. ASSUME NEW w \in Workers, NEW s \in Steps \ {"idle"}, Goto(w, s)
          PROVE  \A v \in Workers : call'[v].key # k
      BY <2>1, <3>2, GotoAsksOn DEF Closed
    <3>3. ASSUME NEW w \in Workers, Return(w)
          PROVE  \A v \in Workers : call'[v].key # k
      BY <2>1, <3>3, ReturnAsksNoMore DEF Closed
    <3>4. QED  BY <2>1, <3>1, <3>2, <3>3 DEF CallSteps, Closed
  <2>3. paid \subseteq paid'
    BY DEF Next, vars, tables, Continue, InitializePayment, FindCheckout, EnsurePayments,
       InsertCheckout, CommitCheckout, FindRaceWinner, OpenTransaction, RecordLink, MarkFailed,
       RollBackCheckout, Crash, Pay, Settle
  <2>4. k \notin links'
    <3>1. \A w \in Workers : k # call[w].key
      BY DEF Closed
    <3>2. links' = links \/ \E w \in Workers : links' = links \cup {call[w].key}
      BY DEF Next, vars, Continue, InitializePayment, FindCheckout, EnsurePayments,
         InsertCheckout, CommitCheckout, FindRaceWinner, OpenTransaction, RecordLink, MarkFailed,
         RollBackCheckout, Crash, Pay, Settle, HandOut
    <3>3. QED  BY <3>1, <3>2 DEF Closed
  <2>5. QED  BY <2>2, <2>3, <2>4 DEF Closed
<1>2. QED
  BY <1>1, Invariance, PTL DEF Spec, NoLinkOncePaid

\* A call in flight asks for its key.
LEMMA InFlightAsks ==
  ASSUME IInv, NEW w \in Workers, call[w].step # "idle"
  PROVE  call[w].key \in Keys /\ call[w].key \in Asking
  BY DEF IInv, CallsRely, Asking

\* A checkout that is there was priced once.
LEMMA ThereIsPriced ==
  ASSUME IInv, NEW k \in Keys, status[k] # "none"
  PROVE  priced[k] = 1
  BY DEF IInv, PricedOnce

\* What the promise is made of, beside Asking.
promised == <<priced, links, charged, notified, paid>>

\* A link is handed out by a call that ends.
LEMMA HandsOut ==
  ASSUME IInv, NEW w \in Workers, call[w].step # "idle", status[call[w].key] # "none",
         HandOut(w, call[w].key), UNCHANGED <<priced, charged, notified, paid>>
  PROVE  Promise!HandOut(call[w].key)
<1>1. call[w].key \in Keys /\ call[w].key \in Asking /\ priced[call[w].key] = 1
  BY InFlightAsks, ThereIsPriced
<1>2. Return(w) /\ links' = links \cup {call[w].key}
  BY DEF HandOut
<1>3. Asking' \in {Asking, Asking \ {call[w].key}}
  BY <1>2, ReturnAsksNoMore DEF IInv
<1>4. QED  BY <1>1, <1>2, <1>3 DEF Promise!HandOut

\* A call goes on, or ends without a link.
LEMMA GoesOnOrLeaves ==
  ASSUME IInv, NEW w \in Workers, call[w].step # "idle", UNCHANGED promised,
         Return(w) \/ \E s \in Steps : Goto(w, s)
  PROVE  Promise!Leave(call[w].key) \/ UNCHANGED Promise!vars
<1>1. Asking' \in {Asking, Asking \ {call[w].key}}
  BY ReturnAsksNoMore, GotoAsksOn DEF IInv
<1>2. QED  BY <1>1 DEF promised, Promise!Leave, Promise!vars

\* Each step of a call is a step of the promise, or leaves it alone.
LEMMA CallKeepsPromise ==
  ASSUME IInv, NEW w \in Workers, Continue(w) \/ RollBackCheckout(w) \/ Crash(w)
  PROVE  \/ UNCHANGED Promise!vars
         \/ \E k \in Keys : Promise!Leave(k) \/ Promise!Price(k) \/ Promise!HandOut(k)
<1> DEFINE k == call[w].key
<1>1. call[w].step # "idle"
  BY DEF Continue, FindCheckout, EnsurePayments, InsertCheckout, CommitCheckout,
     FindRaceWinner, OpenTransaction, RecordLink, MarkFailed, RollBackCheckout, Crash
<1>2. k \in Keys /\ k \in Asking /\ (k \in linked => status[k] # "none")
  BY <1>1, InFlightAsks DEF IInv, RowsAgree
<1>3. CASE FindCheckout(w) \/ FindRaceWinner(w)
  <2>1. UNCHANGED <<priced, charged, notified, paid>>
    BY <1>3 DEF FindCheckout, FindRaceWinner, tables, paystack
  <2>2. CASE k \in linked
    <3>1. HandOut(w, k)
      BY <1>2, <1>3, <2>2 DEF FindCheckout, FindRaceWinner
    <3>2. QED  BY <1>1, <1>2, <2>1, <2>2, <3>1, HandsOut
  <2>3. CASE k \notin linked
    <3>1. UNCHANGED links /\ (Return(w) \/ \E s \in Steps : Goto(w, s))
      BY <1>3, <2>3 DEF FindCheckout, FindRaceWinner, Steps
    <3>2. QED  BY <1>1, <1>2, <2>1, <3>1, GoesOnOrLeaves DEF promised
  <2>4. QED  BY <2>2, <2>3
<1>4. CASE EnsurePayments(w)
  <2>1. call[w].step = "ensure" /\ priced[k] = 1
    BY <1>2, <1>4, ThereIsPriced DEF EnsurePayments, IInv, CallsRely
  <2>2. UNCHANGED promised /\ \E s \in Steps : Goto(w, s)
    BY <1>4, <2>1 DEF EnsurePayments, promised, paystack, Steps
  <2>3. QED  BY <1>1, <1>2, <2>2, GoesOnOrLeaves
<1>5. CASE CommitCheckout(w)
  <2>1. priced[k] = 0 /\ priced' = [priced EXCEPT ![k] = @ + 1] /\ priced \in [Keys -> Nat]
    BY <1>2, <1>5 DEF CommitCheckout, IInv, TypeOK, CallsRely, PricedOnce
  <2>2. Goto(w, "open") /\ "open" \in Steps
    BY <1>5 DEF CommitCheckout, Steps
  <2>3. Asking' = Asking
    BY <2>2, GotoAsksOn DEF IInv
  <2>4. priced' = [priced EXCEPT ![k] = 1]
    BY <1>2, <2>1
  <2>5. Promise!Price(k)
    BY <1>2, <1>5, <2>1, <2>3, <2>4 DEF CommitCheckout, paystack, Promise!Price
  <2>6. QED  BY <1>2, <2>5
<1>6. CASE RecordLink(w)
  <2>1. status[k] # "none" /\ HandOut(w, k) /\ UNCHANGED <<priced, charged, notified, paid>>
    BY <1>6 DEF RecordLink, paystack, IInv, CallsRely
  <2>2. QED  BY <1>1, <1>2, <2>1, HandsOut
<1>7. CASE InsertCheckout(w) \/ OpenTransaction(w) \/ MarkFailed(w) \/ RollBackCheckout(w) \/ Crash(w)
  <2>1. UNCHANGED promised /\ (Return(w) \/ \E s \in Steps : Goto(w, s))
    BY <1>7 DEF InsertCheckout, OpenTransaction, MarkFailed, RollBackCheckout, Crash,
       promised, tables, paystack, Steps
  <2>2. QED  BY <1>1, <1>2, <2>1, GoesOnOrLeaves
<1>8. QED
  BY <1>3, <1>4, <1>5, <1>6, <1>7 DEF Continue

\* initializePayment implements the promise: however calls race, retry, roll back
\* or are cut short, a link is asked for while the bookings are unpaid, of a
\* checkout priced once; only links handed out are charged, and a charge that is
\* settled pays all its bookings.
THEOREM CheckoutKeepsPromise == Spec => PromiseKept
<1>1. Init => Promise!Init
  <2>1. Init => Asking = {}
    BY KeysAssumption DEF Init, Idle, Asking
  <2>2. QED  BY <2>1 DEF Init, Promise!Init
<1>2. IInv /\ IdleAsksNothing /\ [Next]_vars => [Promise!Next]_(Promise!vars)
  <2> SUFFICES ASSUME IInv, IdleAsksNothing, [Next]_vars
               PROVE  Promise!Next \/ UNCHANGED Promise!vars
    OBVIOUS
  <2>1. ASSUME NEW w \in Workers, NEW k \in Keys, InitializePayment(w, k)
        PROVE  Promise!Ask(k)
    <3>1. /\ BookingsOf[k] \cap paid = {} /\ UNCHANGED promised /\ call[w].key = None
          /\ call' = [call EXCEPT ![w] = [step |-> "find", key |-> k]]
      BY <2>1 DEF InitializePayment, AssertBookingsUnpaid, promised, tables, paystack,
         IdleAsksNothing
    <3>2. \A v \in Workers : call'[v].key = IF v = w THEN k ELSE call[v].key
      BY <3>1 DEF IInv, TypeOK
    <3>3. Asking' = Asking \cup {k}
      BY <3>1, <3>2, KeysAssumption DEF Asking
    <3>4. QED  BY <3>1, <3>3 DEF promised, Promise!Ask
  <2>2. ASSUME NEW w \in Workers, Continue(w) \/ RollBackCheckout(w) \/ Crash(w)
        PROVE  Promise!Next \/ UNCHANGED Promise!vars
    BY <2>2, CallKeepsPromise DEF Promise!Next
  <2>3. ASSUME NEW k \in Keys, Pay(k)
        PROVE  Promise!Charge(k)
    BY <2>3 DEF Pay, tables, Asking, Promise!Charge
  <2>4. ASSUME NEW k \in Keys, Settle(k)
        PROVE  Promise!Settle(k)
    BY <2>4 DEF Settle, IInv, MoneyFollowsLinks, Asking, Promise!Settle
  <2>5. CASE UNCHANGED vars
    BY <2>5 DEF vars, tables, paystack, Asking, Promise!vars
  <2>6. QED
    BY <2>1, <2>2, <2>3, <2>4, <2>5 DEF Next, Promise!Next
<1>3. QED
  BY <1>1, <1>2, Invariance, IdleAsksNothingHolds, PTL DEF Spec, PromiseKept, Promise!Spec

-----------------------------------------------------------------------------
(* What a checkout costs: Pricing. *)

\* Rounding a whole number of hundredths is off by half a naira at most.
LEMMA RoundingError ==
  ASSUME NEW x \in Int
  PROVE  /\ Round(x) \in Int
         /\ x - 50 < 100 * Round(x) /\ 100 * Round(x) <= x + 50
  BY DEF Round

\* ... and leaves whole naira as they are, and the order as it is.
LEMMA RoundingWhole ==
  ASSUME NEW x \in Int, NEW n \in Int, x <= 100 * n
  PROVE  /\ Round(x) <= n
         /\ x = 100 * n => Round(x) = n
         /\ x >= 0 => Round(x) >= 0
  BY DEF Round

\* The rules, in whatever order, are rules.
LEMMA LoadedRules ==
  ASSUME PricingTypeOK, Load
  PROVE  DOMAIN loaded' \subseteq Nat /\ \A i \in DOMAIN loaded' : loaded'[i] \in Rule
  <1>1. PICK f \in [1..Cardinality(Active) -> Active] :
          loaded' = [i \in DOMAIN f |-> rules[f[i]]]
    BY DEF Load
  <1>2. \A r \in Active : rules[r] \in Rule
    BY DEF Active, PricingTypeOK
  <1>3. DOMAIN f \subseteq Nat
    OBVIOUS
  <1> QED
    BY <1>1, <1>2, <1>3

\* A rule takes nothing off that it would have to give back.
LEMMA TakenOffNat ==
  ASSUME PricingTypeOK, NEW s \in Services, NEW off \in TakenOff(loaded, s)
  PROVE  off \in Nat
  <1>1. Price[s] \in Int
    BY CartAssumption
  <1>2. CASE off = 0
    BY <1>2
  <1>3. CASE off # 0
    <2>1. PICK i \in First(loaded, s) : off = Price[s] * loaded[i].rate
      BY <1>3 DEF TakenOff
    <2>2. ~(Price[s] <= 0)
      BY <1>3 DEF TakenOff
    <2>3. loaded[i] \in Rule
      BY <2>1 DEF PricingTypeOK, First
    <2>4. loaded[i].rate \in 0..100
      BY <2>3, RulesAssumption DEF Rule
    <2>5. \A a, b \in Nat : a * b \in Nat
      OBVIOUS
    <2> QED
      BY <1>1, <2>1, <2>2, <2>4, <2>5
  <1> QED
    BY <1>2, <1>3

\* What the same rules, in the same order, take off a service is one amount.
LEMMA TakenOffOnce ==
  ASSUME PricingTypeOK, NEW s \in Services,
         NEW off \in TakenOff(loaded, s), NEW off2 \in TakenOff(loaded, s)
  PROVE  off = off2
  <1>1. CASE Price[s] <= 0 \/ \A i \in DOMAIN loaded : ~Eligible(loaded[i], s)
    BY <1>1 DEF TakenOff
  <1>2. CASE ~(Price[s] <= 0 \/ \A i \in DOMAIN loaded : ~Eligible(loaded[i], s))
    <2>1. PICK i \in First(loaded, s), j \in First(loaded, s) :
            off = Price[s] * loaded[i].rate /\ off2 = Price[s] * loaded[j].rate
      BY <1>2 DEF TakenOff
    <2>2. i <= j /\ j <= i /\ i \in Nat /\ j \in Nat
      BY <2>1 DEF First, PricingTypeOK
    <2> QED
      BY <2>1, <2>2
  <1> QED
    BY <1>1, <1>2

LEMMA CartTypes ==
  /\ N \in Nat \ {0} /\ 1 \in Groups /\ N \in Groups
  /\ \A g \in Groups : /\ g \in Int /\ g \in 0..N /\ g - 1 \in 0..N /\ g <= N
                       /\ Gross(g) \in Nat
                       /\ Len(ServicesOf[g]) \in Nat
                       /\ g < N => g + 1 \in Groups
                       /\ g >= N => g = N
                       /\ \A i \in 1..Len(ServicesOf[g]) : ServicesOf[g][i] \in Services
  <1>1. \A g \in Groups : ServicesOf[g] \in Seq(Services) /\ Total[g] \in Nat /\ Fare[g] \in Nat /\ BaseFee[g] \in Nat
    BY CartAssumption
  <1>2. \A g \in Groups : Gross(g) \in Nat
    BY <1>1 DEF Gross, FareOf
  <1>3. \A g \in Groups : Len(ServicesOf[g]) \in Nat /\ \A i \in 1..Len(ServicesOf[g]) : ServicesOf[g][i] \in Services
    BY <1>1
  <1> QED
    BY <1>2, <1>3, CartAssumption DEF Groups

LEMMA PayType ==
  ASSUME PricingTypeOK
  PROVE  CustomerPay \in Int /\ CustomerPay <= Gross(group)
  <1> DEFINE due == 100 * Gross(group) - discount
  <1>1. group \in Groups /\ discount \in Nat /\ Gross(group) \in Nat
    BY CartTypes DEF PricingTypeOK
  <1>2. due \in Int /\ due <= 100 * Gross(group)
    BY <1>1
  <1>3. Round(due) \in Int
    BY <1>2, RoundingError
  <1>4. Round(due) <= Gross(group)
    BY <1>1, <1>2, RoundingWhole
  <1> QED
    BY <1>3, <1>4 DEF CustomerPay

\* A read of the rules, and the next turn of a loop, keep the types.
LEMMA TurnTypes ==
  ASSUME PricingTypeOK, NEW phase \in {"quote", "total", "insert"}, NEW g \in Groups, Turn(phase, g)
  PROVE  /\ step' \in {"idle", "quote", "total", "insert", "done", "refused"}
         /\ group' \in Groups /\ at' \in 0..Len(ServicesOf[group']) /\ discount' \in Nat
  BY CartTypes DEF Turn

\* The sums keep their type when that of a group is set.
LEMMA SumsType ==
  ASSUME PricingTypeOK, sums' = [sums EXCEPT ![group] = sums[group - 1] + CustomerPay]
  PROVE  /\ sums' \in [0..N -> Int]
         /\ sums'[group] = sums[group - 1] + CustomerPay
         /\ \A i \in 0..N : i # group => sums'[i] = sums[i]
         /\ sums'[group] \in Int
  <1>1. group \in 0..N /\ group - 1 \in 0..N /\ sums[group - 1] \in Int /\ CustomerPay \in Int
    BY CartTypes, PayType DEF PricingTypeOK
  <1> QED
    BY <1>1 DEF PricingTypeOK

\* So do the payments.
LEMMA InsertTypes ==
  ASSUME PricingTypeOK, NEW pay \in Int, Insert(pay)
  PROVE  /\ payments' \in [Groups -> Payment] /\ booked' \in Int
         /\ payments'[group] = [pay |-> pay, deposit |-> Round(percent * pay)]
         /\ \A g \in Groups : g # group => payments'[g] = payments[g]
         /\ booked' = booked + Round(percent * pay)
         /\ Round(percent * pay) \in Int
  <1>1. percent * pay \in Int
    BY DEF PricingTypeOK
  <1>2. Round(percent * pay) \in Int
    BY <1>1, RoundingError
  <1>3. [pay |-> pay, deposit |-> Round(percent * pay)] \in Payment
    BY <1>2 DEF Payment
  <1> QED
    BY <1>2, <1>3 DEF PricingTypeOK, Insert

LEMMA InitTypes == PricingInit => PricingTypeOK
  <1> SUFFICES ASSUME PricingInit PROVE PricingTypeOK
    OBVIOUS
  <1>1. NoPayments \in [Groups -> Payment]
    BY DEF NoPayments, Payment
  <1>2. loaded = << >> /\ DOMAIN loaded = {}
    BY DEF PricingInit
  <1>3. /\ DOMAIN taken = Groups
        /\ \A g \in Groups : taken[g] \in [0..Len(ServicesOf[g]) -> Nat]
    BY CartTypes DEF PricingInit
  <1>4. at \in 0..Len(ServicesOf[group]) /\ group \in Groups /\ discount \in Nat
    BY CartTypes DEF PricingInit
  <1> QED
    BY <1>1, <1>2, <1>3, <1>4, RulesAssumption DEF PricingInit, PricingTypeOK

LEMMA RulesKeepTypes ==
  ASSUME PricingTypeOK, NEW r \in RuleIds, NEW rule \in Rule \cup {Nothing}, SetRule(r, rule)
  PROVE  PricingTypeOK'
  BY RulesAssumption DEF PricingTypeOK, SetRule, loopVars

\* What a service takes off is noted next to what those before it do.
LEMMA NextService ==
  ASSUME PricingTypeOK, DiscountService
  PROVE  /\ group \in Groups /\ at + 1 \in 1..Len(ServicesOf[group])
         /\ at' = at + 1 /\ group' = group
         /\ \E off \in TakenOff(loaded, ServicesOf[group][at + 1]) : off \in Nat /\ discount' = discount + off
         /\ discount' \in Nat
         /\ DOMAIN taken' = Groups /\ \A g \in Groups : taken'[g] \in [0..Len(ServicesOf[g]) -> Nat]
         /\ step = "total" =>
              /\ taken'[group][at + 1] = discount'
              /\ \A i \in 0..Len(ServicesOf[group]) : i # at + 1 => taken'[group][i] = taken[group][i]
              /\ \A g \in Groups : g # group => taken'[g] = taken[g]
         /\ step # "total" => taken' = taken
  <1>1. PICK off \in TakenOff(loaded, ServicesOf[group][at + 1]) :
          /\ discount' = discount + off
          /\ taken' = IF step = "total" THEN [taken EXCEPT ![group][at + 1] = discount + off] ELSE taken
    BY DEF DiscountService
  <1>2. group \in Groups /\ at + 1 \in 1..Len(ServicesOf[group]) /\ at + 1 \in 0..Len(ServicesOf[group])
    <2>1. group \in Groups /\ at \in 0..Len(ServicesOf[group]) /\ at < Len(ServicesOf[group])
      BY DEF PricingTypeOK, DiscountService
    <2>2. Len(ServicesOf[group]) \in Nat
      BY <2>1, CartTypes
    <2> QED
      BY <2>1, <2>2
  <1>3. off \in Nat
    BY <1>1, <1>2, TakenOffNat, CartTypes
  <1>4. discount + off \in Nat /\ discount' \in Nat
    BY <1>1, <1>3 DEF PricingTypeOK
  <1> DEFINE row == [taken[group] EXCEPT ![at + 1] = discount + off]
  <1>5. row \in [0..Len(ServicesOf[group]) -> Nat]
    BY <1>2, <1>4 DEF PricingTypeOK
  <1>6. row[at + 1] = discount + off
        /\ \A i \in 0..Len(ServicesOf[group]) : i # at + 1 => row[i] = taken[group][i]
    BY <1>2 DEF PricingTypeOK
  <1>7. step = "total" => taken' = [taken EXCEPT ![group] = row]
    BY <1>1
  <1> HIDE DEF row
  <1>8. DOMAIN taken = Groups /\ \A g \in Groups : taken[g] \in [0..Len(ServicesOf[g]) -> Nat]
    BY DEF PricingTypeOK
  <1>9. /\ DOMAIN taken' = Groups /\ \A g \in Groups : taken'[g] \in [0..Len(ServicesOf[g]) -> Nat]
        /\ step = "total" => taken'[group] = row /\ \A g \in Groups : g # group => taken'[g] = taken[g]
    <2>1. CASE step = "total"
      <3>1. DOMAIN taken' = Groups
        BY <1>7, <1>8, <2>1
      <3>2. taken'[group] = row /\ \A g \in Groups : g # group => taken'[g] = taken[g]
        BY <1>2, <1>7, <1>8, <2>1
      <3>3. ASSUME NEW g \in Groups PROVE taken'[g] \in [0..Len(ServicesOf[g]) -> Nat]
        <4>1. CASE g = group
          BY <1>5, <3>2, <4>1
        <4>2. CASE g # group
          BY <1>8, <3>2, <4>2
        <4> QED
          BY <4>1, <4>2
      <3> QED
        BY <3>1, <3>2, <3>3
    <2>2. CASE step # "total"
      BY <1>1, <1>8, <2>2
    <2> QED
      BY <2>1, <2>2
  <1> QED
    BY <1>1, <1>2, <1>3, <1>4, <1>6, <1>9 DEF DiscountService

LEMMA DiscountKeepsTypes == PricingTypeOK /\ DiscountService => PricingTypeOK'
  <1> SUFFICES ASSUME PricingTypeOK, DiscountService PROVE PricingTypeOK'
    OBVIOUS
  <1>1. at' \in 0..Len(ServicesOf[group'])
    BY NextService, CartTypes
  <1> QED
    BY <1>1, NextService DEF PricingTypeOK, DiscountService, ruleVars

LEMMA InitializeKeepsTypes ==
  ASSUME PricingTypeOK, NEW p \in Percents, BeginPricing(p)
  PROVE  PricingTypeOK'
  <1>1. percent' \in 1..100
    BY RulesAssumption DEF BeginPricing
  <1>2. DOMAIN loaded' \subseteq Nat /\ \A i \in DOMAIN loaded' : loaded'[i] \in Rule
    BY LoadedRules DEF BeginPricing
  <1>3. /\ step' \in {"idle", "quote", "total", "insert", "done", "refused"}
        /\ group' \in Groups /\ at' \in 0..Len(ServicesOf[group']) /\ discount' \in Nat
    BY TurnTypes, CartTypes DEF BeginPricing
  <1> QED
    BY <1>1, <1>2, <1>3 DEF BeginPricing, PricingTypeOK, ruleVars

LEMMA QuoteKeepsTypes == PricingTypeOK /\ QuoteGroup => PricingTypeOK'
  <1> SUFFICES ASSUME PricingTypeOK, QuoteGroup PROVE PricingTypeOK'
    OBVIOUS
  <1>1. sums' \in [0..N -> Int]
    BY SumsType DEF QuoteGroup
  <1>2. /\ DOMAIN loaded' \subseteq Nat /\ \A i \in DOMAIN loaded' : loaded'[i] \in Rule
        /\ step' \in {"idle", "quote", "total", "insert", "done", "refused"}
        /\ group' \in Groups /\ at' \in 0..Len(ServicesOf[group']) /\ discount' \in Nat
    <2>1. CASE group < N /\ Turn("quote", group + 1) /\ UNCHANGED loaded
      <3>1. group + 1 \in Groups
        BY <2>1, CartTypes DEF PricingTypeOK
      <3> QED
        BY <2>1, <3>1, TurnTypes DEF PricingTypeOK
    <2>2. CASE Turn("total", 1) /\ Load
      BY <2>2, TurnTypes, CartTypes, LoadedRules
    <2>3. CASE End("refused")
      BY <2>3 DEF End, PricingTypeOK
    <2> QED
      BY <2>1, <2>2, <2>3 DEF QuoteGroup
  <1> QED
    BY <1>1, <1>2 DEF QuoteGroup, PricingTypeOK, ruleVars

LEMMA TotalKeepsTypes == PricingTypeOK /\ TotalGroup => PricingTypeOK'
  <1> SUFFICES ASSUME PricingTypeOK, TotalGroup PROVE PricingTypeOK'
    OBVIOUS
  <1> DEFINE s == sums[group - 1] + CustomerPay
  <1>1. sums' \in [0..N -> Int]
    BY SumsType DEF TotalGroup
  <1>2. s \in Int
    BY SumsType DEF TotalGroup
  <1>3. percent * s \in Int
    <2>1. \A a, b \in Int : a * b \in Int
      OBVIOUS
    <2>2. percent \in 1..100
      BY DEF PricingTypeOK
    <2> HIDE DEF s
    <2> QED
      BY <1>2, <2>1, <2>2
  <1> HIDE DEF s
  <1>4. Round(percent * s) \in Int
    BY <1>3, RoundingError
  <1>5. /\ DOMAIN loaded' \subseteq Nat /\ \A i \in DOMAIN loaded' : loaded'[i] \in Rule
        /\ step' \in {"idle", "quote", "total", "insert", "done", "refused"}
        /\ group' \in Groups /\ at' \in 0..Len(ServicesOf[group']) /\ discount' \in Nat
        /\ total' \in Int /\ steady' \in BOOLEAN
    <2>1. CASE group < N /\ Turn("total", group + 1) /\ UNCHANGED <<loaded, total, steady>>
      <3>1. group + 1 \in Groups
        BY <2>1, CartTypes DEF PricingTypeOK
      <3> QED
        BY <2>1, <3>1, TurnTypes DEF PricingTypeOK
    <2>2. CASE total' = Round(percent * s) /\ Turn("insert", 1) /\ Load /\ steady' = (loaded' = loaded)
      <3>1. DOMAIN loaded' \subseteq Nat /\ \A i \in DOMAIN loaded' : loaded'[i] \in Rule
        BY <2>2, LoadedRules
      <3> QED
        BY <1>4, <2>2, <3>1, TurnTypes, CartTypes
    <2> QED
      BY <2>1, <2>2 DEF TotalGroup, s
  <1> QED
    BY <1>1, <1>5 DEF TotalGroup, PricingTypeOK, ruleVars

LEMMA InsertKeepsTypes == PricingTypeOK /\ InsertPayment => PricingTypeOK'
  <1> SUFFICES ASSUME PricingTypeOK, InsertPayment PROVE PricingTypeOK'
    OBVIOUS
  <1>1. CASE End("refused") /\ payments' = NoPayments /\ booked' = 0 /\ UNCHANGED steady
    <2>1. NoPayments \in [Groups -> Payment]
      BY DEF NoPayments, Payment
    <2> QED
      BY <1>1, <2>1 DEF PricingTypeOK, End, InsertPayment, ruleVars
  <1>2. CASE Insert(CustomerPay)
    <2>1. payments' \in [Groups -> Payment] /\ booked' \in Int
      BY <1>2, InsertTypes, PayType
    <2>2. /\ DOMAIN loaded' \subseteq Nat /\ \A i \in DOMAIN loaded' : loaded'[i] \in Rule
          /\ step' \in {"idle", "quote", "total", "insert", "done", "refused"}
          /\ group' \in Groups /\ at' \in 0..Len(ServicesOf[group']) /\ discount' \in Nat
          /\ steady' \in BOOLEAN
      <3>1. CASE group < N /\ Turn("insert", group + 1) /\ Load /\ steady' = (steady /\ loaded' = loaded)
        <4>1. group + 1 \in Groups
          BY <3>1, CartTypes DEF PricingTypeOK
        <4>2. DOMAIN loaded' \subseteq Nat /\ \A i \in DOMAIN loaded' : loaded'[i] \in Rule
          BY <3>1, LoadedRules
        <4> QED
          BY <3>1, <4>1, <4>2, TurnTypes
      <3>2. CASE End("done") /\ UNCHANGED steady
        BY <3>2 DEF End, PricingTypeOK
      <3> QED
        BY <1>2, <3>1, <3>2 DEF Insert
    <2> QED
      BY <2>1, <2>2 DEF PricingTypeOK, InsertPayment, ruleVars
  <1> QED
    BY <1>1, <1>2 DEF InsertPayment

LEMMA NextKeepsTypes == PricingTypeOK /\ [PricingNext]_pricingVars => PricingTypeOK'
  <1> SUFFICES ASSUME PricingTypeOK, [PricingNext]_pricingVars PROVE PricingTypeOK'
    OBVIOUS
  <1>1. ASSUME NEW r \in RuleIds, NEW rule \in Rule, CreateServiceDiscount(r, rule) PROVE PricingTypeOK'
    BY <1>1, RulesKeepTypes DEF CreateServiceDiscount
  <1>2. ASSUME NEW r \in RuleIds, NEW rule \in Rule, UpdateServiceDiscount(r, rule) PROVE PricingTypeOK'
    BY <1>2, RulesKeepTypes DEF UpdateServiceDiscount
  <1>3. ASSUME NEW r \in RuleIds, DeleteServiceDiscount(r) PROVE PricingTypeOK'
    BY <1>3, RulesKeepTypes DEF DeleteServiceDiscount
  <1>4. CASE UNCHANGED pricingVars
    BY <1>4 DEF PricingTypeOK, pricingVars, ruleVars, loopVars
  <1> QED
    BY <1>1, <1>2, <1>3, <1>4, InitializeKeepsTypes, DiscountKeepsTypes, QuoteKeepsTypes,
       TotalKeepsTypes, InsertKeepsTypes DEF PricingNext

\* The variables have the types the code gives them, for any cart and rules.
THEOREM PricingTypeCorrect == PricingSpec => []PricingTypeOK
  BY InitTypes, NextKeepsTypes, PTL DEF PricingSpec

-----------------------------------------------------------------------------
(* Each payment is sound, however the rules change.                         *)

SoundPayment(g) ==
  /\ payments[g].pay \in 1..Gross(g)
  /\ payments[g].deposit \in 0..payments[g].pay
  /\ percent = 100 => payments[g].deposit = payments[g].pay

\* The payments inserted so far are sound.
SoundSoFar ==
  /\ step = "insert" => \A g \in 1..(group - 1) : SoundPayment(g)
  /\ step = "done" => \A g \in Groups : SoundPayment(g)

\* A share of a payment is a part of it.
LEMMA DepositPart ==
  ASSUME NEW p \in 1..100, NEW pay \in Int, pay > 0
  PROVE  /\ Round(p * pay) \in 0..pay
         /\ p = 100 => Round(p * pay) = pay
  <1> DEFINE x == p * pay
  <1>1. x \in Int /\ x <= 100 * pay /\ x >= 0 /\ (p = 100 => x = 100 * pay)
    OBVIOUS
  <1> HIDE DEF x
  <1>2. Round(x) \in Int /\ Round(x) <= pay /\ Round(x) >= 0 /\ (x = 100 * pay => Round(x) = pay)
    BY <1>1, RoundingWhole, RoundingError
  <1>3. Round(x) \in 0..pay /\ (p = 100 => Round(x) = pay)
    BY <1>1, <1>2
  <1> QED
    BY <1>3 DEF x

LEMMA NewPaymentSound ==
  ASSUME PricingTypeOK, Insert(CustomerPay), CustomerPay > 0, percent' = percent, NEW g \in Groups, g = group
  PROVE  SoundPayment(g)'
  <1>1. CustomerPay \in Int /\ CustomerPay <= Gross(g) /\ Gross(g) \in Nat
    BY PayType, CartTypes
  <1>2. percent \in 1..100
    BY DEF PricingTypeOK
  <1>3. /\ Round(percent * CustomerPay) \in 0..CustomerPay
        /\ percent = 100 => Round(percent * CustomerPay) = CustomerPay
    BY <1>1, <1>2, DepositPart
  <1>4. payments'[g] = [pay |-> CustomerPay, deposit |-> Round(percent * CustomerPay)]
    BY <1>1, InsertTypes
  <1>5. payments'[g].pay = CustomerPay /\ payments'[g].deposit = Round(percent * CustomerPay)
    BY <1>4
  <1> QED
    BY <1>1, <1>3, <1>5 DEF SoundPayment

LEMMA SoundStep == PricingTypeOK /\ SoundSoFar /\ [PricingNext]_pricingVars => SoundSoFar'
  <1> SUFFICES ASSUME PricingTypeOK, SoundSoFar, [PricingNext]_pricingVars PROVE SoundSoFar'
    OBVIOUS
  <1>0. group \in Groups /\ N \in Nat
    BY CartTypes DEF PricingTypeOK
  <1>1. CASE UNCHANGED <<step, group, percent, payments>>
    BY <1>1 DEF SoundSoFar, SoundPayment
  <1>2. CASE InsertPayment
    <2>1. CASE End("refused")
      BY <2>1 DEF End, SoundSoFar
    <2>2. CASE Insert(CustomerPay) /\ CustomerPay > 0
      <3>1. \A g \in Groups : g # group => payments'[g] = payments[g]
        BY <2>2, InsertTypes, PayType
      <3>2. \A g \in Groups : g = group => SoundPayment(g)'
        BY <1>2, <2>2, NewPaymentSound DEF InsertPayment
      <3>3. \A g \in 1..(group - 1) : g \in Groups /\ g # group /\ SoundPayment(g)
        BY <1>0, <1>2 DEF InsertPayment, SoundSoFar, Groups
      <3>4. \A g \in 1..group : SoundPayment(g)'
        <4>1. ASSUME NEW g \in 1..group, g # group PROVE SoundPayment(g)'
          <5>1. g \in 1..(group - 1)
            BY <1>0, <4>1 DEF Groups
          <5> QED
            BY <1>2, <3>1, <3>3, <5>1 DEF InsertPayment, SoundPayment
        <4> QED
          BY <1>0, <3>2, <4>1
      <3>5. CASE group < N /\ Turn("insert", group + 1)
        BY <1>0, <3>4, <3>5 DEF SoundSoFar, Turn, Groups
      <3>6. CASE group = N /\ End("done")
        BY <3>4, <3>6 DEF SoundSoFar, End, Groups
      <3> QED
        BY <2>2, <3>5, <3>6 DEF Insert
    <2> QED
      BY <1>0, <1>2, <2>1, <2>2, PayType DEF InsertPayment
  <1>3. CASE TotalGroup
    <2>1. step' = "total" \/ (step' = "insert" /\ group' = 1)
      BY <1>3 DEF TotalGroup, Turn
    <2> QED
      BY <2>1 DEF SoundSoFar
  <1>4. CASE QuoteGroup
    <2>1. step' \notin {"insert", "done"}
      BY <1>4 DEF QuoteGroup, Turn, End
    <2> QED
      BY <2>1 DEF SoundSoFar
  <1>5. ASSUME NEW p \in Percents, BeginPricing(p) PROVE SoundSoFar'
    BY <1>5 DEF BeginPricing, Turn, SoundSoFar
  <1>6. ASSUME NEW r \in RuleIds, NEW rule \in Rule \cup {Nothing}, SetRule(r, rule) PROVE SoundSoFar'
    BY <1>1, <1>6 DEF SetRule, loopVars
  <1>7. CASE DiscountService
    BY <1>1, <1>7 DEF DiscountService
  <1>8. CASE UNCHANGED pricingVars
    BY <1>1, <1>8 DEF pricingVars, loopVars
  <1> QED
    BY <1>2, <1>3, <1>4, <1>5, <1>6, <1>7, <1>8
    DEF PricingNext, CreateServiceDiscount, UpdateServiceDiscount, DeleteServiceDiscount

\* No payment is for nothing or for more than the provider is due, and its
\* deposit is a part of it, for any cart and however the rules change.
THEOREM PaymentsAreSound == PricingSpec => []PaymentsSound
  <1>1. PricingInit => SoundSoFar
    BY DEF PricingInit, SoundSoFar
  <1>2. SoundSoFar => PaymentsSound
    BY DEF SoundSoFar, PaymentsSound, SoundPayment
  <1> QED
    BY <1>1, <1>2, SoundStep, PricingTypeCorrect, PTL DEF PricingSpec

-----------------------------------------------------------------------------
(* While the rules stay the same, the payments are those the total was made *)
(* of.                                                                      *)

\* What the first n services of g took off, one after the other, is what the
\* rules that are loaded take off.
Noted(g, n) ==
  \A i \in 1..n :
    \E off \in TakenOff(loaded, ServicesOf[g][i]) : taken[g][i] = taken[g][i - 1] + off

PayOf(g) == Round(100 * Gross(g) - taken[g][Len(ServicesOf[g])])
Summed(g) == Noted(g, Len(ServicesOf[g])) /\ sums[g] = sums[g - 1] + PayOf(g)
Underway == discount = taken[group][at]

\* The deposits of n payments are near the share of what these cost.
Near(n) ==
  /\ 100 * booked - percent * sums[n] <= 50 * n
  /\ percent * sums[n] - 100 * booked <= 50 * n

SumInv ==
  /\ sums[0] = 0
  /\ \A g \in Groups : taken[g][0] = 0
  /\ step \in {"idle", "quote", "total"} => booked = 0
  /\ step = "total" =>
       /\ Underway /\ Noted(group, at)
       /\ \A g \in 1..(group - 1) : Summed(g)
  /\ step \in {"insert", "done"} /\ steady =>
       /\ total = Round(percent * sums[N])
       /\ \A g \in Groups : Summed(g)
  /\ step = "insert" /\ steady => Underway /\ Near(group - 1)
  /\ step = "done" /\ steady => Near(N)

\* What it is for: half a naira for each deposit, and one half for the total.
LEMMA NearEnough == PricingTypeOK /\ SumInv => DepositsAddUp
  <1> SUFFICES ASSUME PricingTypeOK, SumInv, step = "done", steady
               PROVE  2 * (total - booked) \in (0 - N - 1)..(N + 1)
    BY DEF DepositsAddUp
  <1> DEFINE share == percent * sums[N]
  <1>1. percent \in 1..100 /\ booked \in Int /\ total \in Int /\ sums[N] \in Int /\ N \in Nat
    BY CartTypes DEF PricingTypeOK
  <1>2. share \in Int
    BY <1>1
  <1>3. total = Round(share) /\ 100 * booked - share <= 50 * N /\ share - 100 * booked <= 50 * N
    BY DEF SumInv, Near
  <1> HIDE DEF share
  <1>4. share - 50 < 100 * total /\ 100 * total <= share + 50
    BY <1>2, <1>3, RoundingError
  <1> QED
    BY <1>1, <1>2, <1>3, <1>4

LEMMA InitSums == PricingInit => SumInv
  <1> SUFFICES ASSUME PricingInit PROVE SumInv
    OBVIOUS
  <1>1. 0 \in 0..N /\ \A g \in Groups : 0 \in 0..Len(ServicesOf[g])
    BY CartTypes
  <1> QED
    BY <1>1 DEF PricingInit, SumInv

\* A service that is looked at while the total is made up is noted.
LEMMA ServiceNoted ==
  ASSUME PricingTypeOK, SumInv, DiscountService, step = "total"
  PROVE  SumInv'
  <1>1. group \in Groups /\ at \in Nat /\ at + 1 \in 1..Len(ServicesOf[group]) /\ group' = group /\ at' = at + 1
    BY NextService DEF PricingTypeOK
  <1>2. UNCHANGED <<step, loaded, sums, booked, percent, total, steady>>
    BY DEF DiscountService
  <1>3. /\ taken'[group][at + 1] = discount'
        /\ \A i \in 0..Len(ServicesOf[group]) : i # at + 1 => taken'[group][i] = taken[group][i]
        /\ \A g \in Groups : g # group => taken'[g] = taken[g]
    BY NextService
  <1>4. PICK off \in TakenOff(loaded, ServicesOf[group][at + 1]) : discount' = discount + off
    BY NextService
  <1>5. \A g \in Groups : taken'[g][0] = 0
    <2>1. 0 \in 0..Len(ServicesOf[group]) /\ 0 # at + 1
      BY <1>1
    <2>2. taken'[group][0] = taken[group][0]
      BY <1>3, <2>1
    <2> QED
      BY <1>1, <1>3, <2>2 DEF SumInv
  <1>6. Underway /\ Noted(group, at) /\ \A g \in 1..(group - 1) : Summed(g)
    BY DEF SumInv
  <1>7. \A i \in 1..(at + 1) :
          \E o \in TakenOff(loaded, ServicesOf[group][i]) : taken'[group][i] = taken'[group][i - 1] + o
    <2>1. ASSUME NEW i \in 1..at
          PROVE  \E o \in TakenOff(loaded, ServicesOf[group][i]) : taken'[group][i] = taken'[group][i - 1] + o
      <3>1. taken'[group][i] = taken[group][i] /\ taken'[group][i - 1] = taken[group][i - 1]
        BY <1>1, <1>3, <2>1, CartTypes
      <3> QED
        BY <1>6, <2>1, <3>1 DEF Noted
    <2>2. taken'[group][at + 1] = taken'[group][(at + 1) - 1] + off
      <3>1. taken'[group][at] = taken[group][at]
        BY <1>1, <1>3, CartTypes
      <3> QED
        BY <1>1, <1>3, <1>4, <1>6, <3>1 DEF Underway
    <2>3. ASSUME NEW i \in 1..(at + 1), i = at + 1
          PROVE  \E o \in TakenOff(loaded, ServicesOf[group][i]) : taken'[group][i] = taken'[group][i - 1] + o
      BY <1>4, <2>2, <2>3
    <2>4. \A i \in 1..(at + 1) : i \in 1..at \/ i = at + 1
      BY <1>1
    <2> QED
      BY <2>1, <2>3, <2>4
  <1>8. ASSUME NEW g \in 1..(group - 1) PROVE Summed(g)'
    <2>1. g \in Groups /\ g # group
      BY <1>1, CartTypes DEF Groups
    <2>2. taken'[g] = taken[g]
      BY <1>3, <2>1
    <2> QED
      BY <1>2, <1>6, <2>2 DEF Summed, Noted, PayOf
  <1>9. Noted(group, at)'
    BY <1>1, <1>2, <1>7 DEF Noted
  <1>10. Underway'
    BY <1>1, <1>3 DEF Underway
  <1> QED
    BY <1>1, <1>2, <1>5, <1>8, <1>9, <1>10 DEF SumInv

\* One that is looked at for a payment takes off what was noted.
LEMMA ServiceRepeated ==
  ASSUME PricingTypeOK, SumInv, DiscountService, step # "total"
  PROVE  SumInv'
  <1>1. group \in Groups /\ at \in Nat /\ at + 1 \in 1..Len(ServicesOf[group]) /\ group' = group /\ at' = at + 1
    BY NextService DEF PricingTypeOK
  <1>2. UNCHANGED <<step, loaded, sums, booked, percent, total, steady, taken>>
    BY NextService DEF DiscountService
  <1>3. CASE step = "insert" /\ steady
    <2>1. Summed(group) /\ Underway
      BY <1>1, <1>3 DEF SumInv
    <2>2. PICK off \in TakenOff(loaded, ServicesOf[group][at + 1]) : discount' = discount + off
      BY NextService
    <2>3. PICK o \in TakenOff(loaded, ServicesOf[group][at + 1]) : taken[group][at + 1] = taken[group][(at + 1) - 1] + o
      BY <1>1, <2>1 DEF Summed, Noted
    <2>4. off = o
      BY <1>1, <2>2, <2>3, TakenOffOnce, CartTypes
    <2>5. Underway'
      BY <1>1, <1>2, <2>1, <2>2, <2>3, <2>4 DEF Underway
    <2> QED
      BY <1>1, <1>2, <1>3, <2>5 DEF SumInv, Summed, Noted, PayOf, Near
  <1>4. CASE ~(step = "insert" /\ steady)
    BY <1>1, <1>2, <1>4 DEF SumInv, DiscountService
  <1> QED
    BY <1>3, <1>4

\* A group that was looked at costs what was noted for it.
LEMMA LookedPay ==
  ASSUME PricingTypeOK, Looked, Underway
  PROVE  CustomerPay = PayOf(group)
  BY DEF Looked, Underway, CustomerPay, PayOf

LEMMA TotalKeepsSums == PricingTypeOK /\ SumInv /\ TotalGroup => SumInv'
  <1> SUFFICES ASSUME PricingTypeOK, SumInv, TotalGroup PROVE SumInv'
    OBVIOUS
  <1>1. group \in Groups /\ group \in Nat /\ group - 1 \in 0..N /\ N \in Nat /\ 1 \in Groups /\ 0 \in 0..N
    BY CartTypes DEF PricingTypeOK, Groups
  <1>2. /\ step = "total" /\ Looked /\ UNCHANGED <<taken, percent, booked>>
        /\ sums' = [sums EXCEPT ![group] = sums[group - 1] + CustomerPay]
    BY DEF TotalGroup
  <1>3. sums'[group] = sums[group - 1] + CustomerPay /\ \A i \in 0..N : i # group => sums'[i] = sums[i]
    BY <1>2, SumsType
  <1>4. /\ booked = 0 /\ Underway /\ Noted(group, Len(ServicesOf[group]))
        /\ sums[0] = 0 /\ (\A g \in Groups : taken[g][0] = 0)
        /\ \A g \in 1..(group - 1) : Summed(g)
    BY <1>2 DEF SumInv, Looked
  <1>5. sums'[0] = 0
    BY <1>1, <1>3, <1>4 DEF Groups
  <1>6. ASSUME loaded' = loaded, NEW g \in 1..group PROVE Summed(g)'
    <2>1. CASE g = group
      <3>1. PayOf(g)' = PayOf(g) /\ CustomerPay = PayOf(g)
        BY <1>2, <1>4, <2>1, LookedPay DEF PayOf
      <3>2. sums'[g - 1] = sums[g - 1]
        BY <1>1, <1>3, <2>1
      <3>3. Noted(g, Len(ServicesOf[g]))'
        BY <1>2, <1>4, <1>6, <2>1 DEF Noted
      <3> QED
        BY <1>3, <2>1, <3>1, <3>2, <3>3 DEF Summed
    <2>2. CASE g # group
      <3>1. g \in 1..(group - 1) /\ g \in 0..N /\ g - 1 \in 0..N /\ g - 1 # group
        BY <1>1, <2>2, CartTypes DEF Groups
      <3>2. sums'[g] = sums[g] /\ sums'[g - 1] = sums[g - 1]
        BY <1>3, <2>2, <3>1
      <3>3. Summed(g)
        BY <1>4, <3>1
      <3> QED
        BY <1>2, <1>6, <3>2, <3>3 DEF Summed, Noted, PayOf
    <2> QED
      BY <2>1, <2>2
  <1>7. CASE group < N /\ Turn("total", group + 1) /\ UNCHANGED <<loaded, total, steady>>
    <2>1. group + 1 \in Groups /\ (group + 1) - 1 = group
      BY <1>1, <1>7 DEF Groups
    <2>2. step' = "total" /\ group' = group + 1 /\ at' = 0 /\ discount' = 0
      BY <1>7 DEF Turn
    <2>3. Underway' /\ Noted(group, at)'
      BY <1>2, <1>4, <2>1, <2>2 DEF Underway, Noted
    <2>4. \A g \in 1..group : Summed(g)'
      BY <1>6, <1>7
    <2> QED
      BY <1>2, <1>4, <1>5, <2>1, <2>2, <2>3, <2>4 DEF SumInv
  <1>8. CASE /\ group = N /\ total' = Round(percent * (sums[group - 1] + CustomerPay))
             /\ Turn("insert", 1) /\ Load /\ steady' = (loaded' = loaded)
    <2>1. step' = "insert" /\ group' = 1 /\ at' = 0 /\ discount' = 0
      BY <1>8 DEF Turn
    <2>2. Underway'
      BY <1>1, <1>2, <1>4, <2>1 DEF Underway
    <2>3. Near(0)'
      <3>1. percent \in Int
        BY DEF PricingTypeOK
      <3>2. percent * 0 = 0
        BY <3>1
      <3> QED
        BY <1>2, <1>4, <1>5, <3>2 DEF Near
    <2>4. steady' => \A g \in Groups : Summed(g)'
      BY <1>6, <1>8 DEF Groups
    <2>5. total' = Round(percent' * sums'[N])
      BY <1>2, <1>3, <1>8
    <2> QED
      BY <1>2, <1>4, <1>5, <2>1, <2>2, <2>3, <2>4, <2>5 DEF SumInv
  <1> QED
    BY <1>7, <1>8 DEF TotalGroup

\* One more deposit, one more half naira.
LEMMA OneMoreDeposit ==
  ASSUME NEW p \in Int, NEW b \in Int, NEW x \in Int, NEW y \in Int, NEW n \in Nat,
         100 * b - p * x <= 50 * n, p * x - 100 * b <= 50 * n
  PROVE  /\ 100 * (b + Round(p * y)) - p * (x + y) <= 50 * (n + 1)
         /\ p * (x + y) - 100 * (b + Round(p * y)) <= 50 * (n + 1)
  <1> DEFINE px == p * x
             py == p * y
  <1>1. px \in Int /\ py \in Int /\ p * (x + y) = px + py
    OBVIOUS
  <1>2. 100 * b - px <= 50 * n /\ px - 100 * b <= 50 * n
    OBVIOUS
  <1> HIDE DEF px, py
  <1>3. Round(py) \in Int /\ py - 50 < 100 * Round(py) /\ 100 * Round(py) <= py + 50
    BY <1>1, RoundingError
  <1>4. /\ 100 * (b + Round(py)) - (px + py) <= 50 * (n + 1)
        /\ (px + py) - 100 * (b + Round(py)) <= 50 * (n + 1)
    BY <1>1, <1>2, <1>3
  <1> QED
    BY <1>1, <1>4 DEF py

LEMMA InsertKeepsSums == PricingTypeOK /\ SumInv /\ InsertPayment => SumInv'
  <1> SUFFICES ASSUME PricingTypeOK, SumInv, InsertPayment PROVE SumInv'
    OBVIOUS
  <1>1. group \in Groups /\ group \in Nat /\ group - 1 \in Nat /\ N \in Nat /\ group - 1 \in 0..N /\ group \in 0..N
    BY CartTypes DEF PricingTypeOK, Groups
  <1>2. step = "insert" /\ Looked /\ UNCHANGED <<taken, percent, sums, total>>
    BY DEF InsertPayment
  <1>3. CASE End("refused")
    BY <1>2, <1>3 DEF End, SumInv
  <1>4. CASE Insert(CustomerPay)
    <2>1. booked' = booked + Round(percent * CustomerPay)
      BY <1>4, InsertTypes, PayType
    <2>2. ASSUME steady, NEW g \in Groups, g = group PROVE Near(g)'
      <3>1. Underway /\ Near(group - 1) /\ Summed(group)
        BY <1>1, <1>2, <2>2 DEF SumInv
      <3>2. sums[group] = sums[group - 1] + CustomerPay
        BY <1>2, <3>1, LookedPay DEF Summed
      <3>3. percent \in Int /\ booked \in Int /\ sums[group - 1] \in Int /\ CustomerPay \in Int
        BY <1>1, PayType DEF PricingTypeOK
      <3> DEFINE n == group - 1
                 x == sums[n]
      <3>4. 100 * booked - percent * x <= 50 * n /\ percent * x - 100 * booked <= 50 * n
        BY <3>1 DEF Near
      <3>5. n \in Nat /\ x \in Int /\ sums[group] = x + CustomerPay /\ n + 1 = group
        BY <1>1, <3>2, <3>3
      <3> HIDE DEF n, x
      <3>6. /\ 100 * (booked + Round(percent * CustomerPay)) - percent * (x + CustomerPay) <= 50 * (n + 1)
            /\ percent * (x + CustomerPay) - 100 * (booked + Round(percent * CustomerPay)) <= 50 * (n + 1)
        BY <3>3, <3>4, <3>5, OneMoreDeposit
      <3>7. sums[g] = x + CustomerPay /\ g = n + 1
        BY <2>2, <3>5
      <3> QED
        BY <1>2, <2>1, <3>6, <3>7 DEF Near
    <2>3. ASSUME steady, loaded' = loaded, NEW g \in Groups PROVE Summed(g)'
      <3>1. Summed(g)
        BY <1>2, <2>3 DEF SumInv
      <3> QED
        BY <1>2, <2>3, <3>1 DEF Summed, Noted, PayOf
    <2>4. sums'[0] = 0 /\ (\A g \in Groups : taken'[g][0] = 0) /\ (steady => total' = Round(percent' * sums'[N]))
      BY <1>2 DEF SumInv
    <2>5. CASE group < N /\ Turn("insert", group + 1) /\ Load /\ steady' = (steady /\ loaded' = loaded)
      <3>1. group + 1 \in Groups /\ group' - 1 = group
        BY <1>1, <2>5 DEF Groups, Turn
      <3>2. step' = "insert" /\ group' = group + 1 /\ at' = 0 /\ discount' = 0
        BY <2>5 DEF Turn
      <3>3. Underway'
        BY <2>4, <3>1, <3>2 DEF Underway
      <3>4. steady' => Near(group - 1)'
        <4>1. \A g \in Groups : steady /\ g = group => Near(g)'
          BY <2>2
        <4>2. \A g \in Groups : g = group' - 1 /\ Near(g)' => Near(group - 1)'
          BY DEF Near
        <4> QED
          BY <1>1, <2>5, <3>1, <4>1, <4>2
      <3>5. steady' => \A g \in Groups : Summed(g)'
        BY <2>3, <2>5
      <3> QED
        BY <2>4, <2>5, <3>2, <3>3, <3>4, <3>5 DEF SumInv
    <2>6. CASE group = N /\ End("done") /\ UNCHANGED steady
      <3>1. step' = "done" /\ loaded' = loaded
        BY <2>6 DEF End
      <3>2. steady => Near(N)'
        BY <1>1, <2>2, <2>6
      <3>3. steady => \A g \in Groups : Summed(g)'
        BY <2>3, <3>1
      <3> QED
        BY <2>4, <2>6, <3>1, <3>2, <3>3 DEF SumInv
    <2> QED
      BY <1>4, <2>5, <2>6 DEF Insert
  <1> QED
    BY <1>3, <1>4 DEF InsertPayment

LEMMA SumsStep == PricingTypeOK /\ SumInv /\ [PricingNext]_pricingVars => SumInv'
  <1> SUFFICES ASSUME PricingTypeOK, SumInv, [PricingNext]_pricingVars PROVE SumInv'
    OBVIOUS
  <1>1. CASE UNCHANGED <<loopVars, taken, percent, sums, total, booked, steady>>
    BY <1>1 DEF SumInv, Summed, Noted, PayOf, Near, Underway, loopVars
  <1>2. CASE QuoteGroup
    <2>1. group \in Groups /\ 0 \in 0..N /\ group # 0 /\ 1 \in Groups
      BY CartTypes DEF PricingTypeOK, Groups
    <2>2. sums'[0] = 0
      BY <1>2, <2>1, SumsType DEF QuoteGroup, SumInv
    <2>3. /\ booked' = 0 /\ taken' = taken
          /\ step' \in {"quote", "refused"} \/ (step' = "total" /\ Turn("total", 1))
      BY <1>2 DEF QuoteGroup, Turn, End, SumInv
    <2>4. CASE step' = "total" /\ Turn("total", 1)
      BY <2>1, <2>2, <2>3, <2>4 DEF Turn, SumInv, Underway, Noted
    <2>5. CASE step' \in {"quote", "refused"}
      BY <2>2, <2>3, <2>5 DEF SumInv
    <2> QED
      BY <2>3, <2>4, <2>5
  <1>3. ASSUME NEW p \in Percents, BeginPricing(p) PROVE SumInv'
    BY <1>3 DEF BeginPricing, Turn, SumInv
  <1>4. ASSUME NEW r \in RuleIds, NEW rule \in Rule \cup {Nothing}, SetRule(r, rule) PROVE SumInv'
    BY <1>1, <1>4 DEF SetRule
  <1>5. CASE UNCHANGED pricingVars
    BY <1>1, <1>5 DEF pricingVars
  <1> QED
    BY <1>2, <1>3, <1>4, <1>5, ServiceNoted, ServiceRepeated, TotalKeepsSums, InsertKeepsSums
    DEF PricingNext, CreateServiceDiscount, UpdateServiceDiscount, DeleteServiceDiscount

\* The deposits add up to what the customer is charged, up to half a naira for
\* each rounding, unless the rules change in between: for any number of
\* providers and services, whatever they cost.
THEOREM TotalIsTheSum == PricingSpec => []DepositsAddUp
  BY InitSums, SumsStep, NearEnough, PricingTypeCorrect, PTL DEF PricingSpec
=============================================================================
