-------------------------- MODULE Settlement_proofs --------------------------
(***************************************************************************)
(* Proofs about Settlement, for any number of checkouts, payments,         *)
(* providers, withdrawals and calls in flight, and any number of faults.   *)
(* In order: the ledger agrees with the statuses (IInv); the books follow  *)
(* Paystack, and settlement implements the ledger book (BInv); no calls    *)
(* wait in a circle (LInv); sums over finite sets; what a wallet holds     *)
(* (WInv).                                                                 *)
(***************************************************************************)
EXTENDS Settlement, FiniteSetTheorems, WellFoundedInduction, NaturalsInduction, TLAPS

\* A clamped balance is a natural number whatever delta is applied to it.
LEMMA AppliedType ==
  ASSUME NEW seen \in Wallets, NEW a \in Int, NEW b \in Int, NEW c \in Int, NEW d \in Int
  PROVE  Applied(seen, a, b, c, d) \in Wallets
<1>1. \A n \in Int : AtLeastZero(n) \in Nat
  BY DEF AtLeastZero
<1>2. QED
  BY <1>1 DEF Applied, Wallets

\* The wallet a call writes has the type of a wallet.
LEMMA DeltaType ==
  ASSUME NEW k \in Calls, k.op # "fail",
         k.op # "withdraw" => k.current \in Payments,
         k.op = "withdraw" => k.subject \in Withdrawals
  PROVE  DeltaApplied(k) \in Wallets /\ WalletOf(k) \in Providers
<1> USE RowsAssumption, AmountsAssumption
<1>1. k.seen \in Wallets /\ k.op \in Ops
  BY DEF Calls
<1>2. CASE k.op = "withdraw"
  <2>1. WithdrawAmount[k.subject] \in Int
    BY <1>2
  <2>2. DeltaApplied(k) = Applied(k.seen, 0, -WithdrawAmount[k.subject], 0,
                                  WithdrawAmount[k.subject])
    BY <1>2 DEF DeltaApplied
  <2>3. QED
    BY <1>1, <1>2, <2>1, <2>2, AppliedType DEF WalletOf
<1>3. CASE k.op # "withdraw"
  <2>1. Amount[k.current] \in Int /\ -Amount[k.current] \in Int
    BY <1>3
  <2>2. WalletOf(k) \in Providers
    BY <1>3 DEF WalletOf
  <2>3. CASE k.op = "settle"
    <3>1. DeltaApplied(k) = Applied(k.seen, Amount[k.current], 0, 0, 0)
      BY <2>3 DEF DeltaApplied
    <3>2. Applied(k.seen, Amount[k.current], 0, 0, 0) \in Wallets
      BY <1>1, <2>1, AppliedType
    <3>3. QED
      BY <3>1, <3>2, <2>2
  <2>4. CASE k.op = "refund"
    <3>1. DeltaApplied(k) = Applied(k.seen, -Amount[k.current], 0, 0, 0)
      BY <2>4 DEF DeltaApplied
    <3>2. Applied(k.seen, -Amount[k.current], 0, 0, 0) \in Wallets
      BY <1>1, <2>1, AppliedType
    <3>3. QED
      BY <3>1, <3>2, <2>2
  <2>5. CASE k.op = "release"
    <3>1. DeltaApplied(k) = Applied(k.seen, -Amount[k.current], Amount[k.current], Amount[k.current], 0)
      BY <2>5 DEF DeltaApplied
    <3>2. Applied(k.seen, -Amount[k.current], Amount[k.current], Amount[k.current], 0) \in Wallets
      BY <1>1, <2>1, AppliedType
    <3>3. QED
      BY <3>1, <3>2, <2>2
  <2>6. QED
    BY <1>1, <1>3, <2>3, <2>4, <2>5 DEF Ops
<1>4. QED
  BY <1>2, <1>3

-----------------------------------------------------------------------------
(* The inductive invariant: types, what every open transaction has written so *)
(* far, and the agreement of the committed tables.                            *)

IInv == TypeOK /\ TransactionsConsistent /\ LedgerMatchesStatus

\* It holds of the tables as they are before any card is charged.
LEMMA InitIInv == Init => IInv
<1> SUFFICES ASSUME Init PROVE IInv
  OBVIOUS
<1>1. Idle \in Calls
  BY DEF Idle, NoDraft, EmptyWallet, Calls, Wallets, Subjects, Ops, Steps
<1>2. TypeOK
  BY <1>1, AmountsAssumption DEF Init, TypeOK, TablesTypeOK, EmptyWallet, Wallets
<1>3. TransactionsConsistent
  BY DEF Init, TransactionsConsistent, Consistent, StepsOfOps, RowsWithEntries,
         ReadsStillHold, Idle, Loop, MidEntry
<1>4. LedgerMatchesStatus
  BY DEF Init, LedgerMatchesStatus, Entered
<1>5. QED
  BY <1>2, <1>3, <1>4 DEF IInv

\* An idle call that holds nothing is consistent, whatever the tables say.
LEMMA IdleConsistent == Idle \in Calls /\ {} \in SUBSET Rows /\ Consistent(Idle, {})
  BY DEF Idle, NoDraft, EmptyWallet, Calls, Wallets, Subjects, Ops, Steps,
         Consistent, StepsOfOps, RowsWithEntries, ReadsStillHold, Loop, MidEntry

\* Worker w goes on to the locals k and the write set h.
Moves(w, k, h) == Becomes(w, k) /\ held' = [held EXCEPT ![w] = h]

\* A step inside a call that commits nothing keeps the invariant if what the
\* call itself becomes is consistent.
LEMMA LocalStep ==
  ASSUME IInv, TablesTypeOK', UNCHANGED <<deposit, payout, ledger>>,
         NEW w \in Workers, NEW k \in Calls, NEW h \in SUBSET Rows,
         Moves(w, k, h), Consistent(k, h)
  PROVE  IInv'
<1>1. TypeOK'
  BY DEF IInv, TypeOK, Moves, Becomes
<1>2. LedgerMatchesStatus'
  BY DEF IInv, LedgerMatchesStatus, Entered
<1>3. ASSUME NEW u \in Workers
      PROVE  Consistent(call'[u], held'[u])
  BY <1>3 DEF IInv, TypeOK, TransactionsConsistent, Moves, Becomes
<1>4. TransactionsConsistent'
  BY <1>3 DEF TransactionsConsistent, Consistent, StepsOfOps, RowsWithEntries,
              ReadsStillHold, Entered
<1>5. QED
  BY <1>1, <1>2, <1>4 DEF IInv

\* A call in flight has typed locals, typed writes, and is consistent.
LEMMA CallInv ==
  ASSUME IInv, NEW w \in Workers
  PROVE  /\ call[w] \in Calls /\ held[w] \in SUBSET Rows
         /\ StepsOfOps(call[w], held[w])
         /\ RowsWithEntries(call[w], held[w])
         /\ ReadsStillHold(call[w], held[w])
         /\ held = [held EXCEPT ![w] = held[w]]
  BY DEF IInv, TypeOK, TransactionsConsistent, Consistent

-----------------------------------------------------------------------------
(* One lemma per group of steps. *)

\* What a request or an event starts is consistent: it holds nothing yet, and
\* a refund starts with deposits it has read as paid.
LEMMA StartStep ==
  ASSUME IInv, TablesTypeOK', UNCHANGED <<deposit, payout, ledger, held>>,
         NEW w \in Workers, NEW op \in Ops, NEW step \in Steps,
         NEW subject \in Subjects, NEW todo \in SUBSET Payments,
         Starts(w, op, step, subject, todo),
         StepsOfOps([Idle EXCEPT !.op = op, !.step = step, !.subject = subject,
                                 !.todo = todo], {}),
         op = "settle" => todo = {},
         op = "refund" => \A p \in todo : deposit[p] # "pending"
  PROVE  IInv'
<1> DEFINE k == [Idle EXCEPT !.op = op, !.step = step, !.subject = subject, !.todo = todo]
<1>1. k \in Calls
  BY IdleConsistent DEF Calls, Idle
<1>2. held[w] = {}
  BY CallInv DEF StepsOfOps, Starts, InTransaction
<1>3. Moves(w, k, {})
  BY <1>2, CallInv DEF Starts, Moves
<1>4. k.op = op /\ k.step = step /\ k.todo = todo /\ k.current = None
  BY DEF Idle
<1>5. Consistent(k, {})
  BY <1>4, RowsAssumption DEF Consistent, RowsWithEntries, ReadsStillHold
<1>6. QED
  BY <1>1, <1>3, <1>5, LocalStep

\* Steps of the world that no call takes part in.
LEMMA OutsideStep ==
  ASSUME IInv, TablesTypeOK', UNCHANGED <<deposit, payout, ledger, call, held>>
  PROVE  IInv'
  BY DEF IInv, TypeOK, LedgerMatchesStatus, TransactionsConsistent, Consistent,
         StepsOfOps, RowsWithEntries, ReadsStillHold, Entered

\* A call that ends without a commit leaves the tables as they are.
LEMMA ReturnStep ==
  ASSUME IInv, TablesTypeOK', UNCHANGED <<deposit, payout, ledger>>,
         NEW w \in Workers, Return(w), held' = [held EXCEPT ![w] = {}]
  PROVE  IInv'
  BY IdleConsistent, LocalStep DEF Moves, Return

\* Requests: verifyPayment, processRefund, releaseProviderPayout, withdrawFunds.
LEMMA StartsInv ==
  ASSUME IInv, NEW w \in Workers, Request(w)
  PROVE  IInv'
<1>1. ASSUME NEW c \in Checkouts, VerifyPayment(w, c)
      PROVE  IInv'
  <2>1. TablesTypeOK' /\ UNCHANGED <<deposit, payout, ledger, held>>
    BY <1>1 DEF VerifyPayment, IInv, TypeOK, TablesTypeOK, tables, paystack, webhooks
  <2>2. Starts(w, "settle", "answer", c, {})
    BY <1>1 DEF VerifyPayment
  <2>3. StepsOfOps([Idle EXCEPT !.op = "settle", !.step = "answer", !.subject = c,
                                !.todo = {}], {})
    BY DEF Idle, StepsOfOps, Loop, MidEntry
  <2>4. "settle" \in Ops /\ "answer" \in Steps /\ c \in Subjects
        /\ {} \in SUBSET Payments
    BY DEF Ops, Steps, Subjects
  <2>5. QED
    BY <2>4, <2>1, <2>2, <2>3, StartStep
<1>2. ASSUME NEW c \in Checkouts, ProcessRefund(w, c)
      PROVE  IInv'
  <2> DEFINE todo == {p \in PaymentsOf(c) : deposit[p] = "paid"}
  <2>1. TablesTypeOK' /\ UNCHANGED <<deposit, payout, ledger, held>>
    BY <1>2 DEF ProcessRefund, IInv, TypeOK, TablesTypeOK, tables, paystack, webhooks
  <2>2. Starts(w, "refund", "refund", c, todo)
    BY <1>2 DEF ProcessRefund
  <2>3. StepsOfOps([Idle EXCEPT !.op = "refund", !.step = "refund", !.subject = c,
                                !.todo = todo], {})
    BY DEF Idle, StepsOfOps, Loop, MidEntry
  <2>4. todo \in SUBSET Payments /\ \A p \in todo : deposit[p] # "pending"
    BY DEF PaymentsOf
  <2>5. QED
    BY <2>1, <2>2, <2>3, <2>4, StartStep DEF Ops, Steps, Subjects
<1>3. ASSUME NEW p \in Payments, ReleaseProviderPayout(w, p)
      PROVE  IInv'
  <2>1. TablesTypeOK' /\ UNCHANGED <<deposit, payout, ledger, held>>
    BY <1>3 DEF ReleaseProviderPayout, IInv, TypeOK, TablesTypeOK, tables, paystack, webhooks
  <2>2. Starts(w, "release", "row", CheckoutOf[p], {p})
    BY <1>3 DEF ReleaseProviderPayout
  <2>3. CheckoutOf[p] \in Checkouts
    BY RowsAssumption
  <2>4. StepsOfOps([Idle EXCEPT !.op = "release", !.step = "row",
                                !.subject = CheckoutOf[p], !.todo = {p}], {})
    BY <2>3 DEF Idle, StepsOfOps, Loop, MidEntry
  <2>5. "release" \in Ops /\ "row" \in Steps /\ CheckoutOf[p] \in Subjects
        /\ {p} \in SUBSET Payments
    BY <2>3 DEF Ops, Steps, Subjects
  <2>6. QED
    BY <2>5, <2>1, <2>2, <2>3, <2>4, StartStep
<1>4. ASSUME NEW x \in Withdrawals, WithdrawFunds(w, x)
      PROVE  IInv'
  <2>1. TablesTypeOK' /\ UNCHANGED <<deposit, payout, ledger, held>>
    BY <1>4 DEF WithdrawFunds, IInv, TypeOK, TablesTypeOK, tables, paystack, webhooks
  <2>2. Starts(w, "withdraw", "transfer", x, {})
    BY <1>4 DEF WithdrawFunds
  <2>3. StepsOfOps([Idle EXCEPT !.op = "withdraw", !.step = "transfer", !.subject = x,
                                !.todo = {}], {})
    BY DEF Idle, StepsOfOps, Loop, MidEntry
  <2>4. "withdraw" \in Ops /\ "transfer" \in Steps /\ x \in Subjects
        /\ {} \in SUBSET Payments
    BY DEF Ops, Steps, Subjects
  <2>5. QED
    BY <2>4, <2>1, <2>2, <2>3, StartStep
<1>5. QED
  BY <1>1, <1>2, <1>3, <1>4 DEF Request

\* The webhook endpoint and the callbacks it leaves to setImmediate.
LEMMA EventsInv ==
  ASSUME IInv, NEW e \in Events, HandleWebhook(e) \/ Process(e)
  PROVE  IInv'
<1>1. CASE HandleWebhook(e)
  <2>1. TablesTypeOK' /\ UNCHANGED <<deposit, payout, ledger, call, held>>
    BY <1>1 DEF HandleWebhook, IInv, TypeOK, TablesTypeOK, tables, paystack, webhooks
  <2>2. QED
    BY <2>1, OutsideStep
<1>2. ASSUME NEW w \in Workers, NEW c \in Checkouts, ProcessSuccess(w, c)
      PROVE  IInv'
  <2>1. TablesTypeOK' /\ UNCHANGED <<deposit, payout, ledger, held>>
    BY <1>2 DEF ProcessSuccess, IInv, TypeOK, TablesTypeOK, tables, paystack, webhooks
  <2>2. Starts(w, "settle", "begin", c, {})
    BY <1>2 DEF ProcessSuccess
  <2>3. StepsOfOps([Idle EXCEPT !.op = "settle", !.step = "begin", !.subject = c,
                                !.todo = {}], {})
    BY DEF Idle, StepsOfOps, Loop, MidEntry
  <2>4. "settle" \in Ops /\ "begin" \in Steps /\ c \in Subjects
        /\ {} \in SUBSET Payments
    BY DEF Ops, Steps, Subjects
  <2>5. QED
    BY <2>4, <2>1, <2>2, <2>3, StartStep
<1>3. ASSUME NEW w \in Workers, NEW c \in Checkouts, ProcessFailed(w, c)
      PROVE  IInv'
  <2>1. TablesTypeOK' /\ UNCHANGED <<deposit, payout, ledger, held>>
    BY <1>3 DEF ProcessFailed, IInv, TypeOK, TablesTypeOK, tables, paystack, webhooks
  <2>2. StepsOfOps([Idle EXCEPT !.op = "fail", !.step = "fail", !.subject = c,
                                !.todo = {}], {})
    BY DEF Idle, StepsOfOps, Loop, MidEntry
  <2>3. "fail" \in Ops /\ "fail" \in Steps /\ c \in Subjects
        /\ {} \in SUBSET Payments
    BY DEF Ops, Steps, Subjects
  <2>4. CASE Starts(w, "fail", "fail", c, {})
    BY <2>3, <2>1, <2>2, <2>4, StartStep
  <2>5. CASE UNCHANGED call
    BY <2>1, <2>5, OutsideStep
  <2>6. QED
    BY <1>3, <2>4, <2>5 DEF ProcessFailed
<1>4. QED
  BY <1>1, <1>2, <1>3 DEF Process

\* The steps of a call before its transaction.
LEMMA BeforeTransactionInv ==
  ASSUME IInv, NEW w \in Workers,
         \/ MarkCheckoutFailed(w) \/ VerifyTransaction(w) \/ ReadCheckout(w)
         \/ RefundAtGateway(w) \/ CreateTransfer(w)
  PROVE  IInv'
<1> DEFINE k == call[w]
           On(step) == [k EXCEPT !.step = step]
<1> USE DEF InTransaction, At
<1>1. \A step \in Steps : On(step) \in Calls /\ On(step).op = k.op
        /\ On(step).step = step /\ On(step).todo = k.todo
        /\ On(step).current = k.current /\ On(step).subject = k.subject
  BY CallInv DEF Calls
<1>2. ASSUME k.step \notin InTransaction
      PROVE  held[w] = {} /\ held = [held EXCEPT ![w] = {}]
  BY <1>2, CallInv DEF StepsOfOps
<1>3. ASSUME NEW step \in Steps, Goto(w, step), TablesTypeOK',
             UNCHANGED <<deposit, payout, ledger, held>>,
             k.step \notin InTransaction, StepsOfOps(On(step), {}),
             k.op = "settle" => step \notin Loop,
             step \notin MidEntry
      PROVE  IInv'
  <2>1. Moves(w, On(step), {})
    BY <1>2, <1>3 DEF Moves, Goto
  <2>2. RowsWithEntries(On(step), {})
    BY <1>1, <1>3 DEF RowsWithEntries
  <2>3. ReadsStillHold(On(step), {})
    <3>1. On(step).op = k.op /\ On(step).step = step /\ On(step).todo = k.todo
      BY <1>1, <1>3
    <3>2. ReadsStillHold(k, held[w])
      BY CallInv
    <3>3. QED
      BY <1>3, <3>1, <3>2 DEF ReadsStillHold
  <2>4. {} \in SUBSET Rows /\ On(step) \in Calls
    BY <1>1, <1>3
  <2>5. QED
    BY <1>3, <2>1, <2>2, <2>3, <2>4, LocalStep DEF Consistent
<1>4. CASE MarkCheckoutFailed(w)
  <2>1. TablesTypeOK' /\ UNCHANGED <<deposit, payout, ledger, held>> /\ Return(w)
    BY <1>4 DEF MarkCheckoutFailed, IInv, TypeOK, TablesTypeOK, paystack, webhooks
  <2>2. k.step \notin InTransaction
    BY <1>4 DEF MarkCheckoutFailed
  <2>3. QED
    BY <1>2, <2>1, <2>2, ReturnStep
<1>5. CASE VerifyTransaction(w)
  <2>1. TablesTypeOK' /\ UNCHANGED <<deposit, payout, ledger, held>>
    BY <1>5 DEF VerifyTransaction, IInv, TypeOK, TablesTypeOK, tables, paystack, webhooks
  <2>2. k.op = "settle" /\ k.step = "answer"
    BY <1>5 DEF VerifyTransaction
  <2>3. StepsOfOps(On("begin"), {}) /\ "begin" \in Steps
    BY <1>1, <2>2, CallInv DEF StepsOfOps, Loop, MidEntry, Steps
  <2>4. CASE Goto(w, "begin")
    BY <1>3, <2>1, <2>2, <2>3, <2>4 DEF Loop, MidEntry
  <2>5. CASE Return(w)
    BY <1>2, <2>1, <2>2, <2>5, ReturnStep
  <2>6. QED
    BY <1>5, <2>4, <2>5 DEF VerifyTransaction
<1>6. CASE ReadCheckout(w)
  <2>1. TablesTypeOK' /\ UNCHANGED <<deposit, payout, ledger, held>>
    BY <1>6 DEF ReadCheckout, IInv, TypeOK, TablesTypeOK, tables, paystack, webhooks
  <2>2. k.op = "settle" /\ k.step = "begin"
    BY <1>6 DEF ReadCheckout
  <2>3. ASSUME NEW step \in {"list", "lock"}, Goto(w, step)
        PROVE  IInv'
    <3>1. step \in Steps
      BY DEF Steps
    <3>2. StepsOfOps(On(step), {})
      BY <1>1, <2>2, <3>1, CallInv DEF StepsOfOps, Loop, MidEntry
    <3>3. QED
      BY <1>3, <2>1, <2>2, <2>3, <3>1, <3>2 DEF Loop, MidEntry
  <2>4. QED
    BY <1>6, <2>3 DEF ReadCheckout
<1>7. CASE RefundAtGateway(w)
  <2>1. k.op = "refund" /\ k.step = "refund"
    BY <1>7 DEF RefundAtGateway
  <2>2. k.subject \in Checkouts
    BY <2>1, CallInv DEF StepsOfOps
  <2>3. TablesTypeOK' /\ UNCHANGED <<deposit, payout, ledger, held>>
    BY <1>7, <2>2 DEF RefundAtGateway, IInv, TypeOK, TablesTypeOK, tables, webhooks
  <2>4. StepsOfOps(On("lock"), {}) /\ "lock" \in Steps
    BY <1>1, <2>1, CallInv DEF StepsOfOps, Loop, MidEntry, Steps
  <2>5. CASE Goto(w, "lock")
    BY <1>3, <2>1, <2>3, <2>4, <2>5 DEF Loop, MidEntry
  <2>6. CASE Return(w)
    BY <1>2, <2>1, <2>3, <2>6, ReturnStep
  <2>7. QED
    BY <1>7, <2>5, <2>6 DEF RefundAtGateway
<1>8. CASE CreateTransfer(w)
  <2>1. k.op = "withdraw" /\ k.step = "transfer"
    BY <1>8 DEF CreateTransfer
  <2>2. k.subject \in Withdrawals
    BY <2>1, CallInv DEF StepsOfOps
  <2>3. TablesTypeOK' /\ UNCHANGED <<deposit, payout, ledger, held>>
    BY <1>8, <2>2 DEF CreateTransfer, IInv, TypeOK, TablesTypeOK, tables, webhooks
  <2>4. StepsOfOps(On("load"), {}) /\ "load" \in Steps
    BY <1>1, <2>1, CallInv DEF StepsOfOps, Loop, MidEntry, Steps
  <2>5. CASE Goto(w, "load")
    BY <1>3, <2>1, <2>3, <2>4, <2>5 DEF Loop, MidEntry
  <2>6. CASE Return(w)
    BY <1>2, <2>1, <2>3, <2>6, ReturnStep
  <2>7. QED
    BY <1>8, <2>5, <2>6 DEF CreateTransfer
<1>9. QED
  BY <1>4, <1>5, <1>6, <1>7, <1>8

\* The tables are untouched by a statement inside a transaction.
LEMMA StatementTables ==
  ASSUME IInv, UNCHANGED <<tables, paystack, webhooks, raced, faults>>
  PROVE  TablesTypeOK' /\ UNCHANGED <<deposit, payout, ledger>>
  BY DEF IInv, TypeOK, TablesTypeOK, tables, paystack, webhooks

\* Writing a row that is neither a payment nor a ledger entry.
LEMMA OtherRows ==
  ASSUME NEW h, NEW key
  PROVE  \A p \in Payments : \A table \in {"checkout", "wallet", "booking"} :
           /\ <<"payment", p>> \in h \cup {<<table, key>>} <=> <<"payment", p>> \in h
           /\ \A type \in EntryTypes :
                <<type, p>> \in h \cup {<<table, key>>} <=> <<type, p>> \in h
  BY DEF EntryTypes

\* A step that takes no payment row and no entry, and goes on with the same
\* locals, at a step where no entry is under way.
LEMMA GoOnStep ==
  ASSUME IInv, NEW w \in Workers, NEW step \in Steps, NEW k \in Calls, NEW h \in SUBSET Rows,
         UNCHANGED <<deposit, payout, ledger>>, TablesTypeOK', Moves(w, k, h),
         call[w].step \notin MidEntry \/ Entered(EntryOf(call[w].op), call[w].current),
         StepsOfOps(k, h), k.step \notin MidEntry,
         call[w].step \in Loop \/ k.op # "settle" \/ k.step \notin Loop,
         k.op = call[w].op, k.todo = call[w].todo, k.unpaid = call[w].unpaid,
         \A p \in Payments :
           /\ <<"payment", p>> \in h <=> <<"payment", p>> \in held[w]
           /\ \A type \in EntryTypes : <<type, p>> \in h <=> <<type, p>> \in held[w]
  PROVE  IInv'
<1>1. /\ RowsWithEntries(call[w], held[w])
      /\ ReadsStillHold(call[w], held[w])
  BY CallInv
<1>2. EntryOf(k.op) \in EntryTypes
  BY DEF EntryOf, EntryTypes
<1>3. RowsWithEntries(k, h)
  BY <1>1, <1>2 DEF RowsWithEntries
<1>4. ReadsStillHold(k, h)
  BY <1>1 DEF ReadsStillHold
<1>5. QED
  BY <1>3, <1>4, LocalStep DEF Consistent

\* The checkout row is written, its payments are listed: what the listing finds
\* paid is what ReadsStillHold remembers.
LEMMA CheckoutStepsInv ==
  ASSUME IInv, NEW w \in Workers, UpdateCheckout(w) \/ ListPayments(w)
  PROVE  IInv'
<1> DEFINE k == call[w]
<1>1. /\ k \in Calls /\ held[w] \in SUBSET Rows /\ StepsOfOps(k, held[w])
      /\ RowsWithEntries(k, held[w]) /\ ReadsStillHold(k, held[w])
  BY CallInv
<1>2. CASE UpdateCheckout(w)
  <2> DEFINE step == IF k.op = "settle" THEN "list" ELSE "row"
             j == [k EXCEPT !.step = step]
             h == held[w] \cup {<<"checkout", k.subject>>}
  <2>1. TablesTypeOK' /\ UNCHANGED <<deposit, payout, ledger>> /\ k.step = "lock"
    BY <1>2, StatementTables DEF UpdateCheckout
  <2>2. k.op \in {"settle", "refund"} /\ k.subject \in Checkouts
    BY <1>1, <2>1 DEF StepsOfOps
  <2>3. j \in Calls /\ j.op = k.op /\ j.step = step /\ j.todo = k.todo
        /\ j.unpaid = k.unpaid /\ j.subject = k.subject /\ step \in Steps
    BY <1>1 DEF Calls, Steps
  <2>4. h \in SUBSET Rows
    BY <1>1, <2>2 DEF Rows
  <2>5. Moves(w, j, h)
    BY <1>2 DEF UpdateCheckout, Goto, Hold, Moves
  <2>6. StepsOfOps(j, h)
    BY <1>1, <2>1, <2>2, <2>3 DEF StepsOfOps, InTransaction, Loop, MidEntry
  <2>7. \A p \in Payments :
           /\ <<"payment", p>> \in h <=> <<"payment", p>> \in held[w]
           /\ \A type \in EntryTypes : <<type, p>> \in h <=> <<type, p>> \in held[w]
    BY OtherRows
  <2>8. k.step \notin MidEntry /\ j.step \notin MidEntry
        /\ (j.op # "settle" \/ j.step \notin Loop)
    BY <2>1, <2>2, <2>3 DEF MidEntry, Loop
  <2> HIDE DEF k, step, j, h
  <2>9. QED
    BY <2>1, <2>3, <2>4, <2>5, <2>6, <2>7, <2>8, GoOnStep DEF k
<1>3. CASE ListPayments(w)
  <2> DEFINE listed == PaymentsOf(k.subject)
             j == [k EXCEPT !.step = "row", !.todo = listed,
                            !.unpaid = {p \in listed : deposit[p] # "paid"}]
  <2>1. TablesTypeOK' /\ UNCHANGED <<deposit, payout, ledger>> /\ k.step = "list"
    BY <1>3, StatementTables DEF ListPayments
  <2>2. k.op = "settle" /\ listed \in SUBSET Payments /\ k.subject \in Checkouts
    BY <1>1, <2>1 DEF StepsOfOps, PaymentsOf
  <2>3. j \in Calls /\ j.op = "settle" /\ j.step = "row" /\ j.todo = listed
        /\ j.unpaid = {p \in listed : deposit[p] # "paid"}
        /\ j.subject = k.subject
    BY <1>1, <2>2 DEF Calls, Steps
  <2>4. Moves(w, j, held[w])
    BY <1>3, CallInv DEF ListPayments, Moves
  <2>5. StepsOfOps(j, held[w])
    BY <1>1, <2>2, <2>3 DEF StepsOfOps, InTransaction, Loop, MidEntry
  <2>6. RowsWithEntries(j, held[w])
    BY <1>1, <2>1, <2>2, <2>3 DEF RowsWithEntries, MidEntry
  <2>7. ReadsStillHold(j, held[w])
    BY <2>2, <2>3 DEF ReadsStillHold
  <2>8. QED
    BY <1>1, <2>1, <2>3, <2>4, <2>5, <2>6, <2>7, LocalStep DEF Consistent
<1>4. QED
  BY <1>2, <1>3

\* The loop comes to a payment.  The payment row is written for an entry that is
\* only about to be made, which is why the invariant names the call's place.
LEMMA UpdatePaymentInv ==
  ASSUME IInv, NEW w \in Workers, UpdatePayment(w)
  PROVE  IInv'
<1> DEFINE k == call[w]
<1>1. /\ k \in Calls /\ held[w] \in SUBSET Rows /\ StepsOfOps(k, held[w])
      /\ RowsWithEntries(k, held[w]) /\ ReadsStillHold(k, held[w])
      /\ held = [held EXCEPT ![w] = held[w]]
  BY CallInv
<1>2. TablesTypeOK' /\ UNCHANGED <<deposit, payout, ledger>> /\ k.step = "row"
  BY StatementTables DEF UpdatePayment
<1>3. PICK p \in NextUp(k.todo) :
        /\ Becomes(w, [k EXCEPT !.step = "find", !.current = p, !.todo = @ \ {p}])
        /\ IF k.op = "settle" /\ p \notin k.unpaid
             THEN UNCHANGED held
             ELSE Free(<<"payment", p>>) /\ Hold(w, <<"payment", p>>)
  BY DEF UpdatePayment
<1>4. p \in k.todo /\ p \in Payments
  BY <1>1, <1>3 DEF NextUp, Calls
<1>5. k.op \in {"settle", "refund", "release"}
  BY <1>1, <1>2, <1>4 DEF StepsOfOps, Calls, Ops
<1> DEFINE j == [k EXCEPT !.step = "find", !.current = p, !.todo = k.todo \ {p}]
<1>6. /\ j \in Calls /\ j.op = k.op /\ j.step = "find" /\ j.current = p
      /\ j.todo = k.todo \ {p} /\ j.unpaid = k.unpaid /\ j.subject = k.subject
  BY <1>1, <1>4 DEF Calls, Steps
<1>7. Becomes(w, j)
  BY <1>3
<1>8. held[w] \cup {<<"payment", p>>} \in SUBSET Rows
  BY <1>1, <1>4 DEF Rows
<1>9. PICK h \in SUBSET Rows :
        /\ Moves(w, j, h)
        /\ \/ h = held[w] \cup {<<"payment", p>>}
           \/ h = held[w] /\ k.op = "settle" /\ p \notin k.unpaid
  <2>1. CASE Hold(w, <<"payment", p>>)
    BY <1>7, <1>8, <2>1 DEF Moves, Hold
  <2>2. CASE UNCHANGED held /\ k.op = "settle" /\ p \notin k.unpaid
    BY <1>1, <1>7, <2>2 DEF Moves
  <2>3. QED
    BY <1>3, <2>1, <2>2
<1>10. StepsOfOps(j, h)
  BY <1>1, <1>2, <1>4, <1>5, <1>6 DEF StepsOfOps, InTransaction, Loop, MidEntry
<1>11. k.op = "settle" /\ p \notin k.unpaid => deposit[p] # "pending"
  BY <1>1, <1>2, <1>4 DEF ReadsStillHold, Loop
<1>12. k.op = "refund" => deposit[p] # "pending"
  BY <1>1, <1>4 DEF ReadsStillHold
<1> HIDE DEF j
<1>13. /\ \A q \in Payments : <<"payment", q>> \in h =>
            <<"payment", q>> \in held[w] \/ q = p
       /\ \A q \in Payments : \A type \in EntryTypes :
            <<type, q>> \in h <=> <<type, q>> \in held[w]
       /\ held[w] \subseteq h
       /\ <<"payment", p>> \in h \/ (k.op = "settle" /\ p \notin k.unpaid)
  <2> HIDE DEF k
  <2>1. CASE h = held[w] \cup {<<"payment", p>>}
    BY <2>1 DEF EntryTypes
  <2>2. CASE h = held[w] /\ k.op = "settle" /\ p \notin k.unpaid
    BY <2>2
  <2>3. QED
    BY <1>9, <2>1, <2>2
<1>14. RowsWithEntries(j, h)
  <2>1. \A q \in Payments : ~(k.current = q /\ k.step \in MidEntry)
    BY <1>2 DEF MidEntry
  <2>2. j.step \in MidEntry
    BY <1>6 DEF MidEntry
  <2>3. EntryOf(k.op) \in EntryTypes
    BY DEF EntryOf, EntryTypes
  <2> HIDE DEF k
  <2>4. RowsWithEntries(k, held[w])
    BY <1>1
  <2>5. QED
    BY <1>5, <1>6, <1>11, <1>13, <2>1, <2>2, <2>3, <2>4 DEF RowsWithEntries
<1>15. ReadsStillHold(j, h)
  BY <1>1, <1>2, <1>6, <1>12, <1>13 DEF ReadsStillHold, Loop
<1>16. QED
  BY <1>2, <1>6, <1>9, <1>10, <1>14, <1>15, LocalStep DEF Consistent

\* createLedgerEntryIfMissing: the entry is there already, or it is made.
LEMMA EntryStepsInv ==
  ASSUME IInv, NEW w \in Workers, FindEntry(w) \/ InsertEntry(w)
  PROVE  IInv'
<1> DEFINE k == call[w]
           p == k.current
           On(step) == [k EXCEPT !.step = step]
<1>1. /\ k \in Calls /\ held[w] \in SUBSET Rows /\ StepsOfOps(k, held[w])
      /\ RowsWithEntries(k, held[w]) /\ ReadsStillHold(k, held[w])
      /\ held = [held EXCEPT ![w] = held[w]]
  BY CallInv
<1>2. TablesTypeOK' /\ UNCHANGED <<deposit, payout, ledger>> /\ k.step \in MidEntry
  BY StatementTables DEF FindEntry, InsertEntry, MidEntry
<1>3. /\ k.op \in {"settle", "refund", "release"} /\ p \in Payments
      /\ EntryOf(k.op) \in EntryTypes
  BY <1>1, <1>2 DEF StepsOfOps, MidEntry, Loop, Calls, Ops, EntryOf, EntryTypes
<1>4. \A step \in Steps : On(step) \in Calls /\ On(step).op = k.op
        /\ On(step).step = step /\ On(step).todo = k.todo
        /\ On(step).unpaid = k.unpaid
        /\ On(step).current = p /\ On(step).subject = k.subject
  BY <1>1 DEF Calls
<1>5. ASSUME NEW step \in Loop, NEW h \in SUBSET Rows, Moves(w, On(step), h),
             step = "sync" => k.op \in {"settle", "refund"},
             \A q \in Payments :
               /\ <<"payment", q>> \in h <=> <<"payment", q>> \in held[w]
               /\ \A type \in EntryTypes : <<type, q>> \in h <=>
                    \/ <<type, q>> \in held[w]
                    \/ type = EntryOf(k.op) /\ q = p /\ step = "load",
             step = "insert" \/ step = "load" \/ Entered(EntryOf(k.op), p)
      PROVE  IInv'
  <2>1. step \in Steps
    BY <1>5 DEF Loop, MidEntry, Steps
  <2> DEFINE j == On(step)
  <2>2. /\ j \in Calls /\ j.op = k.op /\ j.step = step /\ j.todo = k.todo
        /\ j.unpaid = k.unpaid /\ j.current = p /\ j.subject = k.subject
    BY <1>4, <2>1
  <2> HIDE DEF On, j, k, p
  <2>3. StepsOfOps(j, h)
    BY <1>1, <1>2, <1>3, <1>5, <2>2 DEF StepsOfOps, InTransaction, Loop, MidEntry, p
  <2>4. RowsWithEntries(j, h)
    <3>1. \A q \in Payments : (k.current = q /\ k.step \in MidEntry) <=> q = p
      BY <1>2, <1>3 DEF p
    <3>2. step = "load" => step \notin MidEntry
      BY DEF MidEntry
    <3>3. step = "insert" => step \in MidEntry
      BY DEF MidEntry
    <3>4. QED
      BY <1>1, <1>3, <1>5, <2>2, <3>1, <3>2, <3>3 DEF RowsWithEntries, p
  <2>5. ReadsStillHold(j, h)
    BY <1>1, <1>2, <1>5, <2>2 DEF ReadsStillHold, Loop, MidEntry
  <2>6. Moves(w, j, h)
    BY <1>5 DEF j
  <2>7. QED
    BY <1>2, <2>2, <2>3, <2>4, <2>5, <2>6, LocalStep DEF Consistent
<1>6. CASE FindEntry(w)
  <2>1. PICK step \in {"insert", "row", "sync"} :
          /\ Goto(w, step) /\ UNCHANGED held
          /\ step = "insert" \/ Entered(EntryOf(k.op), p)
          /\ step = "sync" => k.op # "release"
    BY <1>6 DEF FindEntry, Entered
  <2>2. Moves(w, On(step), held[w]) /\ step \in Loop
    BY <1>1, <2>1 DEF Moves, Goto, Loop, MidEntry
  <2> HIDE DEF k, p, On
  <2>3. QED
    BY <1>1, <1>3, <1>5, <2>1, <2>2
<1>7. CASE InsertEntry(w)
  <2> DEFINE entry == <<EntryOf(k.op), p>>
  <2>1. CASE entry \in ledger
    BY <1>2, <1>7, <2>1, ReturnStep DEF InsertEntry
  <2>2. CASE entry \notin ledger
    <3>1. Moves(w, On("load"), held[w] \cup {entry})
      BY <1>7, <2>2 DEF InsertEntry, Moves, Goto, Hold
    <3>2. held[w] \cup {entry} \in SUBSET Rows
      BY <1>1, <1>3 DEF Rows, Entries
    <3>3. \A q \in Payments :
            /\ <<"payment", q>> \in held[w] \cup {entry} <=> <<"payment", q>> \in held[w]
            /\ \A type \in EntryTypes : <<type, q>> \in held[w] \cup {entry} <=>
                 \/ <<type, q>> \in held[w]
                 \/ type = EntryOf(k.op) /\ q = p
      BY <1>3 DEF EntryTypes
    <3>4. "load" \in Loop /\ "load" # "sync"
      BY DEF Loop
    <3> HIDE DEF k, p, On, entry
    <3>5. QED
      BY <1>5, <3>1, <3>2, <3>3, <3>4
  <2>3. QED
    BY <2>1, <2>2
<1>8. QED
  BY <1>6, <1>7

\* The wallet is read and written, the bookings are synced: no payment row and
\* no entry is involved.
LEMMA WalletStepsInv ==
  ASSUME IInv, NEW w \in Workers,
         ReadWallet(w) \/ PersistWallet(w) \/ SyncBooking(w)
  PROVE  IInv'
<1> DEFINE k == call[w]
           v == WalletOf(k)
<1>1. /\ k \in Calls /\ held[w] \in SUBSET Rows /\ StepsOfOps(k, held[w])
      /\ held = [held EXCEPT ![w] = held[w]]
  BY CallInv
<1>2. /\ TablesTypeOK' /\ UNCHANGED <<deposit, payout, ledger>>
      /\ k.step \in {"load", "store", "sync"}
  <2>1. CASE ReadWallet(w) \/ SyncBooking(w)
    <3>1. /\ UNCHANGED <<tables, paystack, webhooks, raced, faults>>
          /\ k.step \in {"load", "sync"}
      BY <2>1 DEF ReadWallet, SyncBooking
    <3>2. QED
      BY <3>1, StatementTables
  <2>2. CASE PersistWallet(w)
    <3>1. /\ UNCHANGED <<tables, paystack, webhooks, faults>> /\ k.step = "store"
          /\ raced' = [raced EXCEPT ![v] = @ \/ k.seen # wallet[v]]
      BY <2>2 DEF PersistWallet
    <3> HIDE DEF k, v
    <3>2. raced' \in [Providers -> BOOLEAN]
      BY <3>1 DEF IInv, TypeOK, TablesTypeOK
    <3>3. QED
      BY <3>1, <3>2 DEF IInv, TypeOK, TablesTypeOK, tables, paystack, webhooks
  <2>3. QED
    BY <2>1, <2>2
<1>3. k.op # "fail" /\ (k.op # "withdraw" => k.current \in Payments)
      /\ (k.op = "withdraw" => k.subject \in Withdrawals)
  BY <1>1, <1>2 DEF StepsOfOps, Loop, MidEntry
<1>4. v \in Providers /\ DeltaApplied(k) \in Wallets
  BY <1>1, <1>3, DeltaType
<1>5. k.step \notin MidEntry /\ k.step \in Loop
  BY <1>2 DEF MidEntry, Loop
<1>6. ASSUME NEW j \in Calls, NEW h \in SUBSET Rows, Moves(w, j, h),
             j.op = k.op, j.todo = k.todo, j.unpaid = k.unpaid,
             j.current = k.current, j.subject = k.subject,
             j.step \in {"store", "sync", "row"},
             j.step = "sync" => k.op \in {"settle", "refund"},
             j.step = "sync" => k.op # "withdraw",
             \A p \in Payments :
               /\ <<"payment", p>> \in h <=> <<"payment", p>> \in held[w]
               /\ \A type \in EntryTypes : <<type, p>> \in h <=> <<type, p>> \in held[w]
      PROVE  IInv'
  <2>1. StepsOfOps(j, h)
    BY <1>1, <1>2, <1>6 DEF StepsOfOps, InTransaction, Loop, MidEntry
  <2>2. j.step \in Steps /\ j.step \notin MidEntry
    BY <1>6 DEF Steps, MidEntry
  <2>3. QED
    BY <1>2, <1>5, <1>6, <2>1, <2>2, GoOnStep
<1>7. CASE ReadWallet(w)
  <2> DEFINE j == [k EXCEPT !.step = "store", !.seen = wallet[v]]
  <2>1. wallet[v] \in Wallets
    BY <1>4 DEF IInv, TypeOK, TablesTypeOK
  <2>2. /\ j \in Calls /\ j.op = k.op /\ j.todo = k.todo /\ j.unpaid = k.unpaid
        /\ j.current = k.current /\ j.subject = k.subject /\ j.step = "store"
    BY <1>1, <2>1 DEF Calls, Steps
  <2>3. Moves(w, j, held[w])
    BY <1>1, <1>7 DEF ReadWallet, Moves
  <2> HIDE DEF j, k, v
  <2>4. QED
    BY <1>1, <1>6, <2>2, <2>3
<1>8. CASE PersistWallet(w)
  <2> DEFINE step == IF k.op \in {"settle", "refund"} THEN "sync" ELSE "row"
             draft == [k.draft EXCEPT ![v] = DeltaApplied(k)]
             j == [k EXCEPT !.step = step, !.seen = EmptyWallet, !.draft = draft]
             h == held[w] \cup {<<"wallet", v>>}
  <2>1. draft \in [Providers -> Wallets] /\ EmptyWallet \in Wallets
    BY <1>1, <1>4 DEF Calls, EmptyWallet, Wallets
  <2>2. /\ j \in Calls /\ j.op = k.op /\ j.todo = k.todo /\ j.unpaid = k.unpaid
        /\ j.current = k.current /\ j.subject = k.subject /\ j.step = step
    BY <1>1, <2>1 DEF Calls, Steps
  <2>3. h \in SUBSET Rows
    BY <1>1, <1>4 DEF Rows
  <2>4. Moves(w, j, h)
    BY <1>8 DEF PersistWallet, Moves, Hold
  <2>5. \A p \in Payments :
          /\ <<"payment", p>> \in h <=> <<"payment", p>> \in held[w]
          /\ \A type \in EntryTypes : <<type, p>> \in h <=> <<type, p>> \in held[w]
    BY OtherRows
  <2>6. step \in {"sync", "row"} /\ (step = "sync" => k.op \in {"settle", "refund"})
    OBVIOUS
  <2> HIDE DEF j, k, v, h, step, draft
  <2>7. QED
    BY <1>6, <2>2, <2>3, <2>4, <2>5, <2>6
<1>9. CASE SyncBooking(w)
  <2> DEFINE j == [k EXCEPT !.step = "row"]
             h == held[w] \cup {<<"booking", k.current>>}
  <2>1. /\ j \in Calls /\ j.op = k.op /\ j.todo = k.todo /\ j.unpaid = k.unpaid
        /\ j.current = k.current /\ j.subject = k.subject /\ j.step = "row"
    BY <1>1 DEF Calls, Steps
  <2>2. k.step = "sync"
    BY <1>9 DEF SyncBooking
  <2>3. k.current \in Payments
    BY <1>1, <1>3, <2>2 DEF StepsOfOps
  <2>4. h \in SUBSET Rows
    BY <1>1, <2>3 DEF Rows
  <2>5. Moves(w, j, h)
    BY <1>9 DEF SyncBooking, Moves, Hold, Goto
  <2>6. \A p \in Payments :
          /\ <<"payment", p>> \in h <=> <<"payment", p>> \in held[w]
          /\ \A type \in EntryTypes : <<type, p>> \in h <=> <<type, p>> \in held[w]
    BY OtherRows
  <2> HIDE DEF j, k, h
  <2>7. QED
    BY <1>6, <2>1, <2>4, <2>5, <2>6
<1>10. QED
  BY <1>7, <1>8, <1>9

-----------------------------------------------------------------------------
(* Commits and faults *)

\* What a transaction that is about to commit does to one payment keeps its
\* statuses and its ledger entries in agreement.
LEMMA CommitPayment ==
  ASSUME IInv, NEW w \in Workers, Commit(w), NEW p \in Payments
  PROVE  /\ deposit'[p] # "pending" <=> Entered("deposit_pending_credit", p)'
         /\ deposit'[p] = "refunded" => Entered("refund_debit", p)'
         /\ Entered("refund_debit", p)' => Entered("deposit_pending_credit", p)'
         /\ payout'[p] = "released" <=> Entered("payout_release_credit", p)'
<1> DEFINE k == call[w]
           mine == held[w]
<1>1. /\ k \in Calls /\ mine \in SUBSET Rows /\ StepsOfOps(k, mine)
      /\ RowsWithEntries(k, mine) /\ ReadsStillHold(k, mine)
  BY CallInv
<1>2. k.step = "row" /\ ~(k.current = p /\ k.step \in MidEntry)
  BY DEF Commit, MidEntry
<1>3. \A type \in EntryTypes :
        Entered(type, p)' <=> Entered(type, p) \/ <<type, p>> \in mine
  <2>1. ledger' = ledger \cup (mine \cap Entries)
    BY DEF Commit
  <2>2. \A type \in EntryTypes : <<type, p>> \in Entries
    BY DEF Entries
  <2>3. QED
    BY <2>1, <2>2 DEF Entered
<1>4. /\ deposit'[p] = IF <<"payment", p>> \in mine /\ k.op # "release"
                        THEN IF k.op = "refund" THEN "refunded" ELSE "paid"
                        ELSE deposit[p]
      /\ payout'[p] = IF <<"payment", p>> \in mine /\ k.op = "release"
                       THEN "released" ELSE payout[p]
  BY DEF Commit
<1>5. /\ deposit[p] # "pending" <=> Entered("deposit_pending_credit", p)
      /\ deposit[p] = "refunded" => Entered("refund_debit", p)
      /\ Entered("refund_debit", p) => Entered("deposit_pending_credit", p)
      /\ payout[p] = "released" <=> Entered("payout_release_credit", p)
  BY DEF IInv, LedgerMatchesStatus
<1>6. /\ <<"payment", p>> \in mine =>
            /\ k.op \in {"settle", "refund", "release"}
            /\ Entered(EntryOf(k.op), p) \/ <<EntryOf(k.op), p>> \in mine
      /\ \A type \in EntryTypes : <<type, p>> \in mine =>
            /\ k.op \in {"settle", "refund", "release"}
            /\ type = EntryOf(k.op)
            /\ \/ <<"payment", p>> \in mine
               \/ k.op = "settle" /\ deposit[p] # "pending"
      /\ (k.op = "refund" /\ <<"payment", p>> \in mine) => deposit[p] # "pending"
  BY <1>1, <1>2 DEF RowsWithEntries, ReadsStillHold
<1>7. /\ EntryOf("settle") = "deposit_pending_credit"
      /\ EntryOf("refund") = "refund_debit"
      /\ EntryOf("release") = "payout_release_credit"
      /\ EntryTypes = {"deposit_pending_credit", "refund_debit", "payout_release_credit"}
  BY DEF EntryOf, EntryTypes
<1> HIDE DEF k, mine
<1>8. CASE k.op = "settle"
  BY <1>3, <1>4, <1>5, <1>6, <1>7, <1>8
<1>9. CASE k.op = "refund"
  BY <1>3, <1>4, <1>5, <1>6, <1>7, <1>9
<1>10. CASE k.op = "release"
  BY <1>3, <1>4, <1>5, <1>6, <1>7, <1>10
<1>11. CASE k.op \notin {"settle", "refund", "release"}
  BY <1>3, <1>4, <1>5, <1>6, <1>7, <1>11
<1>12. QED
  BY <1>8, <1>9, <1>10, <1>11

\* The tables keep their types through a commit: what a call puts in them was
\* typed when it wrote it.
LEMMA CommitTables ==
  ASSUME IInv, NEW w \in Workers, Commit(w)
  PROVE  TablesTypeOK'
<1> DEFINE k == call[w]
<1>1. k \in Calls /\ held[w] \in SUBSET Rows /\ StepsOfOps(k, held[w])
  BY CallInv
<1>2. k.draft \in [Providers -> Wallets]
  BY <1>1 DEF Calls
<1>3. k.op = "withdraw" => k.subject \in Withdrawals
  BY <1>1 DEF StepsOfOps, Commit
<1>4. TablesTypeOK
  BY DEF IInv, TypeOK
<1> HIDE DEF k
<1>5. /\ checkout' \in [Checkouts -> {"pending", "paid", "failed", "refunded"}]
      /\ deposit' \in [Payments -> {"pending", "paid", "refunded"}]
      /\ payout' \in [Payments -> {"pending", "released"}]
  BY <1>4 DEF Commit, TablesTypeOK
<1>6. booking' \in [Payments -> {"unpaid", "partial", "paid", "refunded"}]
  BY <1>4 DEF Commit, TablesTypeOK, CommittedBooking
<1>7. wallet' \in [Providers -> Wallets]
  BY <1>2, <1>4 DEF Commit, TablesTypeOK, k
<1>8. ledger' \subseteq Entries
  BY <1>4 DEF Commit, TablesTypeOK
<1>9. /\ request' \in [Withdrawals -> {"none", "requested", "initiated"}]
      /\ debited' \subseteq Withdrawals
  BY <1>3, <1>4 DEF Commit, TablesTypeOK, k
<1>10. UNCHANGED <<emitted, stored, queued, reversed, transferred, raced, faults>>
  BY DEF Commit, paystack, webhooks
<1>11. QED
  BY <1>4, <1>5, <1>6, <1>7, <1>8, <1>9, <1>10 DEF TablesTypeOK

\* A commit publishes a consistent write set and leaves the call idle.
LEMMA CommitInv ==
  ASSUME IInv, NEW w \in Workers, Commit(w)
  PROVE  IInv'
<1>1. Moves(w, Idle, {})
  BY DEF Commit, Return, Moves
<1>2. TypeOK'
  BY <1>1, CommitTables, IdleConsistent DEF IInv, TypeOK, Moves, Becomes
<1>3. LedgerMatchesStatus'
  BY CommitPayment DEF LedgerMatchesStatus
<1>4. /\ ledger \subseteq ledger'
      /\ \A p \in Payments : deposit[p] # "pending" => deposit'[p] # "pending"
  BY DEF Commit
<1>5. ASSUME NEW u \in Workers
      PROVE  Consistent(call[u], held[u])'
  <2>1. CASE u = w
    <3>1. call'[u] = Idle /\ held'[u] = {}
      BY <1>1, <2>1 DEF Moves, Becomes, IInv, TypeOK
    <3>2. QED
      BY <3>1 DEF Idle, Consistent, StepsOfOps, RowsWithEntries, ReadsStillHold,
                  Loop, MidEntry
  <2>2. CASE u # w
    <3>1. call'[u] = call[u] /\ held'[u] = held[u] /\ Consistent(call[u], held[u])
      BY <1>1, <2>2 DEF Moves, Becomes, IInv, TypeOK, TransactionsConsistent
    <3>2. StepsOfOps(call[u], held[u])'
      BY <3>1 DEF Consistent, StepsOfOps
    <3>3. RowsWithEntries(call[u], held[u])'
      BY <1>4, <3>1 DEF Consistent, RowsWithEntries, Entered
    <3>4. ReadsStillHold(call[u], held[u])'
      BY <1>4, <3>1 DEF Consistent, ReadsStillHold
    <3>5. QED
      BY <3>2, <3>3, <3>4 DEF Consistent
  <2>3. QED
    BY <2>1, <2>2
<1>6. TransactionsConsistent'
  BY <1>5 DEF TransactionsConsistent
<1>7. QED
  BY <1>2, <1>3, <1>6 DEF IInv

\* A call that throws and a restart drop write sets and change no table.
LEMMA FaultsInv ==
  ASSUME IInv, Restart \/ \E w \in Workers : Fail(w)
  PROVE  IInv'
<1>1. CASE Restart
  <2>1. TablesTypeOK' /\ UNCHANGED <<deposit, payout, ledger>>
    BY <1>1, AmountsAssumption
       DEF Restart, IInv, TypeOK, TablesTypeOK, tables, paystack
  <2>2. TypeOK'
    BY <1>1, <2>1, IdleConsistent DEF Restart, TypeOK
  <2>3. LedgerMatchesStatus'
    BY <2>1 DEF IInv, LedgerMatchesStatus, Entered
  <2>4. TransactionsConsistent'
    BY <1>1 DEF Restart, TransactionsConsistent, Consistent, StepsOfOps,
                RowsWithEntries, ReadsStillHold, Idle, Loop, MidEntry
  <2>5. QED
    BY <2>2, <2>3, <2>4 DEF IInv
<1>2. ASSUME NEW w \in Workers, Fail(w)
      PROVE  IInv'
  <2>1. TablesTypeOK' /\ UNCHANGED <<deposit, payout, ledger>>
    BY <1>2, AmountsAssumption
       DEF Fail, IInv, TypeOK, TablesTypeOK, tables, paystack, webhooks
  <2>2. QED
    BY <1>2, <2>1, ReturnStep DEF Fail
<1>3. QED
  BY <1>1, <1>2

-----------------------------------------------------------------------------
(* Theorems *)

\* The invariant is inductive: every action keeps it.
LEMMA NextIInv == IInv /\ [Next]_vars => IInv'
<1> SUFFICES ASSUME IInv, [Next]_vars PROVE IInv'
  OBVIOUS
<1>1. ASSUME NEW c \in Checkouts, Charge(c) \/ Decline(c)
      PROVE  IInv'
  <2>1. TablesTypeOK' /\ UNCHANGED <<deposit, payout, ledger, call, held>>
    BY <1>1 DEF Charge, Decline, IInv, TypeOK, TablesTypeOK, Events, tables, webhooks
  <2>2. QED
    BY <2>1, OutsideStep
<1>2. ASSUME NEW e \in Events, HandleWebhook(e) \/ Process(e)
      PROVE  IInv'
  BY <1>2, EventsInv
<1>3. ASSUME NEW w \in Workers, Request(w)
      PROVE  IInv'
  BY <1>3, StartsInv
<1>4. ASSUME NEW w \in Workers, Continue(w)
      PROVE  IInv'
  BY <1>4, BeforeTransactionInv, CheckoutStepsInv, UpdatePaymentInv, EntryStepsInv,
     WalletStepsInv, CommitInv DEF Continue
<1>5. ASSUME Restart \/ \E w \in Workers : Fail(w)
      PROVE  IInv'
  BY <1>5, FaultsInv
<1>6. CASE UNCHANGED vars
  <2>1. TablesTypeOK' /\ UNCHANGED <<deposit, payout, ledger, call, held>>
    BY <1>6 DEF vars, tables, paystack, webhooks, IInv, TypeOK, TablesTypeOK
  <2>2. QED
    BY <2>1, OutsideStep
<1>7. QED
  BY <1>1, <1>2, <1>3, <1>4, <1>5, <1>6 DEF Next

\* The inductive invariant holds of every behaviour.
THEOREM IInvHolds == Spec => []IInv
<1>1. QED
  BY InitIInv, NextIInv, PTL DEF Spec

\* Every row, wallet balance and local keeps its type; above all no balance is
\* ever negative, whatever calls race and whatever fails.
THEOREM TypeCorrect == Spec => []TypeOK
<1>1. IInv => TypeOK
  BY DEF IInv
<1>2. QED
  BY <1>1, IInvHolds, PTL

\* The committed ledger and the statuses of every payment agree at all times,
\* for any number of concurrent settlements, refunds and releases, with any
\* number of rollbacks and restarts.
THEOREM LedgerCorrect == Spec => []LedgerMatchesStatus
<1>1. IInv => LedgerMatchesStatus
  BY DEF IInv
<1>2. QED
  BY <1>1, IInvHolds, PTL

\* What every open transaction has written so far is consistent.
THEOREM TransactionsCorrect == Spec => []TransactionsConsistent
<1>1. IInv => TransactionsConsistent
  BY DEF IInv
<1>2. QED
  BY <1>1, IInvHolds, PTL

-----------------------------------------------------------------------------
(* The invariant behind the books: what a transaction in flight will have     *)
(* entered by the time it commits.                                            *)

EntryHeld(k, h, p) == <<EntryOf(k.op), p>> \in h
MidCredit == {"load", "store"}

\* The payment a call k with the write set h is at.
IsAt(k, p) == k.op # "withdraw" /\ k.step \in Loop \ {"row"} /\ k.current = p

\* The payments a call k with the write set h visits, has visited or is at.
Touches(k, h, p) ==
  \/ p \in k.todo \/ IsAt(k, p)
  \/ <<"payment", p>> \in h \/ <<"booking", p>> \in h
  \/ \E type \in EntryTypes : <<type, p>> \in h

\* A call stays within its checkout, a release with its one payment; a refund
\* has something to refund.
InScope(k, h) ==
  /\ \A p \in Payments : Touches(k, h, p) => CheckoutOf[p] = k.subject
  /\ k.op = "release" =>
       \A p, q \in Payments : Touches(k, h, p) /\ Touches(k, h, q) => p = q
  /\ (k.op = "refund" /\ k.step # "idle") =>
       \E p \in Payments : CheckoutOf[p] = k.subject
                             /\ (p \in k.todo \/ <<"payment", p>> \in h)

\* A settlement's loop leaves no payment behind without its entry; a wallet or a
\* booking is written with an entry that explains it, and an entry of a deposit
\* or refund with its booking.
Complete(k, h) ==
  /\ \A p \in Payments :
       /\ (k.op = "settle" /\ k.step \in Loop /\ CheckoutOf[p] = k.subject
             /\ p \notin k.todo) =>
            \/ Entered("deposit_pending_credit", p) \/ EntryHeld(k, h, p)
            \/ IsAt(k, p) /\ k.step \in MidEntry
       /\ (IsAt(k, p) /\ k.step \in MidCredit) => EntryHeld(k, h, p)
       /\ ((IsAt(k, p) /\ k.step = "sync") \/ <<"booking", p>> \in h) =>
            /\ k.op \in {"settle", "refund"}
            /\ Entered(EntryOf(k.op), p) \/ EntryHeld(k, h, p)
       /\ (EntryHeld(k, h, p) /\ k.op \in {"settle", "refund"}) =>
            <<"booking", p>> \in h \/ (IsAt(k, p) /\ k.step \notin MidEntry)
  /\ \A v \in Providers : <<"wallet", v>> \in h =>
       \/ k.op = "withdraw" /\ RequesterOf[k.subject] = v
       \/ k.op # "withdraw" /\ \E p \in Payments : ProviderOf[p] = v /\ EntryHeld(k, h, p)

\* A call went on only with what Paystack told it.
Backed(k) ==
  /\ (k.op = "settle" /\ k.step \notin {"idle", "answer"}) => Charged(k.subject)
  /\ (k.op = "refund" /\ k.step \notin {"idle", "refund"}) => k.subject \in reversed
  /\ (k.op = "withdraw" /\ k.step # "idle") =>
       /\ request[k.subject] # "none" /\ k.subject \notin debited
       /\ k.step # "transfer" => k.subject \in transferred

CallsComplete ==
  \A w \in Workers : /\ InScope(call[w], held[w])
                     /\ Complete(call[w], held[w])
                     /\ Backed(call[w])

\* A key of the ledger's unique index is written by one transaction, once; a
\* withdrawal is carried out by one call.
Alone ==
  /\ \A w \in Workers : \A entry \in Entries : entry \in held[w] =>
       /\ entry \notin ledger
       /\ \A u \in Workers \ {w} : entry \notin held[u]
  /\ \A w, u \in Workers :
       (w # u /\ call[w].op = "withdraw" /\ call[u].op = "withdraw"
          /\ call[w].step # "idle" /\ call[u].step # "idle") =>
         call[w].subject # call[u].subject
  /\ \A x \in debited : request[x] # "none"

Carries(op, subject) ==
  \E w \in Workers : /\ call[w].op = op /\ call[w].subject = subject
                     /\ call[w].step \notin {"idle", "refund", "transfer"}

\* BooksFollowPaystack, of calls that have been at the gateway.
GatewayBooked ==
  /\ queued \subseteq emitted
  /\ \A p \in Payments :
       /\ Entered("deposit_pending_credit", p) => Charged(CheckoutOf[p])
       /\ Entered("refund_debit", p) => CheckoutOf[p] \in reversed
  /\ debited \subseteq transferred
  /\ faults = 0 =>
       /\ \A c \in reversed :
            (\E p \in PaymentsOf(c) : Entered("refund_debit", p)) \/ Carries("refund", c)
       /\ \A x \in transferred : x \in debited \/ Carries("withdraw", x)

BInv == IInv /\ CallsComplete /\ Alone /\ GatewayBooked /\ BookingFollowsLedger

-----------------------------------------------------------------------------
(* Steps in general *)

\* What each call in flight satisfies, and what it is about.
LEMMA CallBInv ==
  ASSUME BInv, NEW w \in Workers
  PROVE  /\ InScope(call[w], held[w]) /\ Complete(call[w], held[w]) /\ Backed(call[w])
         /\ call[w] \in Calls /\ held[w] \in SUBSET Rows
         /\ StepsOfOps(call[w], held[w]) /\ RowsWithEntries(call[w], held[w])
         /\ ReadsStillHold(call[w], held[w])
         /\ held = [held EXCEPT ![w] = held[w]]
         /\ IInv
  BY CallInv DEF BInv, CallsComplete

\* An idle call that holds nothing is complete.
LEMMA IdleComplete == InScope(Idle, {}) /\ Complete(Idle, {}) /\ Backed(Idle)
  BY RowsAssumption
     DEF Idle, InScope, Complete, Backed, Touches, IsAt, EntryHeld, Loop, MidEntry

\* A step of a call that commits nothing keeps the invariant if what the call
\* becomes is complete, Paystack's answers stand, and a gateway call that leaves
\* the books behind is still carried by a call.
LEMMA CallStep ==
  ASSUME BInv, IInv', NEW w \in Workers, NEW k \in Calls, NEW h \in SUBSET Rows,
         Moves(w, k, h), UNCHANGED <<booking, ledger, debited>>,
         InScope(k, h), Complete(k, h),
         (k.op = "settle" /\ k.step \notin {"idle", "answer"}) =>
            <<"charge.success", k.subject>> \in emitted',
         (k.op = "refund" /\ k.step \notin {"idle", "refund"}) => k.subject \in reversed',
         (k.op = "withdraw" /\ k.step # "idle") =>
            /\ request'[k.subject] # "none" /\ k.subject \notin debited
            /\ k.step # "transfer" => k.subject \in transferred'
            /\ \A u \in Workers \ {w} :
                 (call[u].op = "withdraw" /\ call[u].step # "idle") =>
                    call[u].subject # k.subject,
         emitted \subseteq emitted', reversed \subseteq reversed',
         transferred \subseteq transferred', queued' \subseteq emitted',
         \A x \in Withdrawals : request[x] # "none" => request'[x] # "none",
         \A entry \in Entries : entry \in h =>
            entry \in held[w] \/ (entry \notin ledger /\ Free(entry)),
         faults' = 0 =>
            /\ faults = 0
            /\ (call[w].op \in {"refund", "withdraw"}
                  /\ call[w].step \notin {"idle", "refund", "transfer"}) =>
                 \/ /\ k.op = call[w].op /\ k.subject = call[w].subject
                    /\ k.step \notin {"idle", "refund", "transfer"}
                 \/ /\ call[w].op = "refund"
                    /\ \E p \in PaymentsOf(call[w].subject) : Entered("refund_debit", p)
            /\ \A c \in reversed' \ reversed :
                 k.op = "refund" /\ k.subject = c /\ k.step \notin {"idle", "refund", "transfer"}
            /\ \A x \in transferred' \ transferred :
                 k.op = "withdraw" /\ k.subject = x /\ k.step \notin {"idle", "refund", "transfer"}
  PROVE  BInv'
<1>1. /\ call' = [call EXCEPT ![w] = k] /\ held' = [held EXCEPT ![w] = h]
      /\ call'[w] = k /\ held'[w] = h
      /\ \A u \in Workers \ {w} : call'[u] = call[u] /\ held'[u] = held[u]
  BY DEF Moves, Becomes, BInv, IInv, TypeOK
<1>2. \A p \in Payments : \A type \in EntryTypes : Entered(type, p)' <=> Entered(type, p)
  BY DEF Entered
<1>3. \A u \in Workers :
        (call[u].op = "withdraw" /\ call[u].step # "idle") => call[u].subject \in Withdrawals
  BY CallBInv DEF StepsOfOps
<1>4. CallsComplete'
  <2>1. \A u \in Workers : InScope(call[u], held[u])'
    <3>1. ASSUME NEW u \in Workers
          PROVE  \E j, g : call'[u] = j /\ held'[u] = g /\ InScope(j, g)
      BY <1>1, CallBInv
    <3>2. ASSUME NEW u \in Workers, NEW j, NEW g,
                 call'[u] = j, held'[u] = g, InScope(j, g)
          PROVE  InScope(call[u], held[u])'
      BY <3>2 DEF InScope, Touches, IsAt
    <3>3. QED
      BY <3>1, <3>2
  <2>2. \A u \in Workers : Complete(call[u], held[u])'
    <3>1. ASSUME NEW u \in Workers
          PROVE  \E j, g : call'[u] = j /\ held'[u] = g /\ Complete(j, g)
      BY <1>1, CallBInv
    <3>2. ASSUME NEW u \in Workers, NEW j, NEW g,
                 call'[u] = j, held'[u] = g, Complete(j, g)
          PROVE  Complete(call[u], held[u])'
      BY <3>2 DEF Complete, IsAt, EntryHeld, Entered
    <3>3. QED
      BY <3>1, <3>2
  <2>3. \A u \in Workers : Backed(call[u])'
    <3>1. \A u \in Workers \ {w} : Backed(call[u])
      BY CallBInv
    <3>2. QED
      BY <1>1, <1>3, <3>1 DEF Backed, Charged
  <2>4. QED
    BY <2>1, <2>2, <2>3 DEF CallsComplete
<1>5. Alone'
  <2>1. ASSUME NEW u \in Workers, NEW entry \in Entries, entry \in held'[u]
        PROVE  entry \notin ledger' /\ \A v \in Workers \ {u} : entry \notin held'[v]
    BY <1>1, <2>1 DEF BInv, Alone, Free
  <2>2. ASSUME NEW u \in Workers, NEW v \in Workers, u # v,
               call'[u].op = "withdraw" /\ call'[v].op = "withdraw",
               call'[u].step # "idle" /\ call'[v].step # "idle"
        PROVE  call'[u].subject # call'[v].subject
    BY <1>1, <2>2 DEF BInv, Alone
  <2>3. \A x \in debited' : request'[x] # "none"
    BY DEF BInv, Alone, IInv, TypeOK, TablesTypeOK
  <2>4. QED
    BY <2>1, <2>2, <2>3 DEF Alone
<1>6. GatewayBooked'
  <2>1. ASSUME NEW op \in {"refund", "withdraw"}, NEW s, Carries(op, s), faults' = 0
        PROVE  \/ Carries(op, s)'
               \/ op = "refund" /\ \E p \in PaymentsOf(s) : Entered("refund_debit", p)
    <3>1. PICK u \in Workers : /\ call[u].op = op /\ call[u].subject = s
                               /\ call[u].step \notin {"idle", "refund", "transfer"}
      BY <2>1 DEF Carries
    <3>2. CASE u = w
      BY <1>1, <2>1, <3>1, <3>2 DEF Carries
    <3>3. CASE u # w
      BY <1>1, <3>1, <3>3 DEF Carries
    <3>4. QED
      BY <3>2, <3>3
  <2>2. /\ \A p \in Payments :
             /\ Entered("deposit_pending_credit", p)' => Charged(CheckoutOf[p])'
             /\ Entered("refund_debit", p)' => CheckoutOf[p] \in reversed'
        /\ debited' \subseteq transferred' /\ queued' \subseteq emitted'
    BY DEF BInv, GatewayBooked, Entered, Charged
  <2>3. ASSUME NEW c \in reversed', faults' = 0
        PROVE  (\E p \in PaymentsOf(c) : Entered("refund_debit", p)') \/ Carries("refund", c)'
    <3>1. CASE c \in reversed
      BY <2>1, <2>3, <3>1 DEF BInv, GatewayBooked, Entered
    <3>2. CASE c \notin reversed
      BY <1>1, <2>3, <3>2 DEF Carries
    <3>3. QED
      BY <3>1, <3>2
  <2>4. ASSUME NEW x \in transferred', faults' = 0
        PROVE  x \in debited' \/ Carries("withdraw", x)'
    <3>1. CASE x \in transferred
      BY <2>1, <2>4, <3>1 DEF BInv, GatewayBooked
    <3>2. CASE x \notin transferred
      BY <1>1, <2>4, <3>2 DEF Carries
    <3>3. QED
      BY <3>1, <3>2
  <2>5. QED
    BY <2>2, <2>3, <2>4 DEF GatewayBooked, PaymentsOf
<1>7. BookingFollowsLedger'
  BY DEF BInv, BookingFollowsLedger, Entered
<1>8. QED
  BY <1>4, <1>5, <1>6, <1>7 DEF BInv

\* A call that ends without a commit, at a step where Paystack and the books do
\* not wait for it.
LEMMA ReturnBStep ==
  ASSUME BInv, IInv', NEW w \in Workers, Return(w), held' = [held EXCEPT ![w] = {}],
         UNCHANGED <<booking, ledger, debited, emitted, reversed, transferred, request>>,
         queued' \subseteq emitted,
         faults' = 0 =>
            /\ faults = 0
            /\ (call[w].op \in {"refund", "withdraw"}
                  /\ call[w].step \notin {"idle", "refund", "transfer"}) =>
                 /\ call[w].op = "refund"
                 /\ \E p \in PaymentsOf(call[w].subject) : Entered("refund_debit", p)
  PROVE  BInv'
<1>1. Idle.op = "settle" /\ Idle.step = "idle"
  BY DEF Idle
<1>2. Moves(w, Idle, {})
  BY DEF Return, Moves
<1>3. QED
  BY <1>1, <1>2, IdleComplete, IdleConsistent, CallStep

\* A step of the world that no call takes part in.
LEMMA OutsideBStep ==
  ASSUME BInv, IInv', UNCHANGED <<tables, reversed, transferred, call, held, faults>>,
         emitted \subseteq emitted', queued' \subseteq emitted'
  PROVE  BInv'
<1>1. CallsComplete'
  <2>1. ASSUME NEW w \in Workers
        PROVE  InScope(call[w], held[w])' /\ Complete(call[w], held[w])' /\ Backed(call[w])'
    <3>1. InScope(call[w], held[w]) /\ Complete(call[w], held[w]) /\ Backed(call[w])
      BY CallBInv
    <3>2. InScope(call[w], held[w])'
      BY <3>1 DEF InScope, Touches, IsAt
    <3>3. Complete(call[w], held[w])'
      BY <3>1 DEF Complete, IsAt, EntryHeld, Entered, tables
    <3>4. Backed(call[w])'
      BY <3>1 DEF Backed, Charged, tables
    <3>5. QED
      BY <3>2, <3>3, <3>4
  <2>2. QED
    BY <2>1 DEF CallsComplete
<1>2. Alone'
  BY DEF BInv, Alone, tables
<1>3. GatewayBooked'
  BY DEF BInv, GatewayBooked, Carries, Entered, Charged, tables
<1>4. BookingFollowsLedger'
  BY DEF BInv, BookingFollowsLedger, Entered, tables
<1>5. QED
  BY <1>1, <1>2, <1>3, <1>4 DEF BInv

\* A statement inside a transaction changes only what its call has written.
LEMMA StatementStep ==
  ASSUME BInv, IInv', NEW w \in Workers, NEW k \in Calls, NEW h \in SUBSET Rows,
         Moves(w, k, h), UNCHANGED <<tables, paystack, webhooks, faults>>,
         k.op = call[w].op, k.subject = call[w].subject,
         call[w].step \in InTransaction, k.step \in InTransaction,
         InScope(k, h), Complete(k, h),
         \A entry \in Entries : entry \in h =>
            entry \in held[w] \/ (entry \notin ledger /\ Free(entry))
  PROVE  BInv'
<1>1. Backed(call[w])
  BY CallBInv
<1>2. call[w].step \notin {"idle", "answer", "refund", "transfer"}
      /\ k.step \notin {"idle", "answer", "refund", "transfer"}
  BY DEF InTransaction
<1>3. /\ UNCHANGED <<booking, ledger, debited, request, emitted, reversed, transferred, faults>>
      /\ queued' \subseteq emitted'
  BY DEF BInv, GatewayBooked, tables, paystack, webhooks
<1>4. (k.op = "withdraw" /\ k.step # "idle") =>
          \A u \in Workers \ {w} :
             (call[u].op = "withdraw" /\ call[u].step # "idle") =>
                call[u].subject # k.subject
  BY <1>2 DEF BInv, Alone
<1>5. /\ k.op = "settle" => <<"charge.success", k.subject>> \in emitted'
      /\ k.op = "refund" => k.subject \in reversed'
      /\ k.op = "withdraw" =>
           /\ request'[k.subject] # "none" /\ k.subject \notin debited
           /\ k.subject \in transferred'
  BY <1>1, <1>2, <1>3 DEF Backed, Charged
<1>6. /\ emitted \subseteq emitted' /\ reversed \subseteq reversed'
      /\ transferred \subseteq transferred'
      /\ reversed' \ reversed = {} /\ transferred' \ transferred = {}
      /\ \A x \in Withdrawals : request[x] # "none" => request'[x] # "none"
  BY <1>3
<1>7. QED
  BY <1>2, <1>3, <1>4, <1>5, <1>6, CallStep

\* A call that touches no more payments than before, and still has the ones it is
\* to refund, stays in its scope.
LEMMA ScopeStep ==
  ASSUME NEW k, NEW g, NEW j, NEW h, InScope(k, g), k.step # "idle",
         j.op = k.op, j.subject = k.subject,
         \A q \in Payments : Touches(j, h, q) => Touches(k, g, q),
         k.op = "refund" => \A q \in Payments :
            (q \in k.todo \/ <<"payment", q>> \in g) =>
               (q \in j.todo \/ <<"payment", q>> \in h)
  PROVE  InScope(j, h)
  BY DEF InScope

-----------------------------------------------------------------------------
(* One lemma per group of steps *)

\* What a request or an event starts has touched nothing yet.
LEMMA StartBStep ==
  ASSUME BInv, IInv', NEW w \in Workers, NEW op \in Ops, NEW step \in Steps,
         NEW subject \in Subjects, NEW todo \in SUBSET Payments,
         Starts(w, op, step, subject, todo),
         UNCHANGED <<booking, ledger, debited, held, paystack, faults>>,
         queued' \subseteq emitted,
         \A p \in todo : CheckoutOf[p] = subject,
         op = "release" => \A p, q \in todo : p = q,
         op = "refund" => step = "refund" /\ todo # {},
         op = "settle" => step \notin Loop /\ (step # "answer" => Charged(subject)),
         step \notin Loop \ {"row"},
         \A x \in Withdrawals : request[x] # "none" => request'[x] # "none",
         op = "withdraw" =>
            /\ subject \in Withdrawals /\ request[subject] = "none"
            /\ request'[subject] # "none" /\ step = "transfer"
  PROVE  BInv'
<1> DEFINE k == [Idle EXCEPT !.op = op, !.step = step, !.subject = subject, !.todo = todo]
<1>1. k \in Calls
  BY IdleConsistent DEF Calls, Idle
<1>2. held[w] = {} /\ call[w].step = "idle"
  BY CallInv DEF BInv, StepsOfOps, Starts, InTransaction
<1>3. Moves(w, k, {})
  BY <1>2, CallBInv DEF Starts, Moves
<1>4. k.op = op /\ k.step = step /\ k.todo = todo /\ k.subject = subject /\ k.current = None
  BY DEF Idle
<1> HIDE DEF k
<1>5. InScope(k, {})
  BY <1>4 DEF InScope, Touches, IsAt
<1>6. Complete(k, {})
  BY <1>4 DEF Complete, IsAt, EntryHeld
<1>7. op = "withdraw" =>
        /\ subject \notin debited
        /\ \A u \in Workers \ {w} : (call[u].op = "withdraw" /\ call[u].step # "idle") =>
             call[u].subject # subject
  BY CallBInv DEF BInv, Alone, Backed
<1>8. UNCHANGED <<emitted, reversed, transferred>>
  BY DEF paystack
<1>9. QED
  BY <1>1, <1>2, <1>3, <1>4, <1>5, <1>6, <1>7, <1>8, CallStep DEF Charged

\* Requests: verifyPayment, processRefund, releaseProviderPayout, withdrawFunds.
LEMMA StartsBInv ==
  ASSUME BInv, IInv', NEW w \in Workers, Request(w)
  PROVE  BInv'
<1>1. queued \subseteq emitted
  BY DEF BInv, GatewayBooked
<1>2. ASSUME NEW c \in Checkouts, VerifyPayment(w, c)
      PROVE  BInv'
  <2>1. /\ Starts(w, "settle", "answer", c, {})
        /\ UNCHANGED <<booking, ledger, debited, held, paystack, faults, queued, request>>
    BY <1>2 DEF VerifyPayment, tables, webhooks
  <2>2. "settle" \in Ops /\ "answer" \in Steps /\ c \in Subjects /\ "answer" \notin Loop
    BY DEF Ops, Steps, Subjects, Loop, MidEntry
  <2>3. QED
    BY <1>1, <2>1, <2>2, StartBStep
<1>3. ASSUME NEW c \in Checkouts, ProcessRefund(w, c)
      PROVE  BInv'
  <2> DEFINE todo == {p \in PaymentsOf(c) : deposit[p] = "paid"}
  <2>1. /\ Starts(w, "refund", "refund", c, todo) /\ todo # {}
        /\ UNCHANGED <<booking, ledger, debited, held, paystack, faults, queued, request>>
    BY <1>3 DEF ProcessRefund, tables, webhooks
  <2>2. todo \in SUBSET Payments /\ \A p \in todo : CheckoutOf[p] = c
    BY DEF PaymentsOf
  <2>3. "refund" \in Ops /\ "refund" \in Steps /\ c \in Subjects /\ "refund" \notin Loop
    BY DEF Ops, Steps, Subjects, Loop, MidEntry
  <2> HIDE DEF todo
  <2>4. QED
    BY <1>1, <2>1, <2>2, <2>3, StartBStep
<1>4. ASSUME NEW p \in Payments, ReleaseProviderPayout(w, p)
      PROVE  BInv'
  <2>1. /\ Starts(w, "release", "row", CheckoutOf[p], {p})
        /\ UNCHANGED <<booking, ledger, debited, held, paystack, faults, queued, request>>
    BY <1>4 DEF ReleaseProviderPayout, tables, webhooks
  <2>2. CheckoutOf[p] \in Subjects
    BY RowsAssumption DEF Subjects
  <2>3. "release" \in Ops /\ "row" \in Steps
    BY DEF Ops, Steps
  <2>4. QED
    BY <1>1, <2>1, <2>2, <2>3, StartBStep
<1>5. ASSUME NEW x \in Withdrawals, WithdrawFunds(w, x)
      PROVE  BInv'
  <2>1. /\ Starts(w, "withdraw", "transfer", x, {})
        /\ UNCHANGED <<booking, ledger, debited, held, paystack, faults, queued>>
        /\ request[x] = "none" /\ request' = [request EXCEPT ![x] = "requested"]
    BY <1>5 DEF WithdrawFunds, webhooks
  <2>2. request \in [Withdrawals -> {"none", "requested", "initiated"}]
    BY DEF BInv, IInv, TypeOK, TablesTypeOK
  <2>3. \A y \in Withdrawals : request[y] # "none" => request'[y] # "none"
    BY <2>1, <2>2
  <2>4. "withdraw" \in Ops /\ "transfer" \in Steps /\ x \in Subjects /\ "transfer" \notin Loop
    BY DEF Ops, Steps, Subjects, Loop, MidEntry
  <2>5. request'[x] # "none"
    BY <2>1, <2>2
  <2>6. QED
    BY <1>1, <2>1, <2>3, <2>4, <2>5, StartBStep
<1>6. QED
  BY <1>2, <1>3, <1>4, <1>5 DEF Request

\* The webhook endpoint and the callbacks it leaves to setImmediate: a settlement
\* that a webhook starts is of a charge Paystack has reported.
LEMMA EventsBInv ==
  ASSUME BInv, IInv', NEW e \in Events, HandleWebhook(e) \/ Process(e)
  PROVE  BInv'
<1>1. queued \subseteq emitted
  BY DEF BInv, GatewayBooked
<1>2. CASE HandleWebhook(e)
  BY <1>1, <1>2, OutsideBStep DEF HandleWebhook, paystack
<1>3. ASSUME NEW w \in Workers, NEW c \in Checkouts, ProcessSuccess(w, c)
      PROVE  BInv'
  <2>1. /\ Starts(w, "settle", "begin", c, {}) /\ Charged(c)
        /\ UNCHANGED <<booking, ledger, debited, held, paystack, faults, request>>
        /\ queued' \subseteq emitted
    BY <1>1, <1>3 DEF ProcessSuccess, tables, Charged
  <2>2. "settle" \in Ops /\ "begin" \in Steps /\ c \in Subjects /\ "begin" \notin Loop
    BY DEF Ops, Steps, Subjects, Loop, MidEntry
  <2>3. QED
    BY <2>1, <2>2, StartBStep
<1>4. ASSUME NEW w \in Workers, NEW c \in Checkouts, ProcessFailed(w, c)
      PROVE  BInv'
  <2>1. /\ UNCHANGED <<tables, booking, ledger, debited, held, paystack, faults, request>>
        /\ queued' \subseteq emitted
    BY <1>1, <1>4 DEF ProcessFailed, tables
  <2>2. CASE Starts(w, "fail", "fail", c, {})
    <3>1. "fail" \in Ops /\ "fail" \in Steps /\ c \in Subjects /\ "fail" \notin Loop
      BY DEF Ops, Steps, Subjects, Loop, MidEntry
    <3>2. QED
      BY <2>1, <2>2, <3>1, StartBStep
  <2>3. CASE UNCHANGED call
    BY <2>1, <2>3, OutsideBStep DEF paystack
  <2>4. QED
    BY <1>4, <2>2, <2>3 DEF ProcessFailed
<1>5. QED
  BY <1>2, <1>3, <1>4 DEF Process

\* The steps of a call before its transaction.
LEMMA BeforeTransactionBInv ==
  ASSUME BInv, IInv', NEW w \in Workers,
         \/ MarkCheckoutFailed(w) \/ VerifyTransaction(w) \/ ReadCheckout(w)
         \/ RefundAtGateway(w) \/ CreateTransfer(w)
  PROVE  BInv'
<1> DEFINE k == call[w]
           On(step) == [k EXCEPT !.step = step]
<1>1. /\ InScope(k, held[w]) /\ Complete(k, held[w]) /\ Backed(k)
      /\ k \in Calls /\ StepsOfOps(k, held[w]) /\ queued \subseteq emitted
  BY CallBInv DEF BInv, GatewayBooked
<1>2. k.step \in {"fail", "answer", "begin", "refund", "transfer"}
  BY DEF MarkCheckoutFailed, VerifyTransaction, ReadCheckout, RefundAtGateway,
         CreateTransfer, At
<1>3. held[w] = {} /\ held' = [held EXCEPT ![w] = {}]
  <2>1. UNCHANGED held
    BY DEF MarkCheckoutFailed, VerifyTransaction, ReadCheckout, RefundAtGateway,
           CreateTransfer
  <2>2. QED
    BY <1>1, <1>2, <2>1, CallBInv DEF StepsOfOps, InTransaction
<1>4. /\ \A step \in Steps :
           /\ On(step) \in Calls /\ On(step).op = k.op /\ On(step).step = step
           /\ On(step).todo = k.todo /\ On(step).current = k.current
           /\ On(step).subject = k.subject
      /\ {"begin", "list", "lock", "load"} \subseteq Steps
  BY <1>1 DEF Calls, Steps
<1> HIDE DEF k, On
<1>5. ASSUME NEW step \in {"begin", "list", "lock", "load"}, Goto(w, step),
             k.op \in {"settle", "refund"} => step # "load"
      PROVE  /\ Moves(w, On(step), {}) /\ On(step) \in Calls
             /\ InScope(On(step), {}) /\ Complete(On(step), {})
  <2>1. Moves(w, On(step), {})
    BY <1>3, <1>5 DEF Moves, Goto, k, On
  <2>2. step \notin Loop \ {"load"} /\ step # "idle" /\ k.step # "idle"
        /\ (k.op # "withdraw" => step # "load")
        /\ k.step \notin Loop
    <3>1. k.op \in {"release", "fail"} => k.step \notin {"answer", "begin", "refund", "transfer"}
      BY <1>1 DEF StepsOfOps, Ops, Calls
    <3>2. k.op \in {"release", "fail"} => FALSE \/ k.step = "fail"
      BY <1>2, <3>1
    <3>3. k.step = "fail" => ~Goto(w, step)
      BY <1>1, <1>3 DEF MarkCheckoutFailed, VerifyTransaction, ReadCheckout,
                        RefundAtGateway, CreateTransfer, At, Goto, Return, Becomes, k, Idle,
                        BInv, IInv, TypeOK
    <3>4. QED
      BY <1>1, <1>2, <1>5, <3>2, <3>3 DEF Loop, MidEntry, Calls, Ops
  <2>3. InScope(On(step), {})
    BY <1>1, <1>3, <1>4, <2>2 DEF InScope, Touches, IsAt
  <2>4. Complete(On(step), {})
    BY <1>1, <1>3, <1>4, <2>2 DEF Complete, IsAt, EntryHeld
  <2>5. QED
    BY <1>4, <2>1, <2>3, <2>4
<1>6. CASE MarkCheckoutFailed(w)
  <2>1. /\ UNCHANGED <<booking, ledger, debited, emitted, reversed, transferred, request, faults>>
        /\ queued' \subseteq emitted /\ Return(w) /\ held' = [held EXCEPT ![w] = {}]
        /\ call[w].op = "fail"
    BY <1>1, <1>3, <1>6 DEF MarkCheckoutFailed, paystack, webhooks, At
  <2>2. QED
    BY <2>1, ReturnBStep
<1>7. CASE VerifyTransaction(w)
  <2>1. /\ UNCHANGED <<booking, ledger, debited, emitted, reversed, transferred, request, faults>>
        /\ queued' \subseteq emitted' /\ k.op = "settle" /\ call[w].op = "settle"
    BY <1>1, <1>7 DEF VerifyTransaction, tables, paystack, webhooks, At, k
  <2>2. CASE Goto(w, "begin") /\ Charged(k.subject)
    <3>1. Moves(w, On("begin"), {}) /\ On("begin") \in Calls
          /\ InScope(On("begin"), {}) /\ Complete(On("begin"), {})
          /\ On("begin").op = "settle" /\ On("begin").subject = k.subject
      BY <1>4, <1>5, <2>1, <2>2
    <3>2. QED
      BY <2>1, <2>2, <3>1, CallStep DEF Charged
  <2>3. CASE Return(w)
    BY <1>3, <2>1, <2>3, ReturnBStep
  <2>4. QED
    BY <1>7, <2>2, <2>3 DEF VerifyTransaction, k
<1>8. CASE ReadCheckout(w)
  <2>1. /\ UNCHANGED <<booking, ledger, debited, emitted, reversed, transferred, request, faults>>
        /\ queued' \subseteq emitted' /\ k.op = "settle" /\ call[w].op = "settle"
        /\ k.step = "begin"
    BY <1>1, <1>8 DEF ReadCheckout, tables, paystack, webhooks, At, k
  <2>2. ASSUME NEW step \in {"list", "lock"}, Goto(w, step)
        PROVE  BInv'
    <3>1. Moves(w, On(step), {}) /\ On(step) \in Calls
          /\ InScope(On(step), {}) /\ Complete(On(step), {})
          /\ On(step).op = "settle" /\ On(step).subject = k.subject
      BY <1>4, <1>5, <2>1, <2>2
    <3>2. Charged(k.subject)
      BY <1>1, <2>1 DEF Backed
    <3>3. QED
      BY <2>1, <3>1, <3>2, CallStep DEF Charged
  <2>3. QED
    BY <1>8, <2>2 DEF ReadCheckout
<1>9. CASE RefundAtGateway(w)
  <2>1. /\ UNCHANGED <<booking, ledger, debited, emitted, transferred, request, faults>>
        /\ queued' \subseteq emitted' /\ k.op = "refund" /\ k.step = "refund"
        /\ call[w].step = "refund"
    BY <1>1, <1>9 DEF RefundAtGateway, tables, webhooks, At, k
  <2>2. CASE Goto(w, "lock") /\ reversed' = reversed \cup {k.subject}
    <3>1. Moves(w, On("lock"), {}) /\ On("lock") \in Calls
          /\ InScope(On("lock"), {}) /\ Complete(On("lock"), {})
          /\ On("lock").op = "refund" /\ On("lock").subject = k.subject
          /\ On("lock").step = "lock"
      BY <1>4, <1>5, <2>1, <2>2
    <3> DEFINE j == On("lock")
    <3>2. /\ reversed \subseteq reversed' /\ j.subject \in reversed'
          /\ \A c \in reversed' \ reversed : j.subject = c
          /\ emitted \subseteq emitted' /\ transferred \subseteq transferred'
          /\ transferred' \ transferred = {}
          /\ \A x \in Withdrawals : request[x] # "none" => request'[x] # "none"
      BY <2>1, <2>2, <3>1
    <3> HIDE DEF j
    <3>3. Moves(w, j, {}) /\ j \in Calls /\ InScope(j, {}) /\ Complete(j, {})
          /\ j.op = "refund" /\ j.step = "lock"
      BY <3>1 DEF j
    <3>4. QED
      BY <2>1, <3>2, <3>3, CallStep
  <2>3. CASE Return(w) /\ UNCHANGED reversed
    BY <1>3, <2>1, <2>3, ReturnBStep
  <2>4. QED
    BY <1>9, <2>2, <2>3 DEF RefundAtGateway, k
<1>10. CASE CreateTransfer(w)
  <2>1. /\ UNCHANGED <<booking, ledger, debited, emitted, reversed, request, faults>>
        /\ queued' \subseteq emitted' /\ k.op = "withdraw" /\ k.step = "transfer"
        /\ call[w].step = "transfer" /\ call[w].op = "withdraw"
    BY <1>1, <1>10 DEF CreateTransfer, tables, webhooks, At, k
  <2>2. CASE Goto(w, "load") /\ transferred' = transferred \cup {k.subject}
    <3>1. Moves(w, On("load"), {}) /\ On("load") \in Calls
          /\ InScope(On("load"), {}) /\ Complete(On("load"), {})
          /\ On("load").op = "withdraw" /\ On("load").subject = k.subject
          /\ On("load").step = "load"
      BY <1>4, <1>5, <2>1, <2>2
    <3>2. request[k.subject] # "none" /\ k.subject \notin debited
      BY <1>1, <2>1 DEF Backed
    <3>3. \A u \in Workers \ {w} :
             (call[u].op = "withdraw" /\ call[u].step # "idle") =>
                call[u].subject # k.subject
      BY <2>1 DEF BInv, Alone, k
    <3> DEFINE j == On("load")
    <3>4. /\ reversed' \ reversed = {} /\ reversed \subseteq reversed'
          /\ emitted \subseteq emitted' /\ transferred \subseteq transferred'
          /\ j.subject \in transferred'
          /\ \A x \in transferred' \ transferred : j.subject = x
          /\ request'[j.subject] # "none" /\ j.subject \notin debited
          /\ \A x \in Withdrawals : request[x] # "none" => request'[x] # "none"
          /\ \A u \in Workers \ {w} :
               (call[u].op = "withdraw" /\ call[u].step # "idle") =>
                  call[u].subject # j.subject
      BY <2>1, <2>2, <3>1, <3>2, <3>3
    <3>5. Moves(w, j, {}) /\ j \in Calls /\ InScope(j, {}) /\ Complete(j, {})
          /\ j.op = "withdraw" /\ j.step = "load"
      BY <3>1
    <3> HIDE DEF j
    <3>6. QED
      BY <2>1, <3>4, <3>5, CallStep
  <2>3. CASE Return(w) /\ UNCHANGED transferred
    BY <1>3, <2>1, <2>3, ReturnBStep
  <2>4. QED
    BY <1>10, <2>2, <2>3 DEF CreateTransfer, k
<1>11. QED
  BY <1>6, <1>7, <1>8, <1>9, <1>10

\* The checkout row is written and its payments are listed: all of them are
\* still to be visited.
LEMMA CheckoutStepsBInv ==
  ASSUME BInv, IInv', NEW w \in Workers, UpdateCheckout(w) \/ ListPayments(w)
  PROVE  BInv'
<1> DEFINE k == call[w]
<1>1. /\ InScope(k, held[w]) /\ Complete(k, held[w]) /\ k \in Calls
      /\ StepsOfOps(k, held[w]) /\ held[w] \in SUBSET Rows
      /\ held = [held EXCEPT ![w] = held[w]]
  BY CallBInv
<1>2. UNCHANGED <<tables, paystack, webhooks, faults>>
  BY DEF UpdateCheckout, ListPayments
<1>3. CASE UpdateCheckout(w)
  <2> DEFINE step == IF k.op = "settle" THEN "list" ELSE "row"
             j == [k EXCEPT !.step = step]
             h == held[w] \cup {<<"checkout", k.subject>>}
  <2>1. Moves(w, j, h) /\ k.step = "lock"
    BY <1>3 DEF UpdateCheckout, Goto, Hold, Moves
  <2>2. k.op \in {"settle", "refund"} /\ k.subject \in Checkouts
    BY <1>1, <2>1 DEF StepsOfOps
  <2>3. j \in Calls /\ j.op = k.op /\ j.step = step /\ j.todo = k.todo
        /\ j.current = k.current /\ j.subject = k.subject
    BY <1>1 DEF Calls, Steps
  <2>4. /\ h \in SUBSET Rows
        /\ \A p \in Payments :
             /\ <<"payment", p>> \in h <=> <<"payment", p>> \in held[w]
             /\ <<"booking", p>> \in h <=> <<"booking", p>> \in held[w]
             /\ \A type \in EntryTypes : <<type, p>> \in h <=> <<type, p>> \in held[w]
        /\ \A v \in Providers : <<"wallet", v>> \in h <=> <<"wallet", v>> \in held[w]
        /\ \A entry \in Entries : entry \in h => entry \in held[w]
    BY <1>1, <2>2 DEF Rows, EntryTypes, Entries
  <2>5. /\ EntryOf(k.op) \in EntryTypes /\ step \notin Loop \ {"row"}
        /\ k.step \notin Loop /\ step \in InTransaction /\ k.step \in InTransaction
        /\ step \in {"list", "row"} /\ (step = "list" <=> k.op = "settle")
        /\ step # "idle" /\ k.step # "idle" /\ "list" \notin Loop
    BY <2>1, <2>2 DEF EntryOf, EntryTypes, Loop, MidEntry, InTransaction
  <2> HIDE DEF k, j, h, step
  <2>6. InScope(j, h)
    BY <1>1, <2>3, <2>4, <2>5 DEF InScope, Touches, IsAt
  <2>7. Complete(j, h)
    BY <1>1, <2>3, <2>4, <2>5 DEF Complete, IsAt, EntryHeld
  <2>8. QED
    BY <1>2, <2>1, <2>3, <2>4, <2>5, <2>6, <2>7, StatementStep DEF k
<1>4. CASE ListPayments(w)
  <2> DEFINE listed == PaymentsOf(k.subject)
             j == [k EXCEPT !.step = "row", !.todo = listed,
                            !.unpaid = {p \in listed : deposit[p] # "paid"}]
  <2>1. Moves(w, j, held[w]) /\ k.step = "list"
    BY <1>4, CallBInv DEF ListPayments, Moves
  <2>2. k.op = "settle" /\ listed \in SUBSET Payments
    BY <1>1, <2>1 DEF StepsOfOps, PaymentsOf
  <2>3. j \in Calls /\ j.op = "settle" /\ j.step = "row" /\ j.todo = listed
        /\ j.current = k.current /\ j.subject = k.subject
    BY <1>1, <2>2 DEF Calls, Steps
  <2>4. k.step \notin Loop /\ "row" \in InTransaction /\ k.step \in InTransaction
        /\ "row" \notin MidEntry
        /\ \A p \in Payments : p \in listed <=> CheckoutOf[p] = k.subject
    BY <2>1 DEF Loop, MidEntry, InTransaction, PaymentsOf
  <2> HIDE DEF k, j, listed
  <2>5. InScope(j, held[w])
    BY <1>1, <2>2, <2>3, <2>4 DEF InScope, Touches, IsAt
  <2>6. Complete(j, held[w])
    BY <1>1, <2>2, <2>3, <2>4 DEF Complete, IsAt, EntryHeld, MidCredit
  <2>7. QED
    BY <1>1, <1>2, <2>1, <2>2, <2>3, <2>4, <2>5, <2>6, StatementStep DEF k
<1>5. QED
  BY <1>3, <1>4

\* The loop comes to a payment: it is no longer to be visited, but its entry is
\* under way.
LEMMA UpdatePaymentBInv ==
  ASSUME BInv, IInv', NEW w \in Workers, UpdatePayment(w)
  PROVE  BInv'
<1> DEFINE k == call[w]
<1>1. /\ InScope(k, held[w]) /\ Complete(k, held[w]) /\ k \in Calls
      /\ StepsOfOps(k, held[w]) /\ held[w] \in SUBSET Rows
      /\ held = [held EXCEPT ![w] = held[w]]
  BY CallBInv
<1>2. UNCHANGED <<tables, paystack, webhooks, faults>> /\ k.step = "row"
  BY DEF UpdatePayment
<1>3. PICK p \in NextUp(k.todo) :
        /\ Becomes(w, [k EXCEPT !.step = "find", !.current = p, !.todo = @ \ {p}])
        /\ IF k.op = "settle" /\ p \notin k.unpaid
             THEN UNCHANGED held
             ELSE Free(<<"payment", p>>) /\ Hold(w, <<"payment", p>>)
  BY DEF UpdatePayment
<1>4. p \in k.todo /\ p \in Payments
  BY <1>1, <1>3 DEF NextUp, Calls
<1>5. k.op # "withdraw"
  BY <1>1, <1>4 DEF StepsOfOps
<1> DEFINE j == [k EXCEPT !.step = "find", !.current = p, !.todo = k.todo \ {p}]
<1>6. /\ j \in Calls /\ j.op = k.op /\ j.step = "find" /\ j.current = p
      /\ j.todo = k.todo \ {p} /\ j.subject = k.subject
  BY <1>1, <1>4 DEF Calls, Steps
<1>7. PICK h \in {held[w], held[w] \cup {<<"payment", p>>}} :
        Moves(w, j, h) /\ (k.op # "settle" => h = held[w] \cup {<<"payment", p>>})
  BY <1>1, <1>3 DEF Moves, Hold
<1>8. /\ h \in SUBSET Rows
      /\ \A q \in Payments :
           /\ <<"payment", q>> \in h => <<"payment", q>> \in held[w] \/ q = p
           /\ <<"payment", q>> \in held[w] => <<"payment", q>> \in h
           /\ k.op # "settle" => <<"payment", p>> \in h
           /\ <<"booking", q>> \in h <=> <<"booking", q>> \in held[w]
           /\ \A type \in EntryTypes : <<type, q>> \in h <=> <<type, q>> \in held[w]
      /\ \A v \in Providers : <<"wallet", v>> \in h <=> <<"wallet", v>> \in held[w]
      /\ \A entry \in Entries : entry \in h => entry \in held[w]
  <2> HIDE DEF k, j
  <2>1. held[w] \cup {<<"payment", p>>} \in SUBSET Rows
    BY <1>1, <1>4 DEF Rows
  <2>2. QED
    BY <1>1, <1>7, <2>1 DEF EntryTypes, Entries
<1>9. /\ EntryOf(k.op) \in EntryTypes /\ "find" \in MidEntry /\ "find" \in Loop
      /\ "find" \notin MidCredit /\ "row" \in Loop /\ "row" \notin MidEntry
      /\ "find" \in InTransaction /\ "row" \in InTransaction
  BY DEF EntryOf, EntryTypes, Loop, MidEntry, MidCredit, InTransaction
<1> HIDE DEF k, j
<1>10. InScope(j, h)
  <2>1. \A q \in Payments : IsAt(j, q) => q = p
    BY <1>6 DEF IsAt
  <2>2. \A q \in Payments : Touches(j, h, q) => Touches(k, held[w], q)
    BY <1>4, <1>6, <1>8, <2>1 DEF Touches
  <2>3. QED
    BY <1>1, <1>2, <1>6, <1>8, <2>2, ScopeStep
<1>11. Complete(j, h)
  <2>1. \A q \in Payments :
          /\ ~IsAt(k, q) /\ (IsAt(j, q) <=> q = p)
          /\ EntryHeld(j, h, q) <=> EntryHeld(k, held[w], q)
    BY <1>2, <1>5, <1>6, <1>8, <1>9 DEF IsAt, EntryHeld
  <2>2. \A q \in Payments : q \notin j.todo => q \notin k.todo \/ q = p
    BY <1>6
  <2>3. QED
    BY <1>1, <1>2, <1>5, <1>6, <1>8, <1>9, <2>1, <2>2 DEF Complete
<1>12. QED
  BY <1>2, <1>6, <1>7, <1>8, <1>9, <1>10, <1>11, StatementStep DEF k

\* The entry is found, or its key is taken: by one transaction only, since the
\* index makes others wait and then turns them away.
LEMMA EntryStepsBInv ==
  ASSUME BInv, IInv', NEW w \in Workers, FindEntry(w) \/ InsertEntry(w)
  PROVE  BInv'
<1> DEFINE k == call[w]
           p == k.current
           On(step) == [k EXCEPT !.step = step]
<1>1. /\ InScope(k, held[w]) /\ Complete(k, held[w]) /\ k \in Calls
      /\ StepsOfOps(k, held[w]) /\ held[w] \in SUBSET Rows
      /\ held = [held EXCEPT ![w] = held[w]]
  BY CallBInv
<1>2. UNCHANGED <<tables, paystack, webhooks, faults>> /\ k.step \in MidEntry
  BY DEF FindEntry, InsertEntry, MidEntry
<1>3. /\ k.op \in {"settle", "refund", "release"} /\ p \in Payments
      /\ EntryOf(k.op) \in EntryTypes /\ k.op # "withdraw"
  BY <1>1, <1>2 DEF StepsOfOps, MidEntry, Loop, Calls, Ops, EntryOf, EntryTypes
<1>4. \A step \in Steps : On(step) \in Calls /\ On(step).op = k.op
        /\ On(step).step = step /\ On(step).todo = k.todo
        /\ On(step).current = p /\ On(step).subject = k.subject
  BY <1>1 DEF Calls
<1>5. k.step \in {"find", "insert"} /\ k.step \in InTransaction /\ k.step \in Loop \ {"row"}
  BY <1>2 DEF MidEntry, InTransaction, Loop
<1>6. ASSUME NEW step \in {"insert", "row", "sync", "load"}, NEW h \in SUBSET Rows,
             Moves(w, On(step), h),
             step = "sync" => k.op \in {"settle", "refund"},
             \A q \in Payments :
               /\ <<"payment", q>> \in h <=> <<"payment", q>> \in held[w]
               /\ <<"booking", q>> \in h <=> <<"booking", q>> \in held[w]
               /\ \A type \in EntryTypes : <<type, q>> \in h <=>
                    \/ <<type, q>> \in held[w]
                    \/ type = EntryOf(k.op) /\ q = p /\ step = "load",
             \A v \in Providers : <<"wallet", v>> \in h <=> <<"wallet", v>> \in held[w],
             \A entry \in Entries : entry \in h =>
                entry \in held[w] \/ (entry \notin ledger /\ Free(entry)),
             step = "insert" \/ step = "load" \/ Entered(EntryOf(k.op), p)
      PROVE  BInv'
  <2> DEFINE j == On(step)
  <2>1. step \in Steps /\ step \in InTransaction
        /\ (step \in MidEntry <=> step = "insert") /\ step \in Loop
        /\ (step \in MidCredit <=> step = "load")
    BY <1>6 DEF Loop, MidEntry, MidCredit, Steps, InTransaction
  <2>2. /\ j \in Calls /\ j.op = k.op /\ j.step = step /\ j.todo = k.todo
        /\ j.current = p /\ j.subject = k.subject /\ p = k.current
    BY <1>4, <2>1
  <2>3. Moves(w, j, h)
    BY <1>6
  <2> HIDE DEF On, j, k, p
  <2>4. k.step \in MidEntry /\ EntryOf("settle") = "deposit_pending_credit"
    BY <1>2 DEF EntryOf
  <2>5. /\ \A q \in Payments : IsAt(k, q) <=> q = p
        /\ \A q \in Payments : IsAt(j, q) => q = p
        /\ \A q \in Payments : EntryHeld(j, h, q) <=>
              EntryHeld(k, held[w], q) \/ (q = p /\ step = "load")
        /\ \A q \in Payments : step # "row" => (IsAt(j, q) <=> q = p)
    BY <1>3, <1>5, <1>6, <2>1, <2>2 DEF IsAt, EntryHeld
  <2>6. InScope(j, h)
    <3>1. \A q \in Payments : Touches(j, h, q) => Touches(k, held[w], q)
      BY <1>6, <2>2, <2>5 DEF Touches
    <3>2. QED
      BY <1>1, <1>5, <1>6, <2>2, <3>1, ScopeStep
  <2>7. Complete(j, h)
    <3> DEFINE type == EntryOf(k.op)
    <3>1. j.op = k.op /\ EntryOf(j.op) = type /\ (k.op = "settle" => type = "deposit_pending_credit")
      BY <2>2, <2>4
    <3>2. step \in {"insert", "load"} \/ Entered(type, p)
      BY <1>6
    <3> HIDE DEF type
    <3>3. \A q \in Payments :
            (j.op = "settle" /\ CheckoutOf[q] = j.subject /\ q \notin j.todo) =>
               \/ Entered("deposit_pending_credit", q) \/ EntryHeld(j, h, q)
               \/ IsAt(j, q) /\ j.step \in MidEntry
      BY <1>1, <1>5, <2>1, <2>2, <2>5, <3>1, <3>2 DEF Complete
    <3>4. \A q \in Payments : (IsAt(j, q) /\ j.step \in MidCredit) => EntryHeld(j, h, q)
      BY <2>1, <2>2, <2>5
    <3>5. \A q \in Payments :
            ((IsAt(j, q) /\ j.step = "sync") \/ <<"booking", q>> \in h) =>
               /\ j.op \in {"settle", "refund"}
               /\ Entered(type, q) \/ EntryHeld(j, h, q)
      BY <1>1, <1>6, <2>2, <2>5, <3>1, <3>2 DEF Complete, type
    <3>6. \A q \in Payments :
            (EntryHeld(j, h, q) /\ j.op \in {"settle", "refund"}) =>
               <<"booking", q>> \in h \/ (IsAt(j, q) /\ j.step \notin MidEntry)
      BY <1>1, <1>6, <2>1, <2>2, <2>4, <2>5 DEF Complete
    <3>7. \A v \in Providers : <<"wallet", v>> \in h =>
            j.op # "withdraw" /\ \E q \in Payments : ProviderOf[q] = v /\ EntryHeld(j, h, q)
      BY <1>1, <1>3, <1>6, <2>2, <2>5 DEF Complete
    <3>8. QED
      BY <3>1, <3>3, <3>4, <3>5, <3>6, <3>7 DEF Complete
  <2>8. QED
    BY <1>2, <1>5, <1>6, <2>1, <2>2, <2>3, <2>6, <2>7, StatementStep DEF k
<1>7. CASE FindEntry(w)
  <2>1. PICK step \in {"insert", "row", "sync"} :
          /\ Goto(w, step) /\ UNCHANGED held
          /\ step = "insert" \/ Entered(EntryOf(k.op), p)
          /\ step = "sync" => k.op # "release"
    BY <1>7 DEF FindEntry, Entered
  <2>2. Moves(w, On(step), held[w])
    BY <1>1, <2>1 DEF Moves, Goto
  <2> HIDE DEF k, p, On
  <2>3. QED
    BY <1>1, <1>3, <1>6, <2>1, <2>2
<1>8. CASE InsertEntry(w)
  <2> DEFINE entry == <<EntryOf(k.op), p>>
  <2>1. CASE entry \in ledger
    <3>1. Return(w) /\ held' = [held EXCEPT ![w] = {}]
      BY <1>8, <2>1 DEF InsertEntry
    <3>2. /\ UNCHANGED <<booking, ledger, debited, emitted, reversed, transferred, request, faults>>
          /\ queued' \subseteq emitted
      BY <1>2 DEF BInv, GatewayBooked, tables, paystack, webhooks
    <3>3. CheckoutOf[p] = k.subject
      BY <1>1, <1>3, <1>5 DEF InScope, Touches, IsAt
    <3>4. k.op = "refund" => \E q \in PaymentsOf(k.subject) : Entered("refund_debit", q)
      BY <1>3, <2>1, <3>3 DEF PaymentsOf, Entered, EntryOf
    <3>5. QED
      BY <1>3, <3>1, <3>2, <3>4, ReturnBStep
  <2>2. CASE entry \notin ledger
    <3>1. Moves(w, On("load"), held[w] \cup {entry}) /\ Free(entry)
      BY <1>8, <2>2 DEF InsertEntry, Moves, Goto, Hold
    <3>2. held[w] \cup {entry} \in SUBSET Rows
      BY <1>1, <1>3 DEF Rows, Entries
    <3>3. /\ \A q \in Payments :
               /\ <<"payment", q>> \in held[w] \cup {entry} <=> <<"payment", q>> \in held[w]
               /\ <<"booking", q>> \in held[w] \cup {entry} <=> <<"booking", q>> \in held[w]
               /\ \A type \in EntryTypes : <<type, q>> \in held[w] \cup {entry} <=>
                    \/ <<type, q>> \in held[w]
                    \/ type = EntryOf(k.op) /\ q = p
          /\ \A v \in Providers :
               <<"wallet", v>> \in held[w] \cup {entry} <=> <<"wallet", v>> \in held[w]
      BY <1>3 DEF EntryTypes
    <3>4. \A e \in Entries : e \in held[w] \cup {entry} =>
             e \in held[w] \/ (e \notin ledger /\ Free(e))
      BY <2>2, <3>1
    <3> HIDE DEF k, p, On, entry
    <3>5. QED
      BY <1>6, <3>1, <3>2, <3>3, <3>4
  <2>3. QED
    BY <2>1, <2>2
<1>9. QED
  BY <1>7, <1>8

\* The wallet is read and written, the bookings are synced: only for a payment
\* whose entry is made.
LEMMA WalletStepsBInv ==
  ASSUME BInv, IInv', NEW w \in Workers,
         ReadWallet(w) \/ PersistWallet(w) \/ SyncBooking(w)
  PROVE  BInv'
<1> DEFINE k == call[w]
           p == k.current
           v == WalletOf(k)
<1>1. /\ InScope(k, held[w]) /\ Complete(k, held[w]) /\ k \in Calls
      /\ StepsOfOps(k, held[w]) /\ held[w] \in SUBSET Rows
      /\ held = [held EXCEPT ![w] = held[w]] /\ call' \in [Workers -> Calls]
  BY CallBInv DEF IInv, TypeOK
<1>2. /\ UNCHANGED <<tables, paystack, webhooks, faults>>
      /\ k.step \in {"load", "store", "sync"}
  BY DEF ReadWallet, PersistWallet, SyncBooking
<1>3. k.step \in Loop \ {"row"} /\ k.step \notin MidEntry /\ k.step \in InTransaction
      /\ (k.step \in MidCredit <=> k.step # "sync")
  BY <1>2 DEF MidEntry, MidCredit, Loop, InTransaction
<1>4. /\ k.op # "withdraw" => p \in Payments
      /\ k.op = "withdraw" => k.subject \in Withdrawals
      /\ k.step = "sync" => k.op \in {"settle", "refund"}
      /\ k.op \in Ops /\ k.op # "fail"
  BY <1>1, <1>2, <1>3 DEF StepsOfOps, Calls
<1>5. /\ \A q \in Payments : IsAt(k, q) <=> k.op # "withdraw" /\ q = p
      /\ EntryOf(k.op) \in EntryTypes /\ EntryOf("settle") = "deposit_pending_credit"
  BY <1>3 DEF IsAt, EntryOf, EntryTypes
<1>6. ASSUME NEW j \in Calls, NEW h \in SUBSET Rows, Moves(w, j, h),
             j.op = k.op, j.todo = k.todo, j.current = k.current, j.subject = k.subject,
             \/ k.step = "load" /\ j.step = "store"
             \/ k.step = "store" /\ j.step = IF k.op \in {"settle", "refund"} THEN "sync" ELSE "row"
             \/ k.step = "sync" /\ j.step = "row" /\ <<"booking", p>> \in h,
             \A q \in Payments :
               /\ <<"payment", q>> \in h <=> <<"payment", q>> \in held[w]
               /\ <<"booking", q>> \in h <=>
                    <<"booking", q>> \in held[w] \/ (k.step = "sync" /\ q = p)
               /\ \A type \in EntryTypes : <<type, q>> \in h <=> <<type, q>> \in held[w],
             \A u \in Providers : <<"wallet", u>> \in h =>
                <<"wallet", u>> \in held[w] \/ (k.step = "store" /\ u = v),
             \A entry \in Entries : entry \in h => entry \in held[w]
      PROVE  BInv'
  <2> HIDE DEF k, p, v
  <2>1. /\ j.step \in {"store", "sync", "row"} /\ j.step \in InTransaction /\ j.step \notin MidEntry
        /\ j.step \in Loop /\ (j.step \in MidCredit => k.step = "load")
    BY <1>6 DEF InTransaction, MidEntry, MidCredit, Loop
  <2>2. /\ \A q \in Payments : IsAt(j, q) => k.op # "withdraw" /\ q = p
        /\ \A q \in Payments : (j.step # "row" /\ k.op # "withdraw" /\ q = p) => IsAt(j, q)
        /\ \A q \in Payments : EntryHeld(j, h, q) <=> EntryHeld(k, held[w], q)
    BY <1>5, <1>6, <2>1 DEF IsAt, EntryHeld, p
  <2>3. InScope(j, h)
    <3>1. \A q \in Payments : Touches(j, h, q) => Touches(k, held[w], q)
      BY <1>4, <1>5, <1>6, <2>2 DEF Touches
    <3>2. QED
      BY <1>1, <1>2, <1>6, <3>1, ScopeStep
  <2>4. k.op # "withdraw" /\ k.step # "sync" => EntryHeld(k, held[w], p)
    BY <1>1, <1>3, <1>4, <1>5 DEF Complete
  <2>5. Complete(j, h)
    <3>1. EntryOf(j.op) = EntryOf(k.op)
      BY <1>6
    <3>2. \A q \in Payments :
            (j.op = "settle" /\ CheckoutOf[q] = j.subject /\ q \notin j.todo) =>
               \/ Entered("deposit_pending_credit", q) \/ EntryHeld(j, h, q)
      BY <1>1, <1>3, <1>6, <2>2 DEF Complete
    <3>3. \A q \in Payments : (IsAt(j, q) /\ j.step \in MidCredit) => EntryHeld(j, h, q)
      BY <1>2, <2>1, <2>2, <2>4
    <3>4. \A q \in Payments :
            ((IsAt(j, q) /\ j.step = "sync") \/ <<"booking", q>> \in h) =>
               /\ j.op \in {"settle", "refund"}
               /\ Entered(EntryOf(k.op), q) \/ EntryHeld(j, h, q)
      BY <1>1, <1>4, <1>5, <1>6, <2>2, <2>4 DEF Complete
    <3>5. \A q \in Payments :
            (EntryHeld(j, h, q) /\ j.op \in {"settle", "refund"}) =>
               <<"booking", q>> \in h \/ (IsAt(j, q) /\ j.step \notin MidEntry)
      BY <1>1, <1>5, <1>6, <2>1, <2>2 DEF Complete
    <3>6. \A u \in Providers : <<"wallet", u>> \in h =>
            \/ j.op = "withdraw" /\ RequesterOf[j.subject] = u
            \/ j.op # "withdraw" /\ \E q \in Payments : ProviderOf[q] = u /\ EntryHeld(j, h, q)
      <4>1. k.op = "withdraw" => v = RequesterOf[k.subject]
        BY DEF WalletOf, v, k
      <4>2. k.op # "withdraw" => v = ProviderOf[p]
        BY DEF WalletOf, v, k, p
      <4>3. QED
        BY <1>1, <1>4, <1>6, <2>2, <2>4, <4>1, <4>2 DEF Complete
    <3>7. QED
      BY <3>1, <3>2, <3>3, <3>4, <3>5, <3>6 DEF Complete
  <2>6. QED
    BY <1>2, <1>3, <1>6, <2>1, <2>3, <2>5, StatementStep DEF k
<1>7. CASE ReadWallet(w)
  <2> DEFINE j == [k EXCEPT !.step = "store", !.seen = wallet[v]]
  <2>1. Moves(w, j, held[w]) /\ k.step = "load"
    BY <1>1, <1>7 DEF ReadWallet, Moves
  <2>2. /\ j.op = k.op /\ j.todo = k.todo /\ j.current = k.current
        /\ j.subject = k.subject /\ j.step = "store"
    BY <1>1 DEF Calls
  <2>3. j \in Calls
    BY <1>1, <2>1, CallBInv DEF Moves, Becomes, IInv, TypeOK
  <2> HIDE DEF j, k, v, p
  <2>4. QED
    BY <1>1, <1>6, <2>1, <2>2, <2>3
<1>8. CASE PersistWallet(w)
  <2> DEFINE step == IF k.op \in {"settle", "refund"} THEN "sync" ELSE "row"
             j == [k EXCEPT !.step = step, !.seen = EmptyWallet,
                            !.draft = [@ EXCEPT ![v] = DeltaApplied(k)]]
             h == held[w] \cup {<<"wallet", v>>}
  <2>1. Moves(w, j, h) /\ k.step = "store"
    BY <1>8 DEF PersistWallet, Moves, Hold
  <2>2. /\ j.op = k.op /\ j.todo = k.todo /\ j.current = k.current
        /\ j.subject = k.subject /\ j.step = step
    BY <1>1 DEF Calls
  <2>3. j \in Calls /\ h \in SUBSET Rows
    BY <1>1, <2>1, CallBInv DEF Moves, Becomes, IInv, TypeOK
  <2>4. /\ \A q \in Payments :
             /\ <<"payment", q>> \in h <=> <<"payment", q>> \in held[w]
             /\ <<"booking", q>> \in h <=> <<"booking", q>> \in held[w]
             /\ \A type \in EntryTypes : <<type, q>> \in h <=> <<type, q>> \in held[w]
        /\ \A u \in Providers : <<"wallet", u>> \in h =>
             <<"wallet", u>> \in held[w] \/ u = v
        /\ \A entry \in Entries : entry \in h => entry \in held[w]
    BY DEF EntryTypes, Entries
  <2> HIDE DEF j, k, v, h, p, step
  <2>5. step = IF k.op \in {"settle", "refund"} THEN "sync" ELSE "row"
    BY DEF step
  <2>6. QED
    BY <1>6, <2>1, <2>2, <2>3, <2>4, <2>5
<1>9. CASE SyncBooking(w)
  <2> DEFINE j == [k EXCEPT !.step = "row"]
             h == held[w] \cup {<<"booking", p>>}
  <2>1. Moves(w, j, h) /\ k.step = "sync"
    BY <1>9 DEF SyncBooking, Moves, Hold, Goto
  <2>2. /\ j.op = k.op /\ j.todo = k.todo /\ j.current = k.current
        /\ j.subject = k.subject /\ j.step = "row"
    BY <1>1 DEF Calls
  <2>3. j \in Calls /\ h \in SUBSET Rows
    BY <1>1, <2>1, CallBInv DEF Moves, Becomes, IInv, TypeOK
  <2>4. /\ \A q \in Payments :
             /\ <<"payment", q>> \in h <=> <<"payment", q>> \in held[w]
             /\ <<"booking", q>> \in h <=> <<"booking", q>> \in held[w] \/ q = p
             /\ \A type \in EntryTypes : <<type, q>> \in h <=> <<type, q>> \in held[w]
        /\ \A u \in Providers : <<"wallet", u>> \in h => <<"wallet", u>> \in held[w]
        /\ \A entry \in Entries : entry \in h => entry \in held[w]
        /\ <<"booking", p>> \in h
    BY DEF EntryTypes, Entries
  <2> HIDE DEF j, k, v, h, p
  <2>5. QED
    BY <1>6, <2>1, <2>2, <2>3, <2>4
<1>10. QED
  BY <1>7, <1>8, <1>9

-----------------------------------------------------------------------------
(* Commits and faults *)

\* What a transaction that commits has written: no payment is under way, and the
\* entries are of its own kind and within its checkout.
LEMMA CommitWrites ==
  ASSUME BInv, NEW w \in Workers, Commit(w), NEW p \in Payments
  PROVE  /\ \A type \in EntryTypes :
              Entered(type, p)' <=> Entered(type, p) \/ <<type, p>> \in held[w]
         /\ \A type \in EntryTypes : <<type, p>> \in held[w] =>
              /\ type = EntryOf(call[w].op) /\ CheckoutOf[p] = call[w].subject
              /\ call[w].op \in {"settle", "refund", "release"}
              /\ \/ <<"payment", p>> \in held[w]
                 \/ call[w].op = "settle" /\ deposit[p] # "pending"
         /\ <<"payment", p>> \in held[w] =>
              /\ CheckoutOf[p] = call[w].subject
              /\ call[w].op \in {"settle", "refund", "release"}
              /\ \/ Entered(EntryOf(call[w].op), p)
                 \/ <<EntryOf(call[w].op), p>> \in held[w]
              /\ call[w].op = "refund" => deposit[p] # "pending"
         /\ ~IsAt(call[w], p) /\ call[w].step = "row" /\ call[w].todo = {}
<1>1. call[w].step = "row" /\ call[w].todo = {} /\ ledger' = ledger \cup (held[w] \cap Entries)
  BY DEF Commit
<1>2. \A type \in EntryTypes : <<type, p>> \in Entries
  BY DEF Entries
<1>3. /\ InScope(call[w], held[w]) /\ RowsWithEntries(call[w], held[w])
      /\ ReadsStillHold(call[w], held[w])
  BY CallBInv
<1>4. "row" \notin MidEntry
  BY DEF MidEntry
<1> DEFINE k == call[w]
           h == held[w]
<1> HIDE DEF k, h
<1>5. InScope(k, h) /\ RowsWithEntries(k, h) /\ ReadsStillHold(k, h) /\ k.step = "row"
  BY <1>1, <1>3 DEF k, h
<1>6. /\ \A type \in EntryTypes : <<type, p>> \in h =>
           /\ type = EntryOf(k.op) /\ CheckoutOf[p] = k.subject
           /\ k.op \in {"settle", "refund", "release"}
           /\ <<"payment", p>> \in h \/ (k.op = "settle" /\ deposit[p] # "pending")
      /\ <<"payment", p>> \in h =>
           /\ CheckoutOf[p] = k.subject
           /\ k.op \in {"settle", "refund", "release"}
           /\ Entered(EntryOf(k.op), p) \/ <<EntryOf(k.op), p>> \in h
           /\ k.op = "refund" => deposit[p] # "pending"
      /\ ~IsAt(k, p)
  BY <1>4, <1>5 DEF InScope, Touches, RowsWithEntries, ReadsStillHold, IsAt
<1>7. \A type \in EntryTypes : Entered(type, p)' <=> Entered(type, p) \/ <<type, p>> \in held[w]
  BY <1>1, <1>2 DEF Entered
<1>8. QED
  BY <1>1, <1>6, <1>7 DEF k, h

\* A commit enters what the settled, refunded or paid-out rows stand for, shows
\* it on the bookings, and is backed by what Paystack did.
LEMMA CommitBInv ==
  ASSUME BInv, IInv', NEW w \in Workers, Commit(w)
  PROVE  BInv'
<1> DEFINE k == call[w]
           h == held[w]
<1>1. /\ InScope(k, h) /\ Complete(k, h) /\ Backed(k) /\ StepsOfOps(k, h)
      /\ k \in Calls /\ IInv
  BY CallBInv
<1>2. /\ call'[w] = Idle /\ held'[w] = {}
      /\ \A u \in Workers \ {w} : call'[u] = call[u] /\ held'[u] = held[u]
      /\ ledger' = ledger \cup (h \cap Entries)
      /\ k.step = "row" /\ k.todo = {}
      /\ UNCHANGED <<emitted, reversed, transferred, stored, queued, raced, faults>>
  BY DEF Commit, Return, Becomes, BInv, IInv, TypeOK, paystack, webhooks
<1>3. /\ k.op = "withdraw" =>
           /\ request' = [request EXCEPT ![k.subject] = "initiated"]
           /\ debited' = debited \cup {k.subject} /\ k.subject \in Withdrawals
      /\ k.op # "withdraw" => UNCHANGED <<request, debited>>
  BY <1>1, <1>2 DEF Commit, StepsOfOps
<1>4. /\ request \in [Withdrawals -> {"none", "requested", "initiated"}]
      /\ debited \subseteq Withdrawals
  BY DEF BInv, IInv, TypeOK, TablesTypeOK
<1>5. Idle.op = "settle" /\ Idle.step = "idle"
  BY DEF Idle
<1>6. /\ EntryOf("settle") = "deposit_pending_credit" /\ EntryOf("refund") = "refund_debit"
      /\ EntryOf("release") = "payout_release_credit"
      /\ EntryTypes = {"deposit_pending_credit", "refund_debit", "payout_release_credit"}
  BY DEF EntryOf, EntryTypes
<1>7. ASSUME NEW p \in Payments
      PROVE  /\ \A type \in EntryTypes : Entered(type, p)' <=> Entered(type, p) \/ <<type, p>> \in h
             /\ \A type \in EntryTypes : <<type, p>> \in h =>
                  /\ type = EntryOf(k.op) /\ CheckoutOf[p] = k.subject
                  /\ k.op \in {"settle", "refund", "release"}
                  /\ <<"payment", p>> \in h \/ (k.op = "settle" /\ deposit[p] # "pending")
             /\ <<"payment", p>> \in h =>
                  /\ CheckoutOf[p] = k.subject
                  /\ k.op \in {"settle", "refund", "release"}
                  /\ Entered(EntryOf(k.op), p) \/ <<EntryOf(k.op), p>> \in h
                  /\ k.op = "refund" => deposit[p] # "pending"
             /\ ~IsAt(k, p)
  BY CommitWrites
<1>8. \A p \in Payments :
        /\ deposit[p] # "pending" <=> Entered("deposit_pending_credit", p)
        /\ Entered("refund_debit", p) => Entered("deposit_pending_credit", p)
  BY DEF BInv, IInv, LedgerMatchesStatus
<1> HIDE DEF k, h
<1>9. CallsComplete'
  <2>1. InScope(call[w], held[w])' /\ Complete(call[w], held[w])' /\ Backed(call[w])'
    BY <1>2, <1>5, RowsAssumption
       DEF InScope, Complete, Backed, Touches, IsAt, EntryHeld, Idle, Loop, MidEntry
  <2>2. ASSUME NEW u \in Workers \ {w}
        PROVE  InScope(call[u], held[u])' /\ Complete(call[u], held[u])' /\ Backed(call[u])'
    <3>1. InScope(call[u], held[u]) /\ Complete(call[u], held[u]) /\ Backed(call[u])
          /\ StepsOfOps(call[u], held[u])
      BY CallBInv
    <3>2. call'[u] = call[u] /\ held'[u] = held[u] /\ ledger \subseteq ledger'
      BY <1>2
    <3>3. InScope(call[u], held[u])'
      BY <3>1, <3>2 DEF InScope, Touches, IsAt
    <3>4. Complete(call[u], held[u])'
      BY <3>1, <3>2 DEF Complete, IsAt, EntryHeld, Entered
    <3>5. Backed(call[u])'
      <4>1. (call[u].op = "withdraw" /\ call[u].step # "idle") =>
              /\ call[u].subject \in Withdrawals
              /\ k.op = "withdraw" => call[u].subject # k.subject
        BY <1>2, <3>1 DEF StepsOfOps, BInv, Alone, k
      <4>2. QED
        BY <1>2, <1>3, <1>4, <3>1, <3>2, <4>1 DEF Backed, Charged
    <3>6. QED
      BY <3>3, <3>4, <3>5
  <2>3. QED
    BY <2>1, <2>2 DEF CallsComplete
<1>10. Alone'
  <2>1. ASSUME NEW u \in Workers, NEW entry \in Entries, entry \in held'[u]
        PROVE  entry \notin ledger' /\ \A v \in Workers \ {u} : entry \notin held'[v]
    BY <1>2, <2>1 DEF BInv, Alone, h
  <2>2. ASSUME NEW u \in Workers, NEW v \in Workers, u # v,
               call'[u].op = "withdraw" /\ call'[v].op = "withdraw",
               call'[u].step # "idle" /\ call'[v].step # "idle"
        PROVE  call'[u].subject # call'[v].subject
    BY <1>2, <1>5, <2>2 DEF BInv, Alone
  <2>3. \A x \in debited' : request'[x] # "none"
    BY <1>3, <1>4 DEF BInv, Alone
  <2>4. QED
    BY <2>1, <2>2, <2>3 DEF Alone
<1>11. GatewayBooked'
  <2>1. ASSUME NEW p \in Payments
        PROVE  /\ Entered("deposit_pending_credit", p)' => Charged(CheckoutOf[p])
               /\ Entered("refund_debit", p)' => CheckoutOf[p] \in reversed
    <3>1. /\ Entered("deposit_pending_credit", p) => Charged(CheckoutOf[p])
          /\ Entered("refund_debit", p) => CheckoutOf[p] \in reversed
      BY DEF BInv, GatewayBooked
    <3>2. /\ k.op = "settle" => Charged(k.subject)
          /\ k.op = "refund" => k.subject \in reversed
      BY <1>1, <1>2 DEF Backed
    <3>3. QED
      BY <1>6, <1>7, <3>1, <3>2
  <2>2. debited' \subseteq transferred' /\ queued' \subseteq emitted'
    BY <1>1, <1>2, <1>3 DEF BInv, GatewayBooked, Backed
  <2>3. ASSUME NEW c \in reversed, faults = 0
        PROVE  (\E p \in PaymentsOf(c) : Entered("refund_debit", p)') \/ Carries("refund", c)'
    <3>1. CASE \E p \in PaymentsOf(c) : Entered("refund_debit", p)
      BY <1>2, <3>1 DEF Entered
    <3>2. CASE Carries("refund", c)
      <4>1. PICK u \in Workers : /\ call[u].op = "refund" /\ call[u].subject = c
                                 /\ call[u].step \notin {"idle", "refund", "transfer"}
        BY <3>2 DEF Carries
      <4>2. CASE u # w
        BY <1>2, <4>1, <4>2 DEF Carries
      <4>3. CASE u = w
        <5>1. k.op = "refund" /\ k.subject = c
          BY <4>1, <4>3 DEF k
        <5>2. PICK p \in Payments : CheckoutOf[p] = c /\ <<"payment", p>> \in h
          BY <1>1, <1>2, <5>1 DEF InScope
        <5>3. Entered("refund_debit", p)'
          BY <1>6, <1>7, <5>1, <5>2
        <5>4. QED
          BY <5>2, <5>3 DEF PaymentsOf
      <4>4. QED
        BY <4>2, <4>3
    <3>3. QED
      BY <2>3, <3>1, <3>2 DEF BInv, GatewayBooked
  <2>4. ASSUME NEW x \in transferred, faults = 0
        PROVE  x \in debited' \/ Carries("withdraw", x)'
    <3>1. x \in debited \/ Carries("withdraw", x)
      BY <2>4 DEF BInv, GatewayBooked
    <3>2. ASSUME Carries("withdraw", x)
          PROVE  x \in debited' \/ Carries("withdraw", x)'
      BY <1>2, <1>3, <3>2 DEF Carries, k
    <3>3. QED
      BY <1>3, <3>1, <3>2
  <2>5. QED
    BY <1>2, <2>1, <2>2, <2>3, <2>4 DEF GatewayBooked, PaymentsOf, Charged
<1>12. BookingFollowsLedger'
  <2>1. ASSUME NEW p \in Payments
        PROVE  /\ booking'[p] = "unpaid" <=> ~Entered("deposit_pending_credit", p)'
               /\ booking'[p] = "refunded" => Entered("refund_debit", p)'
    <3>1. /\ booking[p] = "unpaid" <=> ~Entered("deposit_pending_credit", p)
          /\ booking[p] = "refunded" => Entered("refund_debit", p)
      BY DEF BInv, BookingFollowsLedger
    <3>2. booking'[p] = IF <<"booking", p>> \in h THEN CommittedBooking(k.op, p) ELSE booking[p]
      BY DEF Commit, k, h
    <3>3. /\ <<"booking", p>> \in h =>
               /\ k.op \in {"settle", "refund"}
               /\ Entered(EntryOf(k.op), p) \/ <<EntryOf(k.op), p>> \in h
          /\ (<<EntryOf(k.op), p>> \in h /\ k.op \in {"settle", "refund"}) =>
               <<"booking", p>> \in h
      BY <1>1, <1>7 DEF Complete, EntryHeld
    <3>4. /\ CommittedBooking("refund", p) = "refunded"
          /\ CommittedBooking("settle", p) \in {"partial", "paid"}
      BY DEF CommittedBooking
    <3>5. CASE <<"booking", p>> \in h
      <4>1. CASE k.op = "settle"
        BY <1>6, <1>7, <3>2, <3>3, <3>4, <3>5, <4>1
      <4>2. CASE k.op = "refund"
        BY <1>6, <1>7, <1>8, <3>2, <3>3, <3>4, <3>5, <4>2
      <4>3. QED
        BY <3>3, <3>5, <4>1, <4>2
    <3>6. CASE <<"booking", p>> \notin h
      BY <1>6, <1>7, <3>1, <3>2, <3>3, <3>6
    <3>7. QED
      BY <3>5, <3>6
  <2>2. QED
    BY <2>1 DEF BookingFollowsLedger
<1>13. QED
  BY <1>9, <1>10, <1>11, <1>12 DEF BInv

\* A call that throws and a restart leave Paystack ahead of the books, which a
\* fault excuses.
LEMMA FaultsBInv ==
  ASSUME BInv, IInv', Restart \/ \E w \in Workers : Fail(w)
  PROVE  BInv'
<1>1. faults \in Nat /\ queued \subseteq emitted
  BY DEF BInv, IInv, TypeOK, TablesTypeOK, GatewayBooked
<1>2. CASE Restart
  <2>1. /\ \A w \in Workers : call'[w] = Idle /\ held'[w] = {}
        /\ UNCHANGED <<tables, paystack>> /\ queued' = {} /\ faults' # 0
    BY <1>1, <1>2 DEF Restart
  <2>2. Idle.op = "settle" /\ Idle.step = "idle"
    BY DEF Idle
  <2>3. CallsComplete'
    <3>1. ASSUME NEW w \in Workers
          PROVE  InScope(call[w], held[w])' /\ Complete(call[w], held[w])' /\ Backed(call[w])'
      <4>1. call'[w] = Idle /\ held'[w] = {} /\ Idle.todo = {} /\ Idle.step \notin Loop
        BY <2>1 DEF Idle, Loop, MidEntry
      <4>2. InScope(call[w], held[w])'
        BY <2>2, <4>1 DEF InScope, Touches, IsAt
      <4>3. Complete(call[w], held[w])'
        BY <2>2, <4>1 DEF Complete, IsAt, EntryHeld
      <4>4. Backed(call[w])'
        BY <2>2, <4>1 DEF Backed
      <4>5. QED
        BY <4>2, <4>3, <4>4
    <3>2. QED
      BY <3>1 DEF CallsComplete
  <2>4. Alone'
    BY <2>1, <2>2 DEF BInv, Alone, tables
  <2>5. GatewayBooked'
    BY <2>1 DEF BInv, GatewayBooked, Entered, Charged, tables, paystack
  <2>6. BookingFollowsLedger'
    BY <2>1 DEF BInv, BookingFollowsLedger, Entered, tables
  <2>7. QED
    BY <2>3, <2>4, <2>5, <2>6 DEF BInv
<1>3. ASSUME NEW w \in Workers, Fail(w)
      PROVE  BInv'
  <2>1. /\ UNCHANGED <<booking, ledger, debited, emitted, reversed, transferred, request>>
        /\ queued' \subseteq emitted /\ faults' # 0
        /\ Return(w) /\ held' = [held EXCEPT ![w] = {}]
    BY <1>1, <1>3 DEF Fail, tables, paystack, webhooks
  <2>2. QED
    BY <2>1, ReturnBStep
<1>4. QED
  BY <1>2, <1>3

-----------------------------------------------------------------------------
(* The invariant holds *)

\* Before any charge the books are empty.
LEMMA InitBInv == Init => BInv
<1> SUFFICES ASSUME Init PROVE BInv
  OBVIOUS
<1>1. IInv
  BY InitIInv
<1>2. CallsComplete
  BY IdleComplete DEF Init, CallsComplete
<1>3. Alone
  BY DEF Init, Alone, Idle
<1>4. GatewayBooked /\ BookingFollowsLedger
  BY DEF Init, GatewayBooked, BookingFollowsLedger, Entered
<1>5. QED
  BY <1>1, <1>2, <1>3, <1>4 DEF BInv

\* Every action keeps it.
LEMMA NextBInv == BInv /\ [Next]_vars => BInv'
<1> SUFFICES ASSUME BInv, [Next]_vars PROVE BInv'
  OBVIOUS
<1>1. IInv'
  BY NextIInv DEF BInv
<1>2. queued \subseteq emitted
  BY DEF BInv, GatewayBooked
<1>3. ASSUME NEW c \in Checkouts, Charge(c) \/ Decline(c)
      PROVE  BInv'
  BY <1>1, <1>2, <1>3, OutsideBStep DEF Charge, Decline, webhooks
<1>4. ASSUME NEW e \in Events, HandleWebhook(e) \/ Process(e)
      PROVE  BInv'
  BY <1>1, <1>4, EventsBInv
<1>5. ASSUME NEW w \in Workers, Request(w)
      PROVE  BInv'
  BY <1>1, <1>5, StartsBInv
<1>6. ASSUME NEW w \in Workers, Continue(w)
      PROVE  BInv'
  BY <1>1, <1>6, BeforeTransactionBInv, CheckoutStepsBInv, UpdatePaymentBInv,
     EntryStepsBInv, WalletStepsBInv, CommitBInv DEF Continue
<1>7. ASSUME Restart \/ \E w \in Workers : Fail(w)
      PROVE  BInv'
  BY <1>1, <1>7, FaultsBInv
<1>8. CASE UNCHANGED vars
  BY <1>1, <1>2, <1>8, OutsideBStep DEF vars, paystack, webhooks
<1>9. QED
  BY <1>3, <1>4, <1>5, <1>6, <1>7, <1>8 DEF Next

\* The inductive invariant behind the books holds of every behaviour.
THEOREM BInvHolds == Spec => []BInv
<1>1. QED
  BY InitBInv, NextBInv, PTL DEF Spec

\* What a booking shows was entered in the ledger, whichever call wrote it last.
THEOREM BookingFollowsLedgerCorrect == Spec => []BookingFollowsLedger
<1>1. BInv => BookingFollowsLedger
  BY DEF BInv
<1>2. QED
  BY <1>1, BInvHolds, PTL

\* The books never run ahead of Paystack, and Paystack runs ahead of them only
\* while a call is under way, or after a fault.
THEOREM BooksFollowPaystackCorrect == Spec => []BooksFollowPaystack
<1>1. BInv => BooksFollowPaystack
  BY DEF BInv, GatewayBooked, BooksFollowPaystack, InFlight, Carries
<1>2. QED
  BY <1>1, BInvHolds, PTL

-----------------------------------------------------------------------------
(* What a step may never do *)

\* Only a commit changes a wallet or what the ledger book is about.
LEMMA OnlyCommits ==
  ASSUME [Next]_vars, \A w \in Workers : ~Commit(w)
  PROVE  UNCHANGED <<deposit, payout, ledger, wallet>>
<1>1. ASSUME NEW w \in Workers, Request(w)
      PROVE  UNCHANGED <<deposit, payout, ledger, wallet>>
  BY <1>1 DEF Request, VerifyPayment, ProcessRefund, ReleaseProviderPayout,
              WithdrawFunds, tables
<1>2. ASSUME NEW w \in Workers, Continue(w)
      PROVE  UNCHANGED <<deposit, payout, ledger, wallet>>
  BY <1>2 DEF Continue, MarkCheckoutFailed, VerifyTransaction, ReadCheckout,
              RefundAtGateway, CreateTransfer, UpdateCheckout, ListPayments,
              UpdatePayment, FindEntry, InsertEntry, ReadWallet, PersistWallet,
              SyncBooking, tables
<1>3. ASSUME Restart \/ \E w \in Workers : Fail(w)
      PROVE  UNCHANGED <<deposit, payout, ledger, wallet>>
  BY <1>3 DEF Restart, Fail, tables
<1>4. ASSUME NEW e \in Events, HandleWebhook(e) \/ Process(e)
      PROVE  UNCHANGED <<deposit, payout, ledger, wallet>>
  BY <1>4 DEF HandleWebhook, Process, ProcessSuccess, ProcessFailed, tables
<1>5. ASSUME NEW c \in Checkouts, Charge(c) \/ Decline(c)
      PROVE  UNCHANGED <<deposit, payout, ledger, wallet>>
  BY <1>5 DEF Charge, Decline, tables
<1>6. QED
  BY <1>1, <1>2, <1>3, <1>4, <1>5 DEF Next, vars, tables

\* A commit that writes a wallet enters a key that nobody else can have entered,
\* or the debit of a withdrawal that no other call carries out.
LEMMA CommitMovesWallet ==
  ASSUME BInv, NEW w \in Workers, Commit(w), NEW v \in Providers, wallet'[v] # wallet[v]
  PROVE  \/ \E type \in EntryTypes : EntriesOf(v, type)' # EntriesOf(v, type)
         \/ \E x \in debited' \ debited : RequesterOf[x] = v
<1> DEFINE k == call[w]
           h == held[w]
<1>1. /\ Complete(k, h) /\ Backed(k) /\ k.step = "row"
      /\ k.op = "withdraw" => debited' = debited \cup {k.subject}
  BY CallBInv DEF Commit
<1>2. <<"wallet", v>> \in h
  BY DEF Commit, BInv, IInv, TypeOK, TablesTypeOK
<1>3. CASE k.op = "withdraw"
  BY <1>1, <1>2, <1>3 DEF Complete, Backed
<1>4. CASE k.op # "withdraw"
  <2>1. PICK p \in Payments : ProviderOf[p] = v /\ <<EntryOf(k.op), p>> \in h
    BY <1>1, <1>2, <1>4 DEF Complete, EntryHeld
  <2>2. EntryOf(k.op) \in EntryTypes
    BY DEF EntryOf, EntryTypes
  <2>3. <<EntryOf(k.op), p>> \in Entries
    BY <2>2 DEF Entries
  <2>4. ~Entered(EntryOf(k.op), p)
    BY <2>1, <2>3 DEF BInv, Alone, Entered
  <2> DEFINE type == EntryOf(k.op)
  <2>5. <<type, p>> \in ledger'
    BY <2>1, <2>3 DEF Commit
  <2> HIDE DEF k, type
  <2>6. /\ p \notin EntriesOf(v, type)
        /\ p \in {q \in Payments : ProviderOf[q] = v /\ <<type, q>> \in ledger'}
    BY <2>1, <2>4, <2>5 DEF EntriesOf, Entered, type
  <2>7. type \in EntryTypes
    BY <2>2 DEF type
  <2>8. \E t \in EntryTypes : EntriesOf(v, t)' # EntriesOf(v, t)
    BY <2>6, <2>7 DEF EntriesOf, Entered
  <2>9. QED
    BY <2>8
<1>5. QED
  BY <1>3, <1>4

\* A wallet changes only in a step that enters the row that explains it, so no
\* entry is ever credited twice.
THEOREM WalletMovesCorrect == Spec => WalletMovesWithLedger
<1> DEFINE Moved ==
      \A v \in Providers : wallet'[v] # wallet[v] =>
        \/ \E type \in EntryTypes : EntriesOf(v, type)' # EntriesOf(v, type)
        \/ \E x \in debited' \ debited : RequesterOf[x] = v
<1>1. BInv /\ [Next]_vars => [Moved]_vars
  <2> SUFFICES ASSUME BInv, [Next]_vars PROVE Moved
    OBVIOUS
  <2>1. CASE \E w \in Workers : Commit(w)
    BY <2>1, CommitMovesWallet
  <2>2. CASE \A w \in Workers : ~Commit(w)
    BY <2>2, OnlyCommits
  <2>3. QED
    BY <2>1, <2>2
<1>2. QED
  BY <1>1, BInvHolds, PTL DEF Spec, WalletMovesWithLedger

-----------------------------------------------------------------------------
(* Settlement implements the ledger book *)

\* Every commit is a step of the book: a settlement settles a whole checkout, a
\* refund refunds what was entered, a release happens once.
LEMMA CommitIsBookStep ==
  ASSUME BInv, NEW w \in Workers, Commit(w)
  PROVE  Book!Next \/ UNCHANGED Book!vars
<1> DEFINE k == call[w]
           h == held[w]
           S == {p \in Payments : <<"payment", p>> \in h}
<1>1. /\ InScope(k, h) /\ Complete(k, h) /\ StepsOfOps(k, h) /\ k \in Calls
      /\ k.step = "row" /\ k.todo = {} /\ ledger' = ledger \cup (h \cap Entries)
      /\ deposit' = [p \in Payments |->
                       IF p \in S /\ k.op # "release"
                         THEN IF k.op = "refund" THEN "refunded" ELSE "paid"
                         ELSE deposit[p]]
      /\ payout' = [p \in Payments |->
                      IF p \in S /\ k.op = "release" THEN "released" ELSE payout[p]]
  BY CallBInv DEF Commit
<1>2. /\ deposit \in [Payments -> {"pending", "paid", "refunded"}]
      /\ payout \in [Payments -> {"pending", "released"}] /\ ledger \subseteq Entries
      /\ \A p \in Payments :
           /\ deposit[p] # "pending" <=> Entered("deposit_pending_credit", p)
           /\ payout[p] = "released" <=> Entered("payout_release_credit", p)
  BY DEF BInv, IInv, TypeOK, TablesTypeOK, LedgerMatchesStatus
<1>3. ASSUME NEW p \in Payments
      PROVE  /\ \A type \in EntryTypes : <<type, p>> \in h =>
                  /\ type = EntryOf(k.op) /\ CheckoutOf[p] = k.subject
                  /\ k.op \in {"settle", "refund", "release"}
                  /\ p \in S \/ (k.op = "settle" /\ deposit[p] # "pending")
             /\ p \in S =>
                  /\ CheckoutOf[p] = k.subject
                  /\ k.op \in {"settle", "refund", "release"}
                  /\ Entered(EntryOf(k.op), p) \/ <<EntryOf(k.op), p>> \in h
                  /\ k.op = "refund" => deposit[p] # "pending"
             /\ ~IsAt(k, p)
  BY CommitWrites
<1>4. /\ EntryOf("settle") = "deposit_pending_credit" /\ EntryOf("refund") = "refund_debit"
      /\ EntryOf("release") = "payout_release_credit"
      /\ EntryTypes = {"deposit_pending_credit", "refund_debit", "payout_release_credit"}
  BY DEF EntryOf, EntryTypes
<1>5. \A T : (/\ T \subseteq Payments
              /\ \A p \in T : Entered(EntryOf(k.op), p) \/ <<EntryOf(k.op), p>> \in h
              /\ \A p \in Payments : <<EntryOf(k.op), p>> \in h => p \in T \/ Entered(EntryOf(k.op), p))
             => ledger' = ledger \cup ({EntryOf(k.op)} \X T)
  <2> SUFFICES ASSUME NEW T, T \subseteq Payments,
                      \A p \in T : Entered(EntryOf(k.op), p) \/ <<EntryOf(k.op), p>> \in h,
                      \A p \in Payments : <<EntryOf(k.op), p>> \in h =>
                         p \in T \/ Entered(EntryOf(k.op), p)
               PROVE  ledger' = ledger \cup ({EntryOf(k.op)} \X T)
    OBVIOUS
  <2>1. \A entry \in h \cap Entries : entry \in ledger \cup ({EntryOf(k.op)} \X T)
    <3>1. ASSUME NEW type \in EntryTypes, NEW p \in Payments, <<type, p>> \in h
          PROVE  type = EntryOf(k.op) /\ (p \in T \/ <<type, p>> \in ledger)
      BY <1>3, <3>1 DEF Entered
    <3> HIDE DEF k, h
    <3>2. QED
      BY <3>1 DEF Entries
  <2>2. \A p \in T : <<EntryOf(k.op), p>> \in Entries
    BY DEF Entries, EntryOf, EntryTypes
  <2>3. \A entry \in {EntryOf(k.op)} \X T : entry \in ledger \cup (h \cap Entries)
    BY <2>2 DEF Entered
  <2>4. QED
    BY <1>1, <2>1, <2>3
<1>6. CASE k.op = "settle"
  <2>1. k.subject \in Checkouts /\ S \subseteq PaymentsOf(k.subject)
    BY <1>1, <1>3, <1>6 DEF StepsOfOps, PaymentsOf
  <2>2. \A p \in PaymentsOf(k.subject) :
          Entered("deposit_pending_credit", p) \/ <<"deposit_pending_credit", p>> \in h
    <3>1. "row" \in Loop
      BY DEF Loop
    <3>2. QED
      BY <1>1, <1>3, <1>4, <1>6, <3>1 DEF Complete, PaymentsOf, EntryHeld
  <2>3. ledger' = ledger \cup ({"deposit_pending_credit"} \X PaymentsOf(k.subject))
    <3> DEFINE T == PaymentsOf(k.subject)
    <3>1. T \subseteq Payments
      BY DEF PaymentsOf
    <3>2. \A p \in T : Entered(EntryOf(k.op), p) \/ <<EntryOf(k.op), p>> \in h
      BY <1>4, <1>6, <2>2
    <3>3. \A p \in Payments : <<EntryOf(k.op), p>> \in h => p \in T
      BY <1>3, <1>4, <1>6 DEF PaymentsOf
    <3> HIDE DEF T
    <3>4. ledger' = ledger \cup ({EntryOf(k.op)} \X T)
      BY <1>5, <3>1, <3>2, <3>3
    <3>5. QED
      BY <1>4, <1>6, <3>4 DEF T
  <2>4. \A p \in PaymentsOf(k.subject) \ S : Entered("deposit_pending_credit", p)
    BY <1>2, <1>3, <1>4, <1>6, <2>2 DEF PaymentsOf
  <2>5. /\ deposit' = [p \in Payments |-> IF p \in S THEN "paid" ELSE deposit[p]]
        /\ payout' = payout
    BY <1>1, <1>2, <1>6
  <2> HIDE DEF k, h, S
  <2>6. Book!Settle(k.subject, S)
    BY <2>3, <2>4, <2>5
       DEF Book!Settle, Book!PaymentsOf, Book!Entered, Book!Becomes, Book!Enter,
           PaymentsOf, Entered
  <2>7. QED
    BY <2>1, <2>6 DEF Book!Next, Book!PaymentsOf, PaymentsOf
<1>7. CASE k.op = "refund"
  <2>1. k.subject \in Checkouts /\ S \subseteq PaymentsOf(k.subject)
    BY <1>1, <1>3, <1>7 DEF StepsOfOps, PaymentsOf
  <2>2. ledger' = ledger \cup ({"refund_debit"} \X S)
    BY <1>3, <1>4, <1>5, <1>7
  <2>3. \A p \in S : Entered("deposit_pending_credit", p)
    BY <1>2, <1>3, <1>7
  <2>4. /\ deposit' = [p \in Payments |-> IF p \in S THEN "refunded" ELSE deposit[p]]
        /\ payout' = payout
    BY <1>1, <1>2, <1>7
  <2> HIDE DEF k, h, S
  <2>5. Book!Refund(S)
    BY <2>2, <2>3, <2>4
       DEF Book!Refund, Book!Entered, Book!Becomes, Book!Enter, Entered
  <2>6. QED
    BY <2>1, <2>5 DEF Book!Next, Book!PaymentsOf, PaymentsOf
<1>8. CASE k.op = "release"
  <2>1. deposit' = deposit
    BY <1>1, <1>2, <1>8
  <2>2. CASE \E p \in S : payout[p] = "pending"
    <3>1. PICK p \in S : payout[p] = "pending"
      BY <2>2
    <3>2. \A q \in S : q = p
      BY <1>1, <1>8 DEF InScope, Touches
    <3>3. payout' = [payout EXCEPT ![p] = "released"]
      BY <1>1, <1>2, <1>8, <3>1, <3>2
    <3>4. ledger' = ledger \cup ({"payout_release_credit"} \X {p})
      BY <1>3, <1>4, <1>5, <1>8, <3>1, <3>2
    <3> HIDE DEF k, h, S
    <3>5. Book!Release(p)
      BY <2>1, <3>1, <3>3, <3>4 DEF Book!Release, Book!Enter
    <3>6. QED
      BY <3>5 DEF Book!Next, S
  <2>3. CASE \A p \in S : payout[p] # "pending"
    <3>1. payout' = payout
      BY <1>1, <1>2, <1>8, <2>3
    <3>2. \A p \in Payments : <<EntryOf(k.op), p>> \in h => Entered(EntryOf(k.op), p)
      BY <1>2, <1>3, <1>4, <1>8, <2>3
    <3>3. ledger' = ledger \cup ({EntryOf(k.op)} \X {})
      BY <1>5, <3>2
    <3>4. QED
      BY <2>1, <3>1, <3>3 DEF Book!vars
  <2>4. QED
    BY <2>2, <2>3
<1>9. CASE k.op \notin {"settle", "refund", "release"}
  <2>1. S = {} /\ \A p \in Payments : \A type \in EntryTypes : <<type, p>> \notin h
    BY <1>3, <1>9
  <2>2. h \cap Entries = {}
    BY <2>1 DEF Entries
  <2>3. QED
    BY <1>1, <1>2, <2>1, <2>2 DEF Book!vars
<1>10. QED
  BY <1>6, <1>7, <1>8, <1>9

\* Settlement implements the ledger book: whatever calls race, roll back or are
\* lost, deposits, payouts and the ledger change only in its steps.
THEOREM SettlementImplementsBook == Spec => BookSpec
<1>1. Init => Book!Init
  BY DEF Init, Book!Init
<1>2. BInv /\ [Next]_vars => [Book!Next]_(Book!vars)
  <2> SUFFICES ASSUME BInv, [Next]_vars PROVE Book!Next \/ UNCHANGED Book!vars
    OBVIOUS
  <2>1. CASE \E w \in Workers : Commit(w)
    BY <2>1, CommitIsBookStep
  <2>2. CASE \A w \in Workers : ~Commit(w)
    BY <2>2, OnlyCommits DEF Book!vars
  <2>3. QED
    BY <2>1, <2>2
<1>3. QED
  BY <1>1, <1>2, BInvHolds, PTL DEF Spec, BookSpec, Book!Spec

-----------------------------------------------------------------------------
(* Locks: the rows a call waits for come after all those it holds in one order *)
(* of all rows, so calls never wait in a circle.                              *)

\* The checkout comes first; then provider by provider, in the order of the
\* groups' keys, the payment, its ledger key, the provider's wallet, the bookings.
Rank(row) ==
  CASE row[1] = "checkout" -> 0
    [] row[1] = "payment"  -> 4 * KeyOrder[ProviderOf[row[2]]] + 1
    [] row[1] = "wallet"   -> 4 * KeyOrder[row[2]] + 3
    [] row[1] = "booking"  -> 4 * KeyOrder[ProviderOf[row[2]]] + 4
    [] OTHER               -> 4 * KeyOrder[ProviderOf[row[2]]] + 2

\* At its present step a call asks for rows of this rank at the least.
Ahead(k) ==
  CASE k.step \in {"lock", "list"} \/ k.op = "withdraw" -> 0
    [] k.step \in MidEntry -> Rank(<<EntryOf(k.op), k.current>>)
    [] k.step \in MidCredit -> Rank(<<"wallet", ProviderOf[k.current]>>)
    [] OTHER -> Rank(<<"booking", k.current>>)

\* What a call k holds is behind what it asks for now, and behind the payments
\* its loop has still to visit.
InOrder(k, h) ==
  /\ (k.step = "lock" \/ (k.op = "withdraw" /\ k.step # "row")) => h = {}
  /\ k.step = "list" => \A r \in h : Rank(r) = 0
  /\ (k.op # "withdraw" /\ k.step \in Loop \ {"row"}) =>
       /\ \A r \in h : Rank(r) < Ahead(k)
       /\ \A q \in k.todo : KeyOrder[ProviderOf[k.current]] < KeyOrder[ProviderOf[q]]
  /\ k.step = "row" => \A q \in k.todo : \A r \in h : Rank(r) < Rank(<<"payment", q>>)

LocksInOrder == \A w \in Workers : InOrder(call[w], held[w])

\* The rank of each kind of row.
LEMMA Ranks ==
  /\ \A c \in Checkouts : Rank(<<"checkout", c>>) = 0
  /\ \A v \in Providers : KeyOrder[v] \in Nat /\ Rank(<<"wallet", v>>) = 4 * KeyOrder[v] + 3
  /\ \A p \in Payments :
       /\ ProviderOf[p] \in Providers /\ KeyOrder[ProviderOf[p]] \in Nat
       /\ Rank(<<"payment", p>>) = 4 * KeyOrder[ProviderOf[p]] + 1
       /\ Rank(<<"booking", p>>) = 4 * KeyOrder[ProviderOf[p]] + 4
       /\ \A type \in EntryTypes : Rank(<<type, p>>) = 4 * KeyOrder[ProviderOf[p]] + 2
  /\ \A r \in Rows : Rank(r) \in Nat
<1>1. /\ \A v \in Providers : KeyOrder[v] \in Nat
      /\ \A p \in Payments : ProviderOf[p] \in Providers
  BY RowsAssumption, GroupsAssumption
<1>2. \A c \in Checkouts : Rank(<<"checkout", c>>) = 0
  BY DEF Rank
<1>3. \A v \in Providers : Rank(<<"wallet", v>>) = 4 * KeyOrder[v] + 3
  BY DEF Rank
<1>4. ASSUME NEW p \in Payments
      PROVE  /\ Rank(<<"payment", p>>) = 4 * KeyOrder[ProviderOf[p]] + 1
             /\ Rank(<<"booking", p>>) = 4 * KeyOrder[ProviderOf[p]] + 4
             /\ \A type \in EntryTypes : Rank(<<type, p>>) = 4 * KeyOrder[ProviderOf[p]] + 2
  BY DEF Rank, EntryTypes
<1>5. ASSUME NEW r \in Rows
      PROVE  Rank(r) \in Nat
  <2>1. \/ \E c \in Checkouts : r = <<"checkout", c>>
        \/ \E p \in Payments : r = <<"payment", p>> \/ r = <<"booking", p>>
        \/ \E v \in Providers : r = <<"wallet", v>>
        \/ \E p \in Payments, type \in EntryTypes : r = <<type, p>>
    BY <1>5 DEF Rows, Entries
  <2>2. ASSUME NEW v \in Providers
        PROVE  /\ 4 * KeyOrder[v] + 1 \in Nat /\ 4 * KeyOrder[v] + 2 \in Nat
               /\ 4 * KeyOrder[v] + 3 \in Nat /\ 4 * KeyOrder[v] + 4 \in Nat
    <3>1. KeyOrder[v] \in Nat
      BY <1>1
    <3>2. QED
      BY <3>1
  <2>3. ASSUME NEW p \in Payments
        PROVE  /\ Rank(<<"payment", p>>) \in Nat /\ Rank(<<"booking", p>>) \in Nat
               /\ \A type \in EntryTypes : Rank(<<type, p>>) \in Nat
    <3>1. ProviderOf[p] \in Providers
      BY <1>1
    <3>2. QED
      BY <1>4, <2>2, <3>1
  <2>4. \A v \in Providers : Rank(<<"wallet", v>>) \in Nat
    BY <1>3, <2>2
  <2>5. CASE \E c \in Checkouts : r = <<"checkout", c>>
    <3>1. Rank(r) = 0
      BY <1>2, <2>5
    <3>2. QED
      BY <3>1
  <2>6. CASE \E p \in Payments : r = <<"payment", p>> \/ r = <<"booking", p>>
    BY <2>3, <2>6
  <2>7. CASE \E v \in Providers : r = <<"wallet", v>>
    BY <2>4, <2>7
  <2>8. CASE \E p \in Payments, type \in EntryTypes : r = <<type, p>>
    BY <2>3, <2>8
  <2>9. QED
    BY <2>1, <2>5, <2>6, <2>7, <2>8
<1>6. QED
  BY <1>1, <1>2, <1>3, <1>4, <1>5

\* The payment the loop takes next comes, by its provider's key, before those
\* that are left.
LEMMA NextUpFirst ==
  ASSUME NEW k \in Calls, NEW h, InScope(k, h), NEW p \in NextUp(k.todo)
  PROVE  /\ p \in Payments /\ p \in k.todo
         /\ \A q \in k.todo \ {p} : KeyOrder[ProviderOf[p]] < KeyOrder[ProviderOf[q]]
<1>1. k.todo \in SUBSET Payments /\ p \in k.todo
      /\ \A q \in k.todo : CreatedAt[p] <= CreatedAt[q]
  BY DEF NextUp, Calls
<1>2. \A q \in k.todo : CheckoutOf[q] = k.subject
  BY <1>1 DEF InScope, Touches
<1>3. ASSUME NEW q \in k.todo \ {p}
      PROVE  KeyOrder[ProviderOf[p]] < KeyOrder[ProviderOf[q]]
  <2>1. /\ CreatedAt[p] \in Nat /\ CreatedAt[q] \in Nat /\ CreatedAt[p] # CreatedAt[q]
        /\ CreatedAt[p] <= CreatedAt[q]
        /\ CreatedAt[p] < CreatedAt[q] => KeyOrder[ProviderOf[p]] < KeyOrder[ProviderOf[q]]
    BY <1>1, <1>2, GroupsAssumption
  <2>2. QED
    BY <2>1
<1>4. QED
  BY <1>1, <1>3

LInv == BInv /\ LocksInOrder

\* A step of one call keeps the order if that call keeps it.
LEMMA OrderStep ==
  ASSUME LInv, NEW w \in Workers, NEW k, NEW h, Moves(w, k, h), InOrder(k, h)
  PROVE  LocksInOrder'
<1>1. \A u \in Workers : call'[u] = (IF u = w THEN k ELSE call[u])
                           /\ held'[u] = (IF u = w THEN h ELSE held[u])
  BY DEF Moves, Becomes, LInv, BInv, IInv, TypeOK
<1>2. \A u \in Workers : InOrder(call'[u], held'[u])
  BY <1>1 DEF LInv, LocksInOrder
<1>3. QED
  BY <1>2 DEF LocksInOrder, InOrder, Rank, Ahead

\* A call that holds nothing, at none of the steps of a loop, is in order.
LEMMA NothingHeld ==
  ASSUME NEW k, k.op = "withdraw" \/ k.step \notin Loop \ {"row"}
  PROVE  InOrder(k, {})
  BY DEF InOrder

\* What a request or an event starts, and what a call does before it has written
\* anything.
LEMMA FreshOrder ==
  ASSUME LInv, NEW w \in Workers, NEW k, Becomes(w, k), UNCHANGED held, held[w] = {},
         k.op = "withdraw" \/ k.step \notin Loop \ {"row"}
  PROVE  LocksInOrder'
<1>1. Moves(w, k, {})
  BY CallBInv DEF Moves, LInv
<1>2. QED
  BY <1>1, NothingHeld, OrderStep

LEMMA StartsOrder ==
  ASSUME LInv, NEW w \in Workers, NEW op, NEW step, NEW subject, NEW todo,
         Starts(w, op, step, subject, todo), UNCHANGED held,
         op = "withdraw" \/ step \notin Loop \ {"row"}
  PROVE  LocksInOrder'
<1> DEFINE k == [Idle EXCEPT !.op = op, !.step = step, !.subject = subject, !.todo = todo]
<1>1. call[w].step = "idle" /\ Becomes(w, k)
  BY DEF Starts
<1>2. held[w] = {}
  BY <1>1, CallBInv DEF LInv, StepsOfOps, InTransaction
<1>3. k.op = op /\ k.step = step
  BY DEF Idle
<1> HIDE DEF k
<1>4. QED
  BY <1>1, <1>2, <1>3, FreshOrder

\* Requests and events start calls that hold nothing.
LEMMA RequestOrder ==
  ASSUME LInv, NEW w \in Workers, Request(w)
  PROVE  LocksInOrder'
<1>1. ASSUME NEW c \in Checkouts, VerifyPayment(w, c)
      PROVE  LocksInOrder'
  <2>1. Starts(w, "settle", "answer", c, {}) /\ UNCHANGED held
    BY <1>1 DEF VerifyPayment
  <2>2. "answer" \notin Loop \ {"row"}
    BY DEF Loop, MidEntry
  <2>3. QED
    BY <2>1, <2>2, StartsOrder
<1>2. ASSUME NEW c \in Checkouts, ProcessRefund(w, c)
      PROVE  LocksInOrder'
  <2>1. PICK todo : Starts(w, "refund", "refund", c, todo) /\ UNCHANGED held
    BY <1>2 DEF ProcessRefund
  <2>2. "refund" \notin Loop \ {"row"}
    BY DEF Loop, MidEntry
  <2>3. QED
    BY <2>1, <2>2, StartsOrder
<1>3. ASSUME NEW p \in Payments, ReleaseProviderPayout(w, p)
      PROVE  LocksInOrder'
  <2>1. Starts(w, "release", "row", CheckoutOf[p], {p}) /\ UNCHANGED held
    BY <1>3 DEF ReleaseProviderPayout
  <2>2. "row" \notin Loop \ {"row"}
    OBVIOUS
  <2>3. QED
    BY <2>1, <2>2, StartsOrder
<1>4. ASSUME NEW x \in Withdrawals, WithdrawFunds(w, x)
      PROVE  LocksInOrder'
  <2>1. Starts(w, "withdraw", "transfer", x, {}) /\ UNCHANGED held
    BY <1>4 DEF WithdrawFunds
  <2>2. QED
    BY <2>1, StartsOrder
<1>5. QED
  BY <1>1, <1>2, <1>3, <1>4 DEF Request

LEMMA EventOrder ==
  ASSUME LInv, NEW e \in Events, Process(e)
  PROVE  LocksInOrder'
<1>1. ASSUME NEW w \in Workers, NEW c \in Checkouts, ProcessSuccess(w, c)
      PROVE  LocksInOrder'
  <2>1. Starts(w, "settle", "begin", c, {}) /\ UNCHANGED held
    BY <1>1 DEF ProcessSuccess
  <2>2. "begin" \notin Loop \ {"row"}
    BY DEF Loop, MidEntry
  <2>3. QED
    BY <2>1, <2>2, StartsOrder
<1>2. ASSUME NEW w \in Workers, NEW c \in Checkouts, ProcessFailed(w, c)
      PROVE  LocksInOrder'
  <2>1. Starts(w, "fail", "fail", c, {}) \/ UNCHANGED call
    BY <1>2 DEF ProcessFailed
  <2>2. UNCHANGED held /\ "fail" \notin Loop \ {"row"}
    BY <1>2 DEF ProcessFailed, Loop, MidEntry
  <2>3. CASE UNCHANGED call
    BY <2>2, <2>3 DEF LInv, LocksInOrder, InOrder, Rank, Ahead
  <2>4. QED
    BY <2>1, <2>2, <2>3, StartsOrder
<1>3. QED
  BY <1>1, <1>2 DEF Process

\* Before its transaction a call holds nothing.
LEMMA BeforeOrder ==
  ASSUME LInv, NEW w \in Workers,
         \/ MarkCheckoutFailed(w) \/ VerifyTransaction(w) \/ ReadCheckout(w)
         \/ RefundAtGateway(w) \/ CreateTransfer(w)
  PROVE  LocksInOrder'
<1> DEFINE k == call[w]
           On(step) == [k EXCEPT !.step = step]
<1>1. k \in Calls /\ StepsOfOps(k, held[w])
  BY CallBInv DEF LInv
<1>2. held[w] = {} /\ UNCHANGED held
  BY <1>1 DEF MarkCheckoutFailed, VerifyTransaction, ReadCheckout, RefundAtGateway,
              CreateTransfer, At, StepsOfOps, InTransaction
<1>3. CASE Return(w)
  <2>1. Idle.step \notin Loop \ {"row"}
    BY DEF Idle, Loop, MidEntry
  <2>2. QED
    BY <1>2, <1>3, <2>1, FreshOrder DEF Return
<1>4. ASSUME NEW step, Goto(w, step), k.op = "withdraw" \/ step \notin Loop \ {"row"}
      PROVE  LocksInOrder'
  <2>1. On(step).op = k.op /\ On(step).step = step
    BY <1>1 DEF Calls
  <2>2. QED
    BY <1>2, <1>4, <2>1, FreshOrder DEF Goto
<1>5. \/ Return(w)
      \/ \E step \in {"begin", "list", "lock"} : Goto(w, step)
      \/ k.op = "withdraw" /\ Goto(w, "load")
  BY DEF MarkCheckoutFailed, VerifyTransaction, ReadCheckout, RefundAtGateway,
         CreateTransfer, At
<1>6. QED
  BY <1>3, <1>4, <1>5 DEF Loop, MidEntry

\* The checkout's row comes first of all; then its payments are listed.
LEMMA CheckoutOrder ==
  ASSUME LInv, NEW w \in Workers, UpdateCheckout(w) \/ ListPayments(w)
  PROVE  LocksInOrder'
<1> DEFINE k == call[w]
<1>1. /\ k \in Calls /\ StepsOfOps(k, held[w]) /\ InOrder(k, held[w])
      /\ held = [held EXCEPT ![w] = held[w]]
  BY CallBInv DEF LInv, LocksInOrder
<1>2. ASSUME NEW j \in Calls, NEW h, Moves(w, j, h), \A r \in h : Rank(r) = 0,
             j.step \in {"list", "row"}, j.op # "withdraw"
      PROVE  LocksInOrder'
  <2>0. j.todo \subseteq Payments
    BY DEF Calls
  <2>1. ASSUME NEW q \in j.todo
        PROVE  0 < Rank(<<"payment", q>>)
    <3>1. KeyOrder[ProviderOf[q]] \in Nat
          /\ Rank(<<"payment", q>>) = 4 * KeyOrder[ProviderOf[q]] + 1
      BY <2>0, Ranks
    <3>2. QED
      BY <3>1
  <2>2. InOrder(j, h)
    <3>1. "list" \notin Loop \ {"row"} /\ "row" \notin Loop \ {"row"}
      BY DEF Loop, MidEntry
    <3>2. CASE j.step = "list"
      BY <1>2, <3>1, <3>2 DEF InOrder
    <3>3. CASE j.step = "row"
      BY <1>2, <2>1, <3>1, <3>3 DEF InOrder
    <3>4. QED
      BY <1>2, <3>2, <3>3
  <2>3. QED
    BY <1>2, <2>2, OrderStep
<1>3. CASE UpdateCheckout(w)
  <2> DEFINE step == IF k.op = "settle" THEN "list" ELSE "row"
             j == [k EXCEPT !.step = step]
             h == held[w] \cup {<<"checkout", k.subject>>}
  <2>1. Moves(w, j, h) /\ k.step = "lock"
    BY <1>3 DEF UpdateCheckout, Moves, Goto, Hold
  <2>2. held[w] = {} /\ k.subject \in Checkouts /\ k.op # "withdraw"
    BY <1>1, <2>1 DEF InOrder, StepsOfOps
  <2>3. \A r \in h : Rank(r) = 0
    BY <2>2, Ranks
  <2>4. j \in Calls /\ j.step = step /\ j.op = k.op
    BY <1>1 DEF Calls, Steps
  <2> HIDE DEF j, h
  <2>5. QED
    BY <1>2, <2>1, <2>2, <2>3, <2>4
<1>4. CASE ListPayments(w)
  <2>1. PICK j : Moves(w, j, held[w]) /\ j.step = "row" /\ j.op = k.op /\ j \in Calls
    <3> DEFINE listed == PaymentsOf(k.subject)
               j == [k EXCEPT !.step = "row", !.todo = listed,
                              !.unpaid = {p \in listed : deposit[p] # "paid"}]
    <3>1. Moves(w, j, held[w])
      BY <1>1, <1>4 DEF ListPayments, Moves
    <3>2. listed \subseteq Payments
      BY DEF PaymentsOf
    <3> HIDE DEF listed
    <3>3. j \in Calls /\ j.step = "row" /\ j.op = k.op
      BY <1>1, <3>2 DEF Calls, Steps
    <3>4. QED
      BY <3>1, <3>3
  <2>2. k.step = "list" /\ k.op = "settle"
    BY <1>1, <1>4 DEF ListPayments, StepsOfOps
  <2>3. \A r \in held[w] : Rank(r) = 0
    BY <1>1, <2>2 DEF InOrder
  <2>4. QED
    BY <1>2, <2>1, <2>2, <2>3
<1>5. QED
  BY <1>3, <1>4

\* The rows a call asks for at the payment it is at.
LEMMA AheadIs ==
  ASSUME NEW j, j.op # "withdraw", j.current \in Payments
  PROVE  LET K == KeyOrder[ProviderOf[j.current]]
         IN /\ j.step \in MidEntry => Ahead(j) = 4 * K + 2
            /\ j.step \in MidCredit => Ahead(j) = 4 * K + 3
            /\ j.step \in {"sync", "row"} => Ahead(j) = 4 * K + 4
<1>1. EntryOf(j.op) \in EntryTypes
  BY DEF EntryOf, EntryTypes
<1>2. QED
  BY <1>1, Ranks DEF Ahead, MidEntry, MidCredit

\* The loop takes the next payment of all that are left.
LEMMA UpdatePaymentOrder ==
  ASSUME LInv, NEW w \in Workers, UpdatePayment(w)
  PROVE  LocksInOrder'
<1> DEFINE k == call[w]
<1>1. /\ k \in Calls /\ StepsOfOps(k, held[w]) /\ InOrder(k, held[w]) /\ InScope(k, held[w])
      /\ held[w] \in SUBSET Rows /\ held = [held EXCEPT ![w] = held[w]] /\ k.step = "row"
  BY CallBInv DEF LInv, LocksInOrder, UpdatePayment
<1>2. PICK p \in NextUp(k.todo) :
        /\ Becomes(w, [k EXCEPT !.step = "find", !.current = p, !.todo = @ \ {p}])
        /\ UNCHANGED held \/ Hold(w, <<"payment", p>>)
  BY DEF UpdatePayment
<1> DEFINE K == KeyOrder[ProviderOf[p]]
<1>3. PICK j, h : /\ Moves(w, j, h)
                  /\ j.step = "find" /\ j.op = k.op /\ j.current = p
                  /\ j.todo = k.todo \ {p}
                  /\ h = held[w] \/ h = held[w] \cup {<<"payment", p>>}
  <2> DEFINE l == [k EXCEPT !.step = "find", !.current = p, !.todo = @ \ {p}]
  <2>1. l.step = "find" /\ l.op = k.op /\ l.current = p /\ l.todo = k.todo \ {p}
    BY <1>1 DEF Calls
  <2>2. Becomes(w, l)
    BY <1>2
  <2> HIDE DEF l
  <2>3. \/ Moves(w, l, held[w])
        \/ Moves(w, l, held[w] \cup {<<"payment", p>>})
    BY <1>1, <1>2, <2>2 DEF Moves, Hold
  <2>4. QED
    BY <2>1, <2>3
<1>4. j.step = "find" /\ j.op = k.op /\ j.current = p /\ j.todo = k.todo \ {p}
  BY <1>3
<1>5. /\ p \in Payments /\ p \in k.todo
      /\ \A q \in k.todo \ {p} : K < KeyOrder[ProviderOf[q]]
  BY <1>1, NextUpFirst
<1>6. Ahead(j) = 4 * K + 2 /\ Rank(<<"payment", p>>) = 4 * K + 1 /\ K \in Nat
  <2>1. EntryOf(k.op) \in EntryTypes
    BY DEF EntryOf, EntryTypes
  <2>2. Rank(<<EntryOf(k.op), p>>) = 4 * K + 2 /\ Rank(<<"payment", p>>) = 4 * K + 1
        /\ K \in Nat
    BY <1>5, <2>1, Ranks
  <2>3. k.op # "withdraw"
    BY <1>1, <1>5 DEF StepsOfOps
  <2>4. Ahead(j) = 4 * K + 2
    BY <1>4, <1>5, <2>3, AheadIs DEF MidEntry
  <2>5. QED
    BY <2>2, <2>4
<1>7. \A r \in h : Rank(r) < Ahead(j)
  <2>1. \A r \in held[w] : Rank(r) \in Nat /\ Rank(r) < 4 * K + 1
    BY <1>1, <1>5, <1>6, Ranks DEF InOrder
  <2>2. QED
    BY <1>3, <1>6, <2>1
<1>8. InOrder(j, h)
  BY <1>1, <1>4, <1>5, <1>7 DEF InOrder, StepsOfOps
<1>9. QED
  BY <1>3, <1>8, OrderStep

\* At one payment a call asks for its entry, the wallet and the bookings in turn.
LEMMA LoopOrder ==
  ASSUME LInv, NEW w \in Workers, call[w].op # "withdraw", call[w].step \in Loop \ {"row"},
         NEW j \in Calls, NEW h \in SUBSET Rows, Moves(w, j, h),
         j.op = call[w].op, j.current = call[w].current, j.todo = call[w].todo,
         j.step \in Loop,
         \A r \in h : Rank(r) < Ahead(j) \/ (j.step = "row" /\ Rank(r) <= Ahead(j))
  PROVE  LocksInOrder'
<1> DEFINE k == call[w]
           K == KeyOrder[ProviderOf[k.current]]
<1>1. k.current \in Payments /\ \A q \in k.todo : K < KeyOrder[ProviderOf[q]]
  BY CallBInv DEF LInv, LocksInOrder, InOrder, StepsOfOps
<1>2. CASE j.step = "row"
  <2>1. Ahead(j) = 4 * K + 4 /\ K \in Nat
    BY <1>1, <1>2, Ranks DEF Ahead, MidEntry, MidCredit
  <2>2. ASSUME NEW q \in j.todo, NEW r \in h
        PROVE  Rank(r) < Rank(<<"payment", q>>)
    <3>1. q \in Payments
      BY DEF Calls
    <3>2. /\ KeyOrder[ProviderOf[q]] \in Nat /\ K < KeyOrder[ProviderOf[q]]
          /\ Rank(<<"payment", q>>) = 4 * KeyOrder[ProviderOf[q]] + 1
      BY <1>1, <3>1, Ranks
    <3>3. Rank(r) \in Nat /\ Rank(r) <= 4 * K + 4
      BY <2>1, Ranks
    <3>4. QED
      BY <2>1, <3>2, <3>3
  <2>3. InOrder(j, h)
    BY <1>2, <2>2 DEF InOrder, Loop, MidEntry
  <2>4. QED
    BY <2>3, OrderStep
<1>3. CASE j.step # "row"
  <2>1. InOrder(j, h)
    BY <1>1, <1>3 DEF InOrder, Loop, MidEntry
  <2>2. QED
    BY <2>1, OrderStep
<1>4. QED
  BY <1>2, <1>3

\* Where a call is, in the order, at the payment it is at.
LEMMA AheadRanks ==
  ASSUME LInv, NEW w \in Workers, call[w].op # "withdraw", call[w].step \in Loop \ {"row"}
  PROVE  LET k == call[w]
             K == KeyOrder[ProviderOf[k.current]]
         IN /\ k \in Calls /\ held[w] \in SUBSET Rows
            /\ held = [held EXCEPT ![w] = held[w]]
            /\ K \in Nat /\ EntryOf(k.op) \in EntryTypes
            /\ k.current \in Payments /\ ProviderOf[k.current] \in Providers
            /\ \A r \in held[w] : Rank(r) \in Nat /\ Rank(r) < Ahead(k)
            /\ \A j \in Calls : (j.current = k.current /\ j.op = k.op) =>
                 /\ j.step \in MidEntry => Ahead(j) = 4 * K + 2
                 /\ j.step \in MidCredit => Ahead(j) = 4 * K + 3
                 /\ j.step \in {"sync", "row"} => Ahead(j) = 4 * K + 4
<1>1. /\ call[w] \in Calls /\ held[w] \in SUBSET Rows
      /\ held = [held EXCEPT ![w] = held[w]] /\ call[w].current \in Payments
  BY CallBInv DEF LInv, StepsOfOps
<1>2. EntryOf(call[w].op) \in EntryTypes
  BY DEF EntryOf, EntryTypes
<1>3. \A r \in held[w] : Rank(r) \in Nat /\ Rank(r) < Ahead(call[w])
  BY <1>1, Ranks DEF LInv, LocksInOrder, InOrder
<1>4. ASSUME NEW j \in Calls, j.current = call[w].current, j.op = call[w].op
      PROVE  LET K == KeyOrder[ProviderOf[call[w].current]]
             IN /\ j.step \in MidEntry => Ahead(j) = 4 * K + 2
                /\ j.step \in MidCredit => Ahead(j) = 4 * K + 3
                /\ j.step \in {"sync", "row"} => Ahead(j) = 4 * K + 4
  BY <1>1, <1>4, AheadIs
<1>5. QED
  BY <1>1, <1>2, <1>3, <1>4, Ranks

LEMMA EntryOrder ==
  ASSUME LInv, NEW w \in Workers, FindEntry(w) \/ InsertEntry(w)
  PROVE  LocksInOrder'
<1> DEFINE k == call[w]
           K == KeyOrder[ProviderOf[k.current]]
           On(step) == [k EXCEPT !.step = step]
           entry == <<EntryOf(k.op), k.current>>
<1>1. k.op # "withdraw" /\ k.step \in Loop \ {"row"} /\ k.step \in MidEntry
  BY CallBInv DEF LInv, StepsOfOps, FindEntry, InsertEntry, Loop, MidEntry
<1>2. /\ k \in Calls /\ held[w] \in SUBSET Rows /\ held = [held EXCEPT ![w] = held[w]]
      /\ K \in Nat /\ EntryOf(k.op) \in EntryTypes /\ k.current \in Payments
      /\ \A r \in held[w] : Rank(r) \in Nat /\ Rank(r) < 4 * K + 2
  BY <1>1, AheadRanks
<1>3. ASSUME NEW step \in Loop
      PROVE  /\ On(step) \in Calls /\ On(step).step = step /\ On(step).op = k.op
             /\ On(step).current = k.current /\ On(step).todo = k.todo
             /\ step \in MidEntry => Ahead(On(step)) = 4 * K + 2
             /\ step \in MidCredit => Ahead(On(step)) = 4 * K + 3
             /\ step \in {"sync", "row"} => Ahead(On(step)) = 4 * K + 4
  <2>1. /\ On(step) \in Calls /\ On(step).step = step /\ On(step).op = k.op
        /\ On(step).current = k.current /\ On(step).todo = k.todo
    BY <1>2 DEF Calls, Steps, Loop, MidEntry
  <2> HIDE DEF On
  <2>2. QED
    BY <1>1, <2>1, AheadRanks
<1>4. CASE FindEntry(w)
  <2>1. PICK step \in {"insert", "row", "sync"} : Becomes(w, On(step)) /\ UNCHANGED held
    BY <1>4 DEF FindEntry, Goto
  <2>2. Moves(w, On(step), held[w]) /\ step \in Loop
    BY <1>2, <2>1 DEF Moves, Loop, MidEntry
  <2> HIDE DEF On
  <2>3. \A r \in held[w] : Rank(r) < Ahead(On(step))
    BY <1>2, <1>3, <2>1, <2>2 DEF MidEntry
  <2>4. QED
    BY <1>1, <1>2, <1>3, <2>2, <2>3, LoopOrder
<1>5. CASE InsertEntry(w) /\ entry \in ledger
  <2>1. Moves(w, Idle, {})
    BY <1>5 DEF InsertEntry, Return, Moves
  <2>2. InOrder(Idle, {})
    BY NothingHeld DEF Idle, Loop, MidEntry
  <2>3. QED
    BY <2>1, <2>2, OrderStep
<1>6. CASE InsertEntry(w) /\ entry \notin ledger
  <2> DEFINE h == held[w] \cup {entry}
  <2>1. Moves(w, On("load"), h)
    BY <1>6 DEF InsertEntry, Goto, Hold, Moves
  <2>2. h \in SUBSET Rows /\ Rank(entry) = 4 * K + 2
    <3>1. entry \in Rows
      BY <1>2 DEF Rows, Entries
    <3>2. QED
      BY <1>2, <3>1, Ranks
  <2>3. "load" \in Loop /\ "load" \in MidCredit
    BY DEF Loop, MidCredit
  <2> HIDE DEF On
  <2>4. \A r \in h : Rank(r) < Ahead(On("load"))
    BY <1>2, <1>3, <2>2, <2>3
  <2>5. QED
    BY <1>1, <1>3, <2>1, <2>2, <2>3, <2>4, LoopOrder
<1>7. QED
  BY <1>4, <1>5, <1>6

\* The provider's wallet is written after the entry, and the bookings after it.
LEMMA WalletOrder ==
  ASSUME LInv, NEW w \in Workers, ReadWallet(w) \/ PersistWallet(w) \/ SyncBooking(w)
  PROVE  LocksInOrder'
<1> DEFINE k == call[w]
           K == KeyOrder[ProviderOf[k.current]]
<1>1. /\ k \in Calls /\ held[w] \in SUBSET Rows /\ held = [held EXCEPT ![w] = held[w]]
      /\ StepsOfOps(k, held[w]) /\ InOrder(k, held[w]) /\ InScope(k, held[w])
  BY CallBInv DEF LInv, LocksInOrder
<1>2. CASE k.op = "withdraw"
  <2>1. k.todo = {} /\ ~SyncBooking(w)
    BY <1>1, <1>2 DEF StepsOfOps, SyncBooking
  <2>2. CASE ReadWallet(w)
    <3> DEFINE j == [k EXCEPT !.step = "store", !.seen = wallet[WalletOf(k)]]
    <3>1. Becomes(w, j) /\ UNCHANGED held /\ k.step = "load"
      BY <2>2 DEF ReadWallet
    <3>2. held[w] = {} /\ j.op = "withdraw"
      BY <1>1, <1>2, <3>1 DEF InOrder, Calls
    <3> HIDE DEF j
    <3>3. QED
      BY <3>1, <3>2, FreshOrder
  <2>3. CASE PersistWallet(w)
    <3>1. PICK j, h : Moves(w, j, h) /\ j.step = "row" /\ j.op = "withdraw" /\ j.todo = {}
      <4> DEFINE v == WalletOf(k)
                 j == [k EXCEPT !.step = IF k.op \in {"settle", "refund"} THEN "sync" ELSE "row",
                                !.seen = EmptyWallet,
                                !.draft = [@ EXCEPT ![v] = DeltaApplied(k)]]
      <4>1. Moves(w, j, held[w] \cup {<<"wallet", v>>})
        BY <2>3 DEF PersistWallet, Hold, Moves
      <4>2. j.step = "row" /\ j.op = "withdraw" /\ j.todo = {}
        BY <1>1, <1>2, <2>1 DEF Calls
      <4> HIDE DEF j
      <4>3. QED
        BY <4>1, <4>2
    <3>2. InOrder(j, h)
      BY <3>1 DEF InOrder
    <3>3. QED
      BY <3>1, <3>2, OrderStep
  <2>4. QED
    BY <2>1, <2>2, <2>3
<1>3. CASE k.op # "withdraw"
  <2>1. k.step \in Loop \ {"row"} /\ k.step \in MidCredit \cup {"sync"}
    BY DEF ReadWallet, PersistWallet, SyncBooking, Loop, MidCredit
  <2>2. /\ K \in Nat /\ k.current \in Payments /\ ProviderOf[k.current] \in Providers
        /\ \A r \in held[w] : Rank(r) \in Nat /\ Rank(r) < Ahead(k)
        /\ k.step \in MidCredit => Ahead(k) = 4 * K + 3
        /\ k.step = "sync" => Ahead(k) = 4 * K + 4
    BY <1>1, <1>3, <2>1, AheadRanks
  <2>3. ASSUME NEW j \in Calls, j.op = k.op, j.current = k.current
        PROVE  /\ j.step \in MidCredit => Ahead(j) = 4 * K + 3
               /\ j.step \in {"sync", "row"} => Ahead(j) = 4 * K + 4
    BY <1>3, <2>1, <2>3, AheadRanks
  <2>4. CASE ReadWallet(w)
    <3>1. PICK j \in Calls : /\ Moves(w, j, held[w]) /\ j.step = "store" /\ j.op = k.op
                             /\ j.current = k.current /\ j.todo = k.todo
      <4> DEFINE j == [k EXCEPT !.step = "store", !.seen = wallet[WalletOf(k)]]
      <4>1. Moves(w, j, held[w])
        BY <1>1, <2>4 DEF ReadWallet, Moves
      <4>2. wallet[WalletOf(k)] \in Wallets
        BY <1>3, <2>2 DEF WalletOf, LInv, BInv, IInv, TypeOK, TablesTypeOK
      <4>3. j \in Calls /\ j.step = "store" /\ j.op = k.op /\ j.current = k.current
            /\ j.todo = k.todo
        BY <1>1, <4>2 DEF Calls, Steps
      <4> HIDE DEF j
      <4>4. QED
        BY <4>1, <4>3
    <3>2. k.step \in MidCredit /\ j.step \in MidCredit /\ j.step \in Loop
      BY <2>4, <3>1 DEF ReadWallet, MidCredit, Loop
    <3>3. \A r \in held[w] : Rank(r) < Ahead(j)
      BY <2>2, <2>3, <3>1, <3>2
    <3>4. QED
      BY <1>1, <1>3, <2>1, <3>1, <3>2, <3>3, LoopOrder
  <2>5. CASE PersistWallet(w)
    <3> DEFINE v == ProviderOf[k.current]
               h == held[w] \cup {<<"wallet", v>>}
    <3>1. PICK j \in Calls : /\ Moves(w, j, h) /\ j.step \in {"sync", "row"} /\ j.op = k.op
                             /\ j.current = k.current /\ j.todo = k.todo
      <4> DEFINE j == [k EXCEPT !.step = IF k.op \in {"settle", "refund"} THEN "sync" ELSE "row",
                                !.seen = EmptyWallet,
                                !.draft = [@ EXCEPT ![v] = DeltaApplied(k)]]
      <4>1. Moves(w, j, h)
        BY <1>3, <2>5 DEF PersistWallet, Hold, Moves, WalletOf
      <4>2. DeltaApplied(k) \in Wallets
        BY <1>1, <1>3, <2>2, <2>5, DeltaType DEF PersistWallet, StepsOfOps
      <4>3. EmptyWallet \in Wallets
        BY DEF EmptyWallet, Wallets
      <4>4. j \in Calls /\ j.step \in {"sync", "row"} /\ j.op = k.op /\ j.current = k.current
            /\ j.todo = k.todo
        BY <1>1, <4>2, <4>3 DEF Calls, Steps
      <4> HIDE DEF j
      <4>5. QED
        BY <4>1, <4>4
    <3>2. h \in SUBSET Rows /\ Rank(<<"wallet", v>>) = 4 * K + 3
      <4>1. <<"wallet", v>> \in Rows
        BY <2>2 DEF Rows
      <4>2. QED
        BY <1>1, <2>2, <4>1, Ranks
    <3>3. k.step \in MidCredit /\ j.step \in Loop
      BY <2>5, <3>1 DEF PersistWallet, MidCredit, Loop
    <3>4. \A r \in h : Rank(r) < Ahead(j)
      BY <2>2, <2>3, <3>1, <3>2, <3>3
    <3>5. QED
      BY <1>3, <2>1, <3>1, <3>2, <3>3, <3>4, LoopOrder
  <2>6. CASE SyncBooking(w)
    <3> DEFINE h == held[w] \cup {<<"booking", k.current>>}
               j == [k EXCEPT !.step = "row"]
    <3>1. Moves(w, j, h) /\ k.step = "sync"
      BY <2>6 DEF SyncBooking, Hold, Goto, Moves
    <3>2. j \in Calls /\ j.step = "row" /\ j.op = k.op /\ j.current = k.current
          /\ j.todo = k.todo
      BY <1>1 DEF Calls, Steps
    <3>3. h \in SUBSET Rows /\ Rank(<<"booking", k.current>>) = 4 * K + 4
      <4>1. <<"booking", k.current>> \in Rows
        BY <2>2 DEF Rows
      <4>2. QED
        BY <1>1, <2>2, <4>1, Ranks
    <3> HIDE DEF j
    <3>4. \A r \in h : Rank(r) <= Ahead(j)
      BY <2>2, <2>3, <3>1, <3>2, <3>3
    <3>5. "row" \in Loop
      BY DEF Loop
    <3>6. QED
      BY <1>3, <2>1, <3>1, <3>2, <3>3, <3>4, <3>5, LoopOrder
  <2>7. QED
    BY <2>4, <2>5, <2>6
<1>4. QED
  BY <1>2, <1>3

LEMMA InitLInv == Init => LInv
<1>1. Init => LocksInOrder
  BY NothingHeld DEF Init, LocksInOrder, Idle, Loop, MidEntry
<1>2. QED
  BY <1>1, InitBInv DEF LInv

LEMMA NextLInv == LInv /\ [Next]_vars => LInv'
<1> SUFFICES ASSUME LInv, [Next]_vars
             PROVE  LInv'
  OBVIOUS
<1>1. BInv'
  BY NextBInv DEF LInv
<1>2. ASSUME UNCHANGED <<call, held>>
      PROVE  LocksInOrder'
  BY <1>2 DEF LInv, LocksInOrder, InOrder, Rank, Ahead
<1>3. InOrder(Idle, {})
  BY NothingHeld DEF Idle, Loop, MidEntry
<1>4. ASSUME NEW w \in Workers, Continue(w)
      PROVE  LocksInOrder'
  <2>1. CASE Commit(w)
    <3>1. Moves(w, Idle, {})
      BY <2>1 DEF Commit, Return, Moves
    <3>2. QED
      BY <1>3, <3>1, OrderStep
  <2>2. QED
    BY <1>4, <2>1, BeforeOrder, CheckoutOrder, UpdatePaymentOrder, EntryOrder, WalletOrder
       DEF Continue
<1>5. ASSUME NEW w \in Workers, Fail(w)
      PROVE  LocksInOrder'
  <2>1. Moves(w, Idle, {})
    BY <1>5 DEF Fail, Return, Moves
  <2>2. QED
    BY <1>3, <2>1, OrderStep
<1>6. ASSUME Restart
      PROVE  LocksInOrder'
  <2>1. \A w \in Workers : call'[w] = Idle /\ held'[w] = {}
    BY <1>6 DEF Restart
  <2>2. QED
    BY <1>3, <2>1 DEF LocksInOrder, InOrder, Rank, Ahead
<1>7. ASSUME NEW c \in Checkouts, Charge(c) \/ Decline(c)
      PROVE  LocksInOrder'
  BY <1>2, <1>7 DEF Charge, Decline
<1>8. ASSUME NEW e \in Events, HandleWebhook(e)
      PROVE  LocksInOrder'
  BY <1>2, <1>8 DEF HandleWebhook
<1>9. LocksInOrder'
  BY <1>2, <1>4, <1>5, <1>6, <1>7, <1>8, RequestOrder, EventOrder DEF Next, vars
<1>10. QED
  BY <1>1, <1>9 DEF LInv

\* A nonempty set of finite subsets has a smallest one.
LEMMA SmallestSubset ==
  ASSUME NEW S, IsFiniteSet(S), NEW F \in SUBSET (SUBSET S), F # {}
  PROVE  \E m \in F : \A s \in F : ~(s \subseteq m /\ s # m)
<1>1. F \subseteq FiniteSubsetsOf(S)
  BY FS_Subset DEF FiniteSubsetsOf
<1>2. IsWellFoundedOn(StrictSubsetOrdering(S), FiniteSubsetsOf(S))
  BY FS_StrictSubsetOrderingWellFounded
<1>3. PICK m \in F : \A s \in F : ~(<<s, m>> \in StrictSubsetOrdering(S))
  BY <1>1, <1>2, WFMin
<1>4. \A s \in F : ~(s \subseteq m /\ s # m)
  BY <1>3 DEF StrictSubsetOrdering
<1>5. QED
  BY <1>4

\* A number told of each member of a finite set is the largest for one of them.
LEMMA LargestMember ==
  ASSUME NEW S, IsFiniteSet(S), S # {}, NEW f, \A w \in S : f[w] \in Nat
  PROVE  \E w \in S : \A u \in S : f[u] <= f[w]
<1> DEFINE AtLeast(w) == {x \in S : f[w] <= f[x]}
           F == {AtLeast(w) : w \in S}
<1>1. F \in SUBSET (SUBSET S) /\ F # {}
  OBVIOUS
<1>2. PICK m \in F : \A s \in F : ~(s \subseteq m /\ s # m)
  <2> HIDE DEF F
  <2> QED
    BY <1>1, SmallestSubset
<1>3. PICK w \in S : m = AtLeast(w)
  OBVIOUS
<1>4. ASSUME NEW u \in S, ~(f[u] <= f[w])
      PROVE  FALSE
  <2>1. AtLeast(u) \subseteq m /\ w \in m /\ w \notin AtLeast(u)
    BY <1>3, <1>4
  <2>2. AtLeast(u) \in F
    OBVIOUS
  <2> HIDE DEF F, AtLeast
  <2>3. QED
    BY <1>2, <2>1, <2>2
<1>5. QED
  BY <1>4

\* Whatever a call holds comes before whatever it asks for.
LEMMA HeldBeforeWanted ==
  ASSUME LInv, NEW u \in Workers, NEW r \in held[u], NEW s \in Wanted(u)
  PROVE  r \in Rows /\ s \in Rows /\ Rank(r) < Rank(s)
<1> DEFINE k == call[u]
<1>1. /\ k \in Calls /\ held[u] \in SUBSET Rows
      /\ StepsOfOps(k, held[u]) /\ InOrder(k, held[u])
  BY CallBInv DEF LInv, LocksInOrder
<1>2. k.step \notin {"lock", "fail"}
  BY <1>1 DEF InOrder, StepsOfOps, InTransaction
<1>3. CASE k.step = "row"
  <2>1. PICK p \in NextUp(k.todo) : s = <<"payment", p>>
    BY <1>3 DEF Wanted
  <2>2. p \in k.todo /\ p \in Payments
    BY <1>1, <2>1 DEF NextUp, Calls
  <2>3. s \in Rows
    BY <2>1, <2>2 DEF Rows
  <2>4. QED
    BY <1>1, <1>3, <2>1, <2>2, <2>3 DEF InOrder
<1>4. CASE k.step # "row"
  <2>1. /\ k.step \in {"insert", "store", "sync"}
        /\ k.step = "insert" => s = <<EntryOf(k.op), k.current>>
        /\ k.step = "store" => s = <<"wallet", WalletOf(k)>>
        /\ k.step = "sync" => s = <<"booking", k.current>>
    BY <1>2, <1>4 DEF Wanted
  <2>2. k.op # "withdraw" /\ k.step \in Loop \ {"row"}
    BY <1>1, <2>1 DEF InOrder, StepsOfOps, Loop, MidEntry
  <2>3. /\ k.current \in Payments /\ ProviderOf[k.current] \in Providers
        /\ EntryOf(k.op) \in EntryTypes
        /\ Rank(r) < Ahead(k)
        /\ k.step \in MidEntry => Ahead(k) = 4 * KeyOrder[ProviderOf[k.current]] + 2
        /\ k.step \in MidCredit => Ahead(k) = 4 * KeyOrder[ProviderOf[k.current]] + 3
        /\ k.step = "sync" => Ahead(k) = 4 * KeyOrder[ProviderOf[k.current]] + 4
    BY <1>1, <2>2, AheadRanks
  <2> DEFINE K == KeyOrder[ProviderOf[k.current]]
  <2>4. CASE k.step = "insert"
    <3>1. s = <<EntryOf(k.op), k.current>> /\ Rank(s) = 4 * K + 2 /\ Ahead(k) = 4 * K + 2
      BY <2>1, <2>3, <2>4, Ranks DEF MidEntry
    <3>2. s \in Rows
      BY <2>3, <3>1 DEF Rows, Entries
    <3>3. QED
      BY <1>1, <2>3, <3>1, <3>2
  <2>5. CASE k.step = "store"
    <3>1. s = <<"wallet", ProviderOf[k.current]>>
      BY <2>1, <2>2, <2>5 DEF WalletOf
    <3>2. Rank(s) = 4 * K + 3 /\ Ahead(k) = 4 * K + 3
      BY <2>3, <2>5, <3>1, Ranks DEF MidCredit
    <3>3. s \in Rows
      BY <2>3, <3>1 DEF Rows
    <3>4. QED
      BY <1>1, <2>3, <3>2, <3>3
  <2>6. CASE k.step = "sync"
    <3>1. s = <<"booking", k.current>> /\ Rank(s) = 4 * K + 4 /\ Ahead(k) = 4 * K + 4
      BY <2>1, <2>3, <2>6, Ranks
    <3>2. s \in Rows
      BY <2>3, <3>1 DEF Rows
    <3>3. QED
      BY <1>1, <2>3, <3>1, <3>2
  <2>7. QED
    BY <2>1, <2>4, <2>5, <2>6
<1>5. QED
  BY <1>3, <1>4

\* If every call of a set waited for one in it, take the one that waits for the
\* row of the highest rank: who holds that row waits for a higher one.
LEMMA NoCircle == LInv => NoDeadlock
<1> SUFFICES ASSUME LInv, NEW S \in (SUBSET Workers) \ {{}},
                    \A w \in S : \E u \in S : WaitsFor(w, u)
             PROVE  FALSE
  BY DEF NoDeadlock
<1> DEFINE Contested(w) == {r \in Wanted(w) : \E u \in S : w # u /\ r \in held[u]}
           row == [w \in S |-> CHOOSE r \in Contested(w) : TRUE]
           f == [w \in S |-> Rank(row[w])]
<1>1. ASSUME NEW w \in S
      PROVE  row[w] \in Wanted(w) /\ \E u \in S : w # u /\ row[w] \in held[u]
  <2>1. Contested(w) # {}
    BY DEF WaitsFor
  <2>2. row[w] \in Contested(w)
    BY <2>1
  <2>3. QED
    BY <2>2
<1> HIDE DEF row
<1>2. ASSUME NEW w \in S
      PROVE  row[w] \in Rows /\ f[w] \in Nat
  <2>1. row[w] \in Rows
    BY <1>1, CallBInv DEF LInv
  <2>2. QED
    BY <2>1, Ranks
<1>3. ASSUME NEW w \in S
      PROVE  \E u \in S : f[w] < f[u]
  <2>1. PICK u \in S : row[w] \in held[u]
    BY <1>1
  <2>2. Rank(row[w]) < Rank(row[u])
    BY <1>1, <2>1, HeldBeforeWanted
  <2>3. QED
    BY <2>2
<1>4. IsFiniteSet(S)
  BY FiniteAssumption, FS_Subset
<1> HIDE DEF f
<1>5. PICK w \in S : \A u \in S : f[u] <= f[w]
  BY <1>2, <1>4, LargestMember
<1>6. QED
  BY <1>2, <1>3, <1>5

\* No calls ever wait for each other in a circle, however many are in flight:
\* PostgreSQL never has to break a deadlock between settlements, refunds,
\* releases and withdrawals.
THEOREM NoDeadlockCorrect == Spec => []NoDeadlock
<1>1. Init => LInv
  BY InitLInv
<1>2. LInv /\ [Next]_vars => LInv'
  BY NextLInv
<1>3. LInv => NoDeadlock
  BY NoCircle
<1>4. QED
  BY <1>1, <1>2, <1>3, PTL DEF Spec

-----------------------------------------------------------------------------
(* Sums over finite sets, as MapThenSumSet takes them: one element after the   *)
(* other, in an order of its own.                                              *)

\* The sum of a over the set T.
Total(a, T) == MapThenSumSet(LAMBDA x : a[x], T)

Pick(s) == CHOOSE x \in s : TRUE

\* g tells the sum of every subset of T, by taking away one element after the other.
Tells(g, a, T) ==
  g = [s \in SUBSET T |-> IF s = {} THEN 0 ELSE a[Pick(s)] + g[s \ {Pick(s)}]]

\* The element a sum takes first is one of the set.
LEMMA PickIn == ASSUME NEW s, s # {} PROVE Pick(s) \in s
  BY DEF Pick

\* A sum is what such a g tells of the whole set ...
LEMMA TotalUnfolds ==
  ASSUME NEW a, NEW T
  PROVE  Total(a, T) = (CHOOSE g : Tells(g, a, T))[T]
  BY DEF Total, MapThenSumSet, MapThenFoldSet, Tells, Pick

\* A nonempty set of natural numbers has a smallest one.
LEMMA SmallestNumber ==
  ASSUME NEW S \in SUBSET Nat, S # {}
  PROVE  \E m \in S : \A n \in S : m <= n
<1> DEFINE R == {p \in Nat \X Nat : p[1] < p[2]}
<1>1. IsWellFoundedOn(R, Nat)
  BY NatLessThanWellFounded DEF OpToRel
<1>2. PICK m \in S : \A n \in S : ~(<<n, m>> \in R)
  <2> HIDE DEF R
  <2> QED
    BY <1>1, WFMin
<1>3. \A n \in S : ~(n < m)
  BY <1>2
<1>4. QED
  BY <1>2, <1>3

\* ... there is one, by induction on the size of the subsets it is told for, ...
LEMMA TellsExists ==
  ASSUME NEW T, IsFiniteSet(T), NEW a, \A x \in T : a[x] \in Nat
  PROVE  \E g : Tells(g, a, T) /\ g \in [SUBSET T -> Nat]
<1> DEFINE Level(n) == {s \in SUBSET T : Cardinality(s) <= n}
           Value(g, s) == IF s = {} THEN 0 ELSE a[Pick(s)] + g[s \ {Pick(s)}]
           Upto(n) == {g \in [Level(n) -> Nat] : \A s \in Level(n) : g[s] = Value(g, s)}
           Bad == {n \in Nat : Upto(n) = {}}
<1>1. \A s \in SUBSET T : IsFiniteSet(s) /\ Cardinality(s) \in Nat
  BY FS_Subset, FS_CardinalityType
<1>2. \A s \in SUBSET T : s # {} =>
        /\ s \ {Pick(s)} \in SUBSET T /\ a[Pick(s)] \in Nat
        /\ Cardinality(s \ {Pick(s)}) = Cardinality(s) - 1
  BY <1>1, PickIn, FS_RemoveElement
<1>3. Bad = {}
  <2>1. SUFFICES ASSUME Bad # {} PROVE FALSE
    OBVIOUS
  <2>2. PICK n \in Bad : \A m \in Bad : n <= m
    BY <2>1, SmallestNumber
  <2>3. CASE n = 0
    <3>1. \A s \in Level(n) : s = {}
      BY <1>1, <2>3, FS_EmptySet
    <3>2. [s \in Level(n) |-> 0] \in Upto(n)
      BY <3>1
    <3>3. QED
      BY <2>2, <3>2
  <2>4. CASE n # 0
    <3>1. n - 1 \in Nat /\ n \in Nat /\ n - 1 \notin Bad
      <4> HIDE DEF Upto
      <4>1. n \in Nat
        OBVIOUS
      <4>2. n - 1 \in Nat /\ ~(n <= n - 1)
        BY <2>4, <4>1
      <4>3. QED
        BY <2>2, <4>1, <4>2
    <3>2. PICK g \in [Level(n-1) -> Nat] : \A s \in Level(n-1) : g[s] = Value(g, s)
      BY <3>1
    <3> DEFINE h == [s \in Level(n) |-> IF s \in Level(n-1) THEN g[s] ELSE Value(g, s)]
    <3>3. \A s \in Level(n) : s # {} => s \ {Pick(s)} \in Level(n-1)
      BY <1>1, <1>2, <3>1
    <3>4. Level(n-1) \subseteq Level(n)
      BY <1>1, <3>1
    <3> HIDE DEF Level
    <3>5. h \in [Level(n) -> Nat]
      <4>1. ASSUME NEW s \in Level(n), s \notin Level(n-1) PROVE Value(g, s) \in Nat
        <5>1. s # {} => a[Pick(s)] \in Nat
          BY <1>2 DEF Level
        <5>2. QED
          BY <3>2, <3>3, <5>1
      <4>2. QED
        BY <3>2, <4>1
    <3>6. \A s \in Level(n) : h[s] = Value(h, s)
      <4>1. ASSUME NEW s \in Level(n) PROVE h[s] = Value(g, s)
        BY <3>2
      <4>2. ASSUME NEW s \in Level(n), s # {} PROVE g[s \ {Pick(s)}] = h[s \ {Pick(s)}]
        BY <3>3, <3>4, <4>2
      <4>3. QED
        BY <4>1, <4>2
    <3>7. h \in Upto(n)
      BY <3>5, <3>6
    <3>8. QED
      BY <2>2, <3>7
  <2>5. QED
    BY <2>3, <2>4
<1> DEFINE n == Cardinality(T)
<1>4. Level(n) = SUBSET T
  BY FS_Subset
<1>5. PICK g \in [Level(n) -> Nat] : \A s \in Level(n) : g[s] = Value(g, s)
  <2>1. n \in Nat
    BY <1>1
  <2> HIDE DEF n
  <2>2. Upto(n) # {}
    <3> HIDE DEF Upto
    <3> QED
      BY <1>3, <2>1
  <2>3. QED
    BY <2>2
<1>6. g = [s \in SUBSET T |-> Value(g, s)]
  BY <1>4, <1>5
<1>7. QED
  BY <1>4, <1>5, <1>6 DEF Tells

\* ... and any two tell the same of the sets both know.
LEMMA TellsSame ==
  ASSUME NEW T, IsFiniteSet(T), NEW U \in SUBSET T, NEW a, NEW g, NEW h,
         Tells(g, a, T), Tells(h, a, U)
  PROVE  g[U] = h[U]
<1> DEFINE F == {s \in SUBSET U : g[s] # h[s]}
<1>1. SUFFICES ASSUME F # {} PROVE FALSE
  OBVIOUS
<1>2. PICK m \in F : \A s \in F : ~(s \subseteq m /\ s # m)
  <2>1. IsFiniteSet(U) /\ F \in SUBSET (SUBSET U)
    BY FS_Subset
  <2> HIDE DEF F
  <2> QED
    BY <1>1, <2>1, SmallestSubset
<1>3. /\ m \in SUBSET T /\ m \in SUBSET U
      /\ g[m] = IF m = {} THEN 0 ELSE a[Pick(m)] + g[m \ {Pick(m)}]
      /\ h[m] = IF m = {} THEN 0 ELSE a[Pick(m)] + h[m \ {Pick(m)}]
  BY DEF Tells
<1>4. m # {}
  BY <1>3
<1>5. m \ {Pick(m)} \notin F
  BY <1>2, <1>4, PickIn
<1>6. QED
  BY <1>3, <1>4, <1>5

\* So a sum of natural numbers is one, and is what its recursive definition says.
LEMMA TotalType ==
  ASSUME NEW T, IsFiniteSet(T), NEW a, \A x \in T : a[x] \in Nat
  PROVE  /\ Total(a, T) \in Nat
         /\ T = {} => Total(a, T) = 0
         /\ T # {} => Total(a, T) = a[Pick(T)] + Total(a, T \ {Pick(T)})
<1>1. ASSUME NEW U \in SUBSET T
      PROVE  \E g : Tells(g, a, U) /\ g[U] = Total(a, U) /\ g[U] \in Nat
  <2>1. IsFiniteSet(U)
    BY FS_Subset
  <2>2. PICK h : Tells(h, a, U) /\ h \in [SUBSET U -> Nat]
    BY <2>1, TellsExists
  <2> DEFINE g == CHOOSE f : Tells(f, a, U)
  <2>3. Tells(g, a, U)
    BY <2>2
  <2>4. g[U] = h[U]
    BY <2>1, <2>2, <2>3, TellsSame
  <2>5. g[U] = Total(a, U)
    BY TotalUnfolds
  <2> HIDE DEF g
  <2>6. QED
    BY <2>2, <2>3, <2>4, <2>5
<1>2. PICK g : Tells(g, a, T) /\ g[T] = Total(a, T) /\ g[T] \in Nat
  BY <1>1
<1>3. g[T] = IF T = {} THEN 0 ELSE a[Pick(T)] + g[T \ {Pick(T)}]
  BY <1>2 DEF Tells
<1>4. ASSUME T # {} PROVE g[T \ {Pick(T)}] = Total(a, T \ {Pick(T)})
  <2>1. PICK h : Tells(h, a, T \ {Pick(T)}) /\ h[T \ {Pick(T)}] = Total(a, T \ {Pick(T)})
    BY <1>1
  <2>2. QED
    BY <1>2, <2>1, TellsSame
<1>5. QED
  BY <1>2, <1>3, <1>4

\* Whatever element is taken away, the sum is that element and the rest.
LEMMA TotalRemove ==
  ASSUME NEW T, IsFiniteSet(T), NEW a, \A x \in T : a[x] \in Nat, NEW x \in T
  PROVE  Total(a, T) = a[x] + Total(a, T \ {x})
<1> DEFINE Good(s) == \A y \in s : Total(a, s) = a[y] + Total(a, s \ {y})
           F == {s \in SUBSET T : ~Good(s)}
<1>1. SUFFICES ASSUME F # {} PROVE FALSE
  OBVIOUS
<1>2. PICK m \in F : \A s \in F : ~(s \subseteq m /\ s # m)
  <2>1. F \in SUBSET (SUBSET T)
    OBVIOUS
  <2> HIDE DEF F
  <2> QED
    BY <1>1, <2>1, SmallestSubset
<1>3. PICK y \in m : Total(a, m) # a[y] + Total(a, m \ {y})
  OBVIOUS
<1> DEFINE z == Pick(m)
<1>4. z \in m /\ m \subseteq T /\ a[y] \in Nat /\ a[z] \in Nat
  BY <1>3, PickIn
<1> HIDE DEF z
<1>5. \A s \in SUBSET T : IsFiniteSet(s) /\ Total(a, s) \in Nat
  BY FS_Subset, TotalType
<1>6. Total(a, m) = a[z] + Total(a, m \ {z})
  BY <1>3, <1>4, <1>5, TotalType DEF z
<1>7. y # z
  BY <1>3, <1>6
<1>8. Good(m \ {z}) /\ Good(m \ {y})
  BY <1>2, <1>3, <1>4
<1>9. /\ Total(a, m \ {z}) = a[y] + Total(a, (m \ {z}) \ {y})
      /\ Total(a, m \ {y}) = a[z] + Total(a, (m \ {y}) \ {z})
  BY <1>3, <1>4, <1>7, <1>8
<1>10. (m \ {z}) \ {y} = (m \ {y}) \ {z} /\ (m \ {z}) \ {y} \in SUBSET T
  BY <1>4
<1>11. Total(a, (m \ {z}) \ {y}) \in Nat
  BY <1>5, <1>10
<1> HIDE DEF F
<1>12. QED
  BY <1>3, <1>4, <1>6, <1>9, <1>10, <1>11

\* A new element adds its own number.
LEMMA TotalAdd ==
  ASSUME NEW T, IsFiniteSet(T), NEW a, NEW x, x \notin T,
         \A y \in T \cup {x} : a[y] \in Nat
  PROVE  Total(a, T \cup {x}) = Total(a, T) + a[x]
<1>1. IsFiniteSet(T \cup {x}) /\ (T \cup {x}) \ {x} = T
  BY FS_AddElement
<1>2. Total(a, T \cup {x}) = a[x] + Total(a, T)
  BY <1>1, TotalRemove
<1>3. Total(a, T) \in Nat
  BY TotalType
<1>4. QED
  BY <1>2, <1>3

\* A larger set has no smaller sum.
LEMMA TotalGrows ==
  ASSUME NEW T, IsFiniteSet(T), NEW a, \A x \in T : a[x] \in Nat, NEW U \in SUBSET T
  PROVE  Total(a, U) <= Total(a, T)
<1> DEFINE F == {s \in SUBSET T : U \subseteq s /\ ~(Total(a, U) <= Total(a, s))}
<1>1. SUFFICES ASSUME F # {} PROVE FALSE
  OBVIOUS
<1>2. PICK m \in F : \A s \in F : ~(s \subseteq m /\ s # m)
  <2>1. F \in SUBSET (SUBSET T)
    OBVIOUS
  <2> HIDE DEF F
  <2> QED
    BY <1>1, <2>1, SmallestSubset
<1>3. \A s \in SUBSET T : IsFiniteSet(s) /\ Total(a, s) \in Nat
  BY FS_Subset, TotalType
<1>4. PICK x \in m : x \notin U
  BY <1>3
<1>5. m \ {x} \notin F /\ U \subseteq m \ {x}
  BY <1>2, <1>4
<1>6. Total(a, m) = a[x] + Total(a, m \ {x}) /\ a[x] \in Nat
  BY <1>3, TotalRemove
<1>7. QED
  BY <1>3, <1>5, <1>6

-----------------------------------------------------------------------------
(* What a wallet holds: no balance exceeds what the ledger credits, and, as   *)
(* long as no write of it started from a stale read, it tells the totals.     *)

\* What v is credited for entries of a type among L, and debited for the
\* withdrawals among D.
Credits(L, v, type) ==
  Total(Amount, {p \in Payments : ProviderOf[p] = v /\ <<type, p>> \in L})
Debts(D, v) == Total(WithdrawAmount, {x \in D : RequesterOf[x] = v})

\* The withdrawal the call k will have debited.
Debit(k) == IF k.op = "withdraw" THEN {k.subject} ELSE {}

Covers(L, D, v, balances) ==
  /\ balances.pendingBalance <= Credits(L, v, "deposit_pending_credit")
  /\ balances.availableBalance <= Credits(L, v, "payout_release_credit")
  /\ balances.totalEarnings <= Credits(L, v, "payout_release_credit")
  /\ balances.totalWithdrawn <= Debts(D, v)

Tallies(L, D, v, balances) ==
  /\ balances.totalEarnings = Credits(L, v, "payout_release_credit")
  /\ balances.totalWithdrawn = Debts(D, v)
  /\ balances.availableBalance >= balances.totalEarnings - balances.totalWithdrawn
  /\ balances.pendingBalance >=
       Credits(L, v, "deposit_pending_credit") - Credits(L, v, "refund_debit")
         - Credits(L, v, "payout_release_credit")

\* The wallet that call k leaves of the balances it read, for the payment p.
Change(k, p, balances) ==
  DeltaApplied([op |-> k.op, subject |-> k.subject, current |-> p, seen |-> balances])

\* What a call read of a wallet the entries L and debits D cover; what it has
\* written its own entries and debit will, too.
ReadsBacked(k, L, D) == k.step = "store" => Covers(L, D, WalletOf(k), k.seen)
DraftsBacked(k, h, L, D) ==
  \A v \in Providers :
    <<"wallet", v>> \in h => Covers(L \cup h, D \cup Debit(k), v, k.draft[v])

\* An entry is written with its provider's wallet, a debit with the requester's.
WalletsWithEntries(k, h) ==
  /\ \A p \in Payments : EntryHeld(k, h, p) =>
       <<"wallet", ProviderOf[p]>> \in h \/ (IsAt(k, p) /\ k.step \in MidCredit)
  /\ (k.op = "withdraw" /\ k.step = "row") => <<"wallet", RequesterOf[k.subject]>> \in h

\* Unless the wallet was ever written from a stale read, what a call has written
\* of it is its change to what the wallet holds.
DraftsFresh(k, h, wallets, stale) ==
  \A v \in Providers : (<<"wallet", v>> \in h /\ ~stale[v]) =>
    /\ k.op = "withdraw" => k.draft[v] = Change(k, None, wallets[v])
    /\ \A p \in Payments : (k.op # "withdraw" /\ EntryHeld(k, h, p) /\ ProviderOf[p] = v) =>
         k.draft[v] = Change(k, p, wallets[v])

Drafted(k, h, L, D, wallets, stale) ==
  /\ ReadsBacked(k, L, D) /\ DraftsBacked(k, h, L, D)
  /\ WalletsWithEntries(k, h) /\ DraftsFresh(k, h, wallets, stale)

\* A wallet's row is written by one transaction at a time.
WalletsAlone ==
  \A w, u \in Workers : w # u =>
    \A v \in Providers : ~(<<"wallet", v>> \in held[w] /\ <<"wallet", v>> \in held[u])

WInv ==
  /\ BInv
  /\ \A v \in Providers : /\ Covers(ledger, debited, v, wallet[v])
                          /\ ~raced[v] => Tallies(ledger, debited, v, wallet[v])
  /\ WalletsAlone
  /\ \A w \in Workers : Drafted(call[w], held[w], ledger, debited, wallet, raced)

\* Credits and debts are natural numbers, and grow with what is entered.
LEMMA CreditsGrow ==
  ASSUME NEW L, NEW M, L \subseteq M, NEW v, NEW type
  PROVE  /\ Credits(L, v, type) \in Nat /\ Credits(M, v, type) \in Nat
         /\ Credits(L, v, type) <= Credits(M, v, type)
<1> DEFINE S(N) == {p \in Payments : ProviderOf[p] = v /\ <<type, p>> \in N}
<1>1. S(L) \subseteq S(M) /\ IsFiniteSet(S(M)) /\ IsFiniteSet(S(L))
      /\ \A p \in S(M) : Amount[p] \in Nat
  BY FiniteAssumption, AmountsAssumption, FS_Subset
<1>2. Credits(L, v, type) = Total(Amount, S(L)) /\ Credits(M, v, type) = Total(Amount, S(M))
  BY DEF Credits
<1> HIDE DEF S
<1>3. QED
  BY <1>1, <1>2, TotalType, TotalGrows

LEMMA DebtsGrow ==
  ASSUME NEW D, NEW E \in SUBSET Withdrawals, D \subseteq E, NEW v
  PROVE  /\ Debts(D, v) \in Nat /\ Debts(E, v) \in Nat
         /\ Debts(D, v) <= Debts(E, v)
<1> DEFINE S(N) == {x \in N : RequesterOf[x] = v}
<1>1. S(D) \subseteq S(E) /\ IsFiniteSet(S(E)) /\ IsFiniteSet(S(D))
      /\ \A x \in S(E) : WithdrawAmount[x] \in Nat
  BY FiniteAssumption, AmountsAssumption, FS_Subset
<1>2. Debts(D, v) = Total(WithdrawAmount, S(D)) /\ Debts(E, v) = Total(WithdrawAmount, S(E))
  BY DEF Debts
<1> HIDE DEF S
<1>3. QED
  BY <1>1, <1>2, TotalType, TotalGrows

\* One entry more adds its payment's amount, one debit more its withdrawal's.
LEMMA CreditsAdd ==
  ASSUME NEW L, NEW M, L \subseteq M, NEW p \in Payments, NEW type,
         <<type, p>> \notin L, <<type, p>> \in M
  PROVE  LET v == ProviderOf[p]
         IN /\ Amount[p] \in Nat
            /\ Credits(L, v, type) + Amount[p] <= Credits(M, v, type)
            /\ (\A q \in Payments \ {p} : (ProviderOf[q] = v /\ <<type, q>> \in M) => <<type, q>> \in L)
                 => Credits(M, v, type) = Credits(L, v, type) + Amount[p]
<1> DEFINE v == ProviderOf[p]
           S(N) == {q \in Payments : ProviderOf[q] = v /\ <<type, q>> \in N}
<1>1. /\ S(L) \cup {p} \subseteq S(M) /\ p \notin S(L)
      /\ IsFiniteSet(S(M)) /\ IsFiniteSet(S(L)) /\ Amount[p] \in Nat
      /\ \A q \in S(M) : Amount[q] \in Nat
      /\ \A q \in S(L) \cup {p} : Amount[q] \in Nat
  BY FiniteAssumption, AmountsAssumption, FS_Subset
<1>2. Credits(L, v, type) = Total(Amount, S(L)) /\ Credits(M, v, type) = Total(Amount, S(M))
  BY DEF Credits
<1>3. (\A q \in Payments \ {p} : (ProviderOf[q] = v /\ <<type, q>> \in M) => <<type, q>> \in L)
        => S(M) = S(L) \cup {p}
  BY <1>1
<1> HIDE DEF S
<1>4. /\ Total(Amount, S(L) \cup {p}) = Total(Amount, S(L)) + Amount[p]
      /\ Total(Amount, S(L) \cup {p}) <= Total(Amount, S(M))
  BY <1>1, TotalAdd, TotalGrows
<1>5. QED
  BY <1>1, <1>2, <1>3, <1>4

LEMMA DebtsAdd ==
  ASSUME NEW D \in SUBSET Withdrawals, NEW x \in Withdrawals \ D
  PROVE  /\ WithdrawAmount[x] \in Nat
         /\ Debts(D \cup {x}, RequesterOf[x]) = Debts(D, RequesterOf[x]) + WithdrawAmount[x]
<1> DEFINE v == RequesterOf[x]
           S(N) == {y \in N : RequesterOf[y] = v}
<1>1. /\ S(D \cup {x}) = S(D) \cup {x} /\ x \notin S(D)
      /\ IsFiniteSet(S(D)) /\ WithdrawAmount[x] \in Nat
      /\ \A y \in S(D) \cup {x} : WithdrawAmount[y] \in Nat
  BY FiniteAssumption, AmountsAssumption, FS_Subset
<1>2. Debts(D, v) = Total(WithdrawAmount, S(D))
      /\ Debts(D \cup {x}, v) = Total(WithdrawAmount, S(D) \cup {x})
  BY <1>1 DEF Debts
<1> HIDE DEF S
<1>3. QED
  BY <1>1, <1>2, TotalAdd

\* The same entries and debits of v add up to the same.
LEMMA SameTotals ==
  ASSUME NEW L, NEW M, NEW v, NEW type,
         \A p \in Payments : ProviderOf[p] = v => (<<type, p>> \in L <=> <<type, p>> \in M)
  PROVE  Credits(L, v, type) = Credits(M, v, type)
<1>1. {p \in Payments : ProviderOf[p] = v /\ <<type, p>> \in L}
        = {p \in Payments : ProviderOf[p] = v /\ <<type, p>> \in M}
  OBVIOUS
<1>2. QED
  BY <1>1 DEF Credits

\* What is covered stays covered when more is entered.
LEMMA CoversGrow ==
  ASSUME NEW L, NEW M, L \subseteq M, NEW D, NEW E \in SUBSET Withdrawals, D \subseteq E,
         NEW v, NEW b \in Wallets, Covers(L, D, v, b)
  PROVE  Covers(M, E, v, b)
<1>1. /\ b.pendingBalance \in Nat /\ b.availableBalance \in Nat
      /\ b.totalEarnings \in Nat /\ b.totalWithdrawn \in Nat
  BY DEF Wallets
<1>2. /\ \A type : /\ Credits(L, v, type) \in Nat /\ Credits(M, v, type) \in Nat
                   /\ Credits(L, v, type) <= Credits(M, v, type)
      /\ Debts(D, v) \in Nat /\ Debts(E, v) \in Nat /\ Debts(D, v) <= Debts(E, v)
  BY CreditsGrow, DebtsGrow
<1>3. QED
  BY <1>1, <1>2 DEF Covers

\* Whatever a call writes of a wallet, what it enters covers.
LEMMA ChangeCovered ==
  ASSUME NEW k \in Calls, NEW p, NEW b \in Wallets, NEW L, NEW M, L \subseteq M,
         NEW D \in SUBSET Withdrawals, NEW v, Covers(L, D, v, b),
         k.op \in {"settle", "refund", "release", "withdraw"},
         k.op = "withdraw" =>
            k.subject \in Withdrawals \ D /\ RequesterOf[k.subject] = v,
         k.op # "withdraw" =>
            /\ p \in Payments /\ ProviderOf[p] = v
            /\ <<EntryOf(k.op), p>> \in M \ L
  PROVE  Covers(M, D \cup Debit(k), v, Change(k, p, b))
<1>1. /\ b.pendingBalance \in Nat /\ b.availableBalance \in Nat
      /\ b.totalEarnings \in Nat /\ b.totalWithdrawn \in Nat
  BY DEF Wallets
<1> DEFINE dep(N) == Credits(N, v, "deposit_pending_credit")
           rel(N) == Credits(N, v, "payout_release_credit")
           E == D \cup Debit(k)
<1>2. /\ dep(L) \in Nat /\ dep(M) \in Nat /\ dep(L) <= dep(M)
      /\ rel(L) \in Nat /\ rel(M) \in Nat /\ rel(L) <= rel(M)
  BY CreditsGrow
<1>3. E \in SUBSET Withdrawals
  BY DEF Debit
<1>4. Debts(D, v) \in Nat /\ Debts(E, v) \in Nat /\ Debts(D, v) <= Debts(E, v)
  BY <1>3, DebtsGrow
<1>5. /\ b.pendingBalance <= dep(L) /\ b.availableBalance <= rel(L)
      /\ b.totalEarnings <= rel(L) /\ b.totalWithdrawn <= Debts(D, v)
  BY DEF Covers
<1>6. CASE k.op = "withdraw"
  <2> DEFINE n == WithdrawAmount[k.subject]
  <2>1. n \in Nat /\ Debts(E, v) = Debts(D, v) + n
    BY <1>6, DebtsAdd DEF Debit
  <2>2. Change(k, p, b) = Applied(b, 0, -n, 0, n)
    BY <1>6 DEF Change, DeltaApplied
  <2> HIDE DEF n, dep, rel, E
  <2>3. /\ Change(k, p, b).pendingBalance <= dep(M) /\ Change(k, p, b).availableBalance <= rel(M)
        /\ Change(k, p, b).totalEarnings <= rel(M) /\ Change(k, p, b).totalWithdrawn <= Debts(E, v)
    BY <1>1, <1>2, <1>4, <1>5, <2>1, <2>2 DEF Applied, AtLeastZero
  <2>4. QED
    BY <2>3 DEF Covers, dep, rel, E
<1>7. CASE k.op # "withdraw"
  <2> DEFINE n == Amount[p]
  <2>1. n \in Nat /\ Credits(L, v, EntryOf(k.op)) + n <= Credits(M, v, EntryOf(k.op))
    BY <1>7, CreditsAdd
  <2>2. /\ k.op = "settle" => /\ Change(k, p, b) = Applied(b, n, 0, 0, 0)
                              /\ dep(L) + n <= dep(M)
        /\ k.op = "refund" => Change(k, p, b) = Applied(b, -n, 0, 0, 0)
        /\ k.op = "release" => /\ Change(k, p, b) = Applied(b, -n, n, n, 0)
                               /\ rel(L) + n <= rel(M)
    BY <2>1 DEF Change, DeltaApplied, EntryOf
  <2> HIDE DEF n, dep, rel, E
  <2>3. CASE k.op = "settle"
    <3>1. /\ Change(k, p, b).pendingBalance <= dep(M) /\ Change(k, p, b).availableBalance <= rel(M)
          /\ Change(k, p, b).totalEarnings <= rel(M) /\ Change(k, p, b).totalWithdrawn <= Debts(E, v)
      BY <1>1, <1>2, <1>4, <1>5, <2>1, <2>2, <2>3 DEF Applied, AtLeastZero
    <3>2. QED
      BY <3>1 DEF Covers, dep, rel, E
  <2>4. CASE k.op = "refund"
    <3>1. /\ Change(k, p, b).pendingBalance <= dep(M) /\ Change(k, p, b).availableBalance <= rel(M)
          /\ Change(k, p, b).totalEarnings <= rel(M) /\ Change(k, p, b).totalWithdrawn <= Debts(E, v)
      BY <1>1, <1>2, <1>4, <1>5, <2>1, <2>2, <2>4 DEF Applied, AtLeastZero
    <3>2. QED
      BY <3>1 DEF Covers, dep, rel, E
  <2>5. CASE k.op = "release"
    <3>1. /\ Change(k, p, b).pendingBalance <= dep(M) /\ Change(k, p, b).availableBalance <= rel(M)
          /\ Change(k, p, b).totalEarnings <= rel(M) /\ Change(k, p, b).totalWithdrawn <= Debts(E, v)
      BY <1>1, <1>2, <1>4, <1>5, <2>1, <2>2, <2>5 DEF Applied, AtLeastZero
    <3>2. QED
      BY <3>1 DEF Covers, dep, rel, E
  <2>6. QED
    BY <1>7, <2>3, <2>4, <2>5
<1>8. QED
  BY <1>6, <1>7

\* What each call in flight has drafted, and what it is about.
LEMMA CallWInv ==
  ASSUME WInv, NEW w \in Workers
  PROVE  /\ call[w] \in Calls /\ held[w] \in SUBSET Rows
         /\ StepsOfOps(call[w], held[w]) /\ InScope(call[w], held[w])
         /\ Complete(call[w], held[w]) /\ Backed(call[w])
         /\ held = [held EXCEPT ![w] = held[w]]
         /\ Drafted(call[w], held[w], ledger, debited, wallet, raced)
         /\ TypeOK /\ debited \in SUBSET Withdrawals
         /\ wallet \in [Providers -> Wallets] /\ raced \in [Providers -> BOOLEAN]
         /\ (call[w].op = "withdraw" /\ call[w].step # "idle") => call[w].subject \in Withdrawals
<1>1. TypeOK
  BY DEF WInv, BInv, IInv
<1>2. QED
  BY <1>1, CallBInv DEF WInv, TypeOK, TablesTypeOK, StepsOfOps

\* A step of one call that commits nothing keeps the invariant if what that call
\* has drafted is right.
LEMMA DraftStep ==
  ASSUME WInv, BInv', UNCHANGED <<ledger, debited, wallet>>,
         NEW w \in Workers, NEW k, NEW h, Moves(w, k, h),
         \A v \in Providers : raced[v] => raced'[v],
         Drafted(k, h, ledger, debited, wallet, raced'),
         \A v \in Providers : <<"wallet", v>> \in h =>
            <<"wallet", v>> \in held[w] \/ Free(<<"wallet", v>>)
  PROVE  WInv'
<1>1. \A u \in Workers : call'[u] = (IF u = w THEN k ELSE call[u])
                           /\ held'[u] = (IF u = w THEN h ELSE held[u])
  BY DEF Moves, Becomes, WInv, BInv, IInv, TypeOK
<1>2. WalletsAlone'
  BY <1>1 DEF WInv, WalletsAlone, Free
<1>3. \A v \in Providers : /\ Covers(ledger, debited, v, wallet[v])
                           /\ ~raced'[v] => Tallies(ledger, debited, v, wallet[v])
  BY DEF WInv
<1>4. \A u \in Workers : Drafted(call'[u], held'[u], ledger, debited, wallet, raced')
  BY <1>1 DEF WInv, Drafted, DraftsFresh
<1>5. QED
  BY <1>2, <1>3, <1>4 DEF WInv

\* A call that has written nothing, and has not just read a wallet.
LEMMA NothingDrafted ==
  ASSUME NEW k, k.step # "store", ~(k.op = "withdraw" /\ k.step = "row"),
         NEW L, NEW D, NEW wallets, NEW stale
  PROVE  Drafted(k, {}, L, D, wallets, stale)
  BY DEF Drafted, ReadsBacked, DraftsBacked, WalletsWithEntries, DraftsFresh, EntryHeld

LEMMA BlankStep ==
  ASSUME WInv, BInv', UNCHANGED <<ledger, debited, wallet, raced>>,
         NEW w \in Workers, NEW k, Moves(w, k, {}),
         k.step # "store", ~(k.op = "withdraw" /\ k.step = "row")
  PROVE  WInv'
<1>1. Drafted(k, {}, ledger, debited, wallet, raced')
  BY NothingDrafted
<1>2. QED
  BY <1>1, DraftStep

\* A call ends without a commit: it fails, returns, or loses the race for a key.
LEMMA BackStep ==
  ASSUME WInv, BInv', UNCHANGED <<ledger, debited, wallet, raced>>,
         NEW w \in Workers, Return(w), held' = [held EXCEPT ![w] = {}]
  PROVE  WInv'
<1>1. Moves(w, Idle, {}) /\ Idle.step # "store" /\ Idle.op # "withdraw"
  BY DEF Return, Moves, Idle
<1>2. QED
  BY <1>1, BlankStep

\* A call goes on without touching a wallet or entering anything.
LEMMA KeepStep ==
  ASSUME WInv, BInv', UNCHANGED <<ledger, debited, wallet, raced>>,
         NEW w \in Workers, NEW j \in Calls, NEW h \in SUBSET Rows, Moves(w, j, h),
         j.op = call[w].op, j.subject = call[w].subject, j.draft = call[w].draft,
         j.op # "withdraw", j.step # "store", call[w].step \notin MidCredit,
         held[w] \subseteq h,
         \A r \in h \ held[w] : r[1] \in {"checkout", "payment", "booking"}
  PROVE  WInv'
<1> DEFINE k == call[w]
           g == held[w]
<1>1. Drafted(k, g, ledger, debited, wallet, raced) /\ k \in Calls
  BY CallWInv
<1>2. \A v \in Providers : <<"wallet", v>> \in h <=> <<"wallet", v>> \in g
  OBVIOUS
<1>3. \A p \in Payments : EntryHeld(j, h, p) <=> EntryHeld(k, g, p)
  BY DEF EntryHeld, EntryOf
<1>4. \A v \in Providers : k.draft[v] \in Wallets
  BY <1>1 DEF Calls
<1>5. DraftsBacked(j, h, ledger, debited)
  <2>1. ASSUME NEW v \in Providers, <<"wallet", v>> \in h
        PROVE  Covers(ledger \cup h, debited \cup Debit(j), v, j.draft[v])
    <3>1. Covers(ledger \cup g, debited \cup Debit(k), v, k.draft[v])
      BY <1>1, <1>2, <2>1 DEF Drafted, DraftsBacked
    <3>2. Debit(j) = {} /\ Debit(k) = {} /\ debited \in SUBSET Withdrawals
      BY CallWInv DEF Debit
    <3>3. QED
      BY <1>4, <3>1, <3>2, CoversGrow
  <2>2. QED
    BY <2>1 DEF DraftsBacked
<1>6. ReadsBacked(j, ledger, debited) /\ WalletsWithEntries(j, h)
  BY <1>1, <1>2, <1>3 DEF Drafted, ReadsBacked, WalletsWithEntries
<1>7. DraftsFresh(j, h, wallet, raced)
  BY <1>1, <1>2, <1>3 DEF Drafted, DraftsFresh, Change
<1>8. Drafted(j, h, ledger, debited, wallet, raced')
  BY <1>5, <1>6, <1>7 DEF Drafted
<1>9. QED
  BY <1>2, <1>8, DraftStep

\* Requests, events, and what a call does before its transaction.
LEMMA StartsDraft ==
  ASSUME WInv, BInv', UNCHANGED <<ledger, debited, wallet, raced, held>>,
         NEW w \in Workers, NEW op, NEW step, NEW subject, NEW todo,
         Starts(w, op, step, subject, todo), step # "store", op # "withdraw" \/ step # "row"
  PROVE  WInv'
<1> DEFINE k == [Idle EXCEPT !.op = op, !.step = step, !.subject = subject, !.todo = todo]
<1>1. call[w].step = "idle" /\ Becomes(w, k) /\ k.op = op /\ k.step = step
  BY DEF Starts, Idle
<1>2. held[w] = {}
  BY <1>1, CallWInv DEF StepsOfOps, InTransaction
<1> HIDE DEF k
<1>3. Moves(w, k, {})
  BY <1>1, <1>2, CallWInv DEF Moves
<1>4. QED
  BY <1>1, <1>3, BlankStep

LEMMA OutsideDraft ==
  ASSUME WInv, BInv', UNCHANGED <<ledger, debited, wallet, raced, call, held>>
  PROVE  WInv'
  BY DEF WInv, WalletsAlone

LEMMA RequestDraft ==
  ASSUME WInv, BInv', NEW w \in Workers, Request(w)
  PROVE  WInv'
<1>1. ASSUME NEW c \in Checkouts, VerifyPayment(w, c)
      PROVE  WInv'
  <2>1. UNCHANGED <<ledger, debited, wallet, raced, held>>
    BY <1>1 DEF VerifyPayment, tables
  <2>2. Starts(w, "settle", "answer", c, {})
    BY <1>1 DEF VerifyPayment
  <2>3. QED
    BY <2>1, <2>2, StartsDraft
<1>2. ASSUME NEW c \in Checkouts, ProcessRefund(w, c)
      PROVE  WInv'
  <2>1. UNCHANGED <<ledger, debited, wallet, raced, held>>
    BY <1>2 DEF ProcessRefund, tables
  <2>2. PICK todo : Starts(w, "refund", "refund", c, todo)
    BY <1>2 DEF ProcessRefund
  <2>3. QED
    BY <2>1, <2>2, StartsDraft
<1>3. ASSUME NEW p \in Payments, ReleaseProviderPayout(w, p)
      PROVE  WInv'
  <2>1. UNCHANGED <<ledger, debited, wallet, raced, held>>
    BY <1>3 DEF ReleaseProviderPayout, tables
  <2>2. Starts(w, "release", "row", CheckoutOf[p], {p})
    BY <1>3 DEF ReleaseProviderPayout
  <2>3. QED
    BY <2>1, <2>2, StartsDraft
<1>4. ASSUME NEW x \in Withdrawals, WithdrawFunds(w, x)
      PROVE  WInv'
  <2>1. UNCHANGED <<ledger, debited, wallet, raced, held>>
    BY <1>4 DEF WithdrawFunds
  <2>2. Starts(w, "withdraw", "transfer", x, {})
    BY <1>4 DEF WithdrawFunds
  <2>3. QED
    BY <2>1, <2>2, StartsDraft
<1>5. QED
  BY <1>1, <1>2, <1>3, <1>4 DEF Request

LEMMA EventDraft ==
  ASSUME WInv, BInv', NEW e \in Events, Process(e)
  PROVE  WInv'
<1>1. ASSUME NEW w \in Workers, NEW c \in Checkouts, ProcessSuccess(w, c)
      PROVE  WInv'
  <2>1. UNCHANGED <<ledger, debited, wallet, raced, held>>
    BY <1>1 DEF ProcessSuccess, tables
  <2>2. Starts(w, "settle", "begin", c, {})
    BY <1>1 DEF ProcessSuccess
  <2>3. QED
    BY <2>1, <2>2, StartsDraft
<1>2. ASSUME NEW w \in Workers, NEW c \in Checkouts, ProcessFailed(w, c)
      PROVE  WInv'
  <2>1. UNCHANGED <<ledger, debited, wallet, raced, held>>
    BY <1>2 DEF ProcessFailed, tables
  <2>2. Starts(w, "fail", "fail", c, {}) \/ UNCHANGED call
    BY <1>2 DEF ProcessFailed
  <2>3. QED
    BY <2>1, <2>2, StartsDraft, OutsideDraft
<1>3. QED
  BY <1>1, <1>2 DEF Process

LEMMA BeforeDraft ==
  ASSUME WInv, BInv', NEW w \in Workers,
         \/ MarkCheckoutFailed(w) \/ VerifyTransaction(w) \/ ReadCheckout(w)
         \/ RefundAtGateway(w) \/ CreateTransfer(w)
  PROVE  WInv'
<1> DEFINE k == call[w]
           On(step) == [k EXCEPT !.step = step]
<1>1. k \in Calls /\ StepsOfOps(k, held[w])
  BY CallWInv
<1>2. held[w] = {} /\ UNCHANGED <<ledger, debited, wallet, raced, held>>
  BY <1>1 DEF MarkCheckoutFailed, VerifyTransaction, ReadCheckout, RefundAtGateway,
              CreateTransfer, At, StepsOfOps, InTransaction, tables
<1>3. CASE Return(w)
  BY <1>2, <1>3, CallWInv, BackStep
<1>4. ASSUME NEW step \in {"begin", "list", "lock", "load"}, Goto(w, step)
      PROVE  WInv'
  <2>1. Moves(w, On(step), {}) /\ On(step).step = step
    BY <1>1, <1>2, <1>4, CallWInv DEF Goto, Moves, Calls
  <2> HIDE DEF On
  <2>2. QED
    BY <1>2, <2>1, BlankStep
<1>5. Return(w) \/ \E step \in {"begin", "list", "lock", "load"} : Goto(w, step)
  BY DEF MarkCheckoutFailed, VerifyTransaction, ReadCheckout, RefundAtGateway,
         CreateTransfer, At
<1>6. QED
  BY <1>3, <1>4, <1>5

\* Inside the transaction, up to the entry and from the wallet on.
LEMMA LoopDraft ==
  ASSUME WInv, BInv', NEW w \in Workers,
         \/ UpdateCheckout(w) \/ ListPayments(w) \/ UpdatePayment(w) \/ FindEntry(w)
         \/ SyncBooking(w)
  PROVE  WInv'
<1> DEFINE k == call[w]
<1>1. /\ k \in Calls /\ held[w] \in SUBSET Rows /\ StepsOfOps(k, held[w])
      /\ held = [held EXCEPT ![w] = held[w]]
  BY CallWInv
<1>2. UNCHANGED <<ledger, debited, wallet, raced>>
  BY DEF UpdateCheckout, ListPayments, UpdatePayment, FindEntry, SyncBooking, tables
<1>3. k.step \notin MidCredit
  BY DEF UpdateCheckout, ListPayments, UpdatePayment, FindEntry, SyncBooking, MidCredit
<1>4. k.op # "withdraw"
  <2>1. CASE UpdatePayment(w)
    BY <1>1, <2>1 DEF UpdatePayment, NextUp, StepsOfOps
  <2>2. CASE ~UpdatePayment(w)
    BY <1>1, <2>2 DEF UpdateCheckout, ListPayments, FindEntry, SyncBooking, StepsOfOps
  <2>3. QED
    BY <2>1, <2>2
<1>5. PICK j : /\ Becomes(w, j) /\ j.op = k.op /\ j.subject = k.subject
               /\ j.draft = k.draft /\ j.step # "store"
  <2>1. ASSUME NEW step, step # "store", Goto(w, step)
        PROVE  \E j : /\ Becomes(w, j) /\ j.op = k.op /\ j.subject = k.subject
                      /\ j.draft = k.draft /\ j.step # "store"
    <3> DEFINE j == [k EXCEPT !.step = step]
    <3>1. /\ j.op = k.op /\ j.subject = k.subject /\ j.draft = k.draft /\ j.step # "store"
      BY <1>1, <2>1 DEF Calls
    <3>2. Becomes(w, j)
      BY <2>1 DEF Goto
    <3> HIDE DEF j
    <3>3. QED
      BY <3>1, <3>2
  <2>2. CASE ListPayments(w)
    <3> DEFINE listed == PaymentsOf(k.subject)
               j == [k EXCEPT !.step = "row", !.todo = listed,
                              !.unpaid = {p \in listed : deposit[p] # "paid"}]
    <3>1. /\ j.op = k.op /\ j.subject = k.subject /\ j.draft = k.draft /\ j.step # "store"
      BY <1>1 DEF Calls
    <3>2. Becomes(w, j)
      BY <2>2 DEF ListPayments
    <3> HIDE DEF j
    <3>3. QED
      BY <3>1, <3>2
  <2>3. CASE UpdatePayment(w)
    <3>1. PICK p : Becomes(w, [k EXCEPT !.step = "find", !.current = p, !.todo = @ \ {p}])
      BY <2>3 DEF UpdatePayment
    <3> DEFINE j == [k EXCEPT !.step = "find", !.current = p, !.todo = @ \ {p}]
    <3>2. /\ j.op = k.op /\ j.subject = k.subject /\ j.draft = k.draft /\ j.step # "store"
      BY <1>1 DEF Calls
    <3>3. Becomes(w, j)
      BY <3>1
    <3> HIDE DEF j
    <3>4. QED
      BY <3>2, <3>3
  <2>4. CASE UpdateCheckout(w)
    BY <2>1, <2>4 DEF UpdateCheckout
  <2>5. CASE FindEntry(w)
    BY <2>1, <2>5 DEF FindEntry
  <2>6. CASE SyncBooking(w)
    BY <2>1, <2>6 DEF SyncBooking
  <2>7. QED
    BY <2>2, <2>3, <2>4, <2>5, <2>6
<1>6. PICK h : /\ held' = [held EXCEPT ![w] = h]
               /\ held[w] \subseteq h
               /\ \A r \in h \ held[w] : r[1] \in {"checkout", "payment", "booking"}
  <2>1. ASSUME NEW r, r[1] \in {"checkout", "payment", "booking"}, Hold(w, r)
        PROVE  \E h : /\ held' = [held EXCEPT ![w] = h]
                      /\ held[w] \subseteq h
                      /\ \A s \in h \ held[w] : s[1] \in {"checkout", "payment", "booking"}
    <3>1. held' = [held EXCEPT ![w] = held[w] \cup {r}]
      BY <2>1 DEF Hold
    <3>2. QED
      BY <2>1, <3>1
  <2>2. ASSUME UNCHANGED held
        PROVE  \E h : /\ held' = [held EXCEPT ![w] = h]
                      /\ held[w] \subseteq h
                      /\ \A s \in h \ held[w] : s[1] \in {"checkout", "payment", "booking"}
    BY <1>1, <2>2
  <2>3. CASE UpdateCheckout(w)
    <3>1. Hold(w, <<"checkout", k.subject>>)
      BY <2>3 DEF UpdateCheckout
    <3>2. QED
      BY <2>1, <3>1
  <2>4. CASE ListPayments(w) \/ FindEntry(w)
    BY <2>2, <2>4 DEF ListPayments, FindEntry
  <2>5. CASE UpdatePayment(w)
    <3>1. PICK p : UNCHANGED held \/ Hold(w, <<"payment", p>>)
      BY <2>5 DEF UpdatePayment
    <3>2. CASE Hold(w, <<"payment", p>>)
      BY <2>1, <3>2
    <3>3. QED
      BY <2>2, <3>1, <3>2
  <2>6. CASE SyncBooking(w)
    <3>1. Hold(w, <<"booking", k.current>>)
      BY <2>6 DEF SyncBooking
    <3>2. QED
      BY <2>1, <3>1
  <2>7. QED
    BY <2>3, <2>4, <2>5, <2>6
<1>7. Moves(w, j, h) /\ call'[w] = j /\ held'[w] = h
  BY <1>5, <1>6 DEF Moves, Becomes, WInv, BInv, IInv, TypeOK
<1>8. j \in Calls /\ h \in SUBSET Rows
  BY <1>7 DEF BInv, IInv, TypeOK
<1>9. QED
  BY <1>2, <1>3, <1>4, <1>5, <1>6, <1>7, <1>8, KeepStep

\* One provider has one payment of a checkout: two that a call touches are one.
LEMMA OnePayment ==
  ASSUME NEW k, NEW h, InScope(k, h), NEW p \in Payments, NEW q \in Payments,
         Touches(k, h, p), Touches(k, h, q), ProviderOf[p] = ProviderOf[q]
  PROVE  p = q
  BY GroupsAssumption DEF InScope

LEMMA HeldIsTouched ==
  ASSUME NEW k, NEW h, NEW p, EntryHeld(k, h, p)
  PROVE  Touches(k, h, p)
<1>1. EntryOf(k.op) \in EntryTypes
  BY DEF EntryOf, EntryTypes
<1>2. QED
  BY <1>1 DEF EntryHeld, Touches

\* A new entry: its provider's wallet has not been written yet.
LEMMA InsertDraft ==
  ASSUME WInv, BInv', NEW w \in Workers, InsertEntry(w)
  PROVE  WInv'
<1> DEFINE k == call[w]
           g == held[w]
           p == k.current
           entry == <<EntryOf(k.op), p>>
           h == g \cup {entry}
           j == [k EXCEPT !.step = "load"]
<1>1. /\ k \in Calls /\ g \in SUBSET Rows /\ StepsOfOps(k, g) /\ InScope(k, g)
      /\ Complete(k, g) /\ held = [held EXCEPT ![w] = g]
      /\ Drafted(k, g, ledger, debited, wallet, raced) /\ debited \in SUBSET Withdrawals
      /\ k.step = "insert"
  BY CallWInv DEF InsertEntry
<1>2. UNCHANGED <<ledger, debited, wallet, raced>>
  BY DEF InsertEntry, tables
<1>3. CASE entry \in ledger
  BY <1>2, <1>3, BackStep DEF InsertEntry
<1>4. CASE entry \notin ledger
  <2>1. Moves(w, j, h) /\ entry \notin g
    BY <1>4 DEF InsertEntry, Goto, Hold, Moves, Free
  <2>2. j.step = "load" /\ j.op = k.op /\ j.current = p /\ j.subject = k.subject
        /\ j.draft = k.draft
    BY <1>1 DEF Calls
  <2>3. /\ k.op # "withdraw" /\ p \in Payments /\ IsAt(k, p)
        /\ EntryOf(k.op) \in EntryTypes
    BY <1>1 DEF StepsOfOps, Loop, MidEntry, IsAt, EntryOf, EntryTypes
  <2> HIDE DEF j
  <2>4. \A v \in Providers : <<"wallet", v>> \in h <=> <<"wallet", v>> \in g
    BY <2>3 DEF EntryTypes
  <2>5. \A q \in Payments : EntryHeld(j, h, q) <=> EntryHeld(k, g, q) \/ q = p
    BY <2>2 DEF EntryHeld, EntryOf
  <2>6. \A v \in Providers : <<"wallet", v>> \in g => v # ProviderOf[p]
    <3>1. ASSUME <<"wallet", ProviderOf[p]>> \in g, ProviderOf[p] \in Providers
          PROVE  FALSE
      <4>1. PICK q \in Payments : ProviderOf[q] = ProviderOf[p] /\ EntryHeld(k, g, q)
        BY <1>1, <2>3, <3>1 DEF Complete
      <4>2. Touches(k, g, q) /\ Touches(k, g, p)
        BY <2>3, <4>1, HeldIsTouched DEF Touches
      <4>3. q = p
        BY <1>1, <2>3, <4>1, <4>2, OnePayment
      <4>4. QED
        BY <2>1, <4>1, <4>3 DEF EntryHeld
    <3>2. QED
      BY <3>1
  <2>7. DraftsBacked(j, h, ledger, debited)
    <3>1. ASSUME NEW v \in Providers, <<"wallet", v>> \in h
          PROVE  Covers(ledger \cup h, debited \cup Debit(j), v, j.draft[v])
      <4>1. Covers(ledger \cup g, debited \cup Debit(k), v, k.draft[v])
        BY <1>1, <2>4, <3>1 DEF Drafted, DraftsBacked
      <4>2. Debit(j) = {} /\ Debit(k) = {} /\ k.draft[v] \in Wallets
        BY <1>1, <2>2, <2>3 DEF Debit, Calls
      <4>3. ledger \cup g \subseteq ledger \cup h
        OBVIOUS
      <4>4. QED
        BY <1>1, <2>2, <4>1, <4>2, <4>3, CoversGrow
    <3>2. QED
      BY <3>1 DEF DraftsBacked
  <2>8. WalletsWithEntries(j, h)
    <3>1. IsAt(j, p) /\ j.step \in MidCredit /\ k.step \notin MidCredit
      <4>1. "load" \in Loop \ {"row"} /\ "load" \in MidCredit /\ "insert" \notin MidCredit
        BY DEF Loop, MidCredit
      <4>2. QED
        BY <1>1, <2>2, <2>3, <4>1 DEF IsAt
    <3>2. QED
      BY <1>1, <2>2, <2>3, <2>4, <2>5, <3>1 DEF Drafted, WalletsWithEntries
  <2>9. DraftsFresh(j, h, wallet, raced)
    BY <1>1, <2>2, <2>3, <2>4, <2>5, <2>6 DEF Drafted, DraftsFresh, Change
  <2>10. Drafted(j, h, ledger, debited, wallet, raced')
    BY <1>2, <2>2, <2>7, <2>8, <2>9 DEF Drafted, ReadsBacked
  <2>11. QED
    BY <1>2, <2>1, <2>4, <2>10, DraftStep
<1>5. QED
  BY <1>3, <1>4

\* Reading a wallet: what is read is covered.
LEMMA ReadDraft ==
  ASSUME WInv, BInv', NEW w \in Workers, ReadWallet(w)
  PROVE  WInv'
<1> DEFINE k == call[w]
           g == held[w]
           v == WalletOf(k)
           j == [k EXCEPT !.step = "store", !.seen = wallet[v]]
<1>1. /\ k \in Calls /\ StepsOfOps(k, g) /\ held = [held EXCEPT ![w] = g]
      /\ Drafted(k, g, ledger, debited, wallet, raced)
      /\ k.step = "load" /\ (k.op = "withdraw" => k.subject \in Withdrawals)
  BY CallWInv DEF ReadWallet
<1>2. UNCHANGED <<ledger, debited, wallet, raced>>
  BY DEF ReadWallet, tables
<1>3. Moves(w, j, g)
  BY <1>1 DEF ReadWallet, Moves
<1>4. /\ j.step = "store" /\ j.op = k.op /\ j.current = k.current
      /\ j.subject = k.subject /\ j.draft = k.draft /\ j.seen = wallet[v]
  BY <1>1 DEF Calls
<1>5. WalletOf(j) = v /\ v \in Providers
  <2>1. k.op # "withdraw" => k.current \in Payments
    BY <1>1 DEF StepsOfOps, Loop
  <2>2. QED
    BY <1>1, <1>4, <2>1, RowsAssumption DEF WalletOf
<1> HIDE DEF j
<1>6. ReadsBacked(j, ledger, debited)
  BY <1>4, <1>5 DEF ReadsBacked, WInv
<1>7. DraftsBacked(j, g, ledger, debited)
  BY <1>1, <1>4 DEF Drafted, DraftsBacked, Debit
<1>8. WalletsWithEntries(j, g)
  BY <1>1, <1>4 DEF Drafted, WalletsWithEntries, EntryHeld, EntryOf, IsAt, MidCredit, Loop
<1>9. DraftsFresh(j, g, wallet, raced)
  BY <1>1, <1>4 DEF Drafted, DraftsFresh, Change, EntryHeld, EntryOf
<1>10. Drafted(j, g, ledger, debited, wallet, raced')
  BY <1>2, <1>6, <1>7, <1>8, <1>9 DEF Drafted
<1>11. QED
  BY <1>2, <1>3, <1>10, DraftStep

\* Writing a wallet back: the entry or the debit that explains the change is new,
\* and if nothing was committed since the read it is a change to what is there.
LEMMA PersistDraft ==
  ASSUME WInv, BInv', NEW w \in Workers, PersistWallet(w)
  PROVE  WInv'
<1> DEFINE k == call[w]
           g == held[w]
           p == k.current
           v == WalletOf(k)
           h == g \cup {<<"wallet", v>>}
<1>1. /\ k \in Calls /\ g \in SUBSET Rows /\ StepsOfOps(k, g) /\ InScope(k, g)
      /\ Complete(k, g) /\ Backed(k)
      /\ Drafted(k, g, ledger, debited, wallet, raced) /\ debited \in SUBSET Withdrawals
      /\ wallet \in [Providers -> Wallets] /\ raced \in [Providers -> BOOLEAN]
      /\ k.step = "store"
  BY CallWInv DEF PersistWallet
<1>2. UNCHANGED <<ledger, debited, wallet>>
  BY DEF PersistWallet, tables
<1>3. /\ k.op \in {"settle", "refund", "release", "withdraw"}
      /\ k.op = "withdraw" => /\ k.subject \in Withdrawals \ debited
                              /\ RequesterOf[k.subject] = v
      /\ k.op # "withdraw" => /\ p \in Payments /\ ProviderOf[p] = v /\ IsAt(k, p)
                              /\ EntryHeld(k, g, p)
      /\ v \in Providers
  <2>1. "store" \in Loop \ {"row"} /\ "store" \in MidCredit
    BY DEF Loop, MidCredit
  <2>2. k.op \in {"settle", "refund", "release", "withdraw"}
    BY <1>1 DEF Calls, Ops, StepsOfOps
  <2>3. CASE k.op = "withdraw"
    BY <1>1, <2>2, <2>3, RowsAssumption DEF StepsOfOps, Backed, WalletOf
  <2>4. CASE k.op # "withdraw"
    <3>1. p \in Payments /\ IsAt(k, p)
      BY <1>1, <2>1, <2>4 DEF StepsOfOps, IsAt
    <3>2. EntryHeld(k, g, p)
      BY <1>1, <2>1, <3>1 DEF Complete
    <3>3. v = ProviderOf[p] /\ v \in Providers
      BY <2>4, <3>1, RowsAssumption DEF WalletOf
    <3>4. QED
      BY <2>2, <2>4, <3>1, <3>2, <3>3
  <2>5. QED
    BY <2>3, <2>4
<1>4. Free(<<"wallet", v>>) /\ <<"wallet", v>> \notin g
  BY DEF PersistWallet, Free
<1>5. PICK j : /\ Moves(w, j, h) /\ j.op = k.op /\ j.subject = k.subject
               /\ j.draft = [k.draft EXCEPT ![v] = DeltaApplied(k)]
               /\ j.step \in {"sync", "row"}
  <2> DEFINE j == [k EXCEPT !.step = IF k.op \in {"settle", "refund"} THEN "sync" ELSE "row",
                            !.seen = EmptyWallet,
                            !.draft = [@ EXCEPT ![v] = DeltaApplied(k)]]
  <2>1. Moves(w, j, h)
    BY DEF PersistWallet, Hold, Moves
  <2>2. /\ j.op = k.op /\ j.subject = k.subject
        /\ j.draft = [k.draft EXCEPT ![v] = DeltaApplied(k)]
        /\ j.step \in {"sync", "row"}
    BY <1>1 DEF Calls
  <2> HIDE DEF j
  <2>3. QED
    BY <2>1, <2>2
<1>6. /\ raced' = [raced EXCEPT ![v] = raced[v] \/ k.seen # wallet[v]]
      /\ \A x \in Providers : raced[x] => raced'[x]
      /\ ~raced'[v] => k.seen = wallet[v]
  <2>1. raced' = [raced EXCEPT ![v] = raced[v] \/ k.seen # wallet[v]]
    BY DEF PersistWallet
  <2>2. \A x \in Providers : raced'[x] = (IF x = v THEN raced[v] \/ k.seen # wallet[v] ELSE raced[x])
    BY <1>1, <2>1
  <2>3. QED
    BY <1>3, <2>1, <2>2
<1>7. \A x \in Providers : j.draft[x] = IF x = v THEN DeltaApplied(k) ELSE k.draft[x]
  BY <1>1, <1>5 DEF Calls
<1>8. DeltaApplied(k) = Change(k, p, k.seen)
      /\ (k.op = "withdraw" => DeltaApplied(k) = Change(k, None, k.seen))
  BY DEF Change, DeltaApplied
<1>9. /\ EntryOf(k.op) \in EntryTypes /\ Debit(j) = Debit(k)
      /\ \A q \in Payments : EntryHeld(j, h, q) <=> EntryHeld(k, g, q)
  <2>1. EntryOf(k.op) \in EntryTypes /\ EntryOf(j.op) = EntryOf(k.op)
    BY <1>5 DEF EntryOf, EntryTypes
  <2>2. \A q : <<EntryOf(k.op), q>> # <<"wallet", v>>
    BY <2>1 DEF EntryTypes
  <2>3. QED
    BY <1>5, <2>1, <2>2 DEF EntryHeld, Debit
<1>10. DraftsBacked(j, h, ledger, debited)
  <2>1. Covers(ledger \cup h, debited \cup Debit(k), v, DeltaApplied(k))
    <3>1. Covers(ledger, debited, v, k.seen) /\ k.seen \in Wallets
      BY <1>1 DEF Drafted, ReadsBacked, Calls
    <3>2. k.op # "withdraw" => <<EntryOf(k.op), p>> \in (ledger \cup h) \ ledger
      <4>1. k.op # "withdraw" => /\ <<EntryOf(k.op), p>> \in held[w]
                                 /\ <<EntryOf(k.op), p>> \in Entries
        BY <1>3, <1>9 DEF EntryHeld, Entries
      <4>2. QED
        BY <4>1 DEF WInv, BInv, Alone
    <3>3. ledger \subseteq ledger \cup h
      OBVIOUS
    <3>4. Covers(ledger \cup h, debited \cup Debit(k), v, Change(k, p, k.seen))
      BY <1>1, <1>3, <3>1, <3>2, <3>3, ChangeCovered
    <3>5. QED
      BY <1>8, <3>4
  <2>2. ASSUME NEW x \in Providers, <<"wallet", x>> \in h, x # v
        PROVE  Covers(ledger \cup h, debited \cup Debit(k), x, k.draft[x])
    <3>1. Covers(ledger \cup g, debited \cup Debit(k), x, k.draft[x])
      BY <1>1, <2>2 DEF Drafted, DraftsBacked
    <3>2. k.draft[x] \in Wallets /\ debited \cup Debit(k) \in SUBSET Withdrawals
      BY <1>1, <1>3 DEF Calls, Debit
    <3>3. ledger \cup g \subseteq ledger \cup h
      OBVIOUS
    <3>4. QED
      BY <3>1, <3>2, <3>3, CoversGrow
  <2>3. QED
    BY <1>7, <1>9, <2>1, <2>2 DEF DraftsBacked
<1>11. WalletsWithEntries(j, h)
  <2>1. ASSUME NEW q \in Payments, EntryHeld(k, g, q)
        PROVE  <<"wallet", ProviderOf[q]>> \in h
    <3>1. CASE <<"wallet", ProviderOf[q]>> \in g
      BY <3>1
    <3>2. CASE IsAt(k, q)
      BY <1>3, <3>2 DEF IsAt
    <3>3. QED
      BY <1>1, <2>1, <3>1, <3>2 DEF Drafted, WalletsWithEntries
  <2>2. k.op = "withdraw" => <<"wallet", RequesterOf[k.subject]>> \in h
    BY <1>3
  <2>3. QED
    BY <1>5, <1>9, <2>1, <2>2 DEF WalletsWithEntries
<1>12. DraftsFresh(j, h, wallet, raced')
  <2>1. ASSUME NEW x \in Providers, <<"wallet", x>> \in h, ~raced'[x], x # v
        PROVE  /\ k.op = "withdraw" => k.draft[x] = Change(k, None, wallet[x])
               /\ \A q \in Payments : (k.op # "withdraw" /\ EntryHeld(k, g, q) /\ ProviderOf[q] = x) =>
                    k.draft[x] = Change(k, q, wallet[x])
    BY <1>1, <1>6, <2>1 DEF Drafted, DraftsFresh
  <2>2. ASSUME ~raced'[v]
        PROVE  /\ k.op = "withdraw" => DeltaApplied(k) = Change(k, None, wallet[v])
               /\ \A q \in Payments : (k.op # "withdraw" /\ EntryHeld(k, g, q) /\ ProviderOf[q] = v) =>
                    DeltaApplied(k) = Change(k, q, wallet[v])
    <3>1. k.seen = wallet[v]
      BY <1>6, <2>2
    <3>2. ASSUME NEW q \in Payments, k.op # "withdraw", EntryHeld(k, g, q), ProviderOf[q] = v
          PROVE  q = p
      <4>1. Touches(k, g, q) /\ Touches(k, g, p)
        BY <1>3, <3>2, HeldIsTouched DEF Touches
      <4>2. QED
        BY <1>1, <1>3, <3>2, <4>1, OnePayment
    <3>3. QED
      BY <1>8, <3>1, <3>2
  <2>3. \A q, b : Change(j, q, b) = Change(k, q, b)
    BY <1>5 DEF Change
  <2>4. ASSUME NEW x \in Providers, <<"wallet", x>> \in h, ~raced'[x]
        PROVE  /\ k.op = "withdraw" => j.draft[x] = Change(k, None, wallet[x])
               /\ \A q \in Payments : (k.op # "withdraw" /\ EntryHeld(k, g, q) /\ ProviderOf[q] = x) =>
                    j.draft[x] = Change(k, q, wallet[x])
    <3>1. CASE x = v
      BY <1>7, <2>2, <2>4, <3>1
    <3>2. CASE x # v
      BY <1>7, <2>1, <2>4, <3>2
    <3>3. QED
      BY <3>1, <3>2
  <2> HIDE DEF h
  <2>5. QED
    BY <1>5, <1>9, <2>3, <2>4 DEF DraftsFresh
<1>13. Drafted(j, h, ledger, debited, wallet, raced')
  BY <1>5, <1>10, <1>11, <1>12 DEF Drafted, ReadsBacked
<1>14. \A x \in Providers : <<"wallet", x>> \in h => <<"wallet", x>> \in g \/ Free(<<"wallet", x>>)
  BY <1>4
<1> HIDE DEF h
<1>15. QED
  BY <1>2, <1>5, <1>6, <1>13, <1>14, DraftStep

\* A commit publishes the drafts: each wallet it writes gets the one change that
\* its one entry, or its debit, explains.
LEMMA CommitTallies ==
  ASSUME WInv, NEW w \in Workers, Commit(w), NEW v \in Providers, ~raced[v]
  PROVE  Tallies(ledger \cup held[w], debited \cup Debit(call[w]), v,
                 IF <<"wallet", v>> \in held[w] THEN call[w].draft[v] ELSE wallet[v])
<1> DEFINE k == call[w]
           h == held[w]
           M == ledger \cup h
           E == debited \cup Debit(k)
           b == wallet[v]
<1>1. /\ k \in Calls /\ h \in SUBSET Rows /\ StepsOfOps(k, h) /\ InScope(k, h)
      /\ Complete(k, h) /\ Backed(k)
      /\ Drafted(k, h, ledger, debited, wallet, raced) /\ debited \in SUBSET Withdrawals
      /\ b \in Wallets /\ k.step = "row" /\ k.todo = {}
      /\ k.op = "withdraw" => k.subject \in Withdrawals \ debited
  BY CallWInv DEF Commit, Backed
<1>2. /\ b.pendingBalance \in Nat /\ b.availableBalance \in Nat
      /\ b.totalEarnings \in Nat /\ b.totalWithdrawn \in Nat
  BY <1>1 DEF Wallets
<1>3. Tallies(ledger, debited, v, b)
  BY DEF WInv
<1>4. ASSUME NEW p \in Payments, NEW type \in EntryTypes, <<type, p>> \in h
      PROVE  /\ type = EntryOf(k.op) /\ EntryHeld(k, h, p) /\ <<type, p>> \notin ledger
             /\ k.op \in {"settle", "refund", "release"}
             /\ <<"wallet", ProviderOf[p]>> \in h
  <2>1. type = EntryOf(k.op) /\ k.op \in {"settle", "refund", "release"}
    BY <1>4, CommitWrites DEF WInv
  <2>2. <<type, p>> \notin ledger
    BY <1>4 DEF WInv, BInv, Alone, Entries
  <2>3. EntryHeld(k, h, p)
    BY <1>4, <2>1 DEF EntryHeld
  <2>4. ~IsAt(k, p)
    BY <1>1 DEF IsAt
  <2>5. QED
    BY <1>1, <2>1, <2>2, <2>3, <2>4 DEF Drafted, WalletsWithEntries
<1>5. E \in SUBSET Withdrawals /\ (k.op = "withdraw" => E = debited \cup {k.subject})
      /\ (k.op # "withdraw" => E = debited)
  BY <1>1 DEF Debit
<1>6. /\ \A type \in EntryTypes : Credits(ledger, v, type) \in Nat
      /\ Debts(debited, v) \in Nat
  BY <1>1, CreditsGrow, DebtsGrow
<1> DEFINE Same(type) == Credits(M, v, type) = Credits(ledger, v, type)
<1>7. CASE <<"wallet", v>> \notin h
  <2>1. \A type \in EntryTypes : Same(type)
    <3>1. ASSUME NEW type \in EntryTypes
          PROVE  \A p \in Payments : ProviderOf[p] = v => (<<type, p>> \in M <=> <<type, p>> \in ledger)
      BY <1>4, <1>7
    <3>2. QED
      BY <3>1, SameTotals
  <2>2. Debts(E, v) = Debts(debited, v)
    <3>1. k.op = "withdraw" => RequesterOf[k.subject] # v
      BY <1>1, <1>7 DEF Drafted, WalletsWithEntries
    <3>2. {x \in E : RequesterOf[x] = v} = {x \in debited : RequesterOf[x] = v}
      BY <1>5, <3>1
    <3>3. QED
      BY <3>2 DEF Debts
  <2>3. "deposit_pending_credit" \in EntryTypes /\ "refund_debit" \in EntryTypes
        /\ "payout_release_credit" \in EntryTypes
    BY DEF EntryTypes
  <2> HIDE DEF M, E
  <2>4. Tallies(M, E, v, b)
    BY <1>3, <2>1, <2>2, <2>3 DEF Tallies
  <2>5. QED
    BY <1>7, <2>4 DEF M, E
<1>8. CASE <<"wallet", v>> \in h /\ k.op = "withdraw"
  <2> DEFINE n == WithdrawAmount[k.subject]
  <2>1. \A type \in EntryTypes : Same(type)
    <3>1. ASSUME NEW type \in EntryTypes
          PROVE  \A p \in Payments : ProviderOf[p] = v => (<<type, p>> \in M <=> <<type, p>> \in ledger)
      BY <1>4, <1>8
    <3>2. QED
      BY <3>1, SameTotals
  <2>2. RequesterOf[k.subject] = v
    BY <1>1, <1>8 DEF Complete
  <2>3. n \in Nat /\ Debts(E, v) = Debts(debited, v) + n
    BY <1>1, <1>5, <1>8, <2>2, DebtsAdd
  <2>4. k.draft[v] = Applied(b, 0, -n, 0, n)
    BY <1>1, <1>8 DEF Drafted, DraftsFresh, Change, DeltaApplied
  <2>5. "deposit_pending_credit" \in EntryTypes /\ "refund_debit" \in EntryTypes
        /\ "payout_release_credit" \in EntryTypes
    BY DEF EntryTypes
  <2> HIDE DEF M, E, n, b
  <2>6. Tallies(M, E, v, k.draft[v])
    BY <1>2, <1>3, <1>6, <2>1, <2>3, <2>4, <2>5 DEF Tallies, Applied, AtLeastZero
  <2>7. QED
    BY <1>8, <2>6 DEF M, E
<1>9. CASE <<"wallet", v>> \in h /\ k.op # "withdraw"
  <2>1. PICK p \in Payments : ProviderOf[p] = v /\ EntryHeld(k, h, p)
    BY <1>1, <1>9 DEF Complete
  <2> DEFINE n == Amount[p]
             own == EntryOf(k.op)
  <2>2. /\ own \in EntryTypes /\ <<own, p>> \in h /\ <<own, p>> \notin ledger
        /\ k.op \in {"settle", "refund", "release"}
    <3>1. own \in EntryTypes
      BY DEF EntryOf, EntryTypes
    <3>2. QED
      BY <1>4, <2>1, <3>1 DEF EntryHeld
  <2>3. ASSUME NEW q \in Payments, NEW type \in EntryTypes, ProviderOf[q] = v,
               <<type, q>> \in h
        PROVE  q = p /\ type = own
    <3>1. EntryHeld(k, h, q) /\ type = own
      BY <1>4, <2>3
    <3>2. Touches(k, h, q) /\ Touches(k, h, p)
      BY <2>1, <3>1, HeldIsTouched
    <3>3. QED
      BY <1>1, <2>1, <2>3, <3>1, <3>2, OnePayment
  <2>4. n \in Nat /\ Credits(M, v, own) = Credits(ledger, v, own) + n
    <3>1. \A q \in Payments \ {p} : (ProviderOf[q] = v /\ <<own, q>> \in M) => <<own, q>> \in ledger
      BY <2>2, <2>3
    <3>2. ledger \subseteq M /\ <<own, p>> \in M
      BY <2>2
    <3> HIDE DEF M, own
    <3>3. QED
      BY <2>1, <2>2, <3>1, <3>2, CreditsAdd
  <2>5. ASSUME NEW type \in EntryTypes, type # own
        PROVE  Same(type)
    <3>1. \A q \in Payments : ProviderOf[q] = v => (<<type, q>> \in M <=> <<type, q>> \in ledger)
      BY <2>3, <2>5
    <3>2. QED
      BY <3>1, SameTotals
  <2>6. Debts(E, v) = Debts(debited, v)
    BY <1>5, <1>9
  <2>7. k.draft[v] = Change(k, p, b)
    BY <1>1, <1>9, <2>1 DEF Drafted, DraftsFresh
  <2>8. /\ "deposit_pending_credit" \in EntryTypes /\ "refund_debit" \in EntryTypes
        /\ "payout_release_credit" \in EntryTypes
    BY DEF EntryTypes
  <2>9. /\ k.op = "settle" => /\ k.draft[v] = Applied(b, n, 0, 0, 0)
                              /\ own = "deposit_pending_credit"
        /\ k.op = "refund" => /\ k.draft[v] = Applied(b, -n, 0, 0, 0)
                              /\ own = "refund_debit"
        /\ k.op = "release" => /\ k.draft[v] = Applied(b, -n, n, n, 0)
                               /\ own = "payout_release_credit"
    BY <2>7 DEF Change, DeltaApplied, EntryOf
  <2> HIDE DEF M, E, n, b, own
  <2>10. ASSUME k.op = "settle"
         PROVE  Tallies(M, E, v, k.draft[v])
    BY <1>2, <1>3, <1>6, <2>4, <2>5, <2>6, <2>8, <2>9, <2>10 DEF Tallies, Applied, AtLeastZero
  <2>11. ASSUME k.op = "refund"
         PROVE  Tallies(M, E, v, k.draft[v])
    BY <1>2, <1>3, <1>6, <2>4, <2>5, <2>6, <2>8, <2>9, <2>11 DEF Tallies, Applied, AtLeastZero
  <2>12. ASSUME k.op = "release"
         PROVE  Tallies(M, E, v, k.draft[v])
    BY <1>2, <1>3, <1>6, <2>4, <2>5, <2>6, <2>8, <2>9, <2>12 DEF Tallies, Applied, AtLeastZero
  <2>13. Tallies(M, E, v, k.draft[v])
    BY <2>2, <2>10, <2>11, <2>12
  <2>14. QED
    BY <1>9, <2>13 DEF M, E
<1>10. QED
  BY <1>7, <1>8, <1>9

LEMMA CommitDraft ==
  ASSUME WInv, BInv', NEW w \in Workers, Commit(w)
  PROVE  WInv'
<1> DEFINE k == call[w]
           h == held[w]
           M == ledger \cup h
           E == debited \cup Debit(k)
<1>1. /\ k \in Calls /\ StepsOfOps(k, h) /\ k.step = "row"
      /\ Drafted(k, h, ledger, debited, wallet, raced) /\ debited \in SUBSET Withdrawals
      /\ wallet \in [Providers -> Wallets]
      /\ k.op = "withdraw" => k.subject \in Withdrawals
  BY CallWInv DEF Commit
<1>2. /\ ledger' = ledger \cup (h \cap Entries) /\ debited' = E
      /\ UNCHANGED raced
      /\ \A v \in Providers :
           wallet'[v] = IF <<"wallet", v>> \in h THEN k.draft[v] ELSE wallet[v]
  BY DEF Commit, Debit
<1>3. \A v, type : type \in EntryTypes => Credits(ledger', v, type) = Credits(M, v, type)
  BY <1>2, SameTotals DEF Entries
<1>4. /\ "deposit_pending_credit" \in EntryTypes /\ "refund_debit" \in EntryTypes
      /\ "payout_release_credit" \in EntryTypes
  BY DEF EntryTypes
<1>5. \A v, b : /\ Covers(ledger', debited', v, b) <=> Covers(M, E, v, b)
                /\ Tallies(ledger', debited', v, b) <=> Tallies(M, E, v, b)
  BY <1>2, <1>3, <1>4 DEF Covers, Tallies
<1>6. ledger \subseteq ledger' /\ debited \subseteq debited' /\ debited' \in SUBSET Withdrawals
  BY <1>1, <1>2 DEF Debit
<1>7. \A u \in Workers : call'[u] = (IF u = w THEN Idle ELSE call[u])
                           /\ held'[u] = (IF u = w THEN {} ELSE held[u])
  BY DEF Commit, Return, Becomes, WInv, BInv, IInv, TypeOK
<1>8. ASSUME NEW v \in Providers
      PROVE  /\ Covers(ledger', debited', v, wallet'[v])
             /\ ~raced'[v] => Tallies(ledger', debited', v, wallet'[v])
  <2>1. CASE <<"wallet", v>> \in h
    <3>1. Covers(M, E, v, k.draft[v])
      BY <1>1, <2>1 DEF Drafted, DraftsBacked
    <3>2. ~raced[v] => Tallies(M, E, v, k.draft[v])
      BY <2>1, CommitTallies
    <3> HIDE DEF M, E
    <3>3. QED
      BY <1>2, <1>5, <2>1, <3>1, <3>2
  <2>2. CASE <<"wallet", v>> \notin h
    <3>1. Covers(ledger', debited', v, wallet[v])
      BY <1>1, <1>6, CoversGrow DEF WInv
    <3>2. ~raced[v] => Tallies(M, E, v, wallet[v])
      BY <2>2, CommitTallies
    <3> HIDE DEF M, E
    <3>3. QED
      BY <1>2, <1>5, <2>2, <3>1, <3>2
  <2>3. QED
    BY <2>1, <2>2
<1>9. ASSUME NEW u \in Workers
      PROVE  Drafted(call'[u], held'[u], ledger', debited', wallet', raced')
  <2>1. CASE u = w
    BY <1>7, <2>1, NothingDrafted DEF Idle
  <2>2. CASE u # w
    <3> DEFINE j == call[u]
               g == held[u]
    <3>1. /\ Drafted(j, g, ledger, debited, wallet, raced) /\ j \in Calls
          /\ StepsOfOps(j, g)
          /\ (j.op = "withdraw" /\ j.step # "idle") => j.subject \in Withdrawals
      BY CallWInv
    <3>2. ReadsBacked(j, ledger', debited')
      <4>1. j.seen \in Wallets
        BY <3>1 DEF Calls
      <4>2. QED
        BY <1>6, <3>1, <4>1, CoversGrow DEF Drafted, ReadsBacked
    <3>3. DraftsBacked(j, g, ledger', debited')
      <4>1. ASSUME NEW v \in Providers, <<"wallet", v>> \in g
            PROVE  Covers(ledger' \cup g, debited' \cup Debit(j), v, j.draft[v])
        <5>1. Covers(ledger \cup g, debited \cup Debit(j), v, j.draft[v])
          BY <3>1, <4>1 DEF Drafted, DraftsBacked
        <5>2. j.draft[v] \in Wallets
          BY <3>1 DEF Calls
        <5>3. j.step # "idle"
          BY <3>1, <4>1 DEF StepsOfOps, InTransaction
        <5>4. debited' \cup Debit(j) \in SUBSET Withdrawals
          BY <1>6, <3>1, <5>3 DEF Debit
        <5>5. ledger \cup g \subseteq ledger' \cup g
              /\ debited \cup Debit(j) \subseteq debited' \cup Debit(j)
          BY <1>6
        <5>6. QED
          BY <5>1, <5>2, <5>4, <5>5, CoversGrow
      <4>2. QED
        BY <4>1 DEF DraftsBacked
    <3>4. DraftsFresh(j, g, wallet', raced')
      <4>1. \A v \in Providers : <<"wallet", v>> \in g => wallet'[v] = wallet[v]
        BY <1>2, <2>2 DEF WInv, WalletsAlone
      <4>2. QED
        BY <1>2, <3>1, <4>1 DEF Drafted, DraftsFresh
    <3>5. QED
      BY <1>7, <2>2, <3>1, <3>2, <3>3, <3>4 DEF Drafted
  <2>3. QED
    BY <2>1, <2>2
<1>10. WalletsAlone'
  BY <1>7 DEF WInv, WalletsAlone
<1>11. QED
  BY <1>8, <1>9, <1>10 DEF WInv

LEMMA InitWInv == Init => WInv
<1> SUFFICES ASSUME Init
             PROVE  WInv
  OBVIOUS
<1>1. BInv
  BY InitBInv
<1>2. ASSUME NEW v \in Providers
      PROVE  Covers(ledger, debited, v, wallet[v]) /\ Tallies(ledger, debited, v, wallet[v])
  <2>1. ASSUME NEW type
        PROVE  Credits({}, v, type) = 0
    <3>1. {p \in Payments : ProviderOf[p] = v /\ <<type, p>> \in {}} = {}
      OBVIOUS
    <3>2. QED
      BY <3>1, TotalType, FS_EmptySet DEF Credits
  <2>2. Debts({}, v) = 0
    <3>1. {x \in {} : RequesterOf[x] = v} = {}
      OBVIOUS
    <3>2. QED
      BY <3>1, TotalType, FS_EmptySet DEF Debts
  <2>3. ledger = {} /\ debited = {} /\ wallet[v] = EmptyWallet
    BY DEF Init
  <2>4. QED
    BY <2>1, <2>2, <2>3 DEF Covers, Tallies, EmptyWallet
<1>3. \A w \in Workers : call[w] = Idle /\ held[w] = {}
  BY DEF Init
<1>4. Idle.step # "store" /\ Idle.op # "withdraw"
  BY DEF Idle
<1>5. \A w \in Workers : Drafted(call[w], held[w], ledger, debited, wallet, raced)
  BY <1>3, <1>4, NothingDrafted
<1>6. WalletsAlone
  BY <1>3 DEF WalletsAlone
<1>7. QED
  BY <1>1, <1>2, <1>5, <1>6 DEF WInv

LEMMA NextWInv == WInv /\ [Next]_vars => WInv'
<1> SUFFICES ASSUME WInv, [Next]_vars
             PROVE  WInv'
  OBVIOUS
<1>1. BInv'
  BY NextBInv DEF WInv
<1>2. ASSUME NEW w \in Workers, Continue(w)
      PROVE  WInv'
  BY <1>1, <1>2, BeforeDraft, LoopDraft, InsertDraft, ReadDraft, PersistDraft, CommitDraft
     DEF Continue
<1>3. ASSUME NEW w \in Workers, Fail(w)
      PROVE  WInv'
  BY <1>1, <1>3, BackStep DEF Fail, tables
<1>4. ASSUME Restart
      PROVE  WInv'
  <2>1. /\ \A w \in Workers : call'[w] = Idle /\ held'[w] = {}
        /\ UNCHANGED <<ledger, debited, wallet, raced>>
    BY <1>4 DEF Restart, tables
  <2>2. Idle.step # "store" /\ Idle.op # "withdraw"
    BY DEF Idle
  <2>3. \A w \in Workers : Drafted(call'[w], held'[w], ledger, debited, wallet, raced)
    BY <2>1, <2>2, NothingDrafted
  <2>4. WalletsAlone'
    BY <2>1 DEF WalletsAlone
  <2>5. QED
    BY <1>1, <2>1, <2>3, <2>4 DEF WInv
<1>5. ASSUME NEW c \in Checkouts, Charge(c) \/ Decline(c)
      PROVE  WInv'
  BY <1>1, <1>5, OutsideDraft DEF Charge, Decline, tables
<1>6. ASSUME NEW e \in Events, HandleWebhook(e)
      PROVE  WInv'
  BY <1>1, <1>6, OutsideDraft DEF HandleWebhook, tables
<1>7. CASE UNCHANGED vars
  BY <1>1, <1>7, OutsideDraft DEF vars, tables
<1>8. QED
  BY <1>1, <1>2, <1>3, <1>4, <1>5, <1>6, <1>7, RequestDraft, EventDraft DEF Next

\* The sums of the model are those of the proof.
LEMMA SumsAreCredits ==
  ASSUME NEW v
  PROVE  /\ \A type : Sum(v, type) = Credits(ledger, v, type)
         /\ Debits(v) = Debts(debited, v)
  BY DEF Sum, Debits, Credits, Debts, Total, EntriesOf, Entered

\* No balance of a wallet ever exceeds what the ledger credits, however calls
\* interleave, fail and overwrite each other's wallets.
THEOREM WalletBackedCorrect == Spec => []WalletBackedByLedger
<1>1. Init => WInv
  BY InitWInv
<1>2. WInv /\ [Next]_vars => WInv'
  BY NextWInv
<1>3. WInv => WalletBackedByLedger
  BY SumsAreCredits DEF WInv, Covers, WalletBackedByLedger
<1>4. QED
  BY <1>1, <1>2, <1>3, PTL DEF Spec

\* As long as no write of a wallet started from a stale read, it tells the
\* ledger's totals, whatever the order of entries and debits.
THEOREM WalletExactCorrect == Spec => []WalletExactUnlessRaced
<1>1. Init => WInv
  BY InitWInv
<1>2. WInv /\ [Next]_vars => WInv'
  BY NextWInv
<1>3. WInv => WalletExactUnlessRaced
  BY SumsAreCredits DEF WInv, Tallies, WalletExactUnlessRaced
<1>4. QED
  BY <1>1, <1>2, <1>3, PTL DEF Spec
=============================================================================
