----------------------------- MODULE Settlement -----------------------------
(***************************************************************************)
(* How money settles: the part of PaymentsService                          *)
(* (src/modules/payments/payments.service.ts) that runs once a checkout    *)
(* has been initialised.  A checkout is one card charge; it covers one     *)
(* payment row per provider.  Five calls change those rows: verifyPayment, *)
(* the Paystack webhook, processRefund, releaseProviderPayout and          *)
(* withdrawFunds.                                                          *)
(*                                                                         *)
(* The service runs on one Node thread, so calls interleave at every       *)
(* await; each call here is a worker that moves by one database statement  *)
(* or one gateway request.  Prisma's $transaction runs on PostgreSQL at    *)
(* READ COMMITTED: a read sees the last committed rows, an UPDATE or an    *)
(* INSERT under a unique index waits for the transaction that holds that   *)
(* row or key, and nothing a transaction wrote is seen before it commits.  *)
(* `held' is therefore both the transaction's write set and its locks.     *)
(***************************************************************************)
EXTENDS Integers, FiniteSets, FiniteSetsExt

CONSTANTS
  Checkouts,          \* paymentCheckout rows, already sent to the gateway
  Payments,           \* payment rows
  Providers,          \* salon and stylist rows, each holding one wallet
  Withdrawals,        \* withdrawalRequest rows that may come to exist
  Workers,            \* calls that may be in flight at the same time
  None,               \* "no checkout", "no payment"
  CheckoutOf,         \* Payment.checkoutId
  ProviderOf,         \* Payment.providerId
  RequesterOf,        \* WithdrawalRequest.providerId
  CreatedAt,          \* Payment.createdAt, the order a checkout is listed in
  KeyOrder,           \* where a group's key, providerType:userId, comes in localeCompare
  Amount,             \* Payment.providerAmount
  WithdrawAmount,     \* WithdrawFundsDto.amount
  PartlyPaid,         \* payments whose remainingAmount is positive
  Traffic,            \* bound: the kinds of request and event an instance sees
  MaxFaults           \* bound: lost calls and process restarts

ASSUME RowsAssumption ==
  /\ CheckoutOf \in [Payments -> Checkouts]
  /\ ProviderOf \in [Payments -> Providers]
  /\ RequesterOf \in [Withdrawals -> Providers]
  /\ PartlyPaid \subseteq Payments
  /\ Traffic \subseteq {"verify", "refund", "release", "withdraw", "decline"}
  /\ None \notin Payments \cup Checkouts \cup Withdrawals
  /\ Checkouts \cap Withdrawals = {}

ASSUME AmountsAssumption ==
  /\ Amount \in [Payments -> Nat]
  /\ WithdrawAmount \in [Withdrawals -> Nat \ {0}]
  /\ MaxFaults \in Nat

\* buildProviderGroups makes one group, hence one payment, per provider, and
\* sorts them by key; createProviderPayments inserts them in that order, one
\* statement after the other.
ASSUME GroupsAssumption ==
  /\ CreatedAt \in [Payments -> Nat]
  /\ KeyOrder \in [Providers -> Nat]
  /\ \A p, q \in Payments :
       (p # q /\ CheckoutOf[p] = CheckoutOf[q]) =>
         /\ ProviderOf[p] # ProviderOf[q]
         /\ CreatedAt[p] # CreatedAt[q]
         /\ CreatedAt[p] < CreatedAt[q] =>
              KeyOrder[ProviderOf[p]] < KeyOrder[ProviderOf[q]]

\* Tables are finite, and so is what one process serves at a time.
ASSUME FiniteAssumption ==
  IsFiniteSet(Payments) /\ IsFiniteSet(Withdrawals) /\ IsFiniteSet(Workers)

VARIABLES
  checkout,     \* PaymentCheckout.status
  deposit,      \* Payment.depositStatus
  payout,       \* Payment.payoutStatus
  booking,      \* Booking.paymentStatus of the bookings a payment covers
  ledger,       \* PaymentLedger rows that name a payment
  wallet,       \* the wallet JSON of each provider
  request,      \* WithdrawalRequest.status
  debited,      \* withdrawals with a withdrawal_debit ledger row
  emitted,      \* Paystack: events it has raised, success means charged
  reversed,     \* Paystack: checkouts whose charge was refunded
  transferred,  \* Paystack: withdrawals it has paid out
  stored,       \* PaystackWebhookEvent rows
  queued,       \* setImmediate callbacks not run yet
  call,         \* what each worker is doing
  held,         \* rows and keys each worker's transaction has written
  raced,        \* history: wallets once written from a stale read
  faults        \* calls lost and restarts so far

tables == <<checkout, deposit, payout, booking, ledger, wallet, request, debited>>
paystack == <<emitted, reversed, transferred>>
webhooks == <<stored, queued>>
vars == <<tables, paystack, webhooks, call, held, raced, faults>>

-----------------------------------------------------------------------------
(* Rows *)

EntryTypes == {"deposit_pending_credit", "refund_debit", "payout_release_credit"}
Entries == EntryTypes \X Payments
Events == {"charge.success", "charge.failed"} \X Checkouts
Subjects == Checkouts \cup Withdrawals \cup {None}

\* What a transaction can write and so lock: a table's row, or a key of the
\* ledger's unique index (paymentId, entryType).
Rows == ({"checkout"} \X Checkouts)
          \cup ({"payment", "booking"} \X Payments)
          \cup ({"wallet"} \X Providers)
          \cup Entries

Wallets == [pendingBalance : Nat, availableBalance : Nat,
            totalEarnings : Nat, totalWithdrawn : Nat]
EmptyWallet == [pendingBalance |-> 0, availableBalance |-> 0,
                totalEarnings |-> 0, totalWithdrawn |-> 0]

Ops == {"settle", "refund", "release", "withdraw", "fail"}
Steps == {"idle", "answer", "begin", "lock", "list", "row", "find", "insert",
          "load", "store", "sync", "refund", "transfer", "fail"}

\* The locals of a call.  `unpaid' are the payments it read as not yet paid,
\* `todo' those its loop has still to visit, `current' the one it is at;
\* `seen' is the wallet it read, `draft' the wallets it has written.
Calls == [op : Ops, step : Steps, subject : Subjects,
          unpaid : SUBSET Payments, todo : SUBSET Payments,
          current : Payments \cup {None},
          seen : Wallets, draft : [Providers -> Wallets]]

NoDraft == [v \in Providers |-> EmptyWallet]
Idle == [op |-> "settle", step |-> "idle", subject |-> None,
         unpaid |-> {}, todo |-> {}, current |-> None,
         seen |-> EmptyWallet, draft |-> NoDraft]

\* Mutant: the listing returns the first payment only.
FirstPaymentOf(c) ==
  {p \in Payments : CheckoutOf[p] = c
                      /\ \A q \in Payments : CheckoutOf[q] = c => CreatedAt[p] <= CreatedAt[q]}

PaymentsOf(c) == {p \in Payments : CheckoutOf[p] = c}
Charged(c) == <<"charge.success", c>> \in emitted
At(w, op, step) == call[w].op = op /\ call[w].step = step
InTransaction == {"lock", "list", "row", "find", "insert", "load", "store", "sync"}

\* Mutant: the loop takes the rows in whatever order they come.
AnyOrder(todo) == todo

\* createdAt order: the row a loop over `todo' takes next.
NextUp(todo) == {p \in todo : \A q \in todo : CreatedAt[p] <= CreatedAt[q]}

EntryOf(op) ==
  CASE op = "settle"  -> "deposit_pending_credit"
    [] op = "refund"  -> "refund_debit"
    [] OTHER          -> "payout_release_credit"

Free(row) == \A u \in Workers : row \notin held[u]
-----------------------------------------------------------------------------
(* Wallets *)

AtLeastZero(n) == IF n < 0 THEN 0 ELSE n

\* applyWalletDelta: every balance is clamped at zero on its own.
Applied(seen, pending, available, earned, withdrawn) ==
  [pendingBalance   |-> AtLeastZero(seen.pendingBalance + pending),
   availableBalance |-> AtLeastZero(seen.availableBalance + available),
   totalEarnings    |-> AtLeastZero(seen.totalEarnings + earned),
   totalWithdrawn   |-> AtLeastZero(seen.totalWithdrawn + withdrawn)]

\* Mutant: a deposit is credited as available at once.
DeltaAvailableAtOnce(k) ==
  LET p == k.current
  IN CASE k.op = "settle"  -> Applied(k.seen, 0, Amount[p], 0, 0)
       [] k.op = "refund"  -> Applied(k.seen, -Amount[p], 0, 0, 0)
       [] k.op = "release" -> Applied(k.seen, -Amount[p], Amount[p], Amount[p], 0)
       [] OTHER -> Applied(k.seen, 0, -WithdrawAmount[k.subject], 0,
                           WithdrawAmount[k.subject])

\* Mutant: a release does not count as earnings.
DeltaWithoutEarnings(k) ==
  LET p == k.current
  IN CASE k.op = "settle"  -> Applied(k.seen, Amount[p], 0, 0, 0)
       [] k.op = "refund"  -> Applied(k.seen, -Amount[p], 0, 0, 0)
       [] k.op = "release" -> Applied(k.seen, -Amount[p], Amount[p], 0, 0)
       [] OTHER -> Applied(k.seen, 0, -WithdrawAmount[k.subject], 0,
                           WithdrawAmount[k.subject])

DeltaApplied(k) ==
  LET p == k.current
  IN CASE k.op = "settle"  -> Applied(k.seen, Amount[p], 0, 0, 0)
       [] k.op = "refund"  -> Applied(k.seen, -Amount[p], 0, 0, 0)
       [] k.op = "release" -> Applied(k.seen, -Amount[p], Amount[p], Amount[p], 0)
       [] OTHER -> Applied(k.seen, 0, -WithdrawAmount[k.subject], 0,
                           WithdrawAmount[k.subject])

WalletOf(k) == IF k.op = "withdraw" THEN RequesterOf[k.subject]
                                    ELSE ProviderOf[k.current]

-----------------------------------------------------------------------------
Init ==
  /\ checkout = [c \in Checkouts |-> "pending"]
  /\ deposit = [p \in Payments |-> "pending"]
  /\ payout = [p \in Payments |-> "pending"]
  /\ booking = [p \in Payments |-> "unpaid"]
  /\ ledger = {}
  /\ wallet = [v \in Providers |-> EmptyWallet]
  /\ request = [x \in Withdrawals |-> "none"]
  /\ debited = {}
  /\ emitted = {} /\ reversed = {} /\ transferred = {}
  /\ stored = {} /\ queued = {}
  /\ call = [w \in Workers |-> Idle]
  /\ held = [w \in Workers |-> {}]
  /\ raced = [v \in Providers |-> FALSE]
  /\ faults = 0

Becomes(w, k) == call' = [call EXCEPT ![w] = k]
Goto(w, step) == Becomes(w, [call[w] EXCEPT !.step = step])
Return(w) == Becomes(w, Idle)
Hold(w, row) == held' = [held EXCEPT ![w] = @ \cup {row}]
Starts(w, op, step, subject, todo) ==
  /\ call[w].step = "idle"
  /\ Becomes(w, [Idle EXCEPT !.op = op, !.step = step,
                             !.subject = subject, !.todo = todo])

-----------------------------------------------------------------------------
(* Paystack and the webhook endpoint *)

\* External: the customer's card is charged, at most once per reference.
Charge(c) ==
  /\ ~Charged(c)
  /\ emitted' = emitted \cup {<<"charge.success", c>>}
  /\ UNCHANGED <<tables, reversed, transferred, webhooks, call, held, raced, faults>>

\* External: an attempt to charge it is declined; the customer may try again.
Decline(c) ==
  /\ "decline" \in Traffic
  /\ ~Charged(c)
  /\ <<"charge.failed", c>> \notin emitted
  /\ emitted' = emitted \cup {<<"charge.failed", c>>}
  /\ UNCHANGED <<tables, reversed, transferred, webhooks, call, held, raced, faults>>

\* handleWebhook: an event is stored the first time it arrives and handed to
\* setImmediate; a redelivery finds the row and is answered at once, which
\* changes nothing.
HandleWebhook(e) ==
  /\ e \in emitted \ stored
  /\ stored' = stored \cup {e}
  /\ queued' = queued \cup {e}
  /\ UNCHANGED <<tables, paystack, call, held, raced, faults>>

\* processWebhookEvent, a successful charge: straight to markCheckoutPaid.
ProcessSuccess(w, c) ==
  /\ <<"charge.success", c>> \in queued
  /\ queued' = queued \ {<<"charge.success", c>>}
  /\ Starts(w, "settle", "begin", c, {})
  /\ UNCHANGED <<tables, paystack, stored, held, raced, faults>>

\* processWebhookEvent, a failed charge: it reads the checkout's status and
\* goes on only if that was still pending.
ProcessFailed(w, c) ==
  /\ <<"charge.failed", c>> \in queued
  /\ call[w].step = "idle"
  /\ queued' = queued \ {<<"charge.failed", c>>}
  /\ IF checkout[c] = "pending" THEN Starts(w, "fail", "fail", c, {})
                                ELSE UNCHANGED call
  /\ UNCHANGED <<tables, paystack, stored, held, raced, faults>>

\* markCheckoutFailed: one autocommitted update of a row read earlier.
MarkCheckoutFailed(w) ==
  /\ At(w, "fail", "fail")
  /\ Free(<<"checkout", call[w].subject>>)
  /\ checkout' = [checkout EXCEPT ![call[w].subject] = "failed"]
  /\ Return(w)
  /\ UNCHANGED <<deposit, payout, booking, ledger, wallet, request, debited,
                 paystack, webhooks, held, raced, faults>>

-----------------------------------------------------------------------------
(* How calls start, up to their transaction *)

\* verifyPayment: a paid checkout is answered at once.
VerifyPayment(w, c) ==
  /\ "verify" \in Traffic
  /\ checkout[c] # "paid"
  /\ Starts(w, "settle", "answer", c, {})
  /\ UNCHANGED <<tables, paystack, webhooks, held, raced, faults>>

\* Mutant: the gateway's answer is not looked at.
VerifyTransactionUnread(w) ==
  /\ At(w, "settle", "answer")
  /\ Goto(w, "begin")
  /\ UNCHANGED <<tables, paystack, webhooks, held, raced, faults>>

\* Mutant: it asks again until the charge succeeds.
VerifyTransactionPolled(w) ==
  /\ At(w, "settle", "answer")
  /\ Charged(call[w].subject) /\ call[w].subject \notin reversed
  /\ Goto(w, "begin")
  /\ UNCHANGED <<tables, paystack, webhooks, held, raced, faults>>

\* paystack.verifyTransaction: a charge that was refunded is not `success'.
VerifyTransaction(w) ==
  /\ At(w, "settle", "answer")
  /\ IF Charged(call[w].subject) /\ call[w].subject \notin reversed
       THEN Goto(w, "begin")
       ELSE Return(w)
  /\ UNCHANGED <<tables, paystack, webhooks, held, raced, faults>>

\* Mutant: a checkout that failed once is not settled any more.
ReadPendingCheckout(w) ==
  /\ At(w, "settle", "begin")
  /\ CASE checkout[call[w].subject] = "failed" -> Return(w)
       [] checkout[call[w].subject] = "paid"   -> Goto(w, "list")
       [] OTHER                                -> Goto(w, "lock")
  /\ UNCHANGED <<tables, paystack, webhooks, held, raced, faults>>

\* markCheckoutPaid reads the checkout; it updates it unless it reads paid.
ReadCheckout(w) ==
  /\ At(w, "settle", "begin")
  /\ Goto(w, IF checkout[call[w].subject] = "paid" THEN "list" ELSE "lock")
  /\ UNCHANGED <<tables, paystack, webhooks, held, raced, faults>>

\* Mutant: every payment not refunded yet is, paid or not.
ProcessRefundOfUnpaid(w, c) ==
  LET refundable == {p \in PaymentsOf(c) : deposit[p] # "refunded"}
  IN /\ "refund" \in Traffic
     /\ refundable # {}
     /\ Starts(w, "refund", "refund", c, refundable)
     /\ UNCHANGED <<tables, paystack, webhooks, held, raced, faults>>

\* processRefund: the payments read as paid are refunded, and only those.
ProcessRefund(w, c) ==
  LET refundable == {p \in PaymentsOf(c) : deposit[p] = "paid"}
  IN /\ "refund" \in Traffic
     /\ refundable # {}
     /\ Starts(w, "refund", "refund", c, refundable)
     /\ UNCHANGED <<tables, paystack, webhooks, held, raced, faults>>

\* paystack.refund, before the transaction: Paystack refuses to refund a
\* charge it has already refunded.
RefundAtGateway(w) ==
  LET c == call[w].subject
  IN /\ At(w, "refund", "refund")
     /\ IF c \in reversed
          THEN Return(w) /\ UNCHANGED reversed
          ELSE Goto(w, "lock") /\ reversed' = reversed \cup {c}
     /\ UNCHANGED <<tables, emitted, transferred, webhooks, held, raced, faults>>

\* releaseProviderPayout: the guard is read before the transaction starts.
ReleaseProviderPayout(w, p) ==
  /\ "release" \in Traffic
  /\ payout[p] = "pending"
  /\ Starts(w, "release", "row", CheckoutOf[p], {p})
  /\ UNCHANGED <<tables, paystack, webhooks, held, raced, faults>>

\* withdrawFunds: the balance is checked, then the request is created.
WithdrawFunds(w, x) ==
  /\ "withdraw" \in Traffic
  /\ request[x] = "none"
  /\ wallet[RequesterOf[x]].availableBalance >= WithdrawAmount[x]
  /\ request' = [request EXCEPT ![x] = "requested"]
  /\ Starts(w, "withdraw", "transfer", x, {})
  /\ UNCHANGED <<checkout, deposit, payout, booking, ledger, wallet, debited,
                 paystack, webhooks, held, raced, faults>>

\* paystack.createTransfer: the money leaves before the wallet is debited.
\* A refusal throws, and leaves the request as it is.
CreateTransfer(w) ==
  /\ At(w, "withdraw", "transfer")
  /\ \/ Goto(w, "load") /\ transferred' = transferred \cup {call[w].subject}
     \/ Return(w) /\ UNCHANGED transferred
  /\ UNCHANGED <<tables, emitted, reversed, webhooks, held, raced, faults>>

-----------------------------------------------------------------------------
(* Inside a transaction, one statement at a time *)

\* The checkout row is updated: to paid by a settlement, to refunded by a refund.
UpdateCheckout(w) ==
  LET row == <<"checkout", call[w].subject>>
  IN /\ call[w].step = "lock"
     /\ Free(row)
     /\ Hold(w, row)
     /\ Goto(w, IF call[w].op = "settle" THEN "list" ELSE "row")
     /\ UNCHANGED <<tables, paystack, webhooks, raced, faults>>

\* markCheckoutPaid lists the payments and keeps what it read of them.
ListPayments(w) ==
  LET listed == PaymentsOf(call[w].subject)
  IN /\ call[w].step = "list"
     /\ Becomes(w, [call[w] EXCEPT !.step = "row", !.todo = listed,
                                   !.unpaid = {p \in listed : deposit[p] # "paid"}])
     /\ UNCHANGED <<tables, paystack, webhooks, held, raced, faults>>

\* The loop takes the next payment and updates its row, except that a
\* settlement leaves alone a payment it listed as paid.
UpdatePayment(w) ==
  /\ call[w].step = "row"
  /\ \E p \in NextUp(call[w].todo) :
       /\ Becomes(w, [call[w] EXCEPT !.step = "find", !.current = p,
                                     !.todo = @ \ {p}])
       /\ IF call[w].op = "settle" /\ p \notin call[w].unpaid
            THEN UNCHANGED held
            ELSE Free(<<"payment", p>>) /\ Hold(w, <<"payment", p>>)
  /\ UNCHANGED <<tables, paystack, webhooks, raced, faults>>

\* Mutant: a repeated release marks the bookings paid.
FindEntryThenSync(w) ==
  LET k == call[w]
  IN /\ k.step = "find"
     /\ Goto(w, IF <<EntryOf(k.op), k.current>> \notin ledger THEN "insert" ELSE "sync")
     /\ UNCHANGED <<tables, paystack, webhooks, held, raced, faults>>

\* Mutant: the wallet is credited whether or not the entry is new.
FindEntryThenCredit(w) ==
  LET k == call[w]
  IN /\ k.step = "find"
     /\ Goto(w, IF <<EntryOf(k.op), k.current>> \notin ledger THEN "insert" ELSE "load")
     /\ UNCHANGED <<tables, paystack, webhooks, held, raced, faults>>

\* createLedgerEntryIfMissing looks for the entry; if there is one, the wallet
\* is left alone.
FindEntry(w) ==
  LET k == call[w]
  IN /\ k.step = "find"
     /\ Goto(w, IF <<EntryOf(k.op), k.current>> \notin ledger THEN "insert"
                ELSE IF k.op = "release" THEN "row" ELSE "sync")
     /\ UNCHANGED <<tables, paystack, webhooks, held, raced, faults>>

\* ledger.create waits for a transaction that is inserting the same key; once
\* that has committed, the unique index rejects the row and the call throws.
InsertEntry(w) ==
  LET entry == <<EntryOf(call[w].op), call[w].current>>
  IN /\ call[w].step = "insert"
     /\ Free(entry)
     /\ IF entry \in ledger
          THEN Return(w) /\ held' = [held EXCEPT ![w] = {}]
          ELSE Goto(w, "load") /\ Hold(w, entry)
     /\ UNCHANGED <<tables, paystack, webhooks, raced, faults>>

\* applyWalletDelta reads the provider's wallet ...
ReadWallet(w) ==
  /\ call[w].step = "load"
  /\ Becomes(w, [call[w] EXCEPT !.step = "store", !.seen = wallet[WalletOf(call[w])]])
  /\ UNCHANGED <<tables, paystack, webhooks, held, raced, faults>>

\* ... and writes it back with the delta, whatever has committed since.
PersistWallet(w) ==
  LET k == call[w]
      v == WalletOf(k)
  IN /\ k.step = "store"
     /\ Free(<<"wallet", v>>)
     /\ Hold(w, <<"wallet", v>>)
     /\ raced' = [raced EXCEPT ![v] = @ \/ k.seen # wallet[v]]
     /\ Becomes(w, [k EXCEPT
          !.step = IF k.op \in {"settle", "refund"} THEN "sync" ELSE "row",
          !.seen = EmptyWallet,
          !.draft = [@ EXCEPT ![v] = DeltaApplied(k)]])
     /\ UNCHANGED <<tables, paystack, webhooks, faults>>

\* syncBookingPaymentStatus: one updateMany over the payment's bookings.
SyncBooking(w) ==
  LET row == <<"booking", call[w].current>>
  IN /\ call[w].step = "sync"
     /\ Free(row)
     /\ Hold(w, row)
     /\ Goto(w, "row")
     /\ UNCHANGED <<tables, paystack, webhooks, raced, faults>>

-----------------------------------------------------------------------------
(* How a transaction ends *)

CommittedBooking(op, p) ==
  CASE op = "refund"                          -> "refunded"
    [] op # "refund" /\ p \in PartlyPaid       -> "partial"
    [] OTHER                                  -> "paid"

\* Every row of the write set takes its new value and its lock goes.
Commit(w) ==
  LET k == call[w]
      status == IF k.op = "refund" THEN "refunded" ELSE "paid"
  IN /\ k.step = "row" /\ k.todo = {}
     /\ checkout' = [c \in Checkouts |->
                       IF <<"checkout", c>> \in held[w] THEN status ELSE checkout[c]]
     /\ deposit' = [p \in Payments |->
                      IF <<"payment", p>> \in held[w] /\ k.op # "release"
                        THEN status ELSE deposit[p]]
     /\ payout' = [p \in Payments |->
                     IF <<"payment", p>> \in held[w] /\ k.op = "release"
                       THEN "released" ELSE payout[p]]
     /\ booking' = [p \in Payments |->
                      IF <<"booking", p>> \in held[w]
                        THEN CommittedBooking(k.op, p) ELSE booking[p]]
     /\ wallet' = [v \in Providers |->
                     IF <<"wallet", v>> \in held[w] THEN k.draft[v] ELSE wallet[v]]
     /\ ledger' = ledger \cup (held[w] \cap Entries)
     /\ IF k.op = "withdraw"
          THEN /\ request' = [request EXCEPT ![k.subject] = "initiated"]
               /\ debited' = debited \cup {k.subject}
          ELSE UNCHANGED <<request, debited>>
     /\ Return(w)
     /\ held' = [held EXCEPT ![w] = {}]
     /\ UNCHANGED <<paystack, webhooks, raced, faults>>

\* Any await may throw: a lost connection, a gateway error, Prisma's five
\* second limit on a transaction.  The transaction, if any, rolls back.
Fail(w) ==
  /\ faults < MaxFaults
  /\ faults' = faults + 1
  /\ call[w].step # "idle"
  /\ Return(w)
  /\ held' = [held EXCEPT ![w] = {}]
  /\ UNCHANGED <<tables, paystack, webhooks, raced>>

\* The process restarts: calls in flight and setImmediate callbacks are gone.
Restart ==
  /\ faults < MaxFaults
  /\ faults' = faults + 1
  /\ call' = [w \in Workers |-> Idle]
  /\ held' = [w \in Workers |-> {}]
  /\ queued' = {}
  /\ UNCHANGED <<tables, paystack, stored, raced>>

-----------------------------------------------------------------------------
\* What a call in flight does next; it is never idle by choice.
Continue(w) ==
  \/ MarkCheckoutFailed(w) \/ VerifyTransaction(w) \/ ReadCheckout(w)
  \/ RefundAtGateway(w) \/ CreateTransfer(w)
  \/ UpdateCheckout(w) \/ ListPayments(w) \/ UpdatePayment(w)
  \/ FindEntry(w) \/ InsertEntry(w) \/ ReadWallet(w) \/ PersistWallet(w)
  \/ SyncBooking(w) \/ Commit(w)

Process(e) ==
  \E w \in Workers, c \in Checkouts :
    \/ e = <<"charge.success", c>> /\ ProcessSuccess(w, c)
    \/ e = <<"charge.failed", c>> /\ ProcessFailed(w, c)

Request(w) ==
  \/ \E c \in Checkouts : VerifyPayment(w, c) \/ ProcessRefund(w, c)
  \/ \E p \in Payments : ReleaseProviderPayout(w, p)
  \/ \E x \in Withdrawals : WithdrawFunds(w, x)

Next ==
  \/ \E c \in Checkouts : Charge(c) \/ Decline(c)
  \/ \E e \in Events : HandleWebhook(e) \/ Process(e)
  \/ \E w \in Workers : Request(w) \/ Continue(w) \/ Fail(w)
  \/ Restart

Spec == Init /\ [][Next]_vars

\* A call in flight goes on: the event loop serves it, and PostgreSQL grants
\* a row lock in the order it was asked for.  Paystack redelivers an event
\* until it is answered, and setImmediate runs what it was given.
Fairness ==
  /\ \A w \in Workers : SF_vars(Continue(w))
  /\ \A e \in Events : WF_vars(HandleWebhook(e)) /\ SF_vars(Process(e))

FairSpec == Spec /\ Fairness

-----------------------------------------------------------------------------
(* Types *)

TablesTypeOK ==
  /\ checkout \in [Checkouts -> {"pending", "paid", "failed", "refunded"}]
  /\ deposit \in [Payments -> {"pending", "paid", "refunded"}]
  /\ payout \in [Payments -> {"pending", "released"}]
  /\ booking \in [Payments -> {"unpaid", "partial", "paid", "refunded"}]
  /\ ledger \subseteq Entries
  /\ wallet \in [Providers -> Wallets]
  /\ request \in [Withdrawals -> {"none", "requested", "initiated"}]
  /\ debited \subseteq Withdrawals
  /\ emitted \subseteq Events /\ stored \subseteq Events /\ queued \subseteq Events
  /\ reversed \subseteq Checkouts /\ transferred \subseteq Withdrawals
  /\ raced \in [Providers -> BOOLEAN]
  /\ faults \in 0..MaxFaults

\* Every table, lock and local holds a value of its column's type; above all no
\* balance is ever negative.
TypeOK ==
  /\ TablesTypeOK
  /\ call \in [Workers -> Calls]
  /\ held \in [Workers -> SUBSET Rows]

-----------------------------------------------------------------------------
(* Safety *)

Entered(type, p) == <<type, p>> \in ledger

\* The ledger and the statuses of a payment always agree, although they are
\* written by different statements and settlements race with refunds: a
\* deposit entry exists exactly when the deposit was taken, a refunded
\* deposit has its refund entry, no refund is entered for a deposit that was
\* not, and a payout is released exactly when its credit is entered
\* (markCheckoutPaid, processRefund, releaseProviderPayout).
LedgerMatchesStatus ==
  \A p \in Payments :
    /\ deposit[p] # "pending" <=> Entered("deposit_pending_credit", p)
    /\ deposit[p] = "refunded" => Entered("refund_debit", p)
    /\ Entered("refund_debit", p) => Entered("deposit_pending_credit", p)
    /\ payout[p] = "released" <=> Entered("payout_release_credit", p)

\* What a booking shows was really entered in the ledger, whichever call
\* wrote it last (syncBookingPaymentStatus is called also for payments the
\* settlement did not change).
BookingFollowsLedger ==
  \A p \in Payments :
    /\ booking[p] = "unpaid" <=> ~Entered("deposit_pending_credit", p)
    /\ booking[p] = "refunded" => Entered("refund_debit", p)

EntriesOf(v, type) == {p \in Payments : ProviderOf[p] = v /\ Entered(type, p)}
Sum(v, type) == MapThenSumSet(LAMBDA p : Amount[p], EntriesOf(v, type))
Debits(v) == MapThenSumSet(LAMBDA x : WithdrawAmount[x],
                           {x \in debited : RequesterOf[x] = v})

\* No balance of a wallet ever exceeds what the ledger credits, even when
\* applyWalletDelta loses an update to a concurrent one.
WalletBackedByLedger ==
  \A v \in Providers :
    /\ wallet[v].pendingBalance <= Sum(v, "deposit_pending_credit")
    /\ wallet[v].availableBalance <= Sum(v, "payout_release_credit")
    /\ wallet[v].totalEarnings <= Sum(v, "payout_release_credit")
    /\ wallet[v].totalWithdrawn <= Debits(v)

\* A wallet nobody wrote from a stale read tells the ledger's totals: only the
\* clamp at zero can make a balance differ from credits minus debits.
WalletExactUnlessRaced ==
  \A v \in Providers : ~raced[v] =>
    /\ wallet[v].totalEarnings = Sum(v, "payout_release_credit")
    /\ wallet[v].totalWithdrawn = Debits(v)
    /\ wallet[v].availableBalance >=
         wallet[v].totalEarnings - wallet[v].totalWithdrawn
    /\ wallet[v].pendingBalance >=
         Sum(v, "deposit_pending_credit") - Sum(v, "refund_debit")
           - Sum(v, "payout_release_credit")

InFlight(op, subject) ==
  \E w \in Workers : /\ call[w].op = op /\ call[w].subject = subject
                     /\ call[w].step # "idle"

\* The books never run ahead of Paystack: a deposit entered was charged, a
\* refund entered was refunded there, a debit entered was paid out.  Paystack
\* runs ahead of the books only while the call is still under way
\* (processRefund, withdrawFunds), or after a fault.
BooksFollowPaystack ==
  /\ \A p \in Payments :
       /\ Entered("deposit_pending_credit", p) => Charged(CheckoutOf[p])
       /\ Entered("refund_debit", p) => CheckoutOf[p] \in reversed
  /\ debited \subseteq transferred
  /\ faults = 0 =>
       /\ \A c \in reversed :
            (\E p \in PaymentsOf(c) : Entered("refund_debit", p)) \/ InFlight("refund", c)
       /\ \A x \in transferred : x \in debited \/ InFlight("withdraw", x)

\* The row or key a call is about to ask for.
Wanted(w) ==
  LET k == call[w]
  IN CASE k.step \in {"lock", "fail"} -> {<<"checkout", k.subject>>}
       [] k.step = "row" -> {<<"payment", p>> :
                               p \in {q \in NextUp(k.todo) :
                                        k.op = "settle" => q \in k.unpaid}}
       [] k.step = "insert" -> {<<EntryOf(k.op), k.current>>}
       [] k.step = "store" -> {<<"wallet", WalletOf(k)>>}
       [] k.step = "sync" -> {<<"booking", k.current>>}
       [] OTHER -> {}

WaitsFor(w, u) == w # u /\ Wanted(w) \cap held[u] # {}

\* Transactions take rows in an order that lets them wait for each other but
\* never in a circle: payments by creation, and within one its entry, the
\* provider's wallet, its bookings.
NoDeadlock ==
  \A S \in (SUBSET Workers) \ {{}} :
    \E w \in S : \A u \in S : ~WaitsFor(w, u)

-----------------------------------------------------------------------------
(* What a transaction has written so far.  LedgerMatchesStatus is not          *)
(* inductive: a commit publishes what the loop did, so the invariant has to    *)
(* follow the loop.                                                            *)

MidEntry == {"find", "insert"}
Loop == MidEntry \cup {"row", "load", "store", "sync"}

\* A call k with no transaction open holds nothing, and the steps belong to the
\* calls that have them.
StepsOfOps(k, h) ==
  /\ k.step \notin InTransaction => h = {}
  /\ k.step \in {"answer", "begin", "list"} => k.op = "settle"
  /\ k.step \in {"lock", "sync"} => k.op \in {"settle", "refund"}
  /\ k.step = "refund" => k.op = "refund"
  /\ k.step = "transfer" => k.op = "withdraw"
  /\ k.op = "fail" <=> k.step = "fail"
  /\ k.op = "withdraw" =>
       k.todo = {} /\ k.step \in {"transfer", "load", "store", "row"}
  /\ (k.step \in Loop \ {"row"} /\ k.op # "withdraw") => k.current \in Payments
  /\ k.step # "idle" =>
       k.subject \in (IF k.op = "withdraw" THEN Withdrawals ELSE Checkouts)

\* A call k that has written the rows h writes a payment row only when it has
\* entered, or is about to enter, what the new status stands for; and it writes
\* no entry without that row, unless the deposit was already taken.
RowsWithEntries(k, h) ==
  \A p \in Payments :
    /\ <<"payment", p>> \in h =>
         /\ k.op \in {"settle", "refund", "release"}
         /\ \/ Entered(EntryOf(k.op), p)
            \/ <<EntryOf(k.op), p>> \in h
            \/ k.current = p /\ k.step \in MidEntry
    /\ \A type \in EntryTypes : <<type, p>> \in h =>
         /\ k.op \in {"settle", "refund", "release"}
         /\ type = EntryOf(k.op)
         /\ \/ <<"payment", p>> \in h
            \/ k.op = "settle" /\ deposit[p] # "pending"
    /\ (k.current = p /\ k.step \in MidEntry) =>
         \/ <<"payment", p>> \in h
         \/ k.op = "settle" /\ deposit[p] # "pending"

\* What it read before its loop still holds in the only way that matters: a
\* deposit once taken is never pending again.
ReadsStillHold(k, h) ==
  \A p \in Payments :
    /\ (k.op = "settle" /\ k.step \in Loop /\ p \in k.todo \ k.unpaid) =>
         deposit[p] # "pending"
    /\ (k.op = "refund" /\ (p \in k.todo \/ <<"payment", p>> \in h)) =>
         deposit[p] # "pending"

Consistent(k, h) ==
  StepsOfOps(k, h) /\ RowsWithEntries(k, h) /\ ReadsStillHold(k, h)

\* Everything above, for each call in flight: the transaction a commit would
\* publish is consistent at every step that leads to it.
TransactionsConsistent == \A w \in Workers : Consistent(call[w], held[w])

-----------------------------------------------------------------------------
(* What a step may never do *)

\* A wallet changes only in a step that also enters the ledger row that
\* explains it, so no entry is ever credited twice.
WalletMovesWithLedger ==
  [][\A v \in Providers : wallet'[v] # wallet[v] =>
       \/ \E type \in EntryTypes : EntriesOf(v, type)' # EntriesOf(v, type)
       \/ \E x \in debited' \ debited : RequesterOf[x] = v]_vars

\* Settlement implements the ledger book: every commit is one of its steps.
Book == INSTANCE LedgerBook WITH deposit <- deposit, payout <- payout, ledger <- ledger
BookSpec == Book!Spec

-----------------------------------------------------------------------------
(* Liveness *)

\* No call stays in flight for ever: locks are always released.
CallsReturn == \A w \in Workers : (call[w].step # "idle") ~> (call[w].step = "idle")

\* A charged checkout has all its deposits entered in the end.
ChargeIsBooked ==
  \A c \in Checkouts :
    Charged(c) ~> (\A p \in PaymentsOf(c) : Entered("deposit_pending_credit", p))
=============================================================================
