# Primlook backend: specifications, model checking and proofs

This directory holds the TLA+ project kept beside the Primlook backend (a NestJS service over
PostgreSQL with Prisma, in `src/src/`). The backend takes bookings for salons and stylists, charges
customers through Paystack, keeps the money of providers in a ledger and a wallet, runs a walk-in
queue, and has accounts and a chat. The project models the parts whose correctness depends on the order of
things: statements of concurrent transactions, gateway calls, webhooks, crashes.

## 1. Inventory

One Node process serves everything; handlers interleave at every `await`. The database is the
only state that survives a restart. Prisma runs a `$transaction` on PostgreSQL at READ COMMITTED.

| Part (source under `src/src/`) | State | Operations | What is hard | What makes it correct |
|---|---|---|---|---|
| **Settlement** `modules/payments/payments.service.ts` | `PaymentCheckout`, `Payment`, `PaymentLedger`, `WithdrawalRequest`, `PaystackWebhookEvent`, the wallet JSON of a salon or stylist, `Booking.paymentStatus` | `verifyPayment`, `handleWebhook`, `processWebhookEvent`, `processRefund`, `releaseProviderPayout`, `withdrawFunds` | two settlements of a checkout, a refund against a settlement, a wallet read and written in separate statements, gateway calls outside the transaction, callbacks lost in a restart, row locks | each deposit, refund and payout is entered once; statuses, bookings and wallets agree with the ledger; the ledger agrees with Paystack; no deadlock; a charge is booked |
| **Checkout creation** same file | `PaymentCheckout`, `Payment` | `initializePayment`, `createCheckoutWithPayments`, `ensurePaymentsForExistingCheckout`, `initializeCheckoutWithPaystack` | retries under one `clientCheckoutId`, a crash between the rows and the gateway, a reference Paystack has already seen | one checkout per key, one payment per provider, a retry reaches the same charge |
| **Balance payments** same file, `modules/qr-checkin/`, `modules/bookings/` | `Payment.depositStatus`, `remainingStatus`, `payoutStatus`, `paystackRemainingRef`, `Booking.paymentStatus` | `generateBalancePaymentLink`, `markBalanceCashPaid`, `markRemainingCaptured`, and every other writer of these columns, among them a request for the payout | a second link replaces the reference of the first, cash against card, a late settlement of the deposit, completion on a status read before | a paid balance is captured and stays captured; completing a booking pays out what was earned |
| **Pricing** same file | `ServiceDiscount` (read), `PaymentCheckout.totalAmount`, `Payment.depositAmount` | `buildProviderGroups`, `calculateServiceDiscount`, `computeCustomerPayAmount`, `createProviderPayments`; create, update, delete of a rule | the total is rounded once and each deposit by itself; rules are read again for each group, in no fixed order | what the customer is charged is what the payments add up to, but for the rounding |
| **Subaccounts** same file | `Subaccount`, `bankDetails` of a profile | `createSubaccount`, `updateProviderBankDetails` | Paystack opens the account before the row is there; two calls open two | a profile's bank details are those of the subaccount that is paid |
| **Booking slots** `modules/bookings/bookings.service.ts` | `Booking` | `createBooking`, `createBookingForCustomer`, `checkIn`, status changes | the conflict check and the insert are separate statements | two active bookings of a provider clash only in ways that are known |
| **Booking lifecycle** same file | `Booking.status`, timestamps, rating | `updateBookingStatus`, `rateBooking` | every change calls Settlement on a payment status read before | a payout only for a booking that was paid |
| **Walk-in queue** `modules/qr-checkin/qr-checkin.service.ts` | `Booking`, `PaymentCheckout` and `Payment` rows of walk-ins, the salon's services JSON | `checkIn`, `getQueue`, `updateStatus`, `recordPayment`, `initializePayment`, `getPaymentStatus`, services | unfinished checkouts are deleted and made again with no transaction; JSON read-modify-write | a charge reaches the booking; the record of a payment stays |
| **Registration** `modules/auth/auth.service.ts` | `User` (OTP and reset hashes, attempts, verification), profile rows | `register`, `verifyOtp`, `signUp`, password resets, `updateUser` | every call writes what it decided on a row read before; a mail may be lost | an OTP that counts was mailed; an account that signed up can sign in and has its profile |
| **Sessions** `modules/auth/` | `RefreshToken`, `AccessTokenBlocklist` | `signIn`, `refresh`, `signOut`, the strategy's check, the cleanup job | rotation against rotation and against sign-out | a refresh token buys one session; a signed-out session stays out |
| **Chat** `modules/chat/` | `Conversation`, `ConversationParticipant`, `ChatMessage`, socket rooms | `sendMessage`, `markConversationRead` over a socket or HTTP, unread counts | open transactions, read markers and counts out of order | nothing is taken for read that was not there; counts are right once it is quiet, but for known ways |
| **Favourites** `modules/favourites/`, `modules/bookings/` | `Favourite` | `addFavourite`, `removeFavourite`, `toggleFavourite`, the upsert of `createBookingForCustomer` | each call looks first and writes later | every answered call takes effect at one moment, and its answer was true then |
| **Lists of profiles** `modules/users/`, `providers/`, `uploads/`, `qr-checkin/` | saved addresses, salon services and gallery, portfolio, prices and opening times of a stylist: one JSON or array column each | add, change, remove, write over | the whole column is read, changed and written back in two statements | an entry is lost only to a call that held an older copy; ten addresses at most, none twice but one sent with blanks |
| **Salon onboarding** `modules/providers/`, `uploads/`, `auth/` | the required fields of a salon, `profileCompleted`, the two reminder flags | `updateSalonDetails`, uploads of logo and banner, `updateUser` with its business name, the nightly `handleSalonOnboardingReminders` | fields counted on a copy, or not at all; a mail and its flag are two steps | `profileCompleted` is right but for known ways; each reminder is sent once, and in the end |
| Geo, health, mail, logging, configuration | none | pure I/O | | |

How the parts meet: Checkout hands a link out, Paystack charges it, and Settlement hears of it by
webhook or poll and writes the bookings' payment status. Balance payments, the walk-in queue and
the booking lifecycle read and write that same status. Slots and lifecycle share `Booking.status`.
A checkout needs the bank details that `createSubaccount` notes, and a booking made by a provider adds
a favourite.
Registration ends by opening a session. Nothing but the tables connects the parts, so each module
takes the writes of the other parts to its own columns as steps of its own.

## 2. Modules

| Module | Models | Used by |
|---|---|---|
| `LedgerBook` | the abstract promise: deposit, payout and ledger of a payment move together, in whole checkouts | refined by `Settlement` (`BookSpec`, proved in `Settlement_proofs`) |
| `Settlement` | the five calls that move money, one SQL statement or gateway request per step | `MCSettlement`, `Settlement_proofs` |
| `CheckoutPromise` | the abstract promise: who asks while the bookings are unpaid gets a link, of a checkout priced once; a charge pays all its bookings | refined by `Checkout` (`PromiseKept`, proved in `Checkout_proofs`) |
| `Checkout` | `initializePayment` of the payments service | `MCCheckout`, `Checkout_proofs` |
| `BalancePayment` | every writer of one payment's statuses and of its booking's payment status, one commit per step | `MCBalancePayment`, `BalancePayment_proofs` |
| `TimeSlots` | the arithmetic of slots: conflict check, opening hours | `BookingSlots` |
| `BookingSlots` | how rows come to take a slot and give it back | `MCBookingSlots`, `BookingSlots_proofs` |
| `Registration` | one e-mail address from first call to signed-up account | `MCRegistration`, `Auth_proofs` |
| `Sessions` | grants of one account: refresh and access tokens | `MCSessions`, `Auth_proofs` |
| `Chat` | messages, read markers and unread counts of two users | `MCChat`, `Chat_proofs` |
| `WalkInCheckout` | the queue's own `initializePayment` with the rows it deletes and remakes | `MCWalkInCheckout`, `WalkInCheckout_proofs` |
| `Pricing` | the arithmetic of a checkout while the rules it reads are changed | `MCPricing`, `Checkout_proofs` |
| `FavouriteSet` | the abstract promise: a set, and answers that are true | refined by `Collections` (`FavouritesAtomic`) |
| `Collections` | every list that is read, changed and written back, and the favourites | extended by `Onboarding` |
| `Onboarding` | the fields, reminders and subaccount of a salon, on top of its lists | `MCOnboarding`, `Onboarding_proofs` |

`MC*` modules give the constants of an instance their values, and declare the symmetry; the `.cfg`
files pick an instance. In every module a call in flight is a worker, `call[w]` (`request[w]` in
`Registration`) holds its locals and the step it is at, and a step ends where the code awaits. A restart, an exception or a request that
times out is `Fail`, `Crash` or `Restart`: the worker is idle again and what it had committed stays.
Operators commented `Mutant:` are versions of a definition with a plausible mistake in it; nothing
uses them in the model. They keep the properties honest: put in place of the definition, each makes
its property fail.

### Settlement

State: the tables `checkout`, `deposit`, `payout`, `booking`, `ledger`, `wallet`, `request`,
`debited`; Paystack's own records `emitted`, `reversed`, `transferred`; `stored` and `queued` webhook
events; `call`; and `held`, which is a transaction's write set and its row locks at once. A transaction
reads committed rows, waits for a row in another's `held`, and publishes `held` in `Commit`.

| Action | Code |
|---|---|
| `HandleWebhook`, `ProcessSuccess`, `ProcessFailed`, `MarkCheckoutFailed` | `handleWebhook`, the `setImmediate` callback and `processWebhookEvent` |
| `VerifyPayment`, `VerifyTransaction`, `ReadCheckout` | `verifyPayment`: two requests and a read before the transaction |
| `UpdateCheckout`, `ListPayments`, `UpdatePayment`, `FindEntry`, `InsertEntry`, `ReadWallet`, `PersistWallet`, `SyncBooking`, `Commit` | the statements of `markCheckoutPaid`, `processRefund`, `releaseProviderPayout`, with `createLedgerEntry` and `applyWalletDelta` inside |
| `ProcessRefund`, `RefundAtGateway` | `processRefund` up to its transaction |
| `ReleaseProviderPayout`, `WithdrawFunds`, `CreateTransfer` | the same names |
| `Charge`, `Decline` | Paystack, external |

`raced` remembers wallets that were written from a stale read: `applyWalletDelta` reads the JSON and
writes it back later. The clamp at zero (`AtLeastZero`) is applied to each balance on its own.

### Checkout

`Keys` are `clientCheckoutId`s. `InitializePayment`, `FindCheckout`, `EnsurePayments`,
`InsertCheckout`, `CommitCheckout`, `FindRaceWinner`, `OpenTransaction`, `RecordLink`, `MarkFailed` are
the statements of `initializePayment`, `createCheckoutWithPayments`,
`ensurePaymentsForExistingCheckout` and `initializeCheckoutWithPaystack`, in their order. Two inserts
under one key wait for each other at the unique index, and the loser joins the winner's checkout.
A gateway can be out of reach, or do what it is asked and not answer. `Pay` and `Settle` stand for
Paystack and Settlement. `NoLinkOncePaid` bounds what the code allows when a booking is in two checkouts: both can be
charged, but a checkout that nobody had asked for before the first payment gets no link.

### BalancePayment

One payment row and its booking. `deposit`, `remaining`, `reference`, `booking`, `payout` are
columns; `given`, `charged`, `due`, `returned` are Paystack's; `cash`, `queued`, `edits`,
`resettled` and `late` remember what happened outside the columns. A transaction is one step here, its commit,
because Settlement has the statements. What matters is the distance between the read a call
decides on and its commit: `HearOfDeposit`/`MarkCheckoutPaid`, `RefundAtGateway`/`ProcessRefund`,
`GenerateBalancePaymentLink`/`RecordLink`, `ProcessBalanceEvent` or `VerifyBalance`/
`MarkRemainingCaptured`, `TakeCash`/`MarkBalanceCashPaid`, `FindMismatch`/`SyncMismatch`,
`TakePayment`/`RecordPayment`, `CompleteBooking`/`ReleaseProviderPayout`,
`CancelBooking`/`RefundCancelled`. `EditPaymentStatus` is the payment status that a request to
`updateBookingStatus` may name. `RequestRelease` is `POST /payment/release-payout/:paymentId`: it runs the same
`releaseProviderPayout` as a completed booking does, which looks at `payoutStatus` alone, so it may happen at any
time. A call that read the booking as paid in order to complete it becomes `outdated` when the booking is written as
anything else, and releases the payout all the same; `late` is a balance captured after the deposit was refunded.
`PayoutEarned` is about the releases of calls that are not outdated: balance and deposit stand when the provider is
paid, unless the balance was late, or the queue or an edit had called the booking paid. It claims nothing about
`RequestRelease`.

### BookingSlots with TimeSlots

`Conflicts` is the loop body of `findConflictingBooking` with its five minutes on both ends and five
more off the start; `WithinWindow` the opening hours. `CreateBooking`, `FindDuplicate`, `CheckSlot`,
`InsertBookings` are one call for a party of one or several; `CreateBookingForCustomer` and
`CheckIn` insert unchecked; `UpdateBookingStatus` and the queue's `UpdateStatus` free and take slots.
`rivals`, `unchecked` and `revived` are histories that the explanation of a clash refers to.

### Registration

One row of `User`. `Register`/`StoreCode`/`MailCode`, `VerifyOtp`/`AcceptCode` or `RejectCode`,
`SignUp`/`SetPassword`/`FindProfile`/`CreateProfile`/`OpenSession`, `PasswordReset`, `NewPassword`,
`NewPasswordWithoutToken`, `UpdateUser` follow the service. Time is `age` (`new` for the first five
seconds, `old`, `expired`) and `verified` (`recent`, `past`). `late`, `reset`, `lost` are histories. Its names
differ from those of `Sessions` (`RegistrationSpec`, `request`), since one module proves about both; so do those
of `Pricing` and `Checkout`.

### Sessions

A grant is a refresh token with its access token; `session` is the sign-in it goes back to.
`SignIn`, `Refresh`/`RevokeOld`/`CreateGrant`/`Answer`, `SignOut`/`BlockAccess`/`RevokeTokens`, the two
expiries, `CleanRefreshTokens` and `CleanBlocklist`. An access token is stored nowhere: it is good
until it expires or is on the blocklist.

### Chat

A message is its place in the order of insertion, which is the order of `createdAt`; it becomes visible
when its transaction commits. `SendTo`/`SendIn`, `FindConversation`, `CreateConversation`,
`FindMessage`, `InsertMessage`, `Commit` are `sendMessage`; `MarkConversationRead`/`Mark` the read
marker; `Count`/`Emit` the gateway's unread count for each user in turn. A reading comes from a socket, and the user's
sockets are told the new count, or over HTTP (`quiet`), and only the caller is. `untold` are the users that were told
no count since they read over HTTP, `crossed` those to whom a count was on its way while another arrived or while
they read over HTTP: `BadgeExplained` is about all others.

### WalkInCheckout

A booking goes through several checkout rows under one key. `InitializePayment`, `FindCheckout`,
`DeletePayments`, `DeleteCheckout`, `CreateCheckout`, `CreatePayment`, `OpenTransaction`, `RecordLink` are the
queue's `initializePayment`, which uses no transaction; `HearOfCharge`, `MarkCheckoutPaid`,
`HearOfFailure`, `MarkCheckoutFailed`, `VerifyCheckout`, `VerifyPayment` are what the payments service
does to the same rows; `FindMismatch`, `SyncMismatch` the polling of the screen.

### Pricing

`N` groups of bookings, one per provider, with what they cost. `BeginPricing` is `initializePayment`: it reads the active
rules (`Load`, in any order: the query names none) for a first check; `QuoteGroup` adds up what the
customer pays. `TotalGroup` does it again in `createCheckoutWithPayments`, with rules read again, and rounds
the deposit of the sum. `InsertPayment` is the loop of `createProviderPayments`, which reads the rules once
more for each payment, and undoes everything for a provider without bank details or a payment of
nothing. `DiscountService` is the loop body of `calculateServiceDiscount`: the first rule that matches.
`CreateServiceDiscount`, `UpdateServiceDiscount`, `DeleteServiceDiscount` fall between any two of these steps.
`steady`, `sums` and `taken` are histories. An existing checkout without payments, which
`ensurePaymentsForExistingCheckout` would fill, does not occur: rows and payments are one transaction.

### Collections with FavouriteSet

What a behaviour is about (`what`) is chosen at the start, one list or one salon: they share no state. A
call on a list has a read, which computes its copy (`Append`, `Replace`, `Overwrite`, `Shift`), and a write
(`WriteBack`). The operations are `SaveAddress`, `DeleteAddress`; `AddService`, `UpdateService`,
`DeleteService`; `UploadSalonGallery`; `AddStylistPortfolioItem`, `UpdateStylistBasics`,
`UpdateStylistPricing`, `UpdateStylistProfile` and `UpdateSalonLists`. `wanted` is the list the calls asked
for one after the other, `crossed` the entries somebody changed while another held an older copy. For the favourites,
`FindFavourite` is the look, `CreateFavourite` meets the unique index, `DeleteFavourite` deletes by id, and
`UpsertFavourite` is the one statement of `createBookingForCustomer`. `saveAddress` cuts blanks off city and state when
it stores them, and compares what is stored with what was sent: an address sent with such blanks (`neat` is FALSE) is
never found among the stored ones.

### Onboarding

One salon. `UpdateSalonFields`/`SaveSalon` are `updateSalonDetails`, `UploadPicture`/`CreateSalon`/`SetPicture`
the uploads and `UpdateUser`/`SaveBusinessName` the salon's half of `updateUser`; neither counts `profileCompleted`
again. `uncounted` tells what made it wrong, for as long as it is wrong: a request that crossed another, an upload, or a
name, which may be blank and so take a field away. `CreateSubaccount`/`OpenAccount`/
`InsertSubaccount`/`UpdateProviderBankDetails` are `createSubaccount`, where Paystack's answer may be lost.
`StartJob`, `Query`, `SendMail`, `SetFlag` are the nightly job; `Tick` lets two days go by. A mail fails only
as a fault; without SMTP settings the mail service sends nothing and says nothing, and the job takes that for
sent. `CrashRequest` and `CrashJob` stop either side anywhere.

## 3. Runs

| Run | Instance | Distinct states | Shows |
|---|---|---|---|
| `books` | one checkout, a salon's payment (partly paid) and a stylist's, a withdrawal, 2 calls in flight, 1 fault | 655,176 | `LedgerMatchesStatus`, `BookingFollowsLedger`, `BooksFollowPaystack`, `NoDeadlock`, `WalletBackedByLedger`, `WalletExactUnlessRaced`, `WalletMovesWithLedger`, and `BookSpec`: settlement implements `LedgerBook` |
| `charge` | as `books` without payouts, withdrawals and faults, with fairness | 12,278 | `ChargeIsBooked`, `CallsReturn` |
| `checkout_calls` | a booking paid for alone or with another, 3 calls in flight, 2 faults of any kind | 342,945 | `PricedOnce`, `PaidNotReset`, `LinkInTheEnd`, and `PromiseKept`: checkout implements `CheckoutPromise`. `ChargeReachesBookings` and `NoLinkOncePaid` follow from the promise and are proved |
| `balance_calls` | 2 balance links, cash once, 2 calls in flight, a payout requested at any time, 1 crash or edit | 940,958 | `BookingFollowsPayment`, `PayoutEarned`, `CapturedStays`, `PaidLinkCaptured` |
| `slots_clash` | one salon, half-hour slots at 10:00 and 10:34, 3 rows, 2 calls in flight, 2 status changes | 297,460 | `ClashExplained` |
| `registration_calls` | 3 OTPs, a customer and a salon account, 2 calls in flight, 1 wrong attempt, 1 expiry, 1 fault | 489,250 | `LiveCodeMailed`, `CanSignIn`, `ProfileExplained`, `SignsUp` |
| `session_calls` | 3 grants, 2 calls in flight, 1 expiry, a failure at any step | 1,714,973 | `SignedOutStaysOut`, `OneTokenPerSession`, `BlockedWhileValid` |
| `chat_calls` | 2 users, 2 conversations, 3 messages, 1 read over socket or HTTP, 2 calls in flight, 1 fault | 2,183,646 | `NothingMissed`, `LastIsNewest`, `BadgeExplained` |
| `walkin_calls` | 2 checkout rows, 2 calls in flight, 1 fault of any kind | 1,165,621 | `ChargeExplained`, `PaymentBehindLink`, `PaidClearedByLateCall` |
| `profile_calls` | any one list, or a salon with 2 required fields, its logo and its name, or its subaccount; 3 things, 3 entries, room for 2 addresses, 2 calls in flight, 1 fault | 823,399 | `LossExplained`, `AddressesKept`, `FavouritesAtomic`, `CompletedExplained`, `RemindedOnce`, `BankDetailsExplained`, `RemindedInTheEnd` |
| `pricing` | a salon and a stylist, 2 services, 2 rules with and without a cap, deposits of 33, 50 and 100 per cent, 3 changes of the rules | 1,451,329 | `DepositsAddUp` |
| `double_tap` | 2 `register` calls, no aging | some 360 (stops at the violation) | the finding `MailedCodeStays`, below |

The runs do not spend time on the type invariants, which are proved for all modules. Deadlock is not checked: every system here may stop, when
its bounded supply of charges, links, OTPs or messages is used up. That transactions do not block each
other is `NoDeadlock`, and that calls end is `CallsReturn`.

Why the bounds are enough to be interesting:

- Every hazard listed for these parts is about two actors, an old read against a newer write, so two
  calls in flight meet it; `checkout_calls` has three, because a loser that joins a rolled-back winner
  while a third inserts takes three.
- Two providers in a group are what makes transactions lock rows in different orders. A wallet is
  shared by a settlement, a refund, a payout and a withdrawal of the salon, of which any two race. `PartlyPaid`
  holds one of the two payments, so both deposit and full payment occur.
  Two calls on one checkout that took its payments in different orders would already lock each other out. What two
  checkouts of the same two providers add, the order of their groups, no run has the states for: there
  `NoDeadlockCorrect` is the evidence.
- The slots at 10:00 and 10:34 of half an hour lie four minutes apart: in one order the code's
  asymmetric five minutes matter, in both the distance is too small. Three rows are two that clash
  and one that comes in between. A party of two asks for both slots, conflicts with itself and is refused: the run shows
  that it is, and that parties whose slots are far enough apart cause no clash either is left to
  `ClashExplainedCorrect`.
- One fault in a run of a few calls hits each step of each of them. Two in `checkout_calls` cover a
  rollback followed by a failure of its retry.
- Three entries in `profile_calls` fill a list of two addresses (`MAX_SAVED_ADDRESSES` is ten in the code, which only
  compares with it) and push one out. Lists share nothing, so one at a time loses no behaviour.
- `pricing` has prices for which both the share of 33 per cent and a discount of one half leave something to
  round, two rules that both match one service and a cap that one price exceeds, and a request for
  150 per cent, which is clamped. Three changes: make both rules, and change one while the call runs.
- `MaxAttempts` is 1 in `registration_calls` where the default of `OTP_MAX_ATTEMPTS` is 5
  (`src/src/config/env.validation.ts`): the code only compares with it, and one keeps the last attempt
  in reach.
- Symmetry (workers, rows, links of the same kind) is declared only in runs without liveness.

### Fairness

- Settlement: strong fairness of `Continue`, since the event loop serves every call and PostgreSQL grants
  row locks in the order they are asked for; weak fairness of `HandleWebhook`, since Paystack
  redelivers until it is answered; strong fairness of `Process`, since `setImmediate` runs its callback as soon as the
  bounded set of workers has a free one (the bound is the model's, so it may be taken again and again).
  `ChargeIsBooked` is checked without restarts: the event is stored before it is processed, so a
  restart in between loses it and its redelivery is taken for a duplicate.
- Checkout: strong fairness of `Continue` and of a new `InitializePayment` for each key. The latter
  is the customer who asks again, and the property says what that customer gets.
- BalancePayment: calls that have started finish; events are delivered and processed.
- Registration: calls go on, five seconds pass, and the user goes on registering, typing the right
  OTP and signing up. `SignsUp` says that this leads to a password, or uses up the OTPs of the
  instance.
- Onboarding: weak fairness of the nightly job, since the scheduler starts it every night and what it awaits
  comes back; strong fairness of the days going by, since `Tick` waits for the night's job. Nothing is assumed of
  the people who fill in the fields. `RemindedInTheEnd` holds although one mail, flag or job may fail.

The other modules are checked for safety only.

### Findings

- `double_tap`: `register` compares the age of the OTP it read, and stores a new one later. Two
  calls at once both pass, and the second replaces the OTP that was just mailed. The comment at
  `src/src/modules/auth/auth.service.ts:91-94` says that the guard is there for exactly this case.

### What the code allows, and no text forbids

The runs go through these; the properties exclude them by name (`unless ...`), or claim nothing about them.

- A walk-in's `initializePayment` that read the booking as unpaid reads a paid checkout if the charge is settled in
  between, takes it for a dead one, since it is not pending with a link, and deletes it with its
  payment; the comment at `src/src/modules/qr-checkin/qr-checkin.service.ts:774` has pending ones without a link and
  failed ones in mind. `PaidClearedByLateCall` says that only such a late call ever clears a paid one.
- An entry of a list is lost, or comes back, when a call writes an older copy; `profileCompleted` stays false
  when the last missing field is an uploaded picture, so the salon is reminded although it is complete. A
  new business name, too, leaves `profileCompleted` as it was, also a blank one, which leaves a salon complete that is
  not.
- An address that is sent twice with a blank behind its city is saved twice: `saveAddress` compares the stored city,
  which has none, with the one that was sent (`src/src/modules/users/users.service.ts:48`).
- After a reading over HTTP the user's sockets keep the old count until the next message or reading.
- Two `createSubaccount` calls open two accounts at Paystack, of which the backend knows one.
- Discount rules that change while a checkout is made up, or come back in another order, price its payments
  differently from its total.
- Two withdrawals at once are both paid out of one balance (`withdrawFunds` reads it before two
  gateway requests); concurrent wallet updates lose one of the two (`raced`).
- A booking with two open checkouts can be charged by both; a balance can be taken by link and in
  cash.
- A settlement that runs after a refund marks deposit and bookings paid again; the ledger stays
  right.
- `releaseProviderPayout` looks at `payoutStatus` alone: a booking cancelled after it was completed
  is refunded and stays paid out, and `POST /payment/release-payout/:paymentId` releases the payout of any payment for
  whoever is signed in, whatever was collected
  (`src/src/modules/payments/payments.controller.ts:207`). Cancelling a booking paid in two parts returns the deposit only.
- Two calls in flight book one slot; a revived booking takes its slot back unchecked.
- Two first messages make two conversations, and then a retry with the same `clientMessageId` may be
  stored in both.
- A refund moves money before its transaction: a failure in between leaves the books behind Paystack.

## 4. Proofs

Eight modules hold theorems; TLAPS checks them for every number of workers, rows, links, slots, groups, messages,
entries and faults. All safety properties that the passing runs check are stated by a theorem. The only assumptions
are the `ASSUME`s of the modules, which every run evaluates:

- types of the constants; `None` is no row; keys stand for some bookings (Checkout); discount rates are between 0 and
  100 and deposits a positive percentage, as their DTOs demand (Pricing); there are users (Chat);
- Settlement, `GroupsAssumption`: payments of one checkout have different providers and `createdAt`, and are listed in
  the order of their groups' keys. `buildProviderGroups` makes one group per provider and sorts the groups by key
  (`payments.service.ts:1045`); `createProviderPayments` inserts one payment per group, one after the other. Two
  payments of one millisecond are not modelled;
- Settlement, `FiniteAssumption`: the tables and the calls in flight are finite. Only sums need it.

| Module | Theorems | Inductive invariant |
|---|---|---|
| `Settlement_proofs` | `TypeCorrect`, `LedgerCorrect`, `TransactionsCorrect` | `TypeOK /\ TransactionsConsistent /\ LedgerMatchesStatus` |
| | `SettlementImplementsBook`, `BookingFollowsLedgerCorrect`, `BooksFollowPaystackCorrect`, `WalletMovesCorrect` | `BInv`: the above, `CallsComplete`, `Alone`, `GatewayBooked`, `BookingFollowsLedger` |
| | `NoDeadlockCorrect` | `LInv`: `BInv`, `LocksInOrder` |
| | `WalletBackedCorrect`, `WalletExactCorrect` | `WInv`: `BInv`, `Covers`, `Tallies`, `WalletsAlone`, `Drafted` |
| `Checkout_proofs`, of `Checkout` | `TypeCorrect`, `PricedOnceCorrect`, `ChargeCorrect`, `PaidNotResetCorrect`, `NoLinkOncePaidCorrect`, `CheckoutKeepsPromise` | `TypeOK`, `PricedOnce`, `ChargeReachesBookings`, `MoneyFollowsLinks`, `RowsAgree`, `CallsRely`, `CallsAlone` |
| of `Pricing` | `PricingTypeCorrect`, `PaymentsAreSound`, `TotalIsTheSum` | `PricingTypeOK`, `SoundSoFar`, `SumInv` |
| `BalancePayment_proofs` | `TypeCorrect`, `CapturedIsCollectedCorrect`, `BookingFollowsPaymentCorrect`, `PayoutEarnedCorrect`, `CapturedStaysCorrect` | `TypeOK`, `CapturedIsCollected`, `BookingFollowsPayment`, `BalanceFollowsDeposit`, `PaidForReason` |
| `BookingSlots_proofs` | `NoConflictKeepsDistance`, `TypeCorrect`, `ClashExplainedCorrect` | `TypeOK`, `ClashExplained`, `ChecksHold` |
| `WalkInCheckout_proofs` | `TypeCorrect`, `ChargeExplainedCorrect`, `PaymentBehindLinkCorrect`, `PaidClearedByLateCallCorrect` | `TypeOK`, `OneMaker`, `LinkOrder`, `PaymentDeleted`, `RemovalExplained`, `PaidSince`, `ChargeExplained` |
| `Onboarding_proofs` | `LossIsExplained`, `AddressesAreKept`, `FavouritesAreAtomic`, `CompletedIsExplained`, `BankDetailsAreExplained`, `RemindersAreSentOnce`, `TypeCorrect` | `KeepInv` (lists), `RowInv` (the salon's row and account), `JobInv` (reminders) |
| `Auth_proofs`, of `Sessions` | `SignedOutCorrect`, `OneTokenCorrect`, `BlockedCorrect`, `TypeCorrect` | `TypeOK`, `Rooted`, `NoTwins`, `SignedOutStaysOut`, `BlockedWhileValid`, `CallsRely` |
| of `Registration` | `RegistrationTypeCorrect`, `LiveCodeMailedCorrect`, `CanSignInCorrect`, `ProfileExplainedCorrect` | `RegistrationTypeOK`, `RequestsKnown`, and the three properties |
| `Chat_proofs` | `TypeCorrect`, `NothingMissedCorrect`, `LastIsNewestCorrect`, `BadgeExplainedCorrect` | `TypeOK`, `CallsKnown`, `OneWriter`, `MarkersSound`, `MarkersReached`, `RivalsKnown`, `LastIsNewest`, `Told` |

Why the invariants have to be strengthened:

- *Settlement.* `LedgerMatchesStatus` speaks of committed rows, and a commit publishes a whole write
  set. `TransactionsConsistent` follows the loop: a payment row in the write set comes with its ledger
  entry, or the call is just about to enter it; a deposit the call read as taken is never pending again,
  although others commit in between. That nobody un-takes a deposit is the heart of the argument. The
  lemmas take the actions one by one.
- *That Settlement implements its book.* A commit is one step of `LedgerBook` only if the write set is known as a whole:
  the loop has left no payment of the checkout behind and touched none of another (`CallsComplete`). Two calls
  never hold the same row or key, so that what was true when a row was written is true when it is published
  (`Alone`), and a call carries Paystack's answer from the request to its commit (`GatewayBooked`). The theorem
  then shows each step of Settlement to be a settlement, refund or release of the book, or to leave its
  variables alone.
- *No deadlock.* The rows have ranks: the checkout first, then provider by provider, in the order of the groups' keys,
  the payment, its ledger key, the wallet, the bookings. `LocksInOrder` says that a call asks for rows above all it
  holds, so that of the calls that hold something and wait, the one that holds the highest row would wait for a higher
  one. The order across two checkouts is nowhere in the loop: it comes from the sort in `buildProviderGroups`.
  With groups in arbitrary order two settlements of one salon and one stylist lock the two wallets against each
  other, and `NoDeadlock` is false.
- *Wallets.* `WalletBackedByLedger` sums over the ledger. Of what a call has read of a wallet and what it has written, `Drafted` says
  that its own entries, added to those committed, cover it; that it has written a wallet for each entry; and that, as long as
  no write started from a stale read, the draft is its change to the wallet as it is now. `WalletsAlone` lets a commit
  apply one change at a time. The clamp at zero makes a balance at least what is booked, never less, which
  is why `Tallies` has inequalities. About sums, which are folds, the lemmas `TotalRemove` and
  `TotalGrows` are proved by taking the smallest set that contradicts them, since the induction theorems cannot be used.
- *Checkout.* `PricedOnce` needs that of the calls that hold the unique key at most one inserts
  (`CallsAlone`) and that a call beyond the insert has its rows (`CallsRely`). `ChargeReachesBookings` goes back
  along `MoneyFollowsLinks`: a charge is of a link that was handed out, and a link is handed out only
  with its reference on record. `CheckoutKeepsPromise` needs no more: the promise sees a call as asking for its key until it
  ends (`Asking`), a link as handed out by a call that asks, of a checkout that is there and so was priced, and a
  charge as settled on a checkout that carries its reference.
- *BalancePayment.* A payout is released by a call that read the booking as paid some time ago:
  `PaidForReason` carries the reason (both parts stand, the queue, an edit) from the moment the booking is
  shown as paid through every call that is about to pay out. Whatever takes a reason away, a refund or a late settlement,
  writes the booking in the same commit, and so makes those calls outdated.
  `CapturedStays` needs `BalanceFollowsDeposit`: nothing is captured while the deposit is pending, so the one
  branch of `markCheckoutPaid` that writes `remainingStatus` meets a captured balance only after a
  refund.
- *BookingSlots.* `ChecksHold` says of the slots a call has checked that they keep their distance from
  each other, and from every active booking except those inserted since its first check and those that
  were revived: exactly what the insert adds to the histories that `ClashExplained` refers to.
  `NoConflictKeepsDistance` is the arithmetic: the check is not symmetric, and five minutes are kept
  either way.
- *Pricing.* `SumInv` follows both loops. While the rules stay as they were read for the total, each payment takes off what
  was noted for it (`taken`), so after `n` payments the deposits are within `n` half naira of the share of the
  first `n` amounts; the total is within one of the share of all.
- *Onboarding.* `CopiesExplained` says of a call's copy what `LossExplained` says of the list, for all entries but those
  the call has missed. `OneRow` and `CallsRely` make the favourites' inserts and deletes steps of the set.
  `AllKept` says of every copy what `AddressesKept` says of the list, and that its entries were made before (`MadeBy`),
  so that a new one is the later of two of the same address.
  `CountsRely` says that a count is right unless another request wrote the row since (a name or an upload, too), and
  `JobInv` counts a mail
  whose flag is about to be set.
- *Sessions.* `OneTokenPerSession` counts; `NoTwins` says the same of pairs. A rotation between revoking and storing
  leaves its session with no good token and no sign-out behind it, unless it crossed another call
  (`CallsRely`); the successor then breaks neither property.
- *WalkInCheckout.* A row is charged long after it was made, and cleared by a call that looked long before.
  `RemovalExplained` gives a row the reasons of `ChargeExplained` before it is charged: when a call sets out
  to clear it, or it fails. `OneMaker` and `LinkOrder` order the life of a row, so that what a
  crash left half made was never handed out. `PaidSince` says that whoever is in flight when a payment is taken
  looked at the booking before, and so is late when it clears that payment.
- *Registration.* `RequestsKnown` says what of a request's read still counts when it writes: that there was no password when
  it registered, that the OTP it mails was generated, that the wrong OTP was one below the limit. The rest
  of what it read may be out of date, and the properties hold all the same.
- *Chat.* `NothingMissed` is about stored messages, while a marker is fixed when some are open:
  `MarkersSound` says it of all but those rolled back, and `Looked` says it in advance of the marker a call is
  about to write. `RivalsKnown` is what makes an older message that commits late one of the newer one's rivals.
  `Told` follows a count: every change of a user's unread count leaves a call that owes the user a count, whoever
  owes one takes it anew, and of two on their way to one user the first to arrive makes them crossed. A user who read
  over HTTP is owed nothing; what is needed is that no count from before the reading is still on its way.

Only model-checked: liveness (`ChargeIsBooked`, `CallsReturn`, `LinkInTheEnd`, `PaidLinkCaptured`, `SignsUp`,
`RemindedInTheEnd`). Liveness under fairness, `ENABLED` and induction over data are out of the provers' reach; no
module that is proved about declares a recursive operator. `MailedCodeStays` is false, see the findings.

## 5. Abstractions and assumptions

- Money is small numbers; amounts of a payment do not change (no code changes them).
- A `clientCheckoutId` fixes its bookings. Those the backend makes do; a client that sends its own could
  break this, and the code would then go on with the bookings of the first call.
- `Settlement` has one booking per payment (`booking[p]` stands for all the bookings of a group, which are written by one
  statement), and no payment status written by requests; `BalancePayment` has them.
- `BookingSlots` has one day, and hours that do not change. A time that cannot be parsed is not modelled.
- `Registration` has one address and no phone numbers; generated OTPs differ.
- `Pricing` has whole naira and no `platformFee` or `remainingAmount`, each of which is computed from one other column.
- `Onboarding` is about one list, one salon's fields or one subaccount at a time, each with two calls in flight.
- Text, formatting, DTO validation, mails' contents and notifications are left out.

Not modelled, and why:

- geo, health, mail delivery, logging, configuration: no state of their own.
- `getBankList`, `resolveAccountNumber`, `getSubaccount`, `getBookedSlots`, `checkAvailability`, pagination and socket
  rooms of the chat: they change no table.
- `createSalon`, `createStylistProfile`, names (but for a salon's business name, see Onboarding), e-mails and other columns that are written over without being
  read: one statement, the later stays. So is
  `changePassword`. `rateBooking` looks for a rating and writes it in two statements: of two at once the later
  stays, and nothing reads it but the screens.
- The branches of Settlement for a payment without a checkout: every `payment.create` in the code connects one
  (`payments.service.ts:1238`, `qr-checkin.service.ts:795`), so they serve rows of an earlier version only.

## 6. Plan

The order was: money first (Settlement with LedgerBook, Checkout, BalancePayment), then slots, then
accounts (Registration, Sessions), Chat and the walk-in queue; then Pricing, the lists and the onboarding of
salons, and the proofs. What is left:

1. A chat socket that outlives its session, and messages of equal `createdAt` across pages.
2. Two open checkouts of one booking, composed from Checkout and Settlement: what the customer is owed back.
3. An abstract specification of the queue's checkout (what a walk-in owes and has paid), and the proof that
   WalkInCheckout implements it but for late calls.

To repeat the checks, in this directory: `tlc -workers 2 -config <cfg> <module>` for a run of
`PROJECT.json`, and `tlapm <module>_proofs.tla` for the proofs.
