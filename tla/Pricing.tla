------------------------------- MODULE Pricing -------------------------------
(***************************************************************************)
(* What a checkout costs: the arithmetic inside of                         *)
(* PaymentsService.initializePayment (src/modules/payments/                *)
(* payments.service.ts), while an administrator changes the discount rules *)
(* it reads.  They are read once for a first check, again in the           *)
(* transaction for the total of the checkout, and again for each payment.  *)
(*                                                                         *)
(* The bookings are grouped by provider already (buildProviderGroups): the *)
(* groups are numbered in the order of their keys.  Amounts are whole      *)
(* naira; a percentage of one is kept in hundredths until it is rounded.   *)
(***************************************************************************)
EXTENDS Integers, FiniteSets, Sequences

CONSTANTS
  N,           \* provider groups
  Total,       \* the sum of the bookings' totalAmount, per group
  Fare,        \* the sum of their transportFare
  BaseFee,     \* pricing.baseTransportFee of the provider, 0 if there is none
  Stylists,    \* groups whose provider is a stylist
  Services,
  ServicesOf,  \* the sequence of them that a group is for
  Price,       \* of a service
  Keywords,    \* serviceKeyword of a rule
  KeywordsIn,  \* keywords a service's name contains
  RuleIds,     \* rows of ServiceDiscount
  Rates,       \* discountPercent
  Caps,        \* maxPrice
  Nothing,        \* no rule; no cap
  Percents,    \* depositPercent a request may name
  MaxChanges   \* bound: changes of the rules

Groups == 1..N

ASSUME CartAssumption ==
  /\ N \in Nat \ {0}
  /\ Total \in [Groups -> Nat] /\ Fare \in [Groups -> Nat] /\ BaseFee \in [Groups -> Nat]
  /\ Stylists \subseteq Groups
  /\ ServicesOf \in [Groups -> Seq(Services)]
  /\ Price \in [Services -> Int]
  /\ KeywordsIn \in [Services -> SUBSET Keywords]

ASSUME RulesAssumption ==
  /\ Rates \subseteq 0..100 /\ Caps \subseteq Nat /\ Nothing \notin Nat
  /\ Percents \subseteq Nat \ {0}
  /\ MaxChanges \in Nat

VARIABLES
  rules,     \* ServiceDiscount
  changes,   \* how often it was changed
  banked,    \* groups whose provider has a subaccount
  step,      \* what the call is doing
  percent,   \* the deposit's share, clamped
  loaded,    \* the active rules, as the call has read them last
  group,     \* the group it is at
  at,        \* how many services of the group it has looked at
  discount,  \* what those take off, in hundredths
  taken,     \* what the first services of a group took off when the total was
             \* made up
  sums,      \* what the customer pays for the first groups, added up
  total,     \* PaymentCheckout.totalAmount
  payments,  \* Payment: what the customer pays, and the deposit, per group
  booked,    \* the deposits inserted so far, added up
  steady     \* since the total was made up, each read found the same rules

ruleVars == <<rules, changes, banked>>
loopVars == <<step, loaded, group, at, discount>>
pricingVars == <<ruleVars, loopVars, taken, percent, sums, total, payments, booked, steady>>

Rule == [keyword : Keywords, rate : Rates, cap : Caps \cup {Nothing}, active : BOOLEAN]
Payment == [pay : Int, deposit : Int]
NoPayments == [g \in Groups |-> [pay |-> 0, deposit |-> 0]]

PricingInit ==
  /\ rules = [r \in RuleIds |-> Nothing] /\ changes = 0
  /\ banked \in SUBSET Groups
  /\ step = "idle" /\ percent = 100 /\ loaded = << >>
  /\ group = 1 /\ at = 0 /\ discount = 0
  /\ taken = [g \in Groups |-> [i \in 0..Len(ServicesOf[g]) |-> 0]]
  /\ sums = [g \in 0..N |-> 0] /\ total = 0
  /\ payments = NoPayments
  /\ booked = 0 /\ steady = TRUE

-----------------------------------------------------------------------------
\* The administrator's calls.  The index on serviceKeyword is unique.
SetRule(r, rule) ==
  /\ changes < MaxChanges /\ changes' = changes + 1
  /\ rule # Nothing => \A q \in RuleIds \ {r} : rules[q] # Nothing => rules[q].keyword # rule.keyword
  /\ rules' = [rules EXCEPT ![r] = rule]
  /\ UNCHANGED <<banked, loopVars, taken, percent, sums, total, payments, booked, steady>>

CreateServiceDiscount(r, rule) == rules[r] = Nothing /\ rule.active /\ SetRule(r, rule)
UpdateServiceDiscount(r, rule) == rules[r] # Nothing /\ SetRule(r, rule)
DeleteServiceDiscount(r) == rules[r] # Nothing /\ SetRule(r, Nothing)

\* loadActiveDiscountRules asks for no order: it gets them in any.
Active == {r \in RuleIds : rules[r] # Nothing /\ rules[r].active}
Load ==
  \E f \in [1..Cardinality(Active) -> Active] :
    /\ \A i, j \in DOMAIN f : f[i] = f[j] => i = j
    /\ loaded' = [i \in DOMAIN f |-> rules[f[i]]]

-----------------------------------------------------------------------------
\* Math.round, of hundredths.
Round(x) == (x + 50) \div 100

\* applyTransportFeeFallback: a stylist who was promised no fare gets the fee.
FareOf(g) == IF g \in Stylists /\ Fare[g] = 0 THEN BaseFee[g] ELSE Fare[g]
Gross(g) == Total[g] + FareOf(g)

\* calculateServiceDiscount takes the first rule whose keyword is in the name
\* and whose maxPrice is not exceeded.
Eligible(rule, s) ==
  rule.keyword \in KeywordsIn[s] /\ (rule.cap # Nothing => Price[s] <= rule.cap)
First(f, s) == {i \in DOMAIN f : Eligible(f[i], s) /\ \A j \in DOMAIN f : Eligible(f[j], s) => i <= j}

\* What they take off a service, in hundredths: the set of the one amount.
TakenOff(f, s) ==
  IF Price[s] <= 0 \/ \A i \in DOMAIN f : ~Eligible(f[i], s)
    THEN {0}
    ELSE {Price[s] * f[i].rate : i \in First(f, s)}

DiscountService ==
  /\ step \in {"quote", "total", "insert"}
  /\ at < Len(ServicesOf[group])
  /\ at' = at + 1
  /\ \E off \in TakenOff(loaded, ServicesOf[group][at + 1]) :
       /\ discount' = discount + off
       /\ taken' = IF step = "total" THEN [taken EXCEPT ![group][at + 1] = discount + off] ELSE taken
  /\ UNCHANGED <<ruleVars, step, loaded, group, percent, sums, total, payments, booked, steady>>

\* computeCustomerPayAmount, once all the services were looked at.
Looked == at = Len(ServicesOf[group])
CustomerPay == Round(100 * Gross(group) - discount)

Turn(phase, g) == step' = phase /\ group' = g /\ at' = 0 /\ discount' = 0

End(how) == step' = how /\ UNCHANGED <<loaded, group, at, discount>>

-----------------------------------------------------------------------------
\* initializePayment reads the rules ...
BeginPricing(p) ==
  /\ step = "idle"
  /\ percent' = IF p > 100 THEN 100 ELSE p
  /\ Turn("quote", 1) /\ Load
  /\ UNCHANGED <<ruleVars, taken, sums, total, payments, booked, steady>>

\* ... adds up what the customer pays, and refuses if that is nothing.
QuoteGroup ==
  LET s == sums[group - 1] + CustomerPay
  IN /\ step = "quote" /\ Looked
     /\ sums' = [sums EXCEPT ![group] = s]
     /\ \/ group < N /\ Turn("quote", group + 1) /\ UNCHANGED loaded
        \/ group = N /\ s > 0 /\ Turn("total", 1) /\ Load
        \/ group = N /\ s <= 0 /\ End("refused")
     /\ UNCHANGED <<ruleVars, taken, percent, total, payments, booked, steady>>

\* createCheckoutWithPayments reads the rules again, adds up again, and rounds
\* the deposit of the sum.  Then the rules are read for the first payment.
TotalGroup ==
  LET s == sums[group - 1] + CustomerPay
  IN /\ step = "total" /\ Looked
     /\ sums' = [sums EXCEPT ![group] = s]
     /\ \/ group < N /\ Turn("total", group + 1) /\ UNCHANGED <<loaded, total, steady>>
        \/ /\ group = N
           /\ total' = Round(percent * s)
           /\ Turn("insert", 1) /\ Load
           /\ steady' = (loaded' = loaded)
     /\ UNCHANGED <<ruleVars, taken, percent, payments, booked>>

\* The payment of the group, its deposit rounded by itself; then the rules are
\* read for the next one.
Insert(pay) ==
  LET deposit == Round(percent * pay)
  IN /\ payments' = [payments EXCEPT ![group] = [pay |-> pay, deposit |-> deposit]]
     /\ booked' = booked + deposit
     /\ \/ group < N /\ Turn("insert", group + 1) /\ Load /\ steady' = (steady /\ loaded' = loaded)
        \/ group = N /\ End("done") /\ UNCHANGED steady

\* Mutant: the provider's payment leaves the discounts out.
InsertGrossPayment ==
  /\ step = "insert" /\ Looked
  /\ IF group \notin banked \/ CustomerPay <= 0
       THEN End("refused") /\ payments' = NoPayments /\ booked' = 0 /\ UNCHANGED steady
       ELSE Insert(Gross(group))
  /\ UNCHANGED <<ruleVars, taken, percent, sums, total>>

\* createProviderPayments: a provider without bank details, or a payment of
\* nothing, undoes what the transaction inserted.
InsertPayment ==
  /\ step = "insert" /\ Looked
  /\ IF group \notin banked \/ CustomerPay <= 0
       THEN End("refused") /\ payments' = NoPayments /\ booked' = 0 /\ UNCHANGED steady
       ELSE Insert(CustomerPay)
  /\ UNCHANGED <<ruleVars, taken, percent, sums, total>>

-----------------------------------------------------------------------------
PricingNext ==
  \/ \E r \in RuleIds :
       \/ \E rule \in Rule : CreateServiceDiscount(r, rule) \/ UpdateServiceDiscount(r, rule)
       \/ DeleteServiceDiscount(r)
  \/ \E p \in Percents : BeginPricing(p)
  \/ DiscountService \/ QuoteGroup \/ TotalGroup \/ InsertPayment

PricingSpec == PricingInit /\ [][PricingNext]_pricingVars

-----------------------------------------------------------------------------
\* The variables have the types the code gives them.
PricingTypeOK ==
  /\ rules \in [RuleIds -> Rule \cup {Nothing}] /\ changes \in 0..MaxChanges
  /\ banked \subseteq Groups
  /\ step \in {"idle", "quote", "total", "insert", "done", "refused"}
  /\ percent \in 1..100
  /\ DOMAIN loaded \subseteq Nat /\ \A i \in DOMAIN loaded : loaded[i] \in Rule
  /\ group \in Groups /\ at \in 0..Len(ServicesOf[group]) /\ discount \in Nat
  /\ DOMAIN taken = Groups /\ \A g \in Groups : taken[g] \in [0..Len(ServicesOf[g]) -> Nat]
  /\ sums \in [0..N -> Int] /\ total \in Int
  /\ payments \in [Groups -> Payment] /\ booked \in Int
  /\ steady \in BOOLEAN

\* The deposits of the payments add up to what the customer is charged for the
\* checkout (createCheckoutWithPayments, createProviderPayments), up to half a
\* naira for each rounding, unless the rules changed, or were read in another
\* order, while they were made up.
DepositsAddUp ==
  step = "done" /\ steady => 2 * (total - booked) \in (0 - N - 1)..(N + 1)

\* No payment is for nothing or for more than the provider is due, and its
\* deposit is a part of it (createProviderPayments), however the rules change.
PaymentsSound ==
  step = "done" => \A g \in Groups :
    /\ payments[g].pay \in 1..Gross(g)
    /\ payments[g].deposit \in 0..payments[g].pay
    /\ percent = 100 => payments[g].deposit = payments[g].pay
=============================================================================
