SPECIFICATION Spec
CONSTANTS
  c1 = c1  c2 = c2
  p1 = p1  p2 = p2  p3 = p3  p4 = p4
  salon = salon  stylist = stylist
  x1 = x1  x2 = x2
  None = None
  Checkouts = {c1}
  Payments = {p1, p2}
  Providers = {salon, stylist}
  Withdrawals = {x1}
  Workers = {w1, w2}
  PartlyPaid = {p1}
  Traffic = {"verify", "refund", "release", "decline", "withdraw"}
  MaxFaults = 1
  CheckoutOf <- MCCheckoutOf
  ProviderOf <- MCProviderOf
  RequesterOf <- MCRequesterOf
  CreatedAt <- MCCreatedAt
  KeyOrder <- MCKeyOrder
  Amount <- MCAmount
  WithdrawAmount <- MCWithdrawAmount
CHECK_DEADLOCK FALSE
SYMMETRY Symmetry
INVARIANTS
  LedgerMatchesStatus
  NoDeadlock
  BookingFollowsLedger
  BooksFollowPaystack
  WalletBackedByLedger
  WalletExactUnlessRaced
PROPERTIES
  WalletMovesWithLedger
  BookSpec
