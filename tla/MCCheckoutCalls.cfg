SPECIFICATION FairSpec
CONSTANTS
  single = single  group = group
  b1 = b1  b2 = b2
  None = None
  Keys = {single, group}
  Bookings = {b1, b2}
  Workers = {w1, w2, w3}
  FaultKinds = {"unreachable", "unanswered", "crash"}
  MaxFaults = 2
  BookingsOf <- MCBookingsOf
CHECK_DEADLOCK FALSE
INVARIANTS
  PricedOnce
PROPERTIES
  PaidNotReset
  PromiseKept
  LinkInTheEnd
