SPECIFICATION FairSpec
CONSTANTS
  Links = {l1, l2}
  Workers = {w1, w2}
  None = None
  MaxCash = 1
  MaxFaults = 1
  Queue = TRUE
  Refunds = TRUE
CHECK_DEADLOCK FALSE
INVARIANTS
  BookingFollowsPayment
PROPERTIES
  CapturedStays
  PayoutEarned
  PaidLinkCaptured
