SPECIFICATION FairSpec
CONSTANTS
  NoCode = NoCode
  Codes = {o1, o2, o3}
  Kinds = {customer, salon}
  Profiled = {salon}
  Requests = {w1, w2}
  MaxAttempts = 1
  MaxTicks = 1
  MaxFaults = 1
  Resets = TRUE
CHECK_DEADLOCK FALSE
INVARIANTS
  LiveCodeMailed
  CanSignIn
  ProfileExplained

PROPERTY
  SignsUp
