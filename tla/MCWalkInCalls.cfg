SPECIFICATION Spec
CONSTANTS
  None = None
  Rows = {r1, r2}
  Workers = {w1, w2}
  FaultKinds = {"unreachable", "unanswered", "crash"}
  MaxFaults = 1
SYMMETRY Symmetry
CHECK_DEADLOCK FALSE
INVARIANTS
  ChargeExplained
  PaymentBehindLink

  
