SPECIFICATION Spec
CONSTANTS
  None = None
  Grants = {g1, g2, g3}
  Workers = {w1, w2}
  MaxExpired = 1
SYMMETRY Symmetry
CHECK_DEADLOCK FALSE
INVARIANTS
  SignedOutStaysOut
  OneTokenPerSession
  BlockedWhileValid
