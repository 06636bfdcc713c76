SPECIFICATION Spec
CONSTANTS
  Users = {u, v}
  Conversations = {k1, k2}
  Clients = {x}
  NoClient = NoClient
  None = None
  Workers = {w1, w2}
  MaxMessages = 3
  MaxReads = 1
  MaxFaults = 1
CHECK_DEADLOCK FALSE
SYMMETRY Symmetry
INVARIANTS
  NothingMissed
  LastIsNewest
  BadgeExplained
