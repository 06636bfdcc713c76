SPECIFICATION Spec
CONSTANTS
  salon = salon
  Providers = {salon}
  Customers = {c1}
  Slots <- MCSlots
  Hours <- MCHours
  Bookings = {b1, b2, b3}
  Workers = {w1, w2}
  MaxParty = 2
  Asked = {"in_progress", "cancelled"}
  Starts = {600, 634}
  MaxChanges = 2
  Unchecked = TRUE
  Revivals = TRUE
CHECK_DEADLOCK FALSE
SYMMETRY Symmetry
INVARIANTS
  ClashExplained
