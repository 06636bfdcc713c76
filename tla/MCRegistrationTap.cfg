SPECIFICATION RegistrationSpec
CONSTANTS
  NoCode = NoCode
  Codes = {o1, o2, o3}
  Kinds = {customer}
  Profiled = {}
  Requests = {w1, w2}
  MaxAttempts = 2
  MaxTicks = 0
  MaxFaults = 0
  Resets = FALSE
CHECK_DEADLOCK FALSE
PROPERTY
  MailedCodeStays
