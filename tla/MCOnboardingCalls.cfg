SPECIFICATION Spec
CONSTANTS
  Things = {picture, this, that}
  Picture = picture
  Workers = {w1, w2}
  MaxSavedAddresses = 2
  MaxEntries = 3
  Fields = {logo, name}
  Pictures = {logo}
  BusinessName = name
  MaxSent = 1
  MaxAccounts = 2
  MaxFaults = 1
CHECK_DEADLOCK FALSE
INVARIANTS
  LossExplained
  AddressesKept
  CompletedExplained
  RemindedOnce
  BankDetailsExplained
PROPERTIES
  FavouritesAtomic
  RemindedInTheEnd
