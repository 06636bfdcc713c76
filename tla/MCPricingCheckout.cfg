SPECIFICATION PricingSpec
CONSTANTS
  haircut = haircut  braids = braids
  hair = hair  cut = cut
  r1 = r1  r2 = r2
  Nothing = Nothing
  N = 2
  Stylists = {2}
  Services = {haircut, braids}
  Keywords = {hair, cut}
  RuleIds = {r1, r2}
  Rates = {50, 100}
  Caps = {6}
  Percents = {33, 50, 150}
  MaxChanges = 3
  Total <- MCTotal
  Fare <- MCFare
  BaseFee <- MCBaseFee
  ServicesOf <- MCServicesOf
  Price <- MCPrice
  KeywordsIn <- MCKeywordsIn
CHECK_DEADLOCK FALSE
INVARIANTS
  DepositsAddUp
