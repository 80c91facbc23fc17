SPECIFICATION FairSpec
CONSTANTS
  MaxGame = 1
  None = None
  Slots = {s1, s2}
  Prices = {2, 7}
  Policies <- MCPolicies
  Purchases = {p1, p2}
INVARIANTS
  TypeOK
  QuoteIsHonoured
  BusyIsOnePurchase
  NobodyWaitsInVain
PROPERTIES
  NeverGoesBack
  LoadingEnds
  RequestEnds
  PurchaseEnds
