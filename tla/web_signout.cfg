SPECIFICATION FairSpec
CONSTANTS
  MaxGame = 1
  None = None
  Slots = {s1}
  Prices = {2}
  Policies <- MCPolicies
  Purchases = {p1}
INVARIANTS
  GuestSeesNoDashboard
