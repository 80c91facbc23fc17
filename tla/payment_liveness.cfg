SPECIFICATION FairSpec
CONSTANTS
  o1 = o1
  o2 = o2
  k1 = k1
  k2 = k2
  Orders = {o1}
  Keys = {k1, k2}
  Balances = {g1}
  Confirmers = {c1}
  Webhooks = {w1}
  Cancellers = {}
  ValidOrders = {o1}
  Price <- MCPrice
  Amount <- MCAmountEqual
  None = None
PROPERTIES
  PaidIsCompleted
  CaptureIsRecorded
  FollowsLifecycle
  OnlyRefundsAreWithdrawn
