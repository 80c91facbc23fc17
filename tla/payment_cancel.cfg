SPECIFICATION Spec
CONSTANTS
  o1 = o1
  o2 = o2
  k1 = k1
  k2 = k2
  Orders = {o1, o2}
  Keys = {k1, k2}
  Balances = {g1, g2}
  Confirmers = {c1, c2}
  Webhooks = {w1}
  Cancellers = {x1}
  ValidOrders = {o1}
  Price <- MCPrice
  Amount <- MCAmount
  None = None
INVARIANTS
  TypeOK
  GoldIsPaidFor
  PaidRowsMatchToss
  StatusTellsTheTruth
PROPERTIES
  WrittenOnce
  StatusesMoveForward
