SPECIFICATION RequestSpec
CONSTANTS
  Orders = {o1, o2}
  Keys = {k1, k2}
  a1 = a1
  a2 = a2
  ip = ip
  Accounts = {a1, a2}
  Prices = {p1}
  Calls = {c1, c2}
  None = None
  Address = ip
  Subjects <- MCSubjects
  Limit <- MCLimit
  MaxWindows = 3
INVARIANTS
  GateTypeOK
  OneOrderPerKey
  AnswersAgree
  OrdersWithinLimit
  CountersExpire
PROPERTY
  ImplementsOrderBook
SYMMETRY Symmetric
