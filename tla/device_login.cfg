SPECIFICATION Spec
CONSTANTS
  Requests = {r1, r2}
  Sessions = {s1, s2}
  Uids = {u1}
  Browsers = {b1, b2}
  Calls = {c1, c2}
  Approvals = {a1}
  None = None
INVARIANTS
  TypeOK
  SessionsAreApproved
  BrowsersAreIsolated
PROPERTIES
  DismissedOpensNothing
  ImplementsWebLogin
SYMMETRY Symmetric
