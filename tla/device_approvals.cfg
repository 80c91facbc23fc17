SPECIFICATION Spec
CONSTANTS
  Requests = {r1, r2}
  Sessions = {s1, s2}
  Uids = {u1, u2}
  Browsers = {b1, b2}
  Calls = {c1}
  Approvals = {a1, a2}
  None = None
INVARIANTS
  SessionsAreApproved
  ApprovalIsKept
PROPERTIES
  ImplementsWebLogin
  ImplementsLoginRequests
SYMMETRY Symmetric
