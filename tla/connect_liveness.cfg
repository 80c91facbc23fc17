SPECIFICATION FairSpec
CONSTANTS
  Tabs = {t1}
  Late = {}
  LateKinds = {}
  Requests = {r1, r2}
  None = None
PROPERTIES
  ApprovalIsNoticed
  BusyEnds
  ImplementsLoginRequests
