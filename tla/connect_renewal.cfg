SPECIFICATION Spec
CONSTANTS
  Tabs = {t1, t2}
  Late = {}
  LateKinds = {}
  Requests = {r1, r2, r3}
  None = None
SYMMETRY Symmetric
PROPERTIES
  RenewalCancelsShown
