SPECIFICATION Spec
CONSTANTS
  Tabs = {t1}
  Late = {l1}
  LateKinds = {"restart", "complete", "cancel"}
  Requests = {r1, r2}
  None = None
SYMMETRY Symmetric
INVARIANTS
  TypeOK
  OneLoop
  SuccessIsALogin
PROPERTIES
  CompletesWhatIsDrawn
