\* Two models to register and a third request, which has its model checked.
SPECIFICATION Spec
CONSTANTS
  Request = {"viewer", "switch", "other"}
  Viewer = {"viewer", "other"}
  Doc = {"d1", "d2"}
  DocOf <- TwoDocuments
  N = 2
  MAX_RETRIES = 3
  None = None
  MaxFaults = 0
INVARIANTS
  ChecksServed
CHECK_DEADLOCK FALSE
