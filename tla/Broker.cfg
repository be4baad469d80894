\* Two workers, one of them for checks only, and two requests for the same model,
\* next to the cleanup.  Processes die twice, which is once too often.
SPECIFICATION FairSpec
CONSTANTS
  Request = {"viewer", "switch"}
  Viewer = {"viewer"}
  Doc = {"d1"}
  DocOf <- OneDocument
  N = 2
  MAX_RETRIES = 1
  None = None
  MaxFaults = 2
INVARIANTS
  TypeOK
  Tracked
  Attached
  NoneIdle
  NoMixUp
PROPERTIES
  SharedSpec
  Answered
\* requests that were answered leave nothing to do but the cleanup
CHECK_DEADLOCK FALSE
