\* Users, workers and administrators do what is asked of them.
SPECIFICATION FairSpec
CONSTANTS
  Comp <- GapComp
  Parent <- GapParent
  Position <- GapPosition
  Kind <- GapKind
  Root = "process"
  Completion = "compl"
  None = "none"
  FinishOption = {}
  Constrained = {"task"}
  Session = {u1}
  Worker = {w1}
  Acs = {}
  Outcomes = {"done", "error", "paused"}
  Requests = {"activate", "onhold", "close"}
  HoldEnforced = TRUE
  MaxBusy = 1
  MaxResumes = 2
  MaxConversions = 1
  MaxFaults = 0
PROPERTIES
  Returns
  Completes
\* an ended process leaves nothing to do
CHECK_DEADLOCK FALSE
