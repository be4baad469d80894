\* A system task closes a process that has completion tasks.
SPECIFICATION Spec
CONSTANTS
  Comp <- MixedComp
  Parent <- MixedParent
  Position <- MixedPosition
  Kind <- MixedKind
  Root = "process"
  Completion = "compl"
  None = "none"
  FinishOption = {"appr"}
  Constrained = {"exec"}
  Session = {u1}
  Worker = {w1}
  Acs = {}
  Outcomes = {"completed"}
  Requests = {"activate", "onhold", "cancel", "dismiss", "close", "forward", "refuse"}
  HoldEnforced = TRUE
  MaxBusy = 1
  MaxResumes = 1
  MaxConversions = 1
  MaxFaults = 0
INVARIANTS
  ClosedByTask
\* an ended process leaves nothing to do
CHECK_DEADLOCK FALSE
