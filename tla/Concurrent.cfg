\* A user and a worker at the same time, every request allowed, tasks of a paused
\* process included.
SPECIFICATION ErrorSpec
CONSTANTS
  Comp <- MixedComp
  Parent <- MixedParent
  Position <- MixedPosition
  Kind <- MixedKind
  Root = "process"
  Completion = "compl"
  None = "none"
  FinishOption = {"appr"}
  Constrained = {"exec"}
  Session = {u1}
  Worker = {w1}
  Acs = {}
  Outcomes = {"done", "refused", "error"}
  Requests = {"activate", "onhold", "cancel", "dismiss", "close", "forward", "refuse"}
  HoldEnforced = FALSE
  MaxBusy = 2
  MaxResumes = 1
  MaxConversions = 1
  MaxFaults = 0
INVARIANTS
  NoSilentStall
PROPERTIES
  Stable
  OrderedSpec
\* an ended process leaves nothing to do
CHECK_DEADLOCK FALSE
