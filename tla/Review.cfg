\* Two users who close and refuse tasks of the same group at the same time.
SPECIFICATION ErrorSpec
CONSTANTS
  Comp <- TeamComp
  Parent <- TeamParent
  Position <- TeamPosition
  Kind <- TeamKind
  Root = "process"
  Completion = "compl"
  None = "none"
  FinishOption = {"a"}
  Constrained = {}
  Session = {u1, u2}
  Worker = {}
  Acs = {}
  Outcomes = {}
  Requests = {"activate", "close", "refuse"}
  HoldEnforced = TRUE
  MaxBusy = 2
  MaxResumes = 1
  MaxConversions = 1
  MaxFaults = 0
INVARIANTS
  NoSilentStall
  NoSilentDamage
\* an ended process leaves nothing to do
CHECK_DEADLOCK FALSE
