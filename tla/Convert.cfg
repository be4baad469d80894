\* File conversions that end late and twice, and a system task that closes the
\* process or aborts it, next to other operations.
SPECIFICATION Spec
CONSTANTS
  Comp <- GapComp
  Parent <- GapParent
  Position <- GapPosition
  Kind <- GapKind
  Root = "process"
  Completion = "compl"
  None = "none"
  FinishOption = {}
  Constrained = {}
  Session = {u1}
  Worker = {w1}
  Acs = {c1}
  Outcomes = {"async", "cancelled", "completed", "aborted"}
  Requests = {"activate", "onhold", "cancel", "dismiss", "close", "forward", "refuse"}
  HoldEnforced = TRUE
  MaxBusy = 2
  MaxResumes = 1
  MaxConversions = 2
  MaxFaults = 0
INVARIANTS
  JobKept
  EndedClean
\* an ended process leaves nothing to do
CHECK_DEADLOCK FALSE
