\* One operation at a time: the whole life of a process, its system task and the
\* components of nested groups, some of which are skipped.  One operation crashes.
SPECIFICATION Spec
CONSTANTS
  Comp <- DeepComp
  Parent <- DeepParent
  Position <- DeepPosition
  Kind <- DeepKind
  Root = "process"
  Completion = "compl"
  None = "none"
  FinishOption = {"fin", "b"}
  Constrained = {"outer", "b", "d", "sys", "fin", "y"}
  Session = {u1}
  Worker = {w1}
  Acs = {}
  Outcomes = {"done", "refused", "error", "paused", "aborted", "inactive"}
  Requests = {"activate", "onhold", "cancel", "dismiss", "close", "forward", "refuse"}
  HoldEnforced = TRUE
  MaxBusy = 1
  MaxResumes = 1
  MaxConversions = 1
  MaxFaults = 1
INVARIANTS
  TypeOK
  NoStall
  EndedClean
  Nested
  CompletionLast
  CancelSticks
  OnHold
PROPERTIES
  OrderedSpec
\* an ended process leaves nothing to do
CHECK_DEADLOCK FALSE
