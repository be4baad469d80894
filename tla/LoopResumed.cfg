\* One operation at a time: the parent of a run loop is paused and resumed.
SPECIFICATION Spec
CONSTANTS
  Session = {u1}
  Worker = {w1}
  max_cycles = 2
  Success = {"COMPLETED"}
  Failure = {}
  Requests = {}
  StartFails = FALSE
  MaxBusy = 1
  MaxResumes = 1
PROPERTIES
  ResumeKeeps
\* an ended process leaves nothing to do
CHECK_DEADLOCK FALSE
