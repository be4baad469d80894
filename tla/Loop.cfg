\* A run loop, its cycles and its parent: a worker and users at the same time.
SPECIFICATION FairSpec
CONSTANTS
  Session = {u1}
  Worker = {w1}
  max_cycles = 2
  Success = {"COMPLETED"}
  Failure = {}
  Requests = {"onhold", "cancel", "dismiss"}
  StartFails = TRUE
  MaxBusy = 2
  MaxResumes = 2
INVARIANTS
  TypeOK
  Bounded
  OneActive
  GoesOn
PROPERTIES
  NoneSpawned
  LoopEnds
\* an ended process leaves nothing to do
CHECK_DEADLOCK FALSE
