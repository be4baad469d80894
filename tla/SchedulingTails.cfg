\* Tasks as late as possible with a discarded successor.
SPECIFICATION Spec
CONSTANTS
  Projects <- Tails
  None = None
  maxsize = 1000
  max_retries = 3
  Runs = 2
INVARIANTS
  Respected
\* a project that is scheduled leaves nothing to do
CHECK_DEADLOCK FALSE
