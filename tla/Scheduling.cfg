\* Linked, constrained, fixed, discarded and grouped tasks, milestones, projects with
\* a finish of their own; every project is scheduled twice.
SPECIFICATION Spec
CONSTANTS
  Projects <- Plans
  None = None
  maxsize = 1000
  max_retries = 3
  Runs = 2
INVARIANTS
  TypeOK
  Sorted
  Settles
  Respected
  Windows
  FloatSound
  ConstraintKept
  DurationKept
  Earliest
PROPERTIES
  Stable
\* a project that is scheduled leaves nothing to do
CHECK_DEADLOCK FALSE
