SPECIFICATION Spec
CONSTANTS
  Projects = {p1}
  Contents = {c1, c2}
  Invalid = {}
  Importing = {p1}
  MaxTasks = 2
  Procs = {0, 1, 2}
  Builds = FALSE
  Faults = {}
CHECK_DEADLOCK FALSE
INVARIANT LatestContentGenerated
