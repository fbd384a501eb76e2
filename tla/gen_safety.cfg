SPECIFICATION Spec
CONSTANTS
  Projects = {p1}
  Contents = {c1}
  Invalid = {}
  Importing = {p1}
  MaxTasks = 3
  Procs = {0, 1, 2, 3}
  Builds = TRUE
  Faults = {"write"}
CHECK_DEADLOCK FALSE
INVARIANTS TypeOK LiveSource LatestOnly OneMSBuild RefreshOwed
PROPERTIES KeepsPromise
