SPECIFICATION FairSpec
CONSTANTS
  Projects = {p1, p2}
  Contents = {c1, bad}
  Invalid = {bad}
  Importing = {p1, p2}
  MaxTasks = 2
  Procs = {0, 1, 2}
  Builds = FALSE
  Faults = {"taskkill", "flush", "msbuild", "io", "rescan"}
CHECK_DEADLOCK FALSE
INVARIANT StampSound
PROPERTIES TasksEnd RefreshHappens
