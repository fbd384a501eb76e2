SPECIFICATION Spec
CONSTANTS
  HeaderList <- MCShortList
  FileOf <- MCShortFile
  Fixed <- MCFixed
  Others = {"other.reflgen.h"}
  Versions = {"v1"}
  Invalid = {}
  OutputFaults = {"held"}
  MaxRuns = 3
INVARIANT HeldRemovedNextRun
