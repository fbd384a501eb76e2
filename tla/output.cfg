SPECIFICATION Spec
CONSTANTS
  HeaderList <- MCHeaderList
  FileOf <- MCFileOf
  Fixed <- MCFixedOne
  Others = {"other.reflgen.h"}
  Versions = {"v1", "bad"}
  Invalid = {"bad"}
  OutputFaults = {"write", "held", "kill"}
  MaxRuns = 3
INVARIANTS DirectoryInv 
PROPERTIES Idempotent
