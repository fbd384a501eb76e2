SPECIFICATION Spec
CONSTANTS
  Files = {f1}
  Catalogs = {c1, c2}
  Empty = Empty
  MaxClock = 4
INVARIANT NextRequestRereads
