SPECIFICATION Spec
CONSTANTS
  Files = {f1, f2}
  Catalogs = {c1, c2}
  Empty = Empty
  MaxClock = 4
INVARIANTS StoreInv AnswersCurrent
