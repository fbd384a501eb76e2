SPECIFICATION MCSpec
CONSTANTS
    Threads = {"t1", "t2"}
    Objects = {"a", "b", "c"}
    Null = "null"
    Inner <- MCInner
    Address <- MCAddress
    Pointers = 2
    MaxDepth = 9
    NumClasses = 3
    Shapes <- MCShapes
    Keys = {"x", "y"}
    Unknown = "unknown"
    MaxOwn <- MCMaxOwn
    MaxInput = 2
    Types = {"S", "A", "B", "C"}
    None = "none"
    NameOf <- MCNameOf
    Callers = {"t1"}
    Static = "S"
    Fallback = TRUE
    Constructible = {"S", "A", "B", "C"}
    Declared = {"S", "A", "C"}
    MaxChain = 2
    Heap = {1, 2, 3, 4}
CHECK_DEADLOCK FALSE
INVARIANTS PathInv FieldsExact ReadsBack ObjectValid PointersExact
PROPERTIES CyclesOnly AssignWhole
