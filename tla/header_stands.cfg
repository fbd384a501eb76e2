SPECIFICATION GeneratorSpec
CONSTANTS
    Inputs <- MCInputs
    Members = {"hp"}
    Threads = {t1, t2}
    Owners = {o1, o2}
    MaxNest = 2
CHECK_DEADLOCK FALSE
INVARIANTS EmptyReasonStands
