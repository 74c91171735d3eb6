SPECIFICATION Spec
CONSTANTS
    Callers = {p1, p2}
    Requests = {1, 2}
    KSPLIT_MIN_BAND = 1
    MSPLIT_MIN_ROWS = 1
    FLUSH_K_PAIRS = 1
    I32_MAX = 9
    Shapes <- MCShapes
    MaxCalls = 2
    BufSize = 6
INVARIANTS
    BuffersHeld
PROPERTIES
    KeepsContract
    CallsReturn
CHECK_DEADLOCK FALSE
