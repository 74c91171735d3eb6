SPECIFICATION Spec
CONSTANTS
    MAX_THREADS = 4
    Ceilings = {1, 3, 4}
    MR = 1
    NR = 2
    MC = 1
    NC = 2
    L3_PANEL_FLOATS = 8
    KC_MIN = 1
    KC_MAX = 2
    SM_MAX_M = 2
    VEC = 2
    SCRATCH_FLOATS = 6
    WORK_PER_THREAD = 1
    COLD_MIN_WORK = 16
    TINY_MAX_WORK = 3
    TINY_MAX_N = 2
    KSPLIT_MIN_K = 3
    KSPLIT_MIN_BAND = 1
    SHARE_B_WORK = 20
    Shapes <- MCShapes
    MaxCalls = 3
    BufSize = 20
INVARIANTS
    TeamInStep
PROPERTIES
    KeepsContract
    CallsReturn
    SlotsOwned
CHECK_DEADLOCK FALSE
