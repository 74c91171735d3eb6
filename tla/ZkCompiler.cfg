SPECIFICATION Spec
CONSTANTS
    P = 17
    Off = Off
    MAX_ROUNDS = 10
    MAX_MERGES = 10
    Samples = {0, 1, 2, 3, 5, 16}
    Programs <- AllPrograms
INVARIANTS
    StatementKept
    WitnessFound
CHECK_DEADLOCK FALSE
