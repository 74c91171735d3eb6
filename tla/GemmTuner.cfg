SPECIFICATION TunerFairSpec
CONSTANTS
    k1 = k1
    k2 = k2
    k3 = k3
    k4 = k4
    k5 = k5
    k6 = k6
    NoBaseline = NoBaseline
    Pending = Pending
    Candidates = {k1, k2, k3, k4, k5, k6}
    Code <- MCCode
    Wrong = {k5}
    Warps <- MCWarps
    Depth <- MCDepth
    Rows <- MCRows
    Columns <- MCColumns
    Grain = 2
    Timings <- AllTimings
    Finalists = 1
    MaxCandidates = 3
    MinImprovement = 500
    Modes = {"adaptive", "full"}
INVARIANTS
    OnlyVerifiedTimed
    PromotionEarned
    NoGainDismissed
    WinnerSound
PROPERTIES
    ClearGainValidated
    ImplementsContract
CHECK_DEADLOCK FALSE
