SPECIFICATION MCSpec
CONSTANTS
    s1 = s1
    s2 = s2
    s3 = s3
    c1 = c1
    c2 = c2
    i1 = i1
    i2 = i2
    NoRecord = NoRecord
    Candidates = {c1, c2}
    BaselineChoices = {c1}
    Shapes = {s1, s2, s3}
    Identities = {i1, i2}
    Wrong <- WrongKernels
    MaxCachedShapes = 2
    HotThreshold = 1
    MaxLaunches = 2
    MaxClock = 3
    Policies = {"Deferred", "OnLaunch", "Disabled"}
    CacheModes = {"on", "off"}
INVARIANTS
    DecidedKernelsRight
    DiskGenuine
    CapacityBound
    InFlightLoaded
    RecencyKept
    CallIndexesResident
    TierHistory
PROPERTIES
    DecisionsFinal
    TuningOnlyWhereAllowed
    CallsReturn
