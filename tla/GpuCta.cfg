SPECIFICATION Spec
CONSTANTS
    GROUP = 2
    RequestedStages = 4
    Shapes <- MCShapes
    MaxM = 3
    MaxN = 4
    MaxWarps = 4
    MaxRaw = 3
    MaxSplits = 2
INVARIANTS
    NoCopyOutlives
PROPERTIES
    KeepsContract
    LaunchesReturn
