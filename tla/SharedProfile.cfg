SPECIFICATION Spec
CONSTANTS
    t1 = t1
    t2 = t2
    NoCard = NoCard
    None = None
    Threads = {t1, t2}
    Cards = {"A", "B"}
    Shapes = {1, 2}
    Precisions = {"F16", "FP8"}
    Tiles = {"shallow", "deep"}
    Distance <- MCDistance
    TilesAt <- MCTilesAt
    Emittable <- MCEmittable
    Settings <- MCSettings
    Requests <- MCRequests
    Times = {600, 800}
    MaxGen = 1
    MaxSerial = 4
INVARIANTS
    ProfileWhole
    DeleteDiscards
    ChoiceAllowed
    MeasurementSound
CHECK_DEADLOCK FALSE
