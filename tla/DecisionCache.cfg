SPECIFICATION FairSpec
CONSTANTS
    w1 = w1
    w2 = w2
    p1 = p1
    p2 = p2
    Keys = {1, 2}
    Writers = {w1, w2}
    MaxEntries = 1
    Settings <- Storing
    MaxSerial = 2
    MaxTime = 2
INVARIANTS
    RecordsWhole
    TempsPrivate
    CapAtRest
PROPERTIES
    StaleTempsUntouched
    EvictsOldestListed
    StoresReturn
CHECK_DEADLOCK FALSE
