SPECIFICATION HandleFairSpec
CONSTANTS
    t1 = t1
    t2 = t2
    g1 = g1
    g2 = g2
    h1 = h1
    h2 = h2
    NoContext = NoContext
    NoThread = NoThread
    Threads = {t1, t2}
    Contexts = {g1, g2}
    Handles = {h1, h2}
INVARIANTS
    ClosedIsIdle
PROPERTIES
    EveryHandleCloses
