SPECIFICATION FairSpec
CONSTANTS
    h1 = h1
    h2 = h2
    va = va
    Hooks = {h1, h2}
    Vtables = {va}
    VtableOf <- Shared
    Threads = {t1}
    MaxNest = 2
INVARIANTS
    TypeOK
    EngineAtMostOnce
    ActiveIsExact
    SlotsAreSound
    EventsReachEngine
PROPERTY ShutdownReturns
CHECK_DEADLOCK FALSE
