SPECIFICATION FairSpec
CONSTANTS
    p1 = p1
    i1 = i1
    Pollers = {p1}
    Intervals = {i1}
    Shutdown = Shutdown
    None = None
INVARIANTS
    TypeOK
    StoppedIsGone
PROPERTIES
    StopsEnd
CHECK_DEADLOCK FALSE
