SPECIFICATION FairSpec
CONSTANTS
    Calls = {c1, c2, c3}
    MaxDepth = 2
    MaxFrames = 2
    Free = Free
    Drainer = Drainer
INVARIANTS
    TypeOK
    NoneLost
    SizeIsShadow
    StartedInOrder
PROPERTIES
    CancelledStaysUnrun
    QueueMovesOn
    ImplementsJobCall
CHECK_DEADLOCK FALSE
