SPECIFICATION FairSpec
CONSTANTS
    p1 = p1
    p2 = p2
    s1 = s1
    None = None
    Torn = Torn
    Slots <- TwoSlots
    Skills <- OneSkill
    MaxLevel = 1
    LevelFor <- Curve
    MaxXp = 1
    MaxGranted = 1
    Counts = {1, 2}
    MaxMoves = 3
    MaxCrashes = 1
INVARIANTS
    TypeInvariant
    PointsConserved
    MemoryIsDurable
    WorldMatches
PROPERTIES
    ImplementsLedger
    SlotFollowsGame
