SPECIFICATION GenFairSpec
CONSTANTS
    MaxGen = 3
    MaxInits = 6
    None = None
INVARIANTS
    GenTypeOK
    OnlyActiveServes
PROPERTIES
    NewestRuns
CHECK_DEADLOCK FALSE
