SPECIFICATION GenFairSpec
CONSTANTS
    MaxGen = 1
    MaxInits = 4
    None = None
INVARIANTS
    ThreadsExit
CHECK_DEADLOCK FALSE
