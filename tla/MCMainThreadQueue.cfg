SPECIFICATION FairSpec
CONSTANTS
    request = request
    level = level
    own = own
    Calls = {request, level, own}
    Own = {own}
    Locked = {level, own}
    Budget = 2
    None = None
INVARIANTS
    TypeOK
    LastEffectWins
PROPERTIES
    ImplementsJobCall
    MainThreadMovesOn
