SPECIFICATION FairSpec
CONSTANTS
    r1 = r1
    i1 = i1
    i2 = i2
    Requests = {r1}
    Installs = {i1, i2}
    None = None
INVARIANTS
    SafeToFree
