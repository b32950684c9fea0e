SPECIFICATION PlayedSpec
CONSTANTS
    MaxDeploys = 4
    MaxCrashes = 2
INVARIANTS
    TypeOK
    Loadable
    NewestIsKept
PROPERTIES
    DeployArrives
CHECK_DEADLOCK FALSE
