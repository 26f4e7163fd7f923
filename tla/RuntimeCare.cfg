SPECIFICATION FairSpec
CONSTANTS
    MaxIntent = 3
    MaxFaults = 1
INVARIANTS
    OnlyUnownedReopen
    ShownIsLoaded

    
CHECK_DEADLOCK FALSE
