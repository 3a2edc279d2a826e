SPECIFICATION FairSpec
CONSTANTS
    PageSize = 4
    Pages = {1, 2}
    MaxPages = 2
    MaxFaults = 2
    MaxStops = 2
INVARIANT Clean
PROPERTY ImplementsStore
PROPERTY Recovers
CHECK_DEADLOCK FALSE
