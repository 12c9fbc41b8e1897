SPECIFICATION FairSpec
CONSTANTS
    Order <- TreeOrder
    Root = "r"
    Parent <- TreeParent
    Records <- TreeRecords
    Budget = 5
    InitialBudget = 3
    GroupLimit = 3
    Streamed = {"a", "b", "e", "r"}
    Cuts <- TreeCuts
    MaxInteractions = 2
    MaxFailures = 2
INVARIANT ArenaShowsTheCut
PROPERTY CoverageKept ViewerSettles
CHECK_DEADLOCK FALSE
