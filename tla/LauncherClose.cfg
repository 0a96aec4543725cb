\* the launcher ends: CHECK_DEADLOCK FALSE
SPECIFICATION MCSpec
CONSTANTS
    Order <- ShortOrder
    Checklists <- ShortLists
    Starters = {"start"}
    Stoppers = {}
    MaxProcs = 2
    MaxDrops = 0
INVARIANT ClosedStopsEverything
CHECK_DEADLOCK FALSE
