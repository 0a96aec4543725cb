\* the launcher ends: CHECK_DEADLOCK FALSE
SPECIFICATION MCSpec
CONSTANTS
    Order <- ShortOrder
    Checklists <- ShortLists
    Starters = {"start"}
    Stoppers = {"stop"}
    MaxProcs = 2
    MaxDrops = 1
INVARIANTS
    OneLivePerComponent
    UnmanagedOnlyWhenSevered
PROPERTIES
    InterruptedEnds
    ClosingEnds
CHECK_DEADLOCK FALSE
