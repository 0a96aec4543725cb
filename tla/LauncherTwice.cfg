\* the launcher ends: CHECK_DEADLOCK FALSE
SPECIFICATION MCSpec
CONSTANTS
    Order <- ShortOrder
    Checklists <- ShortLists
    Starters = {"start_1", "start_2"}
    Stoppers = {}
    MaxProcs = 2
    MaxDrops = 0
INVARIANT NoDuplicateStarted
CHECK_DEADLOCK FALSE
