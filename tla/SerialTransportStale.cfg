SPECIFICATION Spec
CONSTANTS
    Keys = {"state_1"}
    QueueSize = 2
    MaxFrames = 2
    MaxSessions = 2
INVARIANT
    CommandsNeverOutliveConnection
CHECK_DEADLOCK FALSE
