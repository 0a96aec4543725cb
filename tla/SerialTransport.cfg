\* the transport stops: CHECK_DEADLOCK FALSE
SPECIFICATION FairSpec
CONSTANTS
    Keys = {"state_1", "state_2"}
    QueueSize = 2
    MaxFrames = 4
    MaxSessions = 2
INVARIANTS
    AtMostOneStale
    StreamsGoForward
    EveryFrameCounted
    PortReleased
PROPERTIES
    WorkerEnds
    IsChannel
CHECK_DEADLOCK FALSE
