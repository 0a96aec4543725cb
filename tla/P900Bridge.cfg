\* the sources end: CHECK_DEADLOCK FALSE
SPECIFICATION MCSpec
CONSTANTS
    Followers = {"f2", "f3"}
    Sources <- AllSources
    MaxSamples = 2
    QueueSize = 1
    RxSize = 1
    SeqModulo = 4
    MaxDrops = 1
INVARIANTS
    NoEcho
    StreamsGoForward
    NumbersIdentify
PROPERTY
    TrafficEnds
CHECK_DEADLOCK FALSE
