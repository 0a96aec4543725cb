\* the bounds end every component: CHECK_DEADLOCK FALSE
SPECIFICATION SupportSpec
CONSTANTS
    Drones = {d1, d2}
    Cameras = {v1}
    Depth = 1
    MaxCommands = 2
    Lossy = TRUE
    Timeouts = {0, 2}
    Payloads = {1}
    Lengths = {7, 8}
    MaxPayload = 7
    MaxFrames = 2
    Modulo = 8
    HistorySize = 2
    Reach = 1
    MaxMessages = 10
    MaxLate = 2
    Members = {m1, m2, m3}
    StatusRequests = {r1}
    SeenLimit = 2
    StationLimit = 3
    MaxRoleChanges = 1
    Writers = {w1, w2}
    WriterLimit = 1
    MaxHeard = 3
    FieldSizes = {6, 8, 11, 16, 24}
    FleetSizes = {1, 2, 3, 4}
    Distances = {1, 2, 3, 4}
    WaypointSpacing = 2
    TurnWaypoints = 2
    WaypointLimit = 30
INVARIANTS
    SupportTypeOK
    StopHeardByAllStops
    AtMostOneLate
    MotionIsWatched
    FramesRecovered
    NumbersClassified
    MissingAreLost
    ReportedOnce
    EveryMessageReported
    WifiChildEnds
    SweepIsFlyable
PROPERTIES
    ReturnModeStopsInference
    EveryDroneReports
CHECK_DEADLOCK FALSE
