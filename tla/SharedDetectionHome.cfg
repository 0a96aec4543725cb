SPECIFICATION DetectionSpec
CONSTANTS
    Drones = {d1, d2}
    Cameras = {v1}
    Depth = 1
    MaxCommands = 1
    Lossy = FALSE
INVARIANT FirstEventSendsAll
CHECK_DEADLOCK FALSE
