SPECIFICATION FairSpec
CONSTANTS
    SetModeAt = 2
    ArmAt = 3
    TakeoffAt = 4
    GiveUpAt = 5
    StatusTicks = 3
    LandTimeout = 1
    Waypoints = 1
    Commands = {"arm", "land", "takeoff", "detection", "disarm", "mission", "role"}
PROPERTIES
    ArmingResolves
    LandingResolves
    VisionReturnGivenUp
