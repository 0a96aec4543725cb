SPECIFICATION DroneSpec
CONSTANTS
    SetModeAt = 2
    ArmAt = 3
    TakeoffAt = 4
    GiveUpAt = 5
    StatusTicks = 3
    LandTimeout = 2
    Waypoints = 2
    Commands = {"arm", "land", "disarm", "takeoff", "fly", "fly_action", "yaw", "manual", "mission", "detection", "formation", "role"}
INVARIANTS
    SteersOnlyInOffboard
    MissionIsFlown
    ReturnHasDrone
    HeadingKept
PROPERTIES
    TakeoffEnteredAtRest
