SPECIFICATION MCSpec
CONSTANTS
    Drones = {1, 2, 3}
    Timeout = 2
    MaxEvents = 3
    MaxEventsOfAll = 1
INVARIANTS
    LeaderIsLowest
    FollowedLeaderIsSeen
    SlotsDistinct
    AgreedWhenSettled
PROPERTY
    ElectionSettles
