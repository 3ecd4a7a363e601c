SPECIFICATION CooldownSpec
CONSTANTS
    lock_duration_ms = 1
    burst_duration_ms = 2
    cooldown_ms = 5
    AgeMax = 5
    RuleClasses = {"Drone"}
    ConfigRules <- DroneRules
    DefaultRange = 2
    Looks <- SomeLooks
    Aims <- SomeAims
    MaxTracks = 1
    max_lost = 1
    WatchdogLimit = 1
    FenceRequests <- OneFence
    OrderRequests = {}
    Moves = {}
PROPERTIES
    WaitsBetweenShots
