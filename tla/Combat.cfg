SPECIFICATION FairCombatSpec
CONSTANTS
    lock_duration_ms = 1
    burst_duration_ms = 2
    cooldown_ms = 2
    AgeMax = 2
    RuleClasses = {"Drone"}
    ConfigRules <- DroneRules
    DefaultRange = 2
    Looks <- SomeLooks
    Aims <- AllAims
    MaxTracks = 1
    max_lost = 1
    WatchdogLimit = 2
    FenceRequests <- SomeFences
    OrderRequests = {}
    Moves <- FourWays
INVARIANTS
    SteeringInv
PROPERTIES
    FireIsAuthorised
    TurnsInsideFence
    TurretReturns
    CameraLossIsSafe
    FireEnds
