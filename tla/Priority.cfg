SPECIFICATION CombatSpec
CONSTANTS
    lock_duration_ms = 1
    burst_duration_ms = 1
    cooldown_ms = 1
    AgeMax = 1
    RuleClasses = {"Drone", "F16"}
    ConfigRules <- TwoRules
    DefaultRange = 2
    Looks <- TwoLooks
    Aims <- TwoAims
    MaxTracks = 2
    max_lost = 1
    WatchdogLimit = 0
    FenceRequests <- Narrow
    OrderRequests <- SwapOrders
    Moves = {}
INVARIANTS
    StopLeavesNothing
    FireHasReason
PROPERTIES
    FireOpensOnBest
