SPECIFICATION FairComponentsSpec
CONSTANTS
    lock_duration_ms = 3
    burst_duration_ms = 10
    cooldown_ms = 20
    AgeMax = 21
    RuleClasses = {"Drone", "F16", "Missile"}
    ConfigRules <- ConfigRulesDef
    DefaultRange = 2
    Targets <- TargetsDef
    MaxTargets = 3
    OrderRequests <- OrderRequestsDef
    Everywhere <- EverywhereDef
    origin = origin
    left = left
    Poses <- PosesDef
    Origin <- origin
    QueueMax = 4
    iou_threshold = 40
    max_center_distance_px = 6
    max_lost_frames = 1
    min_confirm_frames = 2
    Scenes <- ScenesDef
    MaxTrackIds = 3
    MaxAge = 3
    Files <- FilesDef
    Edits = {0}
    DetectThreads = {"frame", "worker"}
    ModelFiles = {"fp32", "fp16"}
    FrameSizes <- FrameSizesDef
    InputSize = 8
    Overhang = 3
    NumClasses = 2
    Predictions = {0, 7, 8, 9}
    known_balloon_diameter = 12
    focal_length_px = 600
    min_distance = 300
    max_distance = 2000
    min_radius_px = 8
    muzzle_velocity = 9000
    fps = 30
    InferenceDelay = 40
    FrameWidth = 640
    Radii = {8, 50, 200}
    Heights = {0, 1, 100, 480}
    Velocities <- VelocitiesDef
    LidarReadings <- LidarReadingsDef
    LidarOffsets <- LidarOffsetsDef
    TableEntries <- TableEntriesDef
    Distances = {0, 1, 2, 3, 5, 7, 9, 10}
    MaxTable = 3
    NaN = NaN
    Positions = {0, 1, 2, 3}
    roiExpansion_ = 1
    trackReconfirmInterval_ = 3
    LocalReach = 1
    RoiTimeout = 1
CHECK_DEADLOCK FALSE
INVARIANTS
    TriggerInv
    RangesKept
    ScanFindsBest
    OrderIsObeyed
    TurretInv
    SafeLockRemembered
    TracksOK
    NothingLeftToPair
    SavedIsRestored
    DetectsWithItsModel
    BoxesComeBack
    AimIsANumber
    ReportIsFresh
PROPERTIES
    KeepsDiscipline
    CeaseFireArrives
    SafeLockArrives
    DestructorReturns
    OneFrameNeverFlips
