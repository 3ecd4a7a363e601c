SPECIFICATION FairServicesSpec
CONSTANTS
    BoardCommands <- BoardCommandsDef
    MaxLines = 3
    fireDuration = 2
    MaxPushes = 3
    MaxFramesQueued = 3
    max_queue_ = 2
    MaxItems = 4
    MaxSubmits = 2
    MaxRestarts = 1
    JpegSizes = {3, 4}
    maxPayload = 2
    FrameCap = 1
CHECK_DEADLOCK FALSE
INVARIANTS
    ServicesOK
    ShownWhole
PROPERTIES
    PathsKeepOrder
    StopsReturn
    NewestFrameIsUsed
    PulseEnds
