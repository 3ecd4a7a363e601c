SPECIFICATION FairCommandSpec
CONSTANTS
    MaxClicks = 2
    max_cmd_queue_ = 2
    MaxAims = 2
    MaxPiRestarts = 1
    NlFrames = {1}
    MaxBreaks = 1
    Fp16Loads = TRUE
    MaxWork = 2
CHECK_DEADLOCK FALSE
INVARIANTS
    CommandLinkOK
    LastWordCounts
PROPERTIES
    BothWaysKeepOrder
    ModelChoiceArrives
