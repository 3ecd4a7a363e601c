SPECIFICATION RangeSpec
CONSTANTS
    HueMax = 4
    SatMax = 2
    ConfigHsv <- ConfigHsvDef
    MaxSets = 2
INVARIANTS
    SlidersAreObeyed
