SPECIFICATION FairTurretSpec
CONSTANTS
    Poses = {origin, left}
    Origin = origin
    QueueMax = 4
PROPERTIES
    PortIsReopened
