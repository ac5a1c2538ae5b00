SPECIFICATION LoopFairSpec
CONSTANTS
    MaxEvents = 2
    Permits = 1
    MaxRetries = 2
    HostMoves = {"next"}
    MonitorFails = FALSE
PROPERTY
    StopEndsAlways
CHECK_DEADLOCK FALSE
