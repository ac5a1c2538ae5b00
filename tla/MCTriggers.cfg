SPECIFICATION Spec
CONSTANTS
    Hosts = {h1, h2}
    Publishers = {p1, p2}
    Kinds = {"topic", "signal", "cron", "watch"}
    TopicCap = 1
    MaxMessages = 2
    MaxSourceMoves = 3
    MaxLives = 2
    MaxEvents = 3
    Permits = 2
    MaxRetries = 2
    HostMoves = {"next", "reload", "stop"}
    MonitorFails = TRUE
    Initial = 1
    MaxConc = 2
    Factor = 2
    Threshold = 2
    MaxGenerations = 3
    MaxRequests = 3
INVARIANTS
    DispatchedOnce
    FactsExact
    CleanEndIsComplete
    OverlayIsOwnAndFresh
PROPERTIES
    NotifyOneArrives
    WatchCatchesUp
    DrainIsBounded
    DispatchIsAdmitted
CHECK_DEADLOCK FALSE
