SPECIFICATION FairSpec
CONSTANTS
    a = a
    b = b
    Services = {a}
    Watching = {a}
    BodyOutcomes = {"ok", "failure", "fatal", "provider_init"}
    MaxGen = 3
    MaxEpoch = 2
    ReloadSignals = TRUE
    Prio <- OneWave
    HighPriority = {}
    MissingLane = {}
PROPERTIES
    StaleBodyIsReloaded
    ShutdownCompletes
    ImplementsLifecycle
CHECK_DEADLOCK FALSE
