SPECIFICATION FairSpec
CONSTANTS
    a = a
    b = b
    Services = {a, b}
    Watching = {}
    BodyOutcomes = {"ok", "failure", "fatal"}
    MaxGen = 2
    MaxEpoch = 0
    ReloadSignals = FALSE
    Prio <- TwoWaves
    HighPriority = {b}
    MissingLane = {b}
INVARIANT
    WaveOrder
PROPERTIES
    ShutdownStatusStands
    ShutdownCompletes
CHECK_DEADLOCK FALSE
