SPECIFICATION Spec
CONSTANTS
    InitialDelay = 1
    MaxDelay = 5
    Multiplier = 2
    ResetAfter = 5
    JitterPercents = {0, 50}
    Window = 4
    Threshold = 3
    Suppression = 5
    MaxTime = 14
    DaemonTimeout = 11
    DefaultTimeout = 6
    RecentLimit = 2
    Providers = {p1, p2, p3}
    Generations = {g1, g2}
    Boot = boot
    MaxResolves = 1
    Readers = {r1}
    Writers = {w1}
    MaxSlot = 1
    MaxPub = 2
INVARIANTS
    
    DelayLaw
    InitBounded
    SnapshotIsLatest
PROPERTIES
    ResolutionEnds
    StormHolds
    ChangeReachesBody
CHECK_DEADLOCK FALSE
