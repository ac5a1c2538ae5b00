SPECIFICATION Spec
CONSTANTS
    Daemons <- MCDaemons
    Advising = TRUE
    Starting = {i1, i2}
    StartupLimit = 1
    Registered <- MCRegistered
    MaxCount = 1
    MaxReloads = 1
    MaxCrashes = 1
    MaxPokes = 1
INVARIANTS
    WaitLeavesNothing
    PermitsAccounted
    NoOverlap
    ProgressContinues
PROPERTY
    TeardownEnds
CHECK_DEADLOCK FALSE
