SPECIFICATION CSpec
CONSTANTS
    Initial = 2
    MaxConc = 3
    Factor = 2
    Threshold = 2
PROPERTY
    RestoreNotLost
