SPECIFICATION Spec
CONSTANTS
    Sinks = {file}
    FileSinks = {file}
    Collector = topology
    BatchSizes = {1, 2}
    Multiplier = 2
    MaxEmits = 3
    Scopes <- MCScopes
    RetiredLimit = 1
    MaxReads = 2
    SequenceOf <- MCSequenceOf
    Processes = {a, b}
    Clients = {c}
    MaxStarts = 2
    MaxTries = 2
PROPERTY
    LagPasses
CHECK_DEADLOCK FALSE
