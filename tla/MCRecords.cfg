SPECIFICATION Spec
CONSTANTS
    MaxNamed = 2
    MaxParams = 2
    MaxAttrs = 2
    Depth = 3
    Counts = {0, 1, 2, 3}
    MaxHalves = 3
    MaxSets = 4
    Entries <- MCEntries
    Tags = {"app", "sys"}
    LogTag = "log"
    IsolationTag = "isolation"
    Policies = {1, 2}
    DefaultPolicy = 1
    TestingPolicy = 3
    MaxSetterCalls = 3
    MaxDaemons = 2
    MaxServiceGens = 2
    MaxCalls = 2
    Recorded = {s1}
    Writers = {w1, w2}
    RetainedGenerations = 2
    RetainedFailures = 2
    MaxGenerations = 3
    MaxRecords = 3
    Recorders = {r1, r2}
    Drifts = {1, 2}
    MaxSleeps = 2
    Standard = Standard
    Isolated = Isolated
    HighPriority = HighPriority
    Control = Control
    Plain = plain
    Apart = apart
    MinSamples = 2
    HighDrift = 2
    Unstable = 2
    IsolatedPressure = 1
    SleepDrifts = {1, 12}
    ProbeDrifts = {4}
    MaxEvents = 3
    MaxTicks = 3
    Setters = {c1, c2}
    Sizes = {1, 2, 9}
    MaxBatch = 4
    DefaultBatch = 3
    QueuePerBatch = 2
INVARIANTS
    ProviderFaithful
    WrapperFaithful
    PoliciesAgree
    BuiltAsAsked
    FactsCurrent
    ReadinessEarned
    
    StatsExact
    
    OneBatchSize
CHECK_DEADLOCK FALSE
