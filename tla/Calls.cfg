SPECIFICATION SpecCalls
CONSTANTS
    None = None
    Boundaries = {"rest", "rpc", "gateway", "mq", "job"}
    Calls = {q1, q2, q3}
    Policy = {"breaker", "shedding"}
    MaxRetries = 1
    FailureThreshold = 2
    ResetTimeout = 1
    Concurrency = 2
    Window = 1
    BucketCount = 1
    MinSamples = 2
    MaxAvgLatency = 1
    MaxFailureRatio = 500
    CoolDown = 1
    BudgetPercent = 50
    BudgetWindow = 1
    MaxPropagated = 2
    SampleBound = 2
    LatencyBound = 1
    CallBound = 2
    MessageIds = {1, 2}
    Consumers = {k1, k2}
    MaxAttempts = 2
    Capacity = 1
    AbortBound = 1
    ReplayBound = 1
    Ids = {1}
    Relays = {r1, r2}
    Limit = 2
    Lease = 2
    InitialBackoff = 1
    MaxBackoff = 2
    MinIdle = 1
    MaxIdle = 1
    AttemptCap = 1
    MaxCrashes = 1
SYMMETRY Symmetry
INVARIANTS
    
    ProbeAccounted
    
    NothingLost
PROPERTIES
    ClosedByProbe
    OpensForAnInterval
    
    MemoryKeepsPromise
