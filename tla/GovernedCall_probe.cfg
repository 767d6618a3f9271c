SPECIFICATION Spec
CONSTANTS
    None = None
    Boundaries = {"rest", "rpc"}
    Calls = {q1, q2, q3}
    Policy = {"breaker", "shedding"}
    MaxRetries = 1
    FailureThreshold = 2
    ResetTimeout = 1
    Concurrency = 2
    Window = 2
    BucketCount = 2
    MinSamples = 2
    MaxAvgLatency = 1
    MaxFailureRatio = 500
    CoolDown = 1
    BudgetPercent = 50
    BudgetWindow = 1
    MaxPropagated = 2
    SampleBound = 2
    LatencyBound = 1
    CallBound = 2
SYMMETRY Symmetry
INVARIANTS
    HalfOpenHasProbe
