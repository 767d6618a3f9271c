SPECIFICATION SpecProcess
CONSTANTS
    None = None
    Requests = {r1}
    Lanes = {l1, l2}
    FailureThreshold = 1
    ResetTimeout = 1
    BudgetPercent = 100
    BudgetWindow = 1
    MaxPropagated = 1
    MaxRetries = 1
    Backoff = 1
    Grants = {None, 1}
    Deadlines = {1}
    CallBound = 2
    Modes = {"poll", "etcd"}
    Texts = {"a", "b", "bad"}
    Valid = {"a", "b"}
    PollInterval = 1
    Debounce = 2
    ListenerTimeout = 1
    PutBound = 4
    N = 3
    RetryLimit = 1
    Capacity = 1
    RecordBound = 2
    RetryBound = 1
    KillBound = 1
INVARIANTS
    SuccessMeansAll
    DrainedInReverse
    
    ProbeIsCarried
PROPERTIES
    CallsReturn
    NoRetryAfterEnd
    ShutdownEnds
    ReloadReaches
    ListenersInOrder
    WatchResumes
    
