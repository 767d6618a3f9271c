SPECIFICATION SpecEdge
CONSTANTS
    None = None
    Instances = {i1, i2}
    Exchanges = {q1, q2}
    EjectAfter = 2
    EjectFor = 2
    HealthAfter = 2
    StreamLimits = {1, 2}
    Stores = {"memory", "redis"}
    Handlers = {h1, h2, h3}
    Prints = {1, 2}
    Lease = 2
    RecordTtl = 4
    Requests = {r1}
    Lanes = {l1, l2}
    FailureThreshold = 1
    ResetTimeout = 1
    BudgetPercent = 100
    BudgetWindow = 1
    MaxPropagated = 2
    MaxRetries = 2
    Backoff = 1
    Grants = {None, 2}
    Deadlines = {1}
    CallBound = 2
SYMMETRY Symmetry
INVARIANTS
    WindowIsRecent
    OneLiveExecution
    BudgetConserved
PROPERTIES
    EjectionHolds
    
    ReplaysAgree
