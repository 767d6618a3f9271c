SPECIFICATION SpecStores
CONSTANTS
    None = None
    Ids = {1}
    Relays = {r1, r2}
    Limit = 2
    Lease = 2
    InitialBackoff = 1
    MaxBackoff = 2
    MinIdle = 1
    MaxIdle = 1
    AttemptCap = 3
    MaxAttempts = 2
    MaxCrashes = 1
    Messages = {1, 2}
    MaxRetries = 1
    Capacity = 1
    StreamBound = 3
    RestartBound = 1
    Steps = 3
    SagaAttempts = 3
    NoFile = NoFile
    TornFile = TornFile
    VersionBound = 3
    Callers = {c1, c2}
    Values = {0, 1, Error}
    MaxCancels = 1
    Kinds = {"plain", "consistent"}
    Error = Error
    WriteBound = 1
SYMMETRY Symmetry
INVARIANTS
    PublishedWasDelivered
    ExclusiveHold
    DuplicateHasCause
    OwedByStream
    OneActive
    AppliedIsPrefix
    StaleHasCause
    LoadedOnce
PROPERTIES
    PublishedIsFinal
    AttemptsGrow
    KeepsPromise
