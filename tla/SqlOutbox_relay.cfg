SPECIFICATION FairSpec
CONSTANTS
    Ids = {1, 2}
    Relays = {r1}
    None = None
    Limit = 2
    Lease = 1
    InitialBackoff = 1
    MaxBackoff = 1
    MinIdle = 1
    MaxIdle = 1
    AttemptCap = 2
    MaxAttempts = 1
    MaxCrashes = 1
INVARIANTS
    NoStrandedRow
PROPERTIES
    
    ShutdownCompletes
CHECK_DEADLOCK TRUE
