SPECIFICATION Spec
CONSTANTS
    Ids = {1}
    Relays = {r1}
    None = None
    Limit = 1
    Lease = 2
    InitialBackoff = 1
    MaxBackoff = 2
    MinIdle = 1
    MaxIdle = 1
    AttemptCap = 3
    MaxAttempts = 2
    MaxCrashes = 0
INVARIANTS
    BoundedAttempts
CHECK_DEADLOCK TRUE
