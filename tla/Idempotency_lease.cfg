SPECIFICATION IdemSpec
CONSTANTS
    None = None
    Stores = {"memory", "redis"}
    Handlers = {h1, h2, h3}
    Prints = {1}
    Lease = 2
    RecordTtl = 4
INVARIANTS
    LiveLeaseExcludes
