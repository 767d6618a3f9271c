SPECIFICATION CenterFairSpec
CONSTANTS
    None = None
    Modes = {"etcd"}
    Texts = {"a", "b", "bad"}
    Valid = {"a", "b"}
    PollInterval = 1
    Debounce = 2
    ListenerTimeout = 1
    PutBound = 3
PROPERTIES
    ChangeApplied
