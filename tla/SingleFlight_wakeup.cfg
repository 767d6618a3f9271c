SPECIFICATION FlightFairSpec
CONSTANTS
    None = None
    Values = {v1, v2}
    Callers = {c1, c2}
    MaxCancels = 0
PROPERTIES
    CallersReturn
