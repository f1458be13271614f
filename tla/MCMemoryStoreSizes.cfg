\* One client and values of two sizes.
CONSTANTS
    Keys = {k1, k2, k3}
    Values = {1, 2}
    Durations <- RaisedAndEndless
    Clients = {c1}
    Ops = {"get", "set", "setMany", "delete"}
    MaxSize = 3
    MaxMemory = 3
    TrackMemory = TRUE
    NoValue = NoValue
    MaxTime = 1
    MaxCalls = 2
    MinTTL = 1
    MaxTTL = 3
    ZeroTTLMeansNoExpiry = TRUE
SPECIFICATION Spec
INVARIANTS MemoryLimit
