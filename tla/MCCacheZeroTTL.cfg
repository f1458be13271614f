\* Entries set with a TTL of 0.
CONSTANTS
    Keys = {k1, k2}
    Values = {v1}
    Durations = {0}
    Clients = {c1}
    Ops = {"get", "set"}
    MaxSize = 1
    CleanupRuns = TRUE
    BatchSize = 2
    ChunkSize = 1
    HasStore = FALSE
    StoreMayFail = FALSE
    NoValue = NoValue
    MapIds = {1, 2, 3}
    MaxTime = 3
    MaxCalls = 3
    MinTTL = 1
    MaxTTL = 3
    ZeroTTLMeansNoExpiry = TRUE
SPECIFICATION Spec
PROPERTIES CleanupSparesLive
