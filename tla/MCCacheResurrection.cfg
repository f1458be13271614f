\* Two clients, an expired entry and a deleted one.
CONSTANTS
    Keys = {k1, k2}
    Values = {v1}
    Durations = {1, 3}
    Clients = {c1, c2}
    Ops = {"get", "set", "delete"}
    MaxSize = 0
    CleanupRuns = TRUE
    BatchSize = 2
    ChunkSize = 1
    HasStore = FALSE
    StoreMayFail = FALSE
    NoValue = NoValue
    MapIds = {1, 2, 3}
    MaxTime = 3
    MaxCalls = 3
    MinTTL = 1
    MaxTTL = 3
    ZeroTTLMeansNoExpiry = TRUE
SPECIFICATION Spec
INVARIANTS NoResurrection
