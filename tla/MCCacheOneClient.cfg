\* One client with calls of every kind beside the cleanup goroutine, TTLs of
\* every class but zero, time passing, and Close at any moment.
CONSTANTS
    Keys = {k1, k2}
    Values = {v1}
    Durations <- AllDurations
    Clients = {c1}
    Ops = {"get", "set", "delete", "clear", "close", "reset", "cancelled"}
    MaxSize = 1
    CleanupRuns = TRUE
    BatchSize = 2
    ChunkSize = 1
    HasStore = FALSE
    StoreMayFail = FALSE
    NoValue = NoValue
    MapIds = {1, 2, 3}
    MaxTime = 4
    MaxCalls = 4
    MinTTL = 1
    MaxTTL = 3
    ZeroTTLMeansNoExpiry = TRUE
SPECIFICATION LiveSpec
INVARIANTS NoLostUpdate
PROPERTIES CallsReturn ExpiredIsSwept
