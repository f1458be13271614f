\* One client that sets more keys than the cache holds.
CONSTANTS
    Keys = {k1, k2, k3}
    Values = {p1, p2, p3, p4, p5}
    Durations <- PoolDurations
    Clients = {c1}
    Ops = {"get", "set"}
    MaxSize = 2
    CleanupRuns = FALSE
    BatchSize = 1
    ChunkSize = 1
    HasStore = FALSE
    StoreMayFail = FALSE
    NoValue = NoValue
    MapIds = {1, 2}
    MaxTime = 1
    MaxCalls = 7
    MinTTL = 1
    MaxTTL = 3
    ZeroTTLMeansNoExpiry = TRUE
    Data = {a, b}
    Zero = zero
    PoolOps = {}
    PoolMaxSize = 1
    PoolMinSize = 1
    ShrinkPercent = 40
SPECIFICATION PooledSpec
INVARIANTS GetReturnsWhatWasSet
