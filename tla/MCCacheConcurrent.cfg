\* Two clients, expiry, eviction, cleanup and a store whose calls may fail, all
\* at once: a map of two entries and three keys to fill it with.
CONSTANTS
    Keys = {k1, k2, k3}
    Values = {v1}
    Durations = {1}
    Clients = {c1, c2}
    Ops = {"get", "set", "delete", "clear", "close", "cancelled"}
    MaxSize = 2
    CleanupRuns = TRUE
    BatchSize = 2
    ChunkSize = 1
    HasStore = TRUE
    StoreMayFail = TRUE
    NoValue = NoValue
    MapIds = {1, 2, 3}
    MaxTime = 3
    MaxCalls = 2
    MinTTL = 1
    MaxTTL = 3
    ZeroTTLMeansNoExpiry = TRUE
SPECIFICATION Spec
SYMMETRY Symmetry
INVARIANTS TypeOK SizeBound
PROPERTIES SetEvictsAtMostOne CleanupSparesLive OnlyGetDisturbs DriftsForKnownReasons StoreLagsForKnownReasons
