\* Pool: two clients with calls of every kind, beside cleanupLoop, and no
\* eviction.  Compression: one key, one client, values of every kind under
\* every kind of type, configurations that differ in codec, level and limits.
\* The cache over a store that works: four calls, as many as it takes for a
\* full map to meet a key that the policy should have given up and one that
\* it has forgotten.
CONSTANTS
    Keys = {k1, k2}
    Values = {p1, p2, p3, p4}
    Durations <- PoolDurations
    Clients = {c1, c2}
    Ops = {"get", "set", "delete", "clear"}
    MaxSize = 0
    CleanupRuns = FALSE
    BatchSize = 1
    ChunkSize = 1
    HasStore = FALSE
    StoreMayFail = FALSE
    NoValue = NoValue
    MapIds = {1, 2}
    MaxTime = 1
    MaxCalls = 2
    MinTTL = 1
    MaxTTL = 3
    ZeroTTLMeansNoExpiry = TRUE
    Data = {a, b}
    Zero = zero
    PoolOps = {"reset", "cleanup", "close"}
    PoolMaxSize = 1
    PoolMinSize = 1
    ShrinkPercent = 40
    CacheKeys = {key}
    CacheClients = {client}
    RoomKeys = {r1, r2, r3}
    RoomCalls = 4
    Nothing = Nothing
    Garbage = Garbage
    Error = Error
    Panic = Panic
SPECIFICATION WrappersSpec
SYMMETRY PoolSymmetry
INVARIANTS WrappersTypeOK OneOwner ValuesIntact RightButForKnownReasons WorkingStoreMakesRoom
 
