\* File store: one key, for it is calls for one key that interfere.  Batch:
\* four keys of which a batch takes three at most, two deletions at a time, a
\* cache whose calls may fail and a context that may end at any time.
CONSTANTS
    FileKeys = {f1}
    FileOps = {"get", "set", "delete", "setMany", "getMany", "deleteMany", "clear", "close"}
    Values = {v1}
    Clients = {c1, c2}
    CleanupInterval = 1
    DiskMayFail = TRUE
    NoValue = NoValue
    Garbage = Garbage
    MaxTime = 3
    MaxCalls = 3
    MaxCrashes = 1
    MinTTL = 1
    MaxTTL = 3
    ZeroTTLMeansNoExpiry = TRUE
    Keys = {k1, k2, k3, k4}
    Ops = {"get", "set", "delete"}
    MaxBatchSize = 3
    MaxConcurrent = 2
    CacheMayFail = TRUE
    MayCancel = TRUE
SPECIFICATION BothSpec
INVARIANTS BothTypeOK ConcurrencyBound SuccessIsComplete QuietAfterAnswer
PROPERTIES BatchEnds OnlyThreeLoseEntries FileCallsReturn LitterGoes
