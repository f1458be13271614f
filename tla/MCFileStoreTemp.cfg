\* Clients that only Get and Set, on a disk that never fails, without a crash.
CONSTANTS
    Keys = {k1}
    Values = {v1}
    Durations = {1}
    Clients = {c1, c2}
    Ops = {"get", "set"}
    CleanupInterval = 1
    DiskMayFail = FALSE
    NoValue = NoValue
    Garbage = Garbage
    MaxTime = 2
    MaxCalls = 4
    MaxCrashes = 0
    MinTTL = 1
    MaxTTL = 3
    ZeroTTLMeansNoExpiry = TRUE
SPECIFICATION Spec
INVARIANTS GetFindsWhole
