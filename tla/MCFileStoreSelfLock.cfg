\* One client that sets a key and looks it up with GetMany when it has expired.
CONSTANTS
    Keys = {k1}
    Values = {v1}
    Durations = {1}
    Clients = {c1}
    Ops = {"set", "getMany"}
    CleanupInterval = 1
    DiskMayFail = FALSE
    NoValue = NoValue
    Garbage = Garbage
    MaxTime = 4
    MaxCalls = 2
    MaxCrashes = 0
    MinTTL = 1
    MaxTTL = 3
    ZeroTTLMeansNoExpiry = TRUE
SPECIFICATION Spec
INVARIANTS CleanupBeforeLock
