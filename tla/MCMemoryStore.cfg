\* Two clients with calls of every kind, three keys and room for two of them,
\* values of one size: no entry is overwritten by a larger one.
CONSTANTS
    Keys = {k1, k2, k3}
    Values = {1}
    Durations <- RaisedAndEndless
    Clients = {c1, c2}
    Ops = {"get", "getMany", "set", "setMany", "delete", "deleteMany", "clear", "close", "cleanup", "ctx"}
    MaxSize = 2
    MaxMemory = 3
    TrackMemory = TRUE
    NoValue = NoValue
    MaxTime = 3
    MaxCalls = 3
    MinTTL = 1
    MaxTTL = 3
    ZeroTTLMeansNoExpiry = TRUE
SPECIFICATION LiveSpec
INVARIANTS TypeOK SizeLimit MemoryLimit UsageCovers
PROPERTIES OnlyGetDisturbs CleanerEnds ExpiredIsSwept
