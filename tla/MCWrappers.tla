----------------------------- MODULE MCWrappers -----------------------------
(***************************************************************************)
(* Side by side for TLC: the object pool and the compressing cache, which  *)
(* wrap a cache, and a cache of one client over a store that works.  A     *)
(* behaviour uses one of them, the one that is chosen at its start.        *)
(***************************************************************************)
EXTENDS MCPooledCache

CONSTANTS CacheKeys, CacheClients, Nothing, Garbage, Error, Panic

\* What is set into the compressing cache.  Sizes: 1 is below every minimum, 2
\* is within most limits, 3 is above all.
Bytes(n, seems) ==
    [kind |-> "bytes", gob |-> "same", seemsEncoded |-> seems, size |-> n]
Object(n, gob) ==
    [kind |-> "object", gob |-> gob, seemsEncoded |-> FALSE, size |-> n]
Nil == [kind |-> "nil", gob |-> "refused", seemsEncoded |-> FALSE, size |-> 1]
SomeValues ==
    {Bytes(1, FALSE), Bytes(1, TRUE), Bytes(2, TRUE), Bytes(3, FALSE),
     Object(1, "changed"), Object(2, "same"), Object(2, "changed"),
     Object(2, "unreadable"), Object(2, "refused"), Nil}

Config(name, works, min) ==
    [algorithm |-> name, works |-> works, minSize |-> min, maxSize |-> 2]
SomeConfigs ==
    {Config("gzip", TRUE, 2), Config("gzip", FALSE, 2),
     Config("zlib", TRUE, 2), Config("lzw", TRUE, 3), Config("lzw", TRUE, 2),
     Config("other", FALSE, 2)}

VARIABLES chosen, valueType, config, kept, setting, raced

wrapVars == <<valueType, config, kept, setting, raced>>

CONSTANTS RoomKeys, RoomCalls  \* the keys and the number of calls of R

VARIABLES maps, curMap, lru, size, backing, shut, shutOnce, sweeper, now,
          call, answer, callsLeft, history

roomVars == <<maps, curMap, lru, size, backing, shut, shutOnce, sweeper, now,
              call, answer, callsLeft, history>>

\* The cache over a store that works: one client, room for two entries, TTLs
\* of two lengths.
R == INSTANCE Cache WITH
        Keys <- RoomKeys, Values <- {"value"}, Durations <- {1, 2},
        Clients <- CacheClients, Ops <- {"get", "set", "delete", "clear"},
        MaxSize <- 2, CleanupRuns <- TRUE, BatchSize <- 2, ChunkSize <- 1,
        HasStore <- TRUE, StoreMayFail <- FALSE, MapIds <- {1, 2},
        MaxTime <- 3, MaxCalls <- RoomCalls,
        heap <- maps, cur <- curMap, policy <- lru, statSize <- size,
        stored <- backing, closed <- shut, once <- shutOnce, sweep <- sweeper,
        clock <- now, op <- call, result <- answer, calls <- callsLeft,
        truth <- history

\* With its theorems, for PooledCacheProofs to cite.
C == INSTANCE CompressionProofs WITH
        Keys <- CacheKeys, Clients <- CacheClients, Values <- SomeValues,
        Configs <- SomeConfigs, stored <- kept

ASSUME MCCompressionAssumption == C!CompressionConstants

WrappersInit ==
    /\ chosen \in {"pool", "compression", "room"}
    /\ PooledInit
    /\ C!Init
    /\ R!Init
    /\ chosen # "compression" =>
          valueType = "any" /\ config = Config("gzip", TRUE, 2)

WrappersNext ==
    /\ \/ chosen = "pool" /\ PooledNext /\ UNCHANGED <<wrapVars, roomVars>>
       \/ chosen = "compression" /\ C!Next /\ UNCHANGED <<pooledVars, roomVars>>
       \/ chosen = "room" /\ R!Next /\ UNCHANGED <<pooledVars, wrapVars>>
    /\ UNCHANGED chosen

WrappersSpec ==
    WrappersInit /\ [][WrappersNext]_<<chosen, pooledVars, wrapVars, roomVars>>

\* Every variable of the two wrappers has its type.
WrappersTypeOK == PooledTypeOK /\ C!CompressionTypeOK

\* Get of the compressing cache (Compression.Get) answers what was set last
\* exactly if none of the reasons that module Compression names applies.
RightButForKnownReasons == C!RightButForKnownReasons

\* Over a store that works, Set finds a victim that makes room (Cache.Set)
\* though the policy may track keys that have left the map and may have
\* forgotten some that are in it: a full map always holds one that it knows.
WorkingStoreMakesRoom == R!SetMakesRoom
=============================================================================
