------------------------------- MODULE Cache -------------------------------
(***************************************************************************)
(* cache.go: the cache used by several goroutines (Clients) at once, with  *)
(* its cleanup goroutine, the default LRU policy and an optional store.    *)
(*                                                                         *)
(* The cache's items field is an atomic pointer to a Go map.  Set and      *)
(* cleanup change the map in place; Delete, Clear and Close install a new  *)
(* one; Get drops the read lock, takes the write lock, deletes the expired *)
(* key from the map it captured earlier and installs THAT map.  The model  *)
(* therefore keeps map identities: heap[m] is the contents of map m, cur   *)
(* the map the pointer designates, and a Get between its two critical      *)
(* sections holds the identity it captured.                                *)
(*                                                                         *)
(* A stretch of code under c.mu is one action, so the lock itself is not a *)
(* variable.  Code outside the lock is split where another goroutine can   *)
(* act in between.                                                         *)
(***************************************************************************)
EXTENDS TTL, LRUList

CONSTANTS
    Keys,           \* the keys clients use
    Values,         \* the values they set
    Durations,      \* the TTLs they pass to Set
    Clients,        \* the goroutines that call the cache
    Ops,            \* the kinds of call they make
    MaxSize,        \* Options.MaxSize; 0 is unlimited
    CleanupRuns,    \* CleanupInterval > 0
    BatchSize,      \* maxBatchSize of cleanup, 1000 in the code
    ChunkSize,      \* chunkSize of cleanup, 100 in the code
    HasStore,       \* a Store is configured
    StoreMayFail,   \* the store may return errors and miss reads
    NoValue,        \* no value
    MapIds,         \* bound: identities of live Go maps
    MaxTime,        \* bound: the last instant
    MaxCalls        \* bound: calls of one client

ASSUME CacheAssumption ==
    /\ IsFiniteSet(Keys)
    /\ MaxSize \in Nat
    /\ MaxTime \in Nat \ {0}
    /\ MaxCalls \in Nat
    /\ BatchSize \in Nat \ {0}
    /\ ChunkSize \in Nat \ {0}
    /\ Durations \subseteq Int
    /\ {CleanupRuns, HasStore, StoreMayFail} \subseteq BOOLEAN
    /\ NoValue \notin Values
    /\ MapIds # {}

VARIABLES
    heap,      \* [MapIds -> Contents]: the Go maps
    cur,       \* the map that c.items points to
    policy,    \* the LRU policy, a record of LRUList
    statSize,  \* stats.Size
    stored,    \* what the store holds, with the store's own expiry times
    closed,    \* c.closed; cleanupStop is closed in the same stretch
    once,      \* closeOnce: "new", "running" or "done"
    sweep,     \* the cleanup goroutine
    clock,     \* time.Now()
    op,        \* [Clients -> the call in progress and where it stands]
    result,    \* [Clients -> what the last call returned]
    calls,     \* [Clients -> calls left]
    truth      \* history: the entry a key should have, see Written

sharedVars == <<heap, cur, policy, statSize, stored, closed, once>>
vars == <<heap, cur, policy, statSize, stored, closed, once, sweep, clock,
          op, result, calls, truth>>

Entries == [value : Values, expires : Nat]
NoEntry == [value |-> NoValue, expires |-> 0]
Contents == [Keys -> Entries \cup {NoEntry}]
NoItems == [k \in Keys |-> NoEntry]

Present(items) == {k \in Keys : items[k] # NoEntry}
Size(items) == Cardinality(Present(items))

\* Get's test of an entry it found.
Live(e) == e.expires = Never \/ clock < e.expires

\* expiresAt.Before(now), cleanup's test.  The zero time is before any now.
Before(e, now) == e.expires < now

\* getItems: the current map, or a fresh empty one once the cache is closed.
Items == IF closed THEN NoItems ELSE heap[cur]

Idle == [pc |-> "idle"]

\* The maps that something still refers to; the others are garbage.
Held(ops) == {ops[c].map : c \in {d \in Clients : ops[d].pc = "getExpire"}}

Fresh == CHOOSE m \in MapIds : m \notin Held(op) \cup {cur}
CanAllocate == MapIds \ (Held(op) \cup {cur}) # {}

\* The heap h once the maps that nothing refers to any more are dropped.
Collected(h) ==
    [m \in MapIds |-> IF m \in Held(op') \cup {cur'} THEN h[m] ELSE NoItems]

Without(items, ks) == [k \in Keys |-> IF k \in ks THEN NoEntry ELSE items[k]]

StoreRefuses == StoreMayFail \/ once = "done"

-----------------------------------------------------------------------------
Init ==
    /\ cur = CHOOSE m \in MapIds : TRUE
    /\ heap = [m \in MapIds |-> NoItems]
    /\ policy = EmptyPolicy
    /\ statSize = 0
    /\ stored = NoItems
    /\ closed = FALSE
    /\ once = "new"
    /\ sweep = [pc |-> IF CleanupRuns THEN "select" ELSE "absent"]
    /\ clock = 1
    /\ op = [c \in Clients |-> Idle]
    /\ result = [c \in Clients |-> "none"]
    /\ calls = [c \in Clients |-> MaxCalls]
    /\ truth = NoItems

\* A call begins: its first step leaves the client in the state o.
Enter(c, kind, o) ==
    /\ kind \in Ops
    /\ op[c] = Idle
    /\ calls[c] > 0
    /\ calls' = [calls EXCEPT ![c] = @ - 1]
    /\ op' = [op EXCEPT ![c] = o]
    /\ result' = [result EXCEPT ![c] = "none"]

\* A call that is turned away returns r at once.
TurnAway(c, kind, r) ==
    /\ kind \in Ops
    /\ op[c] = Idle
    /\ calls[c] > 0
    /\ calls' = [calls EXCEPT ![c] = @ - 1]
    /\ result' = [result EXCEPT ![c] = r]
    /\ UNCHANGED op

Return(c, r) ==
    /\ op' = [op EXCEPT ![c] = Idle]
    /\ result' = [result EXCEPT ![c] = r]
    /\ UNCHANGED calls

Continue(c, o) ==
    /\ op' = [op EXCEPT ![c] = o]
    /\ UNCHANGED <<result, calls>>

\* checkState and the context check that open Get, Set, Delete and Clear.
CallRefused(c) ==
    /\ \/ /\ closed
          /\ \E kind \in {"get", "set", "delete", "clear"} :
                TurnAway(c, kind, "closed")
       \/ TurnAway(c, "cancelled", "cancelled")
    /\ UNCHANGED <<sharedVars, sweep, clock, truth>>

-----------------------------------------------------------------------------
(***************************************************************************)
(* Get: a lookup under the read lock; if the entry has expired, its        *)
(* removal under the write lock; then the store.                           *)
(***************************************************************************)
GetBegin(c) ==
    /\ ~closed
    /\ \E k \in Keys : Enter(c, "get", [pc |-> "getLookup", key |-> k])
    /\ UNCHANGED <<sharedVars, sweep, clock, truth>>

\* A mutated form of GetHit: the zero value is returned.
GetHitZero(c) ==
    /\ op[c].pc = "getLookup"
    /\ LET e == Items[op[c].key] IN e # NoEntry /\ Live(e)
    /\ Return(c, NoValue)
    /\ policy' = AfterGet(policy, op[c].key)
    /\ UNCHANGED <<heap, cur, statSize, stored, closed, once, sweep, clock,
                   truth>>

GetHit(c) ==
    /\ op[c].pc = "getLookup"
    /\ LET e == Items[op[c].key]
       IN  /\ e # NoEntry /\ Live(e)
           /\ Return(c, e.value)
    /\ policy' = AfterGet(policy, op[c].key)
    /\ UNCHANGED <<heap, cur, statSize, stored, closed, once, sweep, clock,
                   truth>>

GetFindsExpired(c) ==
    /\ op[c].pc = "getLookup"
    /\ LET e == Items[op[c].key]
       IN  e # NoEntry /\ ~Live(e)
    /\ Continue(c, [pc |-> "getExpire", key |-> op[c].key, map |-> cur])
    /\ UNCHANGED <<sharedVars, sweep, clock, truth>>

GetFindsNothing(c) ==
    /\ op[c].pc = "getLookup"
    /\ Items[op[c].key] = NoEntry
    /\ Continue(c, [pc |-> "getStore", key |-> op[c].key])
    /\ UNCHANGED <<sharedVars, sweep, clock, truth>>

\* delete(items, key) on the captured map, then c.items.Store of that map.
\* Nothing is checked again.
GetRemoveExpired(c) ==
    /\ op[c].pc = "getExpire"
    /\ cur' = op[c].map
    /\ Continue(c, [pc |-> "getStore", key |-> op[c].key])
    /\ heap' = Collected([heap EXCEPT ![cur'] = Without(@, {op[c].key})])
    /\ UNCHANGED <<policy, statSize, stored, closed, once, sweep, clock, truth>>

InStore(k) == HasStore /\ stored[k] # NoEntry
                       /\ ~IsExpired(stored[k].expires, clock)

\* A hit in the store is returned but not brought back into the map.
GetFromStore(c) ==
    /\ op[c].pc = "getStore"
    /\ InStore(op[c].key)
    /\ Return(c, stored[op[c].key].value)
    /\ policy' = AfterGet(policy, op[c].key)
    /\ UNCHANGED <<heap, cur, statSize, stored, closed, once, sweep, clock,
                   truth>>

GetMiss(c) ==
    /\ op[c].pc = "getStore"
    /\ ~InStore(op[c].key) \/ StoreRefuses
    /\ Return(c, "notFound")
    /\ UNCHANGED <<sharedVars, sweep, clock, truth>>

-----------------------------------------------------------------------------
(***************************************************************************)
(* Set: the TTL is validated and the expiry time computed before the lock  *)
(* is taken; eviction, insertion, the store's Set and the policy's OnSet   *)
(* happen under it.                                                        *)
(***************************************************************************)
SetBegin(c) ==
    /\ ~closed
    /\ \E k \in Keys, v \in Values, d \in Durations :
          IF Validate(d) = "ok"
          THEN Enter(c, "set",
                     [pc |-> "setCommit", key |-> k, ttl |-> Normalize(d),
                      entry |-> [value   |-> v,
                                 expires |-> GetExpirationTime(Normalize(d),
                                                               clock)]])
          ELSE TurnAway(c, "set", "badTTL")
    /\ UNCHANGED <<sharedVars, sweep, clock, truth>>

\* A mutated form of HasRoom: off by one.
HasRoomOffByOne(items) == MaxSize = 0 \/ Size(items) <= MaxSize

HasRoom(items) == MaxSize = 0 \/ Size(items) < MaxSize

\* The map after n calls of Evict: a victim absent from the map frees nothing.
Evicted(items, n) == Without(items, Victims(policy, n))

\* A mutated form of EvictionRounds: once begun, the loop empties the policy.
EvictionRoundsExhaust(items, n) ==
    n = IF HasRoom(items) THEN 0 ELSE Len(policy.list)

\* The eviction loop stops after n calls of Evict.
EvictionRounds(items, n) ==
    /\ HasRoom(Evicted(items, n))
    /\ \A i \in 0 .. n - 1 : ~HasRoom(Evicted(items, i))

\* A mutated form of Persisted: the other entries are dropped.
PersistedAlone(k, value, ttl) ==
    [NoItems EXCEPT ![k] =
       [value |-> value, expires |-> GetExpirationTime(ttl, clock)]]

\* The store's contents after its Set, which has a clock of its own.
Persisted(k, value, ttl) ==
    [stored EXCEPT ![k] =
       [value |-> value, expires |-> GetExpirationTime(ttl, clock)]]

\* The new entry is installed before the store is asked; if the store then
\* refuses, Set returns its error with the entry in the map and the policy
\* not told of it.
SetCommit(c) ==
    /\ op[c].pc = "setCommit"
    /\ closed => CanAllocate
    /\ \E n \in 0 .. Len(policy.list) :
          LET k     == op[c].key
              items == [Evicted(Items, n) EXCEPT ![k] = op[c].entry]
              rest  == DropBack(policy, n)
          IN  /\ EvictionRounds(Items, n)
              /\ cur' = IF closed THEN Fresh ELSE cur
              /\ truth' = [Evicted(truth, n) EXCEPT ![k] = op[c].entry]
              /\ \/ /\ stored' = IF ~HasStore THEN stored
                                 ELSE Persisted(k, op[c].entry.value, op[c].ttl)
                    /\ policy' = AfterSet(rest, k, MaxSize)
                    /\ statSize' = Size(items)
                    /\ Return(c, "ok")
                 \/ /\ HasStore /\ StoreRefuses
                    /\ policy' = rest
                    /\ Return(c, "storeError")
                    /\ UNCHANGED <<stored, statSize>>
              /\ heap' = Collected([heap EXCEPT ![cur'] = items])
    /\ UNCHANGED <<closed, once, sweep, clock>>

\* The policy runs out of victims before there is room.  Those it gave up
\* have been deleted from the map all the same.
SetNoRoom(c) ==
    /\ op[c].pc = "setCommit"
    /\ \A n \in 0 .. Len(policy.list) : ~HasRoom(Evicted(Items, n))
    /\ LET n == Len(policy.list)
       IN  /\ heap' = [heap EXCEPT ![cur] = Evicted(@, n)]
           /\ truth' = Evicted(truth, n)
           /\ policy' = DropBack(policy, n)
    /\ Return(c, "capacityLimit")
    /\ UNCHANGED <<cur, statSize, stored, closed, once, sweep, clock>>

-----------------------------------------------------------------------------
(***************************************************************************)
(* Delete copies the map without the key; Clear starts an empty one and    *)
(* does not tell the policy.  Neither looks at closed again.               *)
(***************************************************************************)
DeleteBegin(c) ==
    /\ ~closed
    /\ \E k \in Keys : Enter(c, "delete", [pc |-> "deleteCommit", key |-> k])
    /\ UNCHANGED <<sharedVars, sweep, clock, truth>>

\* A mutated form of CopyWithout: nothing is copied.
CopyNothing(items, k) == NoItems

CopyWithout(items, k) == Without(items, {k})

DeleteCommit(c) ==
    /\ op[c].pc = "deleteCommit"
    /\ CanAllocate
    /\ cur' = Fresh
    /\ LET k == op[c].key
       IN  /\ policy' = AfterDelete(policy, k)
           /\ statSize' = IF k \in Present(heap[cur])
                          THEN statSize - 1 ELSE statSize
           /\ truth' = Without(truth, {k})
           /\ \/ /\ stored' = Without(stored, {k})
                 /\ Return(c, "ok")
              \/ /\ HasStore /\ StoreRefuses
                 /\ Return(c, "storeError")
                 /\ UNCHANGED stored
           /\ heap' = Collected([heap EXCEPT ![cur'] =
                                    CopyWithout(heap[cur], k)])
    /\ UNCHANGED <<closed, once, sweep, clock>>

ClearBegin(c) ==
    /\ ~closed
    /\ Enter(c, "clear", [pc |-> "clearCommit"])
    /\ UNCHANGED <<sharedVars, sweep, clock, truth>>

ClearCommit(c) ==
    /\ op[c].pc = "clearCommit"
    /\ CanAllocate
    /\ cur' = Fresh
    /\ statSize' = 0
    /\ truth' = NoItems
    /\ \/ stored' = NoItems /\ Return(c, "ok")
       \/ HasStore /\ StoreRefuses /\ Return(c, "storeError")
                   /\ UNCHANGED stored
    /\ heap' = Collected([heap EXCEPT ![cur'] = NoItems])
    /\ UNCHANGED <<policy, closed, once, sweep, clock>>

\* ResetStats clears the size counter with the others; it checks nothing.
ResetStats(c) ==
    /\ TurnAway(c, "reset", "ok")
    /\ statSize' = 0
    /\ UNCHANGED <<heap, cur, policy, stored, closed, once, sweep, clock, truth>>

-----------------------------------------------------------------------------
(***************************************************************************)
(* The cleanup goroutine.  It reads the time, collects up to BatchSize     *)
(* expired keys under the read lock, and removes them ChunkSize at a time  *)
(* under the write lock, testing each one again on the map of that moment. *)
(***************************************************************************)
Lesser(a, b) == IF a < b THEN a ELSE b

\* Any n of the keys ks, all if there are fewer: Go maps have no order.
Some(ks, n) ==
    {s \in SUBSET ks : Cardinality(s) = Lesser(n, Cardinality(ks))}

CleanupTick ==
    /\ sweep.pc = "select"
    /\ sweep' = [pc |-> "scan", now |-> clock]
    /\ UNCHANGED <<sharedVars, clock, op, result, calls, truth>>

\* A mutated form of ExpiredKeys: the comparison is turned round.
ExpiredKeysReversed(now) ==
    {k \in Present(heap[cur]) : now < heap[cur][k].expires}

ExpiredKeys(now) == {k \in Present(heap[cur]) : Before(heap[cur][k], now)}

AfterScan(keys, now) ==
    IF keys = {} THEN [pc |-> "select"]
    ELSE [pc |-> "remove", now |-> now, keys |-> keys]

CleanupScan ==
    /\ sweep.pc = "scan"
    /\ \E ks \in Some(ExpiredKeys(sweep.now), BatchSize) :
          sweep' = AfterScan(ks, sweep.now)
    /\ UNCHANGED <<sharedVars, clock, op, result, calls, truth>>

\* A mutated form of CleanupChunk: the keys are not tested again.
CleanupChunkNoRecheck ==
    /\ sweep.pc = "remove"
    /\ \E chunk \in Some(sweep.keys, ChunkSize) :
          /\ heap' = [heap EXCEPT ![cur] = Without(@, chunk)]
          /\ sweep' = AfterScan(sweep.keys \ chunk, sweep.now)
    /\ UNCHANGED <<cur, policy, statSize, stored, closed, once, clock, op,
                   result, calls, truth>>

CleanupChunk ==
    /\ sweep.pc = "remove"
    /\ \E chunk \in Some(sweep.keys, ChunkSize) :
          /\ heap' = [heap EXCEPT ![cur] =
                        Without(@, chunk \cap ExpiredKeys(sweep.now))]
          /\ sweep' = AfterScan(sweep.keys \ chunk, sweep.now)
    /\ UNCHANGED <<cur, policy, statSize, stored, closed, once, clock, op,
                   result, calls, truth>>

\* A mutated form of CleanupStop: cleanupDone is not closed.
CleanupStopSilent ==
    /\ sweep.pc = "select"
    /\ closed
    /\ sweep' = [pc |-> "silent"]
    /\ UNCHANGED <<sharedVars, clock, op, result, calls, truth>>

CleanupStop ==
    /\ sweep.pc = "select"
    /\ closed
    /\ sweep' = [pc |-> "done"]
    /\ UNCHANGED <<sharedVars, clock, op, result, calls, truth>>

-----------------------------------------------------------------------------
(***************************************************************************)
(* Close: the first caller runs the body of closeOnce, the others wait for *)
(* it.  The body waits for the cleanup goroutine before it takes the lock. *)
(***************************************************************************)
CloseBegin(c) ==
    /\ once = "new"
    /\ Enter(c, "close", [pc |-> "closeWait"])
    /\ closed' = TRUE
    /\ once' = "running"
    /\ UNCHANGED <<heap, cur, policy, statSize, stored, sweep, clock, truth>>

CloseAgain(c) ==
    /\ \/ once = "running" /\ Enter(c, "close", [pc |-> "onceWait"])
       \/ once = "done" /\ TurnAway(c, "close", "ok")
    /\ UNCHANGED <<sharedVars, sweep, clock, truth>>

CloseSweepDone(c) ==
    /\ op[c].pc = "closeWait"
    /\ sweep.pc = "done"
    /\ Continue(c, [pc |-> "closeCommit"])
    /\ UNCHANGED <<sharedVars, sweep, clock, truth>>

CloseCommit(c) ==
    /\ op[c].pc = "closeCommit"
    /\ CanAllocate
    /\ cur' = Fresh
    /\ once' = "done"
    /\ truth' = NoItems
    /\ Return(c, "ok")
    /\ heap' = Collected([heap EXCEPT ![cur'] = NoItems])
    /\ UNCHANGED <<policy, statSize, stored, closed, sweep, clock>>

CloseReturn(c) ==
    /\ op[c].pc = "onceWait"
    /\ once = "done"
    /\ Return(c, "ok")
    /\ UNCHANGED <<sharedVars, sweep, clock, truth>>

-----------------------------------------------------------------------------
TimePasses ==
    /\ clock < MaxTime
    /\ clock' = clock + 1
    /\ UNCHANGED <<sharedVars, sweep, op, result, calls, truth>>

\* A call in progress takes its next step.
Proceed(c) ==
    \/ GetHit(c) \/ GetFindsExpired(c) \/ GetFindsNothing(c)
    \/ GetRemoveExpired(c) \/ GetFromStore(c) \/ GetMiss(c)
    \/ SetCommit(c) \/ SetNoRoom(c)
    \/ DeleteCommit(c) \/ ClearCommit(c)
    \/ CloseSweepDone(c) \/ CloseCommit(c) \/ CloseReturn(c)

Begin(c) ==
    \/ CallRefused(c)
    \/ GetBegin(c) \/ SetBegin(c) \/ DeleteBegin(c) \/ ClearBegin(c)
    \/ CloseBegin(c) \/ CloseAgain(c) \/ ResetStats(c)

Cleanup == CleanupTick \/ CleanupScan \/ CleanupChunk \/ CleanupStop

\* Every call has been made and has returned: the model may stop here.
Finished ==
    /\ \A c \in Clients : op[c] = Idle /\ calls[c] = 0
    /\ UNCHANGED vars

Next ==
    \/ \E c \in Clients : Begin(c) \/ Proceed(c)
    \/ Cleanup
    \/ TimePasses
    \/ Finished

Spec == Init /\ [][Next]_vars

\* Every goroutine that can run does.  When cleanupStop is closed and a tick
\* is pending too, select picks one of them at random: strong fairness.
Fairness ==
    /\ \A c \in Clients : WF_vars(Proceed(c))
    /\ WF_vars(CleanupTick) /\ WF_vars(CleanupScan) /\ WF_vars(CleanupChunk)
    /\ SF_vars(CleanupStop)
    /\ WF_vars(TimePasses)

LiveSpec == Spec /\ Fairness

-----------------------------------------------------------------------------
(***************************************************************************)
(* Properties                                                              *)
(***************************************************************************)
Calls ==
    [pc : {"idle", "clearCommit", "closeWait", "closeCommit", "onceWait"}]
    \cup [pc : {"getLookup", "getStore", "deleteCommit"}, key : Keys]
    \cup [pc : {"getExpire"}, key : Keys, map : MapIds]
    \cup [pc : {"setCommit"}, key : Keys, ttl : Int, entry : Entries]

Results == Values \cup {"none", "ok", "closed", "cancelled", "notFound",
                        "badTTL", "capacityLimit", "storeError"}

Sweeps ==
    [pc : {"absent", "select", "done"}]
    \cup [pc : {"scan"}, now : Nat]
    \cup [pc : {"remove"}, now : Nat, keys : SUBSET Keys]

TypeOK ==
    /\ heap \in [MapIds -> Contents]
    /\ cur \in MapIds
    /\ policy \in [items : SUBSET Keys, list : Seq(Keys)]
    /\ statSize \in Int
    /\ stored \in Contents
    /\ closed \in BOOLEAN
    /\ once \in {"new", "running", "done"}
    /\ sweep \in Sweeps
    /\ clock \in Nat \ {0}
    /\ op \in [Clients -> Calls]
    /\ result \in [Clients -> Results]
    /\ calls \in [Clients -> Nat]
    /\ truth \in Contents

\* No map that is current, or that a Get may still install, holds more than
\* MaxSize entries.
SizeBound == MaxSize > 0 => \A m \in MapIds : Size(heap[m]) <= MaxSize

\* The keys that vanish from the current map in a step.
Lost == Present(heap[cur]) \ Present(heap'[cur'])

\* A Set costs at most one other entry, and a Set that fails for want of room
\* costs none.
SetEvictsAtMostOne ==
    [][\A c \in Clients :
          /\ op[c].pc = "setCommit" /\ op'[c] = Idle /\ ~closed
          => /\ Cardinality(Lost) <= 1
             /\ result'[c] = "capacityLimit" => Lost = {}]_vars

\* The cleanup goroutine removes only entries that Get would not return: the
\* keys it collected earlier may have been set again in between.
CleanupSparesLive ==
    [][sweep.pc = "remove" /\ sweep' # sweep =>
          \A k \in Lost : ~Live(heap[cur][k])]_vars

\* A Set that was not followed by a Delete, a Clear or an eviction is still
\* there until it expires.
NoLostUpdate ==
    ~closed => \A k \in Keys : truth[k] # NoEntry /\ Live(truth[k])
                                  => heap[cur][k] = truth[k]

\* What the map holds for a key is what the last Set stored and nothing has
\* removed since: a deleted, cleared or overwritten entry does not come back.
NoResurrection ==
    ~closed => \A k \in Keys : heap[cur][k] \in {truth[k], NoEntry}

\* What Get finds for k in memory is what the history says it should find.
Faithful(k) ==
    /\ heap[cur][k] \in {truth[k], NoEntry}
    /\ truth[k] # NoEntry /\ Live(truth[k]) => heap[cur][k] = truth[k]

\* The map is right about every key: no update is lost and nothing comes back.
MapFaithful == ~closed => \A k \in Keys : Faithful(k)

\* No step but the second critical section of a Get makes the map wrong about
\* a key: whatever else is interleaved, with expiry, eviction, cleanup and
\* failures of the store, updates are lost and entries come back there only.
OnlyGetDisturbs ==
    [][/\ ~closed'
       /\ \A c \in Clients : op[c].pc = "getExpire" => op'[c] = op[c]
       => \A k \in Keys : Faithful(k) => Faithful(k)']_vars

\* The policy tracks exactly the keys of the map and stats.Size counts them.
\* Expiry, Clear, ResetStats and a store that refuses a Set break it: see
\* DriftsForKnownReasons.
BooksAgree ==
    ~closed => /\ policy.items = Present(heap[cur])
               /\ statSize = Size(heap[cur])

\* The policy and the map agree on whether k is in the cache.
InStep(k) == k \in policy.items <=> heap[cur][k] # NoEntry

\* A client leaves the step pc of its call.
Leaves(c, pc) == op[c].pc = pc /\ op'[c] # op[c]

\* Why the policy and the map may come to disagree about k: cleanup removes it
\* as expired, a Get does or brings back an older map, or Clear empties the
\* map (none of them tells the policy); the store refuses the Set of k, which
\* the map has by then and the policy is not told of; or a Set finds the
\* policy full with a key that the map has lost, and OnSet drops k.
PolicyMissesOut(k) ==
    \/ /\ sweep.pc = "remove" /\ sweep' # sweep
       /\ k \in ExpiredKeys(sweep.now)
    \/ \E c \in Clients :
          \/ Leaves(c, "getExpire")
          \/ Leaves(c, "clearCommit")
          \/ Leaves(c, "setCommit") /\ op[c].key = k /\ result'[c] = "storeError"
          \/ /\ Leaves(c, "setCommit") /\ op[c].key # k /\ result'[c] = "ok"
             /\ \E j \in policy.items : heap[cur][j] = NoEntry

\* Get, Set, eviction and Delete keep the policy in step with the map, key by
\* key, but for those reasons.
DriftsForKnownReasons ==
    [][MaxSize > 0 /\ ~closed' =>
          \A k \in Keys : InStep(k) /\ ~InStep(k)' => PolicyMissesOut(k)]_vars

\* An entry that Get would return from memory is in the store too.
Backed(k) ==
    LET e == heap[cur][k]
    IN  e # NoEntry /\ Live(e) => stored[k].value = e.value

WriteThrough == ~closed => \A k \in Keys : Backed(k)

\* The store falls behind the map about a key in two ways only: it refused
\* the Set of that key, or a Get removes an expired entry and brings back an
\* older map.  When it refuses a Delete or a Clear it keeps more than the map.
StoreLagsForKnownReasons ==
    [][HasStore /\ ~closed' =>
          \A k \in Keys : Backed(k) /\ ~Backed(k)' =>
              \E c \in Clients :
                 \/ Leaves(c, "getExpire")
                 \/ /\ Leaves(c, "setCommit") /\ op[c].key = k
                    /\ result'[c] = "storeError"]_vars

\* With an eviction policy, Set makes room instead of failing.
SetMakesRoom == \A c \in Clients : result[c] # "capacityLimit"

\* Every call returns; that of Close waits for the cleanup goroutine to end.
CallsReturn == \A c \in Clients : op[c] # Idle ~> op[c] = Idle

Overdue(k) == /\ ~closed
              /\ heap[cur][k] # NoEntry
              /\ Before(heap[cur][k], clock)

\* An entry whose time is over does not stay in the map for ever.
ExpiredIsSwept == \A k \in Keys : Overdue(k) ~> ~Overdue(k)
=============================================================================
