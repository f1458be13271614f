---------------------------- MODULE PooledCache ----------------------------
(***************************************************************************)
(* pool.go: a cache of pointers over module Cache.  Set takes a pointer    *)
(* from a sync.Pool, writes the value through it and stores the pointer;   *)
(* Get reads through the pointer it is given; a callback that the cache    *)
(* runs under its lock puts the pointers of Delete and Eviction events     *)
(* back into the pool.                                                     *)
(*                                                                         *)
(* Values of Cache are the pointers, and each action is an action of Cache *)
(* together with what the pool does in it.  The cache below has no store   *)
(* and is open, and nothing expires in it: Cache alone shows what a closed *)
(* cache and an expired entry do.                                          *)
(***************************************************************************)
EXTENDS Cache, Bags

CONSTANTS
    Data,           \* the values of the users
    Zero,           \* the zero value, in a new object
    PoolOps,        \* calls of the pool: "reset", "cleanup", "close"
    PoolMaxSize,    \* PoolConfig.MaxSize
    PoolMinSize,    \* PoolConfig.MinSize
    ShrinkPercent   \* PoolConfig.ShrinkFactor, in percent

Loop == "cleanupLoop"

ASSUME PoolAssumption ==
    /\ {PoolMaxSize, PoolMinSize, ShrinkPercent} \subseteq Nat
    /\ ~HasStore
    /\ ~CleanupRuns
    /\ Zero \notin Data
    /\ Loop \notin Clients

VARIABLES
    memory,      \* [Values -> Data \cup {Zero}]: what the pointers point to
    pool,        \* the bag of pointers in the sync.Pool
    currentSize, \* stats.CurrentSize
    mu,          \* Free, or the Cleanup that holds the try-lock
    loop,        \* cleanupLoop: "running" or "done"
    stop,        \* the stop channel is closed
    hand,        \* [Clients -> the part of a call that is in pool.go]
    written      \* history: [Keys -> what the last Set gave the key]

poolVars == <<memory, pool, currentSize, mu, loop, stop, hand, written>>
pooledVars == <<vars, poolVars>>

Free == [pc |-> "free"]
Empty == [pc |-> "empty"]

PooledInit ==
    /\ Init
    /\ memory = [p \in Values |-> Zero]
    /\ pool = EmptyBag
    /\ currentSize = 0
    /\ mu = Free
    /\ loop = "running"
    /\ stop = FALSE
    /\ hand = [c \in Clients |-> Empty]
    /\ written = [k \in Keys |-> Zero]

Grasp(c, h) == hand' = [hand EXCEPT ![c] = h]

\* The map that the cache is using holds p.
InCache(p) == \E k \in Keys : heap[cur][k].value = p

\* A client has p in its hands: it is about to store or to read it.
InHand(c, p) == "ptr" \in DOMAIN hand[c] /\ hand[c].ptr = p

\* Nothing refers to p: it has never been allocated, or is garbage.
Unreferenced(p) == ~BagIn(p, pool) /\ ~InCache(p) /\ \A c \in Clients : ~InHand(c, p)

\* A mutated form of CountAfter: without the try-lock.
CountAfterNoLock(n) == currentSize .. currentSize + n

\* What currentSize may be when n objects have been counted, each only if
\* tryLock succeeds: it fails while a Cleanup holds the lock, and may fail
\* because another callback, New or Cleanup has it for a moment.
CountAfter(n) ==
    IF mu # Free THEN {currentSize} ELSE currentSize .. currentSize + n

\* sync.Pool.Get: an object of the pool, which one is up to the runtime.
TakePooled(p) ==
    /\ BagIn(p, pool)
    /\ pool' = pool (-) SetToBag({p})
    /\ UNCHANGED <<memory, currentSize>>

\* sync.Pool.Get finds none, which may happen although there are some: they
\* may lie with another processor.  New allocates one.
TakeNew(p) ==
    /\ \E q \in Values : Unreferenced(q)
    /\ p = CHOOSE q \in Values : Unreferenced(q)
    /\ memory' = [memory EXCEPT ![p] = Zero]
    /\ currentSize' \in CountAfter(1)
    /\ UNCHANGED pool

\* The callback: the non-nil pointers of the bag b of events go to the pool.
PutBack(b) ==
    /\ pool' = pool (+) b
    /\ currentSize' \in CountAfter(BagCardinality(b))

-----------------------------------------------------------------------------
(***************************************************************************)
(* Set: three steps under no lock before the Set of the cache.             *)
(***************************************************************************)
SetTake(c) ==
    /\ hand[c] = Empty /\ op[c] = Idle /\ calls[c] > 0
    /\ "set" \in Ops
    /\ \E p \in Values, d \in Data :
          /\ TakePooled(p) \/ TakeNew(p)
          /\ Grasp(c, [pc |-> "write", ptr |-> p, data |-> d])
    /\ UNCHANGED <<vars, mu, loop, stop, written>>

\* A mutated form of SetWrite: the value is not copied.
SetWriteNothing(c) ==
    /\ hand[c].pc = "write"
    /\ Grasp(c, [hand[c] EXCEPT !.pc = "store"])
    /\ UNCHANGED <<vars, memory, pool, currentSize, mu, loop, stop, written>>

SetWrite(c) ==
    /\ hand[c].pc = "write"
    /\ memory' = [memory EXCEPT ![hand[c].ptr] = hand[c].data]
    /\ Grasp(c, [hand[c] EXCEPT !.pc = "store"])
    /\ UNCHANGED <<vars, pool, currentSize, mu, loop, stop, written>>

\* The cache checks the call.  A pointer that it refuses is garbage.
SetStore(c) ==
    /\ hand[c].pc = "store"
    /\ SetBegin(c)
    /\ op'[c] # Idle => op'[c].entry.value = hand[c].ptr
    /\ Grasp(c, IF op'[c] = Idle THEN Empty ELSE [hand[c] EXCEPT !.pc = "set"])
    /\ UNCHANGED <<memory, pool, currentSize, mu, loop, stop, written>>

\* A mutated form of EventsOfSet: the callback does not look at the type of
\* the event and takes the Set event, too.
EventsOfSetAllTypes(c, n) == [q \in {op[c].entry.value} |-> n + 1]

\* The pointers in the Eviction events of a Set that evicts n keys: every one
\* of them carries the value that is being set, not the one that leaves.
EventsOfSet(c, n) ==
    IF n = 0 THEN EmptyBag ELSE [q \in {op[c].entry.value} |-> n]

\* Without a store and with a policy that tracks the keys of the map, there
\* is always room in the end.
PooledSetCommit(c) ==
    /\ SetCommit(c)
    /\ \E n \in 0 .. Len(policy.list) :
          /\ EvictionRounds(Items, n)
          /\ PutBack(EventsOfSet(c, n))
    /\ written' = [written EXCEPT ![op[c].key] = hand[c].data]
    /\ Grasp(c, Empty)
    /\ UNCHANGED <<memory, mu, loop, stop>>

-----------------------------------------------------------------------------
(***************************************************************************)
(* Get: the value is read through the pointer when the cache has given up  *)
(* its lock.  want is what the key was set to at that moment.              *)
(***************************************************************************)
PooledGetBegin(c) ==
    /\ hand[c] = Empty
    /\ GetBegin(c)
    /\ UNCHANGED poolVars

PooledGetHit(c) ==
    /\ GetHit(c)
    /\ Grasp(c, [pc |-> "read", ptr |-> result'[c], want |-> written[op[c].key]])
    /\ UNCHANGED <<memory, pool, currentSize, mu, loop, stop, written>>

PooledGetMiss(c) ==
    /\ GetFindsNothing(c) \/ GetMiss(c)
    /\ UNCHANGED poolVars

GetRead(c) ==
    /\ hand[c].pc = "read"
    /\ Grasp(c, Empty)
    /\ UNCHANGED <<vars, memory, pool, currentSize, mu, loop, stop, written>>

-----------------------------------------------------------------------------
(***************************************************************************)
(* Delete and Clear go straight to the cache, which runs the callback for  *)
(* what it removes.                                                        *)
(***************************************************************************)
RemovalBegin(c) ==
    /\ hand[c] = Empty
    /\ DeleteBegin(c) \/ ClearBegin(c)
    /\ UNCHANGED poolVars

\* A mutated form of EventsOfDelete: nil pointers are put into the pool, too.
EventsOfDeleteWithNil(c) == SetToBag({heap[cur][op[c].key].value})

\* The Delete event of a key that is not in the map has a nil pointer.
EventsOfDelete(c) == SetToBag({heap[cur][op[c].key].value} \ {NoValue})

PooledDeleteCommit(c) ==
    /\ DeleteCommit(c)
    /\ PutBack(EventsOfDelete(c))
    /\ UNCHANGED <<memory, mu, loop, stop, hand, written>>

\* An Eviction event for every item, this time with its own pointer.
EventsOfClear ==
    LET ptrs == {heap[cur][k].value : k \in Present(heap[cur])}
    IN  [p \in ptrs |-> Cardinality({k \in Keys : heap[cur][k].value = p})]

PooledClearCommit(c) ==
    /\ ClearCommit(c)
    /\ PutBack(EventsOfClear)
    /\ UNCHANGED <<memory, mu, loop, stop, hand, written>>

-----------------------------------------------------------------------------
(***************************************************************************)
(* The pool: statistics, Cleanup by a client or by cleanupLoop, Close.     *)
(***************************************************************************)
ResetPoolStats(c) ==
    /\ "reset" \in PoolOps
    /\ hand[c] = Empty
    /\ op[c] = Idle /\ calls[c] > 0
    /\ calls' = [calls EXCEPT ![c] = @ - 1]
    /\ currentSize' = 0
    /\ UNCHANGED <<sharedVars, sweep, clock, op, result, truth,
                   memory, pool, mu, loop, stop, hand, written>>

ShrinkTarget ==
    LET share == (currentSize * ShrinkPercent) \div 100
    IN  IF share < PoolMinSize THEN PoolMinSize ELSE share

\* Cleanup has the lock and something to do.  It returns at once otherwise.
Shrink(who) ==
    /\ mu = Free
    /\ currentSize > PoolMaxSize
    /\ mu' = [pc |-> "test", by |-> who, target |-> ShrinkTarget]

CleanupCall(c) ==
    /\ "cleanup" \in PoolOps
    /\ hand[c] = Empty
    /\ op[c] = Idle /\ calls[c] > 0
    /\ calls' = [calls EXCEPT ![c] = @ - 1]
    /\ Shrink(c)
    /\ Grasp(c, [pc |-> "cleanup"])
    /\ UNCHANGED <<sharedVars, sweep, clock, op, result, truth,
                   memory, pool, currentSize, loop, stop, written>>

LoopTick ==
    /\ loop = "running"
    /\ Shrink(Loop)
    /\ UNCHANGED <<vars, memory, pool, currentSize, loop, stop, hand, written>>

ShrinkMore ==
    /\ mu.pc = "test"
    /\ currentSize > mu.target
    /\ mu' = [mu EXCEPT !.pc = "remove"]
    /\ UNCHANGED <<vars, memory, pool, currentSize, loop, stop, hand, written>>

\* The object that Get gives is dropped.  A new one is not counted, for the
\* lock is taken, by this Cleanup itself.
ShrinkRemove ==
    /\ mu.pc = "remove"
    /\ \/ /\ \E p \in Values : BagIn(p, pool) /\ pool' = pool (-) SetToBag({p})
          /\ currentSize' = currentSize - 1
       \/ /\ currentSize' \in {n - 1 : n \in CountAfter(1)}
          /\ UNCHANGED pool
    /\ mu' = [mu EXCEPT !.pc = "test"]
    /\ UNCHANGED <<vars, memory, loop, stop, hand, written>>

ShrinkEnd ==
    /\ mu.pc = "test"
    /\ currentSize <= mu.target
    /\ mu' = Free
    /\ hand' = [c \in Clients |-> IF mu.by = c THEN Empty ELSE hand[c]]
    /\ UNCHANGED <<vars, memory, pool, currentSize, loop, stop, written>>

LoopStop ==
    /\ loop = "running"
    /\ stop
    /\ mu # Free => mu.by # Loop
    /\ loop' = "done"
    /\ UNCHANGED <<vars, memory, pool, currentSize, mu, stop, hand, written>>

\* close(pc.stop); a second Close panics and is not made here.  The cache
\* below stays open.
PoolCloseCall(c) ==
    /\ "close" \in PoolOps
    /\ ~stop
    /\ hand[c] = Empty
    /\ op[c] = Idle /\ calls[c] > 0
    /\ calls' = [calls EXCEPT ![c] = @ - 1]
    /\ stop' = TRUE
    /\ Grasp(c, [pc |-> "close"])
    /\ UNCHANGED <<sharedVars, sweep, clock, op, result, truth,
                   memory, pool, currentSize, mu, loop, written>>

\* cleanupLoop has ended, or a second has gone by.
PoolCloseReturn(c) ==
    /\ hand[c].pc = "close"
    /\ Grasp(c, Empty)
    /\ UNCHANGED <<vars, memory, pool, currentSize, mu, loop, stop, written>>

-----------------------------------------------------------------------------
PooledProceed(c) ==
    \/ SetWrite(c) \/ SetStore(c) \/ PooledSetCommit(c)
    \/ PooledGetHit(c) \/ PooledGetMiss(c) \/ GetRead(c)
    \/ PooledDeleteCommit(c) \/ PooledClearCommit(c)
    \/ PoolCloseReturn(c)

PooledBegin(c) ==
    \/ SetTake(c) \/ PooledGetBegin(c) \/ RemovalBegin(c)
    \/ ResetPoolStats(c) \/ CleanupCall(c) \/ PoolCloseCall(c)

ShrinkStep == ShrinkMore \/ ShrinkRemove \/ ShrinkEnd

PooledFinished ==
    /\ \A c \in Clients : hand[c] = Empty /\ op[c] = Idle /\ calls[c] = 0
    /\ UNCHANGED pooledVars

PooledNext ==
    \/ \E c \in Clients : PooledBegin(c) \/ PooledProceed(c)
    \/ LoopTick \/ ShrinkStep \/ LoopStop
    \/ PooledFinished

PooledSpec == PooledInit /\ [][PooledNext]_pooledVars

-----------------------------------------------------------------------------
(***************************************************************************)
(* Properties                                                              *)
(***************************************************************************)
Hands ==
    [pc : {"empty", "cleanup", "close"}]
    \cup [pc : {"write", "store", "set"}, ptr : Values, data : Data]
    \cup [pc : {"read"}, ptr : Values, want : Data]

\* The type invariant.  The pool holds pointers to objects, never nil.  A
\* ResetPoolStats between the test and the count of a Cleanup leaves the
\* counter at -1, and nothing takes it lower.
PooledTypeOK ==
    /\ memory \in [Values -> Data \cup {Zero}]
    /\ IsABag(pool) /\ BagToSet(pool) \subseteq Values
    /\ currentSize \in Int /\ currentSize >= -1
    /\ mu \in {Free} \cup [pc : {"test", "remove"}, by : Clients \cup {Loop},
                           target : Nat]
    /\ loop \in {"running", "done"}
    /\ stop \in BOOLEAN
    /\ hand \in [Clients -> Hands]
    /\ written \in [Keys -> Data \cup {Zero}]

\* How often p is in the pool.
Copies(p) == IF BagIn(p, pool) THEN pool[p] ELSE 0

\* How many own p, that is, may write through it or hand it on: the pool, as
\* often as p is in it, the keys of the cache, and the Sets under way.
Owners(p) ==
    Copies(p)
    + Cardinality({k \in Keys : heap[cur][k].value = p})
    + Cardinality({c \in Clients : /\ hand[c].pc \in {"write", "store", "set"}
                                   /\ hand[c].ptr = p})

\* As long as nothing is evicted, a pointer has one owner: it is in the pool
\* once, or in the cache under one key, or in one Set.
OneOwner == \A p \in Values : Owners(p) <= 1

\* What the pointer of a key points to is what the last Set of the key wrote,
\* whatever has been deleted and set since, as long as nothing is evicted.
ValuesIntact ==
    \A k \in Present(heap[cur]) : memory[heap[cur][k].value] = written[k]

\* Get returns what the key was last set to, at the moment of the lookup.
GetReturnsWhatWasSet ==
    \A c \in Clients :
        hand[c].pc = "read" => memory[hand[c].ptr] = hand[c].want

\* Every turn of a Cleanup's loop lowers the counter by one, though the pool
\* may make a new object in it, so the loop ends; and none lowers it below
\* MinSize, though clients and cleanupLoop may ask for a Cleanup at once,
\* unless ResetPoolStats has just set it to zero.
ShrinkAdvances ==
    [][mu.pc = "remove" /\ mu' # mu =>
          /\ currentSize' = currentSize - 1
          /\ currentSize' >= PoolMinSize \/ currentSize = 0]_pooledVars
=============================================================================
