------------------------- MODULE PooledCacheProofs -------------------------
(***************************************************************************)
(* The object pool, for every set of keys, clients, pointers and values.   *)
(* Whatever clients, cleanupLoop and Cleanups do, it stays well typed and  *)
(* a Cleanup makes progress; and as long as nothing is evicted a pointer   *)
(* has one owner, so what a key was set to is what its pointer points to.  *)
(***************************************************************************)
EXTENDS MCWrappers, CacheProofs

\* c has a pointer that it is going to store.
Setting(c) == hand[c].pc \in {"write", "store", "set"}

\* A call's part in pool.go and its part in cache.go fit together.
Fit(h, o) ==
    /\ h.pc = "set" => o.pc = "setCommit" /\ o.entry.value = h.ptr
    /\ o.pc = "setCommit" => h.pc = "set"
    /\ h.pc \in {"write", "store", "read", "cleanup", "close"} => o = Idle

Handed == \A c \in Clients : Fit(hand[c], op[c])

\* The Cleanup that holds the try-lock: a client that waits for it, if it is
\* not that of cleanupLoop, and a target that is not passed by.
Shrinking ==
    mu # Free =>
       /\ mu.by # Loop => hand[mu.by].pc = "cleanup"
       /\ mu.target >= PoolMinSize
       /\ mu.pc = "remove" => currentSize > mu.target \/ currentSize = 0

\* What a key in the cache was set to is a value of the users.
Written == \A k \in Present(heap[cur]) : written[k] \in Data

PoolInv == CacheInv /\ ~closed /\ PooledTypeOK /\ Handed /\ Shrinking /\ Written

-----------------------------------------------------------------------------
(***************************************************************************)
(* Bags.                                                                   *)
(***************************************************************************)
LEMMA EmptyBagFacts == IsABag(EmptyBag) /\ BagToSet(EmptyBag) = {}
BY DEF EmptyBag, SetToBag, IsABag, BagToSet

LEMMA SetToBagFacts ==
    ASSUME NEW S
    PROVE  /\ IsABag(SetToBag(S)) /\ BagToSet(SetToBag(S)) = S
           /\ \A e \in S : SetToBag(S)[e] = 1
BY DEF SetToBag, IsABag, BagToSet

LEMMA BagUnionFacts ==
    ASSUME NEW a, NEW b, IsABag(a), IsABag(b)
    PROVE  /\ IsABag(a (+) b)
           /\ BagToSet(a (+) b) = BagToSet(a) \cup BagToSet(b)
           /\ \A e \in BagToSet(a) \ BagToSet(b) : (a (+) b)[e] = a[e]
           /\ \A e \in BagToSet(b) \ BagToSet(a) : (a (+) b)[e] = b[e]
BY DEF IsABag, BagToSet, (+)

LEMMA TakenFacts ==
    ASSUME NEW b, IsABag(b), NEW p
    PROVE  LET r == b (-) SetToBag({p})
           IN  /\ IsABag(r)
               /\ BagToSet(r) \subseteq BagToSet(b)
               /\ \A e \in BagToSet(r) \ {p} : r[e] = b[e]
               /\ p \in BagToSet(b) /\ b[p] = 1 => p \notin BagToSet(r)
BY DEF IsABag, BagToSet, SetToBag, (-)

-----------------------------------------------------------------------------
(***************************************************************************)
(* The cache below is used as its own clients use it.                      *)
(***************************************************************************)
LEMMA OneCallLess ==
    ASSUME CacheInv, NEW c \in Clients, calls' = [calls EXCEPT ![c] = @ - 1],
           calls[c] > 0,
           UNCHANGED <<sharedVars, sweep, clock, op, result, truth>>
    PROVE  CacheInv'
<1>1. CallsOK'
  BY DEF CacheInv, CallsOK
<1> QED BY <1>1, OnlyCalls

LEMMA PooledCacheInv == CacheInv /\ [PooledNext]_pooledVars => CacheInv'
<1> SUFFICES ASSUME CacheInv, [PooledNext]_pooledVars PROVE CacheInv'
  OBVIOUS
<1>1. ASSUME NEW c \in Clients, PooledBegin(c) PROVE CacheInv'
  <2>1. CASE SetTake(c)
    BY <2>1, InvNext DEF SetTake
  <2>2. CASE PooledGetBegin(c)
    BY <2>2, InvGetBegin DEF PooledGetBegin
  <2>3. CASE RemovalBegin(c)
    BY <2>3, InvDeleteBegin, InvClearBegin DEF RemovalBegin
  <2>4. CASE ResetPoolStats(c)
    BY <2>4, OneCallLess DEF ResetPoolStats
  <2>5. CASE CleanupCall(c)
    BY <2>5, OneCallLess DEF CleanupCall
  <2>6. CASE PoolCloseCall(c)
    BY <2>6, OneCallLess DEF PoolCloseCall
  <2> QED BY <1>1, <2>1, <2>2, <2>3, <2>4, <2>5, <2>6 DEF PooledBegin
<1>2. ASSUME NEW c \in Clients, PooledProceed(c) PROVE CacheInv'
  <2>1. CASE SetWrite(c) \/ GetRead(c) \/ PoolCloseReturn(c)
    BY <2>1, InvNext DEF SetWrite, GetRead, PoolCloseReturn
  <2>2. CASE SetStore(c)
    BY <2>2, InvSetBegin DEF SetStore
  <2>3. CASE PooledSetCommit(c)
    BY <2>3, InvSetCommit DEF PooledSetCommit
  <2>4. CASE PooledGetHit(c)
    BY <2>4, InvGetHit DEF PooledGetHit
  <2>5. CASE PooledGetMiss(c)
    BY <2>5, InvGetFinds, InvGetMiss DEF PooledGetMiss
  <2>6. CASE PooledDeleteCommit(c)
    BY <2>6, InvDeleteCommit DEF PooledDeleteCommit
  <2>7. CASE PooledClearCommit(c)
    BY <2>7, InvClearCommit DEF PooledClearCommit
  <2> QED BY <1>2, <2>1, <2>2, <2>3, <2>4, <2>5, <2>6, <2>7 DEF PooledProceed
<1>3. CASE LoopTick \/ ShrinkStep \/ LoopStop \/ PooledFinished
           \/ UNCHANGED pooledVars
  <2>1. UNCHANGED vars
    BY <1>3 DEF LoopTick, ShrinkStep, ShrinkMore, ShrinkRemove, ShrinkEnd,
                LoopStop, PooledFinished, pooledVars
  <2> QED BY <2>1, InvNext
<1> QED BY <1>1, <1>2, <1>3 DEF PooledNext

-----------------------------------------------------------------------------
(***************************************************************************)
(* PoolInv is inductive.  The parts of it that most steps keep come first. *)
(***************************************************************************)
LEMMA HandFields ==
    ASSUME NEW h \in Hands
    PROVE  /\ h.pc \in {"write", "store", "set"} =>
                 /\ h.ptr \in Values /\ h.data \in Data
                 /\ "ptr" \in DOMAIN h
           /\ h.pc = "read" => h.ptr \in Values
           /\ h.pc = "empty" => h = Empty
BY DEF Hands, Empty

LEMMA CountAfterFacts ==
    ASSUME PooledTypeOK, NEW n, NEW m \in CountAfter(n)
    PROVE  /\ m \in Int /\ m >= -1
           /\ mu # Free => m = currentSize
BY DEF PooledTypeOK, CountAfter

LEMMA HandedKept ==
    ASSUME PoolInv, NEW c \in Clients, NEW h, NEW o, Fit(h, o),
           hand' = [hand EXCEPT ![c] = h], op' = [op EXCEPT ![c] = o]
    PROVE  Handed'
BY DEF PoolInv, Handed, PooledTypeOK, CacheInv, CallsOK

LEMMA ShrinkingKept ==
    ASSUME PoolInv, mu' = mu,
           mu # Free => currentSize' = currentSize \/ currentSize' = 0,
           \A c \in Clients : hand[c].pc = "cleanup" => hand'[c].pc = "cleanup"
    PROVE  Shrinking'
<1> SUFFICES ASSUME mu # Free PROVE Shrinking'
  BY DEF Shrinking
<1>1. mu \in [pc : {"test", "remove"}, by : Clients \cup {Loop}, target : Nat]
  BY DEF PoolInv, PooledTypeOK
<1> QED BY <1>1 DEF PoolInv, Shrinking

\* A step that is none of the pool's and leaves the map alone.
LEMMA CallStep ==
    ASSUME PoolInv, CacheInv', NEW c \in Clients, NEW h \in Hands, NEW o,
           Fit(h, o), hand[c].pc # "cleanup",
           hand' = [hand EXCEPT ![c] = h], op' = [op EXCEPT ![c] = o],
           UNCHANGED <<heap, cur, closed>>,
           UNCHANGED <<memory, pool, currentSize, mu, loop, stop, written>>
    PROVE  PoolInv'
<1>1. PooledTypeOK'
  BY DEF PoolInv, PooledTypeOK
<1>2. Shrinking'
  BY ShrinkingKept DEF PoolInv, PooledTypeOK
<1> QED BY <1>1, <1>2, HandedKept DEF PoolInv, Written

\* Its hand stays empty while a call is in the cache alone.
LEMMA CacheStep ==
    ASSUME PoolInv, CacheInv', NEW c \in Clients, NEW o,
           hand[c] = Empty, o.pc # "setCommit", op' = [op EXCEPT ![c] = o],
           UNCHANGED <<heap, cur, closed>>, UNCHANGED poolVars
    PROVE  PoolInv'
<1>1. /\ hand[c] \in Hands /\ Fit(hand[c], o) /\ hand[c].pc # "cleanup"
      /\ hand' = [hand EXCEPT ![c] = hand[c]]
  BY DEF PoolInv, PooledTypeOK, Fit, Empty, poolVars
<1> QED BY <1>1, CallStep DEF poolVars

LEMMA PoolSetTake ==
    ASSUME PoolInv, CacheInv', NEW c \in Clients, SetTake(c)
    PROVE  PoolInv'
<1>1. PICK p \in Values, d \in Data :
         /\ TakePooled(p) \/ TakeNew(p)
         /\ hand' = [hand EXCEPT ![c] = [pc |-> "write", ptr |-> p, data |-> d]]
  BY DEF SetTake, Grasp
<1>2. /\ hand[c] = Empty /\ op[c] = Idle /\ op' = op /\ heap' = heap
      /\ cur' = cur /\ closed' = closed /\ mu' = mu /\ written' = written
      /\ loop' = loop /\ stop' = stop
  BY DEF SetTake, vars
<1>3. /\ IsABag(pool') /\ BagToSet(pool') \subseteq Values
  <2>1. IsABag(pool) /\ BagToSet(pool) \subseteq Values
    BY DEF PoolInv, PooledTypeOK
  <2>2. CASE TakePooled(p)
    BY <2>1, <2>2, TakenFacts DEF TakePooled
  <2>3. CASE TakeNew(p)
    BY <2>1, <2>3 DEF TakeNew
  <2> QED BY <1>1, <2>2, <2>3
<1>4. /\ currentSize' \in Int /\ currentSize' >= -1
      /\ mu # Free => currentSize' = currentSize
  BY <1>1, CountAfterFacts DEF TakePooled, TakeNew, PoolInv, PooledTypeOK
<1>5. memory' \in [Values -> Data \cup {Zero}]
  BY <1>1 DEF TakePooled, TakeNew, PoolInv, PooledTypeOK
<1>6. [pc |-> "write", ptr |-> p, data |-> d] \in Hands
  BY DEF Hands
<1>7. PooledTypeOK'
  BY <1>1, <1>2, <1>3, <1>4, <1>5, <1>6 DEF PoolInv, PooledTypeOK
<1>8. Handed'
  <2>1. Fit([pc |-> "write", ptr |-> p, data |-> d], op[c])
    BY <1>2 DEF Fit, Idle
  <2>2. op' = [op EXCEPT ![c] = op[c]]
    BY <1>2 DEF PoolInv, CacheInv, CallsOK
  <2> QED BY <1>1, <2>1, <2>2, HandedKept
<1>9. Shrinking'
  BY <1>1, <1>2, <1>4, ShrinkingKept DEF PoolInv, PooledTypeOK, Empty
<1> QED BY <1>2, <1>7, <1>8, <1>9 DEF PoolInv, Written

LEMMA PoolSetWrite ==
    ASSUME PoolInv, CacheInv', NEW c \in Clients, SetWrite(c)
    PROVE  PoolInv'
<1> DEFINE h == [hand[c] EXCEPT !.pc = "store"]
<1>1. /\ hand[c].ptr \in Values /\ hand[c].data \in Data /\ h \in Hands
      /\ h.pc = "store" /\ hand[c].pc # "cleanup"
  <2>1. hand[c] \in [pc : {"write", "store", "set"}, ptr : Values, data : Data]
    BY DEF PoolInv, PooledTypeOK, SetWrite, Hands
  <2> QED BY <2>1 DEF Hands, SetWrite
<1>2. op[c] = Idle /\ op' = op
  BY DEF PoolInv, Handed, Fit, SetWrite, vars
<1>3. PooledTypeOK'
  BY <1>1 DEF PoolInv, PooledTypeOK, SetWrite, Grasp
<1>4. Handed'
  <2>1. Fit(h, op[c])
    BY <1>1, <1>2 DEF Fit, Idle
  <2>2. op' = [op EXCEPT ![c] = op[c]]
    BY <1>2 DEF PoolInv, CacheInv, CallsOK
  <2> QED BY <2>1, <2>2, HandedKept DEF SetWrite, Grasp
<1>5. Shrinking'
  BY <1>1, ShrinkingKept DEF PoolInv, PooledTypeOK, SetWrite, Grasp
<1> QED BY <1>3, <1>4, <1>5 DEF PoolInv, Written, SetWrite, vars

\* The cache may turn the call away before it begins.
LEMMA SetBeginCall ==
    ASSUME NEW c \in Clients, SetBegin(c), op \in [Clients -> GoodCalls]
    PROVE  \/ op'[c].pc = "setCommit" /\ op' = [op EXCEPT ![c] = op'[c]]
           \/ op' = op
BY DEF SetBegin, Enter, TurnAway

LEMMA PoolSetStore ==
    ASSUME PoolInv, CacheInv', NEW c \in Clients, SetStore(c)
    PROVE  PoolInv'
<1> DEFINE h == IF op'[c] = Idle THEN Empty ELSE [hand[c] EXCEPT !.pc = "set"]
<1>1. /\ h \in Hands /\ hand[c].pc # "cleanup"
      /\ op'[c] # Idle => h.pc = "set" /\ h.ptr = hand[c].ptr
  <2>1. hand[c] \in [pc : {"write", "store", "set"}, ptr : Values, data : Data]
    BY DEF PoolInv, PooledTypeOK, SetStore, Hands
  <2> QED BY <2>1 DEF Hands, SetStore, Empty
<1>2. op[c] = Idle
  BY DEF PoolInv, Handed, Fit, SetStore
<1>3. SetBegin(c) /\ op \in [Clients -> GoodCalls]
  BY DEF SetStore, PoolInv, CacheInv, CallsOK
<1>4. /\ op'[c] # Idle => op'[c].pc = "setCommit"
      /\ op' = [op EXCEPT ![c] = op'[c]]
  BY <1>2, <1>3, SetBeginCall
<1>5. Fit(h, op'[c])
  BY <1>1, <1>4 DEF Fit, Empty, Idle, SetStore
<1>6. UNCHANGED <<heap, cur, closed>>
  BY <1>3 DEF SetBegin, sharedVars
<1> QED BY <1>1, <1>4, <1>5, <1>6, CallStep DEF SetStore, Grasp

LEMMA PoolSetCommit ==
    ASSUME PoolInv, CacheInv', NEW c \in Clients, PooledSetCommit(c)
    PROVE  PoolInv'
<1> DEFINE k == op[c].key
           e == op[c].entry
<1>1. /\ k \in Keys /\ e \in Entries /\ hand[c].data \in Data
      /\ hand[c].pc = "set" /\ op[c].pc = "setCommit"
  <2>1. op[c].pc = "setCommit" /\ CacheInv /\ ~closed /\ SetCommit(c)
    BY DEF PooledSetCommit, SetCommit, PoolInv
  <2>2. hand[c] \in Hands /\ Fit(hand[c], op[c])
    BY DEF PoolInv, PooledTypeOK, Handed
  <2>3. hand[c].pc = "set"
    BY <2>1, <2>2 DEF Fit
  <2> QED BY <2>1, <2>2, <2>3, SetCommitMap, HandFields
<1>2. op' = [op EXCEPT ![c] = Idle] /\ closed' = closed
  BY DEF PooledSetCommit, SetCommit, Return
<1>3. PICK n \in 0 .. Len(policy.list) :
         heap'[cur'] = [Evicted(heap[cur], n) EXCEPT ![k] = e]
  BY SetCommitMap DEF PooledSetCommit, PoolInv
<1>4. PICK m \in 0 .. Len(policy.list) : PutBack(EventsOfSet(c, m))
  BY DEF PooledSetCommit
<1>5. IsABag(pool') /\ BagToSet(pool') \subseteq Values
  <2>1. Len(policy.list) \in Nat
    BY MapFacts, LenProperties DEF PoolInv, Record
  <2>2. /\ IsABag(EventsOfSet(c, m))
        /\ BagToSet(EventsOfSet(c, m)) \subseteq Values
    BY <1>1, <2>1, EmptyBagFacts DEF EventsOfSet, IsABag, BagToSet, Entries
  <2>3. IsABag(pool) /\ BagToSet(pool) \subseteq Values
    BY DEF PoolInv, PooledTypeOK
  <2> QED BY <1>4, <2>2, <2>3, BagUnionFacts DEF PutBack
<1>6. /\ currentSize' \in Int /\ currentSize' >= -1
      /\ mu # Free => currentSize' = currentSize
  BY <1>4, CountAfterFacts DEF PutBack, PoolInv
<1>7. PooledTypeOK'
  <2>1. Empty \in Hands
    BY DEF Hands, Empty
  <2> QED BY <1>1, <1>5, <1>6, <2>1
          DEF PooledSetCommit, Grasp, PoolInv, PooledTypeOK
<1>8. Handed'
  BY <1>2, HandedKept DEF PooledSetCommit, Grasp, Fit, Empty, Idle
<1>9. Shrinking'
  BY <1>1, <1>6, ShrinkingKept DEF PooledSetCommit, Grasp, PoolInv, PooledTypeOK
<1>10. Written'
  <2>1. written' = [written EXCEPT ![k] = hand[c].data]
    BY DEF PooledSetCommit
  <2>2. ASSUME NEW l \in Keys, l # k, heap'[cur'][l] # NoEntry
        PROVE  l \in Present(heap[cur])
    BY <1>3, <2>2 DEF Evicted, Without, Present
  <2>3. written \in [Keys -> Data \cup {Zero}] /\ Written
    BY DEF PoolInv, PooledTypeOK
  <2>4. ASSUME NEW l \in Present(heap'[cur']) PROVE written'[l] \in Data
    BY <1>1, <2>1, <2>2, <2>3 DEF Present, Written
  <2> QED BY <2>4 DEF Written
<1> QED BY <1>2, <1>7, <1>8, <1>9, <1>10 DEF PoolInv

\* What the callback does with the pointers of a bag b.
LEMMA PutBackFacts ==
    ASSUME PoolInv, NEW b, IsABag(b), BagToSet(b) \subseteq Values,
           pool' = pool (+) b, NEW n, currentSize' \in CountAfter(n)
    PROVE  /\ IsABag(pool') /\ BagToSet(pool') \subseteq Values
           /\ currentSize' \in Int /\ currentSize' >= -1
           /\ mu # Free => currentSize' = currentSize
<1>1. IsABag(pool) /\ BagToSet(pool) \subseteq Values
  BY DEF PoolInv, PooledTypeOK
<1>2. IsABag(pool') /\ BagToSet(pool') \subseteq Values
  BY <1>1, BagUnionFacts
<1> QED BY <1>2, CountAfterFacts DEF PoolInv

\* What Delete and Clear of the cache do to the pool and the map.
LEMMA PoolRemoval ==
    ASSUME PoolInv, CacheInv', NEW c \in Clients,
           op[c].pc \in {"deleteCommit", "clearCommit"},
           op' = [op EXCEPT ![c] = Idle], closed' = closed,
           Present(heap'[cur']) \subseteq Present(heap[cur]),
           IsABag(pool') /\ BagToSet(pool') \subseteq Values,
           currentSize' \in Int /\ currentSize' >= -1,
           mu # Free => currentSize' = currentSize,
           UNCHANGED <<memory, mu, loop, stop, hand, written>>
    PROVE  PoolInv'
<1>3. PooledTypeOK'
  BY DEF PoolInv, PooledTypeOK
<1>4. Handed'
  <2>1. Fit(hand[c], op[c])
    BY DEF PoolInv, Handed
  <2>2. Fit(hand[c], Idle)
    BY <2>1 DEF Fit, Idle
  <2>3. hand' = [hand EXCEPT ![c] = hand[c]]
    BY DEF PoolInv, PooledTypeOK
  <2> QED BY <2>2, <2>3, HandedKept
<1>5. Shrinking'
  BY ShrinkingKept
<1> QED BY <1>3, <1>4, <1>5 DEF PoolInv, Written

\* The events of Delete and Clear put bags of pointers into the pool.
LEMMA RemovalBags ==
    ASSUME CacheInv, NEW c \in Clients, op[c].key \in Keys
    PROVE  /\ IsABag(EventsOfDelete(c))
           /\ BagToSet(EventsOfDelete(c)) =
                 {heap[cur][op[c].key].value} \ {NoValue}
           /\ \A p \in BagToSet(EventsOfDelete(c)) : EventsOfDelete(c)[p] = 1
           /\ BagToSet(EventsOfDelete(c)) \subseteq Values
<1>1. heap[cur][op[c].key] \in Entries \cup {NoEntry}
  BY MapFacts DEF Contents
<1>2. {heap[cur][op[c].key].value} \ {NoValue} \subseteq Values
  BY <1>1 DEF Entries, NoEntry
<1> QED BY <1>2, SetToBagFacts DEF EventsOfDelete

LEMMA ClearBags ==
    ASSUME CacheInv
    PROVE  /\ IsABag(EventsOfClear)
           /\ BagToSet(EventsOfClear) =
                 {heap[cur][k].value : k \in Present(heap[cur])}
           /\ BagToSet(EventsOfClear) \subseteq Values
           /\ \A p \in BagToSet(EventsOfClear) : EventsOfClear[p] =
                 Cardinality({k \in Keys : heap[cur][k].value = p})
<1> DEFINE ptrs == {heap[cur][k].value : k \in Present(heap[cur])}
           keys(p) == {k \in Keys : heap[cur][k].value = p}
<1>1. EventsOfClear = [p \in ptrs |-> Cardinality(keys(p))]
  BY DEF EventsOfClear
<1>2. ASSUME NEW p \in ptrs
      PROVE  Cardinality(keys(p)) \in Nat /\ Cardinality(keys(p)) > 0
  <2>1. keys(p) # {}
    BY DEF Present
  <2>2. IsFiniteSet(keys(p))
    BY FS_Subset, CacheAssumption
  <2> HIDE DEF keys
  <2> QED BY <2>1, <2>2, FS_EmptySet, FS_CardinalityType
<1>3. ptrs \subseteq Values
  BY MapFacts DEF Present, Contents, Entries
<1> HIDE DEF keys
<1>4. /\ IsABag(EventsOfClear) /\ BagToSet(EventsOfClear) = ptrs
      /\ \A p \in ptrs : EventsOfClear[p] = Cardinality(keys(p))
  BY <1>1, <1>2 DEF IsABag, BagToSet
<1> QED BY <1>3, <1>4 DEF keys

LEMMA PoolDeleteCommit ==
    ASSUME PoolInv, CacheInv', NEW c \in Clients, PooledDeleteCommit(c)
    PROVE  PoolInv'
<1>1. /\ CacheInv /\ DeleteCommit(c)
      /\ op[c].pc \in {"deleteCommit", "clearCommit"}
      /\ op' = [op EXCEPT ![c] = Idle] /\ closed' = closed
  BY DEF PooledDeleteCommit, DeleteCommit, Return, PoolInv
<1>2. op[c].key \in Keys /\ heap'[cur'] = Without(heap[cur], {op[c].key})
  BY <1>1, DeleteCommitMap
<1>3. Present(heap'[cur']) \subseteq Present(heap[cur])
  BY <1>1, <1>2, MapFacts, WithoutGood
<1>4. /\ pool' = pool (+) EventsOfDelete(c)
      /\ currentSize' \in CountAfter(BagCardinality(EventsOfDelete(c)))
      /\ UNCHANGED <<memory, mu, loop, stop, hand, written>>
  BY DEF PooledDeleteCommit, PutBack
<1>5. IsABag(EventsOfDelete(c)) /\ BagToSet(EventsOfDelete(c)) \subseteq Values
  BY <1>1, <1>2, RemovalBags
<1>6. /\ IsABag(pool') /\ BagToSet(pool') \subseteq Values
      /\ currentSize' \in Int /\ currentSize' >= -1
      /\ mu # Free => currentSize' = currentSize
  BY <1>4, <1>5, PutBackFacts
<1> QED BY <1>1, <1>3, <1>4, <1>6, PoolRemoval

LEMMA PoolClearCommit ==
    ASSUME PoolInv, CacheInv', NEW c \in Clients, PooledClearCommit(c)
    PROVE  PoolInv'
<1>1. /\ CacheInv /\ ClearCommit(c)
      /\ op[c].pc \in {"deleteCommit", "clearCommit"}
      /\ op' = [op EXCEPT ![c] = Idle] /\ closed' = closed
  BY DEF PooledClearCommit, ClearCommit, Return, PoolInv
<1>2. Present(heap'[cur']) \subseteq Present(heap[cur])
  BY <1>1, EmptyingMap DEF Present, NoItems
<1>3. /\ pool' = pool (+) EventsOfClear
      /\ currentSize' \in CountAfter(BagCardinality(EventsOfClear))
      /\ UNCHANGED <<memory, mu, loop, stop, hand, written>>
  BY DEF PooledClearCommit, PutBack
<1>4. IsABag(EventsOfClear) /\ BagToSet(EventsOfClear) \subseteq Values
  BY <1>1, ClearBags
<1>5. /\ IsABag(pool') /\ BagToSet(pool') \subseteq Values
      /\ currentSize' \in Int /\ currentSize' >= -1
      /\ mu # Free => currentSize' = currentSize
  BY <1>3, <1>4, PutBackFacts
<1> QED BY <1>1, <1>2, <1>3, <1>5, PoolRemoval

\* The calls that begin in the cache, and those that find nothing in it.
LEMMA PoolCacheCalls ==
    ASSUME PoolInv, CacheInv', NEW c \in Clients,
           PooledGetBegin(c) \/ RemovalBegin(c) \/ PooledGetMiss(c)
    PROVE  PoolInv'
<1>1. op \in [Clients -> GoodCalls] /\ Fit(hand[c], op[c]) /\ hand[c] \in Hands
  BY DEF PoolInv, CacheInv, CallsOK, Handed, PooledTypeOK
<1>2. /\ hand[c] = Empty
      /\ UNCHANGED <<heap, cur, closed>> /\ UNCHANGED poolVars
  <2>1. CASE PooledGetBegin(c)
    BY <2>1 DEF PooledGetBegin, GetBegin, sharedVars
  <2>2. CASE RemovalBegin(c)
    BY <2>2 DEF RemovalBegin, DeleteBegin, ClearBegin, sharedVars
  <2>3. CASE PooledGetMiss(c)
    BY <1>1, <2>3, HandFields
       DEF PooledGetMiss, GetFindsNothing, GetMiss, sharedVars, Fit, Idle, Hands
  <2> QED BY <2>1, <2>2, <2>3
<1>3. \E o : o.pc # "setCommit" /\ op' = [op EXCEPT ![c] = o]
  <2>1. CASE PooledGetBegin(c)
    <3>1. PICK k \in Keys : op' = [op EXCEPT ![c] = [pc |-> "getLookup", key |-> k]]
      BY <2>1 DEF PooledGetBegin, GetBegin, Enter
    <3> QED BY <3>1
  <2>2. CASE RemovalBegin(c)
    <3>1. CASE DeleteBegin(c)
      <4>1. PICK k \in Keys :
               op' = [op EXCEPT ![c] = [pc |-> "deleteCommit", key |-> k]]
        BY <3>1 DEF DeleteBegin, Enter
      <4> QED BY <4>1
    <3>2. CASE ClearBegin(c)
      BY <3>2 DEF ClearBegin, Enter
    <3> QED BY <2>2, <3>1, <3>2 DEF RemovalBegin
  <2>3. CASE PooledGetMiss(c)
    <3>1. \/ op' = [op EXCEPT ![c] = Idle]
          \/ op' = [op EXCEPT ![c] = [pc |-> "getStore", key |-> op[c].key]]
      BY <2>3 DEF PooledGetMiss, GetFindsNothing, GetMiss, Return, Continue
    <3> QED BY <3>1 DEF Idle
  <2> QED BY <2>1, <2>2, <2>3
<1> QED BY <1>2, <1>3, CacheStep

LEMMA PoolGetHit ==
    ASSUME PoolInv, CacheInv', NEW c \in Clients, PooledGetHit(c)
    PROVE  PoolInv'
<1> DEFINE k == op[c].key
           h == [pc |-> "read", ptr |-> result'[c], want |-> written[k]]
<1>1. /\ op[c] \in GoodCalls /\ op[c].pc = "getLookup" /\ Fit(hand[c], op[c])
      /\ result \in [Clients -> Results] /\ hand[c] \in Hands
  BY DEF PoolInv, CacheInv, CallsOK, Handed, PooledTypeOK, PooledGetHit, GetHit
<1>2. hand[c].pc # "cleanup"
  BY <1>1 DEF Fit, Idle
<1>3. k \in Keys
  BY <1>1 DEF GoodCalls, Calls
<1>4. heap[cur][k] # NoEntry /\ result'[c] = heap[cur][k].value
  BY <1>1 DEF PoolInv, PooledGetHit, GetHit, Return, Items
<1>5. result'[c] \in Values /\ written[k] \in Data
  BY <1>3, <1>4, MapFacts DEF PoolInv, Written, Present, Contents, Entries
<1>6. h \in Hands
  BY <1>5 DEF Hands
<1>7. Fit(h, Idle)
  BY DEF Fit, Idle
<1>8. /\ hand' = [hand EXCEPT ![c] = h] /\ op' = [op EXCEPT ![c] = Idle]
      /\ UNCHANGED <<heap, cur, closed>>
      /\ UNCHANGED <<memory, pool, currentSize, mu, loop, stop, written>>
  BY DEF PooledGetHit, GetHit, Grasp, Return
<1> HIDE DEF h
<1> QED BY <1>2, <1>6, <1>7, <1>8, CallStep

LEMMA PoolReturn ==
    ASSUME PoolInv, CacheInv', NEW c \in Clients,
           GetRead(c) \/ PoolCloseReturn(c)
    PROVE  PoolInv'
<1>1. hand[c].pc \in {"read", "close"} /\ Fit(hand[c], op[c])
  BY DEF PoolInv, Handed, GetRead, PoolCloseReturn
<1>2. op' = [op EXCEPT ![c] = Idle]
  BY <1>1 DEF Fit, GetRead, PoolCloseReturn, vars, PoolInv, CacheInv, CallsOK
<1>3. Empty \in Hands /\ Fit(Empty, Idle)
  BY DEF Empty, Hands, Fit, Idle
<1> QED BY <1>1, <1>2, <1>3, CallStep
        DEF GetRead, PoolCloseReturn, Grasp, vars, sharedVars

\* The steps of the pool's own functions: the cache and the map stay.
LEMMA PoolStep ==
    ASSUME PoolInv, CacheInv', PooledTypeOK', Shrinking',
           \A c \in Clients : Fit(hand'[c], op[c]),
           UNCHANGED <<heap, cur, closed, op, written>>
    PROVE  PoolInv'
BY DEF PoolInv, Handed, Written

LEMMA PoolResetStats ==
    ASSUME PoolInv, CacheInv', NEW c \in Clients, ResetPoolStats(c)
    PROVE  PoolInv'
<1>1. UNCHANGED <<heap, cur, closed, op, written, hand>>
  BY DEF ResetPoolStats, sharedVars
<1>2. PooledTypeOK'
  BY DEF ResetPoolStats, PoolInv, PooledTypeOK
<1>3. Shrinking'
  BY <1>1, ShrinkingKept DEF ResetPoolStats
<1>4. \A d \in Clients : Fit(hand'[d], op[d])
  BY <1>1 DEF PoolInv, Handed
<1> QED BY <1>1, <1>2, <1>3, <1>4, PoolStep

\* A Cleanup that has the lock aims at a number of objects.
LEMMA ShrinkTargetFacts ==
    ASSUME PooledTypeOK, currentSize > PoolMaxSize
    PROVE  ShrinkTarget \in Nat /\ ShrinkTarget >= PoolMinSize
<1>1. currentSize \in Nat /\ ShrinkPercent \in Nat /\ PoolMinSize \in Nat
  BY PoolAssumption DEF PooledTypeOK
<1>2. (currentSize * ShrinkPercent) \div 100 \in Nat
  <2>1. currentSize * ShrinkPercent \in Nat
    BY <1>1
  <2> QED BY <2>1
<1> QED BY <1>1, <1>2 DEF ShrinkTarget

LEMMA PoolCleanupCall ==
    ASSUME PoolInv, CacheInv', NEW c \in Clients, CleanupCall(c)
    PROVE  PoolInv'
<1>1. /\ UNCHANGED <<heap, cur, closed, op, written>>
      /\ op[c] = Idle /\ hand' = [hand EXCEPT ![c] = [pc |-> "cleanup"]]
      /\ mu' = [pc |-> "test", by |-> c, target |-> ShrinkTarget]
      /\ hand \in [Clients -> Hands]
  BY DEF CleanupCall, sharedVars, Shrink, Grasp, PoolInv, PooledTypeOK
<1>2. ShrinkTarget \in Nat /\ ShrinkTarget >= PoolMinSize
  BY ShrinkTargetFacts DEF CleanupCall, Shrink, PoolInv
<1>3. PooledTypeOK'
  <2>1. [pc |-> "cleanup"] \in Hands
    BY DEF Hands
  <2> QED BY <1>1, <1>2, <2>1 DEF CleanupCall, PoolInv, PooledTypeOK
<1>4. Shrinking'
  BY <1>1, <1>2 DEF Shrinking
<1>5. \A d \in Clients : Fit(hand'[d], op[d])
  BY <1>1 DEF PoolInv, Handed, Fit, Idle
<1> QED BY <1>1, <1>3, <1>4, <1>5, PoolStep

LEMMA PoolLoopTick ==
    ASSUME PoolInv, CacheInv', LoopTick
    PROVE  PoolInv'
<1>1. /\ UNCHANGED <<heap, cur, closed, op, written, hand>>
      /\ mu' = [pc |-> "test", by |-> Loop, target |-> ShrinkTarget]
  BY DEF LoopTick, Shrink, vars
<1>2. ShrinkTarget \in Nat /\ ShrinkTarget >= PoolMinSize
  BY ShrinkTargetFacts DEF LoopTick, Shrink, PoolInv
<1>3. PooledTypeOK'
  BY <1>1, <1>2 DEF LoopTick, PoolInv, PooledTypeOK
<1>4. Shrinking'
  BY <1>1, <1>2 DEF Shrinking
<1>5. \A d \in Clients : Fit(hand'[d], op[d])
  BY <1>1 DEF PoolInv, Handed
<1> QED BY <1>1, <1>3, <1>4, <1>5, PoolStep

\* What is known of the Cleanup that is under way.
LEMMA ShrinkingFacts ==
    ASSUME PoolInv, mu.pc \in {"test", "remove"}
    PROVE  /\ mu \in [pc : {"test", "remove"}, by : Clients \cup {Loop},
                      target : Nat]
           /\ mu # Free
           /\ mu.by # Loop => hand[mu.by].pc = "cleanup"
           /\ mu.target >= PoolMinSize
           /\ mu.pc = "remove" => currentSize > mu.target \/ currentSize = 0
<1>1. mu # Free
  BY DEF Free
<1> QED BY <1>1 DEF PoolInv, PooledTypeOK, Shrinking

LEMMA PoolShrinkMore ==
    ASSUME PoolInv, CacheInv', ShrinkMore
    PROVE  PoolInv'
<1>1. /\ UNCHANGED <<heap, cur, closed, op, written, hand, currentSize>>
      /\ mu.pc = "test" /\ mu' = [mu EXCEPT !.pc = "remove"]
      /\ currentSize > mu.target
  BY DEF ShrinkMore, vars
<1>2. PooledTypeOK'
  BY <1>1, ShrinkingFacts DEF ShrinkMore, PoolInv, PooledTypeOK
<1>3. Shrinking'
  BY <1>1, ShrinkingFacts DEF Shrinking
<1>4. \A d \in Clients : Fit(hand'[d], op[d])
  BY <1>1 DEF PoolInv, Handed
<1> QED BY <1>1, <1>2, <1>3, <1>4, PoolStep

LEMMA PoolShrinkRemove ==
    ASSUME PoolInv, CacheInv', ShrinkRemove
    PROVE  /\ PoolInv'
           /\ currentSize' = currentSize - 1
           /\ currentSize' >= PoolMinSize \/ currentSize = 0
<1>1. /\ UNCHANGED <<heap, cur, closed, op, written, hand, memory, loop, stop>>
      /\ mu.pc = "remove" /\ mu' = [mu EXCEPT !.pc = "test"]
      /\ currentSize \in Int /\ IsABag(pool) /\ BagToSet(pool) \subseteq Values
  BY DEF ShrinkRemove, vars, PoolInv, PooledTypeOK
<1>2. currentSize' = currentSize - 1
  BY <1>1, ShrinkingFacts DEF ShrinkRemove, CountAfter
<1>3. currentSize > mu.target \/ currentSize = 0
  BY <1>1, ShrinkingFacts
<1>4. currentSize' >= PoolMinSize \/ currentSize = 0
  BY <1>1, <1>2, <1>3, ShrinkingFacts, PoolAssumption
<1>5. IsABag(pool') /\ BagToSet(pool') \subseteq Values
  BY <1>1, TakenFacts DEF ShrinkRemove
<1>6. PooledTypeOK'
  <2>1. currentSize' \in Int /\ currentSize' >= -1
    BY <1>1, <1>2, <1>4, PoolAssumption
  <2>2. mu' \in [pc : {"test", "remove"}, by : Clients \cup {Loop}, target : Nat]
    BY <1>1, ShrinkingFacts
  <2> QED BY <1>1, <1>5, <2>1, <2>2 DEF PoolInv, PooledTypeOK
<1>7. Shrinking'
  BY <1>1, ShrinkingFacts DEF Shrinking
<1>8. \A d \in Clients : Fit(hand'[d], op[d])
  BY <1>1 DEF PoolInv, Handed
<1> QED BY <1>1, <1>2, <1>4, <1>6, <1>7, <1>8, PoolStep

LEMMA PoolShrinkEnd ==
    ASSUME PoolInv, CacheInv', ShrinkEnd
    PROVE  PoolInv'
<1>1. /\ UNCHANGED <<heap, cur, closed, op, written>>
      /\ mu.pc = "test" /\ mu' = Free
      /\ hand' = [d \in Clients |-> IF mu.by = d THEN Empty ELSE hand[d]]
      /\ hand \in [Clients -> Hands]
  BY DEF ShrinkEnd, vars, PoolInv, PooledTypeOK
<1>2. PooledTypeOK'
  <2>1. Empty \in Hands
    BY DEF Hands, Empty
  <2> QED BY <1>1, <2>1 DEF ShrinkEnd, PoolInv, PooledTypeOK
<1>3. Shrinking'
  BY <1>1 DEF Shrinking
<1>4. ASSUME NEW d \in Clients PROVE Fit(hand'[d], op[d])
  <2>1. Fit(hand[d], op[d])
    BY DEF PoolInv, Handed
  <2>2. CASE mu.by = d
    <3>1. hand[d].pc = "cleanup"
      BY <1>1, <2>2, ShrinkingFacts, PoolAssumption
    <3> QED BY <1>1, <2>1, <2>2, <3>1 DEF Fit, Idle, Empty
  <2>3. CASE mu.by # d
    BY <1>1, <2>1, <2>3
  <2> QED BY <2>2, <2>3
<1> QED BY <1>1, <1>2, <1>3, <1>4, PoolStep

LEMMA PoolClosing ==
    ASSUME PoolInv, CacheInv', LoopStop \/ \E c \in Clients : PoolCloseCall(c)
    PROVE  PoolInv'
<1>1. /\ UNCHANGED <<heap, cur, closed, op, written, memory, pool, currentSize>>
      /\ mu' = mu
  BY DEF LoopStop, PoolCloseCall, sharedVars, vars
<1>2. CASE LoopStop
  <2>1. hand' = hand
    BY <1>2 DEF LoopStop
  <2>2. PooledTypeOK'
    BY <1>1, <1>2, <2>1 DEF LoopStop, PoolInv, PooledTypeOK
  <2>3. Shrinking'
    BY <1>1, <2>1, ShrinkingKept
  <2> QED BY <1>1, <2>1, <2>2, <2>3, PoolStep DEF PoolInv, Handed
<1>3. ASSUME NEW c \in Clients, PoolCloseCall(c) PROVE PoolInv'
  <2>1. /\ hand' = [hand EXCEPT ![c] = [pc |-> "close"]]
        /\ hand \in [Clients -> Hands] /\ hand[c] = Empty /\ op[c] = Idle
        /\ loop' = loop /\ stop' = TRUE
    BY <1>3 DEF PoolCloseCall, Grasp, PoolInv, PooledTypeOK
  <2>2. [pc |-> "close"] \in Hands
    BY DEF Hands
  <2>3. PooledTypeOK'
    BY <1>1, <2>1, <2>2 DEF PoolInv, PooledTypeOK
  <2>4. Shrinking'
    BY <1>1, <2>1, ShrinkingKept DEF Empty
  <2>5. \A d \in Clients : Fit(hand'[d], op[d])
    BY <2>1 DEF PoolInv, Handed, Fit, Idle
  <2> QED BY <1>1, <2>3, <2>4, <2>5, PoolStep
<1> QED BY <1>2, <1>3

LEMMA PoolInvInit == PooledInit => PoolInv
<1> SUFFICES ASSUME PooledInit PROVE PoolInv
  OBVIOUS
<1>1. CacheInv /\ ~closed
  BY InvInit DEF PooledInit, Init
<1>2. PooledTypeOK
  <2>1. Empty \in Hands
    BY DEF Hands, Empty
  <2>2. IsABag(pool) /\ BagToSet(pool) \subseteq Values
    BY EmptyBagFacts DEF PooledInit
  <2>3. stop \in BOOLEAN
    BY DEF PooledInit
  <2>4. currentSize = 0 /\ mu = Free /\ loop = "running"
    BY DEF PooledInit
  <2>5. /\ memory \in [Values -> Data \cup {Zero}] /\ hand \in [Clients -> Hands]
        /\ written \in [Keys -> Data \cup {Zero}]
    BY <2>1 DEF PooledInit
  <2> QED BY <2>2, <2>3, <2>4, <2>5 DEF PooledTypeOK
<1>3. Handed
  BY DEF PooledInit, Init, Handed, Fit, Empty, Idle
<1>4. Shrinking
  BY DEF PooledInit, Shrinking
<1>5. Written
  <2>1. CacheInv /\ heap[cur] = NoItems
    BY <1>1, MapFacts DEF PooledInit, Init
  <2> QED BY <2>1 DEF Written, Present, NoItems
<1> QED BY <1>1, <1>2, <1>3, <1>4, <1>5 DEF PoolInv

LEMMA PoolInvNext == PoolInv /\ [PooledNext]_pooledVars => PoolInv'
<1> SUFFICES ASSUME PoolInv, [PooledNext]_pooledVars PROVE PoolInv'
  OBVIOUS
<1>0. CacheInv'
  BY PooledCacheInv DEF PoolInv
<1>1. ASSUME NEW c \in Clients, PooledBegin(c) PROVE PoolInv'
  BY <1>0, <1>1, PoolSetTake, PoolCacheCalls, PoolResetStats, PoolCleanupCall,
     PoolClosing DEF PooledBegin
<1>2. ASSUME NEW c \in Clients, PooledProceed(c) PROVE PoolInv'
  BY <1>0, <1>2, PoolSetWrite, PoolSetStore, PoolSetCommit, PoolGetHit,
     PoolCacheCalls, PoolReturn, PoolDeleteCommit, PoolClearCommit
     DEF PooledProceed
<1>3. CASE LoopTick \/ ShrinkStep \/ LoopStop
  BY <1>0, <1>3, PoolLoopTick, PoolShrinkMore, PoolShrinkRemove, PoolShrinkEnd,
     PoolClosing DEF ShrinkStep
<1>4. CASE PooledFinished \/ UNCHANGED pooledVars
  <2>1. UNCHANGED pooledVars
    BY <1>4 DEF PooledFinished
  <2> QED BY <1>0, <2>1 DEF pooledVars, poolVars, vars, PoolInv, PooledTypeOK,
                        Handed, Shrinking, Written
<1> QED BY <1>1, <1>2, <1>3, <1>4 DEF PooledNext

THEOREM PoolInvariant == PooledSpec => []PoolInv
<1> QED BY PoolInvInit, PoolInvNext, PTL DEF PooledSpec

\* The pool never holds a nil pointer, its counter is never below -1, and no
\* call is in two places at once, whatever clients and cleanupLoop do.
THEOREM PooledTypeCorrect == PooledSpec => []PooledTypeOK
<1>1. PoolInv => PooledTypeOK
  BY DEF PoolInv
<1> QED BY <1>1, PoolInvariant, PTL

\* A turn of a Cleanup's loop lowers the counter by one, and not below MinSize
\* unless ResetPoolStats has just set it to zero.
THEOREM ShrinkAdvancesHolds == PooledSpec => ShrinkAdvances
<1> DEFINE A == mu.pc = "remove" /\ mu' # mu =>
                  /\ currentSize' = currentSize - 1
                  /\ currentSize' >= PoolMinSize \/ currentSize = 0
<1>1. PoolInv /\ [PooledNext]_pooledVars => [A]_pooledVars
  <2> SUFFICES ASSUME PoolInv, PooledNext, mu.pc = "remove", mu' # mu
               PROVE  /\ currentSize' = currentSize - 1
                      /\ currentSize' >= PoolMinSize \/ currentSize = 0
    OBVIOUS
  <2>1. CASE ShrinkRemove
    BY <2>1, PoolShrinkRemove, PooledCacheInv DEF PoolInv
  <2>2. mu # Free
    BY DEF Free
  <2>3. ~LoopTick /\ ~ShrinkMore /\ ~ShrinkEnd
    BY <2>2 DEF LoopTick, Shrink, ShrinkMore, ShrinkEnd
  <2>4. ~LoopStop /\ ~PooledFinished
    BY DEF LoopStop, PooledFinished, pooledVars, poolVars
  <2>5. ASSUME NEW c \in Clients PROVE ~PooledBegin(c)
    BY <2>2 DEF PooledBegin, SetTake, PooledGetBegin, RemovalBegin,
                ResetPoolStats, CleanupCall, Shrink, PoolCloseCall, poolVars
  <2>6. ASSUME NEW c \in Clients PROVE ~PooledProceed(c)
    BY DEF PooledProceed, SetWrite, SetStore, PooledSetCommit, PooledGetHit,
           PooledGetMiss, GetRead, PooledDeleteCommit, PooledClearCommit,
           PoolCloseReturn, poolVars
  <2> QED BY <2>1, <2>3, <2>4, <2>5, <2>6 DEF PooledNext, ShrinkStep
<1> QED BY <1>1, PoolInvariant, PTL DEF PooledSpec, ShrinkAdvances

-----------------------------------------------------------------------------
(***************************************************************************)
(* One owner.  A cache with MaxSize 0 evicts nothing; Clear is then the    *)
(* only source of Eviction events.                                         *)
(***************************************************************************)
ValueOf(k) == heap[cur][k].value

\* The places where a pointer may be exclude each other: in the pool, once;
\* in the hands of one Set; in the cache, under one key.
Exclusive ==
    /\ \A p \in BagToSet(pool) :
          /\ pool[p] = 1
          /\ \A k \in Present(heap[cur]) : ValueOf(k) # p
          /\ \A c \in Clients : Setting(c) => hand[c].ptr # p
    /\ \A c \in Clients : Setting(c) =>
          /\ \A k \in Present(heap[cur]) : ValueOf(k) # hand[c].ptr
          /\ \A d \in Clients : Setting(d) /\ hand[d].ptr = hand[c].ptr => d = c
    /\ \A k, l \in Present(heap[cur]) : ValueOf(k) = ValueOf(l) => k = l

\* A Set has written its value before it asks the cache.
Copied ==
    \A c \in Clients :
        hand[c].pc \in {"store", "set"} => memory[hand[c].ptr] = hand[c].data

OwnInv == PoolInv /\ Exclusive /\ Copied /\ ValuesIntact

\* A step that allocates nothing, and after which no more Sets are under way.
LEMMA OwnStep ==
    ASSUME OwnInv,
           UNCHANGED memory, UNCHANGED written, heap'[cur'] = heap[cur],
           BagToSet(pool') \subseteq BagToSet(pool),
           \A p \in BagToSet(pool') : pool'[p] = pool[p],
           \A c \in Clients : hand'[c].pc \in {"write", "store", "set"} =>
              /\ hand[c].pc \in {"write", "store", "set"}
              /\ hand'[c].ptr = hand[c].ptr /\ hand'[c].data = hand[c].data
              /\ hand'[c].pc = "write" \/ hand[c].pc # "write"
    PROVE  Exclusive' /\ Copied' /\ ValuesIntact'
<1>1. Exclusive'
  BY DEF OwnInv, Exclusive, Setting, Present, ValueOf
<1>2. Copied'
  BY DEF OwnInv, Copied
<1>3. ValuesIntact'
  BY DEF OwnInv, ValuesIntact, Present
<1> QED BY <1>1, <1>2, <1>3

\* sync.Pool gives an object that nobody else has.
LEMMA OwnSetTake ==
    ASSUME OwnInv, NEW c \in Clients, SetTake(c)
    PROVE  Exclusive' /\ Copied' /\ ValuesIntact'
<1>1. PICK p \in Values, d \in Data :
         /\ TakePooled(p) \/ TakeNew(p)
         /\ hand' = [hand EXCEPT ![c] = [pc |-> "write", ptr |-> p, data |-> d]]
  BY DEF SetTake, Grasp
<1>2. /\ hand[c] = Empty /\ heap' = heap /\ cur' = cur /\ written' = written
      /\ hand \in [Clients -> Hands] /\ IsABag(pool)
  BY DEF SetTake, vars, OwnInv, PoolInv, PooledTypeOK
<1>3. /\ p \notin BagToSet(pool')
      /\ BagToSet(pool') \subseteq BagToSet(pool)
      /\ \A q \in BagToSet(pool') : pool'[q] = pool[q]
      /\ \A k \in Present(heap[cur]) : ValueOf(k) # p
      /\ \A b \in Clients : Setting(b) => hand[b].ptr # p
      /\ \A q : q # p => memory'[q] = memory[q]
  <2>1. CASE TakePooled(p)
    <3>1. p \in BagToSet(pool) /\ pool[p] = 1
      BY <2>1 DEF TakePooled, BagIn, OwnInv, Exclusive, BagToSet
    <3>2. /\ p \notin BagToSet(pool')
          /\ BagToSet(pool') \subseteq BagToSet(pool)
          /\ \A q \in BagToSet(pool') : pool'[q] = pool[q]
      BY <1>2, <2>1, <3>1, TakenFacts DEF TakePooled
    <3> QED BY <2>1, <3>1, <3>2 DEF OwnInv, Exclusive, TakePooled
  <2>2. CASE TakeNew(p)
    <3>1. Unreferenced(p) /\ pool' = pool
      BY <2>2 DEF TakeNew
    <3>2. p \notin BagToSet(pool)
      BY <3>1 DEF Unreferenced, BagIn, BagToSet
    <3>3. \A k \in Present(heap[cur]) : ValueOf(k) # p
      BY <3>1 DEF Unreferenced, InCache, Present, ValueOf
    <3>4. ASSUME NEW b \in Clients, Setting(b) PROVE hand[b].ptr # p
      BY <1>2, <3>1, <3>4, HandFields DEF Setting, Unreferenced, InHand
    <3>5. \A q : q # p => memory'[q] = memory[q]
      BY <2>2 DEF TakeNew, OwnInv, PoolInv, PooledTypeOK
    <3> QED BY <3>1, <3>2, <3>3, <3>4, <3>5
  <2> QED BY <1>1, <2>1, <2>2
<1>4. ASSUME NEW b \in Clients
      PROVE  /\ hand'[b].pc = IF b = c THEN "write" ELSE hand[b].pc
             /\ hand'[b].pc \in {"write", "store", "set"} =>
                   hand'[b].ptr = IF b = c THEN p ELSE hand[b].ptr
             /\ b # c => hand'[b] = hand[b]
  BY <1>1, <1>2
<1>5. Exclusive'
  BY <1>2, <1>3, <1>4 DEF OwnInv, Exclusive, Setting, Present, ValueOf
<1>6. Copied'
  BY <1>2, <1>3, <1>4 DEF OwnInv, Copied, Setting
<1>7. ValuesIntact'
  BY <1>2, <1>3 DEF OwnInv, ValuesIntact, Present, ValueOf
<1> QED BY <1>5, <1>6, <1>7

\* The value is written through a pointer that only this Set has.
LEMMA OwnSetWrite ==
    ASSUME OwnInv, NEW c \in Clients, SetWrite(c)
    PROVE  Exclusive' /\ Copied' /\ ValuesIntact'
<1> DEFINE p == hand[c].ptr
<1>1. /\ hand[c].pc = "write" /\ p \in Values
      /\ hand' = [hand EXCEPT ![c] = [hand[c] EXCEPT !.pc = "store"]]
      /\ hand \in [Clients -> Hands] /\ memory \in [Values -> Data \cup {Zero}]
      /\ memory' = [memory EXCEPT ![p] = hand[c].data]
      /\ UNCHANGED <<heap, cur, pool, written>>
  BY HandFields DEF SetWrite, Grasp, vars, OwnInv, PoolInv, PooledTypeOK
<1>2. hand[c] \in [pc : {"write", "store", "set"}, ptr : Values, data : Data]
  BY <1>1 DEF Hands
<1>3. /\ hand'[c].pc = "store" /\ hand'[c].ptr = p
      /\ hand'[c].data = hand[c].data
      /\ \A b \in Clients : b # c => hand'[b] = hand[b]
  BY <1>1, <1>2
<1>4. /\ \A q : q # p => memory'[q] = memory[q]
      /\ memory'[p] = hand[c].data
  BY <1>1
<1>5. /\ \A k \in Present(heap[cur]) : ValueOf(k) # p
      /\ \A b \in Clients : Setting(b) /\ hand[b].ptr = p => b = c
  BY <1>1 DEF OwnInv, Exclusive, Setting
<1>6. Exclusive'
  BY <1>1, <1>3 DEF OwnInv, Exclusive, Setting, Present, ValueOf
<1>7. Copied'
  BY <1>3, <1>4, <1>5 DEF OwnInv, Copied, Setting
<1>8. ValuesIntact'
  BY <1>1, <1>4, <1>5 DEF OwnInv, ValuesIntact, Present, ValueOf
<1> QED BY <1>6, <1>7, <1>8

\* Nothing has to leave a cache without a bound.
LEMMA NothingEvicted ==
    ASSUME MaxSize = 0, NEW items, NEW n \in Nat, EvictionRounds(items, n)
    PROVE  n = 0
BY DEF EvictionRounds, HasRoom

LEMMA UnboundedSet ==
    ASSUME CacheInv, MaxSize = 0, ~closed, NEW c \in Clients, SetCommit(c)
    PROVE  heap'[cur'] = [heap[cur] EXCEPT ![op[c].key] = op[c].entry]
<1> DEFINE k == op[c].key
           e == op[c].entry
           new(n) == [Evicted(Items, n) EXCEPT ![k] = e]
<1>1. /\ Items = heap[cur] /\ Len(policy.list) \in Nat
      /\ heap[cur] \in Contents /\ heap \in [MapIds -> Contents] /\ cur \in MapIds
  BY MapFacts, LenProperties DEF Items, Record
<1>2. PICK n \in 0 .. Len(policy.list) :
         /\ EvictionRounds(Items, n)
         /\ cur' = cur
         /\ heap' = Collected([heap EXCEPT ![cur'] = new(n)])
  BY DEF SetCommit
<1>3. n = 0
  BY <1>1, <1>2, NothingEvicted
<1>4. new(n) = [heap[cur] EXCEPT ![k] = e]
  <2>1. Victims(policy, n) = {}
    BY <1>1, <1>3 DEF Victims
  <2>2. Evicted(Items, n) = heap[cur]
    BY <1>1, <2>1 DEF Evicted, Without, Contents
  <2> QED BY <2>2
<1>5. heap'[cur'] = new(n)
  <2> HIDE DEF new
  <2> QED BY <1>1, <1>2, MapFacts, InstalledMap
<1> QED BY <1>4, <1>5

\* The pointer goes from the hand of its Set into the cache.
LEMMA OwnSetCommit ==
    ASSUME OwnInv, MaxSize = 0, NEW c \in Clients, PooledSetCommit(c)
    PROVE  Exclusive' /\ Copied' /\ ValuesIntact'
<1> DEFINE k == op[c].key
           e == op[c].entry
           p == hand[c].ptr
<1>1. /\ CacheInv /\ ~closed /\ SetCommit(c) /\ op[c].pc = "setCommit"
      /\ hand[c] \in Hands /\ Fit(hand[c], op[c]) /\ IsABag(pool)
      /\ memory' = memory
      /\ hand' = [hand EXCEPT ![c] = Empty] /\ hand \in [Clients -> Hands]
      /\ written' = [written EXCEPT ![k] = hand[c].data]
      /\ written \in [Keys -> Data \cup {Zero}]
  BY DEF PooledSetCommit, SetCommit, Grasp, OwnInv, PoolInv, PooledTypeOK, Handed
<1>2. k \in Keys /\ e \in Entries /\ heap[cur] \in Contents
  BY <1>1, SetCommitMap, MapFacts
<1>3. /\ hand[c].pc = "set" /\ e.value = p
      /\ Setting(c) /\ memory[p] = hand[c].data
  BY <1>1 DEF Fit, Setting, OwnInv, Copied
<1>4. heap'[cur'] = [heap[cur] EXCEPT ![k] = e]
  BY <1>1, UnboundedSet
<1>5. pool' = pool
  <2>1. PICK n \in 0 .. Len(policy.list) :
           EvictionRounds(Items, n) /\ PutBack(EventsOfSet(c, n))
    BY DEF PooledSetCommit
  <2>2. Len(policy.list) \in Nat
    BY <1>1, MapFacts, LenProperties DEF Record
  <2>3. n = 0
    BY <2>1, <2>2, NothingEvicted
  <2>4. pool' = pool (+) EmptyBag
    BY <2>1, <2>3 DEF PutBack, EventsOfSet
  <2> QED BY <1>1, <2>4, EmptyBagFacts DEF IsABag, BagToSet, (+)
<1>6. ASSUME NEW l \in Present(heap'[cur'])
      PROVE  /\ l \in Keys
             /\ l = k => ValueOf(l)' = p /\ written'[l] = hand[c].data
             /\ l # k => /\ l \in Present(heap[cur]) /\ ValueOf(l)' = ValueOf(l)
                         /\ written'[l] = written[l]
  BY <1>1, <1>2, <1>3, <1>4 DEF Present, ValueOf, Contents
<1>7. ASSUME NEW b \in Clients
      PROVE  IF b = c THEN hand'[b].pc = "empty" ELSE hand'[b] = hand[b]
  BY <1>1 DEF Empty
<1>8. Exclusive'
  <2>1. ASSUME NEW q \in BagToSet(pool')
        PROVE  /\ pool'[q] = 1
               /\ \A l \in Present(heap'[cur']) : ValueOf(l)' # q
               /\ \A b \in Clients : Setting(b)' => hand'[b].ptr # q
    BY <1>3, <1>5, <1>6, <1>7 DEF OwnInv, Exclusive, Setting
  <2>2. ASSUME NEW b \in Clients, Setting(b)'
        PROVE  /\ \A l \in Present(heap'[cur']) : ValueOf(l)' # hand'[b].ptr
               /\ \A d \in Clients :
                     Setting(d)' /\ hand'[d].ptr = hand'[b].ptr => d = b
    <3>1. b # c /\ hand'[b] = hand[b] /\ Setting(b) /\ hand[b].ptr # p
      BY <1>3, <1>7, <2>2 DEF OwnInv, Exclusive, Setting
    <3> QED BY <1>6, <1>7, <3>1 DEF OwnInv, Exclusive, Setting
  <2>3. ASSUME NEW l \in Present(heap'[cur']), NEW m \in Present(heap'[cur']),
               ValueOf(l)' = ValueOf(m)'
        PROVE  l = m
    BY <1>3, <1>6, <2>3 DEF OwnInv, Exclusive
  <2> QED BY <2>1, <2>2, <2>3 DEF Exclusive
<1>9. Copied'
  BY <1>1, <1>7 DEF OwnInv, Copied
<1>10. ValuesIntact'
  <2>1. ASSUME NEW l \in Present(heap'[cur'])
        PROVE  memory'[ValueOf(l)'] = written'[l]
    BY <1>1, <1>3, <1>6 DEF OwnInv, ValuesIntact, ValueOf
  <2> QED BY <2>1 DEF ValuesIntact, ValueOf
<1> QED BY <1>8, <1>9, <1>10

\* What Delete and Clear take out of the map goes into the pool.
LEMMA OwnRemoval ==
    ASSUME OwnInv, NEW b, IsABag(b), pool' = pool (+) b,
           \A k \in Keys : heap'[cur'][k] \in {heap[cur][k], NoEntry},
           BagToSet(b) = {ValueOf(k) : k \in Present(heap[cur])
                                              \ Present(heap'[cur'])},
           \A p \in BagToSet(b) : b[p] = 1,
           UNCHANGED memory, UNCHANGED written, UNCHANGED hand
    PROVE  Exclusive' /\ Copied' /\ ValuesIntact'
<1>1. ASSUME NEW k \in Present(heap'[cur'])
      PROVE  /\ k \in Keys /\ k \in Present(heap[cur])
             /\ heap'[cur'][k] = heap[cur][k] /\ ValueOf(k)' = ValueOf(k)
  BY DEF Present, ValueOf
<1>2. /\ BagToSet(pool') = BagToSet(pool) \cup BagToSet(b)
      /\ \A e \in BagToSet(pool) \ BagToSet(b) : pool'[e] = pool[e]
      /\ \A e \in BagToSet(b) \ BagToSet(pool) : pool'[e] = b[e]
  BY BagUnionFacts DEF OwnInv, PoolInv, PooledTypeOK
<1>3. BagToSet(pool) \cap BagToSet(b) = {}
  BY DEF OwnInv, Exclusive
<1>4. Exclusive'
  <2>1. ASSUME NEW q \in BagToSet(pool')
        PROVE  /\ pool'[q] = 1
               /\ \A k \in Present(heap'[cur']) : ValueOf(k)' # q
               /\ \A c \in Clients : Setting(c)' => hand'[c].ptr # q
    <3>1. CASE q \in BagToSet(pool)
      BY <1>1, <1>2, <1>3, <3>1 DEF OwnInv, Exclusive, Setting
    <3>2. CASE q \in BagToSet(b)
      <4>1. PICK l \in Present(heap[cur]) \ Present(heap'[cur']) : q = ValueOf(l)
        BY <3>2
      <4>2. pool'[q] = 1
        BY <1>2, <1>3, <3>2
      <4>3. \A k \in Present(heap'[cur']) : ValueOf(k)' # q
        BY <1>1, <4>1 DEF OwnInv, Exclusive
      <4> QED BY <4>1, <4>2, <4>3 DEF OwnInv, Exclusive, Setting
    <3> QED BY <1>2, <3>1, <3>2
  <2> QED BY <1>1, <2>1 DEF OwnInv, Exclusive, Setting
<1>5. Copied'
  BY DEF OwnInv, Copied
<1>6. ValuesIntact'
  BY <1>1 DEF OwnInv, ValuesIntact
<1> QED BY <1>4, <1>5, <1>6

LEMMA OwnDelete ==
    ASSUME OwnInv, NEW c \in Clients, PooledDeleteCommit(c)
    PROVE  Exclusive' /\ Copied' /\ ValuesIntact'
<1> DEFINE k == op[c].key
<1>1. /\ CacheInv /\ DeleteCommit(c) /\ pool' = pool (+) EventsOfDelete(c)
      /\ UNCHANGED memory /\ UNCHANGED written /\ UNCHANGED hand
  BY DEF PooledDeleteCommit, PutBack, OwnInv, PoolInv
<1>2. k \in Keys /\ heap'[cur'] = Without(heap[cur], {k})
  BY <1>1, DeleteCommitMap
<1>3. /\ IsABag(EventsOfDelete(c))
      /\ BagToSet(EventsOfDelete(c)) = {ValueOf(k)} \ {NoValue}
      /\ \A p \in BagToSet(EventsOfDelete(c)) : EventsOfDelete(c)[p] = 1
  BY <1>1, <1>2, RemovalBags DEF ValueOf
<1>4. \A l \in Keys : heap'[cur'][l] \in {heap[cur][l], NoEntry}
  BY <1>2, WithoutAt
<1>5. Present(heap'[cur']) = Present(heap[cur]) \ {k}
  BY <1>1, <1>2, MapFacts, WithoutGood
<1>6. ValueOf(k) = NoValue <=> k \notin Present(heap[cur])
  BY <1>1, <1>2, MapFacts, CacheAssumption
     DEF Present, ValueOf, Contents, Entries, NoEntry
<1>7. BagToSet(EventsOfDelete(c)) =
         {ValueOf(l) : l \in Present(heap[cur]) \ Present(heap'[cur'])}
  BY <1>3, <1>5, <1>6
<1> QED BY <1>1, <1>3, <1>4, <1>7, OwnRemoval

LEMMA OwnClear ==
    ASSUME OwnInv, NEW c \in Clients, PooledClearCommit(c)
    PROVE  Exclusive' /\ Copied' /\ ValuesIntact'
<1>1. /\ CacheInv /\ ClearCommit(c) /\ pool' = pool (+) EventsOfClear
      /\ UNCHANGED memory /\ UNCHANGED written /\ UNCHANGED hand
  BY DEF PooledClearCommit, PutBack, OwnInv, PoolInv
<1>2. heap'[cur'] = NoItems
  BY <1>1, EmptyingMap
<1>3. /\ IsABag(EventsOfClear)
      /\ BagToSet(EventsOfClear) = {ValueOf(k) : k \in Present(heap[cur])}
  BY <1>1, ClearBags DEF ValueOf
<1>4. ASSUME NEW p \in BagToSet(EventsOfClear) PROVE EventsOfClear[p] = 1
  <2>1. PICK k \in Present(heap[cur]) : p = ValueOf(k)
    BY <1>3
  <2>2. {l \in Keys : heap[cur][l].value = p} = {k}
    <3>1. ASSUME NEW l \in Keys, heap[cur][l].value = p PROVE l = k
      <4>1. p # NoValue
        BY <1>1, <1>4, ClearBags, CacheAssumption
      <4>2. l \in Present(heap[cur])
        BY <3>1, <4>1 DEF Present, NoEntry
      <4> QED BY <2>1, <3>1, <4>2 DEF OwnInv, Exclusive, ValueOf
    <3> QED BY <2>1, <3>1 DEF Present, ValueOf
  <2>3. EventsOfClear[p] = Cardinality({l \in Keys : heap[cur][l].value = p})
    BY <1>1, ClearBags
  <2> QED BY <2>2, <2>3, FS_Singleton
<1>5. \A k \in Keys : heap'[cur'][k] \in {heap[cur][k], NoEntry}
  BY <1>2 DEF NoItems
<1>6. Present(heap[cur]) \ Present(heap'[cur']) = Present(heap[cur])
  BY <1>2 DEF Present, NoItems
<1> QED BY <1>1, <1>3, <1>4, <1>5, <1>6, OwnRemoval

\* The steps that move no pointer but, perhaps, out of a hand or the pool.
LEMMA OwnOtherBegin ==
    ASSUME OwnInv, NEW c \in Clients,
           \/ PooledGetBegin(c) \/ RemovalBegin(c) \/ ResetPoolStats(c)
           \/ CleanupCall(c) \/ PoolCloseCall(c)
    PROVE  Exclusive' /\ Copied' /\ ValuesIntact'
<1>1. hand \in [Clients -> Hands]
  BY DEF OwnInv, PoolInv, PooledTypeOK
<1>2. UNCHANGED <<memory, written, pool, heap, cur>>
  BY DEF PooledGetBegin, GetBegin, RemovalBegin, DeleteBegin, ClearBegin,
         ResetPoolStats, CleanupCall, PoolCloseCall, poolVars, sharedVars
<1>3. \A b \in Clients : \/ hand'[b] = hand[b]
                        \/ hand'[b].pc \in {"cleanup", "close"}
  <2>1. CASE PooledGetBegin(c) \/ RemovalBegin(c) \/ ResetPoolStats(c)
    BY <2>1 DEF PooledGetBegin, RemovalBegin, ResetPoolStats, poolVars
  <2>2. CASE CleanupCall(c) \/ PoolCloseCall(c)
    BY <1>1, <2>2 DEF CleanupCall, PoolCloseCall, Grasp
  <2> QED BY <2>1, <2>2
<1> QED BY <1>2, <1>3, OwnStep

LEMMA OwnOtherProceed ==
    ASSUME OwnInv, NEW c \in Clients,
           \/ SetStore(c) \/ PooledGetHit(c) \/ PooledGetMiss(c)
           \/ GetRead(c) \/ PoolCloseReturn(c)
    PROVE  Exclusive' /\ Copied' /\ ValuesIntact'
<1>1. hand \in [Clients -> Hands]
  BY DEF OwnInv, PoolInv, PooledTypeOK
<1>2. UNCHANGED <<memory, written, pool, heap, cur>>
  BY DEF SetStore, SetBegin, PooledGetHit, GetHit, PooledGetMiss,
         GetFindsNothing, GetMiss, GetRead, PoolCloseReturn, poolVars,
         sharedVars, vars
<1>3. \A b \in Clients :
         \/ hand'[b] = hand[b]
         \/ hand'[b].pc \in {"empty", "read"}
         \/ hand[b].pc = "store" /\ hand'[b] = [hand[b] EXCEPT !.pc = "set"]
  <2>1. CASE SetStore(c)
    <3>1. \/ hand' = [hand EXCEPT ![c] = Empty]
          \/ /\ hand[c].pc = "store"
             /\ hand' = [hand EXCEPT ![c] = [hand[c] EXCEPT !.pc = "set"]]
      BY <2>1 DEF SetStore, Grasp
    <3> QED BY <1>1, <3>1 DEF Empty
  <2>2. CASE PooledGetHit(c)
    BY <1>1, <2>2 DEF PooledGetHit, Grasp
  <2>3. CASE GetRead(c) \/ PoolCloseReturn(c)
    BY <1>1, <2>3 DEF GetRead, PoolCloseReturn, Grasp, Empty
  <2>4. CASE PooledGetMiss(c)
    BY <2>4 DEF PooledGetMiss, poolVars
  <2> QED BY <2>1, <2>2, <2>3, <2>4
<1>4. ASSUME NEW b \in Clients, hand'[b].pc \in {"write", "store", "set"}
      PROVE  /\ hand[b].pc \in {"write", "store", "set"}
             /\ hand'[b].ptr = hand[b].ptr /\ hand'[b].data = hand[b].data
             /\ hand'[b].pc = "write" \/ hand[b].pc # "write"
  <2>1. CASE hand'[b] = hand[b]
    BY <1>4, <2>1
  <2>2. CASE hand[b].pc = "store" /\ hand'[b] = [hand[b] EXCEPT !.pc = "set"]
    <3>1. hand[b] \in [pc : {"write", "store", "set"}, ptr : Values, data : Data]
      BY <1>1, <2>2 DEF Hands
    <3> QED BY <2>2, <3>1
  <2> QED BY <1>3, <1>4, <2>1, <2>2
<1> QED BY <1>2, <1>4, OwnStep

LEMMA OwnShrink ==
    ASSUME OwnInv, LoopTick \/ ShrinkStep \/ LoopStop \/ UNCHANGED pooledVars
    PROVE  Exclusive' /\ Copied' /\ ValuesIntact'
<1>1. /\ hand \in [Clients -> Hands] /\ IsABag(pool)
  BY DEF OwnInv, PoolInv, PooledTypeOK
<1>2. UNCHANGED <<memory, written, heap, cur>>
  BY DEF LoopTick, ShrinkStep, ShrinkMore, ShrinkRemove, ShrinkEnd, LoopStop,
         pooledVars, poolVars, vars
<1>3. \A c \in Clients : hand'[c] \in {hand[c], Empty}
  BY <1>1 DEF LoopTick, ShrinkStep, ShrinkMore, ShrinkRemove, ShrinkEnd,
              LoopStop, pooledVars, poolVars
<1>4. /\ BagToSet(pool') \subseteq BagToSet(pool)
      /\ \A p \in BagToSet(pool') : pool'[p] = pool[p]
  <2>1. CASE pool' = pool
    BY <2>1
  <2>2. CASE ShrinkRemove /\ pool' # pool
    <3>1. PICK p \in Values : BagIn(p, pool) /\ pool' = pool (-) SetToBag({p})
      BY <2>2 DEF ShrinkRemove
    <3>2. p \in BagToSet(pool) /\ pool[p] = 1
      BY <3>1 DEF BagIn, OwnInv, Exclusive
    <3> QED BY <1>1, <3>1, <3>2, TakenFacts
  <2> QED BY <2>1, <2>2 DEF LoopTick, ShrinkStep, ShrinkMore, ShrinkEnd,
                            LoopStop, pooledVars, poolVars
<1> QED BY <1>2, <1>3, <1>4, OwnStep DEF Empty

LEMMA OwnInvInit == PooledInit => OwnInv
<1> SUFFICES ASSUME PooledInit PROVE OwnInv
  OBVIOUS
<1>1. PoolInv /\ CacheInv
  BY PoolInvInit DEF PoolInv
<1>2. Present(heap[cur]) = {}
  <2>1. heap[cur] = NoItems
    BY <1>1, MapFacts DEF PooledInit, Init
  <2> QED BY <2>1 DEF Present, NoItems
<1>3. BagToSet(pool) = {}
  BY EmptyBagFacts DEF PooledInit
<1>4. \A c \in Clients : hand[c].pc = "empty"
  BY DEF PooledInit, Empty
<1> QED BY <1>1, <1>2, <1>3, <1>4
        DEF OwnInv, Exclusive, Setting, Copied, ValuesIntact

LEMMA OwnInvNext ==
    MaxSize = 0 /\ OwnInv /\ [PooledNext]_pooledVars => OwnInv'
<1> SUFFICES ASSUME MaxSize = 0, OwnInv, [PooledNext]_pooledVars PROVE OwnInv'
  OBVIOUS
<1>0. PoolInv'
  BY PoolInvNext DEF OwnInv
<1>1. ASSUME NEW c \in Clients, PooledBegin(c)
      PROVE  Exclusive' /\ Copied' /\ ValuesIntact'
  BY <1>1, OwnSetTake, OwnOtherBegin DEF PooledBegin
<1>2. ASSUME NEW c \in Clients, PooledProceed(c)
      PROVE  Exclusive' /\ Copied' /\ ValuesIntact'
  BY <1>2, OwnSetWrite, OwnSetCommit, OwnDelete, OwnClear, OwnOtherProceed
     DEF PooledProceed
<1>3. CASE LoopTick \/ ShrinkStep \/ LoopStop \/ UNCHANGED pooledVars
  BY <1>0, <1>3, OwnShrink DEF OwnInv
<1> QED BY <1>0, <1>1, <1>2, <1>3 DEF OwnInv, PooledNext, PooledFinished

THEOREM OwnInvariant == MaxSize = 0 => (PooledSpec => []OwnInv)
<1> SUFFICES ASSUME MaxSize = 0 PROVE PooledSpec => []OwnInv
  OBVIOUS
<1>1. OwnInv /\ [PooledNext]_pooledVars => OwnInv'
  BY OwnInvNext
<1> QED BY <1>1, OwnInvInit, PTL DEF PooledSpec

LEMMA AtMostOne ==
    ASSUME NEW S, \A x, y \in S : x = y
    PROVE  Cardinality(S) \in {0, 1} /\ (S = {} => Cardinality(S) = 0)
<1>1. CASE S = {}
  BY <1>1, FS_EmptySet
<1>2. CASE S # {}
  <2>1. PICK x : S = {x}
    BY <1>2
  <2> QED BY <1>2, <2>1, FS_Singleton
<1> QED BY <1>1, <1>2

\* What Exclusive says, counted.
LEMMA ExclusiveOwners == OwnInv => OneOwner
<1> SUFFICES ASSUME OwnInv, NEW p \in Values PROVE Owners(p) <= 1
  BY DEF OneOwner
<1> DEFINE ks == {k \in Keys : heap[cur][k].value = p}
           cs == {c \in Clients : /\ hand[c].pc \in {"write", "store", "set"}
                                  /\ hand[c].ptr = p}
<1>1. Owners(p) = Copies(p) + Cardinality(ks) + Cardinality(cs)
  BY DEF Owners
<1>2. ks = {k \in Present(heap[cur]) : ValueOf(k) = p}
  BY CacheAssumption DEF Present, NoEntry, ValueOf
<1>3. cs = {c \in Clients : Setting(c) /\ hand[c].ptr = p}
  BY DEF Setting
<1>4. /\ \A k, l \in ks : k = l
      /\ \A c, d \in cs : c = d
      /\ ks # {} => cs = {} /\ p \notin BagToSet(pool)
      /\ cs # {} => p \notin BagToSet(pool)
  BY <1>2, <1>3 DEF OwnInv, Exclusive
<1>5. /\ Copies(p) \in {0, 1}
      /\ p \notin BagToSet(pool) => Copies(p) = 0
  BY DEF Copies, BagIn, BagToSet, OwnInv, Exclusive
<1> HIDE DEF ks, cs
<1> QED BY <1>1, <1>4, <1>5, AtMostOne

\* Without eviction, a pointer is in the pool once, or in the cache under one
\* key, or in the hands of one Set: nobody writes what somebody else reads.
THEOREM OneOwnerHolds == MaxSize = 0 => (PooledSpec => []OneOwner)
<1> SUFFICES ASSUME MaxSize = 0 PROVE PooledSpec => []OneOwner
  OBVIOUS
<1> QED BY OwnInvariant, ExclusiveOwners, PTL

\* Without eviction, the pointer of a key points to what the last Set of the
\* key wrote, whatever has been deleted, cleared and set in the meantime.
THEOREM ValuesIntactHolds == MaxSize = 0 => (PooledSpec => []ValuesIntact)
<1> SUFFICES ASSUME MaxSize = 0 PROVE PooledSpec => []ValuesIntact
  OBVIOUS
<1>1. OwnInv => ValuesIntact
  BY DEF OwnInv
<1> QED BY <1>1, OwnInvariant, PTL

-----------------------------------------------------------------------------
(***************************************************************************)
(* Side by side with the compressing cache, as TLC checks them, each keeps *)
(* what is proved of it alone.                                             *)
(***************************************************************************)
LEMMA WrappersKeepToTheirSpecs == WrappersSpec => PooledSpec /\ C!Spec
<1>1. WrappersInit => PooledInit /\ C!Init
  BY DEF WrappersInit
<1>2. [WrappersNext]_<<chosen, pooledVars, wrapVars, roomVars>>
        => [PooledNext]_pooledVars
  BY DEF WrappersNext
<1>3. [WrappersNext]_<<chosen, pooledVars, wrapVars, roomVars>> => [C!Next]_(C!vars)
  BY DEF WrappersNext, wrapVars, C!vars
<1> QED BY <1>1, <1>2, <1>3, PTL DEF WrappersSpec, PooledSpec, C!Spec

\* The types of the pooled and of the compressing cache, for every set of keys
\* and clients.
THEOREM WrappersTypeOKHolds == WrappersSpec => []WrappersTypeOK
<1>1. PooledSpec => []PooledTypeOK
  BY PooledTypeCorrect
<1>2. C!Spec => []C!CompressionTypeOK
  BY C!TypeCorrect
<1>3. PooledTypeOK /\ C!CompressionTypeOK => WrappersTypeOK
  BY DEF WrappersTypeOK
<1> QED BY <1>1, <1>2, <1>3, WrappersKeepToTheirSpecs, PTL

\* Get of the compressing cache is right exactly if no reason of module
\* Compression applies, for the values and configurations of the run and any
\* keys and clients.
THEOREM RightButForKnownReasonsHolds ==
    WrappersSpec => []RightButForKnownReasons
<1>1. C!Spec => []C!RightButForKnownReasons
  BY C!RightButForKnownReasonsHolds, MCCompressionAssumption
<1> QED BY <1>1, WrappersKeepToTheirSpecs, PTL DEF RightButForKnownReasons
=============================================================================
