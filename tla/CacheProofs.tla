---------------------------- MODULE CacheProofs ----------------------------
(***************************************************************************)
(* The cache, for every set of keys, clients and durations, every size and *)
(* every configuration.  First the invariant: it stays well typed and      *)
(* within MaxSize.  Then what a step may never do: cleanup removes no live *)
(* entry, a Set costs at most one other entry, and only a Get makes the    *)
(* map wrong.  Last what follows while no Get does: the map, the store,    *)
(* the policy and the counter agree, and Set finds room.                   *)
(***************************************************************************)
EXTENDS Cache, LRUListProofs

Fits(items) == MaxSize > 0 => Size(items) <= MaxSize

\* No client asks for an entry that never expires, or it is not granted.
EveryTTLEnds == ZeroTTLMeansNoExpiry => 0 \notin Durations

\* No TTL runs out within the time that the clock covers.
NothingExpires == \A d \in Durations : Validate(d) = "ok" => d >= MaxTime

\* What the TTLs in use make of the expiry time of an entry.
Perishable(e) == /\ EveryTTLEnds => e.expires > 0
                 /\ NothingExpires => e.expires > MaxTime

Good(items) ==
    Fits(items) /\ \A k \in Present(items) : Perishable(items[k])

Heaps == {h \in [MapIds -> Contents] : \A m \in MapIds : Good(h[m])}

GoodCalls == {o \in Calls : o.pc = "setCommit" => Perishable(o.entry)}

MapsOK == heap \in Heaps /\ cur \in MapIds /\ stored \in Contents
                         /\ truth \in Contents

PolicyOK == policy \in Record(Keys) /\ WellFormed(policy)

CallsOK == /\ op \in [Clients -> GoodCalls]
           /\ result \in [Clients -> Results]
           /\ calls \in [Clients -> Nat]

\* The cleanup goroutine compares expiry times with an instant it read before.
SweepOK == /\ clock \in 1 .. MaxTime
           /\ sweep \in Sweeps
           /\ sweep.pc \in {"scan", "remove"} => sweep.now <= clock

FlagsOK == statSize \in Int /\ closed \in BOOLEAN
                            /\ once \in {"new", "running", "done"}

CacheInv == MapsOK /\ PolicyOK /\ CallsOK /\ SweepOK /\ FlagsOK

LEMMA InvImplies == CacheInv => TypeOK /\ SizeBound
BY CacheAssumption DEF CacheInv, MapsOK, PolicyOK, CallsOK, SweepOK, FlagsOK, TypeOK, SizeBound,
       Heaps, Good, Fits, GoodCalls, Record

-----------------------------------------------------------------------------
(***************************************************************************)
(* What the map operations do to the number of entries.                    *)
(***************************************************************************)
LEMMA SizeFacts ==
    ASSUME NEW items
    PROVE  /\ Present(items) \subseteq Keys
           /\ IsFiniteSet(Present(items))
           /\ Size(items) \in Nat
BY CacheAssumption, FS_Subset, FS_CardinalityType DEF Present, Size

LEMMA FewerFit ==
    ASSUME NEW items, NEW rest, Present(rest) \subseteq Present(items)
    PROVE  Size(rest) <= Size(items) /\ (Fits(items) => Fits(rest))
BY SizeFacts, FS_Subset, CacheAssumption DEF Size, Fits

LEMMA NoItemsGood == NoItems \in Contents /\ Good(NoItems)
<1>1. NoItems \in Contents
  BY DEF NoItems, Contents
<1>2. Present(NoItems) = {}
  BY DEF NoItems, Present
<1>3. Fits(NoItems)
  BY <1>2, FS_EmptySet, CacheAssumption DEF Fits, Size
<1> QED BY <1>1, <1>2, <1>3 DEF Good

LEMMA WithoutGood ==
    ASSUME NEW items \in Contents, NEW ks
    PROVE  /\ Without(items, ks) \in Contents
           /\ Present(Without(items, ks)) = Present(items) \ ks
           /\ Good(items) => Good(Without(items, ks))
<1>1. Without(items, ks) \in Contents
  BY DEF Without, Contents
<1>2. Present(Without(items, ks)) = Present(items) \ ks
  BY DEF Without, Present
<1>3. \A k \in Present(Without(items, ks)) : Without(items, ks)[k] = items[k]
  BY DEF Without, Present
<1> QED BY <1>1, <1>2, <1>3, FewerFit DEF Good

\* There is room for one more entry.
LEMMA InsertGood ==
    ASSUME NEW items \in Contents, Good(items), HasRoom(items),
           NEW k \in Keys, NEW e \in Entries, Perishable(e)
    PROVE  [items EXCEPT ![k] = e] \in Contents
           /\ Good([items EXCEPT ![k] = e])
<1> DEFINE new == [items EXCEPT ![k] = e]
<1>1. new \in Contents
  BY DEF Contents
<1>2. Present(new) \subseteq Present(items) \cup {k}
  BY DEF Present, Contents
<1>3. /\ IsFiniteSet(Present(items) \cup {k})
      /\ Cardinality(Present(items) \cup {k}) <= Size(items) + 1
  <2>1. IsFiniteSet(Present(items)) /\ Cardinality(Present(items)) \in Nat
    BY SizeFacts DEF Size
  <2>2. /\ IsFiniteSet(Present(items) \cup {k})
        /\ Cardinality(Present(items) \cup {k}) =
              IF k \in Present(items) THEN Cardinality(Present(items))
              ELSE Cardinality(Present(items)) + 1
    BY <2>1, FS_AddElement
  <2> QED BY <2>1, <2>2 DEF Size
<1>4. Size(new) <= Size(items) + 1
  <2>1. IsFiniteSet(Present(new)) /\ Cardinality(Present(new)) \in Nat
    BY SizeFacts DEF Size
  <2>2. Cardinality(Present(new)) <= Cardinality(Present(items) \cup {k})
    BY <1>2, <1>3, FS_Subset
  <2>3. Cardinality(Present(items) \cup {k}) \in Nat
    BY <1>3, FS_CardinalityType
  <2> QED BY <1>3, <2>1, <2>2, <2>3, SizeFacts DEF Size
<1>5. MaxSize > 0 => Size(items) < MaxSize
  BY CacheAssumption DEF HasRoom
<1>6. Fits(new)
  <2> HIDE DEF new
  <2> QED BY <1>4, <1>5, SizeFacts, CacheAssumption DEF Fits
<1>7. \A j \in Present(new) : Perishable(new[j])
  BY DEF Good, Present, Contents
<1> QED BY <1>1, <1>6, <1>7 DEF Good

LEMMA InstallGood ==
    ASSUME NEW h \in Heaps, NEW m \in MapIds, NEW items \in Contents,
           Good(items)
    PROVE  [h EXCEPT ![m] = items] \in Heaps
BY DEF Heaps

LEMMA CollectedGood ==
    ASSUME NEW h \in Heaps
    PROVE  Collected(h) \in Heaps
BY NoItemsGood DEF Heaps, Collected

LEMMA ItemsGood == MapsOK => Items \in Contents /\ Good(Items)
BY NoItemsGood DEF MapsOK, Items, Heaps

LEMMA FreshIsMap == CanAllocate => Fresh \in MapIds
BY DEF CanAllocate, Fresh

LEMMA EntriesAndNoEntry == Entries \subseteq Entries \cup {NoEntry}
                           /\ \A e \in Entries : e # NoEntry
BY CacheAssumption DEF Entries, NoEntry

LEMMA ExpirationTyped ==
    ASSUME NEW d \in Int, NEW now \in Nat
    PROVE  Normalize(d) \in Nat /\ GetExpirationTime(d, now) \in Nat
BY TTLConfigAssumption DEF Normalize, GetExpirationTime, Never

\* A TTL that is accepted is not clamped.
LEMMA AcceptedTTL ==
    ASSUME NEW d \in Int, Validate(d) = "ok"
    PROVE  /\ Normalize(d) = d /\ d \in Nat
           /\ d = 0 => ZeroTTLMeansNoExpiry
BY TTLConfigAssumption DEF Validate, Normalize

LEMMA ExpirationPerishable ==
    ASSUME NEW d \in Durations, Validate(d) = "ok", NEW v, NEW now \in Nat
    PROVE  now > 0 => Perishable([value |-> v, expires |->
                                    GetExpirationTime(Normalize(d), now)])
<1>1. /\ d \in Int /\ Normalize(d) = d /\ d \in Nat /\ MaxTime \in Nat \ {0}
      /\ d = 0 => ZeroTTLMeansNoExpiry
  BY AcceptedTTL, CacheAssumption
<1>2. d # 0 => GetExpirationTime(Normalize(d), now) = now + d
  BY <1>1 DEF GetExpirationTime
<1>3. CASE d = 0
  BY <1>1, <1>3 DEF Perishable, EveryTTLEnds, NothingExpires
<1>4. CASE d # 0
  BY <1>1, <1>2, <1>4 DEF Perishable, EveryTTLEnds, NothingExpires
<1> QED BY <1>3, <1>4

-----------------------------------------------------------------------------
(***************************************************************************)
(* The steps of a client.                                                  *)
(***************************************************************************)
LEMMA CallFields ==
    ASSUME NEW o \in GoodCalls
    PROVE  /\ o.pc \in {"getLookup", "getStore", "deleteCommit", "getExpire",
                        "setCommit"} => o.key \in Keys
           /\ o.pc = "getExpire" => o.map \in MapIds
           /\ o.pc = "setCommit" => o.ttl \in Int /\ o.entry \in Entries
                                  /\ Perishable(o.entry)
BY DEF Calls, GoodCalls

LEMMA IdleTyped == Idle \in GoodCalls
BY DEF Idle, Calls, GoodCalls

LEMMA TurnAwayTyped ==
    ASSUME CallsOK, NEW c \in Clients, NEW kind, NEW r \in Results,
           TurnAway(c, kind, r)
    PROVE  CallsOK'
BY DEF CallsOK, TurnAway

LEMMA EnterTyped ==
    ASSUME CallsOK, NEW c \in Clients, NEW kind, NEW o \in GoodCalls,
           Enter(c, kind, o)
    PROVE  CallsOK'
BY DEF CallsOK, Enter, Results

LEMMA ReturnTyped ==
    ASSUME CallsOK, NEW c \in Clients, NEW r \in Results, Return(c, r)
    PROVE  CallsOK'
BY IdleTyped DEF CallsOK, Return

LEMMA ContinueTyped ==
    ASSUME CallsOK, NEW c \in Clients, NEW o \in GoodCalls, Continue(c, o)
    PROVE  CallsOK'
BY DEF CallsOK, Continue

-----------------------------------------------------------------------------
(***************************************************************************)
(* Each step of a call keeps CacheInv.                                     *)
(***************************************************************************)
\* A step that touches nothing but the calls needs only their types.
LEMMA OnlyCalls ==
    ASSUME CacheInv, CallsOK',
           UNCHANGED <<sharedVars, sweep, clock, truth>>
    PROVE  CacheInv'
BY DEF CacheInv, MapsOK, PolicyOK, SweepOK, FlagsOK, sharedVars, Heaps

LEMMA InvCallRefused ==
    ASSUME CacheInv, NEW c \in Clients, CallRefused(c)
    PROVE  CacheInv'
<1>1. CallsOK'
  BY TurnAwayTyped DEF CallRefused, CacheInv, Results
<1> QED BY <1>1, OnlyCalls DEF CallRefused

LEMMA InvGetBegin ==
    ASSUME CacheInv, NEW c \in Clients, GetBegin(c)
    PROVE  CacheInv'
<1>1. PICK k \in Keys : Enter(c, "get", [pc |-> "getLookup", key |-> k])
  BY DEF GetBegin
<1>2. [pc |-> "getLookup", key |-> k] \in GoodCalls
  BY DEF Calls, GoodCalls
<1>3. CallsOK'
  BY <1>1, <1>2, EnterTyped DEF CacheInv
<1> QED BY <1>3, OnlyCalls DEF GetBegin

LEMMA InvGetHit ==
    ASSUME CacheInv, NEW c \in Clients, GetHit(c)
    PROVE  CacheInv'
<1>1. op[c] \in GoodCalls /\ op[c].key \in Keys
  BY CallFields DEF CacheInv, CallsOK, GetHit
<1>2. Items[op[c].key] \in Entries
  BY <1>1, ItemsGood DEF GetHit, CacheInv, Contents
<1>3. Items[op[c].key].value \in Results
  BY <1>2 DEF Entries, Results
<1>4. CallsOK'
  BY <1>3, ReturnTyped DEF GetHit, CacheInv
<1>5. PolicyOK'
  BY AfterGetWellFormed DEF GetHit, CacheInv, PolicyOK
<1> QED BY <1>4, <1>5 DEF GetHit, CacheInv, MapsOK, SweepOK, FlagsOK, Heaps

LEMMA InvGetFinds ==
    ASSUME CacheInv, NEW c \in Clients,
           GetFindsExpired(c) \/ GetFindsNothing(c)
    PROVE  CacheInv'
<1>1. op[c].key \in Keys /\ cur \in MapIds
  BY CallFields DEF CacheInv, MapsOK, CallsOK, GetFindsExpired, GetFindsNothing
<1>2. /\ [pc |-> "getExpire", key |-> op[c].key, map |-> cur] \in GoodCalls
      /\ [pc |-> "getStore", key |-> op[c].key] \in GoodCalls
  BY <1>1 DEF Calls, GoodCalls
<1>3. CallsOK'
  BY <1>2, ContinueTyped DEF CacheInv, GetFindsExpired, GetFindsNothing
<1> QED BY <1>3, OnlyCalls DEF GetFindsExpired, GetFindsNothing

LEMMA InvGetRemoveExpired ==
    ASSUME CacheInv, NEW c \in Clients, GetRemoveExpired(c)
    PROVE  CacheInv'
<1>1. op[c].key \in Keys /\ op[c].map \in MapIds
  BY CallFields DEF CacheInv, CallsOK, GetRemoveExpired
<1>2. [pc |-> "getStore", key |-> op[c].key] \in GoodCalls
  BY <1>1 DEF Calls, GoodCalls
<1>3. CallsOK'
  BY <1>2, ContinueTyped DEF CacheInv, GetRemoveExpired
<1>4. MapsOK'
  <2> DEFINE items == Without(heap[cur'], {op[c].key})
  <2>1. cur' \in MapIds
    BY <1>1 DEF GetRemoveExpired
  <2>2. items \in Contents /\ Good(items)
    BY <2>1, WithoutGood DEF CacheInv, MapsOK, Heaps
  <2>3. [heap EXCEPT ![cur'] = items] \in Heaps
    BY <2>1, <2>2, InstallGood DEF CacheInv, MapsOK
  <2>4. heap' = Collected([heap EXCEPT ![cur'] = items])
    BY DEF GetRemoveExpired
  <2> HIDE DEF items
  <2>5. heap' \in Heaps
    BY <2>3, <2>4, CollectedGood
  <2> QED BY <2>1, <2>5 DEF GetRemoveExpired, CacheInv, MapsOK
<1> QED BY <1>3, <1>4
        DEF GetRemoveExpired, CacheInv, PolicyOK, SweepOK, FlagsOK

LEMMA InvGetFromStore ==
    ASSUME CacheInv, NEW c \in Clients, GetFromStore(c)
    PROVE  CacheInv'
<1>1. op[c].key \in Keys
  BY CallFields DEF CacheInv, CallsOK, GetFromStore
<1>2. stored[op[c].key] \in Entries
  BY <1>1 DEF GetFromStore, InStore, CacheInv, MapsOK, Contents
<1>3. stored[op[c].key].value \in Results
  BY <1>2 DEF Entries, Results
<1>4. CallsOK'
  BY <1>3, ReturnTyped DEF GetFromStore, CacheInv
<1>5. PolicyOK'
  BY AfterGetWellFormed DEF GetFromStore, CacheInv, PolicyOK
<1> QED BY <1>4, <1>5 DEF GetFromStore, CacheInv, MapsOK, SweepOK, FlagsOK, Heaps

LEMMA InvGetMiss ==
    ASSUME CacheInv, NEW c \in Clients, GetMiss(c)
    PROVE  CacheInv'
<1>1. CallsOK'
  BY ReturnTyped DEF GetMiss, CacheInv, Results
<1> QED BY <1>1, OnlyCalls DEF GetMiss

LEMMA InvSetBegin ==
    ASSUME CacheInv, NEW c \in Clients, SetBegin(c)
    PROVE  CacheInv'
<1>1. PICK k \in Keys, v \in Values, d \in Durations :
         IF Validate(d) = "ok"
         THEN Enter(c, "set",
                    [pc |-> "setCommit", key |-> k, ttl |-> Normalize(d),
                     entry |-> [value   |-> v,
                                expires |-> GetExpirationTime(Normalize(d),
                                                              clock)]])
         ELSE TurnAway(c, "set", "badTTL")
  BY DEF SetBegin
<1>2. CASE Validate(d) = "ok"
  <2> DEFINE o == [pc |-> "setCommit", key |-> k, ttl |-> Normalize(d),
                   entry |-> [value   |-> v,
                              expires |-> GetExpirationTime(Normalize(d),
                                                            clock)]]
  <2>1. d \in Int /\ clock \in Nat /\ clock > 0
    BY CacheAssumption DEF CacheInv, SweepOK
  <2>2. Normalize(d) \in Nat
    BY <2>1, ExpirationTyped
  <2> DEFINE t == Normalize(d)
  <2>3. /\ t \in Int /\ GetExpirationTime(t, clock) \in Nat
    <3> HIDE DEF t
    <3>1. t \in Int
      BY <2>2 DEF t
    <3> QED BY <2>1, <3>1, ExpirationTyped
  <2>4. Perishable(o.entry)
    BY <1>2, <2>1, ExpirationPerishable
  <2>5. o \in GoodCalls
    BY <2>3, <2>4 DEF Calls, GoodCalls, Entries
  <2>6. Enter(c, "set", o)
    BY <1>1, <1>2
  <2> HIDE DEF o
  <2>7. CallsOK'
    BY <2>5, <2>6, EnterTyped DEF CacheInv
  <2> QED BY <2>7, OnlyCalls DEF SetBegin
<1>3. CASE Validate(d) # "ok"
  <2>1. CallsOK'
    BY <1>1, <1>3, TurnAwayTyped DEF CacheInv, Results
  <2> QED BY <2>1, OnlyCalls DEF SetBegin
<1> QED BY <1>2, <1>3

\* The eviction loop leaves a map with room for the new entry, so the map
\* that Set installs is not too big, whether the store accepts or refuses.
LEMMA InvSetCommit ==
    ASSUME CacheInv, NEW c \in Clients, SetCommit(c)
    PROVE  CacheInv'
<1>1. /\ op[c].key \in Keys /\ op[c].ttl \in Int /\ op[c].entry \in Entries
      /\ clock \in Nat /\ Perishable(op[c].entry)
  BY CallFields DEF CacheInv, CallsOK, SweepOK, SetCommit
<1> DEFINE k == op[c].key
           items(n) == [Evicted(Items, n) EXCEPT ![k] = op[c].entry]
           rest(n) == DropBack(policy, n)
<1>2. PICK n \in 0 .. Len(policy.list) :
         /\ EvictionRounds(Items, n)
         /\ cur' = IF closed THEN Fresh ELSE cur
         /\ truth' = [Evicted(truth, n) EXCEPT ![k] = op[c].entry]
         /\ \/ /\ stored' = IF ~HasStore THEN stored
                             ELSE Persisted(k, op[c].entry.value, op[c].ttl)
               /\ policy' = AfterSet(rest(n), k, MaxSize)
               /\ statSize' = Size(items(n))
               /\ Return(c, "ok")
            \/ /\ HasStore /\ StoreRefuses
               /\ policy' = rest(n)
               /\ Return(c, "storeError")
               /\ UNCHANGED <<stored, statSize>>
         /\ heap' = Collected([heap EXCEPT ![cur'] = items(n)])
  BY DEF SetCommit
<1>3. MapsOK'
  <2>1. /\ Evicted(Items, n) \in Contents /\ Evicted(truth, n) \in Contents
        /\ HasRoom(Evicted(Items, n)) /\ Good(Evicted(Items, n))
    BY <1>2, ItemsGood, WithoutGood DEF Evicted, EvictionRounds, CacheInv, MapsOK
  <2>2. items(n) \in Contents /\ Good(items(n))
    BY <1>1, <2>1, InsertGood
  <2>3. truth' \in Contents
    BY <1>1, <1>2, <2>1 DEF Contents
  <2>4. cur' \in MapIds
    BY <1>2, FreshIsMap DEF SetCommit, CacheInv, MapsOK
  <2>5. stored' \in Contents
    <3>1. GetExpirationTime(op[c].ttl, clock) \in Nat
      BY <1>1, ExpirationTyped
    <3>2. [value |-> op[c].entry.value,
           expires |-> GetExpirationTime(op[c].ttl, clock)] \in Entries
      BY <1>1, <3>1 DEF Entries
    <3> QED BY <1>1, <1>2, <3>2 DEF CacheInv, MapsOK, Contents, Persisted
  <2> HIDE DEF items
  <2>6. heap' \in Heaps
    BY <1>2, <2>2, <2>4, InstallGood, CollectedGood DEF CacheInv, MapsOK
  <2> QED BY <2>3, <2>4, <2>5, <2>6 DEF MapsOK
<1>4. PolicyOK'
  <2>1. rest(n) \in Record(Keys) /\ WellFormed(rest(n))
    BY <1>2, DropBackWellFormed DEF CacheInv, PolicyOK
  <2> HIDE DEF rest
  <2>2. /\ AfterSet(rest(n), k, MaxSize) \in Record(Keys)
        /\ WellFormed(AfterSet(rest(n), k, MaxSize))
    BY <1>1, <2>1, AfterSetWellFormed
  <2> QED BY <1>2, <2>1, <2>2 DEF PolicyOK
<1>5. CallsOK'
  BY <1>2, ReturnTyped DEF CacheInv, Results
<1>6. FlagsOK'
  BY <1>2, SizeFacts DEF SetCommit, CacheInv, FlagsOK
<1> QED BY <1>3, <1>4, <1>5, <1>6 DEF SetCommit, CacheInv, SweepOK

LEMMA InvSetNoRoom ==
    ASSUME CacheInv, NEW c \in Clients, SetNoRoom(c)
    PROVE  CacheInv'
<1> DEFINE n == Len(policy.list)
<1>1. n \in 0 .. Len(policy.list)
  BY LenProperties DEF CacheInv, PolicyOK, Record
<1>2. MapsOK'
  <2>1. /\ Evicted(heap[cur], n) \in Contents /\ Good(Evicted(heap[cur], n))
        /\ Evicted(truth, n) \in Contents
    BY WithoutGood DEF Evicted, CacheInv, MapsOK, Heaps
  <2>2. heap' = [heap EXCEPT ![cur] = Evicted(heap[cur], n)]
    BY DEF SetNoRoom, CacheInv, MapsOK, Heaps
  <2>3. heap' \in Heaps
    BY <2>1, <2>2, InstallGood DEF CacheInv, MapsOK
  <2> QED BY <2>1, <2>3 DEF SetNoRoom, CacheInv, MapsOK
<1>3. PolicyOK'
  BY <1>1, DropBackWellFormed DEF SetNoRoom, CacheInv, PolicyOK
<1>4. CallsOK'
  BY ReturnTyped DEF SetNoRoom, CacheInv, Results
<1> QED BY <1>2, <1>3, <1>4 DEF SetNoRoom, CacheInv, SweepOK, FlagsOK

LEMMA InvDeleteBegin ==
    ASSUME CacheInv, NEW c \in Clients, DeleteBegin(c)
    PROVE  CacheInv'
<1>1. PICK k \in Keys : Enter(c, "delete", [pc |-> "deleteCommit", key |-> k])
  BY DEF DeleteBegin
<1>2. [pc |-> "deleteCommit", key |-> k] \in GoodCalls
  BY DEF Calls, GoodCalls
<1>3. CallsOK'
  BY <1>1, <1>2, EnterTyped DEF CacheInv
<1> QED BY <1>3, OnlyCalls DEF DeleteBegin

LEMMA InvDeleteCommit ==
    ASSUME CacheInv, NEW c \in Clients, DeleteCommit(c)
    PROVE  CacheInv'
<1> DEFINE k == op[c].key
<1>1. MapsOK'
  <2>1. cur' \in MapIds
    BY FreshIsMap DEF DeleteCommit
  <2>2. /\ Without(heap[cur], {k}) \in Contents
        /\ Good(Without(heap[cur], {k}))
        /\ Without(truth, {k}) \in Contents
        /\ Without(stored, {k}) \in Contents
    BY WithoutGood DEF CacheInv, MapsOK, Heaps
  <2>3. heap' = Collected([heap EXCEPT ![cur'] = Without(heap[cur], {k})])
    BY DEF DeleteCommit, CopyWithout
  <2>4. heap' \in Heaps
    BY <2>1, <2>2, <2>3, InstallGood, CollectedGood DEF CacheInv, MapsOK
  <2> QED BY <2>1, <2>2, <2>4 DEF DeleteCommit, CacheInv, MapsOK
<1>2. PolicyOK'
  BY AfterDeleteWellFormed DEF DeleteCommit, CacheInv, PolicyOK
<1>3. CallsOK'
  BY ReturnTyped DEF DeleteCommit, CacheInv, Results
<1>4. FlagsOK'
  BY DEF DeleteCommit, CacheInv, FlagsOK
<1> QED BY <1>1, <1>2, <1>3, <1>4 DEF DeleteCommit, CacheInv, SweepOK

LEMMA InvClearBegin ==
    ASSUME CacheInv, NEW c \in Clients, ClearBegin(c)
    PROVE  CacheInv'
<1>1. [pc |-> "clearCommit"] \in GoodCalls
  BY DEF Calls, GoodCalls
<1>2. CallsOK'
  BY <1>1, EnterTyped DEF ClearBegin, CacheInv
<1> QED BY <1>2, OnlyCalls DEF ClearBegin

\* Clear and Close install an empty map.
LEMMA EmptyMapInstalled ==
    ASSUME CacheInv, CanAllocate, cur' = Fresh,
           heap' = Collected([heap EXCEPT ![cur'] = NoItems])
    PROVE  heap' \in Heaps /\ cur' \in MapIds
BY FreshIsMap, NoItemsGood, InstallGood, CollectedGood DEF CacheInv, MapsOK

LEMMA InvClearCommit ==
    ASSUME CacheInv, NEW c \in Clients, ClearCommit(c)
    PROVE  CacheInv'
<1>1. MapsOK'
  BY EmptyMapInstalled, NoItemsGood DEF ClearCommit, CacheInv, MapsOK
<1>2. CallsOK'
  BY ReturnTyped DEF ClearCommit, CacheInv, Results
<1> QED BY <1>1, <1>2 DEF ClearCommit, CacheInv, PolicyOK, SweepOK, FlagsOK

LEMMA InvResetStats ==
    ASSUME CacheInv, NEW c \in Clients, ResetStats(c)
    PROVE  CacheInv'
<1>1. CallsOK'
  BY TurnAwayTyped DEF ResetStats, CacheInv, Results
<1> QED BY <1>1 DEF ResetStats, CacheInv, MapsOK, PolicyOK, SweepOK, FlagsOK

-----------------------------------------------------------------------------
(***************************************************************************)
(* Each step of Close, of the cleanup goroutine and of time keeps it too.  *)
(***************************************************************************)
LEMMA InvCloseBegin ==
    ASSUME CacheInv, NEW c \in Clients, CloseBegin(c)
    PROVE  CacheInv'
<1>1. [pc |-> "closeWait"] \in GoodCalls
  BY DEF Calls, GoodCalls
<1>2. CallsOK'
  BY <1>1, EnterTyped DEF CloseBegin, CacheInv
<1> QED BY <1>2 DEF CloseBegin, CacheInv, MapsOK, PolicyOK, SweepOK, FlagsOK

LEMMA InvCloseAgain ==
    ASSUME CacheInv, NEW c \in Clients, CloseAgain(c)
    PROVE  CacheInv'
<1>1. [pc |-> "onceWait"] \in GoodCalls
  BY DEF Calls, GoodCalls
<1>2. CallsOK'
  BY <1>1, EnterTyped, TurnAwayTyped DEF CloseAgain, CacheInv, Results
<1> QED BY <1>2, OnlyCalls DEF CloseAgain

LEMMA InvCloseSweepDone ==
    ASSUME CacheInv, NEW c \in Clients, CloseSweepDone(c)
    PROVE  CacheInv'
<1>1. [pc |-> "closeCommit"] \in GoodCalls
  BY DEF Calls, GoodCalls
<1>2. CallsOK'
  BY <1>1, ContinueTyped DEF CloseSweepDone, CacheInv
<1> QED BY <1>2, OnlyCalls DEF CloseSweepDone

LEMMA InvCloseCommit ==
    ASSUME CacheInv, NEW c \in Clients, CloseCommit(c)
    PROVE  CacheInv'
<1>1. MapsOK'
  BY EmptyMapInstalled, NoItemsGood DEF CloseCommit, CacheInv, MapsOK
<1>2. CallsOK'
  BY ReturnTyped DEF CloseCommit, CacheInv, Results
<1> QED BY <1>1, <1>2 DEF CloseCommit, CacheInv, PolicyOK, SweepOK, FlagsOK

LEMMA InvCloseReturn ==
    ASSUME CacheInv, NEW c \in Clients, CloseReturn(c)
    PROVE  CacheInv'
<1>1. CallsOK'
  BY ReturnTyped DEF CloseReturn, CacheInv, Results
<1> QED BY <1>1, OnlyCalls DEF CloseReturn

LEMMA SweepFields ==
    ASSUME NEW s \in Sweeps
    PROVE  /\ s.pc \in {"scan", "remove"} => s.now \in Nat
           /\ s.pc = "remove" => s.keys \subseteq Keys
BY DEF Sweeps

LEMMA AfterScanTyped ==
    ASSUME NEW ks \in SUBSET Keys, NEW now \in Nat
    PROVE  /\ AfterScan(ks, now) \in Sweeps
           /\ AfterScan(ks, now).pc \in {"scan", "remove"} =>
                 AfterScan(ks, now).now = now
BY DEF AfterScan, Sweeps

LEMMA InvCleanup ==
    ASSUME CacheInv, Cleanup
    PROVE  CacheInv'
<1>1. CASE CleanupTick
  <2>1. [pc |-> "scan", now |-> clock] \in Sweeps
    BY DEF CacheInv, SweepOK, Sweeps
  <2>2. SweepOK'
    BY <1>1, <2>1 DEF CleanupTick, CacheInv, SweepOK
  <2> QED BY <1>1, <2>2 DEF CleanupTick, CacheInv, MapsOK, PolicyOK, CallsOK,
                            FlagsOK, sharedVars
<1>2. CASE CleanupScan
  <2>1. PICK ks \in Some(ExpiredKeys(sweep.now), BatchSize) :
           sweep' = AfterScan(ks, sweep.now)
    BY <1>2 DEF CleanupScan
  <2>2. ks \in SUBSET Keys
    BY DEF Some, ExpiredKeys, Present
  <2>3. sweep.now \in Nat /\ sweep.now <= clock
    BY <1>2, SweepFields DEF CleanupScan, CacheInv, SweepOK
  <2>4. SweepOK'
    BY <1>2, <2>1, <2>2, <2>3, AfterScanTyped
    DEF CleanupScan, CacheInv, SweepOK
  <2> QED BY <1>2, <2>4 DEF CleanupScan, CacheInv, MapsOK, PolicyOK, CallsOK,
                            FlagsOK, sharedVars
<1>3. CASE CleanupChunk
  <2>1. PICK chunk \in Some(sweep.keys, ChunkSize) :
           /\ heap' = [heap EXCEPT ![cur] =
                         Without(@, chunk \cap ExpiredKeys(sweep.now))]
           /\ sweep' = AfterScan(sweep.keys \ chunk, sweep.now)
    BY <1>3 DEF CleanupChunk
  <2>2. /\ sweep.now \in Nat /\ sweep.now <= clock
        /\ sweep.keys \ chunk \in SUBSET Keys
    BY <1>3, SweepFields DEF CleanupChunk, CacheInv, SweepOK
  <2>3. SweepOK'
    BY <1>3, <2>1, <2>2, AfterScanTyped DEF CleanupChunk, CacheInv, SweepOK
  <2> DEFINE items == Without(heap[cur], chunk \cap ExpiredKeys(sweep.now))
  <2>4. items \in Contents /\ Good(items)
    BY WithoutGood DEF CacheInv, MapsOK, Heaps
  <2>5. heap' = [heap EXCEPT ![cur] = items]
    BY <2>1 DEF CacheInv, MapsOK, Heaps
  <2> HIDE DEF items
  <2>6. heap' \in Heaps
    BY <2>4, <2>5, InstallGood DEF CacheInv, MapsOK
  <2> QED BY <1>3, <2>3, <2>6 DEF CleanupChunk, CacheInv, MapsOK, PolicyOK,
                                  CallsOK, FlagsOK
<1>4. CASE CleanupStop
  <2>1. SweepOK'
    BY <1>4 DEF CleanupStop, CacheInv, SweepOK, Sweeps
  <2> QED BY <1>4, <2>1 DEF CleanupStop, CacheInv, MapsOK, PolicyOK, CallsOK,
                            FlagsOK, sharedVars
<1> QED BY <1>1, <1>2, <1>3, <1>4 DEF Cleanup

LEMMA InvTimePasses ==
    ASSUME CacheInv, TimePasses
    PROVE  CacheInv'
<1>1. SweepOK'
  BY SweepFields, CacheAssumption DEF TimePasses, CacheInv, SweepOK
<1> QED BY <1>1 DEF TimePasses, CacheInv, MapsOK, PolicyOK, CallsOK, FlagsOK,
                    sharedVars

LEMMA InvInit == Init => CacheInv
<1> SUFFICES ASSUME Init PROVE CacheInv
  OBVIOUS
<1>1. MapsOK
  BY CacheAssumption, NoItemsGood DEF Init, MapsOK, Heaps
<1>2. PolicyOK
  BY EmptyPolicyWellFormed DEF Init, PolicyOK
<1>3. CallsOK
  BY CacheAssumption, IdleTyped DEF Init, CallsOK, Results
<1>4. SweepOK
  BY CacheAssumption DEF Init, SweepOK, Sweeps
<1>5. FlagsOK
  <2>1. statSize = 0 /\ closed = FALSE /\ once = "new"
    BY DEF Init
  <2>2. closed \in BOOLEAN /\ once \in {"new", "running", "done"}
    BY <2>1
  <2> QED BY <2>1, <2>2 DEF FlagsOK
<1> QED BY <1>1, <1>2, <1>3, <1>4, <1>5 DEF CacheInv

LEMMA InvNext == CacheInv /\ [Next]_vars => CacheInv'
<1> SUFFICES ASSUME CacheInv, [Next]_vars PROVE CacheInv'
  OBVIOUS
<1>1. ASSUME NEW c \in Clients, Begin(c) PROVE CacheInv'
  BY <1>1, InvCallRefused, InvGetBegin, InvSetBegin, InvDeleteBegin,
     InvClearBegin, InvCloseBegin, InvCloseAgain, InvResetStats DEF Begin
<1>2. ASSUME NEW c \in Clients, Proceed(c) PROVE CacheInv'
  BY <1>2, InvGetHit, InvGetFinds, InvGetRemoveExpired, InvGetFromStore,
     InvGetMiss, InvSetCommit, InvSetNoRoom, InvDeleteCommit, InvClearCommit,
     InvCloseSweepDone, InvCloseCommit, InvCloseReturn DEF Proceed
<1>3. CASE UNCHANGED vars
  BY <1>3 DEF vars, CacheInv, MapsOK, PolicyOK, CallsOK, SweepOK, FlagsOK
<1> QED BY <1>1, <1>2, <1>3, InvCleanup, InvTimePasses DEF Next, Finished

LEMMA CacheInvHolds == Spec => []CacheInv
BY InvInit, InvNext, PTL DEF Spec

\* Every variable of the cache keeps its type: maps hold well formed entries,
\* the policy a map and a list of keys, each call the data of its stage.
THEOREM CacheTypeCorrect == Spec => []TypeOK
BY CacheInvHolds, InvImplies, PTL

\* No map that is current, or that a Get may still install, outgrows MaxSize,
\* however calls, cleanup and store errors interleave.
THEOREM SizeBoundHolds == Spec => []SizeBound
BY CacheInvHolds, InvImplies, PTL

-----------------------------------------------------------------------------
(***************************************************************************)
(* Which step changes what.                                                *)
(***************************************************************************)
LEMMA CallsLeaveSweep ==
    ASSUME NEW c \in Clients, Begin(c) \/ Proceed(c)
    PROVE  sweep' = sweep
<1>1. ASSUME Begin(c) PROVE sweep' = sweep
  BY <1>1 DEF Begin, CallRefused, GetBegin, SetBegin, DeleteBegin, ClearBegin,
              CloseBegin, CloseAgain, ResetStats
<1>2. ASSUME Proceed(c) PROVE sweep' = sweep
  <2>1. ASSUME \/ GetHit(c) \/ GetFindsExpired(c) \/ GetFindsNothing(c)
               \/ GetRemoveExpired(c) \/ GetFromStore(c) \/ GetMiss(c)
        PROVE  sweep' = sweep
    BY <2>1 DEF GetHit, GetFindsExpired, GetFindsNothing, GetRemoveExpired,
                GetFromStore, GetMiss
  <2>2. ASSUME \/ SetCommit(c) \/ SetNoRoom(c) \/ DeleteCommit(c)
               \/ ClearCommit(c) \/ CloseSweepDone(c) \/ CloseCommit(c)
               \/ CloseReturn(c)
        PROVE  sweep' = sweep
    BY <2>2 DEF SetCommit, SetNoRoom, DeleteCommit, ClearCommit,
                CloseSweepDone, CloseCommit, CloseReturn
  <2> QED BY <1>2, <2>1, <2>2 DEF Proceed
<1> QED BY <1>1, <1>2

LEMMA OnlyChunkRemoves ==
    ASSUME [Next]_vars, sweep.pc = "remove", sweep' # sweep
    PROVE  CleanupChunk
<1>1. ~TimePasses /\ ~Finished /\ ~UNCHANGED vars
  BY DEF TimePasses, Finished, vars
<1>2. ~CleanupTick /\ ~CleanupScan /\ ~CleanupStop
  BY DEF CleanupTick, CleanupScan, CleanupStop
<1> QED BY <1>1, <1>2, CallsLeaveSweep DEF Next, Cleanup

\* A step of one client leaves the calls of the others alone, and the only
\* steps that end a Set are SetCommit and SetNoRoom.
LEMMA OnlySetEndsSet ==
    ASSUME CacheInv, [Next]_vars, NEW c \in Clients,
           op[c].pc = "setCommit", op'[c] = Idle
    PROVE  SetCommit(c) \/ SetNoRoom(c)
<1>1. op[c] # Idle /\ op' # op
  BY DEF Idle
<1>2. op \in [Clients -> GoodCalls]
  BY DEF CacheInv, CallsOK
<1>3. ~Cleanup /\ ~TimePasses /\ ~Finished /\ ~UNCHANGED vars
  BY <1>1 DEF Cleanup, CleanupTick, CleanupScan, CleanupChunk, CleanupStop,
              TimePasses, Finished, vars
<1>4. ASSUME NEW d \in Clients, Begin(d) PROVE FALSE
  <2>1. PICK kind, o : op' = op \/ Enter(d, kind, o)
    BY <1>4 DEF Begin, CallRefused, GetBegin, SetBegin, DeleteBegin,
                ClearBegin, CloseBegin, CloseAgain, ResetStats, TurnAway
  <2> QED BY <1>1, <1>2, <2>1 DEF Enter
<1>5. ASSUME NEW d \in Clients, Proceed(d) PROVE SetCommit(c) \/ SetNoRoom(c)
  <2>1. ASSUME ~(SetCommit(d) \/ SetNoRoom(d)) PROVE op[d].pc # "setCommit"
    BY <1>5, <2>1 DEF Proceed, GetHit, GetFindsExpired, GetFindsNothing,
       GetRemoveExpired, GetFromStore, GetMiss, DeleteCommit, ClearCommit,
       CloseSweepDone, CloseCommit, CloseReturn
  <2>2. PICK o : op' = [op EXCEPT ![d] = o]
    BY <1>5 DEF Proceed, GetHit, GetFindsExpired, GetFindsNothing,
       GetRemoveExpired, GetFromStore, GetMiss, SetCommit, SetNoRoom,
       DeleteCommit, ClearCommit, CloseSweepDone, CloseCommit, CloseReturn,
       Return, Continue
  <2>3. c = d
    BY <1>1, <1>2, <2>2
  <2> QED BY <2>1, <2>3
<1> QED BY <1>3, <1>4, <1>5 DEF Next

-----------------------------------------------------------------------------
\* The keys that cleanup collected may have been set again since; it removes
\* none whose entry Get would still return.  With entries that never expire
\* this is false: the run zero_ttl shows why.
THEOREM CleanupSparesLiveHolds ==
    ASSUME EveryTTLEnds
    PROVE  Spec => CleanupSparesLive
<1> DEFINE Step == sweep.pc = "remove" /\ sweep' # sweep =>
                      \A k \in Lost : ~Live(heap[cur][k])
<1>1. CacheInv /\ [Next]_vars => Step
  <2> SUFFICES ASSUME CacheInv, CleanupChunk, NEW k \in Lost
               PROVE  ~Live(heap[cur][k])
    BY OnlyChunkRemoves
  <2>1. PICK chunk \in Some(sweep.keys, ChunkSize) :
           heap' = [heap EXCEPT ![cur] =
                      Without(@, chunk \cap ExpiredKeys(sweep.now))]
    BY DEF CleanupChunk
  <2>2. heap'[cur'] = Without(heap[cur], chunk \cap ExpiredKeys(sweep.now))
    BY <2>1 DEF CleanupChunk, CacheInv, MapsOK, Heaps
  <2>3. k \in Present(heap[cur]) /\ k \in ExpiredKeys(sweep.now)
    BY <2>2, WithoutGood DEF Lost, CacheInv, MapsOK, Heaps
  <2>4. /\ heap[cur][k] \in Entries /\ Perishable(heap[cur][k])
        /\ sweep.now \in Nat /\ sweep.now <= clock /\ clock \in Nat
    BY <2>3, SweepFields
    DEF CacheInv, MapsOK, SweepOK, Heaps, Good, Contents, Present, CleanupChunk
  <2>5. heap[cur][k].expires \in Nat /\ heap[cur][k].expires < sweep.now
    BY <2>3, <2>4 DEF Entries, ExpiredKeys, Before
  <2> QED BY <2>4, <2>5 DEF Live, Never, Perishable
<1>2. CacheInv /\ [Next]_vars => [Step]_vars
  BY <1>1
<1> QED BY <1>2, CacheInvHolds, PTL DEF Spec, CleanupSparesLive

-----------------------------------------------------------------------------
\* If a full map has no room after some evictions, none of the victims was in
\* the map.
LEMMA VictimsAbsent ==
    ASSUME NEW items \in Contents, Fits(items), NEW n,
           ~HasRoom(Evicted(items, n))
    PROVE  Present(items) \cap Victims(policy, n) = {}
<1> DEFINE rest == Present(items) \ Victims(policy, n)
<1>1. Present(Evicted(items, n)) = rest
  BY WithoutGood DEF Evicted
<1>2. /\ IsFiniteSet(Present(items)) /\ Cardinality(Present(items)) \in Nat
      /\ Cardinality(Present(items)) <= MaxSize
      /\ Cardinality(rest) >= MaxSize /\ Cardinality(rest) \in Nat
  <2>1. /\ MaxSize \in Nat /\ MaxSize # 0
        /\ ~(Size(Evicted(items, n)) < MaxSize)
    BY CacheAssumption DEF HasRoom
  <2>2. Size(Evicted(items, n)) = Cardinality(rest)
    BY <1>1 DEF Size
  <2>3. /\ IsFiniteSet(Present(items)) /\ Size(items) \in Nat
        /\ Size(Evicted(items, n)) \in Nat
    BY SizeFacts
  <2> QED BY <2>1, <2>2, <2>3 DEF Fits, Size
<1>3. rest = Present(items)
  <2>1. Cardinality(rest) >= Cardinality(Present(items))
    BY <1>2, CacheAssumption
  <2> QED BY <1>2, <2>1, FS_Subset
<1> QED BY <1>3

LEMMA OneMoreVictim ==
    ASSUME NEW q \in Record(Keys), NEW n \in 1 .. Len(q.list)
    PROVE  Victims(q, n) =
              Victims(q, n - 1) \cup {q.list[Len(q.list) - n + 1]}
<1>1. Len(q.list) \in Nat
  BY LenProperties DEF Record
<1>2. Len(q.list) - n + 1 .. Len(q.list) =
         (Len(q.list) - (n - 1) + 1 .. Len(q.list))
            \cup {Len(q.list) - n + 1}
  BY <1>1
<1> QED BY <1>2 DEF Victims

\* A Set costs at most one other entry, and a Set that fails for want of room
\* costs none, whatever the policy and the map disagree about.
THEOREM SetEvictsAtMostOneHolds == Spec => SetEvictsAtMostOne
<1> DEFINE Step ==
      \A c \in Clients :
         /\ op[c].pc = "setCommit" /\ op'[c] = Idle /\ ~closed
         => /\ Cardinality(Lost) <= 1
            /\ result'[c] = "capacityLimit" => Lost = {}
<1>1. ASSUME CacheInv, [Next]_vars, NEW c \in Clients,
             op[c].pc = "setCommit", op'[c] = Idle, ~closed
      PROVE  /\ Cardinality(Lost) <= 1
             /\ result'[c] = "capacityLimit" => Lost = {}
  <2> DEFINE items == heap[cur]
  <2>1. /\ items \in Contents /\ Fits(items) /\ Items = items
        /\ policy \in Record(Keys) /\ Len(policy.list) \in Nat
    BY <1>1, LenProperties
    DEF CacheInv, MapsOK, PolicyOK, Heaps, Good, Items, Record
  <2>2. CASE SetCommit(c)
    <3> DEFINE new(n) == [Evicted(items, n) EXCEPT ![op[c].key] = op[c].entry]
    <3>1. PICK n \in 0 .. Len(policy.list) :
             /\ EvictionRounds(items, n)
             /\ cur' = cur
             /\ heap' = Collected([heap EXCEPT ![cur'] = new(n)])
             /\ Return(c, "ok") \/ Return(c, "storeError")
      BY <1>1, <2>1, <2>2 DEF SetCommit
    <3>2. heap'[cur'] = new(n)
      BY <1>1, <3>1 DEF Collected, CacheInv, MapsOK, Heaps
    <3>3. Lost \subseteq Present(items) \cap Victims(policy, n)
      <4>1. op[c].entry # NoEntry /\ op[c].key \in Keys
        BY <1>1, CallFields, EntriesAndNoEntry DEF CacheInv, CallsOK
      <4>2. /\ Evicted(items, n) \in Contents
            /\ Present(Evicted(items, n)) = Present(items) \ Victims(policy, n)
        BY <2>1, WithoutGood DEF Evicted
      <4>3. Present(Evicted(items, n)) \subseteq Present(new(n))
        BY <4>1, <4>2 DEF Present, Contents
      <4> QED BY <3>2, <4>2, <4>3 DEF Lost
    <3>4. result'[c] # "capacityLimit"
      BY <1>1, <3>1 DEF Return, CacheInv, CallsOK
    <3>5. CASE n = 0
      <4>1. Victims(policy, n) = {}
        BY <2>1, <3>5 DEF Victims
      <4>2. Lost = {}
        BY <3>3, <4>1
      <4> QED BY <4>2, FS_EmptySet, <3>4
    <3>6. CASE n > 0
      <4> DEFINE v == policy.list[Len(policy.list) - n + 1]
      <4>1. n - 1 \in 0 .. n - 1 /\ n \in 1 .. Len(policy.list)
        BY <2>1, <3>6
      <4>2. ~HasRoom(Evicted(items, n - 1))
        BY <3>1, <4>1 DEF EvictionRounds
      <4>3. Present(items) \cap Victims(policy, n - 1) = {}
        BY <2>1, <4>2, VictimsAbsent
      <4>4. Lost \subseteq {v}
        BY <2>1, <3>3, <4>1, <4>3, OneMoreVictim
      <4> HIDE DEF v
      <4>5. IsFiniteSet({v}) /\ Cardinality({v}) = 1
        BY FS_Singleton
      <4>6. Cardinality(Lost) <= 1
        BY <4>4, <4>5, FS_Subset
      <4> QED BY <3>4, <4>6
    <3> QED BY <3>1, <3>4, <3>5, <3>6
  <2>3. CASE SetNoRoom(c)
    <3> DEFINE n == Len(policy.list)
    <3>1. heap'[cur'] = Evicted(items, n)
      BY <1>1, <2>3 DEF SetNoRoom, CacheInv, MapsOK, Heaps
    <3>2. Lost = Present(items) \cap Victims(policy, n)
      BY <2>1, <3>1, WithoutGood DEF Lost, Evicted
    <3>3. ~HasRoom(Evicted(items, n))
      BY <2>1, <2>3 DEF SetNoRoom
    <3>4. Lost = {}
      BY <2>1, <3>2, <3>3, VictimsAbsent
    <3> QED BY <3>4, FS_EmptySet
  <2> QED BY <1>1, <2>2, <2>3, OnlySetEndsSet
<1>2. CacheInv /\ [Next]_vars => [Step]_vars
  BY <1>1
<1> QED BY <1>2, CacheInvHolds, PTL DEF Spec, SetEvictsAtMostOne

-----------------------------------------------------------------------------
(***************************************************************************)
(* What each step makes of the current map, as long as the cache is open.  *)
(***************************************************************************)
LEMMA MapFacts ==
    ASSUME CacheInv
    PROVE  /\ cur \in MapIds /\ heap \in [MapIds -> Contents]
           /\ heap[cur] \in Contents /\ Good(heap[cur])
           /\ truth \in Contents /\ stored \in Contents
           /\ policy \in Record(Keys) /\ WellFormed(policy)
           /\ op \in [Clients -> GoodCalls]
           /\ clock \in Nat /\ clock > 0
BY DEF CacheInv, MapsOK, PolicyOK, CallsOK, SweepOK, Heaps

\* The steps that leave the current map, the history and the policy's keys
\* alone.
MapUnchanged == /\ heap'[cur'] = heap[cur] /\ cur' = cur
                /\ truth' = truth /\ stored' = stored
                /\ policy'.items = policy.items
                /\ statSize' = statSize \/ "reset" \in Ops

MapStep(c) == \/ SetCommit(c) \/ SetNoRoom(c) \/ DeleteCommit(c)
              \/ ClearCommit(c) \/ CloseCommit(c) \/ GetRemoveExpired(c)

LEMMA OnlyMapSteps ==
    ASSUME CacheInv, [Next]_vars
    PROVE  /\ MapUnchanged \/ CleanupChunk \/ \E c \in Clients : MapStep(c)
           /\ closed => closed'
           /\ clock' \in Nat /\ clock <= clock'
<1>1. ASSUME NEW c \in Clients, Begin(c)
      PROVE  /\ MapUnchanged
             /\ closed => closed'
             /\ clock' = clock
  BY <1>1 DEF Begin, CallRefused, GetBegin, SetBegin, DeleteBegin, ClearBegin,
              CloseBegin, CloseAgain, ResetStats, TurnAway, MapUnchanged,
              sharedVars
<1>2. ASSUME NEW c \in Clients, Proceed(c)
      PROVE  /\ MapUnchanged \/ MapStep(c)
             /\ closed' = closed /\ clock' = clock
  <2>1. CASE GetHit(c) \/ GetFromStore(c)
    BY <2>1, MapFacts, AfterGetWellFormed
    DEF GetHit, GetFromStore, MapUnchanged
  <2>2. CASE \/ GetFindsExpired(c) \/ GetFindsNothing(c) \/ GetMiss(c)
             \/ CloseSweepDone(c) \/ CloseReturn(c)
    BY <2>2 DEF GetFindsExpired, GetFindsNothing, GetMiss, CloseSweepDone,
                CloseReturn, MapUnchanged, sharedVars
  <2>3. CASE MapStep(c)
    BY <2>3 DEF MapStep, SetCommit, SetNoRoom, DeleteCommit, ClearCommit,
                CloseCommit, GetRemoveExpired
  <2> QED BY <1>2, <2>1, <2>2, <2>3 DEF Proceed, MapStep
<1>3. ASSUME CleanupChunk
      PROVE  closed' = closed /\ clock' = clock
  BY <1>3 DEF CleanupChunk
<1>4. ASSUME \/ CleanupTick \/ CleanupScan \/ CleanupStop \/ Finished
             \/ UNCHANGED vars
      PROVE  MapUnchanged /\ closed' = closed /\ clock' = clock
  BY <1>4 DEF CleanupTick, CleanupScan, CleanupStop, Finished, vars,
              sharedVars, MapUnchanged
<1>5. ASSUME TimePasses
      PROVE  MapUnchanged /\ closed' = closed /\ clock' = clock + 1
  BY <1>5 DEF TimePasses, sharedVars, MapUnchanged
<1>6. clock \in Nat
  BY MapFacts
<1>7. MapUnchanged \/ CleanupChunk \/ \E c \in Clients : MapStep(c)
  BY <1>1, <1>2, <1>4, <1>5 DEF Next, Cleanup
<1>8. closed => closed'
  BY <1>1, <1>2, <1>3, <1>4, <1>5 DEF Next, Cleanup
<1>9. clock' = clock \/ clock' = clock + 1
  BY <1>1, <1>2, <1>3, <1>4, <1>5 DEF Next, Cleanup
<1> QED BY <1>6, <1>7, <1>8, <1>9

LEMMA InstalledMap ==
    ASSUME CacheInv, cur' \in MapIds, NEW items,
           \/ heap' = Collected([heap EXCEPT ![cur'] = items])
           \/ cur' = cur /\ heap' = [heap EXCEPT ![cur] = items]
    PROVE  heap'[cur'] = items
BY MapFacts DEF Collected

LEMMA SetCommitMap ==
    ASSUME CacheInv, NEW c \in Clients, SetCommit(c), ~closed
    PROVE  LET k == op[c].key
               e == op[c].entry
           IN  /\ k \in Keys /\ e \in Entries
               /\ \E n \in 0 .. Len(policy.list) :
                     /\ HasRoom(Evicted(heap[cur], n))
                     /\ heap'[cur'] = [Evicted(heap[cur], n) EXCEPT ![k] = e]
                     /\ truth' = [Evicted(truth, n) EXCEPT ![k] = e]
                     /\ \/ /\ stored' = IF ~HasStore THEN stored
                                         ELSE Persisted(k, e.value, op[c].ttl)
                           /\ policy' = AfterSet(DropBack(policy, n), k, MaxSize)
                           /\ statSize' = Size(heap'[cur'])
                           /\ Return(c, "ok")
                        \/ /\ HasStore /\ StoreRefuses
                           /\ policy' = DropBack(policy, n)
                           /\ stored' = stored
                           /\ Return(c, "storeError")
<1> DEFINE k == op[c].key
           e == op[c].entry
           new(n) == [Evicted(Items, n) EXCEPT ![k] = e]
<1>1. k \in Keys /\ e \in Entries
  BY CallFields, MapFacts DEF SetCommit
<1>2. Items = heap[cur]
  BY DEF Items
<1>3. PICK n \in 0 .. Len(policy.list) :
         /\ EvictionRounds(Items, n)
         /\ cur' = cur
         /\ truth' = [Evicted(truth, n) EXCEPT ![k] = e]
         /\ \/ /\ stored' = IF ~HasStore THEN stored
                             ELSE Persisted(k, e.value, op[c].ttl)
               /\ policy' = AfterSet(DropBack(policy, n), k, MaxSize)
               /\ statSize' = Size(new(n))
               /\ Return(c, "ok")
            \/ /\ HasStore /\ StoreRefuses
               /\ policy' = DropBack(policy, n)
               /\ stored' = stored
               /\ Return(c, "storeError")
         /\ heap' = Collected([heap EXCEPT ![cur'] = new(n)])
  BY DEF SetCommit
<1>4. heap'[cur'] = new(n)
  <2> HIDE DEF new
  <2> QED BY <1>3, MapFacts, InstalledMap
<1> QED BY <1>1, <1>2, <1>3, <1>4 DEF EvictionRounds

LEMMA SetNoRoomMap ==
    ASSUME CacheInv, NEW c \in Clients, SetNoRoom(c)
    PROVE  LET n == Len(policy.list)
           IN  /\ heap'[cur'] = Evicted(heap[cur], n)
               /\ truth' = Evicted(truth, n)
BY MapFacts, InstalledMap DEF SetNoRoom

LEMMA DeleteCommitMap ==
    ASSUME CacheInv, NEW c \in Clients, DeleteCommit(c)
    PROVE  LET k == op[c].key
           IN  /\ k \in Keys
               /\ heap'[cur'] = Without(heap[cur], {k})
               /\ truth' = Without(truth, {k})
               /\ policy' = AfterDelete(policy, k)
               /\ statSize' = IF k \in Present(heap[cur])
                              THEN statSize - 1 ELSE statSize
               /\ \/ stored' = Without(stored, {k})
                  \/ HasStore /\ StoreRefuses
<1>1. cur' \in MapIds
  BY FreshIsMap DEF DeleteCommit
<1>2. op[c].key \in Keys
  BY CallFields, MapFacts DEF DeleteCommit
<1> QED BY <1>1, <1>2, InstalledMap DEF DeleteCommit, CopyWithout

LEMMA EmptyingMap ==
    ASSUME CacheInv, NEW c \in Clients, ClearCommit(c) \/ CloseCommit(c)
    PROVE  heap'[cur'] = NoItems /\ truth' = NoItems
BY FreshIsMap, InstalledMap DEF ClearCommit, CloseCommit

LEMMA GetRemoveMap ==
    ASSUME CacheInv, NEW c \in Clients, GetRemoveExpired(c), op[c].map = cur
    PROVE  heap'[cur'] = Without(heap[cur], {op[c].key}) /\ op[c].key \in Keys
BY MapFacts, CallFields, InstalledMap DEF GetRemoveExpired

LEMMA CleanupChunkMap ==
    ASSUME CacheInv, CleanupChunk
    PROVE  /\ \E ks \in SUBSET ExpiredKeys(sweep.now) :
                 heap'[cur'] = Without(heap[cur], ks)
           /\ sweep.now \in Nat /\ sweep.now <= clock
<1>1. PICK chunk \in Some(sweep.keys, ChunkSize) :
         heap' = [heap EXCEPT ![cur] =
                    Without(@, chunk \cap ExpiredKeys(sweep.now))]
  BY DEF CleanupChunk
<1> DEFINE ks == chunk \cap ExpiredKeys(sweep.now)
<1>2. heap' = [heap EXCEPT ![cur] = Without(heap[cur], ks)] /\ cur' = cur
  BY <1>1, MapFacts DEF CleanupChunk
<1>3. heap'[cur'] = Without(heap[cur], ks)
  <2> HIDE DEF ks
  <2> QED BY <1>2, MapFacts, InstalledMap
<1>4. sweep.now \in Nat /\ sweep.now <= clock
  BY SweepFields DEF CleanupChunk, CacheInv, SweepOK
<1> QED BY <1>3, <1>4

-----------------------------------------------------------------------------
(***************************************************************************)
(* The map stays right about a key in the steps that treat map and history *)
(* alike, and in those that take from the map what Get would not return.   *)
(***************************************************************************)
Gone(e) == e = NoEntry \/ ~Live(e)

KeyStep(k) ==
    \/ heap'[cur'][k] = heap[cur][k] /\ truth'[k] = truth[k]
    \/ heap'[cur'][k] = truth'[k]
    \/ /\ heap'[cur'][k] = NoEntry /\ Gone(heap[cur][k])
       /\ truth'[k] = truth[k]

LEMMA FaithfulKept ==
    ASSUME CacheInv, CacheInv', NEW k \in Keys, KeyStep(k),
           clock <= clock', Faithful(k)
    PROVE  Faithful(k)'
<1>1. /\ heap[cur][k] \in Entries \cup {NoEntry}
      /\ truth[k] \in Entries \cup {NoEntry}
  BY MapFacts DEF Contents
<1>2. clock \in Nat /\ clock' \in Nat
  BY DEF CacheInv, SweepOK
<1>3. ASSUME NEW e \in Entries, Live(e)' PROVE Live(e)
  BY <1>2, <1>3 DEF Live, Entries, Never
<1>4. CASE heap'[cur'][k] = heap[cur][k] /\ truth'[k] = truth[k]
  <2>1. heap'[cur'][k] \in {truth'[k], NoEntry}
    BY <1>4 DEF Faithful
  <2>2. ASSUME truth'[k] # NoEntry, Live(truth[k])'
        PROVE  heap'[cur'][k] = truth'[k]
    BY <1>1, <1>3, <1>4, <2>2 DEF Faithful
  <2> QED BY <1>4, <2>1, <2>2 DEF Faithful
<1>5. CASE heap'[cur'][k] = truth'[k]
  BY <1>5 DEF Faithful
<1>6. CASE /\ heap'[cur'][k] = NoEntry /\ Gone(heap[cur][k])
           /\ truth'[k] = truth[k]
  <2>1. ASSUME truth[k] # NoEntry, Live(truth[k])' PROVE FALSE
    <3>1. Live(truth[k])
      BY <1>1, <1>2, <1>6, <2>1 DEF Live, Never, Entries
    <3>2. heap[cur][k] = truth[k]
      BY <2>1, <3>1 DEF Faithful
    <3> QED BY <1>6, <2>1, <3>1, <3>2 DEF Gone
  <2> QED BY <1>6, <2>1 DEF Faithful
<1> QED BY <1>4, <1>5, <1>6 DEF KeyStep

LEMMA WithoutAt ==
    ASSUME NEW items, NEW ks, NEW k \in Keys
    PROVE  Without(items, ks)[k] = IF k \in ks THEN NoEntry ELSE items[k]
BY DEF Without

LEMMA ChunkKeyStep ==
    ASSUME CacheInv, EveryTTLEnds, CleanupChunk, NEW k \in Keys
    PROVE  KeyStep(k)
<1>1. PICK ks \in SUBSET ExpiredKeys(sweep.now) :
         heap'[cur'] = Without(heap[cur], ks)
  BY CleanupChunkMap
<1>2. truth' = truth
  BY DEF CleanupChunk
<1>3. CASE k \in ks
  <2>1. /\ heap[cur][k] \in Entries /\ heap[cur][k].expires < sweep.now
        /\ Perishable(heap[cur][k])
    BY <1>3, MapFacts DEF ExpiredKeys, Before, Present, Contents, Good
  <2>2. ~Live(heap[cur][k])
    BY <2>1, CleanupChunkMap, MapFacts DEF Live, Never, Perishable, Entries
  <2> QED BY <1>1, <1>2, <1>3, <2>2, WithoutAt DEF KeyStep, Gone
<1>4. CASE k \notin ks
  BY <1>1, <1>2, <1>4, WithoutAt DEF KeyStep
<1> QED BY <1>3, <1>4

LEMMA CallKeyStep ==
    ASSUME CacheInv, NEW c \in Clients, ~closed, NEW k \in Keys,
           \/ SetCommit(c) \/ SetNoRoom(c) \/ DeleteCommit(c)
           \/ ClearCommit(c) \/ CloseCommit(c)
    PROVE  KeyStep(k)
<1> DEFINE j == op[c].key
<1>1. CASE SetCommit(c)
  <2>1. PICK n \in 0 .. Len(policy.list) :
           /\ heap'[cur'] = [Evicted(heap[cur], n) EXCEPT ![j] = op[c].entry]
           /\ truth' = [Evicted(truth, n) EXCEPT ![j] = op[c].entry]
    BY <1>1, SetCommitMap
  <2>2. Evicted(heap[cur], n) \in Contents /\ Evicted(truth, n) \in Contents
    BY MapFacts, WithoutGood DEF Evicted
  <2>3. CASE k = j
    BY <2>1, <2>2, <2>3 DEF KeyStep, Contents
  <2>4. CASE k # j
    <3>1. /\ heap'[cur'][k] = Evicted(heap[cur], n)[k]
          /\ truth'[k] = Evicted(truth, n)[k]
      BY <2>1, <2>2, <2>4 DEF Contents
    <3> QED BY <3>1, WithoutAt DEF KeyStep, Evicted
  <2> QED BY <2>3, <2>4
<1>2. CASE SetNoRoom(c)
  BY <1>2, SetNoRoomMap, WithoutAt DEF KeyStep, Evicted
<1>3. CASE DeleteCommit(c)
  <2>1. heap'[cur'] = Without(heap[cur], {j}) /\ truth' = Without(truth, {j})
    BY <1>3, DeleteCommitMap
  <2> QED BY <2>1, WithoutAt DEF KeyStep
<1>4. CASE ClearCommit(c) \/ CloseCommit(c)
  BY <1>4, EmptyingMap DEF KeyStep
<1> QED BY <1>1, <1>2, <1>3, <1>4

LEMMA NextKeyStep ==
    ASSUME CacheInv, EveryTTLEnds, [Next]_vars, ~closed', NEW k \in Keys,
           \A c \in Clients : ~GetRemoveExpired(c)
    PROVE  KeyStep(k)
<1>1. CASE MapUnchanged
  BY <1>1 DEF MapUnchanged, KeyStep
<1>2. CASE CleanupChunk
  BY <1>2, ChunkKeyStep
<1>3. ASSUME NEW c \in Clients, MapStep(c) PROVE KeyStep(k)
  BY <1>3, OnlyMapSteps, CallKeyStep DEF MapStep
<1> QED BY <1>1, <1>2, <1>3, OnlyMapSteps

\* No step but the second critical section of a Get makes the map wrong about
\* a key: any number of clients may set, delete, clear and evict while the
\* cleanup goroutine works from keys that it collected earlier and the store
\* fails.
THEOREM OnlyGetDisturbsHolds ==
    ASSUME EveryTTLEnds
    PROVE  Spec => OnlyGetDisturbs
<1> DEFINE Step ==
      /\ ~closed'
      /\ \A c \in Clients : op[c].pc = "getExpire" => op'[c] = op[c]
      => \A k \in Keys : Faithful(k) => Faithful(k)'
<1>1. CacheInv /\ [Next]_vars => Step
  <2> SUFFICES ASSUME CacheInv, [Next]_vars, ~closed',
                      \A c \in Clients : op[c].pc = "getExpire" =>
                                            op'[c] = op[c],
                      NEW k \in Keys, Faithful(k)
               PROVE  Faithful(k)'
    OBVIOUS
  <2>1. ASSUME NEW c \in Clients, GetRemoveExpired(c) PROVE FALSE
    <3>1. op[c].pc = "getExpire" /\ op'[c].pc = "getStore"
      BY <2>1, MapFacts DEF GetRemoveExpired, Continue
    <3> QED BY <3>1
  <2> QED BY <2>1, NextKeyStep, OnlyMapSteps, InvNext, FaithfulKept
<1>2. CacheInv /\ [Next]_vars => [Step]_vars
  BY <1>1
<1> QED BY <1>2, CacheInvHolds, PTL DEF Spec, OnlyGetDisturbs

-----------------------------------------------------------------------------
(***************************************************************************)
(* A Get that is about to remove an entry does no harm if there is nobody  *)
(* to change the map before it does, or nothing ever expires.              *)
(***************************************************************************)
OneClient == \A c, d \in Clients : c = d

GetsSafe ==
    \A c \in Clients : op[c].pc = "getExpire" =>
        /\ OneClient /\ ~NothingExpires
        /\ ~closed => op[c].map = cur /\ Gone(heap[cur][op[c].key])

\* The only steps that move a client's call, and that it is at getExpire only
\* when it has just looked.
LEMMA GetExpireStep ==
    ASSUME CacheInv, [Next]_vars, NEW c \in Clients, op'[c].pc = "getExpire"
    PROVE  \/ GetFindsExpired(c)
           \/ /\ op'[c] = op[c]
              /\ OneClient => /\ cur' = cur
                              /\ CleanupChunk \/ heap'[cur'] = heap[cur]
<1>1. op \in [Clients -> GoodCalls] /\ op' \in [Clients -> GoodCalls]
  BY MapFacts, InvNext DEF CacheInv, CallsOK
<1>2. ASSUME NEW d \in Clients, Begin(d)
      PROVE  op'[c] = op[c] /\ cur' = cur /\ heap' = heap
  <2>1. cur' = cur /\ heap' = heap
    BY <1>2 DEF Begin, CallRefused, GetBegin, SetBegin, DeleteBegin,
       ClearBegin, CloseBegin, CloseAgain, ResetStats, sharedVars
  <2>2. CASE CallRefused(d) \/ ResetStats(d)
    BY <2>1, <2>2 DEF CallRefused, ResetStats, TurnAway
  <2>3. CASE GetBegin(d) \/ DeleteBegin(d)
    BY <1>1, <2>1, <2>3 DEF GetBegin, DeleteBegin, Enter
  <2>4. CASE SetBegin(d)
    BY <1>1, <2>1, <2>4 DEF SetBegin, Enter, TurnAway
  <2>5. CASE ClearBegin(d) \/ CloseBegin(d) \/ CloseAgain(d)
    BY <1>1, <2>1, <2>5 DEF ClearBegin, CloseBegin, CloseAgain, Enter, TurnAway
  <2> QED BY <1>2, <2>2, <2>3, <2>4, <2>5 DEF Begin
<1>3. ASSUME NEW d \in Clients, Proceed(d), ~GetFindsExpired(c)
      PROVE  d # c /\ op'[c] = op[c]
  <2>1. GetFindsExpired(d) => d # c
    BY <1>3
  <2>2. \/ GetFindsExpired(d)
        \/ \E o : op' = [op EXCEPT ![d] = o] /\ o.pc # "getExpire"
    BY <1>3 DEF Proceed, GetHit, GetFindsNothing,
       GetRemoveExpired, GetFromStore, GetMiss, SetCommit, SetNoRoom,
       DeleteCommit, ClearCommit, CloseSweepDone, CloseCommit, CloseReturn,
       Return, Continue, Idle
  <2>3. \E o : op' = [op EXCEPT ![d] = o]
    BY <2>2 DEF GetFindsExpired, Continue
  <2>4. d # c
    BY <1>1, <2>1, <2>2
  <2> QED BY <1>1, <2>3, <2>4
<1>4. CASE Cleanup \/ TimePasses \/ Finished \/ UNCHANGED vars
  BY <1>4 DEF Cleanup, CleanupTick, CleanupScan, CleanupChunk, CleanupStop,
              TimePasses, Finished, vars, sharedVars
<1> QED BY <1>2, <1>3, <1>4 DEF Next, OneClient

LEMMA GetsSafeKept ==
    ASSUME CacheInv, OneClient \/ NothingExpires, GetsSafe, [Next]_vars
    PROVE  GetsSafe'
<1> SUFFICES ASSUME NEW c \in Clients, op'[c].pc = "getExpire"
             PROVE  /\ OneClient /\ ~NothingExpires
                    /\ ~closed' => op'[c].map = cur' /\
                                     Gone(heap[cur][op[c].key])'
  BY DEF GetsSafe, OneClient, NothingExpires
<1>1. CASE GetFindsExpired(c)
  <2> DEFINE k == op[c].key
  <2>1. k \in Keys /\ Items[k] # NoEntry /\ ~Live(Items[k])
    BY <1>1, MapFacts, CallFields DEF GetFindsExpired
  <2>2. ~closed /\ closed' = closed /\ heap[cur][k] # NoEntry
        /\ ~Live(heap[cur][k])
    BY <1>1, <2>1, WithoutAt DEF Items, NoItems, GetFindsExpired, sharedVars
  <2>3. ~NothingExpires
    <3>1. Perishable(heap[cur][k]) /\ heap[cur][k] \in Entries
      BY <2>1, <2>2, MapFacts DEF Good, Present, Contents
    <3>2. clock <= MaxTime /\ clock \in Nat /\ MaxTime \in Nat
      BY CacheAssumption DEF CacheInv, SweepOK
    <3> QED BY <2>2, <3>1, <3>2 DEF Perishable, Live, Entries
  <2>4. op'[c] = [pc |-> "getExpire", key |-> k, map |-> cur]
        /\ cur' = cur /\ heap' = heap /\ clock' = clock
    BY <1>1, MapFacts DEF GetFindsExpired, Continue, sharedVars
  <2>5. op'[c].map = cur' /\ op'[c].key = k
    BY <2>4
  <2>6. Gone(heap[cur][op[c].key])'
    BY <2>2, <2>4, <2>5 DEF Gone, Live
  <2> QED BY <2>3, <2>5, <2>6
<1>2. CASE /\ op'[c] = op[c]
           /\ OneClient => /\ cur' = cur
                           /\ CleanupChunk \/ heap'[cur'] = heap[cur]
  <2> DEFINE k == op[c].key
  <2>1. OneClient /\ ~NothingExpires
        /\ (~closed => op[c].map = cur /\ Gone(heap[cur][k]))
    BY <1>2 DEF GetsSafe
  <2>2. k \in Keys
    BY <1>2, MapFacts, CallFields
  <2>3. ASSUME ~closed'
        PROVE  op'[c].map = cur' /\ Gone(heap[cur][op[c].key])'
    <3>1. ~closed /\ clock' \in Nat /\ clock <= clock' /\ clock \in Nat
      BY <2>3, OnlyMapSteps, MapFacts
    <3>2. heap'[cur'][k] \in {heap[cur][k], NoEntry}
      BY <1>2, <2>1, <2>2, CleanupChunkMap, WithoutAt
    <3>3. heap[cur][k] \in Entries \cup {NoEntry}
      BY <2>2, MapFacts DEF Contents
    <3>4. Gone(heap[cur][k])
      BY <2>1, <3>1
    <3>5. heap'[cur'][k] = NoEntry
          \/ ~(heap'[cur'][k].expires = Never
                \/ clock' < heap'[cur'][k].expires)
      BY <3>1, <3>2, <3>3, <3>4 DEF Gone, Live, Entries, Never
    <3> QED BY <1>2, <2>1, <3>1, <3>5 DEF Gone, Live
  <2> QED BY <1>2, <2>1, <2>3
<1> QED BY <1>1, <1>2, GetExpireStep

LEMMA GetsSafeInit == Init => GetsSafe
BY DEF Init, GetsSafe, Idle

\* Every entry expires some day, and there is one client or none expires soon.
Undisturbed == EveryTTLEnds /\ (OneClient \/ NothingExpires)

LEMMA NothingExpiresEnds == NothingExpires => EveryTTLEnds
BY CacheAssumption, TTLConfigAssumption
DEF NothingExpires, EveryTTLEnds, Validate

RightInv == GetsSafe /\ MapFaithful

LEMMA SafeGetKeyStep ==
    ASSUME CacheInv, GetsSafe, NEW c \in Clients, GetRemoveExpired(c),
           ~closed, NEW k \in Keys
    PROVE  KeyStep(k)
<1>1. op[c].map = cur /\ Gone(heap[cur][op[c].key])
  BY DEF GetsSafe, GetRemoveExpired
<1>2. heap'[cur'] = Without(heap[cur], {op[c].key}) /\ truth' = truth
  BY <1>1, GetRemoveMap DEF GetRemoveExpired
<1> QED BY <1>1, <1>2, WithoutAt DEF KeyStep

LEMMA RightKept ==
    ASSUME CacheInv, Undisturbed, RightInv, [Next]_vars
    PROVE  RightInv'
<1>1. GetsSafe'
  BY GetsSafeKept DEF RightInv, Undisturbed
<1>2. ASSUME ~closed', NEW k \in Keys PROVE Faithful(k)'
  <2>1. ~closed /\ clock <= clock' /\ Faithful(k)
    BY <1>2, OnlyMapSteps DEF RightInv, MapFaithful
  <2>2. KeyStep(k)
    <3>1. ASSUME NEW c \in Clients, GetRemoveExpired(c) PROVE KeyStep(k)
      BY <2>1, <3>1, SafeGetKeyStep DEF RightInv
    <3> QED BY <1>2, <3>1, NextKeyStep DEF Undisturbed
  <2> QED BY <2>1, <2>2, InvNext, FaithfulKept
<1> QED BY <1>1, <1>2 DEF RightInv, MapFaithful

LEMMA RightInit == Init => RightInv
<1> SUFFICES ASSUME Init PROVE RightInv
  OBVIOUS
<1>1. heap[cur] = NoItems /\ truth = NoItems
  BY CacheAssumption DEF Init
<1> QED BY <1>1, GetsSafeInit DEF RightInv, MapFaithful, Faithful

LEMMA RightHolds == ASSUME Undisturbed PROVE Spec => []RightInv
<1>1. CacheInv /\ RightInv /\ [Next]_vars => RightInv'
  BY RightKept
<1> QED BY <1>1, RightInit, CacheInvHolds, PTL DEF Spec

\* The map is right about every key if there is one client, whatever cleanup
\* does beside it, or, with any number of them, as long as no TTL runs out.
THEOREM MapFaithfulHolds == ASSUME Undisturbed PROVE Spec => []MapFaithful
BY RightHolds, PTL DEF RightInv

\* What was set and neither deleted, cleared nor evicted since is found until
\* it expires, under the same conditions.
THEOREM NoLostUpdateHolds == ASSUME Undisturbed PROVE Spec => []NoLostUpdate
<1>1. MapFaithful => NoLostUpdate
  BY DEF MapFaithful, Faithful, NoLostUpdate
<1> QED BY <1>1, MapFaithfulHolds, PTL

-----------------------------------------------------------------------------
(***************************************************************************)
(* The store, while it works, has what the map has.                        *)
(***************************************************************************)
StoreWorks == HasStore => ~StoreMayFail

\* The store is closed, and a call is past the flag, in a closed cache only.
Ending ==
    /\ once # "new" => closed
    /\ \A c \in Clients : op[c].pc \in {"closeWait", "closeCommit"} => closed

LEMMA EndingKept ==
    ASSUME CacheInv, Ending, [Next]_vars
    PROVE  Ending'
<1>1. op \in [Clients -> GoodCalls] /\ op' \in [Clients -> GoodCalls]
  BY MapFacts, InvNext DEF CacheInv, CallsOK
<1>2. closed => Ending'
  BY OnlyMapSteps, InvNext DEF Ending, CacheInv, FlagsOK
<1>3. ASSUME NEW d \in Clients, Begin(d), ~closed PROVE Ending'
  <2>1. CASE CallRefused(d) \/ ResetStats(d)
    BY <2>1, <1>3 DEF CallRefused, ResetStats, TurnAway, Ending, sharedVars
  <2>2. CASE GetBegin(d) \/ DeleteBegin(d) \/ ClearBegin(d)
    BY <1>1, <2>2 DEF GetBegin, DeleteBegin, ClearBegin, Enter, Ending,
                      sharedVars
  <2>3. CASE SetBegin(d)
    BY <1>1, <2>3 DEF SetBegin, Enter, TurnAway, Ending, sharedVars
  <2>4. CASE CloseBegin(d)
    BY <2>4 DEF CloseBegin, Ending
  <2>5. CASE CloseAgain(d)
    BY <1>3, <2>5 DEF CloseAgain, Ending
  <2> QED BY <1>3, <2>1, <2>2, <2>3, <2>4, <2>5 DEF Begin
<1>4. ASSUME NEW d \in Clients, Proceed(d), ~closed PROVE Ending'
  <2>1. ~CloseSweepDone(d) /\ ~CloseCommit(d)
    BY <1>4 DEF CloseSweepDone, CloseCommit, Ending
  <2>2. once' = once /\ closed' = closed
    BY <1>4, <2>1 DEF Proceed, GetHit, GetFindsExpired, GetFindsNothing,
       GetRemoveExpired, GetFromStore, GetMiss, SetCommit, SetNoRoom,
       DeleteCommit, ClearCommit, CloseReturn, sharedVars
  <2>3. \E o : /\ op' = [op EXCEPT ![d] = o]
               /\ o.pc \notin {"closeWait", "closeCommit"}
    BY <1>4, <2>1 DEF Proceed, GetHit, GetFindsExpired, GetFindsNothing,
       GetRemoveExpired, GetFromStore, GetMiss, SetCommit, SetNoRoom,
       DeleteCommit, ClearCommit, CloseReturn, Return, Continue, Idle
  <2>4. \A c \in Clients :
           op'[c].pc \in {"closeWait", "closeCommit"} => op'[c] = op[c]
    BY <1>1, <2>3
  <2> QED BY <2>2, <2>4 DEF Ending
<1>5. CASE Cleanup \/ TimePasses \/ Finished \/ UNCHANGED vars
  BY <1>5 DEF Cleanup, CleanupTick, CleanupScan, CleanupChunk, CleanupStop,
              TimePasses, Finished, vars, sharedVars, Ending
<1> QED BY <1>2, <1>3, <1>4, <1>5 DEF Next

LEMMA EndingHolds == Spec => []Ending
<1>1. Init => Ending
  BY DEF Init, Ending, Idle
<1>2. CacheInv /\ Ending /\ [Next]_vars => Ending'
  BY EndingKept
<1> QED BY <1>1, <1>2, CacheInvHolds, PTL DEF Spec

LEMMA GetsSafeHolds ==
    ASSUME OneClient \/ NothingExpires
    PROVE  Spec => []GetsSafe
<1>1. CacheInv /\ GetsSafe /\ [Next]_vars => GetsSafe'
  BY GetsSafeKept
<1> QED BY <1>1, GetsSafeInit, CacheInvHolds, PTL DEF Spec

\* Entries leave the map and nobody is told.
MapShrinks == /\ \E ks : heap'[cur'] = Without(heap[cur], ks)
              /\ UNCHANGED <<stored, policy, statSize>>

LEMMA OpenSteps ==
    ASSUME CacheInv, Ending, GetsSafe, [Next]_vars, ~closed'
    PROVE  /\ ~closed /\ (StoreWorks => ~(HasStore /\ StoreRefuses))
           /\ \/ MapUnchanged \/ MapShrinks
              \/ \E c \in Clients : \/ SetCommit(c) \/ SetNoRoom(c)
                                    \/ DeleteCommit(c) \/ ClearCommit(c)
<1>1. ~closed
  BY OnlyMapSteps
<1>2. StoreWorks => ~(HasStore /\ StoreRefuses)
  BY <1>1 DEF Ending, StoreWorks, StoreRefuses
<1>3. ASSUME CleanupChunk PROVE MapShrinks
  BY <1>3, CleanupChunkMap DEF CleanupChunk, MapShrinks
<1>4. ASSUME NEW c \in Clients, GetRemoveExpired(c) PROVE MapShrinks
  <2>1. op[c].map = cur
    BY <1>1, <1>4 DEF GetsSafe, GetRemoveExpired
  <2> QED BY <1>4, <2>1, GetRemoveMap DEF GetRemoveExpired, MapShrinks
<1>5. \A c \in Clients : ~CloseCommit(c)
  BY <1>1 DEF CloseCommit, Ending
<1> QED BY <1>1, <1>2, <1>3, <1>4, <1>5, OnlyMapSteps DEF MapStep

Mirrored ==
    ~closed => \A k \in Present(heap[cur]) : stored[k].value = heap[cur][k].value

LEMMA MirroredKept ==
    ASSUME CacheInv, Ending, GetsSafe, HasStore, ~StoreMayFail, Mirrored,
           [Next]_vars
    PROVE  Mirrored'
<1> SUFFICES ASSUME ~closed', NEW k \in Present(heap'[cur'])
             PROVE  stored'[k].value = heap'[cur'][k].value
  BY DEF Mirrored
<1>1. ~closed /\ ~StoreRefuses /\ k \in Keys
  BY OpenSteps DEF StoreWorks, Present
<1>2. k \in Present(heap[cur]) => stored[k].value = heap[cur][k].value
  BY <1>1 DEF Mirrored
<1>3. CASE MapUnchanged
  BY <1>2, <1>3 DEF MapUnchanged
<1>4. CASE MapShrinks
  BY <1>1, <1>2, <1>4, WithoutAt DEF MapShrinks, Present
<1>5. ASSUME NEW c \in Clients, SetCommit(c)
      PROVE  stored'[k].value = heap'[cur'][k].value
  <2> DEFINE j == op[c].key
  <2>1. j \in Keys /\ op[c].entry \in Entries
    BY <1>1, <1>5, SetCommitMap
  <2>2. PICK n \in 0 .. Len(policy.list) :
           /\ heap'[cur'] = [Evicted(heap[cur], n) EXCEPT ![j] = op[c].entry]
           /\ stored' = Persisted(j, op[c].entry.value, op[c].ttl)
    BY <1>1, <1>5, SetCommitMap
  <2>3. Evicted(heap[cur], n) \in Contents /\ stored \in Contents
    BY MapFacts, WithoutGood DEF Evicted
  <2>4. CASE k = j
    BY <2>1, <2>2, <2>3, <2>4 DEF Persisted, Contents
  <2>5. CASE k # j
    <3>1. heap'[cur'][k] = Evicted(heap[cur], n)[k] /\ stored'[k] = stored[k]
      BY <2>1, <2>2, <2>3, <2>5 DEF Persisted, Contents
    <3> QED BY <1>1, <1>2, <3>1, WithoutAt DEF Evicted, Present
  <2> QED BY <2>4, <2>5
<1>6. ASSUME NEW c \in Clients, SetNoRoom(c)
      PROVE  stored'[k].value = heap'[cur'][k].value
  BY <1>1, <1>2, <1>6, SetNoRoomMap, WithoutAt DEF SetNoRoom, Evicted, Present
<1>7. ASSUME NEW c \in Clients, DeleteCommit(c)
      PROVE  stored'[k].value = heap'[cur'][k].value
  <2>1. /\ heap'[cur'] = Without(heap[cur], {op[c].key})
        /\ stored' = Without(stored, {op[c].key})
    BY <1>1, <1>7, DeleteCommitMap
  <2> QED BY <1>1, <1>2, <2>1, WithoutAt DEF Present
<1>8. ASSUME NEW c \in Clients, ClearCommit(c)
      PROVE  FALSE
  BY <1>1, <1>8, EmptyingMap DEF NoItems, Present
<1> QED BY <1>3, <1>4, <1>5, <1>6, <1>7, <1>8, OpenSteps

\* What Get would return from memory is in the store too, with a store that
\* works: for one client with any TTLs, for several while nothing expires.
THEOREM WriteThroughHolds ==
    ASSUME OneClient \/ NothingExpires, HasStore, ~StoreMayFail
    PROVE  Spec => []WriteThrough
<1>1. Init => Mirrored
  <2>1. Init => heap[cur] = NoItems
    BY CacheAssumption DEF Init
  <2> QED BY <2>1 DEF Mirrored, Present, NoItems
<1>2. CacheInv /\ Ending /\ GetsSafe /\ Mirrored /\ [Next]_vars => Mirrored'
  BY MirroredKept
<1>3. Mirrored => WriteThrough
  BY DEF Mirrored, WriteThrough, Backed, Present
<1> QED BY <1>1, <1>2, <1>3, CacheInvHolds, EndingHolds, GetsSafeHolds, PTL
        DEF Spec

-----------------------------------------------------------------------------
(***************************************************************************)
(* Set finds room.  The policy need not know every key of the map: OnSet   *)
(* drops a key when the policy is full of keys that have left the map      *)
(* unannounced.  But a full map holds a key that the policy knows, the one *)
(* that was set last if none has left the map since.                       *)
(***************************************************************************)
Tracked ==
    ~closed /\ MaxSize > 0 /\ Size(heap[cur]) >= MaxSize
        => Present(heap[cur]) \cap policy.items # {}

LEMMA FewerInSmaller ==
    ASSUME NEW items, NEW rest, Present(rest) \subseteq Present(items),
           Size(rest) >= Size(items)
    PROVE  Present(rest) = Present(items)
BY SizeFacts, FS_Subset DEF Size

LEMMA AllVictims ==
    ASSUME NEW q \in Record(Keys), WellFormed(q)
    PROVE  Victims(q, Len(q.list)) = q.items /\ Victims(q, 0) = {}
<1>1. Len(q.list) \in Nat /\ DOMAIN q.list = 1 .. Len(q.list)
  BY LenProperties DEF Record
<1>2. q.items = {q.list[i] : i \in DOMAIN q.list}
  BY DEF WellFormed, ToSet
<1> QED BY <1>1, <1>2 DEF Victims

LEMMA RoomIsMade ==
    ASSUME CacheInv, Tracked, NEW c \in Clients, SetNoRoom(c)
    PROVE  FALSE
<1> DEFINE n == Len(policy.list)
<1>1. n \in 0 .. n /\ 0 \in 0 .. n
  BY MapFacts, LenProperties DEF Record
<1>2. ~HasRoom(Evicted(Items, 0)) /\ ~HasRoom(Evicted(Items, n))
  BY <1>1 DEF SetNoRoom
<1>3. MaxSize \in Nat /\ MaxSize > 0
  BY <1>2, CacheAssumption DEF HasRoom
<1>4. Items \in Contents /\ Fits(Items)
  BY ItemsGood DEF CacheInv, Good
<1>5. /\ Present(Evicted(Items, 0)) = Present(Items)
      /\ Present(Evicted(Items, n)) = Present(Items) \ policy.items
  <2>1. Victims(policy, n) = policy.items /\ Victims(policy, 0) = {}
    BY AllVictims, MapFacts
  <2>2. \A ks : Present(Without(Items, ks)) = Present(Items) \ ks
    BY <1>4, WithoutGood
  <2> HIDE DEF n
  <2> QED BY <2>1, <2>2 DEF Evicted
<1>6. /\ Size(Evicted(Items, 0)) >= MaxSize /\ Size(Evicted(Items, n)) >= MaxSize
      /\ Size(Items) <= MaxSize
      /\ Size(Items) = Size(Evicted(Items, 0))
      /\ Size(Items) \in Nat /\ Size(Evicted(Items, n)) \in Nat
  <2>1. Size(Items) = Size(Evicted(Items, 0))
    BY <1>5 DEF Size
  <2>2. /\ Size(Items) \in Nat /\ Size(Evicted(Items, n)) \in Nat
        /\ Size(Evicted(Items, 0)) \in Nat
    BY SizeFacts
  <2> QED BY <1>2, <1>3, <1>4, <2>1, <2>2 DEF HasRoom, Fits
<1>7. Present(Items) = Present(Items) \ policy.items
  <2>1. Size(Evicted(Items, n)) >= Size(Items)
    BY <1>3, <1>6
  <2> QED BY <1>5, <2>1, FewerInSmaller
<1>8. ~closed
  <2>1. ASSUME closed PROVE FALSE
    <3>1. Present(Items) = {}
      BY <2>1 DEF Items, NoItems, Present
    <3>2. Size(Items) = 0
      BY <3>1, FS_EmptySet DEF Size
    <3> QED BY <1>3, <1>6, <3>2
  <2> QED BY <2>1
<1>9. Items = heap[cur] /\ Size(heap[cur]) >= MaxSize
  BY <1>3, <1>6, <1>8 DEF Items
<1> QED BY <1>3, <1>7, <1>8, <1>9 DEF Tracked

LEMMA SetIsTracked ==
    ASSUME NEW q, NEW k
    PROVE  k \in AfterSet(q, k, MaxSize).items
BY DEF AfterSet

LEMMA TrackedKept ==
    ASSUME CacheInv, Ending, GetsSafe, StoreWorks, Tracked, [Next]_vars
    PROVE  Tracked'
<1> SUFFICES ASSUME ~closed', MaxSize > 0, Size(heap'[cur']) >= MaxSize
             PROVE  Present(heap'[cur']) \cap policy'.items # {}
  BY DEF Tracked, Size, Present
<1>1. ~closed /\ ~(HasStore /\ StoreRefuses)
  BY OpenSteps
<1>2. /\ Size(heap[cur]) <= MaxSize /\ Size(heap[cur]) \in Nat
      /\ Size(heap'[cur']) \in Nat /\ MaxSize \in Nat
  BY MapFacts, SizeFacts, CacheAssumption DEF Good, Fits
<1>3. ASSUME Present(heap'[cur']) \subseteq Present(heap[cur])
      PROVE  /\ Present(heap'[cur']) = Present(heap[cur])
             /\ Present(heap[cur]) \cap policy.items # {}
  <2>1. Size(heap'[cur']) >= Size(heap[cur])
    BY <1>2
  <2>2. Present(heap'[cur']) = Present(heap[cur])
    BY <1>3, <2>1, FewerInSmaller
  <2>3. Size(heap'[cur']) = Size(heap[cur])
    BY <2>2 DEF Size
  <2> QED BY <1>1, <2>2, <2>3 DEF Tracked
<1>4. CASE MapUnchanged
  BY <1>3, <1>4 DEF MapUnchanged
<1>5. CASE MapShrinks
  <2>1. Present(heap'[cur']) \subseteq Present(heap[cur]) /\ policy' = policy
    BY <1>5, WithoutGood, MapFacts DEF MapShrinks
  <2> QED BY <1>3, <2>1
<1>6. ASSUME NEW c \in Clients, SetCommit(c)
      PROVE  Present(heap'[cur']) \cap policy'.items # {}
  <2> DEFINE k == op[c].key
             e == op[c].entry
  <2>1. k \in Keys /\ e \in Entries
    BY <1>1, <1>6, SetCommitMap
  <2>2. PICK n \in 0 .. Len(policy.list) :
           /\ heap'[cur'] = [Evicted(heap[cur], n) EXCEPT ![k] = e]
           /\ policy' = AfterSet(DropBack(policy, n), k, MaxSize)
    BY <1>1, <1>6, SetCommitMap
  <2>3. Evicted(heap[cur], n) \in Contents
    BY MapFacts, WithoutGood DEF Evicted
  <2>4. heap'[cur'][k] = e
    BY <2>1, <2>2, <2>3 DEF Contents
  <2>5. k \in Present(heap'[cur'])
    BY <2>1, <2>4, EntriesAndNoEntry DEF Present
  <2> QED BY <2>2, <2>5, SetIsTracked
<1>7. ASSUME NEW c \in Clients, SetNoRoom(c) PROVE FALSE
  BY <1>7, RoomIsMade
<1>8. ASSUME NEW c \in Clients, DeleteCommit(c)
      PROVE  Present(heap'[cur']) \cap policy'.items # {}
  <2> DEFINE k == op[c].key
  <2>1. /\ heap'[cur'] = Without(heap[cur], {k})
        /\ policy' = AfterDelete(policy, k)
    BY <1>8, DeleteCommitMap
  <2>2. Present(heap'[cur']) = Present(heap[cur]) \ {k}
    BY <2>1, WithoutGood, MapFacts
  <2>3. policy.items \ {k} \subseteq policy'.items
    BY <2>1 DEF AfterDelete
  <2>4. Present(heap'[cur']) \subseteq Present(heap[cur])
    BY <2>2
  <2>5. /\ Present(heap'[cur']) = Present(heap[cur])
        /\ Present(heap[cur]) \cap policy.items # {}
    BY <1>3, <2>4
  <2> QED BY <2>2, <2>3, <2>5
<1>9. ASSUME NEW c \in Clients, ClearCommit(c) PROVE FALSE
  <2>1. Present(heap'[cur']) = {}
    BY <1>9, EmptyingMap DEF NoItems, Present
  <2>2. Size(heap'[cur']) = 0
    BY <2>1, FS_EmptySet DEF Size
  <2> QED BY <1>2, <2>2
<1> QED BY <1>4, <1>5, <1>6, <1>7, <1>8, <1>9, OpenSteps

LEMMA TrackedHolds ==
    ASSUME OneClient \/ NothingExpires, StoreWorks
    PROVE  Spec => []Tracked
<1>1. Init => Tracked
  <2> SUFFICES ASSUME Init PROVE Tracked
    OBVIOUS
  <2>1. heap[cur] = NoItems
    BY CacheAssumption DEF Init
  <2>2. Present(heap[cur]) = {}
    BY <2>1 DEF NoItems, Present
  <2>3. Size(heap[cur]) = 0
    BY <2>2, FS_EmptySet DEF Size
  <2> QED BY <2>3, CacheAssumption DEF Tracked
<1>2. CacheInv /\ Ending /\ GetsSafe /\ Tracked /\ [Next]_vars => Tracked'
  BY TrackedKept
<1> QED BY <1>1, <1>2, CacheInvHolds, EndingHolds, GetsSafeHolds, PTL DEF Spec

\* With an eviction policy Set makes room instead of failing, whatever has
\* expired, was cleared or was removed behind the back of the policy.
THEOREM SetMakesRoomHolds ==
    ASSUME OneClient \/ NothingExpires, StoreWorks, "capacityLimit" \notin Values
    PROVE  Spec => []SetMakesRoom
<1>1. Init => SetMakesRoom
  BY DEF Init, SetMakesRoom
<1>2. ASSUME CacheInv, Tracked, SetMakesRoom, [Next]_vars PROVE SetMakesRoom'
  <2>1. result \in [Clients -> Results]
    BY <1>2 DEF CacheInv, CallsOK
  <2>2. ASSUME NEW c \in Clients, Begin(c) PROVE SetMakesRoom'
    BY <1>2, <2>1, <2>2
    DEF Begin, CallRefused, GetBegin, SetBegin, DeleteBegin, ClearBegin,
        CloseBegin, CloseAgain, ResetStats, Enter, TurnAway, SetMakesRoom
  <2>3. ASSUME NEW c \in Clients, Proceed(c) PROVE SetMakesRoom'
    <3>1. CASE GetHit(c)
      <4>1. op[c].key \in Keys
        BY <1>2, <3>1, MapFacts, CallFields DEF GetHit
      <4>2. Items[op[c].key].value \in Values
        BY <1>2, <3>1, <4>1, ItemsGood DEF GetHit, CacheInv, Contents, Entries
      <4> QED BY <1>2, <2>1, <3>1, <4>2 DEF GetHit, Return, SetMakesRoom
    <3>2. CASE GetFromStore(c)
      <4>1. op[c].key \in Keys
        BY <1>2, <3>2, MapFacts, CallFields DEF GetFromStore
      <4>2. stored[op[c].key].value \in Values
        BY <1>2, <3>2, <4>1, MapFacts
        DEF GetFromStore, InStore, Contents, Entries
      <4> QED BY <1>2, <2>1, <3>2, <4>2 DEF GetFromStore, Return, SetMakesRoom
    <3>3. CASE \/ GetFindsExpired(c) \/ GetFindsNothing(c) \/ GetMiss(c)
               \/ GetRemoveExpired(c) \/ DeleteCommit(c) \/ ClearCommit(c)
               \/ CloseSweepDone(c) \/ CloseCommit(c) \/ CloseReturn(c)
      BY <1>2, <2>1, <3>3
      DEF GetFindsExpired, GetFindsNothing, GetMiss, GetRemoveExpired,
          DeleteCommit, ClearCommit, CloseSweepDone, CloseCommit, CloseReturn,
          Return, Continue, SetMakesRoom
    <3>4. CASE SetCommit(c)
      <4>1. Return(c, "ok") \/ Return(c, "storeError")
        BY <3>4 DEF SetCommit
      <4> QED BY <1>2, <2>1, <4>1 DEF Return, SetMakesRoom
    <3>5. ~SetNoRoom(c)
      BY <1>2, RoomIsMade
    <3> QED BY <2>3, <3>1, <3>2, <3>3, <3>4, <3>5 DEF Proceed
  <2>4. CASE Cleanup \/ TimePasses \/ Finished \/ UNCHANGED vars
    BY <1>2, <2>4 DEF Cleanup, CleanupTick, CleanupScan, CleanupChunk,
       CleanupStop, TimePasses, Finished, vars, SetMakesRoom
  <2> QED BY <1>2, <2>2, <2>3, <2>4 DEF Next
<1> QED BY <1>1, <1>2, CacheInvHolds, TrackedHolds, PTL DEF Spec

-----------------------------------------------------------------------------
(***************************************************************************)
(* The policy and the counter agree with the map as long as nothing leaves *)
(* it unannounced: no entry expires, and nobody calls Clear or ResetStats. *)
(***************************************************************************)
NobodyClears == {"clear", "reset"} \cap Ops = {}

Agree == /\ policy.items = Present(heap[cur])
         /\ statSize = Size(heap[cur])

BooksInv == /\ ~closed => Agree
            /\ \A c \in Clients : op[c].pc # "clearCommit"

LEMMA SizeOfSet ==
    ASSUME NEW items \in Contents, HasRoom(items), MaxSize > 0,
           NEW q, q.items = Present(items), NEW k \in Keys
    PROVE  AfterSet(q, k, MaxSize).items = Present(items) \cup {k}
<1>1. Cardinality(q.items) < MaxSize /\ Cardinality(q.items) \in Nat
      /\ MaxSize \in Nat
  BY SizeFacts, CacheAssumption DEF HasRoom, Size
<1>2. RoomFor(q, MaxSize) = q
  BY <1>1 DEF RoomFor
<1> QED BY <1>2 DEF AfterSet

LEMMA AgreeKept ==
    ASSUME CacheInv, Ending, GetsSafe, Tracked, NothingExpires, StoreWorks,
           MaxSize > 0, NobodyClears, BooksInv, [Next]_vars, ~closed'
    PROVE  Agree'
<1>1. /\ ~closed /\ ~(HasStore /\ StoreRefuses) /\ Agree
      /\ heap[cur] \in Contents
  BY OpenSteps, MapFacts DEF BooksInv
<1>2. CASE MapUnchanged
  BY <1>1, <1>2 DEF MapUnchanged, Agree, Size, Present, NobodyClears
<1>3. ASSUME CleanupChunk PROVE Agree'
  <2>1. PICK ks \in SUBSET ExpiredKeys(sweep.now) :
           heap'[cur'] = Without(heap[cur], ks)
    BY <1>3, CleanupChunkMap
  <2>2. ASSUME NEW k \in ks PROVE FALSE
    <3>1. /\ k \in Present(heap[cur]) /\ heap[cur][k].expires < sweep.now
          /\ heap[cur][k] \in Entries /\ heap[cur][k].expires > MaxTime
      BY <1>1, MapFacts
      DEF ExpiredKeys, Before, Present, Contents, Good, Perishable
    <3>2. /\ sweep.now \in Nat /\ sweep.now <= clock /\ clock <= MaxTime
          /\ clock \in Nat /\ MaxTime \in Nat
      BY <1>3, CleanupChunkMap, CacheAssumption DEF CacheInv, SweepOK
    <3> QED BY <3>1, <3>2 DEF Entries
  <2>3. Present(heap'[cur']) = Present(heap[cur])
    BY <1>1, <2>1, <2>2, WithoutGood
  <2> QED BY <1>1, <1>3, <2>3 DEF CleanupChunk, Agree, Size
<1>4. ASSUME NEW c \in Clients, SetCommit(c) PROVE Agree'
  <2> DEFINE k == op[c].key
             e == op[c].entry
  <2>1. k \in Keys /\ e \in Entries
    BY <1>1, <1>4, SetCommitMap
  <2>2. PICK n \in 0 .. Len(policy.list) :
           /\ HasRoom(Evicted(heap[cur], n))
           /\ heap'[cur'] = [Evicted(heap[cur], n) EXCEPT ![k] = e]
           /\ policy' = AfterSet(DropBack(policy, n), k, MaxSize)
           /\ statSize' = Size(heap'[cur'])
    BY <1>1, <1>4, SetCommitMap
  <2> DEFINE items == Evicted(heap[cur], n)
             q == DropBack(policy, n)
  <2>3. items \in Contents /\ Present(items) = Present(heap[cur]) \ Victims(policy, n)
    BY <1>1, WithoutGood DEF Evicted
  <2>4. q.items = Present(items)
    BY <1>1, <2>3 DEF DropBack, Agree
  <2>5. Present(heap'[cur']) = Present(items) \cup {k}
    BY <2>1, <2>2, <2>3, EntriesAndNoEntry DEF Present, Contents
  <2>6. policy'.items = Present(items) \cup {k}
    <3> HIDE DEF q, items, k
    <3>1. HasRoom(items) /\ policy' = AfterSet(q, k, MaxSize)
      BY <2>2 DEF q, items, k
    <3> QED BY <2>1, <2>3, <2>4, <3>1, SizeOfSet
  <2> QED BY <2>2, <2>5, <2>6 DEF Agree, Size
<1>5. ASSUME NEW c \in Clients, SetNoRoom(c) PROVE FALSE
  BY <1>5, RoomIsMade
<1>6. ASSUME NEW c \in Clients, DeleteCommit(c) PROVE Agree'
  <2> DEFINE k == op[c].key
  <2>1. /\ heap'[cur'] = Without(heap[cur], {k})
        /\ policy' = AfterDelete(policy, k)
        /\ statSize' = IF k \in Present(heap[cur]) THEN statSize - 1
                       ELSE statSize
    BY <1>6, DeleteCommitMap
  <2>2. Present(heap'[cur']) = Present(heap[cur]) \ {k}
    BY <1>1, <2>1, WithoutGood
  <2>3. policy'.items = policy.items \ {k}
    BY <2>1 DEF AfterDelete
  <2>4. statSize' = Size(heap'[cur'])
    <3>1. /\ IsFiniteSet(Present(heap[cur]))
          /\ statSize = Cardinality(Present(heap[cur]))
      BY <1>1, SizeFacts DEF Agree, Size
    <3>2. Cardinality(Present(heap[cur]) \ {k}) =
             IF k \in Present(heap[cur]) THEN statSize - 1 ELSE statSize
      BY <3>1, FS_RemoveElement
    <3> QED BY <2>1, <2>2, <3>2 DEF Size
  <2> QED BY <1>1, <2>2, <2>3, <2>4 DEF Agree
<1>7. \A c \in Clients : ~ClearCommit(c) /\ ~CloseCommit(c)
  BY <1>1 DEF ClearCommit, CloseCommit, BooksInv, Ending
<1>8. \A c \in Clients : ~GetRemoveExpired(c)
  BY DEF GetsSafe, GetRemoveExpired
<1> QED BY <1>2, <1>3, <1>4, <1>5, <1>6, <1>7, <1>8, OnlyMapSteps DEF MapStep

LEMMA NoClearCommit ==
    ASSUME CacheInv, NobodyClears, [Next]_vars,
           \A c \in Clients : op[c].pc # "clearCommit"
    PROVE  \A c \in Clients : op'[c].pc # "clearCommit"
<1>1. op \in [Clients -> GoodCalls]
  BY MapFacts
<1>2. ASSUME NEW d \in Clients, Begin(d)
      PROVE  \A c \in Clients : op'[c].pc # "clearCommit"
  <2>1. ~ClearBegin(d)
    BY DEF ClearBegin, Enter, NobodyClears
  <2>2. CASE CallRefused(d) \/ ResetStats(d)
    BY <2>2 DEF CallRefused, ResetStats, TurnAway
  <2>3. CASE GetBegin(d) \/ DeleteBegin(d)
    BY <1>1, <2>3 DEF GetBegin, DeleteBegin, Enter
  <2>4. CASE SetBegin(d)
    BY <1>1, <2>4 DEF SetBegin, Enter, TurnAway
  <2>5. CASE CloseBegin(d) \/ CloseAgain(d)
    BY <1>1, <2>5 DEF CloseBegin, CloseAgain, Enter, TurnAway
  <2> QED BY <1>2, <2>1, <2>2, <2>3, <2>4, <2>5 DEF Begin
<1>3. ASSUME NEW d \in Clients, Proceed(d)
      PROVE  \A c \in Clients : op'[c].pc # "clearCommit"
  <2>1. \E o : op' = [op EXCEPT ![d] = o] /\ o.pc # "clearCommit"
    BY <1>3 DEF Proceed, GetHit, GetFindsExpired, GetFindsNothing,
       GetRemoveExpired, GetFromStore, GetMiss, SetCommit, SetNoRoom,
       DeleteCommit, ClearCommit, CloseSweepDone, CloseCommit, CloseReturn,
       Return, Continue, Idle
  <2> QED BY <1>1, <2>1
<1>4. CASE Cleanup \/ TimePasses \/ Finished \/ UNCHANGED vars
  BY <1>4 DEF Cleanup, CleanupTick, CleanupScan, CleanupChunk, CleanupStop,
              TimePasses, Finished, vars
<1> QED BY <1>2, <1>3, <1>4 DEF Next

\* The policy tracks exactly the keys of the map and stats.Size counts them,
\* for any number of clients that get, set and delete.
THEOREM BooksAgreeHolds ==
    ASSUME NothingExpires, StoreWorks, MaxSize > 0, NobodyClears
    PROVE  Spec => []BooksAgree
<1>1. Init => BooksInv
  <2> SUFFICES ASSUME Init PROVE BooksInv
    OBVIOUS
  <2>1. heap[cur] = NoItems
    BY CacheAssumption DEF Init
  <2>2. Present(heap[cur]) = {}
    BY <2>1 DEF NoItems, Present
  <2>3. Size(heap[cur]) = 0
    BY <2>2, FS_EmptySet DEF Size
  <2> QED BY <2>2, <2>3 DEF Init, EmptyPolicy, Idle, BooksInv, Agree
<1>2. CacheInv /\ Ending /\ GetsSafe /\ Tracked /\ BooksInv /\ [Next]_vars
         => BooksInv'
  BY AgreeKept, NoClearCommit DEF BooksInv
<1>3. BooksInv => BooksAgree
  BY DEF BooksInv, Agree, BooksAgree
<1> QED BY <1>1, <1>2, <1>3, CacheInvHolds, EndingHolds, GetsSafeHolds,
           TrackedHolds, PTL DEF Spec

-----------------------------------------------------------------------------
(***************************************************************************)
(* The policy stays in step with the map about a key, and the store does   *)
(* not fall behind it, except in the steps that the properties name.       *)
(***************************************************************************)
LEMMA ChunkTakes ==
    ASSUME CacheInv, CleanupChunk, NEW k \in Keys,
           heap'[cur'][k] # heap[cur][k]
    PROVE  /\ sweep.pc = "remove" /\ sweep' # sweep
           /\ k \in ExpiredKeys(sweep.now)
<1>1. PICK chunk \in Some(sweep.keys, ChunkSize) :
         /\ heap' = [heap EXCEPT ![cur] =
                       Without(@, chunk \cap ExpiredKeys(sweep.now))]
         /\ sweep' = AfterScan(sweep.keys \ chunk, sweep.now)
  BY DEF CleanupChunk
<1> DEFINE ks == chunk \cap ExpiredKeys(sweep.now)
<1>2. heap' = [heap EXCEPT ![cur] = Without(heap[cur], ks)] /\ cur' = cur
  BY <1>1, MapFacts DEF CleanupChunk
<1>3. heap'[cur'] = Without(heap[cur], ks)
  <2> HIDE DEF ks
  <2> QED BY <1>2, MapFacts, InstalledMap
<1>4. k \in ks
  BY <1>3, MapFacts DEF Without, Contents
<1>5. k \in sweep.keys /\ k \notin sweep.keys \ chunk
  BY <1>4 DEF Some
<1>6. sweep' # sweep
  <2>1. CASE sweep.keys \ chunk = {}
    BY <1>1, <2>1 DEF AfterScan, CleanupChunk
  <2>2. CASE sweep.keys \ chunk # {}
    <3>1. sweep'.keys = sweep.keys \ chunk
      BY <1>1, <2>2 DEF AfterScan
    <3> QED BY <1>5, <3>1
  <2> QED BY <2>1, <2>2
<1> QED BY <1>4, <1>6 DEF CleanupChunk

\* A step that removes keys from both keeps them in step.
LEMMA RemovedFromBoth ==
    ASSUME CacheInv, NEW k \in Keys, NEW ks, InStep(k),
           heap'[cur'] = Without(heap[cur], ks),
           policy'.items = policy.items \ ks
    PROVE  InStep(k)'
BY WithoutAt DEF InStep

\* A policy that is full although there is room in the map has a key that the
\* map has lost.
LEMMA FullOfLost ==
    ASSUME CacheInv, NEW n, HasRoom(Evicted(heap[cur], n)), MaxSize > 0,
           Cardinality(DropBack(policy, n).items) >= MaxSize
    PROVE  \E j \in policy.items : heap[cur][j] = NoEntry
<1> SUFFICES ASSUME \A j \in policy.items : heap[cur][j] # NoEntry
             PROVE  FALSE
  OBVIOUS
<1> DEFINE items == Evicted(heap[cur], n)
           q == DropBack(policy, n)
<1>1. policy.items \subseteq Present(heap[cur])
  BY MapFacts DEF Present, Record
<1>2. Present(items) = Present(heap[cur]) \ Victims(policy, n)
  BY MapFacts, WithoutGood DEF Evicted
<1>3. q.items \subseteq Present(items)
  BY <1>1, <1>2 DEF DropBack
<1>4. IsFiniteSet(Present(items)) /\ Cardinality(Present(items)) \in Nat
  BY SizeFacts DEF Size
<1>5. Cardinality(q.items) <= Cardinality(Present(items))
      /\ Cardinality(q.items) \in Nat
  BY <1>3, <1>4, FS_Subset, FS_CardinalityType
<1>6. Cardinality(Present(items)) < MaxSize /\ MaxSize \in Nat
  BY CacheAssumption DEF HasRoom, Size
<1> QED BY <1>4, <1>5, <1>6

LEMMA SetInStep ==
    ASSUME CacheInv, ~closed, MaxSize > 0, NEW c \in Clients, SetCommit(c),
           NEW k \in Keys, InStep(k), ~InStep(k)'
    PROVE  PolicyMissesOut(k)
<1> DEFINE j == op[c].key
           e == op[c].entry
<1>1. /\ j \in Keys /\ e \in Entries
      /\ heap[cur] \in Contents /\ op \in [Clients -> GoodCalls]
      /\ result \in [Clients -> Results]
  BY SetCommitMap, MapFacts DEF CacheInv, CallsOK
<1>2. PICK n \in 0 .. Len(policy.list) :
         /\ HasRoom(Evicted(heap[cur], n))
         /\ heap'[cur'] = [Evicted(heap[cur], n) EXCEPT ![j] = e]
         /\ \/ /\ policy' = AfterSet(DropBack(policy, n), j, MaxSize)
               /\ Return(c, "ok")
            \/ policy' = DropBack(policy, n) /\ Return(c, "storeError")
  BY SetCommitMap
<1> DEFINE items == Evicted(heap[cur], n)
           q == DropBack(policy, n)
<1>3. /\ items \in Contents
      /\ k \in q.items <=> items[k] # NoEntry
  BY <1>1, WithoutGood, WithoutAt DEF InStep, Evicted, DropBack
<1>4. op'[c] # op[c] /\ op[c].pc = "setCommit"
  BY <1>1, <1>2 DEF Return, Idle, SetCommit
<1>5. heap'[cur'][k] = IF k = j THEN e ELSE items[k]
  BY <1>1, <1>2, <1>3 DEF Contents
<1>6. CASE policy' = q /\ Return(c, "storeError")
  <2>1. k = j
    BY <1>3, <1>5, <1>6 DEF InStep
  <2>2. result'[c] = "storeError"
    BY <1>1, <1>6 DEF Return
  <2> QED BY <1>4, <2>1, <2>2 DEF PolicyMissesOut, Leaves
<1>7. CASE policy' = AfterSet(q, j, MaxSize) /\ Return(c, "ok")
  <2>1. k # j
    BY <1>1, <1>5, <1>7, SetIsTracked, EntriesAndNoEntry DEF InStep
  <2>2. ~(k \in policy'.items <=> k \in q.items)
    BY <1>3, <1>5, <2>1 DEF InStep
  <2>3. Cardinality(q.items) >= MaxSize
    BY <1>7, <2>1, <2>2 DEF AfterSet, RoomFor
  <2>4. \E i \in policy.items : heap[cur][i] = NoEntry
    BY <1>2, <2>3, FullOfLost
  <2>5. result'[c] = "ok"
    BY <1>1, <1>7 DEF Return
  <2> QED BY <1>4, <2>1, <2>4, <2>5 DEF PolicyMissesOut, Leaves
<1> QED BY <1>2, <1>6, <1>7

LEMMA StepInStep ==
    ASSUME CacheInv, Ending, [Next]_vars, MaxSize > 0, ~closed',
           NEW k \in Keys, InStep(k), ~InStep(k)'
    PROVE  PolicyMissesOut(k)
<1>1. ~closed /\ op \in [Clients -> GoodCalls]
  BY OnlyMapSteps, MapFacts
<1>2. ~MapUnchanged
  BY DEF MapUnchanged, InStep
<1>3. CASE CleanupChunk
  <2>1. policy' = policy
    BY <1>3 DEF CleanupChunk
  <2> QED BY <1>3, <2>1, ChunkTakes DEF InStep, PolicyMissesOut
<1>4. ASSUME NEW c \in Clients, MapStep(c)
      PROVE  PolicyMissesOut(k)
  <2>1. CASE SetCommit(c)
    BY <1>1, <2>1, SetInStep
  <2>2. ~SetNoRoom(c)
    <3> SUFFICES ASSUME SetNoRoom(c) PROVE FALSE
      OBVIOUS
    <3> DEFINE n == Len(policy.list)
    <3>1. /\ heap'[cur'] = Without(heap[cur], Victims(policy, n))
          /\ policy'.items = policy.items \ Victims(policy, n)
      BY SetNoRoomMap DEF SetNoRoom, Evicted, DropBack
    <3> HIDE DEF n
    <3> QED BY <3>1, RemovedFromBoth
  <2>3. ~DeleteCommit(c)
    <3> SUFFICES ASSUME DeleteCommit(c) PROVE FALSE
      OBVIOUS
    <3>1. /\ heap'[cur'] = Without(heap[cur], {op[c].key})
          /\ policy'.items = policy.items \ {op[c].key}
      BY DeleteCommitMap DEF AfterDelete
    <3> QED BY <3>1, RemovedFromBoth
  <2>4. CASE ClearCommit(c) \/ GetRemoveExpired(c)
    <3>1. op'[c].pc # op[c].pc
      BY <1>1, <2>4 DEF ClearCommit, GetRemoveExpired, Return, Continue, Idle
    <3> QED BY <2>4, <3>1
            DEF ClearCommit, GetRemoveExpired, PolicyMissesOut, Leaves
  <2>5. ~CloseCommit(c)
    BY <1>1 DEF CloseCommit, Ending
  <2> QED BY <1>4, <2>1, <2>2, <2>3, <2>4, <2>5 DEF MapStep
<1> QED BY <1>2, <1>3, <1>4, OnlyMapSteps

\* Whatever clients, cleanup and a failing store do, the policy gets out of
\* step with the map about a key for the reasons of PolicyMissesOut only: Get,
\* Set, eviction and Delete keep them in step.
THEOREM DriftsForKnownReasonsHolds == Spec => DriftsForKnownReasons
<1>1. CacheInv /\ Ending /\ [Next]_vars =>
        [MaxSize > 0 /\ ~closed' =>
           \A k \in Keys : InStep(k) /\ ~InStep(k)' => PolicyMissesOut(k)]_vars
  BY StepInStep
<1> QED BY <1>1, CacheInvHolds, EndingHolds, PTL
        DEF Spec, DriftsForKnownReasons

\* What the store has of an entry that stays, it has of it later.
LEMMA BackedAt ==
    ASSUME CacheInv, [Next]_vars, NEW k \in Keys, Backed(k),
           \/ heap'[cur'][k] = NoEntry
           \/ /\ heap'[cur'][k] = heap[cur][k]
              /\ stored'[k].value = stored[k].value
    PROVE  Backed(k)'
<1>1. clock \in Nat /\ clock' \in Nat /\ clock <= clock'
  BY OnlyMapSteps, MapFacts
<1>2. heap[cur][k] # NoEntry => heap[cur][k].expires \in Nat
  BY MapFacts DEF Contents, Entries
<1> QED BY <1>1, <1>2 DEF Backed, Live, Never

LEMMA BackedInFewer ==
    ASSUME CacheInv, [Next]_vars, NEW k \in Keys, NEW ks, Backed(k),
           heap'[cur'] = Without(heap[cur], ks),
           k \notin ks => stored'[k].value = stored[k].value
    PROVE  Backed(k)'
BY WithoutAt, BackedAt

LEMMA StepBacked ==
    ASSUME CacheInv, Ending, [Next]_vars, HasStore, ~closed',
           NEW k \in Keys, Backed(k), ~Backed(k)'
    PROVE  \E c \in Clients :
              \/ Leaves(c, "getExpire")
              \/ /\ Leaves(c, "setCommit") /\ op[c].key = k
                 /\ result'[c] = "storeError"
<1>1. /\ ~closed /\ op \in [Clients -> GoodCalls]
      /\ result \in [Clients -> Results]
      /\ heap[cur] \in Contents /\ stored \in Contents
  BY OnlyMapSteps, MapFacts DEF CacheInv, CallsOK
<1>2. ~MapUnchanged
  <2> SUFFICES ASSUME MapUnchanged PROVE FALSE
    OBVIOUS
  <2>1. heap'[cur'] = Without(heap[cur], {}) /\ stored' = stored
    BY <1>1 DEF MapUnchanged, Without, Contents
  <2> QED BY <2>1, BackedInFewer
<1>3. ~CleanupChunk
  <2> SUFFICES ASSUME CleanupChunk PROVE FALSE
    OBVIOUS
  <2>1. PICK ks : heap'[cur'] = Without(heap[cur], ks)
    BY CleanupChunkMap
  <2> QED BY <2>1, BackedInFewer DEF CleanupChunk
<1>4. ASSUME NEW c \in Clients, SetCommit(c)
      PROVE  /\ Leaves(c, "setCommit") /\ op[c].key = k
             /\ result'[c] = "storeError"
  <2> DEFINE j == op[c].key
             e == op[c].entry
  <2>1. j \in Keys /\ e \in Entries
    BY <1>1, <1>4, SetCommitMap
  <2>2. PICK n \in 0 .. Len(policy.list) :
           /\ heap'[cur'] = [Evicted(heap[cur], n) EXCEPT ![j] = e]
           /\ \/ stored' = Persisted(j, e.value, op[c].ttl)
              \/ stored' = stored /\ Return(c, "storeError")
    BY <1>1, <1>4, SetCommitMap
  <2> DEFINE items == Evicted(heap[cur], n)
  <2>3. items \in Contents
    BY <1>1, WithoutGood DEF Evicted
  <2>4. k = j
    <3> SUFFICES ASSUME k # j PROVE FALSE
      OBVIOUS
    <3>1. heap'[cur'][k] = items[k] /\ stored'[k].value = stored[k].value
      BY <1>1, <2>1, <2>2, <2>3 DEF Persisted, Contents
    <3>2. heap'[cur'][k] = NoEntry \/ heap'[cur'][k] = heap[cur][k]
      BY <3>1, WithoutAt DEF Evicted
    <3> QED BY <3>1, <3>2, BackedAt
  <2>5. Return(c, "storeError")
    <3> SUFFICES ASSUME stored' = Persisted(j, e.value, op[c].ttl) PROVE FALSE
      BY <2>2
    <3>1. heap'[cur'][k] = e /\ stored'[k].value = e.value
      BY <1>1, <2>1, <2>2, <2>3, <2>4 DEF Persisted, Contents
    <3> QED BY <3>1 DEF Backed
  <2> QED BY <1>1, <1>4, <2>4, <2>5 DEF Return, Leaves, Idle, SetCommit
<1>5. ASSUME NEW c \in Clients PROVE ~SetNoRoom(c) /\ ~DeleteCommit(c)
  <2>1. ~SetNoRoom(c)
    BY SetNoRoomMap, BackedInFewer DEF SetNoRoom, Evicted
  <2>2. ~DeleteCommit(c)
    <3> SUFFICES ASSUME DeleteCommit(c) PROVE FALSE
      OBVIOUS
    <3>1. heap'[cur'] = Without(heap[cur], {op[c].key})
      BY DeleteCommitMap
    <3>2. stored' = Without(stored, {op[c].key}) \/ stored' = stored
      BY DEF DeleteCommit
    <3>3. k \notin {op[c].key} => stored'[k] = stored[k]
      BY <3>2, WithoutAt
    <3> QED BY <3>1, <3>3, BackedInFewer
  <2> QED BY <2>1, <2>2
<1>6. ASSUME NEW c \in Clients PROVE ~ClearCommit(c) /\ ~CloseCommit(c)
  BY EmptyingMap DEF Backed, NoItems
<1>7. ASSUME NEW c \in Clients, GetRemoveExpired(c)
      PROVE  Leaves(c, "getExpire")
  BY <1>1, <1>7 DEF GetRemoveExpired, Continue, Leaves
<1> QED BY <1>2, <1>3, <1>4, <1>5, <1>6, <1>7, OnlyMapSteps DEF MapStep

\* Whatever clients, cleanup and a failing store do, the store falls behind
\* the map about a key only by refusing its Set, or when a Get brings back an
\* older map.
THEOREM StoreLagsForKnownReasonsHolds == Spec => StoreLagsForKnownReasons
<1>1. CacheInv /\ Ending /\ [Next]_vars =>
        [HasStore /\ ~closed' =>
           \A k \in Keys : Backed(k) /\ ~Backed(k)' =>
              \E c \in Clients :
                 \/ Leaves(c, "getExpire")
                 \/ /\ Leaves(c, "setCommit") /\ op[c].key = k
                    /\ result'[c] = "storeError"]_vars
  BY StepBacked
<1> QED BY <1>1, CacheInvHolds, EndingHolds, PTL
        DEF Spec, StoreLagsForKnownReasons
=============================================================================
