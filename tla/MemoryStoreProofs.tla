------------------------- MODULE MemoryStoreProofs -------------------------
(***************************************************************************)
(* The memory store keeps to its limits, its account covers what it holds, *)
(* and only the second critical section of a Get loses an update, for      *)
(* every set of keys, values, clients and durations and every limit.       *)
(***************************************************************************)
EXTENDS MemoryStore, FiniteSetTheorems, TLAPS

Contents == [Keys -> Entries \cup {NoEntry}]

\* What may be put into the store: entries for some keys.
Additions == UNION {[ks -> Entries] : ks \in SUBSET Keys}

-----------------------------------------------------------------------------
(***************************************************************************)
(* The memory that entries take.                                           *)
(***************************************************************************)
LEMMA CostType ==
    ASSUME NEW its \in Contents, NEW k \in Keys
    PROVE  Cost(its[k]) \in Nat
BY MemoryStoreAssumption DEF Contents, Cost, Entries, NoEntry

LEMMA NoEntryIsNone == \A e \in Entries : e # NoEntry
BY MemoryStoreAssumption DEF Entries, NoEntry

LEMMA UnitsOfOne ==
    ASSUME NEW k, NEW n \in Nat
    PROVE  /\ IsFiniteSet({k} \X (1 .. n))
           /\ Cardinality({k} \X (1 .. n)) = n
<1> DEFINE S == {k}
           T == 1 .. n
<1>1. IsFiniteSet(S) /\ Cardinality(S) = 1
  BY FS_Singleton
<1>2. IsFiniteSet(T) /\ Cardinality(T) = n
  BY FS_Interval
<1> HIDE DEF S, T
<1>3. /\ IsFiniteSet(S \X T)
      /\ Cardinality(S \X T) = Cardinality(S) * Cardinality(T)
  BY <1>1, <1>2, FS_Product, Zenon
<1>4. Cardinality(S \X T) = n
  BY <1>1, <1>2, <1>3
<1> QED BY <1>3, <1>4 DEF S, T

LEMMA UnitsFacts ==
    ASSUME NEW its \in Contents
    PROVE  /\ \A u : u \in Units(its) <=>
                 \E k \in Keys : \E n \in 1 .. Cost(its[k]) : u = <<k, n>>
           /\ IsFiniteSet(Units(its))
           /\ Used(its) \in Nat
<1>1. ASSUME NEW u
      PROVE  u \in Units(its) <=>
                \E k \in Keys : \E n \in 1 .. Cost(its[k]) : u = <<k, n>>
  BY DEF Units
<1>2. IsFiniteSet(Units(its))
  <2> DEFINE f == [k \in Keys |-> {k} \X (1 .. Cost(its[k]))]
             T == {{k} \X (1 .. Cost(its[k])) : k \in Keys}
  <2>1. f \in Surjection(Keys, T)
    BY DEF Surjection
  <2>2. IsFiniteSet(T)
    BY <2>1, FS_Surjection, MemoryStoreAssumption
  <2>3. ASSUME NEW k \in Keys PROVE IsFiniteSet({k} \X (1 .. Cost(its[k])))
    BY CostType, UnitsOfOne
  <2>4. \A S \in T : IsFiniteSet(S)
    BY <2>3
  <2> QED BY <2>2, <2>4, FS_UNION DEF Units
<1> QED BY <1>1, <1>2, FS_CardinalityType DEF Used

\* More entries take more memory.
LEMMA UsedMonotone ==
    ASSUME NEW its \in Contents, NEW other \in Contents,
           Units(its) \subseteq Units(other)
    PROVE  Used(its) <= Used(other)
BY UnitsFacts, FS_Subset DEF Used

LEMMA NoItemsUseNothing == NoItems \in Contents /\ Used(NoItems) = 0
<1>1. NoItems \in Contents
  BY DEF NoItems, Contents
<1>2. \A u : u \notin Units(NoItems)
  BY <1>1, UnitsFacts DEF NoItems, Cost
<1> QED BY <1>1, <1>2, FS_EmptySet DEF Used

LEMMA WithoutFacts ==
    ASSUME NEW its \in Contents, NEW ks
    PROVE  /\ Without(its, ks) \in Contents
           /\ Present(Without(its, ks)) = Present(its) \ ks
           /\ Used(Without(its, ks)) <= Used(its)
<1>1. Without(its, ks) \in Contents
  BY DEF Without, Contents
<1>2. Present(Without(its, ks)) = Present(its) \ ks
  BY DEF Without, Present
<1>3. \A k \in Keys : \A n \in 1 .. Cost(Without(its, ks)[k]) :
         n \in 1 .. Cost(its[k])
  BY <1>1, CostType DEF Without, Cost
<1>4. Units(Without(its, ks)) \subseteq Units(its)
  BY <1>1, <1>3, UnitsFacts
<1> QED BY <1>1, <1>2, <1>4, UsedMonotone

\* Taking an entry off frees what it cost.
LEMMA UsedWithoutOne ==
    ASSUME NEW its \in Contents, NEW k \in Keys
    PROVE  Used(its) = Used(Without(its, {k})) + Cost(its[k])
<1> DEFINE rest == Without(its, {k})
           own == {k} \X (1 .. Cost(its[k]))
<1>1. rest \in Contents
  BY WithoutFacts
<1>2. \A j \in Keys : Cost(rest[j]) = IF j = k THEN 0 ELSE Cost(its[j])
  BY DEF Without, Cost
<1>3. Cost(its[k]) \in Nat
  BY CostType
<1>4. /\ IsFiniteSet(own)
      /\ Cardinality(own) = Cost(its[k])
  BY <1>3, UnitsOfOne
<1>5. \A u : u \in Units(rest) <=>
         \E j \in Keys \ {k} : \E n \in 1 .. Cost(its[j]) : u = <<j, n>>
  <2> HIDE DEF rest
  <2> QED BY <1>1, <1>2, UnitsFacts
<1>6. \A u : u \in own <=> \E n \in 1 .. Cost(its[k]) : u = <<k, n>>
  OBVIOUS
<1>7. Units(its) = Units(rest) \cup own /\ Units(rest) \cap own = {}
  <2> HIDE DEF rest, own
  <2> QED BY <1>5, <1>6, UnitsFacts
<1> HIDE DEF rest, own
<1>8. IsFiniteSet(Units(rest)) /\ Used(rest) \in Nat
  BY <1>1, UnitsFacts
<1>9. Cardinality(Units(its)) =
         Cardinality(Units(rest)) + Cardinality(own) - Cardinality({})
  BY <1>4, <1>7, <1>8, FS_Union
<1> QED BY <1>3, <1>4, <1>8, <1>9, FS_EmptySet DEF Used, rest

LEMMA StoredFacts ==
    ASSUME NEW its \in Contents, NEW es \in Additions
    PROVE  /\ DOMAIN es \subseteq Keys
           /\ \A k \in DOMAIN es : es[k] \in Entries
           /\ Stored(its, es) \in Contents
           /\ Present(Stored(its, es)) = Present(its) \cup DOMAIN es
<1>1. PICK ks \in SUBSET Keys : es \in [ks -> Entries]
  BY DEF Additions
<1>2. Stored(its, es) \in Contents
  BY <1>1 DEF Stored, Contents
<1>3. Present(Stored(its, es)) = Present(its) \cup DOMAIN es
  BY <1>1, NoEntryIsNone DEF Stored, Present
<1> QED BY <1>1, <1>2, <1>3

\* Storing es takes no more than its and the entries of new, if every entry of
\* es is one of new or takes the place of one that is as large.
LEMMA UsedStored ==
    ASSUME NEW its \in Contents, NEW es \in Additions, NEW new \in Additions,
           \A k \in DOMAIN es :
              \/ k \in DOMAIN new /\ new[k] = es[k]
              \/ Cost(es[k]) <= Cost(its[k])
    PROVE  /\ Used(Stored(its, es)) \in Nat
           /\ Used(Stored(its, es)) <= Used(its) + Used(Stored(NoItems, new))
<1> DEFINE after == Stored(its, es)
           alone == Stored(NoItems, new)
<1>1. after \in Contents /\ alone \in Contents
  BY StoredFacts, NoItemsUseNothing
<1>2. /\ IsFiniteSet(Units(its)) /\ Used(its) \in Nat
      /\ IsFiniteSet(Units(after)) /\ Used(after) \in Nat
      /\ IsFiniteSet(Units(alone)) /\ Used(alone) \in Nat
  BY <1>1, UnitsFacts
<1>3. ASSUME NEW k \in Keys
      PROVE  Cost(after[k]) <= Cost(its[k]) \/ after[k] = alone[k]
  <2>1. CASE k \in DOMAIN es
    <3>1. after[k] = es[k] /\ (k \in DOMAIN new => alone[k] = new[k])
      BY <2>1, StoredFacts DEF Stored
    <3> QED BY <2>1, <3>1
  <2>2. CASE k \notin DOMAIN es
    <3>1. after[k] = its[k] /\ Cost(its[k]) \in Nat
      BY <2>2, CostType DEF Stored
    <3> QED BY <3>1
  <2> QED BY <2>1, <2>2
<1> HIDE DEF after, alone
<1>4. Units(after) \subseteq Units(its) \cup Units(alone)
  <2> SUFFICES ASSUME NEW k \in Keys, NEW n \in 1 .. Cost(after[k])
               PROVE  \/ n \in 1 .. Cost(its[k])
                      \/ n \in 1 .. Cost(alone[k])
    BY <1>1, UnitsFacts
  <2>1. Cost(after[k]) \in Nat /\ Cost(its[k]) \in Nat
    BY <1>1, CostType
  <2> QED BY <1>3, <2>1
<1>5. /\ IsFiniteSet(Units(its) \cup Units(alone))
      /\ Cardinality(Units(its) \cup Units(alone)) <= Used(its) + Used(alone)
  <2>1. /\ IsFiniteSet(Units(its) \cup Units(alone))
        /\ Cardinality(Units(its) \cup Units(alone)) =
              Used(its) + Used(alone) - Cardinality(Units(its) \cap Units(alone))
    BY <1>2, FS_Union DEF Used
  <2>2. Cardinality(Units(its) \cap Units(alone)) \in Nat
    BY <1>2, FS_Intersection, FS_CardinalityType
  <2> QED BY <1>2, <2>1, <2>2
<1>6. /\ Cardinality(Units(its) \cup Units(alone)) \in Nat
      /\ Used(after) <= Cardinality(Units(its) \cup Units(alone))
  BY <1>4, <1>5, FS_Subset, FS_CardinalityType DEF Used
<1> QED BY <1>2, <1>5, <1>6 DEF after, alone

LEMMA NewEntryType ==
    ASSUME TypeOK, NEW v \in Values, NEW d \in Durations
    PROVE  NewEntry(v, d) \in Entries
<1>1. d \in Int /\ clock \in Nat
  BY MemoryStoreAssumption DEF TypeOK
<1> QED BY <1>1, TTLConfigAssumption
        DEF NewEntry, GetExpirationTime, Normalize, Never, Entries

-----------------------------------------------------------------------------
\* The account can only be kept above what the entries take if it takes notice
\* of every entry, and that needs the types of the entries.
StoreInv == TypeOK /\ SizeLimit /\ UsageCovers

LEMMA PresentFinite ==
    ASSUME NEW its
    PROVE  /\ IsFiniteSet(Present(its))
           /\ Cardinality(Present(its)) \in Nat
BY MemoryStoreAssumption, FS_Subset, FS_CardinalityType DEF Present

\* A step that changes nothing of what is stored.
LEMMA SameStored ==
    ASSUME StoreInv, items' = items, memoryUsage' = memoryUsage
    PROVE  SizeLimit' /\ UsageCovers'
BY DEF StoreInv, SizeLimit, UsageCovers, Used, Units, Present

\* A step that takes entries out and leaves the account.
LEMMA FewerStored ==
    ASSUME StoreInv, NEW ks, items' = Without(items, ks),
           memoryUsage' = memoryUsage
    PROVE  items' \in Contents /\ SizeLimit' /\ UsageCovers'
<1>1. items \in Contents /\ memoryUsage \in Int
  BY DEF StoreInv, TypeOK, Contents
<1>2. /\ items' \in Contents
      /\ Present(items') \subseteq Present(items)
      /\ Used(items') <= Used(items)
      /\ Used(items') \in Nat /\ Used(items) \in Nat
  BY <1>1, WithoutFacts, UnitsFacts
<1>3. Cardinality(Present(items')) <= Cardinality(Present(items))
  BY <1>2, PresentFinite, FS_Subset
<1>4. SizeLimit'
  BY <1>3, PresentFinite, MemoryStoreAssumption DEF StoreInv, SizeLimit
<1>5. UsageCovers'
  BY <1>1, <1>2 DEF StoreInv, UsageCovers
<1> QED BY <1>2, <1>4, <1>5

LEMMA RemoveStored ==
    ASSUME StoreInv, NEW k \in Keys, Remove(k)
    PROVE  /\ items' \in Contents /\ memoryUsage' \in Int /\ truth' \in Contents
           /\ SizeLimit' /\ UsageCovers'
           /\ memoryUsage' <= memoryUsage
<1>1. items \in Contents /\ memoryUsage \in Int /\ truth \in Contents
  BY DEF StoreInv, TypeOK, Contents
<1>2. /\ items' \in Contents /\ truth' \in Contents
      /\ Present(items') \subseteq Present(items)
      /\ Used(items) = Used(items') + Cost(items[k])
      /\ Used(items') \in Nat /\ Used(items) \in Nat /\ Cost(items[k]) \in Nat
  BY <1>1, WithoutFacts, UnitsFacts, UsedWithoutOne, CostType DEF Remove
<1>3. Cardinality(Present(items')) <= Cardinality(Present(items))
  BY <1>2, PresentFinite, FS_Subset
<1>4. SizeLimit'
  BY <1>3, PresentFinite, MemoryStoreAssumption DEF StoreInv, SizeLimit
<1>5. memoryUsage' \in Int /\ memoryUsage' <= memoryUsage
  BY <1>1, <1>2 DEF Remove
<1>6. UsageCovers'
  BY <1>1, <1>2 DEF StoreInv, UsageCovers, Remove
<1> QED BY <1>2, <1>4, <1>5, <1>6

LEMMA StoreStored ==
    ASSUME StoreInv, NEW new \in Additions, NEW es \in Additions,
           Store(new, es)
    PROVE  /\ items' \in Contents /\ memoryUsage' \in Int /\ truth' \in Contents
           /\ SizeLimit' /\ UsageCovers'
<1>1. items \in Contents /\ memoryUsage \in Int /\ truth \in Contents
  BY DEF StoreInv, TypeOK, Contents
<1>2. CASE UNCHANGED <<storeVars, truth>>
  BY <1>1, <1>2, SameStored DEF storeVars
<1>3. CASE /\ FitsSize(DOMAIN es)
           /\ items' = Stored(items, es)
           /\ memoryUsage' = UsageWith(es)
           /\ truth' = Stored(truth, es)
  <2>1. /\ items' \in Contents /\ truth' \in Contents
        /\ Present(items') = Present(items) \cup DOMAIN es
        /\ Used(items') \in Nat /\ Used(items) \in Nat
    BY <1>1, <1>3, StoredFacts, UnitsFacts
  <2>2. SizeLimit'
    <3>1. CASE DOMAIN es \subseteq Present(items)
      <4>1. Present(items') = Present(items)
        BY <2>1, <3>1
      <4> QED BY <4>1 DEF StoreInv, SizeLimit
    <3>2. CASE Cardinality(Present(items) \cup DOMAIN es) <= MaxSize
      BY <2>1, <3>2 DEF SizeLimit
    <3> QED BY <1>3, <3>1, <3>2 DEF FitsSize
  <2>3. memoryUsage' \in Int /\ UsageCovers'
    BY <1>1, <1>3, <2>1 DEF StoreInv, UsageCovers, UsageWith
  <2> QED BY <2>1, <2>2, <2>3
<1> QED BY <1>2, <1>3 DEF Store

-----------------------------------------------------------------------------
LEMMA InitInv == Init => StoreInv /\ MemoryLimit
<1> SUFFICES ASSUME Init PROVE StoreInv /\ MemoryLimit
  OBVIOUS
<1> USE DEF Init
<1>1. items = NoItems /\ NoItems \in Contents /\ Used(NoItems) = 0
  BY NoItemsUseNothing
<1>2. TypeOK
  <2>1. Idle \in Calls
    BY DEF Idle, Calls
  <2>2. op \in [Clients -> Calls] /\ calls \in Nat /\ clock \in Nat \ {0}
    BY <2>1, MemoryStoreAssumption
  <2>3. items \in Contents /\ truth \in Contents /\ memoryUsage \in Int
    BY <1>1
  <2>4. stopped \in BOOLEAN /\ ctxDone \in BOOLEAN
    OBVIOUS
  <2> QED BY <2>2, <2>3, <2>4 DEF TypeOK, Contents
<1>3. SizeLimit
  <2>1. Present(NoItems) = {}
    BY DEF NoItems, Present
  <2> QED BY <1>1, <2>1, FS_EmptySet, MemoryStoreAssumption DEF SizeLimit
<1>4. UsageCovers /\ MemoryLimit
  BY <1>1, MemoryStoreAssumption DEF UsageCovers, MemoryLimit
<1> QED BY <1>2, <1>3, <1>4 DEF StoreInv

\* The Sets and SetManys.
LEMMA AdditionsOf ==
    ASSUME TypeOK, NEW ks \in SUBSET Keys, NEW f \in [ks -> Values],
           NEW d \in Durations, NEW js \in SUBSET ks
    PROVE  [k \in js |-> NewEntry(f[k], d)] \in Additions
<1>1. [k \in js |-> NewEntry(f[k], d)] \in [js -> Entries]
  BY NewEntryType
<1> QED BY <1>1 DEF Additions

LEMMA SetInv ==
    ASSUME StoreInv, NEW c \in Clients, Set(c) PROVE StoreInv'
<1>1. PICK k \in Keys, v \in Values, d \in Durations :
         Store([j \in {k} |-> NewEntry(v, d)], [j \in {k} |-> NewEntry(v, d)])
  BY DEF Set
<1>2. [j \in {k} |-> NewEntry(v, d)] \in Additions
  <2>1. [j \in {k} |-> NewEntry(v, d)] \in [{k} -> Entries]
    BY NewEntryType DEF StoreInv
  <2> QED BY <2>1 DEF Additions
<1>3. /\ items' \in Contents /\ memoryUsage' \in Int /\ truth' \in Contents
      /\ SizeLimit' /\ UsageCovers'
  BY <1>1, <1>2, StoreStored
<1>4. TypeOK'
  BY <1>3 DEF StoreInv, TypeOK, Set, Whole, MayCall, Contents
<1> QED BY <1>3, <1>4 DEF StoreInv

LEMMA SetManyInv ==
    ASSUME StoreInv, NEW c \in Clients, SetMany(c) PROVE StoreInv'
<1>1. PICK ks \in SUBSET Keys, d \in Durations : \E f \in [ks -> Values] :
         LET es == [k \in ks |-> NewEntry(f[k], d)]
         IN  Store([k \in ks \ Present(items) |-> es[k]], es)
  BY DEF SetMany
<1>2. PICK f \in [ks -> Values] :
         LET es == [k \in ks |-> NewEntry(f[k], d)]
         IN  Store([k \in ks \ Present(items) |-> es[k]], es)
  BY <1>1
<1> DEFINE es == [k \in ks |-> NewEntry(f[k], d)]
           new == [k \in ks \ Present(items) |-> es[k]]
<1>3. es \in Additions
  BY AdditionsOf DEF StoreInv
<1>4. new \in Additions
  <2>1. new = [k \in ks \ Present(items) |-> NewEntry(f[k], d)]
    OBVIOUS
  <2>2. ks \ Present(items) \in SUBSET ks
    OBVIOUS
  <2> HIDE DEF new
  <2> QED BY <2>1, <2>2, AdditionsOf DEF StoreInv
<1>5. /\ items' \in Contents /\ memoryUsage' \in Int /\ truth' \in Contents
      /\ SizeLimit' /\ UsageCovers'
  BY <1>2, <1>3, <1>4, StoreStored
<1>6. TypeOK'
  BY <1>5 DEF StoreInv, TypeOK, SetMany, Whole, MayCall, Contents
<1> QED BY <1>5, <1>6 DEF StoreInv

\* A step that begins, continues or ends a call without a change to the store.
LEMMA CallInv ==
    ASSUME StoreInv, NEW c \in Clients,
           \/ GetBegin(c) \/ GetLookup(c) \/ GetReturn(c)
           \/ DeleteManyBegin(c) \/ DeleteManyNext(c) \/ Close(c) \/ CtxDone(c)
    PROVE  StoreInv'
<1>0. TypeOK /\ op \in [Clients -> Calls]
  BY DEF StoreInv, TypeOK
<1>1. SizeLimit' /\ UsageCovers'
  BY SameStored DEF GetBegin, GetLookup, GetReturn, DeleteManyBegin,
                    DeleteManyNext, Close, CtxDone, storeVars
<1>2. ASSUME NEW kind, NEW o \in Calls, Enter(c, kind, o) \/ Continue(c, o)
      PROVE  op' \in [Clients -> Calls] /\ calls' \in Nat
  BY <1>0, <1>2 DEF Enter, MayCall, Continue, TypeOK
<1>3. CASE GetBegin(c)
  <2>1. \A many \in BOOLEAN, ks \in SUBSET Keys :
           [pc |-> "getNext", many |-> many, rest |-> ks] \in Calls
    BY DEF Calls
  <2>2. op' \in [Clients -> Calls] /\ calls' \in Nat
    BY <1>2, <1>3, <2>1 DEF GetBegin
  <2> QED BY <1>0, <1>1, <1>3, <2>2 DEF GetBegin, StoreInv, TypeOK, storeVars
<1>4. CASE GetLookup(c)
  <2>1. PICK k \in op[c].rest :
           Continue(c, IF items[k] = NoEntry
                       THEN [op[c] EXCEPT !.rest = @ \ {k}]
                       ELSE [pc |-> "getCheck", many |-> op[c].many,
                             rest |-> op[c].rest \ {k},
                             key |-> k, entry |-> items[k]])
    BY <1>4 DEF GetLookup
  <2>2. op[c] \in [pc : {"getNext"}, many : BOOLEAN, rest : SUBSET Keys]
    BY <1>0, <1>4 DEF GetLookup, Calls
  <2>3. [op[c] EXCEPT !.rest = @ \ {k}] \in Calls
    BY <2>2 DEF Calls
  <2>4. items[k] # NoEntry =>
           [pc |-> "getCheck", many |-> op[c].many, rest |-> op[c].rest \ {k},
            key |-> k, entry |-> items[k]] \in Calls
    <3>1. k \in Keys /\ items[k] \in Entries \cup {NoEntry}
      BY <1>0, <2>2 DEF TypeOK
    <3> QED BY <2>2, <3>1 DEF Calls
  <2>5. op' \in [Clients -> Calls] /\ calls' \in Nat
    BY <1>2, <2>1, <2>3, <2>4
  <2> QED BY <1>0, <1>1, <1>4, <2>5 DEF GetLookup, StoreInv, TypeOK, storeVars
<1>5. CASE GetReturn(c)
  <2>1. Idle \in Calls
    BY DEF Idle, Calls
  <2>2. op' \in [Clients -> Calls] /\ calls' \in Nat
    BY <1>2, <1>5, <2>1 DEF GetReturn, Return
  <2> QED BY <1>0, <1>1, <1>5, <2>2 DEF GetReturn, StoreInv, TypeOK, storeVars
<1>6. CASE DeleteManyBegin(c)
  <2>1. \A ks \in SUBSET Keys : [pc |-> "deleteNext", rest |-> ks] \in Calls
    BY DEF Calls
  <2>2. op' \in [Clients -> Calls] /\ calls' \in Nat
    BY <1>2, <1>6, <2>1 DEF DeleteManyBegin
  <2> QED BY <1>0, <1>1, <1>6, <2>2
          DEF DeleteManyBegin, StoreInv, TypeOK, storeVars
<1>7. CASE DeleteManyNext(c)
  <2>1. op[c] \in [pc : {"deleteNext"}, rest : SUBSET Keys]
    BY <1>0, <1>7 DEF DeleteManyNext, Calls
  <2>2. \A k \in op[c].rest :
           [pc |-> "deleteOne", key |-> k, rest |-> op[c].rest \ {k}] \in Calls
    BY <2>1 DEF Calls
  <2>3. Idle \in Calls
    BY DEF Idle, Calls
  <2>4. op' \in [Clients -> Calls] /\ calls' \in Nat
    BY <1>2, <1>7, <2>2, <2>3 DEF DeleteManyNext, Return
  <2> QED BY <1>0, <1>1, <1>7, <2>4
          DEF DeleteManyNext, StoreInv, TypeOK, storeVars
<1>8. CASE Close(c) \/ CtxDone(c)
  <2>1. op' = op /\ calls' \in Nat
    BY <1>0, <1>8 DEF Close, CtxDone, Whole, MayCall, TypeOK
  <2>2. TypeOK'
    BY <1>0, <1>8, <2>1 DEF Close, CtxDone, TypeOK, storeVars
  <2> QED BY <1>1, <2>2 DEF StoreInv
<1> QED BY <1>3, <1>4, <1>5, <1>6, <1>7, <1>8

LEMMA GetCheckInv ==
    ASSUME StoreInv, NEW c \in Clients, GetCheck(c)
    PROVE  StoreInv' /\ memoryUsage' = memoryUsage
<1>1. /\ op \in [Clients -> Calls] /\ items \in Contents
      /\ memoryUsage' = memoryUsage
  BY DEF StoreInv, TypeOK, Contents, GetCheck
<1>2. op[c].rest \in SUBSET Keys /\ op[c].many \in BOOLEAN
  BY <1>1 DEF GetCheck, Calls
<1>3. [pc |-> "getNext", many |-> op[c].many, rest |-> op[c].rest] \in Calls
  BY <1>2 DEF Calls
<1>4. op' \in [Clients -> Calls] /\ calls' = calls
  BY <1>1, <1>3 DEF GetCheck, Continue
<1>5. items' \in Contents /\ SizeLimit' /\ UsageCovers'
  BY <1>1, SameStored, FewerStored DEF GetCheck
<1>6. TypeOK'
  BY <1>1, <1>4, <1>5 DEF GetCheck, StoreInv, TypeOK, Contents
<1> QED BY <1>1, <1>5, <1>6 DEF StoreInv

LEMMA DeleteInv ==
    ASSUME StoreInv, NEW c \in Clients, Delete(c) \/ DeleteManyOne(c)
    PROVE  StoreInv' /\ memoryUsage' <= memoryUsage
<1>1. CASE Delete(c)
  <2>1. PICK k \in Keys : Remove(k)
    BY <1>1 DEF Delete
  <2>2. /\ items' \in Contents /\ memoryUsage' \in Int /\ truth' \in Contents
        /\ SizeLimit' /\ UsageCovers' /\ memoryUsage' <= memoryUsage
    BY <2>1, RemoveStored
  <2>3. TypeOK'
    BY <1>1, <2>2 DEF Delete, Whole, MayCall, StoreInv, TypeOK, Contents
  <2> QED BY <2>2, <2>3 DEF StoreInv
<1>2. CASE DeleteManyOne(c)
  <2>1. /\ op \in [Clients -> Calls]
        /\ op[c] \in [pc : {"deleteOne"}, rest : SUBSET Keys, key : Keys]
    BY <1>2 DEF StoreInv, TypeOK, Calls, DeleteManyOne
  <2>2. [pc |-> "deleteNext", rest |-> op[c].rest] \in Calls
    BY <2>1 DEF Calls
  <2>3. op' \in [Clients -> Calls] /\ calls' = calls
    BY <1>2, <2>1, <2>2 DEF DeleteManyOne, Continue
  <2>4. /\ items' \in Contents /\ memoryUsage' \in Int /\ truth' \in Contents
        /\ SizeLimit' /\ UsageCovers' /\ memoryUsage' <= memoryUsage
    <3>1. CASE Remove(op[c].key)
      BY <2>1, <3>1, RemoveStored
    <3>2. CASE UNCHANGED <<storeVars, truth>>
      BY <3>2, SameStored DEF storeVars, StoreInv, TypeOK, Contents
    <3> QED BY <1>2, <3>1, <3>2 DEF DeleteManyOne
  <2>5. TypeOK'
    BY <1>2, <2>3, <2>4 DEF DeleteManyOne, StoreInv, TypeOK, Contents
  <2> QED BY <2>4, <2>5 DEF StoreInv
<1> QED BY <1>1, <1>2

LEMMA ClearInv ==
    ASSUME StoreInv, NEW c \in Clients, Clear(c)
    PROVE  StoreInv' /\ (TrackMemory => memoryUsage' = 0)
<1>1. items' = NoItems /\ NoItems \in Contents /\ Used(NoItems) = 0
  BY NoItemsUseNothing DEF Clear
<1>2. SizeLimit'
  <2>1. Present(NoItems) = {}
    BY DEF NoItems, Present
  <2> QED BY <1>1, <2>1, FS_EmptySet, MemoryStoreAssumption DEF SizeLimit
<1>3. UsageCovers' /\ (TrackMemory => memoryUsage' = 0)
  BY <1>1 DEF UsageCovers, Clear
<1>4. TypeOK'
  BY <1>1 DEF Clear, Whole, MayCall, StoreInv, TypeOK, Contents
<1> QED BY <1>2, <1>3, <1>4 DEF StoreInv

LEMMA CleanupInv ==
    ASSUME StoreInv,
           CleanerTick \/ \E c \in Clients : ForceCleanup(c)
    PROVE  StoreInv' /\ memoryUsage' = memoryUsage
<1>1. CleanupExpired /\ memoryUsage' = memoryUsage
  BY DEF CleanerTick, ForceCleanup
<1>2. items' \in Contents /\ SizeLimit' /\ UsageCovers'
  BY <1>1, FewerStored DEF CleanupExpired
<1>3. TypeOK'
  BY <1>2 DEF CleanerTick, ForceCleanup, Whole, MayCall, StoreInv, TypeOK,
              Contents, clientVars
<1> QED BY <1>1, <1>2, <1>3 DEF StoreInv

LEMMA RestInv ==
    ASSUME StoreInv,
           CleanerStop \/ TimePasses \/ Finished \/ UNCHANGED vars
    PROVE  StoreInv' /\ memoryUsage' = memoryUsage
<1>1. items' = items /\ memoryUsage' = memoryUsage
  BY DEF CleanerStop, TimePasses, Finished, vars, storeVars
<1>2. TypeOK'
  BY DEF CleanerStop, TimePasses, Finished, vars, storeVars, clientVars,
         StoreInv, TypeOK
<1> QED BY <1>1, <1>2, SameStored DEF StoreInv

LEMMA NextInv == StoreInv /\ [Next]_vars => StoreInv'
<1> SUFFICES ASSUME StoreInv, [Next]_vars PROVE StoreInv'
  OBVIOUS
<1>1. ASSUME NEW c \in Clients, Begin(c) \/ Proceed(c) PROVE StoreInv'
  BY <1>1, SetInv, SetManyInv, CallInv, GetCheckInv, DeleteInv, ClearInv,
     CleanupInv DEF Begin, Proceed
<1> QED BY <1>1, CleanupInv, RestInv DEF Next

LEMMA StoreInvHolds == Spec => []StoreInv
BY InitInv, NextInv, PTL DEF Spec

\* Every variable has its type.
THEOREM TypeCorrect == Spec => []TypeOK
BY StoreInvHolds, PTL DEF StoreInv

\* The account is never below what the entries take, whatever has expired, been
\* overwritten or been removed, so the limit on the account is one on the
\* entries.
THEOREM UsageCoversHolds == Spec => []UsageCovers
BY StoreInvHolds, PTL DEF StoreInv

\* The store never holds more than MaxSize entries.
THEOREM SizeLimitHolds == Spec => []SizeLimit
BY StoreInvHolds, PTL DEF StoreInv

-----------------------------------------------------------------------------
(***************************************************************************)
(* The limit on memory.  SetMany counts new keys alone before it stores    *)
(* anything, so the limit holds if no SetMany overwrites an entry by a     *)
(* larger one: if nobody calls it, or values have one size.                *)
(***************************************************************************)
OverwritesFit == "setMany" \in Ops => \A v, w \in Values : v <= w

LEMMA StoreKeepsMemory ==
    ASSUME StoreInv, MemoryLimit, NEW new \in Additions, NEW es \in Additions,
           \A k \in DOMAIN es :
              \/ k \in DOMAIN new /\ new[k] = es[k]
              \/ Cost(es[k]) <= Cost(items[k]),
           Store(new, es)
    PROVE  MemoryLimit'
<1>1. items \in Contents /\ memoryUsage \in Int
  BY DEF StoreInv, TypeOK, Contents
<1>2. CASE UNCHANGED <<storeVars, truth>>
  BY <1>2 DEF storeVars, MemoryLimit
<1>3. CASE FitsMemory(new) /\ memoryUsage' = UsageWith(es)
  <2>1. /\ Used(Stored(items, es)) \in Nat /\ Used(items) \in Nat
        /\ Used(Stored(items, es)) <= Used(items) + Used(Stored(NoItems, new))
    BY <1>1, UsedStored, UnitsFacts
  <2>2. Used(Stored(NoItems, new)) \in Nat
    BY NoItemsUseNothing, StoredFacts, UnitsFacts
  <2> QED BY <1>1, <1>3, <2>1, <2>2, MemoryStoreAssumption
          DEF FitsMemory, UsageWith, MemoryLimit
<1> QED BY <1>2, <1>3 DEF Store

LEMMA SetKeepsMemory ==
    ASSUME StoreInv, MemoryLimit, NEW c \in Clients, Set(c)
    PROVE  MemoryLimit'
<1>1. PICK k \in Keys, v \in Values, d \in Durations :
         Store([j \in {k} |-> NewEntry(v, d)], [j \in {k} |-> NewEntry(v, d)])
  BY DEF Set
<1>2. [j \in {k} |-> NewEntry(v, d)] \in Additions
  <2>1. [j \in {k} |-> NewEntry(v, d)] \in [{k} -> Entries]
    BY NewEntryType DEF StoreInv
  <2> QED BY <2>1 DEF Additions
<1> QED BY <1>1, <1>2, StoreKeepsMemory

LEMMA SetManyKeepsMemory ==
    ASSUME OverwritesFit, StoreInv, MemoryLimit, NEW c \in Clients, SetMany(c)
    PROVE  MemoryLimit'
<1>1. PICK ks \in SUBSET Keys, d \in Durations : \E f \in [ks -> Values] :
         LET es == [k \in ks |-> NewEntry(f[k], d)]
         IN  Store([k \in ks \ Present(items) |-> es[k]], es)
  BY DEF SetMany
<1>2. PICK f \in [ks -> Values] :
         LET es == [k \in ks |-> NewEntry(f[k], d)]
         IN  Store([k \in ks \ Present(items) |-> es[k]], es)
  BY <1>1
<1> DEFINE es == [k \in ks |-> NewEntry(f[k], d)]
           new == [k \in ks \ Present(items) |-> es[k]]
<1>3. es \in Additions
  BY AdditionsOf DEF StoreInv
<1>4. new \in Additions
  <2>1. new = [k \in ks \ Present(items) |-> NewEntry(f[k], d)]
    OBVIOUS
  <2>2. ks \ Present(items) \in SUBSET ks
    OBVIOUS
  <2> HIDE DEF new
  <2> QED BY <2>1, <2>2, AdditionsOf DEF StoreInv
<1>5. ASSUME NEW k \in DOMAIN es, k \notin DOMAIN new
      PROVE  Cost(es[k]) <= Cost(items[k])
  <2>1. k \in ks /\ k \in Keys /\ items[k] # NoEntry
    BY <1>5 DEF Present
  <2>2. items[k] \in Entries
    BY <2>1 DEF StoreInv, TypeOK
  <2>3. es[k] \in Entries /\ es[k].value = f[k] /\ f[k] \in Values
    BY <2>1, NewEntryType DEF StoreInv, NewEntry
  <2>4. f[k] <= items[k].value
    BY <2>2, <2>3 DEF OverwritesFit, SetMany, Whole, MayCall, Entries
  <2> QED BY <2>2, <2>3, <2>4, NoEntryIsNone DEF Cost
<1>6. \A k \in DOMAIN es : \/ k \in DOMAIN new /\ new[k] = es[k]
                           \/ Cost(es[k]) <= Cost(items[k])
  BY <1>5
<1> HIDE DEF es, new
<1> QED BY <1>2, <1>3, <1>4, <1>6, StoreKeepsMemory DEF es, new

LEMMA NextKeepsMemory ==
    ASSUME OverwritesFit, StoreInv, MemoryLimit, [Next]_vars
    PROVE  MemoryLimit'
<1>1. memoryUsage \in Int /\ memoryUsage' \in Int
  BY NextInv DEF StoreInv, TypeOK
<1>2. ASSUME memoryUsage' <= memoryUsage \/ (TrackMemory => memoryUsage' = 0)
      PROVE  MemoryLimit'
  BY <1>1, <1>2, MemoryStoreAssumption DEF MemoryLimit
<1>3. ASSUME NEW c \in Clients,
             \/ GetBegin(c) \/ GetLookup(c) \/ GetReturn(c)
             \/ DeleteManyBegin(c) \/ DeleteManyNext(c)
             \/ Close(c) \/ CtxDone(c)
      PROVE  memoryUsage' = memoryUsage
  BY <1>3 DEF GetBegin, GetLookup, GetReturn, DeleteManyBegin, DeleteManyNext,
              Close, CtxDone, storeVars
<1>4. ASSUME NEW c \in Clients, Begin(c) \/ Proceed(c) PROVE MemoryLimit'
  BY <1>1, <1>2, <1>3, <1>4, SetKeepsMemory, SetManyKeepsMemory, GetCheckInv,
     DeleteInv, ClearInv, CleanupInv DEF Begin, Proceed
<1> QED BY <1>1, <1>2, <1>4, CleanupInv, RestInv DEF Next

\* The account keeps to the limit on memory if SetMany is not used or all
\* values have one size.
THEOREM MemoryLimitHolds == ASSUME OverwritesFit PROVE Spec => []MemoryLimit
<1>1. StoreInv /\ MemoryLimit /\ [Next]_vars => (StoreInv /\ MemoryLimit)'
  BY NextInv, NextKeepsMemory
<1> QED BY <1>1, InitInv, PTL DEF Spec

-----------------------------------------------------------------------------
(***************************************************************************)
(* What makes the store wrong about a key.                                 *)
(***************************************************************************)
LEMMA FaithfulKept ==
    ASSUME NEW k \in Keys, Faithful(k), clock' = clock,
           \/ items'[k] = truth'[k]
           \/ items'[k] = items[k] /\ truth'[k] = truth[k]
           \/ items'[k] = NoEntry /\ Expired(items[k]) /\ truth'[k] = truth[k]
    PROVE  Faithful(k)'
BY DEF Faithful, Expired

LEMMA ExpiryKept ==
    ASSUME StoreInv, NEW k \in Keys, Faithful(k), TimePasses
    PROVE  Faithful(k)'
<1>1. /\ clock \in Nat /\ clock' = clock + 1
      /\ items' = items /\ truth' = truth
      /\ truth[k] \in Entries \cup {NoEntry}
  BY DEF StoreInv, TypeOK, TimePasses, storeVars
<1>2. Expired(truth[k]) => Expired(truth[k])'
  BY <1>1 DEF Expired, IsExpired, Entries, NoEntry, Never
<1> QED BY <1>1, <1>2 DEF Faithful

\* The one step that may lose an update: the removal, in Get, of a key by an
\* entry that is there no more.
LosesUpdate(c, k) ==
    /\ op[c].pc = "getCheck" /\ op[c].key = k
    /\ Expired(op[c].entry) /\ items[k] # op[c].entry

LEMMA GetCheckDisturbs ==
    ASSUME StoreInv, NEW c \in Clients, GetCheck(c), NEW k \in Keys,
           Faithful(k), ~Faithful(k)'
    PROVE  LosesUpdate(c, k)
<1>1. /\ op[c].pc = "getCheck" /\ clock' = clock /\ truth' = truth
      /\ items' = IF Expired(op[c].entry) THEN Without(items, {op[c].key})
                  ELSE items
  BY DEF GetCheck
<1>2. CASE Expired(op[c].entry) /\ op[c].key = k
  <2>1. items'[k] = NoEntry
    BY <1>1, <1>2 DEF Without
  <2>2. items[k] # op[c].entry
    BY <1>1, <1>2, <2>1, FaithfulKept
  <2> QED BY <1>1, <1>2, <2>2 DEF LosesUpdate
<1>3. CASE ~(Expired(op[c].entry) /\ op[c].key = k)
  <2>1. items'[k] = items[k]
    BY <1>1, <1>3 DEF Without, StoreInv, TypeOK
  <2> QED BY <1>1, <2>1, FaithfulKept
<1> QED BY <1>2, <1>3

LEMMA StoreFaithful ==
    ASSUME NEW new, NEW es, Store(new, es), clock' = clock,
           NEW k \in Keys, Faithful(k)
    PROVE  Faithful(k)'
<1>1. CASE UNCHANGED <<storeVars, truth>>
  BY <1>1, FaithfulKept DEF storeVars
<1>2. CASE items' = Stored(items, es) /\ truth' = Stored(truth, es)
  <2>1. \/ items'[k] = truth'[k]
        \/ items'[k] = items[k] /\ truth'[k] = truth[k]
    BY <1>2 DEF Stored
  <2> QED BY <2>1, FaithfulKept
<1> QED BY <1>1, <1>2 DEF Store

LEMMA RemoveFaithful ==
    ASSUME NEW j, Remove(j), clock' = clock, NEW k \in Keys, Faithful(k)
    PROVE  Faithful(k)'
<1>1. \/ items'[k] = truth'[k]
      \/ items'[k] = items[k] /\ truth'[k] = truth[k]
  BY DEF Remove, Without
<1> QED BY <1>1, FaithfulKept

LEMMA CleanupFaithful ==
    ASSUME StoreInv, CleanupExpired, truth' = truth, clock' = clock,
           NEW k \in Keys, Faithful(k)
    PROVE  Faithful(k)'
<1>1. items'[k] = items[k] \/ (items'[k] = NoEntry /\ Expired(items[k]))
  BY DEF CleanupExpired, Without
<1> QED BY <1>1, FaithfulKept

\* Only the second critical section of a Get loses what has been stored since
\* its first: no cleanup, no eviction of expired entries, no Delete and no
\* passing of time makes the store wrong about a key.
THEOREM OnlyGetDisturbsHolds == Spec => OnlyGetDisturbs
<1>1. ASSUME StoreInv, [Next]_vars, NEW k \in Keys, Faithful(k), ~Faithful(k)'
      PROVE  \E c \in Clients : LosesUpdate(c, k)
  <2>1. ASSUME NEW c \in Clients, Begin(c) PROVE FALSE
    <3>1. CASE \/ GetBegin(c) \/ DeleteManyBegin(c) \/ Close(c) \/ CtxDone(c)
      BY <1>1, <3>1, FaithfulKept
      DEF GetBegin, DeleteManyBegin, Close, CtxDone, storeVars
    <3>2. CASE Set(c) \/ SetMany(c)
      BY <1>1, <3>2, StoreFaithful DEF Set, SetMany
    <3>3. CASE Delete(c)
      BY <1>1, <3>3, RemoveFaithful DEF Delete
    <3>4. CASE Clear(c)
      BY <1>1, <3>4, FaithfulKept DEF Clear
    <3>5. CASE ForceCleanup(c)
      BY <1>1, <3>5, CleanupFaithful DEF ForceCleanup
    <3> QED BY <2>1, <3>1, <3>2, <3>3, <3>4, <3>5 DEF Begin
  <2>2. ASSUME NEW c \in Clients, Proceed(c), ~GetCheck(c) PROVE FALSE
    <3>1. CASE GetLookup(c) \/ GetReturn(c) \/ DeleteManyNext(c)
      BY <1>1, <3>1, FaithfulKept
      DEF GetLookup, GetReturn, DeleteManyNext, storeVars
    <3>2. CASE DeleteManyOne(c)
      BY <1>1, <3>2, RemoveFaithful, FaithfulKept DEF DeleteManyOne, storeVars
    <3> QED BY <2>2, <3>1, <3>2 DEF Proceed
  <2>3. ~CleanerTick
    BY <1>1, CleanupFaithful DEF CleanerTick
  <2>4. ~CleanerStop /\ ~Finished /\ ~UNCHANGED vars
    BY <1>1, FaithfulKept DEF CleanerStop, Finished, vars, storeVars
  <2>5. ~TimePasses
    BY <1>1, ExpiryKept
  <2> QED BY <1>1, <2>1, <2>2, <2>3, <2>4, <2>5, GetCheckDisturbs DEF Next
<1>2. StoreInv /\ [Next]_vars =>
        [\A k \in Keys : Faithful(k) /\ ~Faithful(k)' =>
            \E c \in Clients : /\ op[c].pc = "getCheck" /\ op[c].key = k
                              /\ Expired(op[c].entry) /\ items[k] # op[c].entry
        ]_vars
  BY <1>1 DEF LosesUpdate
<1> QED BY <1>2, StoreInvHolds, PTL DEF Spec, OnlyGetDisturbs
=============================================================================
