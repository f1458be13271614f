---------------------------- MODULE PolicyProofs ----------------------------
(***************************************************************************)
(* LRU, FIFO and LFU keep their maps, lists and heaps consistent, evict    *)
(* the least recently used, the oldest and the least often used key, and   *)
(* implement EvictionPolicy, for every set of keys and every capacity.     *)
(***************************************************************************)
EXTENDS Policies, LRUListProofs, WellFoundedInduction

\* RecencyOrder as an operator, for a list and a history that need not be
\* those of the current state.
Ordered(list, used) ==
    \A i, j \in DOMAIN list : i < j <=> list[i] \in used[list[j]]

-----------------------------------------------------------------------------
LEMMA OrderedWithout ==
    ASSUME NEW q \in Record(Keys), WellFormed(q), NEW k \in q.items,
           NEW used \in [Keys -> SUBSET Keys], Ordered(q.list, used)
    PROVE  Ordered(ListWithout(q.list, k), used)
<1> DEFINE s == q.list
           t == ListWithout(q.list, k)
<1>1. s \in Seq(Keys) /\ Len(s) \in Nat /\ DOMAIN s = 1 .. Len(s)
  BY LenProperties DEF Record
<1>2. PICK i \in 1 .. Len(s) :
         /\ s[i] = k
         /\ t \in Seq(Keys)
         /\ Len(t) = Len(s) - 1
         /\ \A j \in 1 .. Len(s) - 1 : t[j] = IF j < i THEN s[j] ELSE s[j + 1]
  BY WithoutFacts
<1>3. DOMAIN t = 1 .. Len(s) - 1
  BY <1>2, LenProperties
<1>4. ASSUME NEW a \in 1 .. Len(s) - 1, NEW b \in 1 .. Len(s) - 1
      PROVE  a < b <=> t[a] \in used[t[b]]
  <2> DEFINE At(j) == IF j < i THEN j ELSE j + 1
  <2>1. /\ At(a) \in 1 .. Len(s) /\ t[a] = s[At(a)]
        /\ At(b) \in 1 .. Len(s) /\ t[b] = s[At(b)]
    BY <1>1, <1>2
  <2>2. At(a) < At(b) <=> s[At(a)] \in used[s[At(b)]]
    BY <2>1, <1>1 DEF Ordered
  <2>3. a < b <=> At(a) < At(b)
    BY <1>1
  <2> QED BY <2>1, <2>2, <2>3
<1> QED BY <1>3, <1>4 DEF Ordered

LEMMA OrderedCons ==
    ASSUME NEW q \in Record(Keys), WellFormed(q),
           NEW k \in Keys, k \notin q.items,
           NEW used \in [Keys -> SUBSET Keys], Ordered(q.list, used)
    PROVE  Ordered(<<k>> \o q.list,
                   [j \in Keys |-> IF j = k THEN {} ELSE used[j] \cup {k}])
<1> DEFINE s == q.list
           t == <<k>> \o s
           new == [j \in Keys |-> IF j = k THEN {} ELSE used[j] \cup {k}]
<1>1. s \in Seq(Keys) /\ Len(s) \in Nat /\ DOMAIN s = 1 .. Len(s)
  BY LenProperties DEF Record
<1>2. /\ t \in Seq(Keys) /\ Len(t) = Len(s) + 1
      /\ t[1] = k
      /\ \A j \in 1 .. Len(s) : t[j + 1] = s[j]
  BY <1>1, ConsFacts
<1>3. DOMAIN t = 1 .. Len(s) + 1
  BY <1>2, LenProperties
<1> HIDE DEF t
<1>4. \A a \in 1 .. Len(s) : s[a] \in Keys /\ s[a] # k
  BY <1>1 DEF WellFormed, ToSet
<1>5. \A a \in 2 .. Len(s) + 1 : a - 1 \in 1 .. Len(s) /\ t[a] = s[a - 1]
  <2> TAKE a \in 2 .. Len(s) + 1
  <2>1. a - 1 \in 1 .. Len(s) /\ (a - 1) + 1 = a
    BY <1>1
  <2> QED BY <2>1, <1>2
<1>6. ASSUME NEW a \in 1 .. Len(s) + 1, NEW b \in 1 .. Len(s) + 1
      PROVE  a < b <=> t[a] \in new[t[b]]
  <2>1. CASE b = 1
    BY <2>1, <1>1, <1>2
  <2>2. CASE a = 1 /\ b \in 2 .. Len(s) + 1
    <3>1. t[b] \in Keys /\ t[b] # k
      BY <2>2, <1>4, <1>5
    <3> QED BY <2>2, <3>1, <1>2
  <2>3. CASE a \in 2 .. Len(s) + 1 /\ b \in 2 .. Len(s) + 1
    <3>1. /\ a - 1 \in 1 .. Len(s) /\ t[a] = s[a - 1] /\ t[a] # k
          /\ b - 1 \in 1 .. Len(s) /\ t[b] = s[b - 1] /\ t[b] # k
          /\ t[b] \in Keys
      BY <2>3, <1>4, <1>5
    <3>2. a - 1 < b - 1 <=> t[a] \in used[t[b]]
      BY <3>1, <1>1 DEF Ordered
    <3>3. t[a] \in new[t[b]] <=> t[a] \in used[t[b]]
      BY <3>1
    <3> QED BY <3>2, <3>3, <1>1
  <2> QED BY <2>1, <2>2, <2>3, <1>1
<1> QED BY <1>3, <1>6 DEF Ordered, t

LEMMA OrderedDropBack ==
    ASSUME NEW q \in Record(Keys), WellFormed(q), NEW n \in 0 .. Len(q.list),
           NEW used \in [Keys -> SUBSET Keys], Ordered(q.list, used)
    PROVE  Ordered(DropBack(q, n).list, used)
<1> DEFINE t == DropBack(q, n).list
<1>1. /\ q.list \in Seq(Keys) /\ Len(q.list) \in Nat /\ n \in Nat
      /\ DOMAIN q.list = 1 .. Len(q.list)
  BY LenProperties DEF Record
<1>2. /\ t \in Seq(Keys) /\ Len(t) = Len(q.list) - n
      /\ \A j \in 1 .. Len(q.list) - n : t[j] = q.list[j]
  BY DropBackWellFormed DEF Record
<1>3. DOMAIN t = 1 .. Len(q.list) - n
  BY <1>2, LenProperties
<1> HIDE DEF t
<1>4. \A j \in 1 .. Len(q.list) - n : j \in 1 .. Len(q.list)
  BY <1>1
<1>5. ASSUME NEW a \in DOMAIN t, NEW b \in DOMAIN t
      PROVE  a < b <=> t[a] \in used[t[b]]
  <2>1. t[a] = q.list[a] /\ t[b] = q.list[b]
    BY <1>2, <1>3
  <2>2. a \in DOMAIN q.list /\ b \in DOMAIN q.list
    BY <1>1, <1>3, <1>4
  <2> QED BY <2>1, <2>2 DEF Ordered
<1> QED BY <1>5 DEF Ordered, t

\* The victim of one Evict is the last key of the list, and every other
\* tracked key was used after it.
LEMMA LastIsLeastRecent ==
    ASSUME NEW q \in Record(Keys), WellFormed(q), q.list # <<>>,
           NEW used \in [Keys -> SUBSET Keys], Ordered(q.list, used)
    PROVE  /\ Last(q.list) \in q.items
           /\ Victims(q, 1) = {Last(q.list)}
           /\ q.items \ {Last(q.list)} \subseteq used[Last(q.list)]
<1> DEFINE s == q.list
<1>1. s \in Seq(Keys) /\ Len(s) \in Nat \ {0} /\ DOMAIN s = 1 .. Len(s)
  BY LenProperties, EmptySeq DEF Record
<1>2. q.items = {s[a] : a \in 1 .. Len(s)}
  BY <1>1 DEF WellFormed, ToSet
<1>3. Len(s) \in 1 .. Len(s) /\ Last(s) = s[Len(s)]
  BY <1>1 DEF Last
<1>4. Victims(q, 1) = {Last(s)}
  <2>1. Len(s) - 1 + 1 .. Len(s) = {Len(s)}
    BY <1>1
  <2> QED BY <2>1, <1>3 DEF Victims
<1>5. ASSUME NEW x \in q.items \ {Last(s)}
      PROVE  x \in used[Last(s)]
  <2>1. PICK a \in 1 .. Len(s) : s[a] = x
    BY <1>2
  <2>2. a < Len(s)
    BY <2>1, <1>1, <1>3
  <2> QED BY <2>1, <2>2, <1>1, <1>3 DEF Ordered
<1> QED BY <1>2, <1>3, <1>4, <1>5

-----------------------------------------------------------------------------
LEMMA OrderedMoveToFront ==
    ASSUME NEW q \in Record(Keys), WellFormed(q), NEW k \in q.items,
           NEW used \in [Keys -> SUBSET Keys], Ordered(q.list, used)
    PROVE  Ordered(MoveToFront(q.list, k),
                   [j \in Keys |-> IF j = k THEN {} ELSE used[j] \cup {k}])
<1> DEFINE r == [items |-> q.items \ {k}, list |-> ListWithout(q.list, k)]
<1>1. r \in Record(Keys) /\ WellFormed(r)
  BY WithoutWellFormed
<1>2. k \in Keys /\ k \notin r.items
  BY DEF Record
<1>3. Ordered(r.list, used)
  BY OrderedWithout
<1>4. MoveToFront(q.list, k) = <<k>> \o r.list
  BY DEF MoveToFront
<1> QED
  <2> HIDE DEF r
  <2> QED BY <1>1, <1>2, <1>3, <1>4, OrderedCons

\* OnSet keeps the list ordered once the key set counts as used.
LEMMA OrderedAfterSet ==
    ASSUME NEW q \in Record(Keys), WellFormed(q), NEW k \in Keys,
           NEW capacity,
           NEW used \in [Keys -> SUBSET Keys], Ordered(q.list, used)
    PROVE  Ordered(AfterSet(q, k, capacity).list,
                   [j \in Keys |-> IF j = k THEN {} ELSE used[j] \cup {k}])
<1>1. CASE k \in q.items
  <2>1. AfterSet(q, k, capacity).list = MoveToFront(q.list, k)
    BY <1>1 DEF AfterSet, Record
  <2> QED BY <1>1, <2>1, OrderedMoveToFront
<1>2. CASE k \notin q.items
  <2> DEFINE r == RoomFor(q, capacity)
  <2>1. r \in Record(Keys) /\ WellFormed(r) /\ r.items \subseteq q.items
    BY RoomForWellFormed
  <2>2. Ordered(r.list, used)
    <3>1. CASE Cardinality(q.items) >= capacity /\ q.list # <<>>
      <4>1. 1 \in 0 .. Len(q.list)
        BY <3>1, EmptySeq DEF Record
      <4> QED BY <3>1, <4>1, OrderedDropBack DEF RoomFor
    <3>2. CASE ~(Cardinality(q.items) >= capacity /\ q.list # <<>>)
      BY <3>2 DEF RoomFor
    <3> QED BY <3>1, <3>2
  <2>3. AfterSet(q, k, capacity).list = <<k>> \o r.list
    BY <1>2 DEF AfterSet
  <2> HIDE DEF r
  <2> QED BY <1>2, <2>1, <2>2, <2>3, OrderedCons
<1> QED BY <1>1, <1>2

\* One call of Evict hands out the last key and drops exactly that key.
LEMMA EvictOne ==
    ASSUME NEW q \in Record(Keys), WellFormed(q), q.list # <<>>
    PROVE  /\ 1 \in 0 .. Len(q.list)
           /\ Last(q.list) \in q.items
           /\ DropBack(q, 1).items = q.items \ {Last(q.list)}
<1>1. q.list \in Seq(Keys) /\ Len(q.list) \in Nat \ {0}
  BY LenProperties, EmptySeq DEF Record
<1>2. Len(q.list) - 1 + 1 .. Len(q.list) = {Len(q.list)}
  BY <1>1
<1>3. Victims(q, 1) = {Last(q.list)}
  BY <1>1, <1>2 DEF Victims, Last
<1>4. Len(q.list) \in DOMAIN q.list
  BY <1>1, LenProperties
<1>5. Last(q.list) \in q.items
  BY <1>1, <1>4 DEF WellFormed, ToSet, Last
<1> QED BY <1>1, <1>3, <1>5 DEF DropBack

-----------------------------------------------------------------------------
(***************************************************************************)
(* LRUInv is inductive.  Consistent is needed to know that every tracked   *)
(* key has exactly one place in the list, and RecencyOrder that this place *)
(* tells its age.                                                          *)
(***************************************************************************)
LEMMA InitInv == Init => LRUInv
<1> SUFFICES ASSUME Init PROVE LRUInv
  OBVIOUS
<1>1. p \in Record(Keys) /\ WellFormed(p)
  BY EmptyPolicyWellFormed DEF Init
<1>2. RecencyOrder
  BY DEF Init, EmptyPolicy, RecencyOrder
<1> QED BY <1>1, <1>2 DEF Init, LRUInv, TypeOK, Consistent, Record

LEMMA NextInv == LRUInv /\ [Next]_vars => LRUInv'
<1> SUFFICES ASSUME LRUInv, [Next]_vars PROVE LRUInv'
  OBVIOUS
<1>0. /\ p \in Record(Keys) /\ WellFormed(p)
      /\ since \in [Keys -> SUBSET Keys]
      /\ Ordered(p.list, since)
  BY DEF LRUInv, TypeOK, Consistent, RecencyOrder, Ordered, Record
<1> DEFINE Goal == /\ p' \in Record(Keys) /\ WellFormed(p')
                  /\ evicted' \in Keys \cup {NoKey}
                  /\ since' \in [Keys -> SUBSET Keys]
                  /\ Ordered(p'.list, since')
<1> SUFFICES Goal
  BY DEF LRUInv, TypeOK, Consistent, RecencyOrder, Ordered, Record
<1>1. ASSUME NEW k \in Keys PROVE Used(k) \in [Keys -> SUBSET Keys]
  BY <1>0 DEF Used
<1>2. ASSUME NEW k \in Keys, OnGet(k) PROVE Goal
  <2>1. CASE k \in p.items
    <3>1. p'.list = MoveToFront(p.list, k)
      BY <1>0, <1>2, <2>1 DEF OnGet, AfterGet, Record
    <3>2. Ordered(p'.list, since')
      BY <1>0, <1>2, <2>1, <3>1, OrderedMoveToFront DEF OnGet, Used
    <3> QED BY <1>0, <1>1, <1>2, <2>1, <3>2, AfterGetWellFormed DEF OnGet
  <2>2. CASE k \notin p.items
    BY <1>0, <1>2, <2>2 DEF OnGet, AfterGet
  <2> QED BY <2>1, <2>2
<1>3. ASSUME NEW k \in Keys, OnSet(k) PROVE Goal
  <2>1. Ordered(p'.list, since')
    BY <1>0, <1>3, OrderedAfterSet DEF OnSet, Used
  <2>2. p' \in Record(Keys) /\ WellFormed(p')
    BY <1>0, <1>3, AfterSetWellFormed DEF OnSet
  <2> QED BY <1>1, <1>3, <2>1, <2>2 DEF OnSet
<1>4. ASSUME NEW k \in Keys, OnDelete(k) PROVE Goal
  <2>1. p' \in Record(Keys) /\ WellFormed(p')
    BY <1>0, <1>4, AfterDeleteWellFormed DEF OnDelete
  <2>2. Ordered(p'.list, since)
    <3>1. CASE k \in p.items
      BY <1>0, <1>4, <3>1, OrderedWithout DEF OnDelete, AfterDelete
    <3>2. CASE k \notin p.items
      BY <1>0, <1>4, <3>2 DEF OnDelete, AfterDelete
    <3> QED BY <3>1, <3>2
  <2> QED BY <1>0, <1>4, <2>1, <2>2 DEF OnDelete
<1>5. CASE OnClear
  <2>1. Ordered(p'.list, since)
    BY <1>5 DEF OnClear, EmptyPolicy, Ordered
  <2> QED BY <1>0, <1>5, <2>1, EmptyPolicyWellFormed DEF OnClear
<1>6. CASE Evict
  <2>1. /\ 1 \in 0 .. Len(p.list)
        /\ Last(p.list) \in Keys
    BY <1>0, <1>6, EvictOne DEF Evict, Record
  <2>2. p' \in Record(Keys) /\ WellFormed(p')
    BY <1>0, <1>6, <2>1, DropBackWellFormed DEF Evict
  <2>3. Ordered(p'.list, since)
    BY <1>0, <1>6, <2>1, OrderedDropBack DEF Evict
  <2> QED BY <1>0, <1>6, <2>1, <2>2, <2>3 DEF Evict
<1>7. CASE EvictNothing
  BY <1>0, <1>7 DEF EvictNothing
<1>8. CASE UNCHANGED vars
  BY <1>0, <1>8 DEF vars, LRUInv, TypeOK
<1> QED BY <1>2, <1>3, <1>4, <1>5, <1>6, <1>7, <1>8 DEF Next

\* Map and list agree, and the list is ordered by recency, whatever the calls.
THEOREM LRUInvHolds == Spec => []LRUInv
BY InitInv, NextInv, PTL DEF Spec

\* The map and the list hold keys, and Evict returns a key or nothing.
THEOREM TypeCorrect == Spec => []TypeOK
BY LRUInvHolds, PTL DEF LRUInv

\* The map and the list always agree: OnSet, which counts the map, and
\* Evict, which walks the list, see the same keys.
THEOREM ConsistentHolds == Spec => []Consistent
BY LRUInvHolds, PTL DEF LRUInv

\* The list is ordered by recency, whatever the calls.
THEOREM RecencyOrderHolds == Spec => []RecencyOrder
BY LRUInvHolds, PTL DEF LRUInv

-----------------------------------------------------------------------------
LEMMA ListEmptyIffNoItems ==
    ASSUME NEW q \in Record(Keys), WellFormed(q)
    PROVE  q.list = <<>> <=> q.items = {}
<1>1. q.list \in Seq(Keys) /\ DOMAIN q.list = 1 .. Len(q.list)
  BY LenProperties DEF Record
<1>2. CASE q.list = <<>>
  BY <1>2 DEF WellFormed, ToSet
<1>3. CASE q.list # <<>>
  <2>1. Len(q.list) \in Nat \ {0}
    BY <1>1, <1>3, LenProperties, EmptySeq
  <2>2. 1 \in DOMAIN q.list
    BY <1>1, <2>1
  <2>3. q.list[1] \in q.items
    BY <2>2 DEF WellFormed, ToSet
  <2> QED BY <1>3, <2>3
<1> QED BY <1>2, <1>3

\* What OnSet does to the set of tracked keys.
LEMMA ItemsAfterSet ==
    ASSUME NEW q \in Record(Keys), WellFormed(q), NEW k \in Keys,
           NEW capacity
    PROVE  AfterSet(q, k, capacity).items =
              IF k \in q.items THEN q.items
              ELSE IF Cardinality(q.items) >= capacity /\ q.items # {}
                   THEN (q.items \ {Last(q.list)}) \cup {k}
                   ELSE q.items \cup {k}
<1>1. CASE k \in q.items
  BY <1>1, MoveToFrontWellFormed DEF AfterSet
<1>2. CASE k \notin q.items
  <2>1. AfterSet(q, k, capacity).items = RoomFor(q, capacity).items \cup {k}
    BY <1>2 DEF AfterSet
  <2>2. RoomFor(q, capacity).items =
           IF Cardinality(q.items) >= capacity /\ q.items # {}
           THEN q.items \ {Last(q.list)} ELSE q.items
    BY ListEmptyIffNoItems, EvictOne DEF RoomFor
  <2> QED BY <1>2, <2>1, <2>2
<1> QED BY <1>1, <1>2

\* LRU's promise: a key dropped to make room is the least recently used one,
\* because it is the last of a list that is ordered by recency.
THEOREM EvictsLeastRecentHolds == Spec => EvictsLeastRecent
<1> DEFINE Step == (Evict \/ \E k \in Keys : OnSet(k)) =>
                      \A v \in p.items \ p'.items :
                          p.items \ {v} \subseteq since[v]
<1>1. LRUInv => Step
  <2> SUFFICES ASSUME LRUInv, Evict \/ \E k \in Keys : OnSet(k),
                      NEW v \in p.items \ p'.items
               PROVE  p.items \ {v} \subseteq since[v]
    OBVIOUS
  <2>1. /\ p \in Record(Keys) /\ WellFormed(p)
        /\ since \in [Keys -> SUBSET Keys]
        /\ Ordered(p.list, since)
    BY DEF LRUInv, TypeOK, Consistent, RecencyOrder, Ordered, Record
  <2>2. p.list # <<>>
    BY <2>1, ListEmptyIffNoItems
  <2>3. v = Last(p.list)
    <3>1. CASE Evict
      BY <2>1, <2>2, <3>1, EvictOne DEF Evict
    <3>2. CASE \E k \in Keys : OnSet(k)
      <4>1. PICK k \in Keys : OnSet(k)
        BY <3>2
      <4>2. p'.items = AfterSet(p, k, Capacity).items
        BY <4>1 DEF OnSet
      <4>3. AfterSet(p, k, Capacity).items =
               IF k \in p.items THEN p.items
               ELSE IF Cardinality(p.items) >= Capacity /\ p.items # {}
                    THEN (p.items \ {Last(p.list)}) \cup {k}
                    ELSE p.items \cup {k}
        BY <2>1, ItemsAfterSet
      <4> QED BY <4>2, <4>3
    <3> QED BY <3>1, <3>2
  <2> QED BY <2>1, <2>2, <2>3, LastIsLeastRecent
<1>2. LRUInv /\ [Next]_vars => [Step]_vars
  BY <1>1
<1> QED BY <1>2, LRUInvHolds, PTL DEF Spec, EvictsLeastRecent

-----------------------------------------------------------------------------
\* The policy never outgrows its capacity: OnSet drops a key before it
\* admits one to a full list, and every other method only drops keys.
THEOREM WithinCapacityHolds == Spec => []WithinCapacity
<1> DEFINE Most == IF Capacity = 0 THEN 1 ELSE Capacity
<1>1. Init => WithinCapacity
  BY LRUAssumption, FS_EmptySet DEF Init, EmptyPolicy, WithinCapacity
<1>2. ASSUME LRUInv, WithinCapacity, [Next]_vars
      PROVE  WithinCapacity'
  <2>1. /\ p \in Record(Keys) /\ WellFormed(p)
        /\ IsFiniteSet(p.items) /\ Cardinality(p.items) \in Nat
        /\ Cardinality(p.items) <= Most
    BY <1>2, LRUAssumption, FS_Subset, FS_CardinalityType
    DEF LRUInv, TypeOK, Consistent, Record, WithinCapacity
  <2>2. ASSUME p'.items \subseteq p.items PROVE WithinCapacity'
    <3>1. /\ IsFiniteSet(p'.items)
          /\ Cardinality(p'.items) <= Cardinality(p.items)
          /\ Cardinality(p'.items) \in Nat
      BY <2>1, <2>2, FS_Subset, FS_CardinalityType
    <3> QED BY <2>1, <3>1, LRUAssumption DEF WithinCapacity
  <2>3. ASSUME NEW k \in Keys, OnGet(k) PROVE WithinCapacity'
    BY <2>1, <2>2, <2>3, AfterGetWellFormed DEF OnGet
  <2>4. ASSUME NEW k \in Keys, OnSet(k) PROVE WithinCapacity'
    <3>1. CASE k \in p.items
      BY <2>1, <2>2, <2>4, <3>1, ItemsAfterSet DEF OnSet
    <3>2. CASE /\ k \notin p.items
               /\ Cardinality(p.items) >= Capacity /\ p.items # {}
      <4> DEFINE rest == p.items \ {Last(p.list)}
      <4>1. p'.items = rest \cup {k} /\ Last(p.list) \in p.items
        BY <2>1, <2>4, <3>2, ItemsAfterSet, ListEmptyIffNoItems, EvictOne
        DEF OnSet
      <4>2. /\ IsFiniteSet(rest)
            /\ Cardinality(rest) = Cardinality(p.items) - 1
        BY <2>1, <4>1, FS_RemoveElement
      <4>3. Cardinality(rest \cup {k}) = Cardinality(rest) + 1
        BY <3>2, <4>2, FS_AddElement
      <4> QED BY <2>1, <4>1, <4>2, <4>3, LRUAssumption DEF WithinCapacity
    <3>3. CASE /\ k \notin p.items
               /\ ~(Cardinality(p.items) >= Capacity /\ p.items # {})
      <4>1. p'.items = p.items \cup {k}
        BY <2>1, <2>4, <3>3, ItemsAfterSet DEF OnSet
      <4>2. Cardinality(p.items \cup {k}) = Cardinality(p.items) + 1
        BY <2>1, <3>3, FS_AddElement
      <4>3. p.items = {} => Cardinality(p.items) = 0
        BY FS_EmptySet
      <4> QED BY <2>1, <3>3, <4>1, <4>2, <4>3, LRUAssumption DEF WithinCapacity
    <3> QED BY <3>1, <3>2, <3>3
  <2>5. ASSUME NEW k \in Keys, OnDelete(k) PROVE WithinCapacity'
    BY <2>1, <2>2, <2>5 DEF OnDelete, AfterDelete
  <2>6. CASE OnClear
    BY <2>2, <2>6 DEF OnClear, EmptyPolicy
  <2>7. CASE Evict
    BY <2>1, <2>2, <2>7, EvictOne DEF Evict
  <2>8. CASE EvictNothing
    BY <2>2, <2>8 DEF EvictNothing
  <2>9. CASE UNCHANGED vars
    BY <2>2, <2>9 DEF vars
  <2> QED BY <1>2, <2>3, <2>4, <2>5, <2>6, <2>7, <2>8, <2>9 DEF Next
<1> QED BY <1>1, <1>2, LRUInvHolds, PTL DEF Spec

-----------------------------------------------------------------------------
(***************************************************************************)
(* Every call of LRU is a step of the Policy interface.                    *)
(***************************************************************************)
LEMMA StepSimulation ==
    LRUInv /\ [Next]_vars => [Abstract!PolicyNext]_(Abstract!policyVars)
<1> SUFFICES ASSUME LRUInv, [Next]_vars
             PROVE  Abstract!PolicyNext \/ UNCHANGED <<p.items, evicted>>
  BY DEF Abstract!policyVars
<1>0. p \in Record(Keys) /\ WellFormed(p)
  BY DEF LRUInv, TypeOK, Consistent, Record
<1>1. ASSUME NEW k \in Keys, OnGet(k) PROVE Abstract!Touch
  BY <1>0, <1>1, AfterGetWellFormed DEF OnGet, Abstract!Touch
<1>2. ASSUME NEW k \in Keys, OnSet(k)
      PROVE  Abstract!Touch \/ Abstract!Admit(k)
  <2>1. CASE k \in p.items
    BY <1>0, <1>2, <2>1, ItemsAfterSet DEF OnSet, Abstract!Touch
  <2>2. CASE k \notin p.items
    <3>1. p.items # {} => Last(p.list) \in p.items
      BY <1>0, ListEmptyIffNoItems, EvictOne
    <3>2. Cardinality(p.items) = Abstract!Cardinality(p.items)
      BY DEF Cardinality, Abstract!Cardinality
    <3>3. p'.items = IF Cardinality(p.items) >= Capacity /\ p.items # {}
                     THEN (p.items \ {Last(p.list)}) \cup {k}
                     ELSE p.items \cup {k}
      BY <1>0, <1>2, <2>2, ItemsAfterSet DEF OnSet
    <3> QED BY <1>2, <2>2, <3>1, <3>2, <3>3 DEF OnSet, Abstract!Admit
  <2> QED BY <2>1, <2>2
<1>3. ASSUME NEW k \in Keys, OnDelete(k)
      PROVE  Abstract!Touch \/ Abstract!Forget(k)
  BY <1>3 DEF OnDelete, AfterDelete, Abstract!Touch, Abstract!Forget
<1>4. CASE OnClear
  BY <1>4 DEF OnClear, EmptyPolicy, Abstract!PolicyNext, Abstract!Reset
<1>5. CASE Evict
  <2>1. Last(p.list) \in Keys /\ Abstract!EvictSome(Last(p.list))
    BY <1>0, <1>5, EvictOne DEF Evict, Abstract!EvictSome, Record
  <2> QED BY <2>1 DEF Abstract!PolicyNext
<1>6. CASE EvictNothing
  BY <1>0, <1>6, ListEmptyIffNoItems
  DEF EvictNothing, Abstract!EvictNothing, Abstract!PolicyNext
<1>7. CASE UNCHANGED vars
  BY <1>7 DEF vars
<1> QED BY <1>1, <1>2, <1>3, <1>4, <1>5, <1>6, <1>7
        DEF Next, Abstract!PolicyNext

\* LRU implements the Policy interface: the cache may rely on the interface
\* alone, whatever the capacity and the keys.
THEOREM ImplementsPolicyHolds == Spec => ImplementsPolicy
<1>1. Init => Abstract!PolicyInit
  BY DEF Init, EmptyPolicy, Abstract!PolicyInit
<1> QED BY <1>1, StepSimulation, LRUInvHolds, PTL
        DEF Spec, ImplementsPolicy, Abstract!PolicySpec

-----------------------------------------------------------------------------
(***************************************************************************)
(* FIFO.  Its list is ordered the other way round, by a history that       *)
(* counts admissions.                                                      *)
(***************************************************************************)

\* AdmissionOrder as an operator.
Queued(list, age) ==
    \A i, j \in DOMAIN list : i < j <=> list[j] \in age[list[i]]

LEMMA SameOperators ==
    /\ \A s : F!ToSet(s) = ToSet(s)
    /\ \A s, k : F!Without(s, k) = ListWithout(s, k)
BY DEF F!ToSet, ToSet, F!Without, ListWithout, Position, F!RemoveAt, RemoveAt

LEMMA QueuedWithout ==
    ASSUME NEW q \in Record(Keys), WellFormed(q), NEW k \in q.items,
           NEW age \in [Keys -> SUBSET Keys], Queued(q.list, age)
    PROVE  Queued(ListWithout(q.list, k), age)
<1> DEFINE younger == [x \in Keys |-> {y \in Keys : x \in age[y]}]
<1>1. q.list \in Seq(Keys) /\ younger \in [Keys -> SUBSET Keys]
  BY DEF Record
<1>2. ListWithout(q.list, k) \in Seq(Keys)
  BY WithoutFacts
<1>3. ASSUME NEW s \in Seq(Keys)
      PROVE  Queued(s, age) <=> Ordered(s, younger)
  <2>1. \A i \in DOMAIN s : s[i] \in Keys
    BY LenProperties
  <2>2. \A i, j \in DOMAIN s : s[j] \in age[s[i]] <=> s[i] \in younger[s[j]]
    BY <2>1
  <2> QED BY <2>2 DEF Queued, Ordered
<1>4. Ordered(q.list, younger)
  BY <1>1, <1>3
<1>5. Ordered(ListWithout(q.list, k), younger)
  <2> HIDE DEF younger
  <2> QED BY <1>1, <1>4, OrderedWithout
<1> QED BY <1>2, <1>3, <1>5

\* The head of the list is a tracked key, and all the others were admitted
\* after it.
LEMMA HeadFacts ==
    ASSUME NEW q \in Record(Keys), WellFormed(q), q.list # <<>>
    PROVE  /\ Head(q.list) \in q.items
           /\ ListWithout(q.list, Head(q.list)) = Tail(q.list)
           /\ \A age : Queued(q.list, age) =>
                 q.items \ {Head(q.list)} \subseteq age[Head(q.list)]
<1> DEFINE s == q.list
           t == ListWithout(s, Head(s))
<1>1. s \in Seq(Keys) /\ Len(s) \in Nat \ {0} /\ DOMAIN s = 1 .. Len(s)
  BY LenProperties, EmptySeq DEF Record
<1>2. Head(s) = s[1] /\ 1 \in 1 .. Len(s)
  BY <1>1, HeadTailProperties
<1>3. q.items = {s[a] : a \in 1 .. Len(s)}
  BY <1>1 DEF WellFormed, ToSet
<1>4. Head(s) \in q.items
  BY <1>2, <1>3
<1>5. t = Tail(s)
  <2>1. PICK i \in 1 .. Len(s) :
           /\ s[i] = Head(s)
           /\ t \in Seq(Keys)
           /\ Len(t) = Len(s) - 1
           /\ \A j \in 1 .. Len(s) - 1 :
                 t[j] = IF j < i THEN s[j] ELSE s[j + 1]
    BY <1>4, WithoutFacts
  <2>2. i = 1
    BY <1>1, <1>2, <2>1 DEF WellFormed
  <2>3. /\ Tail(s) \in Seq(Keys) /\ Len(Tail(s)) = Len(s) - 1
        /\ \A j \in 1 .. Len(Tail(s)) : Tail(s)[j] = s[j + 1]
    BY <1>1, HeadTailProperties
  <2>4. \A j \in 1 .. Len(t) : t[j] = Tail(s)[j]
    BY <1>1, <2>1, <2>2, <2>3
  <2> HIDE DEF t
  <2> QED BY <2>1, <2>3, <2>4, SeqEqual
<1>6. ASSUME NEW age, Queued(s, age), NEW x \in q.items \ {Head(s)}
      PROVE  x \in age[Head(s)]
  <2>1. PICK a \in 1 .. Len(s) : s[a] = x
    BY <1>3
  <2>2. 1 < a
    BY <1>1, <1>2, <2>1, <1>6
  <2> QED BY <1>1, <1>2, <1>6, <2>1, <2>2 DEF Queued
<1> QED BY <1>4, <1>5, <1>6

LEMMA DropFrontFacts ==
    ASSUME NEW q \in Record(Keys), WellFormed(q), q.list # <<>>
    PROVE  /\ F!DropFront(q) \in Record(Keys) /\ WellFormed(F!DropFront(q))
           /\ F!DropFront(q).items = q.items \ {Head(q.list)}
           /\ \A age \in [Keys -> SUBSET Keys] :
                 Queued(q.list, age) => Queued(F!DropFront(q).list, age)
<1>1. F!DropFront(q) = [items |-> q.items \ {Head(q.list)},
                        list  |-> ListWithout(q.list, Head(q.list))]
  BY HeadFacts DEF F!DropFront
<1> DEFINE r == [items |-> q.items \ {Head(q.list)},
                  list  |-> ListWithout(q.list, Head(q.list))]
<1>2. Head(q.list) \in q.items
  BY HeadFacts
<1>3. r \in Record(Keys) /\ WellFormed(r)
  BY <1>2, WithoutWellFormed
<1>4. \A age \in [Keys -> SUBSET Keys] :
         Queued(q.list, age) => Queued(r.list, age)
  BY <1>2, QueuedWithout
<1> QED BY <1>1, <1>3, <1>4

\* A key that joins the queue at its back.
LEMMA AppendFacts ==
    ASSUME NEW q \in Record(Keys), WellFormed(q), NEW k \in Keys,
           k \notin q.items
    PROVE  LET r == [items |-> q.items \cup {k}, list |-> Append(q.list, k)]
           IN  /\ r \in Record(Keys) /\ WellFormed(r)
               /\ \A age \in [Keys -> SUBSET Keys] :
                     Queued(q.list, age) =>
                        Queued(r.list, [j \in Keys |-> IF j = k THEN {}
                                                       ELSE age[j] \cup {k}])
<1> DEFINE s == q.list
           t == Append(s, k)
           n == Len(s) + 1
<1>1. s \in Seq(Keys) /\ Len(s) \in Nat /\ DOMAIN s = 1 .. Len(s)
  BY LenProperties DEF Record
<1>2. /\ t \in Seq(Keys) /\ Len(t) = n /\ t[n] = k
      /\ \A a \in 1 .. Len(s) : t[a] = s[a]
  BY <1>1, AppendProperties
<1>3. DOMAIN t = 1 .. n
  BY <1>2, LenProperties
<1> HIDE DEF t
<1>4. \A a \in 1 .. n : a = n \/ a \in 1 .. Len(s)
  BY <1>1
<1>5. \A a \in 1 .. Len(s) : s[a] \in Keys /\ s[a] # k /\ a \in 1 .. n
                             /\ a < n
  BY <1>1 DEF WellFormed, ToSet
<1>6. n \in 1 .. n /\ ~(n < n)
  BY <1>1
<1>7. ToSet(t) = q.items \cup {k}
  <2>1. q.items = {s[a] : a \in 1 .. Len(s)}
    BY <1>1 DEF WellFormed, ToSet
  <2>2. \A a \in 1 .. n : t[a] \in q.items \cup {k}
    BY <1>2, <1>4, <2>1
  <2>3. \A x \in q.items \cup {k} : \E a \in 1 .. n : t[a] = x
    BY <1>2, <1>5, <1>6, <2>1
  <2> QED BY <1>3, <2>2, <2>3 DEF ToSet
<1>8. \A a, b \in DOMAIN t : t[a] = t[b] => a = b
  BY <1>1, <1>2, <1>3, <1>4, <1>5 DEF WellFormed
<1>9. ASSUME NEW age \in [Keys -> SUBSET Keys], Queued(s, age)
      PROVE  Queued(t, [j \in Keys |-> IF j = k THEN {}
                                       ELSE age[j] \cup {k}])
  <2> DEFINE new == [j \in Keys |-> IF j = k THEN {} ELSE age[j] \cup {k}]
  <2> SUFFICES ASSUME NEW a \in 1 .. n, NEW b \in 1 .. n
               PROVE  a < b <=> t[b] \in new[t[a]]
    BY <1>3 DEF Queued
  <2>1. CASE a = n
    <3>1. new[t[a]] = {} /\ ~(a < b)
      BY <1>1, <1>2, <2>1
    <3> QED BY <3>1
  <2>2. CASE a \in 1 .. Len(s) /\ b = n
    <3>1. a < b /\ t[b] = k /\ t[a] \in Keys /\ t[a] # k
      BY <1>2, <1>5, <2>2
    <3> QED BY <3>1
  <2>3. CASE a \in 1 .. Len(s) /\ b \in 1 .. Len(s)
    <3>1. /\ t[a] = s[a] /\ t[a] \in Keys /\ t[a] # k
          /\ t[b] = s[b] /\ t[b] # k
      BY <1>2, <1>5, <2>3
    <3>2. a < b <=> t[b] \in age[t[a]]
      BY <1>1, <1>9, <2>3, <3>1 DEF Queued
    <3> QED BY <3>1, <3>2
  <2> QED BY <1>4, <2>1, <2>2, <2>3
<1>10. q.items \cup {k} \in SUBSET Keys
  BY DEF Record
<1> QED BY <1>2, <1>7, <1>8, <1>9, <1>10 DEF Record, WellFormed, t

-----------------------------------------------------------------------------
LEMMA FIFOInvParts ==
    FIFOInv <=> /\ fifo \in Record(Keys) /\ WellFormed(fifo)
                /\ fifoEvicted \in Keys \cup {NoKey}
                /\ admitted \in [Keys -> SUBSET Keys]
                /\ Queued(fifo.list, admitted)
BY SameOperators
DEF FIFOInv, F!TypeOK, F!Consistent, F!AdmissionOrder, Record, WellFormed,
    Queued

\* What OnSet does to a key that is not tracked.
LEMMA FIFOSetFacts ==
    ASSUME fifo \in Record(Keys), WellFormed(fifo), NEW k \in Keys, F!OnSet(k),
           k \notin fifo.items
    PROVE  LET room == IF F!Full THEN F!DropFront(fifo) ELSE fifo
           IN  /\ room \in Record(Keys) /\ WellFormed(room)
               /\ room.items =
                     IF F!Full THEN fifo.items \ {Head(fifo.list)}
                     ELSE fifo.items
               /\ \A age \in [Keys -> SUBSET Keys] :
                     Queued(fifo.list, age) => Queued(room.list, age)
               /\ fifo' = [items |-> room.items \cup {k},
                        list  |-> Append(room.list, k)]
               /\ admitted' = F!Admitted(k)
               /\ fifoEvicted' = NoKey
<1>1. CASE F!Full
  BY <1>1, DropFrontFacts DEF F!OnSet, F!Full
<1>2. CASE ~F!Full
  BY <1>2 DEF F!OnSet
<1> QED BY <1>1, <1>2

LEMMA FIFOInitInv == F!Init => FIFOInv
<1> SUFFICES ASSUME F!Init PROVE FIFOInv
  OBVIOUS
<1>1. fifo = EmptyPolicy
  BY DEF F!Init, F!Empty, EmptyPolicy
<1>2. Queued(fifo.list, admitted)
  BY <1>1 DEF EmptyPolicy, Queued
<1> QED BY <1>1, <1>2, EmptyPolicyWellFormed, FIFOInvParts DEF F!Init

LEMMA FIFONextInv == FIFOInv /\ [F!Next]_(F!vars) => FIFOInv'
<1> SUFFICES ASSUME FIFOInv, [F!Next]_(F!vars) PROVE FIFOInv'
  OBVIOUS
<1> DEFINE Goal == /\ fifo' \in Record(Keys) /\ WellFormed(fifo')
                  /\ fifoEvicted' \in Keys \cup {NoKey}
                  /\ admitted' \in [Keys -> SUBSET Keys]
                  /\ Queued(fifo'.list, admitted')
<1> SUFFICES Goal
  BY SameOperators
  DEF FIFOInv, F!TypeOK, F!Consistent, F!AdmissionOrder, Record, WellFormed,
      Queued
<1>0. /\ fifo \in Record(Keys) /\ WellFormed(fifo)
      /\ fifoEvicted \in Keys \cup {NoKey}
      /\ admitted \in [Keys -> SUBSET Keys]
      /\ Queued(fifo.list, admitted)
  BY FIFOInvParts
<1>1. ASSUME NEW k \in Keys, F!OnGet(k) PROVE Goal
  BY <1>0, <1>1 DEF F!OnGet
<1>2. ASSUME NEW k \in Keys, F!OnSet(k) PROVE Goal
  <2>1. CASE k \in fifo.items
    BY <1>0, <1>2, <2>1 DEF F!OnSet
  <2>2. CASE k \notin fifo.items
    <3> DEFINE room == IF F!Full THEN F!DropFront(fifo) ELSE fifo
    <3>1. /\ room \in Record(Keys) /\ WellFormed(room)
          /\ k \notin room.items
          /\ Queued(room.list, admitted)
          /\ fifo' = [items |-> room.items \cup {k},
                   list  |-> Append(room.list, k)]
          /\ admitted' = F!Admitted(k)
          /\ fifoEvicted' = NoKey
      BY <1>0, <1>2, <2>2, FIFOSetFacts
    <3> HIDE DEF room
    <3>2. /\ fifo' \in Record(Keys) /\ WellFormed(fifo')
          /\ Queued(fifo'.list, admitted')
      BY <1>0, <3>1, AppendFacts DEF F!Admitted
    <3>3. admitted' \in [Keys -> SUBSET Keys]
      BY <1>0, <3>1 DEF F!Admitted
    <3> QED BY <3>1, <3>2, <3>3
  <2> QED BY <2>1, <2>2
<1>3. ASSUME NEW k \in Keys, F!OnDelete(k) PROVE Goal
  <2>1. CASE k \in fifo.items
    <3> DEFINE r == [items |-> fifo.items \ {k},
                     list |-> ListWithout(fifo.list, k)]
    <3>1. fifo' = r /\ UNCHANGED admitted /\ fifoEvicted' = NoKey
      BY <1>3, <2>1, SameOperators DEF F!OnDelete
    <3>2. r \in Record(Keys) /\ WellFormed(r) /\ Queued(r.list, admitted)
      BY <1>0, <2>1, WithoutWellFormed, QueuedWithout
    <3> QED BY <1>0, <3>1, <3>2
  <2>2. CASE k \notin fifo.items
    BY <1>0, <1>3, <2>2 DEF F!OnDelete
  <2> QED BY <2>1, <2>2
<1>4. CASE F!OnClear
  <2>1. fifo' = EmptyPolicy /\ UNCHANGED admitted /\ fifoEvicted' = NoKey
    BY <1>4 DEF F!OnClear, F!Empty, EmptyPolicy
  <2>2. Queued(fifo'.list, admitted)
    BY <2>1 DEF EmptyPolicy, Queued
  <2> QED BY <1>0, <2>1, <2>2, EmptyPolicyWellFormed
<1>5. CASE F!Evict
  <2>1. Head(fifo.list) \in Keys
    BY <1>0, <1>5, HeadFacts DEF F!Evict, Record
  <2> QED BY <1>0, <1>5, <2>1, DropFrontFacts DEF F!Evict
<1>6. CASE F!EvictNothing
  BY <1>0, <1>6 DEF F!EvictNothing
<1>7. CASE UNCHANGED F!vars
  BY <1>0, <1>7 DEF F!vars
<1> QED BY <1>1, <1>2, <1>3, <1>4, <1>5, <1>6, <1>7 DEF F!Next

\* The map and the list of FIFO hold the same keys, each once, and the list is
\* in the order of admission, whatever Gets and re-Sets come in between.
THEOREM FIFOInvHolds == F!Spec => []FIFOInv
BY FIFOInitInv, FIFONextInv, PTL DEF F!Spec

-----------------------------------------------------------------------------
\* FIFO's promise: a key dropped to make room is the one admitted first,
\* because it is the head of a list that is in the order of admission (FIFO's
\* OnSet and Evict).
THEOREM FIFOEvictsOldestHolds == F!Spec => FIFOEvictsOldest
<1> DEFINE Step == (F!Evict \/ \E k \in Keys : F!OnSet(k)) =>
                      \A v \in fifo.items \ fifo'.items :
                          fifo.items \ {v} \subseteq admitted[v]
<1>1. FIFOInv => Step
  <2> SUFFICES ASSUME FIFOInv, F!Evict \/ \E k \in Keys : F!OnSet(k),
                      NEW v \in fifo.items \ fifo'.items
               PROVE  fifo.items \ {v} \subseteq admitted[v]
    OBVIOUS
  <2>1. /\ fifo \in Record(Keys) /\ WellFormed(fifo)
        /\ admitted \in [Keys -> SUBSET Keys]
        /\ Queued(fifo.list, admitted)
    BY FIFOInvParts
  <2>2. v = Head(fifo.list) /\ fifo.list # <<>>
    <3>1. CASE F!Evict
      BY <2>1, <3>1, DropFrontFacts DEF F!Evict
    <3>2. ASSUME NEW k \in Keys, F!OnSet(k) PROVE v = Head(fifo.list) /\ F!Full
      <4>1. k \notin fifo.items
        BY <3>2 DEF F!OnSet
      <4>2. fifo'.items = (IF F!Full THEN fifo.items \ {Head(fifo.list)}
                           ELSE fifo.items)
                         \cup {k}
        BY <2>1, <3>2, <4>1, FIFOSetFacts
      <4> QED BY <4>2
    <3> QED BY <3>1, <3>2 DEF F!Full
  <2> QED BY <2>1, <2>2, HeadFacts
<1>2. FIFOInv /\ [F!Next]_(F!vars) => [Step]_(F!vars)
  BY <1>1
<1> QED BY <1>2, FIFOInvHolds, PTL DEF F!Spec, FIFOEvictsOldest, F!EvictsOldest

-----------------------------------------------------------------------------
(***************************************************************************)
(* Every call of FIFO is a step of the Policy interface.                   *)
(***************************************************************************)
LEMMA FIFOStepSimulation ==
    FIFOInv /\ [F!Next]_(F!vars)
       => [F!Abstract!PolicyNext]_(F!Abstract!policyVars)
<1> SUFFICES ASSUME FIFOInv, [F!Next]_(F!vars)
             PROVE  \/ F!Abstract!PolicyNext
                    \/ UNCHANGED <<fifo.items, fifoEvicted>>
  BY DEF F!Abstract!policyVars
<1>0. fifo \in Record(Keys) /\ WellFormed(fifo)
  BY FIFOInvParts
<1>1. ASSUME NEW k \in Keys, F!OnGet(k) PROVE F!Abstract!Touch
  BY <1>1 DEF F!OnGet, F!Abstract!Touch
<1>2. ASSUME NEW k \in Keys, F!OnSet(k)
      PROVE  F!Abstract!Touch \/ F!Abstract!Admit(k)
  <2>1. CASE k \in fifo.items
    BY <1>2, <2>1 DEF F!OnSet, F!Abstract!Touch
  <2>2. CASE k \notin fifo.items
    <3>1. fifo'.items = (IF F!Full THEN fifo.items \ {Head(fifo.list)}
                         ELSE fifo.items)
                        \cup {k}
          /\ fifoEvicted' = NoKey
      BY <1>0, <1>2, <2>2, FIFOSetFacts
    <3>2. /\ fifo.items # {} <=> fifo.list # <<>>
          /\ fifo.list # <<>> => Head(fifo.list) \in fifo.items
      BY <1>0, ListEmptyIffNoItems, HeadFacts
    <3>3. F!Full <=> F!Abstract!Cardinality(fifo.items) >= Capacity
                        /\ fifo.items # {}
      BY <3>2 DEF F!Full, F!Cardinality, F!Abstract!Cardinality
    <3> QED BY <2>2, <3>1, <3>2, <3>3 DEF F!Abstract!Admit
  <2> QED BY <2>1, <2>2
<1>3. ASSUME NEW k \in Keys, F!OnDelete(k)
      PROVE  F!Abstract!Touch \/ F!Abstract!Forget(k)
  BY <1>3 DEF F!OnDelete, F!Abstract!Touch, F!Abstract!Forget
<1>4. CASE F!OnClear
  BY <1>4 DEF F!OnClear, F!Empty, F!Abstract!PolicyNext, F!Abstract!Reset
<1>5. CASE F!Evict
  <2>1. /\ Head(fifo.list) \in Keys /\ Head(fifo.list) \in fifo.items
        /\ fifo'.items = fifo.items \ {Head(fifo.list)}
        /\ fifoEvicted' = Head(fifo.list)
    BY <1>0, <1>5, HeadFacts, DropFrontFacts DEF F!Evict, Record
  <2> QED BY <2>1 DEF F!Abstract!PolicyNext, F!Abstract!EvictSome
<1>6. CASE F!EvictNothing
  BY <1>0, <1>6, ListEmptyIffNoItems
  DEF F!EvictNothing, F!Abstract!EvictNothing, F!Abstract!PolicyNext
<1>7. CASE UNCHANGED F!vars
  BY <1>7 DEF F!vars
<1> QED BY <1>1, <1>2, <1>3, <1>4, <1>5, <1>6, <1>7
        DEF F!Next, F!Abstract!PolicyNext

\* FIFO implements the Policy interface as well, whatever the capacity and the
\* keys: a cache may take either policy.
THEOREM FIFOImplementsPolicyHolds == F!Spec => FIFOImplementsPolicy
<1>1. F!Init => F!Abstract!PolicyInit
  BY DEF F!Init, F!Empty, F!Abstract!PolicyInit
<1> QED BY <1>1, FIFOStepSimulation, FIFOInvHolds, PTL
        DEF F!Spec, FIFOImplementsPolicy, F!ImplementsPolicy,
            F!Abstract!PolicySpec

-----------------------------------------------------------------------------
(***************************************************************************)
(* Induction over the natural numbers, for sets.  The library states it    *)
(* for operators, but well-founded relations have a minimum in any set.    *)
(***************************************************************************)
LEMMA LeastBy ==
    ASSUME NEW R, IsWellFoundedOn(R, Nat),
           \A x, y \in Nat : x < y => <<x, y>> \in R,
           NEW T, T \subseteq Nat, T # {}
    PROVE  \E x \in T : \A y \in T : x <= y
<1>1. PICK x \in T : \A y \in T : ~(<<y, x>> \in R)
  <2>1. \E x \in T : \A y \in T : ~(<<y, x>> \in R)
    BY ONLY IsWellFoundedOn(R, Nat), T \subseteq Nat, T # {}, WFMin, Zenon
  <2> QED BY <2>1, Zenon
<1>2. ASSUME NEW y \in T PROVE ~(y < x)
  <2>1. x \in Nat /\ y \in Nat
    OBVIOUS
  <2> QED BY <1>1, <2>1
<1> QED BY <1>2

LEMMA Least ==
    ASSUME NEW T, T \subseteq Nat, T # {}
    PROVE  \E x \in T : \A y \in T : x <= y
<1> DEFINE R == OpToRel(<, Nat)
<1>1. IsWellFoundedOn(R, Nat)
  BY NatLessThanWellFounded
<1>2. \A x, y \in Nat : x < y => <<x, y>> \in R
  BY DEF OpToRel
<1> HIDE DEF R
<1> QED BY <1>1, <1>2, LeastBy

LEMMA AllNat ==
    ASSUME NEW T, 0 \in T, \A t \in Nat : t \in T => t + 1 \in T
    PROVE  \A t \in Nat : t \in T
<1> SUFFICES ASSUME Nat \ T # {} PROVE FALSE
  OBVIOUS
<1>1. PICK x \in Nat \ T : \A y \in Nat \ T : x <= y
  <2> DEFINE S == Nat \ T
  <2>1. S \subseteq Nat /\ S # {}
    OBVIOUS
  <2> HIDE DEF S
  <2>2. \E x \in S : \A y \in S : x <= y
    BY <2>1, Least
  <2> QED BY <2>2 DEF S
<1>2. x - 1 \in Nat /\ x - 1 \in T
  BY <1>1
<1> QED BY <1>1, <1>2

-----------------------------------------------------------------------------
(***************************************************************************)
(* The loop of up() and down() in LFU.                                     *)
(***************************************************************************)
LEMMA TurnsExist ==
    ASSUME NEW s, NEW n, NEW way
    PROVE  \E f : f = [t \in Nat |-> IF t = 0 THEN s
                                     ELSE U!Turn(f[t - 1], n, way)]
<1> DEFINE Run(f, t) == f = [m \in 0 .. t |-> IF m = 0 THEN s
                                              ELSE U!Turn(f[m - 1], n, way)]
<1>1. ASSUME NEW t \in Nat PROVE \E f : Run(f, t)
  <2> DEFINE T == {u \in Nat : \E f : Run(f, u)}
  <2>1. 0 \in T
    <3> DEFINE f == [m \in 0 .. 0 |-> s]
    <3>1. Run(f, 0)
      OBVIOUS
    <3> QED BY <3>1
  <2>2. ASSUME NEW u \in Nat, u \in T PROVE u + 1 \in T
    <3>1. PICK f : Run(f, u)
      BY <2>2
    <3> DEFINE g == [m \in 0 .. u + 1 |->
                       IF m <= u THEN f[m] ELSE U!Turn(f[u], n, way)]
    <3>2. ASSUME NEW m \in 0 .. u + 1
          PROVE  g[m] = IF m = 0 THEN s ELSE U!Turn(g[m - 1], n, way)
      <4>1. CASE m = 0
        BY <3>1, <4>1
      <4>2. CASE m \in 1 .. u
        <5>1. m \in 0 .. u /\ m - 1 \in 0 .. u + 1 /\ m - 1 <= u /\ m <= u
          BY <4>2
        <5>2. f[m] = U!Turn(f[m - 1], n, way)
          BY <3>1, <4>2, <5>1
        <5> QED BY <4>2, <5>1, <5>2
      <4>3. CASE m = u + 1
        BY <4>3
      <4> QED BY <4>1, <4>2, <4>3
    <3>3. g = [m \in 0 .. u + 1 |-> IF m = 0 THEN s
                                    ELSE U!Turn(g[m - 1], n, way)]
      <4>1. g = [m \in 0 .. u + 1 |-> g[m]]
        OBVIOUS
      <4> HIDE DEF g
      <4> QED BY <3>2, <4>1
    <3> HIDE DEF g
    <3>4. Run(g, u + 1)
      BY <3>3
    <3> QED BY <3>4
  <2> HIDE DEF T
  <2>3. t \in T
    BY <2>1, <2>2, AllNat
  <2> QED BY <2>3 DEF T
<1>2. ASSUME NEW f, NEW g, NEW t \in Nat, NEW u \in Nat, Run(f, t), Run(g, u),
             NEW m \in Nat, m <= t, m <= u
      PROVE  f[m] = g[m]
  <2> DEFINE T == {v \in Nat : v <= t /\ v <= u => f[v] = g[v]}
  <2>1. 0 \in T
    BY <1>2
  <2>2. ASSUME NEW v \in Nat, v \in T PROVE v + 1 \in T
    <3> SUFFICES ASSUME v + 1 <= t, v + 1 <= u PROVE f[v + 1] = g[v + 1]
      OBVIOUS
    <3>1. v + 1 \in 0 .. t /\ v + 1 \in 0 .. u /\ f[v] = g[v] /\ v + 1 # 0
          /\ (v + 1) - 1 = v
      BY <2>2
    <3>2. f[v + 1] = U!Turn(f[v], n, way) /\ g[v + 1] = U!Turn(g[v], n, way)
      BY <1>2, <3>1
    <3> QED BY <3>1, <3>2
  <2> HIDE DEF T
  <2>3. m \in T
    BY <2>1, <2>2, AllNat
  <2> QED BY <1>2, <2>3 DEF T
<1> DEFINE pick(t) == CHOOSE f : Run(f, t)
           turns == [t \in Nat |-> pick(t)[t]]
<1>3. ASSUME NEW t \in Nat PROVE Run(pick(t), t)
  BY <1>1
<1>4. ASSUME NEW t \in Nat
      PROVE  turns[t] = IF t = 0 THEN s ELSE U!Turn(turns[t - 1], n, way)
  <2>1. turns[t] = pick(t)[t]
    OBVIOUS
  <2> DEFINE f == pick(t)
  <2>2. Run(f, t)
    BY <1>3
  <2> HIDE DEF f
  <2>3. f[t] = IF t = 0 THEN s ELSE U!Turn(f[t - 1], n, way)
    BY <2>2
  <2>4. CASE t # 0
    <3>1. t - 1 \in Nat /\ t - 1 <= t
      BY <2>4
    <3>2. turns[t - 1] = pick(t - 1)[t - 1]
      BY <3>1
    <3> DEFINE g == pick(t - 1)
    <3>3. Run(g, t - 1)
      BY <1>3, <3>1
    <3> HIDE DEF g, Run
    <3>4. f[t - 1] = g[t - 1]
      BY <1>2, <2>2, <3>1, <3>3
    <3> QED BY <2>1, <2>3, <2>4, <3>2, <3>4 DEF f, g
  <2> QED BY <2>1, <2>3, <2>4 DEF f
<1>5. turns = [t \in Nat |-> turns[t]]
  OBVIOUS
<1> HIDE DEF turns
<1>6. turns = [t \in Nat |-> IF t = 0 THEN s ELSE U!Turn(turns[t - 1], n, way)]
  BY <1>4, <1>5
<1> QED BY <1>6

\* The states that a loop goes through; it ends with one of them.
States(f, q, i, n, way) ==
    /\ f[0] = [heap |-> q, at |-> i]
    /\ \A t \in Nat : f[t + 1] = U!Turn(f[t], n, way)
    /\ U!Loop(q, i, n, way) = f[Len(q.queue)]

LEMMA LoopStates ==
    ASSUME NEW q, NEW i, NEW n, NEW way
    PROVE  \E f : States(f, q, i, n, way)
<1> DEFINE s == [heap |-> q, at |-> i]
           Good(f) == f = [t \in Nat |-> IF t = 0 THEN s
                                         ELSE U!Turn(f[t - 1], n, way)]
           a == CHOOSE f : Good(f)
<1>1. Good(a)
  BY TurnsExist
<1>2. U!Loop(q, i, n, way) = a[Len(q.queue)]
  BY DEF U!Loop
<1> HIDE DEF a
<1>3. a[0] = s
  BY <1>1
<1>4. ASSUME NEW t \in Nat PROVE a[t + 1] = U!Turn(a[t], n, way)
  <2>1. t + 1 \in Nat /\ t + 1 # 0 /\ (t + 1) - 1 = t
    OBVIOUS
  <2> QED BY <1>1, <2>1
<1> QED BY <1>2, <1>3, <1>4 DEF States

-----------------------------------------------------------------------------
(***************************************************************************)
(* Heaps: records whose index fields are right, in order but for one place *)
(***************************************************************************)
HeapRecords == [items : SUBSET Keys, queue : Seq(Keys),
                count : [Keys -> Nat], index : [Keys -> Nat]]

Weight(q, i) == q.count[q.queue[i]]

Placed(q) ==
    /\ q \in HeapRecords
    /\ \A i \in 1 .. Len(q.queue) : q.index[q.queue[i]] = i

\* The parent of c does not weigh more than c.
Edge(q, c) == Weight(q, c \div 2) <= Weight(q, c)

InOrder(q, n) == \A c \in 2 .. n : Edge(q, c)

\* The children of i may take its place.
Bridged(q, i, n) ==
    \A c \in 2 .. n :
       c \div 2 = i /\ i > 1 => Weight(q, i \div 2) <= Weight(q, c)

\* Element i may be too light for its place, too heavy, or either.
Rising(q, i, n) == Bridged(q, i, n) /\ \A c \in 2 .. n : c # i => Edge(q, c)
Sinking(q, i, n) ==
    Bridged(q, i, n) /\ \A c \in 2 .. n : c \div 2 # i => Edge(q, c)
Unsettled(q, i, n) ==
    Bridged(q, i, n) /\ \A c \in 2 .. n : c # i /\ c \div 2 # i => Edge(q, c)

\* r is q with the first n elements in another order.
Sorted(q, r, n) ==
    /\ Placed(r)
    /\ r.items = q.items /\ r.count = q.count
    /\ Len(r.queue) = Len(q.queue) /\ ToSet(r.queue) = ToSet(q.queue)
    /\ \A m \in n + 1 .. Len(q.queue) : r.queue[m] = q.queue[m]

LEMMA Half ==
    ASSUME NEW c \in Nat, c >= 2
    PROVE  /\ c \div 2 \in Nat /\ c \div 2 >= 1 /\ c \div 2 < c
           /\ c = 2 * (c \div 2) \/ c = 2 * (c \div 2) + 1
BY SMT

LEMMA Children ==
    ASSUME NEW i \in Nat, i >= 1
    PROVE  (2 * i) \div 2 = i /\ (2 * i + 1) \div 2 = i
BY SMT

LEMMA Weights ==
    ASSUME NEW q, Placed(q), NEW i \in 1 .. Len(q.queue)
    PROVE  q.queue[i] \in Keys /\ Weight(q, i) \in Nat
BY DEF Placed, HeapRecords, Weight

LEMMA SwapFacts ==
    ASSUME NEW q, Placed(q), NEW a \in 1 .. Len(q.queue),
           NEW b \in 1 .. Len(q.queue), a # b
    PROVE  LET r == U!Swap(q, a, b)
           IN  /\ Placed(r)
               /\ r.items = q.items /\ r.count = q.count
               /\ Len(r.queue) = Len(q.queue)
               /\ ToSet(r.queue) = ToSet(q.queue)
               /\ r.queue[a] = q.queue[b] /\ r.queue[b] = q.queue[a]
               /\ Weight(r, a) = Weight(q, b) /\ Weight(r, b) = Weight(q, a)
               /\ \A m \in 1 .. Len(q.queue) : m # a /\ m # b =>
                     r.queue[m] = q.queue[m] /\ Weight(r, m) = Weight(q, m)
<1> DEFINE r == U!Swap(q, a, b)
           n == Len(q.queue)
<1>1. /\ q \in HeapRecords /\ q.queue \in Seq(Keys) /\ n \in Nat
      /\ DOMAIN q.queue = 1 .. n
      /\ \A i \in 1 .. n : q.queue[i] \in Keys /\ q.index[q.queue[i]] = i
  BY LenProperties DEF Placed, HeapRecords
<1>2. /\ r.items = q.items /\ r.count = q.count
      /\ r.queue = [q.queue EXCEPT ![a] = q.queue[b], ![b] = q.queue[a]]
      /\ r.index = [q.index EXCEPT ![q.queue[a]] = b, ![q.queue[b]] = a]
      /\ r = [items |-> r.items, queue |-> r.queue, count |-> r.count,
              index |-> r.index]
  <2> DEFINE q1 == [q EXCEPT !.queue[a] = q.queue[b]]
             q2 == [q1 EXCEPT !.queue[b] = q.queue[a]]
             q3 == [q2 EXCEPT !.index[q.queue[a]] = b]
             t1 == [q.queue EXCEPT ![a] = q.queue[b]]
             t2 == [t1 EXCEPT ![b] = q.queue[a]]
             x1 == [q.index EXCEPT ![q.queue[a]] = b]
             x2 == [x1 EXCEPT ![q.queue[b]] = a]
  <2>1. q \in [items : {q.items}, queue : {q.queue}, count : {q.count},
               index : {q.index}]
    BY <1>1 DEF HeapRecords
  <2>2. q1 \in [items : {q.items}, queue : {t1}, count : {q.count},
                index : {q.index}]
    BY <2>1
  <2> HIDE DEF q1
  <2>3. q2 \in [items : {q.items}, queue : {t2}, count : {q.count},
                index : {q.index}]
    BY <2>2
  <2> HIDE DEF q2
  <2>4. q3 \in [items : {q.items}, queue : {t2}, count : {q.count},
                index : {x1}]
    BY <2>3
  <2> HIDE DEF q3
  <2>5. [q3 EXCEPT !.index[q.queue[b]] = a] \in
           [items : {q.items}, queue : {t2}, count : {q.count}, index : {x2}]
    BY <2>4
  <2>6. r = [q3 EXCEPT !.index[q.queue[b]] = a]
    BY DEF U!Swap, q1, q2, q3
  <2> HIDE DEF r
  <2> QED BY <2>5, <2>6
<1>3. /\ r.queue \in Seq(Keys) /\ Len(r.queue) = n /\ DOMAIN r.queue = 1 .. n
      /\ r.queue[a] = q.queue[b] /\ r.queue[b] = q.queue[a]
      /\ \A m \in 1 .. n : m # a /\ m # b => r.queue[m] = q.queue[m]
  <2>1. /\ r.queue \in [1 .. n -> Keys]
        /\ r.queue[a] = q.queue[b] /\ r.queue[b] = q.queue[a]
        /\ \A m \in 1 .. n : m # a /\ m # b => r.queue[m] = q.queue[m]
    BY <1>1, <1>2
  <2> HIDE DEF r
  <2> DEFINE f == r.queue
  <2> HIDE DEF f
  <2>2. f \in [1 .. n -> Keys]
    BY <2>1 DEF f
  <2> HIDE DEF n
  <2>3. f \in Seq(Keys)
    BY <1>1, <2>2, SeqDef
  <2> USE DEF f
  <2> QED BY <1>1, <2>1, <2>3, LenProperties
<1>4. /\ q.index \in [Keys -> Nat] /\ q.count \in [Keys -> Nat]
      /\ q.items \in SUBSET Keys
  BY <1>1 DEF HeapRecords
<1>5. q.queue[a] # q.queue[b]
  BY <1>1
<1>6. \A m \in 1 .. n : r.index[r.queue[m]] = m
  <2> HIDE DEF r
  <2> TAKE m \in 1 .. n
  <2>1. CASE m = a \/ m = b
    BY <1>1, <1>2, <1>3, <1>4, <1>5, <2>1
  <2>2. CASE m # a /\ m # b
    <3>1. q.queue[m] # q.queue[a] /\ q.queue[m] # q.queue[b]
      BY <1>1, <2>2
    <3> QED BY <1>1, <1>2, <1>3, <1>4, <2>2, <3>1
  <2> QED BY <2>1, <2>2
<1>7. r.index \in [Keys -> Nat]
  <2> DEFINE x1 == [q.index EXCEPT ![q.queue[a]] = b]
  <2>1. a \in Nat /\ b \in Nat /\ q.queue[a] \in Keys /\ q.queue[b] \in Keys
    BY <1>1
  <2>2. x1 \in [Keys -> Nat]
    BY <1>4, <2>1
  <2>3. r.index = [x1 EXCEPT ![q.queue[b]] = a]
    BY <1>2
  <2> HIDE DEF x1, r
  <2> QED BY <2>1, <2>2, <2>3
<1> HIDE DEF r
<1>8. Placed(r)
  <2>1. r \in HeapRecords
    BY <1>2, <1>3, <1>4, <1>7 DEF HeapRecords
  <2> QED BY <1>3, <1>6, <2>1 DEF Placed
<1>9. ToSet(r.queue) = ToSet(q.queue)
  <2>1. \A m \in 1 .. n : \E l \in 1 .. n : r.queue[m] = q.queue[l]
    BY <1>3
  <2>2. \A m \in 1 .. n : \E l \in 1 .. n : q.queue[m] = r.queue[l]
    BY <1>3
  <2>3. /\ ToSet(r.queue) = {r.queue[m] : m \in 1 .. n}
        /\ ToSet(q.queue) = {q.queue[m] : m \in 1 .. n}
    BY <1>1, <1>3 DEF ToSet
  <2>4. ASSUME NEW x \in ToSet(r.queue) PROVE x \in ToSet(q.queue)
    <3>1. PICK m \in 1 .. n : x = r.queue[m]
      BY <2>3
    <3> QED BY <2>1, <2>3, <3>1
  <2>5. ASSUME NEW x \in ToSet(q.queue) PROVE x \in ToSet(r.queue)
    <3>1. PICK m \in 1 .. n : x = q.queue[m]
      BY <2>3
    <3> QED BY <2>2, <2>3, <3>1
  <2> QED BY <2>4, <2>5
<1> QED BY <1>2, <1>3, <1>8, <1>9 DEF Weight, r

LEMMA Swapped ==
    ASSUME NEW q, NEW s, NEW n \in Nat, Placed(q), Sorted(q, s, n),
           NEW a \in 1 .. n, NEW b \in 1 .. n, a # b, n <= Len(q.queue)
    PROVE  Sorted(q, U!Swap(s, a, b), n)
<1>1. Len(q.queue) \in Nat
  BY LenProperties DEF Placed, HeapRecords
<1>2. Placed(s) /\ a \in 1 .. Len(s.queue) /\ b \in 1 .. Len(s.queue)
  BY <1>1 DEF Sorted
<1>3. \A m \in n + 1 .. Len(q.queue) :
         m \in 1 .. Len(s.queue) /\ m # a /\ m # b
  BY <1>1 DEF Sorted
<1> QED BY <1>2, <1>3, SwapFacts DEF Sorted

LEMMA SortedItself == ASSUME NEW q, Placed(q), NEW n PROVE Sorted(q, q, n)
BY DEF Sorted

\* The element at b takes the place of its parent a, and is lighter than it.
LEMMA RiseStep ==
    ASSUME NEW q, Placed(q), NEW n \in Nat, n <= Len(q.queue),
           NEW j \in 2 .. n, Rising(q, j, n), ~Edge(q, j)
    PROVE  Rising(U!Swap(q, j, j \div 2), j \div 2, n)
<1> DEFINE u == j \div 2
           r == U!Swap(q, j, u)
<1>1. Len(q.queue) \in Nat /\ j \in 1 .. Len(q.queue)
  BY LenProperties DEF Placed, HeapRecords
<1>2. u \in Nat /\ u >= 1 /\ u < j /\ u \in 1 .. n /\ u \in 1 .. Len(q.queue)
  BY <1>1, Half
<1>3. /\ Weight(r, j) = Weight(q, u) /\ Weight(r, u) = Weight(q, j)
      /\ \A m \in 1 .. n : m # j /\ m # u => Weight(r, m) = Weight(q, m)
  <2> HIDE DEF u
  <2>1. u # j /\ \A m \in 1 .. n : m \in 1 .. Len(q.queue)
    BY <1>1, <1>2
  <2> QED BY <1>1, <1>2, <2>1, SwapFacts
<1>4. \A m \in 1 .. n : Weight(q, m) \in Nat
  BY <1>1, Weights
<1>5. Weight(q, j) < Weight(q, u)
  BY <1>1, <1>2, <1>4 DEF Edge
<1>6. \A c \in 2 .. n : /\ c \div 2 \in Nat /\ c \div 2 >= 1 /\ c \div 2 < c
                        /\ c \div 2 \in 1 .. n /\ c \in 1 .. n
  BY Half
<1> HIDE DEF r, u
<1>7. ASSUME NEW c \in 2 .. n, c # u PROVE Weight(r, c \div 2) <= Weight(r, c)
  <2> DEFINE d == c \div 2
  <2>1. d \in 1 .. n /\ c \in 1 .. n /\ d < c
    BY <1>6
  <2>2. CASE c = j
    BY <1>3, <1>4, <1>5, <2>2 DEF u
  <2>3. CASE c # j /\ d = j
    <3>1. Weight(q, u) <= Weight(q, c)
      BY <2>3 DEF Rising, Bridged, u
    <3> QED BY <1>3, <1>7, <2>1, <2>3, <3>1
  <2>4. CASE c # j /\ d # j
    <3>1. Weight(q, d) <= Weight(q, c)
      BY <2>4 DEF Rising, Edge
    <3>2. Weight(r, c) = Weight(q, c)
      BY <1>3, <1>7, <2>1, <2>4
    <3>3. CASE d = u
      BY <1>2, <1>3, <1>4, <1>5, <2>1, <3>1, <3>2, <3>3
    <3>4. CASE d # u
      BY <1>3, <2>1, <2>4, <3>1, <3>2, <3>4
    <3> QED BY <3>3, <3>4
  <2> QED BY <2>2, <2>3, <2>4
<1>8. ASSUME NEW c \in 2 .. n, c \div 2 = u, u > 1
      PROVE  Weight(r, u \div 2) <= Weight(r, c)
  <2> DEFINE g == u \div 2
  <2>1. u \in 2 .. n /\ g \in 1 .. n /\ g < u /\ c \in 1 .. n
    BY <1>2, <1>6, <1>8
  <2>2. Weight(q, g) <= Weight(q, u)
    BY <1>2, <2>1 DEF Rising, Edge
  <2>3. Weight(r, g) = Weight(q, g)
    BY <1>2, <1>3, <2>1
  <2>4. CASE c = j
    BY <1>3, <2>2, <2>3, <2>4
  <2>5. CASE c # j
    <3>1. Weight(q, u) <= Weight(q, c)
      BY <1>8, <2>5 DEF Rising, Edge
    <3>2. c # u /\ Weight(r, c) = Weight(q, c)
      BY <1>3, <1>6, <1>8, <2>1, <2>5
    <3> QED BY <1>2, <1>4, <2>1, <2>2, <2>3, <3>1, <3>2
  <2> QED BY <2>4, <2>5
<1> QED BY <1>7, <1>8 DEF Rising, Bridged, Edge, r, u

\* The lightest child, lighter than its parent i, takes its place.
LEMMA SinkStep ==
    ASSUME NEW q, Placed(q), NEW n \in Nat, n <= Len(q.queue),
           NEW i \in 1 .. n, Sinking(q, i, n) \/ Unsettled(q, i, n),
           NEW s \in 2 .. n, s \div 2 = i, Weight(q, s) < Weight(q, i),
           \A c \in 2 .. n : c \div 2 = i => Weight(q, s) <= Weight(q, c)
    PROVE  Sinking(U!Swap(q, i, s), s, n)
<1> DEFINE r == U!Swap(q, i, s)
<1>0. Bridged(q, i, n) /\ \A c \in 2 .. n : c # i /\ c \div 2 # i => Edge(q, c)
  BY DEF Sinking, Unsettled
<1>1. /\ Len(q.queue) \in Nat /\ i \in 1 .. Len(q.queue)
      /\ s \in 1 .. Len(q.queue) /\ s \in 1 .. n
  BY LenProperties DEF Placed, HeapRecords
<1>2. \A c \in 2 .. n : /\ c \div 2 \in Nat /\ c \div 2 >= 1 /\ c \div 2 < c
                        /\ c \div 2 \in 1 .. n /\ c \in 1 .. n
  BY Half
<1>3. i < s
  BY <1>2
<1>4. /\ Weight(r, i) = Weight(q, s) /\ Weight(r, s) = Weight(q, i)
      /\ \A m \in 1 .. n : m # i /\ m # s => Weight(r, m) = Weight(q, m)
  BY <1>1, <1>3, SwapFacts
<1>5. \A m \in 1 .. n : Weight(q, m) \in Nat
  BY <1>1, Weights
<1> HIDE DEF r
<1>6. ASSUME NEW c \in 2 .. n, c \div 2 # s
      PROVE  Weight(r, c \div 2) <= Weight(r, c)
  <2> DEFINE d == c \div 2
  <2>1. d \in 1 .. n /\ c \in 1 .. n /\ d < c
    BY <1>2
  <2>2. CASE c = s
    BY <1>4, <1>5, <2>2
  <2>3. CASE c # s /\ d = i
    <3>1. c # i /\ Weight(r, c) = Weight(q, c)
      BY <1>4, <2>1, <2>3
    <3> QED BY <1>4, <2>3, <3>1
  <2>4. CASE c = i
    <3>1. i > 1 /\ Weight(q, i \div 2) <= Weight(q, s)
      BY <1>0, <2>4 DEF Bridged
    <3>2. d # i /\ Weight(r, d) = Weight(q, d)
      BY <1>3, <1>4, <2>1, <2>4
    <3> QED BY <1>4, <2>4, <3>1, <3>2
  <2>5. CASE c # s /\ c # i /\ d # i
    <3>1. Weight(q, d) <= Weight(q, c)
      BY <1>0, <2>5 DEF Edge
    <3>2. Weight(r, c) = Weight(q, c) /\ Weight(r, d) = Weight(q, d)
      BY <1>4, <1>6, <2>1, <2>5
    <3> QED BY <3>1, <3>2
  <2> QED BY <2>2, <2>3, <2>4, <2>5
<1>7. ASSUME NEW c \in 2 .. n, c \div 2 = s
      PROVE  Weight(r, s \div 2) <= Weight(r, c)
  <2>1. c \in 1 .. n /\ s < c
    BY <1>2, <1>7
  <2>2. Weight(q, s) <= Weight(q, c)
    BY <1>0, <1>3, <1>7, <2>1 DEF Edge
  <2>3. Weight(r, c) = Weight(q, c)
    BY <1>3, <1>4, <2>1
  <2> QED BY <1>4, <2>2, <2>3
<1> QED BY <1>6, <1>7 DEF Sinking, Bridged, Edge, r

\* What U!Above and U!Below decide.
LEMMA AboveFacts ==
    ASSUME NEW q, Placed(q), NEW j \in 1 .. Len(q.queue)
    PROVE  LET to == U!Above(q, j)
           IN  \/ to = j /\ (j > 1 => Edge(q, j))
               \/ to = j \div 2 /\ to < j /\ j > 1 /\ ~Edge(q, j)
<1>1. Len(q.queue) \in Nat /\ j \in Nat
  BY LenProperties DEF Placed, HeapRecords
<1>2. CASE j = 1
  BY <1>2 DEF U!Above
<1>3. CASE j > 1
  <2>1. j \div 2 \in 1 .. Len(q.queue) /\ j \div 2 < j
    BY <1>1, <1>3, Half
  <2>2. Weight(q, j \div 2) \in Nat /\ Weight(q, j) \in Nat
    BY <2>1, Weights
  <2>3. U!Less(q, j, j \div 2) <=> ~Edge(q, j)
    BY <2>2 DEF U!Less, Edge, Weight
  <2> QED BY <1>1, <1>3, <2>1, <2>3 DEF U!Above
<1> QED BY <1>1, <1>2, <1>3

LEMMA BelowFacts ==
    ASSUME NEW q, Placed(q), NEW n \in Nat, n <= Len(q.queue), NEW i \in 1 .. n
    PROVE  LET to == U!Below(q, i, n)
           IN  \/ to = i /\ \A c \in 2 .. n : c \div 2 = i => Edge(q, c)
               \/ /\ to \in 2 .. n /\ to \div 2 = i /\ to > i
                  /\ Weight(q, to) < Weight(q, i)
                  /\ \A c \in 2 .. n : c \div 2 = i =>
                        Weight(q, to) <= Weight(q, c)
<1> DEFINE l == 2 * i
           m == 2 * i + 1
           s == U!SmallestChild(q, i, n)
<1>1. /\ Len(q.queue) \in Nat /\ i \in Nat /\ i >= 1
      /\ \A a \in 1 .. n : a \in 1 .. Len(q.queue)
  BY LenProperties DEF Placed, HeapRecords
<1>2. \A a \in 1 .. n : Weight(q, a) \in Nat
  BY <1>1, Weights
<1>3. /\ l \div 2 = i /\ m \div 2 = i /\ l > i /\ m > i /\ l >= 2
      /\ \A c \in 2 .. n : c \div 2 = i => c = l \/ c = m
  BY <1>1, Children, Half
<1>4. CASE l > n
  BY <1>3, <1>4 DEF U!Below
<1>5. CASE l <= n
  <2>1. s \in 2 .. n /\ s \div 2 = i /\ s > i
    BY <1>1, <1>3, <1>5 DEF U!SmallestChild
  <2>2. \A c \in 2 .. n : c \div 2 = i => Weight(q, s) <= Weight(q, c)
    <3>1. CASE m <= n /\ U!Less(q, m, l)
      <4>1. s = m /\ Weight(q, m) < Weight(q, l)
        BY <3>1 DEF U!SmallestChild, U!Less, Weight
      <4>2. Weight(q, m) \in Nat /\ Weight(q, l) \in Nat
        BY <1>1, <1>2, <1>5, <3>1
      <4> QED BY <1>3, <4>1, <4>2
    <3>2. CASE ~(m <= n /\ U!Less(q, m, l))
      <4>1. s = l /\ (m <= n => ~(Weight(q, m) < Weight(q, l)))
        BY <3>2 DEF U!SmallestChild, U!Less, Weight
      <4>2. Weight(q, l) \in Nat /\ (m <= n => Weight(q, m) \in Nat)
        BY <1>1, <1>2, <1>5
      <4> QED BY <1>3, <4>1, <4>2
    <3> QED BY <3>1, <3>2
  <2>3. Weight(q, s) \in Nat /\ Weight(q, i) \in Nat
    BY <1>2, <2>1
  <2>4. U!Less(q, s, i) <=> Weight(q, s) < Weight(q, i)
    BY DEF U!Less, Weight
  <2>5. U!Below(q, i, n) = IF ~U!Less(q, s, i) THEN i ELSE s
    BY <1>1, <1>5 DEF U!Below
  <2> HIDE DEF s
  <2>6. CASE ~U!Less(q, s, i)
    <3>1. ASSUME NEW c \in 2 .. n, c \div 2 = i PROVE Edge(q, c)
      <4>1. Weight(q, c) \in Nat /\ Weight(q, s) <= Weight(q, c)
        BY <1>2, <2>2, <3>1
      <4> QED BY <2>3, <2>4, <2>6, <3>1, <4>1 DEF Edge
    <3> QED BY <2>5, <2>6, <3>1
  <2>7. CASE U!Less(q, s, i)
    BY <2>1, <2>2, <2>4, <2>5, <2>7
  <2> QED BY <2>6, <2>7
<1> QED BY <1>1, <1>4, <1>5

-----------------------------------------------------------------------------
\* up() puts an element that may be too light for its place where it belongs.
LEMMA UpSorts ==
    ASSUME NEW q, Placed(q), NEW n \in Nat, n <= Len(q.queue),
           NEW j \in 1 .. n, Rising(q, j, n)
    PROVE  Sorted(q, U!Up(q, j), n) /\ InOrder(U!Up(q, j), n)
<1>0. PICK f : States(f, q, j, 0, "up")
  BY LoopStates
<1>1. /\ f[0] = [heap |-> q, at |-> j]
      /\ \A t \in Nat : f[t + 1] = U!Turn(f[t], 0, "up")
      /\ U!Loop(q, j, 0, "up") = f[Len(q.queue)]
  BY <1>0 DEF States
<1> DEFINE Good(s, t) == /\ s.at \in 1 .. n
                         /\ Sorted(q, s.heap, n)
                         /\ Rising(s.heap, s.at, n)
                         /\ s.at + t <= j \/ (s.at > 1 => Edge(s.heap, s.at))
           T == {t \in Nat : Good(f[t], t)}
<1>2. Len(q.queue) \in Nat /\ j \in Nat
  BY LenProperties DEF Placed, HeapRecords
<1>3. 0 \in T
  <2>1. Good([heap |-> q, at |-> j], 0)
    BY <1>2, SortedItself
  <2> QED BY <1>1, <2>1
<1>4. ASSUME NEW t \in Nat, t \in T PROVE t + 1 \in T
  <2> DEFINE s == f[t]
             r == f[t + 1]
             b == s.heap
             i == s.at
             to == U!Above(b, i)
  <2>1. /\ i \in 1 .. n /\ Sorted(q, b, n) /\ Rising(b, i, n)
        /\ i + t <= j \/ (i > 1 => Edge(b, i))
    BY <1>4
  <2>2. /\ Placed(b) /\ Len(b.queue) = Len(q.queue) /\ n <= Len(b.queue)
        /\ i \in 1 .. Len(b.queue) /\ i \in Nat
    BY <1>2, <2>1 DEF Sorted
  <2>3. r = IF to = i THEN s ELSE [heap |-> U!Swap(b, i, to), at |-> to]
    <3>1. r = U!Turn(s, 0, "up")
      BY <1>1
    <3> QED BY <3>1 DEF U!Turn
  <2> HIDE DEF s, r
  <2>4. \/ to = i /\ (i > 1 => Edge(b, i))
        \/ to = i \div 2 /\ to < i /\ i > 1 /\ ~Edge(b, i)
    BY <2>2, AboveFacts
  <2>5. CASE to = i
    <3>1. r = s /\ (i > 1 => Edge(b, i))
      BY <2>2, <2>3, <2>4, <2>5
    <3>2. Good(r, t + 1)
      BY <2>1, <3>1
    <3> QED BY <3>2 DEF r
  <2>6. CASE to # i
    <3>1. to = i \div 2 /\ to < i /\ i > 1 /\ ~Edge(b, i)
      BY <2>4, <2>6
    <3>2. to \in 1 .. n /\ i \in 2 .. n
      BY <2>1, <3>1, Half
    <3>3. r.heap = U!Swap(b, i, to) /\ r.at = to
      BY <2>3, <2>6
    <3>4. Sorted(q, r.heap, n)
      <4> HIDE DEF to, i, b
      <4> QED BY <2>1, <2>6, <3>2, <3>3, Swapped
    <3>5. Rising(r.heap, r.at, n)
      <4>1. Rising(U!Swap(b, i, i \div 2), i \div 2, n)
        <5> HIDE DEF i, b
        <5> QED BY <2>1, <2>2, <3>1, <3>2, RiseStep
      <4> QED BY <3>1, <3>3, <4>1
    <3>6. r.at + (t + 1) <= j
      BY <1>2, <2>1, <2>2, <3>1, <3>2, <3>3
    <3>7. Good(r, t + 1)
      BY <3>2, <3>3, <3>4, <3>5, <3>6
    <3> QED BY <3>7 DEF r
  <2> QED BY <2>5, <2>6
<1>5. Good(f[Len(q.queue)], Len(q.queue))
  <2> HIDE DEF T
  <2>1. Len(q.queue) \in T
    BY <1>2, <1>3, <1>4, AllNat
  <2> QED BY <2>1 DEF T
<1> DEFINE e == f[Len(q.queue)]
<1>6. U!Up(q, j) = e.heap
  BY <1>1 DEF U!Up
<1>7. Sorted(q, e.heap, n) /\ Rising(e.heap, e.at, n) /\ e.at \in 1 .. n
  BY <1>5
<1>8. e.at > 1 => Edge(e.heap, e.at)
  BY <1>2, <1>5
<1> HIDE DEF e, Good
<1>9. InOrder(e.heap, n)
  <2> SUFFICES ASSUME NEW c \in 2 .. n PROVE Edge(e.heap, c)
    BY DEF InOrder
  <2> QED BY <1>7, <1>8 DEF Rising
<1> QED BY <1>6, <1>7, <1>9

\* down() puts an element that may be out of place below where it belongs, or
\* does nothing, and then the element is not too heavy for its place.
LEMMA DownSorts ==
    ASSUME NEW q, Placed(q), NEW n \in Nat, n <= Len(q.queue),
           NEW i \in 1 .. n, Unsettled(q, i, n)
    PROVE  LET d == U!Down(q, i, n)
           IN  \/ d.at > i /\ Sorted(q, d.heap, n) /\ InOrder(d.heap, n)
               \/ d.at = i /\ Rising(q, i, n)
<1>0. PICK f : States(f, q, i, n, "down")
  BY LoopStates
<1>1. /\ f[0] = [heap |-> q, at |-> i]
      /\ \A t \in Nat : f[t + 1] = U!Turn(f[t], n, "down")
      /\ U!Loop(q, i, n, "down") = f[Len(q.queue)]
  BY <1>0 DEF States
<1> DEFINE Over(s) == \A c \in 2 .. n : c \div 2 = s.at => Edge(s.heap, c)
           Good(s, t) == /\ s.at \in 1 .. n
                         /\ Sorted(q, s.heap, n)
                         /\ \/ s.at = i /\ s.heap = q
                            \/ s.at > i /\ Sinking(s.heap, s.at, n)
                         /\ s.at >= i + t \/ Over(s)
           T == {t \in Nat : Good(f[t], t)}
<1>2. Len(q.queue) \in Nat /\ i \in Nat
  BY LenProperties DEF Placed, HeapRecords
<1>3. 0 \in T
  <2>1. Good([heap |-> q, at |-> i], 0)
    BY <1>2, SortedItself
  <2> QED BY <1>1, <2>1
<1>4. ASSUME NEW t \in Nat, t \in T PROVE t + 1 \in T
  <2> DEFINE s == f[t]
             r == f[t + 1]
             b == s.heap
             a == s.at
             to == U!Below(b, a, n)
  <2>1. /\ a \in 1 .. n /\ Sorted(q, b, n)
        /\ \/ a = i /\ b = q
           \/ a > i /\ Sinking(b, a, n)
        /\ a >= i + t \/ Over(s)
    BY <1>4
  <2>2. /\ Placed(b) /\ Len(b.queue) = Len(q.queue) /\ n <= Len(b.queue)
        /\ a \in Nat
    BY <1>2, <2>1 DEF Sorted
  <2>3. r = IF to = a THEN s ELSE [heap |-> U!Swap(b, a, to), at |-> to]
    <3>1. r = U!Turn(s, n, "down")
      BY <1>1
    <3> QED BY <3>1 DEF U!Turn
  <2> HIDE DEF s, r
  <2>4. \/ to = a /\ Over(s)
        \/ /\ to \in 2 .. n /\ to \div 2 = a /\ to > a
           /\ Weight(b, to) < Weight(b, a)
           /\ \A c \in 2 .. n : c \div 2 = a => Weight(b, to) <= Weight(b, c)
    BY <2>1, <2>2, BelowFacts
  <2>5. CASE to = a
    <3>1. r = s /\ Over(s)
      BY <2>2, <2>3, <2>4, <2>5
    <3>2. Good(r, t + 1)
      BY <2>1, <3>1
    <3> QED BY <3>2 DEF r
  <2>6. CASE to # a
    <3>1. /\ to \in 2 .. n /\ to \div 2 = a /\ to > a
          /\ Weight(b, to) < Weight(b, a)
          /\ \A c \in 2 .. n : c \div 2 = a => Weight(b, to) <= Weight(b, c)
      BY <2>4, <2>6
    <3>2. Sinking(b, a, n) \/ Unsettled(b, a, n)
      BY <2>1
    <3>3. r.heap = U!Swap(b, a, to) /\ r.at = to /\ to \in 1 .. n
      BY <2>3, <2>6, <3>1
    <3>4. Sorted(q, r.heap, n)
      <4> HIDE DEF to, a, b
      <4> QED BY <2>1, <2>6, <3>3, Swapped
    <3>5. Sinking(r.heap, r.at, n)
      <4> HIDE DEF to, a, b
      <4> QED BY <2>1, <2>2, <3>1, <3>2, <3>3, SinkStep
    <3>6. r.at > i /\ (r.at >= i + (t + 1) \/ Over(r))
      <4>1. a >= i
        BY <1>2, <2>1, <2>2
      <4>2. a >= i + t
        <5>1. ~Over(s)
          <6>1. Weight(b, to) \in Nat /\ Weight(b, a) \in Nat
            BY <1>2, <2>1, <2>2, <3>1, Weights
          <6> QED BY <3>1, <6>1 DEF Edge
        <5> QED BY <2>1, <5>1
      <4> QED BY <1>2, <2>2, <3>1, <3>3, <4>1, <4>2
    <3>7. Good(r, t + 1)
      BY <3>3, <3>4, <3>5, <3>6
    <3> QED BY <3>7 DEF r
  <2> QED BY <2>5, <2>6
<1>5. Good(f[Len(q.queue)], Len(q.queue))
  <2> HIDE DEF T
  <2>1. Len(q.queue) \in T
    BY <1>2, <1>3, <1>4, AllNat
  <2> QED BY <2>1 DEF T
<1> DEFINE e == f[Len(q.queue)]
<1>6. U!Down(q, i, n) = e
  BY <1>1 DEF U!Down
<1>7. /\ Sorted(q, e.heap, n) /\ e.at \in 1 .. n
      /\ \/ e.at = i /\ e.heap = q
         \/ e.at > i /\ Sinking(e.heap, e.at, n)
  BY <1>5
<1>8. Over(e)
  BY <1>2, <1>5
<1> HIDE DEF e, Good
<1>9. CASE e.at > i /\ Sinking(e.heap, e.at, n)
  <2> SUFFICES ASSUME NEW c \in 2 .. n PROVE Edge(e.heap, c)
    BY <1>6, <1>7, <1>9 DEF InOrder
  <2> QED BY <1>8, <1>9 DEF Sinking
<1>10. CASE e.at = i /\ e.heap = q
  BY <1>6, <1>8, <1>10 DEF Rising, Unsettled
<1> QED BY <1>7, <1>9, <1>10

LEMMA SiftSorts ==
    ASSUME NEW q, Placed(q), NEW n \in Nat, n <= Len(q.queue),
           NEW i \in 1 .. n, Unsettled(q, i, n)
    PROVE  Sorted(q, U!Sift(q, i, n), n) /\ InOrder(U!Sift(q, i, n), n)
<1>1. CASE U!Down(q, i, n).at > i
  BY <1>1, DownSorts DEF U!Sift
<1>2. CASE ~(U!Down(q, i, n).at > i)
  BY <1>2, DownSorts, UpSorts DEF U!Sift
<1> QED BY <1>1, <1>2

-----------------------------------------------------------------------------
(***************************************************************************)
(* The methods of the heap keep it one.                                    *)
(***************************************************************************)
Heap(q) == Placed(q) /\ ToSet(q.queue) = q.items /\ InOrder(q, Len(q.queue))

LEMMA HeapFacts ==
    ASSUME NEW q, Placed(q)
    PROVE  /\ q.queue \in Seq(Keys) /\ Len(q.queue) \in Nat
           /\ DOMAIN q.queue = 1 .. Len(q.queue)
           /\ ToSet(q.queue) = {q.queue[m] : m \in 1 .. Len(q.queue)}
           /\ q.items \in SUBSET Keys
           /\ q.count \in [Keys -> Nat] /\ q.index \in [Keys -> Nat]
           /\ \A m \in 1 .. Len(q.queue) : q.queue[m] \in Keys
           /\ \A m, l \in 1 .. Len(q.queue) : q.queue[m] = q.queue[l] => m = l
<1>1. /\ q.queue \in Seq(Keys) /\ Len(q.queue) \in Nat
      /\ DOMAIN q.queue = 1 .. Len(q.queue)
      /\ q.items \in SUBSET Keys
      /\ q.count \in [Keys -> Nat] /\ q.index \in [Keys -> Nat]
  BY LenProperties DEF Placed, HeapRecords
<1>2. \A m \in 1 .. Len(q.queue) : q.queue[m] \in Keys
  BY <1>1
<1>3. \A m, l \in 1 .. Len(q.queue) : q.queue[m] = q.queue[l] => m = l
  BY DEF Placed
<1> QED BY <1>1, <1>2, <1>3 DEF ToSet

LEMMA LightestFirst ==
    ASSUME NEW q, Placed(q), InOrder(q, Len(q.queue)),
           NEW m \in 1 .. Len(q.queue)
    PROVE  Weight(q, 1) <= Weight(q, m)
<1> DEFINE T == {l \in 1 .. Len(q.queue) : ~(Weight(q, 1) <= Weight(q, l))}
<1>1. Len(q.queue) \in Nat /\ \A l \in 1 .. Len(q.queue) : Weight(q, l) \in Nat
  BY HeapFacts, Weights
<1> SUFFICES ASSUME T # {} PROVE FALSE
  OBVIOUS
<1>2. PICK l \in T : \A o \in T : l <= o
  <2>1. T \subseteq Nat
    BY <1>1
  <2> HIDE DEF T
  <2> QED BY <2>1, Least
<1>3. l \in 2 .. Len(q.queue)
  BY <1>1, <1>2
<1>4. l \div 2 \in 1 .. Len(q.queue) /\ l \div 2 < l
  BY <1>1, <1>3, Half
<1>5. Weight(q, 1) <= Weight(q, l \div 2)
  BY <1>1, <1>2, <1>4
<1>6. Weight(q, l \div 2) <= Weight(q, l)
  BY <1>3 DEF InOrder, Edge
<1> DEFINE d == l \div 2
<1>7. Weight(q, 1) \in Nat /\ Weight(q, d) \in Nat /\ Weight(q, l) \in Nat
  BY <1>1, <1>3, <1>4
<1> HIDE DEF d
<1> QED BY <1>2, <1>5, <1>6, <1>7 DEF d

LEMMA PopLastFacts ==
    ASSUME NEW q, Placed(q), ToSet(q.queue) = q.items, q.queue # <<>>,
           InOrder(q, Len(q.queue) - 1)
    PROVE  /\ Heap(U!PopLast(q))
           /\ U!PopLast(q).items = q.items \ {q.queue[Len(q.queue)]}
<1> DEFINE n == Len(q.queue)
           k == q.queue[n]
           r == U!PopLast(q)
           front == SubSeq(q.queue, 1, n - 1)
<1>0. /\ q.queue \in Seq(Keys) /\ n \in Nat
      /\ q.items \in SUBSET Keys
      /\ q.count \in [Keys -> Nat] /\ q.index \in [Keys -> Nat]
      /\ \A m \in 1 .. n : q.queue[m] \in Keys
      /\ \A m, l \in 1 .. n : q.queue[m] = q.queue[l] => m = l
      /\ \A m \in 1 .. n : q.index[q.queue[m]] = m
  BY HeapFacts DEF Placed
<1>1. n \in Nat /\ n >= 1 /\ n \in 1 .. n /\ k \in Keys
  BY <1>0, EmptySeq
<1>2. U!Last(q.queue) = k /\ U!Front(q.queue) = front
  BY DEF U!Last, U!Front
<1>3. /\ front \in Seq(Keys) /\ Len(front) = n - 1
      /\ \A m \in 1 .. n - 1 : front[m] = q.queue[m]
  BY <1>0, <1>1, SubSeqProperties
<1>4. r \in [items : {q.items \ {k}}, queue : {front},
             count : {[q.count EXCEPT ![k] = 0]},
             index : {[q.index EXCEPT ![k] = 0]}]
  <2>1. q \in [items : {q.items}, queue : {q.queue}, count : {q.count},
               index : {q.index}]
    BY DEF Placed, HeapRecords
  <2>2. r = [q EXCEPT !.queue = front, !.items = q.items \ {k},
                      !.index[k] = 0, !.count[k] = 0]
    BY <1>2 DEF U!PopLast
  <2> HIDE DEF r, front, k
  <2> QED BY <2>1, <2>2
<1>5. /\ r.items = q.items \ {k} /\ r.queue = front
      /\ r.count = [q.count EXCEPT ![k] = 0]
      /\ r.index = [q.index EXCEPT ![k] = 0]
  BY <1>4
<1> HIDE DEF r, front
<1>6. ASSUME NEW m \in 1 .. n - 1
      PROVE  /\ m \in 1 .. n /\ q.queue[m] # k /\ q.queue[m] \in Keys
             /\ q.index[q.queue[m]] = m /\ r.queue[m] = q.queue[m]
  <2>1. m \in 1 .. n /\ m # n
    BY <1>1
  <2>2. q.queue[m] # q.queue[n]
    BY <1>0, <1>1, <2>1
  <2> QED BY <1>0, <1>3, <1>5, <2>1, <2>2
<1>7. ASSUME NEW x \in Keys, x # k
      PROVE  r.index[x] = q.index[x] /\ r.count[x] = q.count[x]
  <2> HIDE DEF k
  <2> QED BY <1>0, <1>1, <1>5, <1>7
<1>8. Placed(r)
  <2>1. r \in HeapRecords
    <3>1. /\ [q.count EXCEPT ![k] = 0] \in [Keys -> Nat]
          /\ [q.index EXCEPT ![k] = 0] \in [Keys -> Nat]
      BY <1>0
    <3>2. q.items \ {k} \in SUBSET Keys
      BY <1>0
    <3> QED BY <1>3, <1>4, <3>1, <3>2 DEF HeapRecords
  <2>2. ASSUME NEW m \in 1 .. n - 1 PROVE r.index[r.queue[m]] = m
    <3> DEFINE a == q.queue[m]
    <3>1. a \in Keys /\ a # k /\ q.index[a] = m /\ r.queue[m] = a
      BY <1>6
    <3> HIDE DEF a, k
    <3>2. r.index[a] = q.index[a]
      BY <1>7, <3>1
    <3> QED BY <3>1, <3>2
  <2> QED BY <1>3, <1>5, <2>1, <2>2 DEF Placed
<1>9. ToSet(r.queue) = r.items
  <2>1. ToSet(r.queue) = {q.queue[m] : m \in 1 .. n - 1}
    <3>1. ToSet(r.queue) = {r.queue[m] : m \in 1 .. Len(r.queue)}
      BY <1>8, HeapFacts
    <3>2. /\ Len(r.queue) = n - 1
          /\ \A m \in 1 .. n - 1 : r.queue[m] = q.queue[m]
      BY <1>3, <1>5
    <3> QED BY <3>1, <3>2
  <2>2. q.items = {q.queue[m] : m \in 1 .. n}
    BY HeapFacts
  <2>3. \A m \in 1 .. n : m \in 1 .. n - 1 \/ m = n
    BY <1>1
  <2>4. \A m \in 1 .. n - 1 : m \in 1 .. n /\ q.queue[m] # k
    BY <1>6
  <2> SUFFICES ASSUME NEW x
               PROVE  x \in ToSet(r.queue) <=> x \in q.items /\ x # k
    BY <1>5
  <2>5. ASSUME x \in q.items, x # k PROVE x \in ToSet(r.queue)
    <3>1. PICK m \in 1 .. n : x = q.queue[m]
      BY <2>2, <2>5
    <3> QED BY <2>1, <2>3, <2>5, <3>1
  <2>6. ASSUME x \in ToSet(r.queue) PROVE x \in q.items /\ x # k
    BY <2>1, <2>2, <2>4, <2>6
  <2> QED BY <2>5, <2>6
<1>10. InOrder(r, n - 1)
  <2>1. ASSUME NEW m \in 1 .. n - 1 PROVE Weight(r, m) = Weight(q, m)
    BY <1>6, <1>7 DEF Weight
  <2>2. ASSUME NEW c \in 2 .. n - 1 PROVE Edge(r, c)
    <3>1. c \in 1 .. n - 1 /\ c \div 2 \in 1 .. n - 1
      BY <1>1, Half
    <3> QED BY <2>1, <3>1 DEF InOrder, Edge
  <2> QED BY <2>2 DEF InOrder
<1> QED BY <1>3, <1>5, <1>8, <1>9, <1>10 DEF Heap, r

LEMMA HeapRemoveFacts ==
    ASSUME NEW q, Heap(q), NEW i \in 1 .. Len(q.queue)
    PROVE  /\ Heap(U!HeapRemove(q, i))
           /\ U!HeapRemove(q, i).items = q.items \ {q.queue[i]}
<1> DEFINE n == Len(q.queue)
<1>1. /\ Placed(q) /\ ToSet(q.queue) = q.items /\ InOrder(q, n)
      /\ n \in Nat /\ n >= 1 /\ n - 1 \in Nat
  BY HeapFacts DEF Heap
<1>2. CASE i = n
  <2>1. InOrder(q, n - 1) /\ q.queue # <<>>
    BY <1>1, EmptySeq DEF InOrder
  <2>2. U!HeapRemove(q, i) = U!PopLast(q)
    BY <1>2 DEF U!HeapRemove
  <2> QED BY <1>1, <1>2, <2>1, <2>2, PopLastFacts
<1>3. CASE i # n
  <2> DEFINE s == U!Swap(q, i, n)
             r == U!Sift(s, i, n - 1)
  <2>1. i \in 1 .. n - 1 /\ i \in Nat /\ n \in 1 .. n
    BY <1>1, <1>3
  <2>2. /\ Placed(s) /\ s.items = q.items
        /\ Len(s.queue) = n /\ ToSet(s.queue) = ToSet(q.queue)
        /\ s.queue[n] = q.queue[i]
        /\ \A m \in 1 .. n : m # i /\ m # n => Weight(s, m) = Weight(q, m)
    BY <1>1, <1>3, <2>1, SwapFacts
  <2>3. Unsettled(s, i, n - 1)
    <3>1. \A c \in 2 .. n - 1 : /\ c \div 2 \in 1 .. n - 1 /\ c \div 2 < c
                                /\ c \in 1 .. n - 1 /\ c \in 2 .. n
      BY <1>1, Half
    <3>2. \A m \in 1 .. n - 1 : m # i => Weight(s, m) = Weight(q, m)
      BY <1>1, <2>2
    <3> HIDE DEF s
    <3>3. ASSUME NEW c \in 2 .. n - 1, c # i, c \div 2 # i PROVE Edge(s, c)
      BY <1>1, <3>1, <3>2, <3>3 DEF InOrder, Edge
    <3>4. ASSUME NEW c \in 2 .. n - 1, c \div 2 = i, i > 1
          PROVE  Weight(s, i \div 2) <= Weight(s, c)
      <4> DEFINE g == i \div 2
      <4>1. i \in 2 .. n - 1 /\ i \in 2 .. n /\ c # i
        BY <1>1, <2>1, <3>1, <3>4
      <4>2. g \in 1 .. n - 1 /\ g # i
        BY <3>1, <4>1
      <4>3. Weight(q, g) <= Weight(q, i) /\ Weight(q, i) <= Weight(q, c)
        BY <1>1, <3>1, <3>4, <4>1 DEF InOrder, Edge
      <4>4. /\ Weight(q, g) \in Nat /\ Weight(q, i) \in Nat
            /\ Weight(q, c) \in Nat
        BY <1>1, <3>1, <4>1, <4>2, Weights
      <4>5. Weight(s, g) = Weight(q, g) /\ Weight(s, c) = Weight(q, c)
        BY <3>1, <3>2, <4>1, <4>2
      <4> HIDE DEF g
      <4>6. Weight(s, g) <= Weight(s, c)
        BY <4>3, <4>4, <4>5
      <4> QED BY <4>6 DEF g
    <3> QED BY <3>3, <3>4 DEF Unsettled, Bridged
  <2>4. Sorted(s, r, n - 1) /\ InOrder(r, n - 1)
    <3> HIDE DEF s
    <3>1. n - 1 <= Len(s.queue)
      BY <1>1, <2>2
    <3> QED BY <1>1, <2>1, <2>2, <2>3, <3>1, SiftSorts
  <2>5. U!HeapRemove(q, i) = U!PopLast(r)
    BY <1>3 DEF U!HeapRemove
  <2> HIDE DEF r, s
  <2>6. /\ Placed(r) /\ r.items = q.items /\ Len(r.queue) = n
        /\ ToSet(r.queue) = r.items /\ r.queue[n] = q.queue[i]
    BY <1>1, <2>2, <2>4 DEF Sorted
  <2>7. r.queue # <<>>
    BY <1>1, <2>6, HeapFacts, EmptySeq
  <2> QED BY <2>4, <2>5, <2>6, <2>7, PopLastFacts
<1> QED BY <1>2, <1>3

\* A new access count (and set of items), the heap being left alone.
Recounted(q, k, c, S) ==
    [items |-> S, queue |-> q.queue, count |-> [q.count EXCEPT ![k] = c],
     index |-> q.index]

LEMMA RecountFacts ==
    ASSUME NEW q, Placed(q), NEW k \in Keys, NEW c \in Nat,
           NEW S \in SUBSET Keys
    PROVE  LET r == Recounted(q, k, c, S)
           IN  /\ Placed(r) /\ r.queue = q.queue /\ r.items = S
               /\ \A m \in 1 .. Len(q.queue) :
                     q.queue[m] # k => Weight(r, m) = Weight(q, m)
<1> DEFINE r == Recounted(q, k, c, S)
<1>1. /\ r.items = S /\ r.queue = q.queue /\ r.index = q.index
      /\ r.count = [q.count EXCEPT ![k] = c]
      /\ r = [items |-> r.items, queue |-> r.queue, count |-> r.count,
              index |-> r.index]
  BY DEF Recounted
<1> HIDE DEF r
<1>2. /\ q.queue \in Seq(Keys)
      /\ q.count \in [Keys -> Nat] /\ q.index \in [Keys -> Nat]
      /\ \A m \in 1 .. Len(q.queue) : q.queue[m] \in Keys
      /\ \A m \in 1 .. Len(q.queue) : q.index[q.queue[m]] = m
  BY HeapFacts DEF Placed
<1>3. [q.count EXCEPT ![k] = c] \in [Keys -> Nat]
  BY <1>2
<1>4. Placed(r)
  BY <1>1, <1>2, <1>3 DEF Placed, HeapRecords
<1>5. \A m \in 1 .. Len(q.queue) :
         q.queue[m] # k => Weight(r, m) = Weight(q, m)
  BY <1>1, <1>2 DEF Weight
<1> QED BY <1>1, <1>4, <1>5 DEF r

LEMMA FixFacts ==
    ASSUME NEW q, Heap(q), NEW i \in 1 .. Len(q.queue), NEW c \in Nat
    PROVE  LET r == U!Fix([q EXCEPT !.count[q.queue[i]] = c], i)
           IN  Heap(r) /\ r.items = q.items
<1> DEFINE n == Len(q.queue)
           k == q.queue[i]
           r == Recounted(q, k, c, q.items)
<1>1. /\ Placed(q) /\ ToSet(q.queue) = q.items /\ InOrder(q, n)
      /\ n \in Nat /\ n <= n /\ k \in Keys /\ q.items \in SUBSET Keys
      /\ q \in HeapRecords
  BY HeapFacts DEF Heap, Placed
<1>2. \A m, l \in 1 .. n : q.queue[m] = q.queue[l] => m = l
  BY <1>1, HeapFacts
<1>3. [q EXCEPT !.count[k] = c] = r
  <2>1. q \in [items : {q.items}, queue : {q.queue}, count : {q.count},
               index : {q.index}]
    BY <1>1 DEF HeapRecords
  <2> HIDE DEF k
  <2> QED BY <2>1 DEF Recounted
<1>4. Placed(r) /\ r.queue = q.queue /\ r.items = q.items
  BY <1>1, RecountFacts
<1>5. ASSUME NEW m \in 1 .. n, m # i PROVE Weight(r, m) = Weight(q, m)
  <2>1. q.queue[m] # k
    BY <1>2, <1>5
  <2> HIDE DEF k, r
  <2>2. \A l \in 1 .. n : q.queue[l] # k => Weight(r, l) = Weight(q, l)
    BY <1>1, RecountFacts DEF r
  <2> QED BY <2>1, <2>2
<1> HIDE DEF r, k
<1>6. \A m \in 2 .. n : /\ m \in 1 .. n /\ m \div 2 \in 1 .. n /\ m \div 2 # m
  BY <1>1, Half
<1>7. Bridged(r, i, n)
  <2> SUFFICES ASSUME NEW m \in 2 .. n, m \div 2 = i, i > 1
               PROVE  Weight(r, i \div 2) <= Weight(r, m)
    BY DEF Bridged
  <2> DEFINE u == i \div 2
  <2>1. i \in 2 .. n /\ u \in 1 .. n /\ u # i /\ m \in 1 .. n /\ m # i
    BY <1>1, <1>6
  <2>2. Weight(q, u) <= Weight(q, i) /\ Weight(q, i) <= Weight(q, m)
    BY <1>1, <2>1 DEF InOrder, Edge
  <2>3. Weight(q, u) \in Nat /\ Weight(q, i) \in Nat /\ Weight(q, m) \in Nat
    BY <1>1, <2>1, Weights
  <2> HIDE DEF u
  <2>4. Weight(r, u) = Weight(q, u) /\ Weight(r, m) = Weight(q, m)
    BY <1>5, <2>1
  <2> QED BY <2>2, <2>3, <2>4 DEF u
<1>8. ASSUME NEW m \in 2 .. n, m # i, m \div 2 # i PROVE Edge(r, m)
  <2> DEFINE u == m \div 2
  <2>1. u \in 1 .. n /\ u # i /\ m \in 1 .. n
    BY <1>6, <1>8
  <2>2. Weight(q, u) <= Weight(q, m)
    BY <1>1 DEF InOrder, Edge
  <2> HIDE DEF u
  <2>3. Weight(r, u) = Weight(q, u) /\ Weight(r, m) = Weight(q, m)
    BY <1>5, <1>8, <2>1
  <2> QED BY <2>2, <2>3 DEF u, Edge
<1>9. Unsettled(r, i, n)
  BY <1>7, <1>8 DEF Unsettled
<1> DEFINE t == U!Sift(r, i, n)
<1>10. Sorted(r, t, n) /\ InOrder(t, n)
  BY <1>1, <1>4, <1>9, SiftSorts
<1> HIDE DEF t
<1>11. /\ Placed(t) /\ t.items = q.items /\ Len(t.queue) = n
       /\ ToSet(t.queue) = t.items /\ InOrder(t, n)
  BY <1>1, <1>4, <1>10 DEF Sorted
<1>12. U!Fix([q EXCEPT !.count[q.queue[i]] = c], i) = t
  BY <1>3, <1>4 DEF U!Fix, t, k
<1> QED BY <1>11, <1>12 DEF Heap

\* Push adds a key at the end and lets it rise.
LEMMA PushFacts ==
    ASSUME NEW q, Placed(q), InOrder(q, Len(q.queue)),
           NEW k \in Keys, k \notin ToSet(q.queue),
           q.items = ToSet(q.queue) \cup {k}
    PROVE  Heap(U!Push(q, k)) /\ U!Push(q, k).items = q.items
<1> DEFINE n == Len(q.queue)
           long == Append(q.queue, k)
           r == [q EXCEPT !.queue = long, !.index[k] = n + 1]
<1>1. /\ q.queue \in Seq(Keys) /\ n \in Nat /\ n + 1 \in Nat
      /\ q.items \in SUBSET Keys
      /\ q.count \in [Keys -> Nat] /\ q.index \in [Keys -> Nat]
      /\ \A m \in 1 .. n : q.queue[m] \in Keys
      /\ \A m \in 1 .. n : q.index[q.queue[m]] = m
      /\ q \in HeapRecords
  BY HeapFacts DEF Placed
<1>2. ToSet(q.queue) = {q.queue[m] : m \in 1 .. n}
  BY HeapFacts
<1>3. /\ long \in Seq(Keys) /\ Len(long) = n + 1 /\ long[n + 1] = k
      /\ \A m \in 1 .. n : long[m] = q.queue[m]
  BY <1>1, AppendProperties
<1>4. r \in [items : {q.items}, queue : {long}, count : {q.count},
             index : {[q.index EXCEPT ![k] = n + 1]}]
  <2>1. q \in [items : {q.items}, queue : {q.queue}, count : {q.count},
               index : {q.index}]
    BY <1>1 DEF HeapRecords
  <2> HIDE DEF long, n
  <2> QED BY <2>1
<1>5. /\ r.items = q.items /\ r.queue = long /\ r.count = q.count
      /\ r.index = [q.index EXCEPT ![k] = n + 1]
  BY <1>4
<1> HIDE DEF r, long
<1>6. ASSUME NEW m \in 1 .. n
      PROVE  /\ q.queue[m] # k /\ r.queue[m] = q.queue[m]
             /\ Weight(r, m) = Weight(q, m)
             /\ r.index[r.queue[m]] = m
  <2>1. q.queue[m] # k
    BY <1>2
  <2>2. r.queue[m] = q.queue[m] /\ r.index[q.queue[m]] = q.index[q.queue[m]]
    BY <1>1, <1>3, <1>5, <2>1
  <2> QED BY <1>1, <1>5, <2>1, <2>2 DEF Weight
<1>7. Placed(r)
  <2>1. [q.index EXCEPT ![k] = n + 1] \in [Keys -> Nat]
    BY <1>1
  <2>2. r \in HeapRecords
    BY <1>1, <1>3, <1>4, <2>1 DEF HeapRecords
  <2>3. r.index[k] = n + 1
    BY <1>1, <1>5
  <2>4. \A m \in 1 .. n + 1 : m \in 1 .. n \/ m = n + 1
    <3> HIDE DEF n
    <3> QED BY <1>1
  <2>5. \A m \in 1 .. n + 1 : r.index[r.queue[m]] = m
    BY <1>3, <1>5, <1>6, <2>3, <2>4
  <2> QED BY <1>3, <1>5, <2>2, <2>5 DEF Placed
<1>8. ToSet(r.queue) = q.items
  <2>1. ToSet(r.queue) = {r.queue[m] : m \in 1 .. Len(r.queue)}
    BY <1>7, HeapFacts
  <2>2. Len(r.queue) = n + 1 /\ r.queue[n + 1] = k
    BY <1>3, <1>5
  <2>3. \A m : m \in 1 .. n + 1 <=> m \in 1 .. n \/ m = n + 1
    BY <1>1
  <2>4. \A m \in 1 .. n : r.queue[m] = q.queue[m]
    BY <1>6
  <2> SUFFICES ASSUME NEW x
               PROVE  x \in ToSet(r.queue) <=> x \in ToSet(q.queue) \/ x = k
    OBVIOUS
  <2>5. ASSUME x \in ToSet(r.queue) PROVE x \in ToSet(q.queue) \/ x = k
    <3>1. PICK m \in 1 .. n + 1 : x = r.queue[m]
      BY <2>1, <2>2, <2>5
    <3>2. m \in 1 .. n \/ m = n + 1
      BY <2>3
    <3> QED BY <1>2, <2>2, <2>4, <3>1, <3>2
  <2>6. ASSUME x \in ToSet(q.queue) \/ x = k PROVE x \in ToSet(r.queue)
    BY <1>2, <2>1, <2>2, <2>3, <2>4, <2>6
  <2> QED BY <2>5, <2>6
<1>9. Rising(r, n + 1, n + 1)
  <2>1. \A m \in 2 .. n + 1 : m \div 2 # n + 1
    BY <1>1, Half
  <2>2. ASSUME NEW m \in 2 .. n + 1, m # n + 1 PROVE Edge(r, m)
    <3>1. m \in 2 .. n /\ m \in 1 .. n /\ m \div 2 \in 1 .. n
      BY <1>1, <2>2, Half
    <3> DEFINE u == m \div 2
    <3>2. Weight(q, u) <= Weight(q, m)
      BY <3>1 DEF InOrder, Edge
    <3>3. u \in 1 .. n
      BY <3>1
    <3> HIDE DEF u
    <3>4. Weight(r, u) = Weight(q, u) /\ Weight(r, m) = Weight(q, m)
      BY <1>6, <3>1, <3>3
    <3> QED BY <3>2, <3>4 DEF u, Edge
  <2> QED BY <2>1, <2>2 DEF Rising, Bridged
<1> DEFINE t == U!Up(r, n + 1)
<1>10. Len(r.queue) = n + 1 /\ n + 1 <= n + 1 /\ n + 1 \in 1 .. n + 1
  BY <1>1, <1>3, <1>5
<1>11. Sorted(r, t, n + 1) /\ InOrder(t, n + 1)
  <2> DEFINE l == n + 1
  <2>1. l \in Nat /\ l <= Len(r.queue) /\ l \in 1 .. l /\ Rising(r, l, l)
    BY <1>1, <1>9, <1>10
  <2> HIDE DEF l
  <2>2. Sorted(r, U!Up(r, l), l) /\ InOrder(U!Up(r, l), l)
    BY <1>7, <2>1, UpSorts
  <2> QED BY <2>2 DEF l
<1>12. U!Push(q, k) = t
  BY DEF U!Push, r, long
<1> HIDE DEF t
<1> QED BY <1>5, <1>8, <1>10, <1>11, <1>12 DEF Heap, Sorted

-----------------------------------------------------------------------------
(***************************************************************************)
(* LFU: the invariant is that the structure is a heap.                     *)
(***************************************************************************)
HeapInv == Heap(heap)

LEMMA PlaceOf ==
    ASSUME NEW q, Heap(q), NEW k \in q.items
    PROVE  q.index[k] \in 1 .. Len(q.queue) /\ q.queue[q.index[k]] = k
<1>1. /\ q.items = {q.queue[m] : m \in 1 .. Len(q.queue)}
      /\ \A m \in 1 .. Len(q.queue) : q.index[q.queue[m]] = m
  <2>1. Placed(q) /\ ToSet(q.queue) = q.items
    BY DEF Heap
  <2>2. ToSet(q.queue) = {q.queue[m] : m \in 1 .. Len(q.queue)}
    BY <2>1, HeapFacts
  <2> QED BY <2>1, <2>2 DEF Placed
<1> QED BY <1>1

\* A heap has a first element when it has any, and it is one of its items.
LEMMA FirstOfHeap ==
    ASSUME NEW q, Heap(q)
    PROVE  /\ q.queue = <<>> <=> q.items = {}
           /\ q.queue # <<>> => /\ 1 \in 1 .. Len(q.queue)
                                /\ q.queue[1] \in q.items
                                /\ q.queue[1] \in Keys
<1>1. /\ q.queue \in Seq(Keys) /\ Len(q.queue) \in Nat
      /\ q.items \in SUBSET Keys
      /\ q.items = {q.queue[m] : m \in 1 .. Len(q.queue)}
  <2>1. Placed(q) /\ ToSet(q.queue) = q.items
    BY DEF Heap
  <2>2. /\ q.queue \in Seq(Keys) /\ Len(q.queue) \in Nat
        /\ q.items \in SUBSET Keys
        /\ ToSet(q.queue) = {q.queue[m] : m \in 1 .. Len(q.queue)}
    BY <2>1, HeapFacts
  <2> QED BY <2>1, <2>2
<1>2. CASE q.queue = <<>>
  <2>1. Len(q.queue) = 0
    BY <1>1, <1>2, EmptySeq
  <2> QED BY <1>1, <1>2, <2>1
<1>3. CASE q.queue # <<>>
  <2>1. 1 \in 1 .. Len(q.queue)
    BY <1>1, <1>3, EmptySeq
  <2>2. q.queue[1] \in q.items
    BY <1>1, <2>1
  <2> QED BY <1>1, <1>3, <2>1, <2>2
<1> QED BY <1>2, <1>3

\* What OnSet does to a key that is not tracked.
LEMMA HeapSetFacts ==
    ASSUME HeapInv, NEW k \in Keys, U!OnSet(k), k \notin heap.items
    PROVE  /\ Heap(heap')
           /\ heap'.items = (IF U!Full THEN heap.items \ {heap.queue[1]}
                             ELSE heap.items) \cup {k}
           /\ heapEvicted' = NoKey
<1> DEFINE room == IF U!Full THEN U!HeapRemove(heap, 1) ELSE heap
           left == IF U!Full THEN heap.items \ {heap.queue[1]} ELSE heap.items
           q == [room EXCEPT !.count[k] = 1, !.items = @ \cup {k}]
           r == Recounted(room, k, 1, left \cup {k})
<1>1. heap' = U!Push(q, k) /\ heapEvicted' = NoKey
  BY DEF U!OnSet
<1>2. Heap(room) /\ room.items = left
  <2>1. CASE U!Full
    <3>1. 1 \in 1 .. Len(heap.queue)
      BY <2>1, FirstOfHeap DEF U!Full, HeapInv
    <3>2. /\ Heap(U!HeapRemove(heap, 1))
          /\ U!HeapRemove(heap, 1).items = heap.items \ {heap.queue[1]}
      BY <3>1, HeapRemoveFacts DEF HeapInv
    <3> QED BY <2>1, <3>2
  <2>2. CASE ~U!Full
    BY <2>2 DEF HeapInv
  <2> QED BY <2>1, <2>2
<1>3. k \notin left
  OBVIOUS
<1> HIDE DEF room, left
<1>4. /\ Placed(room) /\ ToSet(room.queue) = left
      /\ InOrder(room, Len(room.queue)) /\ room \in HeapRecords
  BY <1>2 DEF Heap, Placed
<1>5. left \cup {k} \in SUBSET Keys
  BY <1>2, <1>4 DEF HeapRecords
<1>6. q = r
  <2>1. room \in [items : {left}, queue : {room.queue}, count : {room.count},
                  index : {room.index}]
    BY <1>2, <1>4 DEF HeapRecords
  <2> DEFINE counts == [room.count EXCEPT ![k] = 1]
             s == [room EXCEPT !.count[k] = 1]
  <2>2. s \in [items : {left}, queue : {room.queue}, count : {counts},
               index : {room.index}]
    BY <2>1
  <2> HIDE DEF s
  <2>3. [s EXCEPT !.items = @ \cup {k}] \in
           [items : {left \cup {k}}, queue : {room.queue}, count : {counts},
            index : {room.index}]
    BY <2>2
  <2>4. q = [s EXCEPT !.items = @ \cup {k}]
    BY DEF s
  <2> HIDE DEF q
  <2> QED BY <2>3, <2>4 DEF Recounted
<1>7. /\ Placed(r) /\ r.queue = room.queue /\ r.items = left \cup {k}
      /\ \A m \in 1 .. Len(room.queue) :
            room.queue[m] # k => Weight(r, m) = Weight(room, m)
  <2> DEFINE S == left \cup {k}
  <2>1. S \in SUBSET Keys /\ 1 \in Nat
    BY <1>5
  <2> HIDE DEF S
  <2> QED BY <1>4, <2>1, RecountFacts DEF S
<1> HIDE DEF r, q
<1>8. InOrder(r, Len(room.queue))
  <2>1. /\ Len(room.queue) \in Nat
        /\ ToSet(room.queue) = {room.queue[m] : m \in 1 .. Len(room.queue)}
    BY <1>4, HeapFacts
  <2>2. \A m \in 1 .. Len(room.queue) : Weight(r, m) = Weight(room, m)
    BY <1>3, <1>4, <1>7, <2>1
  <2>3. ASSUME NEW c \in 2 .. Len(room.queue) PROVE Edge(r, c)
    <3> DEFINE u == c \div 2
    <3>1. c \in 1 .. Len(room.queue) /\ u \in 1 .. Len(room.queue)
      BY <2>1, Half
    <3>2. Weight(room, u) <= Weight(room, c)
      BY <1>4 DEF InOrder, Edge
    <3> HIDE DEF u
    <3>3. Weight(r, u) = Weight(room, u) /\ Weight(r, c) = Weight(room, c)
      BY <2>2, <3>1
    <3> QED BY <3>2, <3>3 DEF u, Edge
  <2> QED BY <2>3 DEF InOrder
<1>9. Heap(U!Push(r, k)) /\ U!Push(r, k).items = r.items
  BY <1>3, <1>4, <1>7, <1>8, PushFacts
<1> QED BY <1>1, <1>6, <1>7, <1>9 DEF left

LEMMA EmptyIsHeap == Heap(U!EmptyHeap)
<1> DEFINE q == U!EmptyHeap
<1>1. q.queue = <<>> /\ q.items = {} /\ q \in HeapRecords
  <2>1. <<>> \in Seq(Keys)
    BY EmptySeq
  <2> QED BY <2>1 DEF U!EmptyHeap, HeapRecords
<1> HIDE DEF q
<1>2. Len(q.queue) = 0
  BY <1>1, EmptySeq
<1>3. Placed(q)
  BY <1>1, <1>2 DEF Placed
<1>4. ToSet(q.queue) = {q.queue[m] : m \in 1 .. Len(q.queue)}
  BY <1>3, HeapFacts
<1>5. Heap(q)
  BY <1>1, <1>2, <1>3, <1>4 DEF Heap, InOrder
<1> QED BY <1>5 DEF q

LEMMA HeapInitInv == U!Init => HeapInv
BY EmptyIsHeap DEF U!Init, HeapInv

\* Of a tracked key, OnGet and OnSet change nothing but the order; OnDelete
\* and Evict remove one.
LEMMA HeapStep ==
    ASSUME HeapInv
    PROVE  /\ \A k \in Keys : U!OnGet(k) =>
                 Heap(heap') /\ heap'.items = heap.items
           /\ \A k \in heap.items : U!OnSet(k) =>
                 Heap(heap') /\ heap'.items = heap.items
           /\ \A k \in heap.items : U!OnDelete(k) =>
                 Heap(heap') /\ heap'.items = heap.items \ {k}
           /\ U!Evict => /\ Heap(heap')
                         /\ heap'.items = heap.items \ {heap.queue[1]}
<1>0. Heap(heap) /\ Placed(heap) /\ heap.items \in SUBSET Keys
  BY HeapFacts DEF HeapInv, Heap
<1>1. ASSUME NEW k \in Keys, U!OnGet(k)
      PROVE  Heap(heap') /\ heap'.items = heap.items
  <2>1. CASE k \in heap.items
    <3> DEFINE i == heap.index[k]
               c == heap.count[k] + 1
    <3>1. i \in 1 .. Len(heap.queue) /\ heap.queue[i] = k
      BY <1>0, <2>1, PlaceOf
    <3>2. c \in Nat
      <4>1. heap.count \in [Keys -> Nat]
        BY <1>0, HeapFacts
      <4> QED BY <4>1
    <3>3. heap' = U!Fix([heap EXCEPT !.count[k] = c], i)
      BY <1>1, <2>1 DEF U!OnGet
    <3> HIDE DEF i, c
    <3> QED BY <1>0, <3>1, <3>2, <3>3, FixFacts
  <2>2. CASE k \notin heap.items
    BY <1>0, <1>1, <2>2 DEF U!OnGet
  <2> QED BY <2>1, <2>2
<1>2. ASSUME NEW k \in heap.items, U!OnSet(k)
      PROVE  Heap(heap') /\ heap'.items = heap.items
  <2> DEFINE i == heap.index[k]
             c == 1
  <2>1. i \in 1 .. Len(heap.queue) /\ heap.queue[i] = k /\ c \in Nat
    BY <1>0, PlaceOf
  <2>2. heap' = U!Fix([heap EXCEPT !.count[k] = c], i)
    BY <1>2 DEF U!OnSet
  <2> HIDE DEF i, c
  <2> QED BY <1>0, <2>1, <2>2, FixFacts
<1>3. ASSUME NEW k \in heap.items, U!OnDelete(k)
      PROVE  Heap(heap') /\ heap'.items = heap.items \ {k}
  <2> DEFINE i == heap.index[k]
  <2>1. i \in 1 .. Len(heap.queue) /\ heap.queue[i] = k
    BY <1>0, PlaceOf
  <2>2. heap' = U!HeapRemove(heap, i)
    BY <1>3 DEF U!OnDelete
  <2> HIDE DEF i
  <2> QED BY <1>0, <2>1, <2>2, HeapRemoveFacts
<1>4. ASSUME U!Evict
      PROVE  Heap(heap') /\ heap'.items = heap.items \ {heap.queue[1]}
  <2>1. 1 \in 1 .. Len(heap.queue)
    BY <1>0, <1>4, FirstOfHeap DEF U!Evict
  <2>2. heap' = U!HeapRemove(heap, 1)
    BY <1>4 DEF U!Evict
  <2> QED BY <1>0, <2>1, <2>2, HeapRemoveFacts
<1> QED BY <1>1, <1>2, <1>3, <1>4

LEMMA HeapNextInv == HeapInv /\ [U!Next]_(U!vars) => HeapInv'
<1> SUFFICES ASSUME HeapInv, [U!Next]_(U!vars) PROVE Heap(heap')
  BY DEF HeapInv, Heap, Placed, InOrder, Edge, Weight
<1>1. ASSUME NEW k \in Keys, U!OnGet(k) PROVE Heap(heap')
  BY <1>1, HeapStep
<1>2. ASSUME NEW k \in Keys, U!OnSet(k) PROVE Heap(heap')
  BY <1>2, HeapStep, HeapSetFacts
<1>3. ASSUME NEW k \in Keys, U!OnDelete(k) PROVE Heap(heap')
  <2>1. CASE k \in heap.items
    BY <1>3, <2>1, HeapStep
  <2>2. CASE k \notin heap.items
    BY <1>3, <2>2 DEF U!OnDelete, HeapInv
  <2> QED BY <2>1, <2>2
<1>4. CASE U!OnClear
  BY <1>4, EmptyIsHeap DEF U!OnClear
<1>5. CASE U!Evict
  BY <1>5, HeapStep
<1>6. CASE U!EvictNothing
  BY <1>6 DEF U!EvictNothing, HeapInv
<1>7. CASE UNCHANGED U!vars
  BY <1>7 DEF U!vars, HeapInv
<1> QED BY <1>1, <1>2, <1>3, <1>4, <1>5, <1>6, <1>7 DEF U!Next

LEMMA HeapInvHolds == U!Spec => []HeapInv
BY HeapInitInv, HeapNextInv, PTL DEF U!Spec

LEMMA HeapSize ==
    ASSUME NEW q, Heap(q)
    PROVE  Len(q.queue) = Cardinality(q.items)
<1> DEFINE n == Len(q.queue)
           f == q.queue
<1>1. /\ f \in Seq(Keys) /\ n \in Nat
      /\ q.items = {f[m] : m \in 1 .. n}
      /\ \A m, l \in 1 .. n : f[m] = f[l] => m = l
  <2>1. Placed(q) /\ ToSet(q.queue) = q.items
    BY DEF Heap
  <2>2. /\ f \in Seq(Keys) /\ n \in Nat
        /\ ToSet(q.queue) = {f[m] : m \in 1 .. n}
        /\ \A m, l \in 1 .. n : f[m] = f[l] => m = l
    BY <2>1, HeapFacts
  <2> QED BY <2>1, <2>2
<1>2. f \in [1 .. n -> q.items]
  BY <1>1
<1> HIDE DEF f, n
<1>3. f \in Bijection(1 .. n, q.items)
  BY <1>1, <1>2 DEF Bijection, Injection, Surjection, IsInjective
<1>4. ExistsBijection(1 .. n, q.items)
  BY <1>3 DEF ExistsBijection
<1>5. IsFiniteSet(1 .. n) /\ Cardinality(1 .. n) = n
  BY <1>1, FS_Interval
<1> QED BY <1>4, <1>5, FS_Bijection DEF n

\* After any calls of LFU, every index field is the position of its item, the
\* heap holds the items of the map, each once, and is in order.
THEOREM LFUInvHolds == U!Spec => []LFUInv
<1>1. HeapInv => LFUInv
  <2> SUFFICES ASSUME Heap(heap) PROVE U!IndexCorrect /\ U!HeapOrder
    BY DEF HeapInv, LFUInv
  <2>1. /\ Placed(heap) /\ ToSet(heap.queue) = heap.items
        /\ InOrder(heap, Len(heap.queue))
    BY DEF Heap
  <2>2. U!IndexCorrect
    BY <2>1, HeapSize, PlaceOf
    DEF U!IndexCorrect, U!ToSet, ToSet, U!Cardinality, Cardinality
  <2>3. ASSUME NEW j \in 2 .. Len(heap.queue)
        PROVE  ~U!Less(heap, j, j \div 2)
    <3> DEFINE u == j \div 2
    <3>1. Len(heap.queue) \in Nat
      BY <2>1, HeapFacts
    <3>2. u \in 1 .. Len(heap.queue) /\ j \in 1 .. Len(heap.queue)
      BY <3>1, Half
    <3>3. Weight(heap, u) <= Weight(heap, j)
      BY <2>1 DEF InOrder, Edge
    <3>4. Weight(heap, u) \in Nat /\ Weight(heap, j) \in Nat
      <4> HIDE DEF u
      <4> QED BY <2>1, <3>2, Weights
    <3> HIDE DEF u
    <3>5. ~U!Less(heap, j, u)
      BY <3>3, <3>4 DEF U!Less, Weight
    <3> QED BY <3>5 DEF u
  <2> QED BY <2>2, <2>3 DEF U!HeapOrder
<1> QED BY <1>1, HeapInvHolds, PTL

\* LFU's promise: a key dropped to make room is the first of the heap, and no
\* tracked key was accessed less often (LFU's OnSet and Evict).
THEOREM LFUEvictsLeastFrequentHolds == U!Spec => LFUEvictsLeastFrequent
<1> DEFINE Step == (U!Evict \/ \E k \in Keys : U!OnSet(k)) =>
                      \A v \in heap.items \ heap'.items, k \in heap.items :
                          heap.count[v] <= heap.count[k]
<1>1. HeapInv => Step
  <2> SUFFICES ASSUME HeapInv, U!Evict \/ \E k \in Keys : U!OnSet(k),
                      NEW v \in heap.items \ heap'.items, NEW k \in heap.items
               PROVE  heap.count[v] <= heap.count[k]
    OBVIOUS
  <2>1. v = heap.queue[1] /\ heap.queue # <<>>
    <3>1. CASE U!Evict
      BY <3>1, HeapStep DEF U!Evict
    <3>2. ASSUME NEW l \in Keys, U!OnSet(l) PROVE v = heap.queue[1] /\ U!Full
      <4>1. l \notin heap.items
        BY <3>2, HeapStep
      <4>2. heap'.items = (IF U!Full THEN heap.items \ {heap.queue[1]}
                           ELSE heap.items) \cup {l}
        BY <3>2, <4>1, HeapSetFacts
      <4> QED BY <4>2
    <3> QED BY <3>1, <3>2 DEF U!Full
  <2>2. /\ heap.index[k] \in 1 .. Len(heap.queue)
        /\ heap.queue[heap.index[k]] = k
    BY PlaceOf DEF HeapInv
  <2> DEFINE i == heap.index[k]
  <2>3. Weight(heap, 1) <= Weight(heap, i)
    <3>1. Placed(heap) /\ InOrder(heap, Len(heap.queue))
      BY DEF HeapInv, Heap
    <3>2. i \in 1 .. Len(heap.queue)
      BY <2>2
    <3> HIDE DEF i
    <3> QED BY <3>1, <3>2, LightestFirst
  <2> QED BY <2>1, <2>2, <2>3 DEF Weight
<1>2. HeapInv /\ [U!Next]_(U!vars) => [Step]_(U!vars)
  BY <1>1
<1> QED BY <1>2, HeapInvHolds, PTL
        DEF U!Spec, LFUEvictsLeastFrequent, U!EvictsLeastFrequent

\* Every call of LFU is a step of the Policy interface.
LEMMA LFUStepSimulation ==
    HeapInv /\ [U!Next]_(U!vars)
       => [U!Abstract!PolicyNext]_(U!Abstract!policyVars)
<1> SUFFICES ASSUME HeapInv, [U!Next]_(U!vars)
             PROVE  \/ U!Abstract!PolicyNext
                    \/ UNCHANGED <<heap.items, heapEvicted>>
  BY DEF U!Abstract!policyVars
<1>0. Heap(heap)
  BY DEF HeapInv
<1>1. ASSUME NEW k \in Keys, U!OnGet(k) PROVE U!Abstract!Touch
  <2>1. heapEvicted' = NoKey
    BY <1>1 DEF U!OnGet
  <2> QED BY <1>1, <2>1, HeapStep DEF U!Abstract!Touch
<1>2. ASSUME NEW k \in Keys, U!OnSet(k)
      PROVE  U!Abstract!Touch \/ U!Abstract!Admit(k)
  <2>1. CASE k \in heap.items
    <3>1. heapEvicted' = NoKey
      BY <1>2 DEF U!OnSet
    <3> QED BY <1>2, <2>1, <3>1, HeapStep DEF U!Abstract!Touch
  <2>2. CASE k \notin heap.items
    <3>1. heap'.items = (IF U!Full THEN heap.items \ {heap.queue[1]}
                         ELSE heap.items) \cup {k}
          /\ heapEvicted' = NoKey
      BY <1>2, <2>2, HeapSetFacts
    <3>2. /\ heap.items # {} <=> heap.queue # <<>>
          /\ heap.queue # <<>> => heap.queue[1] \in heap.items
      BY <1>0, FirstOfHeap
    <3>3. U!Full <=> U!Abstract!Cardinality(heap.items) >= Capacity
                        /\ heap.items # {}
      BY <3>2 DEF U!Full, U!Cardinality, U!Abstract!Cardinality
    <3> QED BY <2>2, <3>1, <3>2, <3>3 DEF U!Abstract!Admit
  <2> QED BY <2>1, <2>2
<1>3. ASSUME NEW k \in Keys, U!OnDelete(k)
      PROVE  U!Abstract!Touch \/ U!Abstract!Forget(k)
  <2>1. heapEvicted' = NoKey
    BY <1>3 DEF U!OnDelete
  <2>2. CASE k \in heap.items
    BY <1>3, <2>1, <2>2, HeapStep DEF U!Abstract!Forget
  <2>3. CASE k \notin heap.items
    BY <1>3, <2>1, <2>3 DEF U!OnDelete, U!Abstract!Touch
  <2> QED BY <2>2, <2>3
<1>4. CASE U!OnClear
  BY <1>4 DEF U!OnClear, U!EmptyHeap, U!Abstract!PolicyNext, U!Abstract!Reset
<1>5. CASE U!Evict
  <2>1. /\ heap.queue[1] \in Keys /\ heap.queue[1] \in heap.items
        /\ heap'.items = heap.items \ {heap.queue[1]}
        /\ heapEvicted' = heap.queue[1]
    BY <1>0, <1>5, FirstOfHeap, HeapStep DEF U!Evict
  <2> QED BY <2>1 DEF U!Abstract!PolicyNext, U!Abstract!EvictSome
<1>6. CASE U!EvictNothing
  BY <1>0, <1>6, FirstOfHeap
  DEF U!EvictNothing, U!Abstract!EvictNothing, U!Abstract!PolicyNext
<1>7. CASE UNCHANGED U!vars
  BY <1>7 DEF U!vars
<1> QED BY <1>1, <1>2, <1>3, <1>4, <1>5, <1>6, <1>7
        DEF U!Next, U!Abstract!PolicyNext

\* LFU implements the Policy interface too, for every capacity and any keys:
\* the heap never hides or loses a tracked key.
THEOREM LFUImplementsPolicyHolds == U!Spec => LFUImplementsPolicy
<1>1. U!Init => U!Abstract!PolicyInit
  BY DEF U!Init, U!EmptyHeap, U!Abstract!PolicyInit
<1> QED BY <1>1, LFUStepSimulation, HeapInvHolds, PTL
        DEF U!Spec, LFUImplementsPolicy, U!ImplementsPolicy,
            U!Abstract!PolicySpec
=============================================================================
