-------------------------------- MODULE LRU --------------------------------
(***************************************************************************)
(* policy.LRU: every method runs under the policy's own mutex and is one   *)
(* action.  since[k] is a history variable: the keys used after k was last *)
(* used.  It decides who is least recently used without looking at the     *)
(* list.                                                                   *)
(***************************************************************************)
EXTENDS LRUList

CONSTANTS Keys, Capacity, NoKey

ASSUME LRUAssumption ==
    Capacity \in Nat /\ NoKey \notin Keys /\ IsFiniteSet(Keys)

VARIABLES
    p,        \* the map and the list, see LRUList
    evicted,  \* what the last call returned from Evict
    since     \* history: [Keys -> SUBSET Keys]

vars == <<p, evicted, since>>

\* k is used now: it has no later use, and every other key has one more.
Used(k) == [j \in Keys |-> IF j = k THEN {} ELSE since[j] \cup {k}]

Init ==
    /\ p = EmptyPolicy
    /\ evicted = NoKey
    /\ since = [k \in Keys |-> {}]

OnGet(k) ==
    /\ p' = AfterGet(p, k)
    /\ since' = IF k \in p.items THEN Used(k) ELSE since
    /\ evicted' = NoKey

OnSet(k) ==
    /\ p' = AfterSet(p, k, Capacity)
    /\ since' = Used(k)
    /\ evicted' = NoKey

OnDelete(k) ==
    /\ p' = AfterDelete(p, k)
    /\ evicted' = NoKey
    /\ UNCHANGED since

OnClear ==
    /\ p' = EmptyPolicy
    /\ evicted' = NoKey
    /\ UNCHANGED since

\* A mutated form of Evict: the victim is taken from the front.
EvictFront ==
    /\ p.list # <<>>
    /\ p' = AfterDelete(p, Head(p.list))
    /\ evicted' = Head(p.list)
    /\ UNCHANGED since

Evict ==
    /\ p.list # <<>>
    /\ p' = DropBack(p, 1)
    /\ evicted' = Last(p.list)
    /\ UNCHANGED since

EvictNothing ==
    /\ p.list = <<>>
    /\ evicted' = NoKey
    /\ UNCHANGED <<p, since>>

Next ==
    \/ \E k \in Keys : OnGet(k) \/ OnSet(k) \/ OnDelete(k)
    \/ OnClear
    \/ Evict
    \/ EvictNothing

Spec == Init /\ [][Next]_vars

-----------------------------------------------------------------------------
TypeOK ==
    /\ p \in [items : SUBSET Keys, list : Seq(Keys)]
    /\ evicted \in Keys \cup {NoKey}
    /\ since \in [Keys -> SUBSET Keys]

\* The map and the list hold the same keys and no key is twice in the list:
\* OnSet counts the map, Evict walks the list, and both must agree.
Consistent == WellFormed(p)

\* The list is ordered by recency: exactly the tracked keys used after k
\* stand before it.
RecencyOrder ==
    \A i, j \in DOMAIN p.list : i < j <=> p.list[i] \in since[p.list[j]]

\* Map and list are one structure, ordered by use.  RecencyOrder cannot be
\* kept without Consistent: only a key with one place in the list is moved
\* by taking that place out.
LRUInv == TypeOK /\ Consistent /\ RecencyOrder

\* Whenever a key is dropped to make room, by Evict or inside OnSet, every
\* other tracked key has been used since it was.
EvictsLeastRecent ==
    [][(Evict \/ \E k \in Keys : OnSet(k)) =>
          \A v \in p.items \ p'.items : p.items \ {v} \subseteq since[v]]_vars

\* The policy never tracks more than its capacity (one key if that is 0).
WithinCapacity == Cardinality(p.items) <= IF Capacity = 0 THEN 1 ELSE Capacity

Abstract == INSTANCE EvictionPolicy WITH tracked <- p.items

\* LRU keeps the promises of the Policy interface.
ImplementsPolicy == Abstract!PolicySpec
=============================================================================
