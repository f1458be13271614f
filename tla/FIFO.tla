-------------------------------- MODULE FIFO --------------------------------
(***************************************************************************)
(* policy.FIFO.  p.items is the SafeMap from key to list element, p.list   *)
(* the list from its front (oldest) to its back (newest).  since[k] is a   *)
(* history variable: the keys admitted after k was last admitted.          *)
(***************************************************************************)
EXTENDS SequencesExt

CONSTANTS Keys, Capacity, NoKey

VARIABLES
    p,        \* the map and the list
    evicted,  \* what the last call returned from Evict
    since     \* history: [Keys -> SUBSET Keys]

vars == <<p, evicted, since>>

Empty == [items |-> {}, list |-> <<>>]

Without(list, k) ==
    RemoveAt(list, CHOOSE i \in DOMAIN list : list[i] = k)

\* A mutated form of DropFront: the newest key goes instead of the oldest.
DropNewest(q) == [items |-> q.items \ {Last(q.list)}, list |-> Front(q.list)]

DropFront(q) == [items |-> q.items \ {Head(q.list)}, list |-> Tail(q.list)]

Admitted(k) == [j \in Keys |-> IF j = k THEN {} ELSE since[j] \cup {k}]

Init ==
    /\ p = Empty
    /\ evicted = NoKey
    /\ since = [k \in Keys |-> {}]

\* OnGet does nothing.
OnGet(k) == evicted' = NoKey /\ UNCHANGED <<p, since>>

Full == Cardinality(p.items) >= Capacity /\ p.list # <<>>

\* A mutated form of OnSet: setting a tracked key moves it to the back.
OnSetMoves(k) ==
    /\ LET room == IF k \in p.items
                   THEN [items |-> p.items \ {k}, list |-> Without(p.list, k)]
                   ELSE IF Full THEN DropFront(p) ELSE p
       IN  p' = [items |-> room.items \cup {k}, list |-> Append(room.list, k)]
    /\ since' = IF k \in p.items THEN since ELSE Admitted(k)
    /\ evicted' = NoKey

\* A mutated form of OnSet: no room is made at capacity.
OnSetNoRoom(k) ==
    /\ p' = IF k \in p.items THEN p
            ELSE [items |-> p.items \cup {k}, list |-> Append(p.list, k)]
    /\ since' = IF k \in p.items THEN since ELSE Admitted(k)
    /\ evicted' = NoKey

\* Setting a tracked key keeps its place in the queue.
OnSet(k) ==
    /\ p' = IF k \in p.items THEN p
            ELSE LET room == IF Full THEN DropFront(p) ELSE p
                 IN  [items |-> room.items \cup {k},
                      list  |-> Append(room.list, k)]
    /\ since' = IF k \in p.items THEN since ELSE Admitted(k)
    /\ evicted' = NoKey

OnDelete(k) ==
    /\ p' = IF k \in p.items
            THEN [items |-> p.items \ {k}, list |-> Without(p.list, k)]
            ELSE p
    /\ evicted' = NoKey
    /\ UNCHANGED since

OnClear ==
    /\ p' = Empty
    /\ evicted' = NoKey
    /\ UNCHANGED since

Evict ==
    /\ p.list # <<>>
    /\ p' = DropFront(p)
    /\ evicted' = Head(p.list)
    /\ UNCHANGED since

EvictNothing ==
    /\ p.list = <<>>
    /\ evicted' = NoKey
    /\ UNCHANGED <<p, since>>

Next ==
    \/ \E k \in Keys : OnGet(k) \/ OnSet(k) \/ OnDelete(k)
    \/ OnClear
    \/ Evict
    \/ EvictNothing

Spec == Init /\ [][Next]_vars

-----------------------------------------------------------------------------
TypeOK ==
    /\ p \in [items : SUBSET Keys, list : Seq(Keys)]
    /\ evicted \in Keys \cup {NoKey}
    /\ since \in [Keys -> SUBSET Keys]

\* The SafeMap and the list hold the same keys, each once.
Consistent ==
    /\ ToSet(p.list) = p.items
    /\ \A i, j \in DOMAIN p.list : p.list[i] = p.list[j] => i = j

\* The list is ordered by admission: exactly the tracked keys admitted after
\* k stand behind it, whatever Gets and re-Sets came in between.
AdmissionOrder ==
    \A i, j \in DOMAIN p.list : i < j <=> p.list[j] \in since[p.list[i]]

\* Whenever a key is dropped to make room, by Evict or inside OnSet, every
\* other tracked key was admitted after it.
EvictsOldest ==
    [][(Evict \/ \E k \in Keys : OnSet(k)) =>
          \A v \in p.items \ p'.items : p.items \ {v} \subseteq since[v]]_vars

Abstract == INSTANCE EvictionPolicy WITH tracked <- p.items

\* FIFO keeps the promises of the Policy interface.
ImplementsPolicy == Abstract!PolicySpec
=============================================================================
