------------------------------ MODULE LRUList ------------------------------
(***************************************************************************)
(* The two structures of the LRU policy as one record p: p.items, the keys *)
(* of the map from key to list element, and p.list, the keys of the list   *)
(* from its front (most recently used) to its back.  One operator per      *)
(* method gives the record the method leaves behind.  The cache holds such *)
(* a record as its policy; module LRU is the policy on its own.            *)
(***************************************************************************)
EXTENDS SequencesExt

\* The map and the list hold the same keys and no key is twice in the list.
WellFormed(p) ==
    /\ ToSet(p.list) = p.items
    /\ \A i, j \in DOMAIN p.list : p.list[i] = p.list[j] => i = j

EmptyPolicy == [items |-> {}, list |-> <<>>]

Position(list, k) == CHOOSE i \in DOMAIN list : list[i] = k

ListWithout(list, k) == RemoveAt(list, Position(list, k))

MoveToFront(list, k) == <<k>> \o ListWithout(list, k)

\* The keys that the next n calls of Evict return.
Victims(p, n) == {p.list[i] : i \in Len(p.list) - n + 1 .. Len(p.list)}

\* What n successful calls of Evict leave behind.
DropBack(p, n) == [items |-> p.items \ Victims(p, n),
                   list  |-> SubSeq(p.list, 1, Len(p.list) - n)]

\* A mutated form of AfterGet: a hit does not count as a use.
AfterGetIgnored(p, k) == p

AfterGet(p, k) ==
    IF k \in p.items THEN [p EXCEPT !.list = MoveToFront(@, k)] ELSE p

\* A mutated form of RoomFor: no room is made at capacity.
RoomForNone(p, capacity) == p

\* OnSet drops the back of a full list before it admits a new key.
RoomFor(p, capacity) ==
    IF Cardinality(p.items) >= capacity /\ p.list # <<>>
    THEN DropBack(p, 1) ELSE p

\* A mutated form of AfterSet: a new key is not tracked.
AfterSetUntracked(p, k, capacity) ==
    IF k \in p.items THEN [p EXCEPT !.list = MoveToFront(@, k)]
    ELSE RoomFor(p, capacity)

AfterSet(p, k, capacity) ==
    IF k \in p.items THEN [p EXCEPT !.list = MoveToFront(@, k)]
    ELSE [items |-> RoomFor(p, capacity).items \cup {k},
          list  |-> <<k>> \o RoomFor(p, capacity).list]

\* A mutated form of AfterDelete: the key stays tracked.
AfterDeleteIgnored(p, k) == p

AfterDelete(p, k) ==
    IF k \in p.items
    THEN [items |-> p.items \ {k}, list |-> ListWithout(p.list, k)]
    ELSE p
=============================================================================
