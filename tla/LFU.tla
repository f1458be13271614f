-------------------------------- MODULE LFU --------------------------------
(***************************************************************************)
(* policy.LFU: a binary heap of items ordered by access count, driven by   *)
(* container/heap.  Every item remembers its position (the index field),   *)
(* which Fix and Remove rely on.  Positions are 1-based here, so the       *)
(* parent of j is j \div 2.  h is the whole structure:                     *)
(*   h.items  the keys of the SafeMap      h.queue  the heap, as keys      *)
(*   h.count  entry.AccessCount            h.index  lfuItem.index          *)
(***************************************************************************)
EXTENDS SequencesExt

CONSTANTS
    Keys, Capacity, NoKey,
    MaxCount  \* bound on the access count of a key

VARIABLES
    h,        \* the SafeMap and the heap
    evicted   \* what the last call returned from Evict

vars == <<h, evicted>>

EmptyHeap == [items |-> {}, queue |-> <<>>,
              count |-> [k \in Keys |-> 0], index |-> [k \in Keys |-> 0]]

\* A mutated form of Less: the heap is turned upside down.
LessReversed(q, i, j) == q.count[q.queue[i]] > q.count[q.queue[j]]

Less(q, i, j) == q.count[q.queue[i]] < q.count[q.queue[j]]

\* A mutated form of Swap: the index fields are not exchanged.
SwapQueueOnly(q, i, j) ==
    [q EXCEPT !.queue[i] = q.queue[j], !.queue[j] = q.queue[i]]

Swap(q, i, j) ==
    [q EXCEPT !.queue[i] = q.queue[j], !.queue[j] = q.queue[i],
              !.index[q.queue[i]] = j, !.index[q.queue[j]] = i]

\* The child that down() compares with i in a heap of n elements.
SmallestChild(q, i, n) ==
    IF 2 * i + 1 <= n /\ Less(q, 2 * i + 1, 2 * i) THEN 2 * i + 1 ELSE 2 * i

\* Where the element at i has to go in up(), and in down() in a heap of n
\* elements: to its own place when the loop is over.
Above(q, i) ==
    IF i = 1 \/ ~Less(q, i, i \div 2) THEN i ELSE i \div 2

Below(q, i, n) ==
    IF 2 * i > n \/ ~Less(q, SmallestChild(q, i, n), i) THEN i
    ELSE SmallestChild(q, i, n)

\* One turn of the loop of up() or down(), which have come to s.at.
Turn(s, n, way) ==
    LET to == IF way = "up" THEN Above(s.heap, s.at)
              ELSE Below(s.heap, s.at, n)
    IN  IF to = s.at THEN s ELSE [heap |-> Swap(s.heap, s.at, to), at |-> to]

\* The loop is over after as many turns as there are elements, or earlier.
Loop(q, i, n, way) ==
    LET after[t \in Nat] ==
          IF t = 0 THEN [heap |-> q, at |-> i] ELSE Turn(after[t - 1], n, way)
    IN  after[Len(q.queue)]

Up(q, j) == Loop(q, j, 0, "up").heap

Down(q, i, n) == Loop(q, i, n, "down")

\* down() reports whether it moved anything; up() runs only if it did not.
Sift(q, i, n) ==
    IF Down(q, i, n).at > i THEN Down(q, i, n).heap ELSE Up(q, i)

Fix(q, i) == Sift(q, i, Len(q.queue))

Push(q, k) ==
    Up([q EXCEPT !.queue = Append(@, k), !.index[k] = Len(q.queue) + 1],
       Len(q.queue) + 1)

\* lfuQueue.Pop, and the SafeMap's Delete that follows each Pop: the last
\* element is dropped.
PopLast(q) ==
    LET k == Last(q.queue)
    IN  [q EXCEPT !.queue = Front(@), !.items = @ \ {k},
                  !.index[k] = 0, !.count[k] = 0]

\* heap.Remove, and heap.Pop for i = 1: the element trades places with the
\* last one, which is sifted within the rest.
HeapRemove(q, i) ==
    LET n == Len(q.queue)
    IN  PopLast(IF i = n THEN q ELSE Sift(Swap(q, i, n), i, n - 1))

-----------------------------------------------------------------------------
Init ==
    /\ h = EmptyHeap
    /\ evicted = NoKey

OnGet(k) ==
    /\ h.count[k] < MaxCount
    /\ h' = IF k \in h.items
            THEN Fix([h EXCEPT !.count[k] = @ + 1], h.index[k]) ELSE h
    /\ evicted' = NoKey

Full == Cardinality(h.items) >= Capacity /\ h.queue # <<>>

\* Setting a tracked key replaces its entry: the count starts again at 1.
OnSet(k) ==
    /\ h' = IF k \in h.items
            THEN Fix([h EXCEPT !.count[k] = 1], h.index[k])
            ELSE LET room == IF Full THEN HeapRemove(h, 1) ELSE h
                 IN  Push([room EXCEPT !.count[k] = 1,
                                       !.items = @ \cup {k}], k)
    /\ evicted' = NoKey

OnDelete(k) ==
    /\ h' = IF k \in h.items THEN HeapRemove(h, h.index[k]) ELSE h
    /\ evicted' = NoKey

OnClear ==
    /\ h' = EmptyHeap
    /\ evicted' = NoKey

\* A mutated form of Evict: it returns another key than it removes.
EvictReturnsLast ==
    /\ h.queue # <<>>
    /\ h' = HeapRemove(h, 1)
    /\ evicted' = Last(h.queue)

Evict ==
    /\ h.queue # <<>>
    /\ h' = HeapRemove(h, 1)
    /\ evicted' = h.queue[1]

EvictNothing ==
    /\ h.queue = <<>>
    /\ evicted' = NoKey
    /\ UNCHANGED h

Next ==
    \/ \E k \in Keys : OnGet(k) \/ OnSet(k) \/ OnDelete(k)
    \/ OnClear
    \/ Evict
    \/ EvictNothing

Spec == Init /\ [][Next]_vars

-----------------------------------------------------------------------------
\* Every tracked item's index is its position in the heap, and only tracked
\* items are in the heap: Fix and Remove work on the item they are meant for.
IndexCorrect ==
    /\ ToSet(h.queue) = h.items
    /\ Len(h.queue) = Cardinality(h.items)
    /\ \A k \in h.items : h.queue[h.index[k]] = k

\* No item is accessed less often than its parent in the heap.
HeapOrder == \A j \in 2 .. Len(h.queue) : ~Less(h, j, j \div 2)

\* A key dropped to make room has the smallest access count of all.
EvictsLeastFrequent ==
    [][(Evict \/ \E k \in Keys : OnSet(k)) =>
          \A v \in h.items \ h'.items, k \in h.items :
             h.count[v] <= h.count[k]]_vars

Abstract == INSTANCE EvictionPolicy WITH tracked <- h.items

\* LFU keeps the promises of the Policy interface.
ImplementsPolicy == Abstract!PolicySpec
=============================================================================
