------------------------------ MODULE Policies ------------------------------
(***************************************************************************)
(* The three policies next to each other, each with variables of its own:  *)
(* LRU as it is, FIFO as F and LFU as U.  What FIFO and LFU promise is     *)
(* stated here, for the runs of MCPolicies and for the theorems of         *)
(* PolicyProofs alike.                                                     *)
(***************************************************************************)
EXTENDS LRU

CONSTANT MaxCount  \* bound on the access count of a key under LFU

ASSUME MaxCountAssumption == MaxCount \in Nat \ {0}

VARIABLES fifo, fifoEvicted, admitted, heap, heapEvicted

F == INSTANCE FIFO WITH p <- fifo, evicted <- fifoEvicted, since <- admitted

U == INSTANCE LFU WITH h <- heap, evicted <- heapEvicted

\* The FIFO map and list hold the same keys, each once, and the list is in
\* the order of admission, whatever Gets and re-Sets come in between.
FIFOInv == F!TypeOK /\ F!Consistent /\ F!AdmissionOrder

\* Whatever FIFO drops to make room, every other tracked key was admitted
\* after it (FIFO.OnSet and FIFO.Evict).
FIFOEvictsOldest == F!EvictsOldest

\* FIFO keeps the promises of the Policy interface.
FIFOImplementsPolicy == F!ImplementsPolicy

\* Every LFU item's index is its position in the heap and the heap is in
\* order, after any Fix, Push, Pop or Remove.
LFUInv == U!IndexCorrect /\ U!HeapOrder

\* Whatever LFU drops to make room, no tracked key has a smaller access
\* count (LFU.OnSet and LFU.Evict).
LFUEvictsLeastFrequent == U!EvictsLeastFrequent

\* LFU keeps the promises of the Policy interface.
LFUImplementsPolicy == U!ImplementsPolicy
=============================================================================
