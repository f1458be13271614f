--------------------------- MODULE EvictionPolicy ---------------------------
(***************************************************************************)
(* What the Policy interface promises to the cache, whatever the order in  *)
(* which an implementation chooses its victims: the policy tracks a set of *)
(* keys, makes room when it is full, and Evict hands out a tracked key     *)
(* once.  LRU, FIFO and LFU are shown to implement this specification.     *)
(***************************************************************************)
EXTENDS Naturals, FiniteSets

CONSTANTS
    Keys,      \* the keys of the cache
    Capacity,  \* Options.MaxSize, a natural number
    NoKey      \* what Evict returns when there is nothing to evict

VARIABLES
    tracked,  \* the keys the policy knows
    evicted   \* the key the last call returned from Evict, or NoKey

policyVars == <<tracked, evicted>>

PolicyInit == tracked = {} /\ evicted = NoKey

(***************************************************************************)
(* OnSet of a new key drops a tracked key first when the policy is full.   *)
(* A capacity of zero still admits one key: there is nothing to drop.      *)
(***************************************************************************)
Admit(k) ==
    /\ k \notin tracked
    /\ IF Cardinality(tracked) >= Capacity /\ tracked # {}
       THEN \E victim \in tracked : tracked' = (tracked \ {victim}) \cup {k}
       ELSE tracked' = tracked \cup {k}
    /\ evicted' = NoKey

\* OnGet of any key, OnSet of a tracked key, OnDelete of an unknown key.
Touch == tracked' = tracked /\ evicted' = NoKey

Forget(k) == k \in tracked /\ tracked' = tracked \ {k} /\ evicted' = NoKey

Reset == tracked' = {} /\ evicted' = NoKey

EvictSome(k) == k \in tracked /\ tracked' = tracked \ {k} /\ evicted' = k

EvictNothing == tracked = {} /\ UNCHANGED tracked /\ evicted' = NoKey

PolicyNext ==
    \/ \E k \in Keys : Admit(k) \/ Forget(k) \/ EvictSome(k)
    \/ Touch
    \/ Reset
    \/ EvictNothing

PolicySpec == PolicyInit /\ [][PolicyNext]_policyVars
=============================================================================
