----------------------------- MODULE MCPolicies -----------------------------
(***************************************************************************)
(* The three policies side by side for TLC.  A behaviour uses one of them, *)
(* the one that is chosen at its start; the others stay as they were made. *)
(***************************************************************************)
EXTENDS Policies

CONSTANT Alike  \* the keys that Symmetry may exchange

ASSUME AlikeAssumption == Alike \subseteq Keys

VARIABLE chosen

fifoVars == <<fifo, fifoEvicted, admitted>>
lfuVars == <<heap, heapEvicted>>

PoliciesInit ==
    /\ chosen \in {"LRU", "FIFO", "LFU"}
    /\ Init
    /\ F!Init
    /\ U!Init

PoliciesNext ==
    /\ \/ chosen = "LRU" /\ Next /\ UNCHANGED <<fifoVars, lfuVars>>
       \/ chosen = "FIFO" /\ F!Next /\ UNCHANGED <<vars, lfuVars>>
       \/ chosen = "LFU" /\ U!Next /\ UNCHANGED <<vars, fifoVars>>
    /\ UNCHANGED chosen

PoliciesSpec ==
    PoliciesInit /\ [][PoliciesNext]_<<chosen, vars, fifoVars, lfuVars>>

Symmetry == Permutations(Alike)
=============================================================================
