---------------------------- MODULE MCMemoryStore ----------------------------
(***************************************************************************)
(* Model values for MemoryStore.                                           *)
(***************************************************************************)
EXTENDS MemoryStore

\* A TTL that the store raises to MinTTL and the one of entries that stay.
RaisedAndEndless == {-2, 0}
=============================================================================
