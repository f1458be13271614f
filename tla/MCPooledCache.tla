--------------------------- MODULE MCPooledCache ---------------------------
(***************************************************************************)
(* Model values for PooledCache.  Clients, keys and data are interchange-  *)
(* able; pointers are not, for New chooses one of them.                    *)
(***************************************************************************)
EXTENDS PooledCache, TLC

\* A TTL that is refused and one that outlasts the run.
PoolDurations == {-1, 3}

PoolSymmetry == Permutations(Clients) \cup Permutations(Keys)
                                      \cup Permutations(Data)
=============================================================================
