------------------------------ MODULE MCCache ------------------------------
(***************************************************************************)
(* Model values for Cache.  Clients, keys and values are interchangeable.  *)
(***************************************************************************)
EXTENDS Cache, TLC

\* Every outcome of Validate: negative, accepted twice, too long.
AllDurations == {-1, 1, 2, 5}

Symmetry == Permutations(Clients) \cup Permutations(Keys)
                                  \cup Permutations(Values)
=============================================================================
