----------------------------- MODULE MCFileStore -----------------------------
(***************************************************************************)
(* FileStore alone, for the runs that end in a counterexample.             *)
(***************************************************************************)
EXTENDS FileStore
=============================================================================
