----------------------------- MODULE MCFileBatch -----------------------------
(***************************************************************************)
(* The file store and one batch call side by side for TLC.  A behaviour    *)
(* uses one of them, the one that is chosen at its start.                  *)
(***************************************************************************)
EXTENDS Batch, Integers

CONSTANTS FileKeys, FileOps, Values, Clients, CleanupInterval, DiskMayFail,
          NoValue, Garbage, MaxTime, MaxCalls, MaxCrashes,
          MinTTL, MaxTTL, ZeroTTLMeansNoExpiry

\* A TTL that the file store refuses, and a short one.
RefusedAndShort == {-2, 1}

VARIABLES chosen, file, temp, op, calls, late, cleaner, stop, once, clock,
          lastCleanup, crashes, truth, shared

fileVars == <<file, temp, op, calls, late, cleaner, stop, once, clock,
              lastCleanup, crashes, truth, shared>>

\* With its theorems, for BatchProofs to cite.
F == INSTANCE FileStoreProofs WITH
        Keys <- FileKeys, Ops <- FileOps, Durations <- RefusedAndShort

ASSUME MCFileBatchAssumption ==
    /\ F!FileStoreConstants
    /\ MinTTL \in Nat /\ MaxTTL \in Nat /\ ZeroTTLMeansNoExpiry \in BOOLEAN

BothInit ==
    /\ chosen \in {"file", "batch"}
    /\ Init
    /\ F!Init
    /\ chosen = "file" => kind = "get" /\ cache = {}

BothNext ==
    /\ \/ chosen = "batch" /\ Next /\ UNCHANGED fileVars
       \/ chosen = "file" /\ F!Next /\ UNCHANGED vars
    /\ UNCHANGED chosen

\* Only the one that runs is treated fairly.
BothSpec ==
    /\ BothInit
    /\ [][BothNext]_<<chosen, vars, fileVars>>
    /\ \/ chosen = "batch" /\ Fairness
       \/ chosen = "file" /\ F!Fairness

\* Every variable of both has its type.
BothTypeOK == TypeOK /\ F!FileTypeOK

\* Every batch call returns and leaves no goroutine behind (Batch.Spawner).
BatchEnds == chosen = "batch" => NothingLeaks

\* The file of a key becomes wrong in three ways only: SetMany truncates it, a
\* Get's goroutine deletes it late, or Gets have shared its temporary file
\* (FileStore.Get, SetMany).  A crash loses no entry of a Set.
OnlyThreeLoseEntries == F!OnlyThreeLoseEntries

\* Every call of the file store returns, unless some GetMany waits for a lock
\* of its own (FileStore.GetMany).
FileCallsReturn == F!CallsReturn

\* Files that do not parse or have expired leave the directory in the end
\* (FileStore.SweepFiles).
LitterGoes == F!LitterGoes
=============================================================================
