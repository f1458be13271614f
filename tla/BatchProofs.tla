---------------------------- MODULE BatchProofs ----------------------------
(***************************************************************************)
(* A batch call keeps to its limit on concurrency, reports success only    *)
(* when every key is done, and has no worker left when it answers, for     *)
(* every set of keys, every limit, and whatever the cache and the context  *)
(* do.                                                                     *)
(***************************************************************************)
EXTENDS MCFileBatch, FiniteSetTheorems, TLAPS

\* The keys that have been given a worker are those taken from todo.
Launched == \A k \in Keys : worker[k] = "none" <=> k \notin batch \ todo

\* How far the caller and the spawner can be.
Stages ==
    /\ caller = "idle" => batch = {}
    /\ kind # "delete" => spawner = "none"
    /\ caller = "launch" => kind # "delete"
    /\ caller = "wait" /\ kind # "delete" => todo = {}
    /\ spawner \in {"join", "done"} => todo = {}
    /\ spawner = "done" => AllJoined
    /\ result # "none" => caller = "returned"

\* In DeleteMany a token is out for every worker that runs.
Tokens ==
    kind = "delete" => sem = Cardinality(Running) /\ sem <= MaxConcurrent

\* What a worker of GetMany leaves behind.
GetOutcome(k) ==
    /\ worker[k] = "ok" <=> k \in arrived \cup got
    /\ worker[k] \in {"calling", "ok"} => k \in cache
    /\ worker[k] = "failed" => k \notin cache
    /\ worker[k] = "dropped" => ctxDone
    /\ worker[k] # "quit"

\* What a worker of SetMany leaves behind.
SetOutcome(k) ==
    /\ worker[k] = "ok" => k \in cache
    /\ worker[k] = "failed" => k \in errors
    /\ worker[k] = "quit" => ctxDone
    /\ worker[k] # "dropped"

\* What a worker of DeleteMany leaves behind.
DeleteOutcome(k) ==
    /\ worker[k] = "ok" => k \notin cache
    /\ worker[k] = "failed" => k \in errors
    /\ worker[k] \notin {"ready", "quit", "dropped"}

Outcomes ==
    \A k \in Keys : /\ kind = "get" => GetOutcome(k)
                    /\ kind = "set" => SetOutcome(k)
                    /\ kind = "delete" => DeleteOutcome(k)

\* What an answer says of the workers.
Answers ==
    /\ result \in {"ok", "batchError"} => todo = {} /\ AllJoined
    /\ result = "ok" /\ kind = "get" => arrived = {}
    /\ result = "ok" /\ kind # "get" =>
          errors = {} /\ \A k \in Keys : worker[k] # "quit"

\* The workers are all accounted for: SuccessIsComplete cannot be kept without
\* knowing what each of them leaves behind, nor ConcurrencyBound without
\* counting tokens.
BatchInv == TypeOK /\ Launched /\ Stages /\ Tokens /\ Outcomes /\ Answers

-----------------------------------------------------------------------------
LEMMA RunningFinite ==
    IsFiniteSet(Running) /\ Cardinality(Running) \in Nat
BY BatchAssumption, FS_Subset, FS_CardinalityType DEF Running

LEMMA NoneRunning == AllJoined <=> Running = {}
BY DEF AllJoined, Running

LEMMA InitInv == Init => BatchInv
<1> SUFFICES ASSUME Init PROVE BatchInv
  OBVIOUS
<1> USE DEF Init
<1>1. AllJoined
  BY DEF AllJoined, Finished
<1>2. TypeOK
  BY DEF TypeOK
<1>3. Tokens
  BY <1>1, NoneRunning, FS_EmptySet, BatchAssumption DEF Tokens
<1>4. Launched /\ Stages /\ Outcomes /\ Answers
  BY <1>1 DEF Launched, Stages, Outcomes, Answers, GetOutcome, SetOutcome,
              DeleteOutcome
<1> QED BY <1>2, <1>3, <1>4 DEF BatchInv

\* The caller's actions leave the workers alone.
LEMMA SameWorkers ==
    ASSUME worker' = worker
    PROVE  /\ AllJoined' <=> AllJoined
           /\ Running' = Running
BY DEF AllJoined, Running, Finished

LEMMA StartInv == ASSUME BatchInv, Refuse \/ Start PROVE BatchInv'
<1>1. CASE Refuse
  BY <1>1, SameWorkers
  DEF Refuse, Return, BatchInv, TypeOK, Launched, Stages, Tokens, Outcomes,
      Answers, GetOutcome, SetOutcome, DeleteOutcome
<1>2. CASE Start
  <2> USE <1>2 DEF Start, BatchInv
  <2>1. batch' \subseteq Keys
    BY DEF Limited
  <2>2. TypeOK'
    BY <2>1 DEF TypeOK
  <2>3. Launched'
    BY DEF Launched, Stages, TypeOK
  <2>4. Stages'
    BY SameWorkers DEF Stages
  <2>5. Tokens'
    BY SameWorkers DEF Tokens
  <2>6. Outcomes'
    BY DEF Outcomes, GetOutcome, SetOutcome, DeleteOutcome
  <2>7. Answers'
    BY DEF Answers, Stages
  <2> QED BY <2>2, <2>3, <2>4, <2>5, <2>6, <2>7
<1> QED BY <1>1, <1>2

LEMMA LaunchInv == ASSUME BatchInv, Launch PROVE BatchInv'
<1> USE DEF Launch, BatchInv, Return
<1>1. kind # "delete"
  BY DEF Stages
<1>2. TypeOK'
  BY DEF TypeOK
<1>3. Launched'
  BY DEF Launched, TypeOK
<1>4. Stages'
  BY <1>1 DEF Stages, TypeOK
<1>5. Tokens'
  BY <1>1 DEF Tokens
<1>6. Outcomes'
  BY <1>1 DEF Outcomes, GetOutcome, SetOutcome, DeleteOutcome, TypeOK, Launched
<1>7. Answers'
  BY DEF Answers, Stages, TypeOK
<1> QED BY <1>2, <1>3, <1>4, <1>5, <1>6, <1>7

LEMMA CollectInv ==
    ASSUME BatchInv, GetCollect \/ SetCollect \/ DeleteCollect
    PROVE  BatchInv'
<1> USE DEF GetCollect, SetCollect, DeleteCollect, BatchInv, Return, Outcome,
            Drained
<1>1. worker' = worker /\ (AllJoined' <=> AllJoined) /\ Running' = Running
  BY SameWorkers
<1>2. TypeOK'
  BY DEF TypeOK
<1>3. Launched' /\ Tokens'
  BY <1>1 DEF Launched, Tokens
<1>4. Stages'
  BY <1>1 DEF Stages
<1>5. Outcomes'
  BY DEF Outcomes, GetOutcome, SetOutcome, DeleteOutcome
<1>6. Answers'
  BY <1>1 DEF Answers, Stages, Outcomes, SetOutcome, DeleteOutcome, TypeOK
<1> QED BY <1>2, <1>3, <1>4, <1>5, <1>6

LEMMA SpawnerInv == ASSUME BatchInv, Spawner PROVE BatchInv'
<1>1. CASE SpawnerNext \/ SpawnerJoin
  <2> USE <1>1 DEF SpawnerNext, SpawnerJoin, BatchInv
  <2>1. worker' = worker /\ (AllJoined' <=> AllJoined) /\ Running' = Running
    BY SameWorkers
  <2>2. TypeOK' /\ Launched' /\ Tokens' /\ Answers'
    BY <2>1 DEF TypeOK, Launched, Tokens, Answers
  <2>3. Stages'
    BY <2>1 DEF Stages
  <2>4. Outcomes'
    BY DEF Outcomes, GetOutcome, SetOutcome, DeleteOutcome
  <2> QED BY <2>2, <2>3, <2>4
<1>2. CASE SpawnerAcquire
  <2> USE <1>2 DEF SpawnerAcquire, BatchInv
  <2>1. PICK k \in todo : /\ todo' = todo \ {k}
                          /\ worker' = [worker EXCEPT ![k] = "calling"]
    OBVIOUS
  <2>2. k \in Keys /\ worker[k] = "none"
    BY DEF TypeOK, Launched
  <2>3. kind = "delete"
    BY DEF Stages
  <2>4. TypeOK' /\ Launched'
    BY <2>1, <2>2 DEF TypeOK, Launched
  <2>5. Stages'
    BY <2>3 DEF Stages
  <2>6. Tokens'
    <3>1. k \notin Running /\ Running' = Running \cup {k}
      BY <2>1, <2>2 DEF Running, Finished, TypeOK
    <3>2. Cardinality(Running') = Cardinality(Running) + 1
      BY <3>1, RunningFinite, FS_AddElement
    <3> QED BY <3>2, <2>3, RunningFinite, BatchAssumption DEF Tokens
  <2>7. Outcomes'
    BY <2>1, <2>2, <2>3
    DEF Outcomes, GetOutcome, SetOutcome, DeleteOutcome, TypeOK
  <2>8. Answers'
    BY <2>1 DEF Answers, Stages
  <2> QED BY <2>4, <2>5, <2>6, <2>7, <2>8
<1> QED BY <1>1, <1>2 DEF Spawner

LEMMA GetWorkerInv ==
    ASSUME BatchInv, NEW k \in Keys, GetWorker(k) PROVE BatchInv'
<1> USE DEF GetWorker, BatchInv
<1>1. ~AllJoined /\ worker[k] # "none"
  BY DEF AllJoined, Finished
<1>2. TypeOK'
  BY DEF TypeOK
<1>3. Launched'
  BY <1>1 DEF Launched, TypeOK
<1>4. Stages' /\ Tokens' /\ Answers'
  BY <1>1 DEF Stages, Tokens, Answers
<1>5. Outcomes'
  BY DEF Outcomes, GetOutcome, TypeOK
<1> QED BY <1>2, <1>3, <1>4, <1>5

LEMMA CallInv ==
    ASSUME BatchInv, NEW k \in Keys, SetCheck(k) \/ CallWorker(k)
    PROVE  BatchInv'
<1> USE DEF SetCheck, CallWorker, CallSucceeds, CallFails, BatchInv
<1>1. ~AllJoined /\ worker[k] # "none"
  BY DEF AllJoined, Finished
<1>2. Tokens' /\ sem' \in Nat
  <2>1. CASE kind # "delete"
    BY <2>1 DEF Tokens, TypeOK
  <2>2. CASE kind = "delete"
    <3>1. k \in Running /\ Running' = Running \ {k}
      BY <2>2 DEF Running, Finished, TypeOK
    <3>2. /\ Cardinality(Running') = Cardinality(Running) - 1
          /\ Cardinality(Running') \in Nat
      BY <3>1, RunningFinite, FS_RemoveElement, FS_CardinalityType
    <3> QED BY <3>2, <2>2, RunningFinite, BatchAssumption DEF Tokens, TypeOK
  <2> QED BY <2>1, <2>2
<1>3. TypeOK'
  BY <1>2 DEF TypeOK
<1>4. Launched'
  BY <1>1 DEF Launched, TypeOK
<1>5. Stages' /\ Answers'
  BY <1>1 DEF Stages, Answers
<1>6. Outcomes'
  BY DEF Outcomes, GetOutcome, SetOutcome, DeleteOutcome, TypeOK
<1> QED BY <1>2, <1>3, <1>4, <1>5, <1>6

LEMMA NextInv == BatchInv /\ [Next]_vars => BatchInv'
<1> SUFFICES ASSUME BatchInv, [Next]_vars PROVE BatchInv'
  OBVIOUS
<1>1. CASE Caller
  BY <1>1, StartInv, LaunchInv, CollectInv DEF Caller
<1>2. CASE Spawner
  BY <1>2, SpawnerInv
<1>3. ASSUME NEW k \in Keys, Worker(k) PROVE BatchInv'
  BY <1>3, GetWorkerInv, CallInv DEF Worker
<1>4. CASE Cancel
  BY <1>4, SameWorkers
  DEF Cancel, BatchInv, TypeOK, Launched, Stages, Tokens, Outcomes, Answers,
      GetOutcome, SetOutcome, DeleteOutcome
<1>5. CASE Quiet \/ UNCHANGED vars
  BY <1>5, SameWorkers
  DEF Quiet, vars, BatchInv, TypeOK, Launched, Stages, Tokens, Outcomes,
      Answers, GetOutcome, SetOutcome, DeleteOutcome
<1> QED BY <1>1, <1>2, <1>3, <1>4, <1>5 DEF Next

LEMMA BatchInvHolds == Spec => []BatchInv
BY InitInv, NextInv, PTL DEF Spec

-----------------------------------------------------------------------------
\* Every variable has its type: in particular no token is given back that was
\* not taken.
THEOREM TypeCorrect == Spec => []TypeOK
BY BatchInvHolds, PTL DEF BatchInv

\* DeleteMany never has more than MaxConcurrent calls of the cache under way,
\* for every running worker holds one of that many tokens.
THEOREM ConcurrencyBoundHolds == Spec => []ConcurrencyBound
<1>1. BatchInv => ConcurrencyBound
  BY DEF BatchInv, Tokens, ConcurrencyBound
<1> QED BY <1>1, BatchInvHolds, PTL

\* No worker is left to send to a closed channel when the call has an answer.
THEOREM QuietAfterAnswerHolds == Spec => []QuietAfterAnswer
<1>1. BatchInv => QuietAfterAnswer
  BY NoneRunning DEF BatchInv, Answers, QuietAfterAnswer
<1> QED BY <1>1, BatchInvHolds, PTL

\* A batch call that reports success has done its work for every key.
THEOREM SuccessIsCompleteHolds == Spec => []SuccessIsComplete
<1>1. ASSUME BatchInv, result = "ok"
      PROVE  /\ batch \subseteq Keys
             /\ \A k \in batch : worker[k] # "none" /\ Finished(k)
             /\ \A k \in Keys \ batch : worker[k] = "none"
  BY <1>1 DEF BatchInv, TypeOK, Answers, AllJoined, Launched
<1>2. ASSUME BatchInv, result = "ok", kind = "get"
      PROVE  /\ got \subseteq batch \cap cache
             /\ ~ctxDone => got = batch \cap cache
  <2>1. arrived = {} /\ got \subseteq Keys
    BY <1>2 DEF BatchInv, TypeOK, Answers
  <2>2. \A k \in Keys : GetOutcome(k)
    BY <1>2 DEF BatchInv, Outcomes
  <2> QED BY <1>1, <1>2, <2>1, <2>2 DEF GetOutcome, Finished
<1>3. ASSUME BatchInv, result = "ok", kind = "set"
      PROVE  batch \subseteq cache /\ \A k \in batch : worker[k] = "ok"
  BY <1>1, <1>3
  DEF BatchInv, TypeOK, Answers, Outcomes, SetOutcome, Finished
<1>4. ASSUME BatchInv, result = "ok", kind = "delete"
      PROVE  batch \cap cache = {} /\ \A k \in batch : worker[k] = "ok"
  BY <1>1, <1>4
  DEF BatchInv, TypeOK, Answers, Outcomes, DeleteOutcome, Finished
<1>5. BatchInv => SuccessIsComplete
  BY <1>2, <1>3, <1>4, BatchAssumption
  DEF SuccessIsComplete, BatchInv, TypeOK
<1> QED BY <1>5, BatchInvHolds, PTL


-----------------------------------------------------------------------------
(***************************************************************************)
(* Side by side with the file store, as TLC checks them, each keeps what   *)
(* is proved of it alone.                                                  *)
(***************************************************************************)
LEMMA BothKeepToTheirSpecs == BothSpec => Spec /\ F!Spec
<1>1. BothInit => Init /\ F!Init
  BY DEF BothInit
<1>2. [BothNext]_<<chosen, vars, fileVars>> => [Next]_vars
  BY DEF BothNext
<1>3. [BothNext]_<<chosen, vars, fileVars>> => [F!Next]_(F!vars)
  BY DEF BothNext, fileVars, F!vars
<1> QED BY <1>1, <1>2, <1>3, PTL DEF BothSpec, Spec, F!Spec

\* The types of a batch call and of the file store, for every set of keys,
\* clients, values and TTLs, through failing calls, failing disks and crashes.
THEOREM BothTypeOKHolds == BothSpec => []BothTypeOK
<1>1. Spec => []TypeOK
  BY TypeCorrect
<1>2. F!Spec => []F!FileTypeOK
  BY F!TypeCorrect, MCFileBatchAssumption
<1>3. TypeOK /\ F!FileTypeOK => BothTypeOK
  BY DEF BothTypeOK
<1> QED BY <1>1, <1>2, <1>3, BothKeepToTheirSpecs, PTL

\* The file store loses what was stored in a file in three ways only (Get's
\* late Delete and shared temporary file, and SetMany).
THEOREM OnlyThreeLoseEntriesInFiles == BothSpec => OnlyThreeLoseEntries
<1>1. F!Spec => F!OnlyThreeLoseEntries
  BY F!OnlyThreeLoseEntriesHolds, MCFileBatchAssumption
<1> QED BY <1>1, BothKeepToTheirSpecs DEF OnlyThreeLoseEntries
=============================================================================
