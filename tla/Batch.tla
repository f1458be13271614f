-------------------------------- MODULE Batch --------------------------------
(***************************************************************************)
(* batch.go: one call of GetMany, SetMany or DeleteMany, which share the   *)
(* work out to a goroutine per key.  The caller waits for its workers and  *)
(* for its context at the same time; in DeleteMany a goroutine of its own  *)
(* (the spawner) starts the workers, no more than MaxConcurrent at once.   *)
(* The underlying cache is the set of keys it holds; its calls may fail.   *)
(*                                                                         *)
(* GetMany's context also ends by OperationTimeout, the others' only when  *)
(* its owner cancels it.                                                   *)
(***************************************************************************)
EXTENDS Naturals, FiniteSets

CONSTANTS
    Keys,           \* the keys a caller may ask for
    Ops,            \* the kinds of call: "get", "set", "delete"
    MaxBatchSize,   \* BatchConfig.MaxBatchSize
    MaxConcurrent,  \* BatchConfig.MaxConcurrent, DeleteMany's alone
    CacheMayFail,   \* Set and Delete of the cache may return errors
    MayCancel       \* the context may be cancelled or time out

ASSUME BatchAssumption ==
    /\ IsFiniteSet(Keys)
    /\ Ops \subseteq {"get", "set", "delete"}
    /\ MaxBatchSize \in Nat
    /\ MaxConcurrent \in Nat
    /\ {CacheMayFail, MayCancel} \subseteq BOOLEAN

VARIABLES
    caller,   \* where the caller stands
    kind,     \* which call it makes
    batch,    \* the keys the call works on
    todo,     \* those it has no worker for yet
    spawner,  \* DeleteMany's goroutine that starts the workers
    worker,   \* [Keys -> where the key's goroutine stands]
    sem,      \* tokens in DeleteMany's semaphore
    errors,   \* keys with an error in errChan
    arrived,  \* keys in GetMany's results channel
    got,      \* keys of GetMany's result
    ctxDone,  \* the context is done
    cache,    \* the keys that the cache holds
    result    \* what the call returned

vars == <<caller, kind, batch, todo, spawner, worker, sem, errors, arrived,
          got, ctxDone, cache, result>>

Finished(k) == worker[k] \in {"none", "ok", "failed", "dropped", "quit"}

\* wg.Wait() returns.
AllJoined == \A k \in Keys : Finished(k)

-----------------------------------------------------------------------------
Init ==
    /\ caller = "idle"
    /\ kind \in Ops
    /\ batch = {} /\ todo = {}
    /\ spawner = "none"
    /\ worker = [k \in Keys |-> "none"]
    /\ sem = 0
    /\ errors = {} /\ arrived = {} /\ got = {}
    /\ ctxDone = FALSE
    /\ cache \in SUBSET Keys
    /\ result = "none"

Lesser(a, b) == IF a < b THEN a ELSE b

\* A batch that is too long is cut short: a list after MaxBatchSize keys, a
\* map after any MaxBatchSize of its keys.
Limited(given) ==
    {ks \in SUBSET given :
        Cardinality(ks) = Lesser(MaxBatchSize, Cardinality(given))}

Return(r) == caller' = "returned" /\ result' = r

\* SetMany validates its TTL before it looks at the entries.
Refuse ==
    /\ caller = "idle" /\ kind = "set"
    /\ Return("invalidTTL")
    /\ UNCHANGED <<kind, batch, todo, spawner, worker, sem, errors, arrived,
                   got, ctxDone, cache>>

Start ==
    /\ caller = "idle"
    /\ \E given \in SUBSET Keys : batch' \in Limited(given)
    /\ todo' = batch'
    /\ caller' = IF kind = "delete" THEN "wait" ELSE "launch"
    /\ spawner' = IF kind = "delete" THEN "loop" ELSE "none"
    /\ UNCHANGED <<kind, worker, sem, errors, arrived, got, ctxDone, cache,
                   result>>

-----------------------------------------------------------------------------
(***************************************************************************)
(* GetMany and SetMany start their workers themselves, unless the context  *)
(* is done.                                                                *)
(***************************************************************************)
Launch ==
    /\ caller = "launch"
    /\ \/ /\ ctxDone /\ todo # {}
          /\ Return("cancelled")
          /\ UNCHANGED <<todo, worker>>
       \/ /\ ~ctxDone
          /\ \E k \in todo :
                /\ todo' = todo \ {k}
                /\ worker' = [worker EXCEPT ![k] = "ready"]
          /\ UNCHANGED <<caller, result>>
       \/ /\ todo = {}
          /\ caller' = "wait"
          /\ UNCHANGED <<todo, worker, result>>
    /\ UNCHANGED <<kind, batch, spawner, sem, errors, arrived, got, ctxDone,
                   cache>>

\* A worker of GetMany: Get, and the value sent unless the context is done
\* first.  A key that is not found sends nothing.
GetWorker(k) ==
    /\ kind = "get"
    /\ \/ /\ worker[k] = "ready"
          /\ worker' = [worker EXCEPT ![k] =
                          IF k \in cache THEN "calling" ELSE "failed"]
          /\ UNCHANGED arrived
       \/ /\ worker[k] = "calling"
          /\ worker' = [worker EXCEPT ![k] = "ok"]
          /\ arrived' = arrived \cup {k}
       \/ /\ worker[k] = "calling" /\ ctxDone
          /\ worker' = [worker EXCEPT ![k] = "dropped"]
          /\ UNCHANGED arrived
    /\ UNCHANGED <<caller, kind, batch, todo, spawner, sem, errors, got,
                   ctxDone, cache, result>>

\* The results channel is closed, and empty.
Drained == AllJoined /\ arrived = {}

\* The caller takes what is there, the end of the context included, in any
\* order.
GetCollect ==
    /\ kind = "get" /\ caller = "wait"
    /\ \/ /\ ctxDone
          /\ Return("cancelled")
          /\ UNCHANGED <<arrived, got>>
       \/ /\ \E k \in arrived :
                arrived' = arrived \ {k} /\ got' = got \cup {k}
          /\ UNCHANGED <<caller, result>>
       \/ /\ Drained
          /\ Return("ok")
          /\ UNCHANGED <<arrived, got>>
    /\ UNCHANGED <<kind, batch, todo, spawner, worker, sem, errors, ctxDone,
                   cache>>

-----------------------------------------------------------------------------
(***************************************************************************)
(* The workers of SetMany and DeleteMany.  The cache looks at the context  *)
(* before it takes its lock: the call may still succeed when the context   *)
(* is done by now.                                                         *)
(***************************************************************************)
SetCheck(k) ==
    /\ kind = "set" /\ worker[k] = "ready"
    /\ worker' = [worker EXCEPT ![k] = IF ctxDone THEN "quit" ELSE "calling"]
    /\ UNCHANGED <<caller, kind, batch, todo, spawner, sem, errors, arrived,
                   got, ctxDone, cache, result>>

\* A mutated form of CallFails: the error is not sent to errChan.
CallFailsSilently(k) ==
    /\ CacheMayFail \/ ctxDone
    /\ worker' = [worker EXCEPT ![k] = "failed"]
    /\ UNCHANGED <<errors, cache>>

CallFails(k) ==
    /\ CacheMayFail \/ ctxDone
    /\ worker' = [worker EXCEPT ![k] = "failed"]
    /\ errors' = errors \cup {k}
    /\ UNCHANGED cache

CallSucceeds(k) ==
    /\ worker' = [worker EXCEPT ![k] = "ok"]
    /\ cache' = IF kind = "set" THEN cache \cup {k} ELSE cache \ {k}
    /\ UNCHANGED errors

\* A mutated form of CallWorker: a worker keeps its token.
CallWorkerKeepsToken(k) ==
    /\ kind \in {"set", "delete"} /\ worker[k] = "calling"
    /\ CallSucceeds(k) \/ CallFails(k)
    /\ UNCHANGED <<caller, kind, batch, todo, spawner, sem, arrived, got,
                   ctxDone, result>>

\* A mutated form of CallWorker: workers of SetMany, which have no token,
\* give one back too.
CallWorkerReleases(k) ==
    /\ kind \in {"set", "delete"} /\ worker[k] = "calling"
    /\ CallSucceeds(k) \/ CallFails(k)
    /\ sem' = sem - 1
    /\ UNCHANGED <<caller, kind, batch, todo, spawner, arrived, got, ctxDone,
                   result>>

\* A worker of DeleteMany gives its token back before it is done.
CallWorker(k) ==
    /\ kind \in {"set", "delete"} /\ worker[k] = "calling"
    /\ CallSucceeds(k) \/ CallFails(k)
    /\ sem' = IF kind = "delete" THEN sem - 1 ELSE sem
    /\ UNCHANGED <<caller, kind, batch, todo, spawner, arrived, got, ctxDone,
                   result>>

Outcome == IF errors = {} THEN "ok" ELSE "batchError"

SetCollect ==
    /\ kind = "set" /\ caller = "wait"
    /\ AllJoined
    /\ Return(IF ctxDone THEN "cancelled" ELSE Outcome)
    /\ UNCHANGED <<kind, batch, todo, spawner, worker, sem, errors, arrived,
                   got, ctxDone, cache>>

-----------------------------------------------------------------------------
(***************************************************************************)
(* DeleteMany's spawner, and its caller, which waits for it or for the end *)
(* of the context.                                                         *)
(***************************************************************************)
SpawnerNext ==
    /\ spawner = "loop"
    /\ spawner' = CASE todo = {} -> "join"
                    [] todo # {} /\ ctxDone -> "quit"
                    [] OTHER -> "acquire"
    /\ UNCHANGED <<caller, kind, batch, todo, worker, sem, errors, arrived,
                   got, ctxDone, cache, result>>

\* A mutated form of SpawnerAcquire: the worker starts without a token.
SpawnerAcquireFreely ==
    /\ spawner = "acquire"
    /\ sem' = sem + 1
    /\ \E k \in todo :
          /\ todo' = todo \ {k}
          /\ worker' = [worker EXCEPT ![k] = "calling"]
    /\ spawner' = "loop"
    /\ UNCHANGED <<caller, kind, batch, errors, arrived, got, ctxDone, cache,
                   result>>

\* A token is waited for without a look at the context.
SpawnerAcquire ==
    /\ spawner = "acquire"
    /\ sem < MaxConcurrent
    /\ sem' = sem + 1
    /\ \E k \in todo :
          /\ todo' = todo \ {k}
          /\ worker' = [worker EXCEPT ![k] = "calling"]
    /\ spawner' = "loop"
    /\ UNCHANGED <<caller, kind, batch, errors, arrived, got, ctxDone, cache,
                   result>>

\* A mutated form of SpawnerJoin: it does not wait for the workers.
SpawnerJoinAtOnce ==
    /\ spawner = "join"
    /\ spawner' = "done"
    /\ UNCHANGED <<caller, kind, batch, todo, worker, sem, errors, arrived,
                   got, ctxDone, cache, result>>

\* done and errChan are closed once every worker has ended.
SpawnerJoin ==
    /\ spawner = "join"
    /\ AllJoined
    /\ spawner' = "done"
    /\ UNCHANGED <<caller, kind, batch, todo, worker, sem, errors, arrived,
                   got, ctxDone, cache, result>>

\* If both have happened, select picks either.
DeleteCollect ==
    /\ kind = "delete" /\ caller = "wait"
    /\ \/ spawner = "done" /\ Return(Outcome)
       \/ ctxDone /\ Return("cancelled")
    /\ UNCHANGED <<kind, batch, todo, spawner, worker, sem, errors, arrived,
                   got, ctxDone, cache>>

-----------------------------------------------------------------------------
Cancel ==
    /\ MayCancel /\ ~ctxDone
    /\ ctxDone' = TRUE
    /\ UNCHANGED <<caller, kind, batch, todo, spawner, worker, sem, errors,
                   arrived, got, cache, result>>

Caller == Refuse \/ Start \/ Launch \/ GetCollect \/ SetCollect \/ DeleteCollect

Spawner == SpawnerNext \/ SpawnerAcquire \/ SpawnerJoin

Worker(k) == GetWorker(k) \/ SetCheck(k) \/ CallWorker(k)

\* The call has returned and its goroutines have ended.
Quiet ==
    /\ caller = "returned" /\ AllJoined /\ spawner \in {"none", "quit", "done"}
    /\ UNCHANGED vars

Next ==
    \/ Caller
    \/ Spawner
    \/ \E k \in Keys : Worker(k)
    \/ Cancel
    \/ Quiet

Spec == Init /\ [][Next]_vars

\* Every goroutine that can take a step does; nobody has to cancel.
Fairness ==
    /\ WF_vars(Caller)
    /\ WF_vars(Spawner)
    /\ \A k \in Keys : WF_vars(Worker(k))

LiveSpec == Spec /\ Fairness

-----------------------------------------------------------------------------
TypeOK ==
    /\ caller \in {"idle", "launch", "wait", "returned"}
    /\ kind \in Ops
    /\ todo \subseteq batch /\ batch \subseteq Keys
    /\ spawner \in {"none", "loop", "acquire", "join", "done", "quit"}
    /\ worker \in [Keys -> {"none", "ready", "calling", "ok", "failed",
                            "dropped", "quit"}]
    /\ sem \in Nat
    /\ errors \subseteq Keys /\ arrived \subseteq Keys /\ got \subseteq Keys
    /\ ctxDone \in BOOLEAN
    /\ cache \subseteq Keys
    /\ result \in {"none", "ok", "batchError", "cancelled", "invalidTTL"}

Running == {k \in Keys : ~Finished(k)}

\* DeleteMany never has more than MaxConcurrent calls of the cache under way.
ConcurrencyBound == kind = "delete" => Cardinality(Running) <= MaxConcurrent

\* A batch that reports success is done for every key: no worker failed, and
\* every key is set, deleted, or looked up with its value in the result if
\* the cache has it.  GetMany has no error to report: what it returns is all
\* there is only if its context has not ended (a worker may drop its value
\* and the caller still find the channel closed before it looks at the
\* context).
SuccessIsComplete ==
    result = "ok" =>
        CASE kind = "get"    -> /\ got \subseteq batch \cap cache
                                /\ ~ctxDone => got = batch \cap cache
          [] kind = "set"    -> /\ batch \subseteq cache
                                /\ \A k \in batch : worker[k] = "ok"
          [] kind = "delete" -> /\ batch \cap cache = {}
                                /\ \A k \in batch : worker[k] = "ok"

\* Once the caller has an answer other than "cancelled", none of the workers
\* is still running: none sends to a channel that is closed, and the cache
\* does not change behind the caller's back.
QuietAfterAnswer == result \in {"ok", "batchError"} => Running = {}

\* Every call returns, whether or not its context ever ends, and no goroutine
\* outlives it for ever.
NothingLeaks ==
    <>[](/\ caller = "returned"
         /\ Running = {} /\ spawner \in {"none", "quit", "done"})
=============================================================================
