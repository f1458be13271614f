----------------------------- MODULE MemoryStore -----------------------------
(***************************************************************************)
(* store/memory.go: the in-memory store, used by several goroutines at     *)
(* once beside its own cleanup goroutine.  Set, SetMany, Delete and Clear  *)
(* hold the lock from end to end and are one action each; Get gives it up  *)
(* between finding an entry and removing it, and GetMany and DeleteMany    *)
(* are a Get or a Delete per key.                                          *)
(*                                                                         *)
(* A value is known by what calculateMemoryUsage makes of its entry: the   *)
(* value 2 costs 2.  NewMemoryStore refuses a configuration in which a TTL *)
(* of zero is invalid, and a memory limit switches memory tracking on.  A  *)
(* context may end whenever it is looked at; a call that finds it done at  *)
(* its start changes nothing and is left out.                              *)
(***************************************************************************)
EXTENDS TTL, FiniteSets

CONSTANTS
    Keys,         \* the keys clients use
    Values,       \* the values they set, positive numbers
    Durations,    \* the TTLs they pass, unchecked by the store
    Clients,      \* the goroutines that call the store
    Ops,          \* the kinds of call they make
    MaxSize,      \* Options.MaxSize
    MaxMemory,    \* Options.MaxMemory; 0 is unlimited
    TrackMemory,  \* Options.EnableMemoryTracking
    NoValue,      \* no value
    MaxTime,      \* bound: the last instant
    MaxCalls      \* bound: calls of all clients together

ASSUME MemoryStoreAssumption ==
    /\ IsFiniteSet(Keys)
    /\ Values \subseteq Nat \ {0}
    /\ NoValue \notin Values
    /\ Durations \subseteq Int
    /\ MaxSize \in Nat \ {0}
    /\ MaxMemory \in Nat
    /\ TrackMemory \in BOOLEAN
    /\ MaxMemory > 0 => TrackMemory
    /\ ZeroTTLMeansNoExpiry
    /\ MaxTime \in Nat \ {0}
    /\ MaxCalls \in Nat

VARIABLES
    items,        \* [Keys -> Entries \cup {NoEntry}]
    memoryUsage,  \* m.memoryUsage
    stopped,      \* m.stop is closed
    ctxDone,      \* the context given to NewMemoryStore is done
    cleaner,      \* the cleanup goroutine: "running" or "done"
    clock,        \* time.Now()
    op,           \* [Clients -> the call in progress and where it stands]
    calls,        \* calls left
    truth         \* history: the entry a key should have

storeVars == <<items, memoryUsage>>
clientVars == <<op, calls>>
vars == <<items, memoryUsage, stopped, ctxDone, cleaner, clock, op, calls,
          truth>>

Entries == [value : Values, expires : Nat]
NoEntry == [value |-> NoValue, expires |-> 0]
NoItems == [k \in Keys |-> NoEntry]

Present(its) == {k \in Keys : its[k] # NoEntry}

\* calculateMemoryUsage of an entry.
Cost(e) == IF e = NoEntry THEN 0 ELSE e.value

\* The memory that the entries take, each unit told from the others by its key
\* and a number.
Units(its) == UNION {{k} \X (1 .. Cost(its[k])) : k \in Keys}

Used(its) == Cardinality(Units(its))

Expired(e) == e # NoEntry /\ IsExpired(e.expires, clock)

Without(its, ks) == [k \in Keys |-> IF k \in ks THEN NoEntry ELSE its[k]]

Idle == [pc |-> "idle"]

-----------------------------------------------------------------------------
Init ==
    /\ items = NoItems
    /\ memoryUsage = 0
    /\ stopped = FALSE
    /\ ctxDone = FALSE
    /\ cleaner = "running"
    /\ clock = 1
    /\ op = [c \in Clients |-> Idle]
    /\ calls = MaxCalls
    /\ truth = NoItems

MayCall(c, kind) == kind \in Ops /\ op[c] = Idle /\ calls > 0

\* A call that takes one step.
Whole(c, kind) ==
    /\ MayCall(c, kind)
    /\ calls' = calls - 1
    /\ UNCHANGED op

Enter(c, kind, o) ==
    /\ MayCall(c, kind)
    /\ calls' = calls - 1
    /\ op' = [op EXCEPT ![c] = o]

Continue(c, o) ==
    /\ op' = [op EXCEPT ![c] = o]
    /\ UNCHANGED calls

Return(c) == Continue(c, Idle)

-----------------------------------------------------------------------------
(***************************************************************************)
(* Get and GetMany: a lookup under the read lock, the test of the entry    *)
(* that was found without it, the removal of an expired key under the      *)
(* write lock.  A Get is a GetMany of one key.                             *)
(***************************************************************************)
GetBegin(c) ==
    /\ \/ \E k \in Keys :
             Enter(c, "get", [pc |-> "getNext", many |-> FALSE, rest |-> {k}])
       \/ \E ks \in SUBSET Keys :
             Enter(c, "getMany", [pc |-> "getNext", many |-> TRUE, rest |-> ks])
    /\ UNCHANGED <<storeVars, stopped, ctxDone, cleaner, clock, truth>>

GetLookup(c) ==
    /\ op[c].pc = "getNext"
    /\ \E k \in op[c].rest :
          Continue(c, IF items[k] = NoEntry
                      THEN [op[c] EXCEPT !.rest = @ \ {k}]
                      ELSE [pc |-> "getCheck", many |-> op[c].many,
                            rest |-> op[c].rest \ {k},
                            key |-> k, entry |-> items[k]])
    /\ UNCHANGED <<storeVars, stopped, ctxDone, cleaner, clock, truth>>

\* The entry is not looked at again, nor is memoryUsage reduced.
GetCheck(c) ==
    /\ op[c].pc = "getCheck"
    /\ items' = IF Expired(op[c].entry) THEN Without(items, {op[c].key})
                ELSE items
    /\ Continue(c, [pc |-> "getNext", many |-> op[c].many,
                    rest |-> op[c].rest])
    /\ UNCHANGED <<memoryUsage, stopped, ctxDone, cleaner, clock, truth>>

\* Only GetMany looks at its context.
GetReturn(c) ==
    /\ op[c].pc = "getNext"
    /\ op[c].rest = {} \/ op[c].many
    /\ Return(c)
    /\ UNCHANGED <<storeVars, stopped, ctxDone, cleaner, clock, truth>>

-----------------------------------------------------------------------------
(***************************************************************************)
(* Set and SetMany.  A Set counts the new entry on top of everything the   *)
(* store holds, the old entry of the key included; SetMany counts only the *)
(* entries of keys that are new.                                           *)
(***************************************************************************)
NewEntry(v, d) ==
    [value |-> v, expires |-> GetExpirationTime(Normalize(d), clock)]

\* The items once the entries es (keyed by their keys) are stored.
Stored(its, es) ==
    [k \in Keys |-> IF k \in DOMAIN es THEN es[k] ELSE its[k]]

\* memoryUsage once es is stored: each old entry is taken off, each new one
\* put on.
UsageWith(es) ==
    IF TrackMemory
    THEN memoryUsage + Used(Stored(items, es)) - Used(items)
    ELSE memoryUsage

\* A mutated form of FitsSize: the keys are counted one by one.
FitsSizeEach(ks) == \A k \in ks :
    k \notin Present(items) => Cardinality(Present(items)) < MaxSize

FitsSize(ks) == ks \subseteq Present(items)
                \/ Cardinality(Present(items) \cup ks) <= MaxSize

\* A mutated form of FitsMemory: what the store holds is not counted.
FitsMemoryAlone(es) ==
    TrackMemory /\ MaxMemory > 0 => Used(Stored(NoItems, es)) <= MaxMemory

FitsMemory(es) ==
    TrackMemory /\ MaxMemory > 0 =>
        memoryUsage + Used(Stored(NoItems, es)) <= MaxMemory

\* new are the entries that are counted, es those that are stored.
Store(new, es) ==
    IF FitsSize(DOMAIN es) /\ FitsMemory(new)
    THEN /\ items' = Stored(items, es)
         /\ memoryUsage' = UsageWith(es)
         /\ truth' = Stored(truth, es)
    ELSE UNCHANGED <<storeVars, truth>>

Set(c) ==
    /\ Whole(c, "set")
    /\ \E k \in Keys, v \in Values, d \in Durations :
          LET es == [j \in {k} |-> NewEntry(v, d)] IN Store(es, es)
    /\ UNCHANGED <<stopped, ctxDone, cleaner, clock>>

SetMany(c) ==
    /\ Whole(c, "setMany")
    /\ \E ks \in SUBSET Keys, d \in Durations : \E f \in [ks -> Values] :
          LET es == [k \in ks |-> NewEntry(f[k], d)]
          IN  Store([k \in ks \ Present(items) |-> es[k]], es)
    /\ UNCHANGED <<stopped, ctxDone, cleaner, clock>>

-----------------------------------------------------------------------------
(***************************************************************************)
(* Delete, DeleteMany, Clear and Close.                                    *)
(***************************************************************************)
\* A mutated form of Remove: only the account is changed.
RemoveUsageOnly(k) ==
    /\ memoryUsage' = IF TrackMemory THEN memoryUsage - Cost(items[k])
                      ELSE memoryUsage
    /\ truth' = Without(truth, {k})
    /\ UNCHANGED items

Remove(k) ==
    /\ items' = Without(items, {k})
    /\ memoryUsage' = IF TrackMemory THEN memoryUsage - Cost(items[k])
                      ELSE memoryUsage
    /\ truth' = Without(truth, {k})

Delete(c) ==
    /\ Whole(c, "delete")
    /\ \E k \in Keys : Remove(k)
    /\ UNCHANGED <<stopped, ctxDone, cleaner, clock>>

DeleteManyBegin(c) ==
    /\ \E ks \in SUBSET Keys :
          Enter(c, "deleteMany", [pc |-> "deleteNext", rest |-> ks])
    /\ UNCHANGED <<storeVars, stopped, ctxDone, cleaner, clock, truth>>

\* It returns when all keys are done, or with its context.
DeleteManyNext(c) ==
    /\ op[c].pc = "deleteNext"
    /\ \/ Return(c)
       \/ \E k \in op[c].rest :
             Continue(c, [pc |-> "deleteOne", key |-> k,
                          rest |-> op[c].rest \ {k}])
    /\ UNCHANGED <<storeVars, stopped, ctxDone, cleaner, clock, truth>>

\* DeleteMany drops the error of the Delete it calls, whose context may have
\* been cancelled since DeleteMany looked at it.
DeleteManyOne(c) ==
    /\ op[c].pc = "deleteOne"
    /\ Remove(op[c].key) \/ UNCHANGED <<storeVars, truth>>
    /\ Continue(c, [pc |-> "deleteNext", rest |-> op[c].rest])
    /\ UNCHANGED <<stopped, ctxDone, cleaner, clock>>

Clear(c) ==
    /\ Whole(c, "clear")
    /\ items' = NoItems
    /\ memoryUsage' = IF TrackMemory THEN 0 ELSE memoryUsage
    /\ truth' = NoItems
    /\ UNCHANGED <<stopped, ctxDone, cleaner, clock>>

\* Closing a closed channel panics: a second Close is a bug of the caller.
Close(c) ==
    /\ Whole(c, "close")
    /\ stopped' = TRUE
    /\ UNCHANGED <<storeVars, ctxDone, cleaner, clock, truth>>

-----------------------------------------------------------------------------
(***************************************************************************)
(* The cleanup goroutine removes what has expired at every tick until the  *)
(* store is closed or its context is done.  ForceCleanup is a tick that a  *)
(* caller asks for.  Neither reduces memoryUsage.                          *)
(***************************************************************************)
\* A mutated form of CleanupExpired: entries of the present instant go too,
\* those that never expire among them.
CleanupExpiredEarly ==
    items' = Without(items, {k \in Present(items) :
                                ~(items[k].expires > clock)})

\* A mutated form of CleanupExpired: the loop removes nothing.
CleanupExpiredNothing == UNCHANGED items

CleanupExpired == items' = Without(items, {k \in Keys : Expired(items[k])})

CleanerTick ==
    /\ cleaner = "running"
    /\ CleanupExpired
    /\ UNCHANGED <<memoryUsage, stopped, ctxDone, cleaner, clock, clientVars,
                   truth>>

ForceCleanup(c) ==
    /\ Whole(c, "cleanup")
    /\ CleanupExpired
    /\ UNCHANGED <<memoryUsage, stopped, ctxDone, cleaner, clock, truth>>

\* A mutated form of CleanerStop: the context is not listened to.
CleanerStopOnClose ==
    /\ cleaner = "running"
    /\ stopped
    /\ cleaner' = "done"
    /\ UNCHANGED <<storeVars, stopped, ctxDone, clock, clientVars, truth>>

CleanerStop ==
    /\ cleaner = "running"
    /\ stopped \/ ctxDone
    /\ cleaner' = "done"
    /\ UNCHANGED <<storeVars, stopped, ctxDone, clock, clientVars, truth>>

\* A client cancels the context that the store was created with.
CtxDone(c) ==
    /\ Whole(c, "ctx")
    /\ ctxDone' = TRUE
    /\ UNCHANGED <<storeVars, stopped, cleaner, clock, truth>>

TimePasses ==
    /\ clock < MaxTime
    /\ clock' = clock + 1
    /\ UNCHANGED <<storeVars, stopped, ctxDone, cleaner, clientVars, truth>>

Begin(c) ==
    \/ GetBegin(c) \/ Set(c) \/ SetMany(c)
    \/ Delete(c) \/ DeleteManyBegin(c) \/ Clear(c)
    \/ Close(c) \/ CtxDone(c) \/ ForceCleanup(c)

Proceed(c) ==
    \/ GetLookup(c) \/ GetCheck(c) \/ GetReturn(c)
    \/ DeleteManyNext(c) \/ DeleteManyOne(c)

\* Every call has been made and has returned: the model may stop here.
Finished ==
    /\ calls = 0 /\ \A c \in Clients : op[c] = Idle
    /\ UNCHANGED vars

Next ==
    \/ \E c \in Clients : Begin(c) \/ Proceed(c)
    \/ CleanerTick
    \/ CleanerStop
    \/ TimePasses
    \/ Finished

Spec == Init /\ [][Next]_vars

\* A running goroutine runs on; select picks at random between a tick and a
\* channel that is closed: strong fairness.
Fairness ==
    /\ \A c \in Clients : WF_vars(Proceed(c))
    /\ WF_vars(CleanerTick)
    /\ SF_vars(CleanerStop)
    /\ WF_vars(TimePasses)

LiveSpec == Spec /\ Fairness

-----------------------------------------------------------------------------
Calls ==
    [pc : {"idle"}]
    \cup [pc : {"getNext"}, many : BOOLEAN, rest : SUBSET Keys]
    \cup [pc : {"getCheck"}, many : BOOLEAN, rest : SUBSET Keys, key : Keys,
          entry : Entries]
    \cup [pc : {"deleteNext"}, rest : SUBSET Keys]
    \cup [pc : {"deleteOne"}, rest : SUBSET Keys, key : Keys]

TypeOK ==
    /\ items \in [Keys -> Entries \cup {NoEntry}]
    /\ memoryUsage \in Int
    /\ stopped \in BOOLEAN /\ ctxDone \in BOOLEAN
    /\ cleaner \in {"running", "done"}
    /\ clock \in Nat \ {0}
    /\ op \in [Clients -> Calls]
    /\ calls \in Nat
    /\ truth \in [Keys -> Entries \cup {NoEntry}]

\* The store never holds more than MaxSize entries, whether they come one by
\* one or many at a time.
SizeLimit == Cardinality(Present(items)) <= MaxSize

\* The account never passes the memory limit, though neither Get nor cleanup
\* reduces it: as long as no SetMany overwrites an entry by a larger one, which
\* SetMany counts only when it is too late to refuse.
MemoryLimit == TrackMemory /\ MaxMemory > 0 => memoryUsage <= MaxMemory

\* The account covers at least what the entries take, so the limit that Set
\* enforces on the account holds for the entries themselves.
UsageCovers == TrackMemory => Used(items) <= memoryUsage

\* The entry of k is the one that the Sets and Deletes so far make of it; it
\* may be missing once it has expired.
Faithful(k) == items[k] = truth[k] \/ (items[k] = NoEntry /\ Expired(truth[k]))

\* Only the second critical section of a Get, which removes a key by an entry
\* that was there earlier, loses what a Set has stored since: cleanup, which
\* any client may ask for at any time, spares it, and nothing that was deleted
\* comes back.
OnlyGetDisturbs ==
    [][\A k \in Keys : Faithful(k) /\ ~Faithful(k)' =>
          \E c \in Clients : /\ op[c].pc = "getCheck" /\ op[c].key = k
                            /\ Expired(op[c].entry) /\ items[k] # op[c].entry
      ]_vars

\* The cleanup goroutine ends once the store is closed or its context done.
CleanerEnds == stopped \/ ctxDone ~> cleaner = "done"

Overdue(k) == cleaner = "running" /\ Expired(items[k])

\* While the cleanup goroutine runs, no expired entry stays for ever.
ExpiredIsSwept == \A k \in Keys : Overdue(k) ~> ~Overdue(k)
=============================================================================
