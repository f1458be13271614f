------------------------------ MODULE FileStore ------------------------------
(***************************************************************************)
(* store/file.go: a store that keeps a file per key, used by several       *)
(* goroutines at once beside its cleanup goroutine, on a disk that may     *)
(* refuse to write and in a process that may crash and start again.        *)
(*                                                                         *)
(* The lock mu is known by where the calls stand: a call in an Exclusive   *)
(* step holds it, one in a Shared step holds it for reading.  A file is    *)
(* written in two steps, for os.WriteFile truncates it first, and is Torn  *)
(* (its JSON does not parse) in between.  What holds the lock from start   *)
(* to end and only reads or removes files is one action.                   *)
(*                                                                         *)
(* A call whose context is done when it starts, or that is given no keys,  *)
(* changes nothing and is left out, as are Keys and MemoryUsage.  Removing *)
(* a file never fails here.  Access times are written and never read.      *)
(***************************************************************************)
EXTENDS TTL, FiniteSets

CONSTANTS
    Keys,             \* the keys clients use
    Values,           \* the values they set
    Durations,        \* the TTLs they pass
    Clients,          \* the goroutines that call the store
    Ops,              \* the kinds of call they make
    CleanupInterval,  \* FileConfig.CleanupInterval, a positive number
    DiskMayFail,      \* writing and renaming may fail
    NoValue, Garbage, \* the values of no file and of a torn one
    MaxTime,          \* bound: the last instant
    MaxCalls,         \* bound: calls of all clients together
    MaxCrashes        \* bound: crashes of the process

Kinds == {"get", "set", "delete", "clear", "getMany", "setMany", "deleteMany"}

\* What the constants must be, stated where the module is used.
FileStoreConstants ==
    /\ {NoValue, Garbage} \cap Values = {} /\ NoValue # Garbage
    /\ Durations \subseteq Int
    /\ Ops \subseteq Kinds \cup {"close"}
    /\ CleanupInterval \in Nat \ {0}
    /\ DiskMayFail \in BOOLEAN
    /\ MaxTime \in Nat /\ MaxCalls \in Nat /\ MaxCrashes \in Nat

VARIABLES
    file,         \* [Keys -> what the file of the key holds]
    temp,         \* [Keys -> what its temporary file holds]
    op,           \* [Clients -> the call in progress and where it stands]
    calls,        \* calls left
    late,         \* [Keys -> Deletes that Get left to goroutines]
    cleaner,      \* the cleanup goroutine: "running" or "done"
    stop,         \* f.stop is closed
    once,         \* f.closeOnce: "new", "running" or "done"
    clock,        \* time.Now()
    lastCleanup,  \* f.lastCleanup
    crashes,      \* crashes left
    truth,        \* history: the entry a key should have
    shared        \* history: the keys whose temporary file two Gets have had
                  \* open at once since the last Set

closeVars == <<cleaner, stop, once>>
\* What a call under way leaves alone.
otherVars == <<calls, late, closeVars, clock, lastCleanup, crashes>>
history == <<truth, shared>>
vars == <<file, temp, op, calls, late, cleaner, stop, once, clock, lastCleanup,
          crashes, truth, shared>>

Entries == [value : Values, expires : Nat]
NoFile == [value |-> NoValue, expires |-> 0]
Torn == [value |-> Garbage, expires |-> 0]
NoFiles == [k \in Keys |-> NoFile]

IsEntry(e) == e \notin {NoFile, Torn}
Expired(e) == IsEntry(e) /\ IsExpired(e.expires, clock)
Live(e) == IsEntry(e) /\ ~Expired(e)

NewEntry(v, d) == [value |-> v, expires |-> GetExpirationTime(d, clock)]

Idle == [pc |-> "idle"]

Exclusive == {"rename", "next", "fill", "stuck"}
Shared == {"remove", "open", "write", "swap"}

Locked == \E c \in Clients : op[c].pc \in Exclusive
Free == ~Locked /\ \A c \in Clients : op[c].pc \notin Shared

\* maybeCleanup finds that it is time for a cleanup.
Due == clock - lastCleanup >= CleanupInterval

-----------------------------------------------------------------------------
Init ==
    /\ file = NoFiles /\ temp = NoFiles
    /\ op = [c \in Clients |-> Idle]
    /\ calls = MaxCalls
    /\ late = [k \in Keys |-> 0]
    /\ cleaner = "running" /\ stop = FALSE /\ once = "new"
    /\ clock = 1 /\ lastCleanup = 1
    /\ crashes = MaxCrashes
    /\ truth = NoFiles /\ shared = {}

Goto(c, o) == op' = [op EXCEPT ![c] = o]
Return(c) == Goto(c, Idle)
At(c, pc, kinds) == op[c].pc = pc /\ op[c].kind \in kinds

\* Every call but Close starts with maybeCleanup, before it takes the lock.
Call(c) ==
    /\ op[c] = Idle /\ calls > 0
    /\ \E kind \in Ops \ {"close"}, ks \in SUBSET Keys \ {{}} :
          /\ kind \in {"get", "set", "delete"} => Cardinality(ks) = 1
          /\ kind = "clear" => ks = Keys
          /\ Goto(c, [pc |-> IF Due THEN "sweep" ELSE "lock",
                      kind |-> kind, keys |-> ks])
    /\ calls' = calls - 1
    /\ UNCHANGED <<file, temp, late, closeVars, clock, lastCleanup, crashes,
                   history>>

\* A mutated form of SweepFiles: files that do not parse stay.
SweepFilesThatParse ==
    /\ file' = [k \in Keys |-> IF Expired(file[k]) THEN NoFile ELSE file[k]]
    /\ lastCleanup' = clock

\* A mutated form of SweepFiles: the zero time counts as expired.
SweepFilesOfZeroTime ==
    /\ file' = [k \in Keys |-> IF Live(file[k]) /\ file[k].expires > clock
                               THEN file[k] ELSE NoFile]
    /\ lastCleanup' = clock

SweepFiles ==
    /\ file' = [k \in Keys |-> IF Live(file[k]) THEN file[k] ELSE NoFile]
    /\ lastCleanup' = clock

\* forceCleanup of a call: maybeCleanup's, or the last one of Close.
Sweep(c) ==
    /\ op[c].pc = "sweep"
    /\ Free
    /\ SweepFiles
    /\ IF op[c].kind = "close"
       THEN once' = "done" /\ Return(c)
       ELSE Goto(c, [op[c] EXCEPT !.pc = "lock"]) /\ UNCHANGED once
    /\ UNCHANGED <<temp, calls, late, cleaner, stop, clock, crashes, history>>

-----------------------------------------------------------------------------
(***************************************************************************)
(* Get, under the read lock: the file is read, and written again by way of *)
(* the temporary file of the key, which Gets of one key share.  A writer   *)
(* goes on writing to the file it opened wherever that is by now: under    *)
(* its temporary name, renamed, or without a name.                         *)
(***************************************************************************)
Renamed == [temp |-> "file", file |-> "gone", gone |-> "gone"]
Removed == [temp |-> "temp", file |-> "gone", gone |-> "gone"]
Dropped == [temp |-> "gone", file |-> "file", gone |-> "gone"]

\* c returns, having renamed or removed a file of k; what the others have open
\* has moved.
ReturnMoving(c, k, moved) ==
    op' = [d \in Clients |->
             CASE d = c -> Idle
               [] d # c /\ op[d].pc = "write" /\ op[d].key = k ->
                    [op[d] EXCEPT !.where = moved[@]]
               [] OTHER -> op[d]]

GetRead(c) ==
    /\ At(c, "lock", {"get"})
    /\ ~Locked
    /\ \E k \in op[c].keys :
          /\ CASE file[k] = NoFile -> Return(c)
               [] file[k] = Torn -> Goto(c, [pc |-> "remove", key |-> k])
               [] Expired(file[k]) -> Return(c)
               [] Live(file[k]) ->
                    Goto(c, [pc |-> "open", key |-> k, entry |-> file[k]])
          /\ late' = IF Expired(file[k]) THEN [late EXCEPT ![k] = @ + 1]
                     ELSE late
    /\ UNCHANGED <<file, temp, calls, closeVars, clock, lastCleanup, crashes,
                   history>>

\* A mutated form of GetRemove: it asks for the write lock.
GetRemoveLocking(c) ==
    /\ op[c].pc = "remove"
    /\ Free
    /\ file' = [file EXCEPT ![op[c].key] = NoFile]
    /\ ReturnMoving(c, op[c].key, Removed)
    /\ UNCHANGED <<temp, otherVars, history>>

GetRemove(c) ==
    /\ op[c].pc = "remove"
    /\ file' = [file EXCEPT ![op[c].key] = NoFile]
    /\ ReturnMoving(c, op[c].key, Removed)
    /\ UNCHANGED <<temp, otherVars, history>>

Rewriting(c, k) ==
    op[c].pc \in {"open", "write", "swap"} /\ op[c].key = k

GetOpen(c) ==
    /\ op[c].pc = "open"
    /\ temp' = [temp EXCEPT ![op[c].key] = Torn]
    /\ Goto(c, [pc |-> "write", key |-> op[c].key, entry |-> op[c].entry,
                where |-> "temp"])
    /\ shared' = IF \E d \in Clients \ {c} : Rewriting(d, op[c].key)
                 THEN shared \cup {op[c].key} ELSE shared
    /\ UNCHANGED <<file, otherVars, truth>>

\* What comes of writing e over old: the tail of a longer text may remain.
Written(old, e) == IF old = Torn THEN {e} ELSE {e, Torn}

GetWrite(c) ==
    /\ op[c].pc = "write"
    /\ LET k == op[c].key IN
       \/ /\ CASE op[c].where = "temp" ->
                    /\ \E new \in Written(temp[k], op[c].entry) :
                          temp' = [temp EXCEPT ![k] = new]
                    /\ UNCHANGED file
               [] op[c].where = "file" ->
                    /\ \E new \in Written(file[k], op[c].entry) :
                          file' = [file EXCEPT ![k] = new]
                    /\ UNCHANGED temp
               [] op[c].where = "gone" -> UNCHANGED <<file, temp>>
          /\ Goto(c, [pc |-> "swap", key |-> k])
       \/ DiskMayFail /\ Return(c) /\ UNCHANGED <<file, temp>>
    /\ UNCHANGED <<otherVars, history>>

\* The rename fails, and the temporary file is removed, if another Get has
\* renamed it before.
GetSwap(c) ==
    /\ op[c].pc = "swap"
    /\ LET k == op[c].key IN
       /\ temp' = [temp EXCEPT ![k] = NoFile]
       /\ \/ /\ temp[k] # NoFile
             /\ file' = [file EXCEPT ![k] = temp[k]]
             /\ ReturnMoving(c, k, Renamed)
          \/ /\ temp[k] = NoFile \/ DiskMayFail
             /\ UNCHANGED file
             /\ ReturnMoving(c, k, Dropped)
    /\ UNCHANGED <<otherVars, history>>

-----------------------------------------------------------------------------
(***************************************************************************)
(* Set, under the write lock: a temporary file is written and renamed.     *)
(***************************************************************************)
SetOpen(c) ==
    /\ At(c, "lock", {"set"})
    /\ Free
    /\ \E k \in op[c].keys, v \in Values, d \in Durations :
          IF Validate(d) = "ok"
          THEN /\ temp' = [temp EXCEPT ![k] = Torn]
               /\ Goto(c, [pc |-> "rename", key |-> k,
                           entry |-> NewEntry(v, d)])
          ELSE Return(c) /\ UNCHANGED temp
    /\ UNCHANGED <<file, otherVars, history>>

\* A Set that cannot write leaves its temporary file, one that cannot rename
\* removes it.
SetRename(c) ==
    /\ op[c].pc = "rename"
    /\ LET k == op[c].key IN
       \/ /\ file' = [file EXCEPT ![k] = op[c].entry]
          /\ truth' = [truth EXCEPT ![k] = op[c].entry]
          /\ temp' = [temp EXCEPT ![k] = NoFile]
       \/ /\ DiskMayFail
          /\ \E left \in {NoFile, Torn} : temp' = [temp EXCEPT ![k] = left]
          /\ UNCHANGED <<file, truth>>
    /\ Return(c)
    /\ shared' = shared \ {op[c].key}
    /\ UNCHANGED otherVars

-----------------------------------------------------------------------------
(***************************************************************************)
(* The calls that give up if they do not get the lock at once.             *)
(***************************************************************************)
\* Some other goroutine may hold the lock, or be waiting for it.
Contended(c) ==
    \/ cleaner = "running"
    \/ \E k \in Keys : late[k] > 0
    \/ \E d \in Clients \ {c} : op[d] # Idle

TryLockFails(c) ==
    /\ At(c, "lock", {"delete", "clear", "getMany", "setMany", "deleteMany"})
    /\ Contended(c)
    /\ Return(c)
    /\ UNCHANGED <<file, temp, otherVars, history>>

\* Delete and DeleteMany: the context may end before any key.
Delete(c) ==
    /\ At(c, "lock", {"delete", "deleteMany"})
    /\ Free
    /\ \E gone \in SUBSET op[c].keys :
          /\ file' = [k \in Keys |-> IF k \in gone THEN NoFile ELSE file[k]]
          /\ truth' = [k \in Keys |-> IF k \in gone THEN NoFile ELSE truth[k]]
    /\ Return(c)
    /\ UNCHANGED <<temp, shared, otherVars>>

\* Clear removes the directory, temporary files and all.
Clear(c) ==
    /\ At(c, "lock", {"clear"})
    /\ Free
    /\ file' = NoFiles /\ temp' = NoFiles /\ truth' = NoFiles
    /\ Return(c)
    /\ UNCHANGED <<shared, otherVars>>

\* GetMany calls Delete for an expired key without giving up its lock: the
\* TryLock of Delete fails, unless its maybeCleanup waits for the lock first.
\* GetMany may also end before it meets the key, with its context.
GetMany(c) ==
    /\ At(c, "lock", {"getMany"})
    /\ Free
    /\ \/ Return(c)
       \/ /\ Due /\ \E k \in op[c].keys : Expired(file[k])
          /\ Goto(c, [pc |-> "stuck"])
    /\ UNCHANGED <<file, temp, otherVars, history>>

\* SetMany writes the files in place, one after the other.
SetManyLock(c) ==
    /\ At(c, "lock", {"setMany"})
    /\ Free
    /\ \E d \in Durations :
          IF Validate(d) = "ok"
          THEN Goto(c, [pc |-> "next", keys |-> op[c].keys, ttl |-> d])
          ELSE Return(c)
    /\ UNCHANGED <<file, temp, otherVars, history>>

\* It may also end here with its context.
SetManyNext(c) ==
    /\ op[c].pc = "next"
    /\ \/ \E k \in op[c].keys, v \in Values :
             /\ file' = [file EXCEPT ![k] = Torn]
             /\ Goto(c, [pc |-> "fill", key |-> k, keys |-> op[c].keys \ {k},
                         ttl |-> op[c].ttl, entry |-> NewEntry(v, op[c].ttl)])
       \/ Return(c) /\ UNCHANGED file
    /\ UNCHANGED <<temp, otherVars, history>>

SetManyFill(c) ==
    /\ op[c].pc = "fill"
    /\ \/ /\ file' = [file EXCEPT ![op[c].key] = op[c].entry]
          /\ truth' = [truth EXCEPT ![op[c].key] = op[c].entry]
          /\ Goto(c, [pc |-> "next", keys |-> op[c].keys, ttl |-> op[c].ttl])
       \/ DiskMayFail /\ Return(c) /\ UNCHANGED <<file, truth>>
    /\ UNCHANGED <<temp, shared, otherVars>>

-----------------------------------------------------------------------------
(***************************************************************************)
(* Close stops the cleanup goroutine and waits for it, but not for long:   *)
(* its context or five seconds end the wait.  Other callers wait for the   *)
(* first.  Nothing keeps a closed store from being used.                   *)
(***************************************************************************)
Close(c) ==
    /\ op[c] = Idle /\ calls > 0
    /\ "close" \in Ops
    /\ calls' = calls - 1
    /\ CASE once = "new" -> /\ once' = "running" /\ stop' = TRUE
                            /\ Goto(c, [pc |-> "sweep", kind |-> "close"])
         [] once = "running" -> /\ Goto(c, [pc |-> "join"])
                                /\ UNCHANGED <<once, stop>>
         [] once = "done" -> UNCHANGED <<op, once, stop>>
    /\ UNCHANGED <<file, temp, late, cleaner, clock, lastCleanup, crashes,
                   history>>

CloseJoin(c) ==
    /\ op[c].pc = "join"
    /\ once = "done"
    /\ Return(c)
    /\ UNCHANGED <<file, temp, otherVars, history>>

CleanerTick ==
    /\ cleaner = "running"
    /\ Free
    /\ SweepFiles
    /\ UNCHANGED <<temp, op, calls, late, closeVars, clock, crashes, history>>

CleanerStop ==
    /\ cleaner = "running" /\ stop
    /\ cleaner' = "done"
    /\ UNCHANGED <<file, temp, op, calls, late, stop, once, clock, lastCleanup,
                   crashes, history>>

\* The Delete of an expired key in a goroutine of its own.  It does nothing
\* if it does not get the lock or the context of its Get has ended.
LateDelete(k) ==
    /\ late[k] > 0
    /\ late' = [late EXCEPT ![k] = @ - 1]
    /\ \/ Free /\ file' = [file EXCEPT ![k] = NoFile]
       \/ UNCHANGED file
    /\ UNCHANGED <<temp, op, calls, closeVars, clock, lastCleanup, crashes,
                   history>>

\* Its maybeCleanup.
LateSweep(k) ==
    /\ late[k] > 0 /\ Due
    /\ Free
    /\ SweepFiles
    /\ UNCHANGED <<temp, op, calls, late, closeVars, clock, crashes, history>>

TimePasses ==
    /\ clock < MaxTime
    /\ clock' = clock + 1
    /\ UNCHANGED <<file, temp, op, calls, late, closeVars, lastCleanup,
                   crashes, history>>

\* The process crashes and NewFileStore opens the same directory again.
Restart ==
    /\ crashes > 0
    /\ crashes' = crashes - 1
    /\ op' = [c \in Clients |-> Idle]
    /\ late' = [k \in Keys |-> 0]
    /\ cleaner' = "running" /\ stop' = FALSE /\ once' = "new"
    /\ lastCleanup' = clock
    /\ UNCHANGED <<file, temp, calls, clock, history>>

Proceed(c) ==
    \/ Sweep(c)
    \/ GetRead(c) \/ GetRemove(c) \/ GetOpen(c) \/ GetWrite(c) \/ GetSwap(c)
    \/ SetOpen(c) \/ SetRename(c)
    \/ TryLockFails(c) \/ Delete(c) \/ Clear(c) \/ GetMany(c)
    \/ SetManyLock(c) \/ SetManyNext(c) \/ SetManyFill(c)
    \/ CloseJoin(c)

Stuck == \E c \in Clients : op[c].pc = "stuck"

\* Every call has been made and has returned, or a GetMany waits for itself.
Finished ==
    /\ Stuck \/ (calls = 0 /\ \A c \in Clients : op[c] = Idle)
    /\ UNCHANGED vars

Next ==
    \/ \E c \in Clients : Call(c) \/ Close(c) \/ Proceed(c)
    \/ CleanerTick
    \/ CleanerStop
    \/ \E k \in Keys : LateDelete(k) \/ LateSweep(k)
    \/ TimePasses
    \/ Restart
    \/ Finished

Spec == Init /\ [][Next]_vars

\* A goroutine that can take a step takes one; a Lock is granted in the end,
\* as Go's RWMutex does, for calls are bounded.
Fairness ==
    /\ \A c \in Clients : WF_vars(Proceed(c))
    /\ WF_vars(CleanerTick)
    /\ WF_vars(CleanerStop)
    /\ WF_vars(TimePasses)

LiveSpec == Spec /\ Fairness

-----------------------------------------------------------------------------
Calls ==
    [pc : {"idle", "join", "stuck"}]
    \cup [pc : {"sweep"}, kind : {"close"}]
    \cup [pc : {"sweep", "lock"}, keys : SUBSET Keys, kind : Kinds]
    \cup [pc : {"remove", "swap"}, key : Keys]
    \cup [pc : {"open", "rename"}, key : Keys, entry : Entries]
    \cup [pc : {"write"}, key : Keys, entry : Entries,
          where : {"temp", "file", "gone"}]
    \cup [pc : {"next"}, keys : SUBSET Keys, ttl : Durations]
    \cup [pc : {"fill"}, key : Keys, keys : SUBSET Keys, ttl : Durations,
          entry : Entries]

FileTypeOK ==
    /\ file \in [Keys -> Entries \cup {NoFile, Torn}]
    /\ temp \in [Keys -> Entries \cup {NoFile, Torn}]
    /\ op \in [Clients -> Calls]
    /\ calls \in Nat
    /\ late \in [Keys -> Nat]
    /\ cleaner \in {"running", "done"}
    /\ stop \in BOOLEAN
    /\ once \in {"new", "running", "done"}
    /\ clock \in Nat /\ lastCleanup \in 1 .. clock
    /\ crashes \in Nat
    /\ truth \in [Keys -> Entries \cup {NoFile}]
    /\ shared \subseteq Keys

\* The file of k is what the Sets and Deletes so far make of it: the entry
\* while that lives, and nothing that Get would return otherwise.
Faithful(k) == IF Live(truth[k]) THEN file[k] = truth[k] ELSE ~Live(file[k])

\* No step makes the file of a key wrong but these three: SetMany truncates it
\* to write it in place; a goroutine deletes late what was expired when its
\* Get looked; Gets have shared the temporary file.  In particular a crash or
\* a failure of the disk, wherever it falls, costs no entry of a Set and
\* brings no deleted one back.
OnlyThreeLoseEntries ==
    [][\A k \in Keys : Faithful(k) /\ ~Faithful(k)' =>
          \/ \E c \in Clients : op'[c].pc = "fill" /\ op'[c].key = k
          \/ late'[k] < late[k]
          \/ k \in shared]_vars

\* Every call returns, however often others hold the lock, unless some GetMany
\* waits for a lock of its own.
CallsReturn == \A c \in Clients : op[c] # Idle ~> op[c] = Idle \/ Stuck

Litter(k) == file[k] = Torn \/ Expired(file[k])

\* What does not parse, or has expired, leaves the directory as long as there
\* is a cleanup goroutine and the lock is to be had.
LitterGoes ==
    \A k \in Keys : Litter(k) ~> ~Litter(k) \/ cleaner = "done" \/ Stuck

\* No Get finds a file that does not parse (nobody else writes them here).
GetFindsWhole == \A c \in Clients : op[c].pc # "remove"

\* Nobody asks for a cleanup while it holds the lock.
CleanupBeforeLock == ~Stuck
=============================================================================
