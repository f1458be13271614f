--------------------------- MODULE FileStoreProofs ---------------------------
(***************************************************************************)
(* Only three kinds of step make the file of a key wrong, and a crash or a *)
(* failure of the disk is none of them, for every set of keys, values,     *)
(* clients and durations, any number of calls and any number of crashes.   *)
(***************************************************************************)
EXTENDS FileStore, TLAPS

\* Who holds the lock holds it alone; readers share it.
LockHeld ==
    \A c, d \in Clients :
        c # d /\ op[c].pc \in Exclusive => op[d].pc \notin Exclusive \cup Shared

\* While nobody shares the temporary file of k: who is about to remove the
\* file of k removes no entry; who is about to write it again still has the
\* entry that is in it; and one Get at a time writes and renames.
RemoversAgree(k) ==
    \A c \in Clients :
        op[c].pc = "remove" /\ op[c].key = k => ~IsEntry(file[k])

WritersAgree(k) ==
    \A c \in Clients :
        op[c].pc \in {"open", "write"} /\ op[c].key = k =>
            file[k] = op[c].entry

Unmoved(k) ==
    \A c \in Clients :
        op[c].pc = "write" /\ op[c].key = k =>
            op[c].where = "temp" /\ temp[k] = Torn

SwapsEntry(k) ==
    \A c \in Clients :
        op[c].pc = "swap" /\ op[c].key = k =>
            IsEntry(file[k]) /\ temp[k] = file[k]

Writes(c, k) == op[c].pc \in {"write", "swap"} /\ op[c].key = k

OneWriter(k) == \A c, d \in Clients : Writes(c, k) /\ Writes(d, k) => c = d

Whole(k) == /\ RemoversAgree(k) /\ WritersAgree(k)
            /\ Unmoved(k) /\ SwapsEntry(k) /\ OneWriter(k)

ReadersAgree == \A k \in Keys \ shared : Whole(k)

FileInv == FileTypeOK /\ LockHeld /\ ReadersAgree

Contents == Entries \cup {NoFile, Torn}

Readers == {"remove", "open", "write", "swap"}

-----------------------------------------------------------------------------
(***************************************************************************)
(* Entries and the records of calls.                                       *)
(***************************************************************************)
LEMMA EntryFacts ==
    ASSUME FileStoreConstants
    PROVE  /\ \A e \in Entries : IsEntry(e)
           /\ ~IsEntry(NoFile) /\ ~IsEntry(Torn) /\ NoFile # Torn
           /\ \A e \in Contents : IsEntry(e) => e \in Entries
BY DEF FileStoreConstants, Entries, IsEntry, NoFile, Torn, Contents

LEMMA NewEntryTyped ==
    ASSUME FileStoreConstants, clock \in Nat,
           NEW v \in Values, NEW d \in Durations
    PROVE  NewEntry(v, d) \in Entries
BY TTLConfigAssumption
DEF FileStoreConstants, NewEntry, Entries, GetExpirationTime, Normalize, Never

LEMMA CallFields ==
    ASSUME NEW o \in Calls
    PROVE  /\ o.pc \in {"idle", "join", "stuck", "sweep", "lock", "remove",
                        "swap", "open", "rename", "write", "next", "fill"}
           /\ o.pc = "lock" =>
                 o \in [pc : {"sweep", "lock"}, keys : SUBSET Keys,
                        kind : Kinds]
           /\ o.pc = "sweep" /\ o.kind # "close" =>
                 o \in [pc : {"sweep", "lock"}, keys : SUBSET Keys,
                        kind : Kinds]
           /\ o.pc \in {"remove", "swap"} =>
                 o \in [pc : {"remove", "swap"}, key : Keys]
           /\ o.pc \in {"open", "rename"} =>
                 o \in [pc : {"open", "rename"}, key : Keys, entry : Entries]
           /\ o.pc = "write" =>
                 o \in [pc : {"write"}, key : Keys, entry : Entries,
                        where : {"temp", "file", "gone"}]
           /\ o.pc = "next" =>
                 o \in [pc : {"next"}, keys : SUBSET Keys, ttl : Durations]
           /\ o.pc = "fill" =>
                 o \in [pc : {"fill"}, key : Keys, keys : SUBSET Keys,
                        ttl : Durations, entry : Entries]
BY DEF Calls

LEMMA IdleTyped == Idle \in Calls /\ Idle.pc = "idle"
BY DEF Idle, Calls

LEMMA GotoFacts ==
    ASSUME op \in [Clients -> Calls], NEW c \in Clients, NEW o \in Calls,
           Goto(c, o)
    PROVE  /\ op' \in [Clients -> Calls]
           /\ op'[c] = o
           /\ \A d \in Clients : d # c => op'[d] = op[d]
BY DEF Goto

\* A Get that renames or removes the file of k returns; only the place of what
\* the others are writing changes.
LEMMA MovingFacts ==
    ASSUME op \in [Clients -> Calls], NEW c \in Clients, NEW k,
           NEW moved \in [{"temp", "file", "gone"} -> {"temp", "file", "gone"}],
           ReturnMoving(c, k, moved)
    PROVE  /\ op' \in [Clients -> Calls]
           /\ op'[c] = Idle
           /\ \A d \in Clients : d # c /\ ~(op[d].pc = "write" /\ op[d].key = k)
                 => op'[d] = op[d]
           /\ \A d \in Clients : d # c /\ op[d].pc = "write" =>
                 /\ op'[d].pc = "write" /\ op'[d].key = op[d].key
                 /\ op'[d].entry = op[d].entry
<1>1. op' = [d \in Clients |->
               IF d = c THEN Idle
               ELSE IF op[d].pc = "write" /\ op[d].key = k
                    THEN [op[d] EXCEPT !.where = moved[op[d].where]]
                    ELSE op[d]]
  BY DEF ReturnMoving
<1>2. ASSUME NEW d \in Clients, op[d].pc = "write"
      PROVE  /\ [op[d] EXCEPT !.where = moved[op[d].where]] \in Calls
             /\ [op[d] EXCEPT !.where = moved[op[d].where]].pc = "write"
             /\ [op[d] EXCEPT !.where = moved[op[d].where]].key = op[d].key
             /\ [op[d] EXCEPT !.where = moved[op[d].where]].entry = op[d].entry
  <2>1. op[d] \in [pc : {"write"}, key : Keys, entry : Entries,
                   where : {"temp", "file", "gone"}]
    BY <1>2, CallFields
  <2>2. moved[op[d].where] \in {"temp", "file", "gone"}
    BY <2>1
  <2>3. [op[d] EXCEPT !.where = moved[op[d].where]]
           \in [pc : {"write"}, key : Keys, entry : Entries,
                where : {"temp", "file", "gone"}]
    BY <2>1, <2>2
  <2> QED BY <2>1, <2>3 DEF Calls
<1>3. op' \in [Clients -> Calls]
  BY <1>1, <1>2, IdleTyped
<1> QED BY <1>1, <1>2, <1>3

-----------------------------------------------------------------------------
(***************************************************************************)
(* Types.                                                                  *)
(***************************************************************************)
LEMMA TypeInit == ASSUME FileStoreConstants, Init PROVE FileTypeOK
<1>1. op \in [Clients -> Calls]
  BY IdleTyped DEF Init
<1>2. /\ file \in [Keys -> Contents] /\ temp \in [Keys -> Contents]
      /\ truth \in [Keys -> Entries \cup {NoFile}]
      /\ late \in [Keys -> Nat]
  BY DEF Init, NoFiles, Contents
<1>3. /\ lastCleanup \in 1 .. clock /\ clock \in Nat
      /\ shared \subseteq Keys
      /\ once \in {"new", "running", "done"}
      /\ cleaner \in {"running", "done"}
      /\ calls \in Nat /\ crashes \in Nat
  BY DEF Init, FileStoreConstants
<1>4. stop \in BOOLEAN
  BY DEF Init
<1> QED BY <1>1, <1>2, <1>3, <1>4 DEF FileTypeOK, Contents

LEMMA SweptTyped ==
    ASSUME FileTypeOK, SweepFiles
    PROVE  /\ file' \in [Keys -> Contents]
           /\ lastCleanup' \in 1 .. clock
BY DEF FileTypeOK, SweepFiles, Contents

\* Calls, sweeps and the end of calls.
LEMMA TypeCall ==
    ASSUME FileStoreConstants, FileTypeOK, NEW c \in Clients,
           \/ Call(c) \/ Close(c) \/ Sweep(c) \/ CloseJoin(c)
           \/ TryLockFails(c)
    PROVE  FileTypeOK'
<1> USE DEF FileTypeOK, otherVars, closeVars, history
<1>1. CASE Call(c)
  <2>1. PICK kind \in Ops \ {"close"}, ks \in SUBSET Keys \ {{}} :
           Goto(c, [pc |-> IF Due THEN "sweep" ELSE "lock",
                    kind |-> kind, keys |-> ks])
    BY <1>1 DEF Call
  <2>2. [pc |-> IF Due THEN "sweep" ELSE "lock", kind |-> kind, keys |-> ks]
           \in Calls
    BY DEF Calls, FileStoreConstants
  <2>3. op' \in [Clients -> Calls]
    BY <2>1, <2>2, GotoFacts
  <2> QED BY <1>1, <2>3 DEF Call
<1>2. CASE Close(c)
  <2>1. [pc |-> "sweep", kind |-> "close"] \in Calls
        /\ [pc |-> "join"] \in Calls
    BY DEF Calls
  <2>2. /\ calls > 0 /\ calls' = calls - 1
        /\ \/ /\ once' = "running" /\ stop' = TRUE
              /\ Goto(c, [pc |-> "sweep", kind |-> "close"])
           \/ Goto(c, [pc |-> "join"]) /\ UNCHANGED <<once, stop>>
           \/ UNCHANGED <<op, once, stop>>
        /\ UNCHANGED <<file, temp, late, cleaner, clock, lastCleanup, crashes,
                       history>>
    BY <1>2 DEF Close
  <2>3. op' \in [Clients -> Calls]
    BY <2>1, <2>2, GotoFacts
  <2>4. calls' \in Nat /\ once' \in {"new", "running", "done"}
    BY <2>2
  <2>5. stop' \in BOOLEAN
    BY <2>2
  <2> QED BY <2>2, <2>3, <2>4, <2>5
<1>3. CASE Sweep(c)
  <2>1. file' \in [Keys -> Contents] /\ lastCleanup' \in 1 .. clock
    BY <1>3, SweptTyped DEF Sweep
  <2>2. CASE op[c].kind = "close"
    <3>1. op' \in [Clients -> Calls] /\ once' = "done"
      BY <1>3, <2>2, IdleTyped, GotoFacts DEF Sweep, Return
    <3> QED BY <1>3, <2>1, <3>1 DEF Sweep, Contents
  <2>3. CASE op[c].kind # "close"
    <3>1. op[c] \in [pc : {"sweep", "lock"}, keys : SUBSET Keys, kind : Kinds]
      BY <1>3, <2>3, CallFields DEF Sweep
    <3>2. [op[c] EXCEPT !.pc = "lock"] \in Calls
      BY <3>1 DEF Calls
    <3>3. op' \in [Clients -> Calls] /\ once' = once
      BY <1>3, <2>3, <3>2, GotoFacts DEF Sweep
    <3> QED BY <1>3, <2>1, <3>3 DEF Sweep, Contents
  <2> QED BY <2>2, <2>3
<1>4. CASE CloseJoin(c)
  <2>1. op' \in [Clients -> Calls]
    BY <1>4, IdleTyped, GotoFacts DEF CloseJoin, Return
  <2> QED BY <1>4, <2>1 DEF CloseJoin
<1>5. CASE TryLockFails(c)
  <2>1. op' \in [Clients -> Calls]
    BY <1>5, IdleTyped, GotoFacts DEF TryLockFails, Return
  <2> QED BY <1>5, <2>1 DEF TryLockFails
<1> QED BY <1>1, <1>2, <1>3, <1>4, <1>5

\* What the reading of a Get comes to.
LEMMA ReadFacts ==
    ASSUME NEW c \in Clients, GetRead(c)
    PROVE  \E k \in op[c].keys :
              /\ \/ Return(c)
                 \/ /\ file[k] = Torn
                    /\ Goto(c, [pc |-> "remove", key |-> k])
                 \/ /\ Live(file[k])
                    /\ Goto(c, [pc |-> "open", key |-> k, entry |-> file[k]])
              /\ late' = IF Expired(file[k]) THEN [late EXCEPT ![k] = @ + 1]
                         ELSE late
<1>1. PICK k \in op[c].keys :
         /\ CASE file[k] = NoFile -> Return(c)
              [] file[k] = Torn -> Goto(c, [pc |-> "remove", key |-> k])
              [] Expired(file[k]) -> Return(c)
              [] Live(file[k]) ->
                    Goto(c, [pc |-> "open", key |-> k, entry |-> file[k]])
         /\ late' = IF Expired(file[k]) THEN [late EXCEPT ![k] = @ + 1]
                    ELSE late
  BY DEF GetRead
<1>2. \/ file[k] = NoFile \/ file[k] = Torn
      \/ Expired(file[k]) \/ Live(file[k])
  BY DEF Live, IsEntry
<1>3. \/ Return(c)
      \/ file[k] = Torn /\ Goto(c, [pc |-> "remove", key |-> k])
      \/ /\ Live(file[k])
         /\ Goto(c, [pc |-> "open", key |-> k, entry |-> file[k]])
  BY <1>1, <1>2
<1> QED BY <1>1, <1>3

\* Get.
LEMMA TypeGet ==
    ASSUME FileStoreConstants, FileTypeOK, NEW c \in Clients,
           \/ GetRead(c) \/ GetRemove(c) \/ GetOpen(c) \/ GetWrite(c)
           \/ GetSwap(c)
    PROVE  FileTypeOK'
<1> USE DEF FileTypeOK, otherVars, closeVars, history
<1>0. /\ Renamed \in [{"temp", "file", "gone"} -> {"temp", "file", "gone"}]
      /\ Removed \in [{"temp", "file", "gone"} -> {"temp", "file", "gone"}]
      /\ Dropped \in [{"temp", "file", "gone"} -> {"temp", "file", "gone"}]
  BY DEF Renamed, Removed, Dropped
<1>1. CASE GetRead(c)
  <2>1. op[c] \in [pc : {"sweep", "lock"}, keys : SUBSET Keys, kind : Kinds]
    BY <1>1, CallFields DEF GetRead, At
  <2>2. PICK k \in op[c].keys :
           /\ \/ Return(c)
              \/ /\ file[k] = Torn
                 /\ Goto(c, [pc |-> "remove", key |-> k])
              \/ /\ Live(file[k])
                 /\ Goto(c, [pc |-> "open", key |-> k, entry |-> file[k]])
           /\ late' = IF Expired(file[k]) THEN [late EXCEPT ![k] = @ + 1]
                      ELSE late
    BY <1>1, ReadFacts
  <2>3. k \in Keys
    BY <2>1
  <2>4. Live(file[k]) => file[k] \in Entries
    BY <2>3, EntryFacts DEF Live, Contents
  <2>5. /\ [pc |-> "remove", key |-> k] \in Calls
        /\ Live(file[k]) =>
              [pc |-> "open", key |-> k, entry |-> file[k]] \in Calls
    BY <2>3, <2>4 DEF Calls
  <2>6. op' \in [Clients -> Calls]
    BY <2>2, <2>5, IdleTyped, GotoFacts DEF Return
  <2>7. late' \in [Keys -> Nat]
    BY <2>2, <2>3
  <2> QED BY <1>1, <2>6, <2>7 DEF GetRead
<1>2. CASE GetRemove(c)
  <2>1. op' \in [Clients -> Calls]
    BY <1>0, <1>2, MovingFacts DEF GetRemove
  <2> QED BY <1>2, <2>1 DEF GetRemove
<1>3. CASE GetOpen(c)
  <2>1. op[c] \in [pc : {"open", "rename"}, key : Keys, entry : Entries]
    BY <1>3, CallFields DEF GetOpen
  <2>2. [pc |-> "write", key |-> op[c].key, entry |-> op[c].entry,
         where |-> "temp"] \in Calls
    BY <2>1 DEF Calls
  <2>3. op' \in [Clients -> Calls]
    BY <1>3, <2>2, GotoFacts DEF GetOpen
  <2> QED BY <1>3, <2>1, <2>3 DEF GetOpen
<1>4. CASE GetWrite(c)
  <2>1. op[c] \in [pc : {"write"}, key : Keys, entry : Entries,
                   where : {"temp", "file", "gone"}]
    BY <1>4, CallFields DEF GetWrite
  <2>2. [pc |-> "swap", key |-> op[c].key] \in Calls
    BY <2>1 DEF Calls
  <2>3. op' \in [Clients -> Calls]
    BY <1>4, <2>2, IdleTyped, GotoFacts DEF GetWrite, Return
  <2>4. \A old : Written(old, op[c].entry) \subseteq Contents
    BY <2>1 DEF Written, Contents
  <2>5. \/ \E new \in Contents : /\ temp' = [temp EXCEPT ![op[c].key] = new]
                               /\ UNCHANGED file
        \/ \E new \in Contents : /\ file' = [file EXCEPT ![op[c].key] = new]
                               /\ UNCHANGED temp
        \/ UNCHANGED <<file, temp>>
    BY <1>4, <2>1, <2>4 DEF GetWrite
  <2>6. file' \in [Keys -> Contents] /\ temp' \in [Keys -> Contents]
    BY <2>1, <2>5 DEF Contents
  <2> QED BY <1>4, <2>3, <2>6 DEF GetWrite, Contents
<1>5. CASE GetSwap(c)
  <2>1. op[c] \in [pc : {"remove", "swap"}, key : Keys]
    BY <1>5, CallFields DEF GetSwap
  <2>2. op' \in [Clients -> Calls]
    BY <1>0, <1>5, MovingFacts DEF GetSwap
  <2>3. file' \in [Keys -> Contents] /\ temp' \in [Keys -> Contents]
    BY <1>5, <2>1 DEF GetSwap, Contents
  <2> QED BY <1>5, <2>2, <2>3 DEF GetSwap, Contents
<1> QED BY <1>1, <1>2, <1>3, <1>4, <1>5

\* Set, Delete, Clear and the batch calls.
LEMMA TypeWrite ==
    ASSUME FileStoreConstants, FileTypeOK, NEW c \in Clients,
           \/ SetOpen(c) \/ SetRename(c) \/ Delete(c) \/ Clear(c)
           \/ GetMany(c) \/ SetManyLock(c) \/ SetManyNext(c) \/ SetManyFill(c)
    PROVE  FileTypeOK'
<1> USE DEF FileTypeOK, otherVars, closeVars, history
<1>1. CASE SetOpen(c)
  <2>1. op[c] \in [pc : {"sweep", "lock"}, keys : SUBSET Keys, kind : Kinds]
    BY <1>1, CallFields DEF SetOpen, At
  <2>2. PICK k \in op[c].keys, v \in Values, d \in Durations :
           \/ /\ temp' = [temp EXCEPT ![k] = Torn]
              /\ Goto(c, [pc |-> "rename", key |-> k,
                          entry |-> NewEntry(v, d)])
           \/ Return(c) /\ UNCHANGED temp
    BY <1>1 DEF SetOpen
  <2>3. k \in Keys /\ NewEntry(v, d) \in Entries
    BY <2>1, NewEntryTyped
  <2>4. [pc |-> "rename", key |-> k, entry |-> NewEntry(v, d)] \in Calls
    BY <2>3 DEF Calls
  <2>5. op' \in [Clients -> Calls]
    BY <2>2, <2>4, IdleTyped, GotoFacts DEF Return
  <2>6. temp' \in [Keys -> Contents]
    BY <2>2 DEF Contents
  <2> QED BY <1>1, <2>5, <2>6 DEF SetOpen, Contents
<1>2. CASE SetRename(c)
  <2>1. op[c] \in [pc : {"open", "rename"}, key : Keys, entry : Entries]
    BY <1>2, CallFields DEF SetRename
  <2>2. op' \in [Clients -> Calls]
    BY <1>2, IdleTyped, GotoFacts DEF SetRename, Return
  <2>3. /\ file' \in [Keys -> Contents] /\ temp' \in [Keys -> Contents]
        /\ truth' \in [Keys -> Entries \cup {NoFile}]
    BY <1>2, <2>1 DEF SetRename, Contents
  <2> QED BY <1>2, <2>2, <2>3 DEF SetRename, Contents
<1>3. CASE Delete(c)
  <2>1. op' \in [Clients -> Calls]
    BY <1>3, IdleTyped, GotoFacts DEF Delete, Return
  <2>2. /\ file' \in [Keys -> Contents]
        /\ truth' \in [Keys -> Entries \cup {NoFile}]
    BY <1>3 DEF Delete, Contents
  <2> QED BY <1>3, <2>1, <2>2 DEF Delete, Contents
<1>4. CASE Clear(c)
  <2>1. op' \in [Clients -> Calls]
    BY <1>4, IdleTyped, GotoFacts DEF Clear, Return
  <2> QED BY <1>4, <2>1 DEF Clear, NoFiles
<1>5. CASE GetMany(c)
  <2>1. [pc |-> "stuck"] \in Calls
    BY DEF Calls
  <2>2. op' \in [Clients -> Calls]
    BY <1>5, <2>1, IdleTyped, GotoFacts DEF GetMany, Return
  <2> QED BY <1>5, <2>2 DEF GetMany
<1>6. CASE SetManyLock(c)
  <2>1. op[c] \in [pc : {"sweep", "lock"}, keys : SUBSET Keys, kind : Kinds]
    BY <1>6, CallFields DEF SetManyLock, At
  <2>2. PICK d \in Durations :
           \/ Goto(c, [pc |-> "next", keys |-> op[c].keys, ttl |-> d])
           \/ Return(c)
    BY <1>6 DEF SetManyLock
  <2>3. [pc |-> "next", keys |-> op[c].keys, ttl |-> d] \in Calls
    BY <2>1 DEF Calls
  <2>4. op' \in [Clients -> Calls]
    BY <2>2, <2>3, IdleTyped, GotoFacts DEF Return
  <2> QED BY <1>6, <2>4 DEF SetManyLock
<1>7. CASE SetManyNext(c)
  <2>1. op[c] \in [pc : {"next"}, keys : SUBSET Keys, ttl : Durations]
    BY <1>7, CallFields DEF SetManyNext
  <2>2. CASE Return(c) /\ UNCHANGED file
    <3>1. op' \in [Clients -> Calls]
      BY <2>2, IdleTyped, GotoFacts DEF Return
    <3> QED BY <1>7, <2>2, <3>1 DEF SetManyNext
  <2>3. ASSUME NEW k \in op[c].keys, NEW v \in Values,
               file' = [file EXCEPT ![k] = Torn],
               Goto(c, [pc |-> "fill", key |-> k, keys |-> op[c].keys \ {k},
                        ttl |-> op[c].ttl,
                        entry |-> NewEntry(v, op[c].ttl)])
        PROVE  FileTypeOK'
    <3>1. NewEntry(v, op[c].ttl) \in Entries /\ op[c].ttl \in Durations
      BY <2>1, NewEntryTyped
    <3>2. [pc |-> "fill", key |-> k, keys |-> op[c].keys \ {k},
           ttl |-> op[c].ttl, entry |-> NewEntry(v, op[c].ttl)] \in Calls
      BY <2>1, <3>1 DEF Calls
    <3>3. op' \in [Clients -> Calls]
      BY <2>3, <3>2, GotoFacts
    <3>4. file' \in [Keys -> Contents]
      BY <2>3 DEF Contents
    <3> QED BY <1>7, <3>3, <3>4 DEF SetManyNext, Contents
  <2> QED BY <1>7, <2>2, <2>3 DEF SetManyNext
<1>8. CASE SetManyFill(c)
  <2>1. op[c] \in [pc : {"fill"}, key : Keys, keys : SUBSET Keys,
                   ttl : Durations, entry : Entries]
    BY <1>8, CallFields DEF SetManyFill
  <2>2. [pc |-> "next", keys |-> op[c].keys, ttl |-> op[c].ttl] \in Calls
    BY <2>1 DEF Calls
  <2>3. op' \in [Clients -> Calls]
    BY <1>8, <2>2, IdleTyped, GotoFacts DEF SetManyFill, Return
  <2>4. /\ file' \in [Keys -> Contents]
        /\ truth' \in [Keys -> Entries \cup {NoFile}]
    BY <1>8, <2>1 DEF SetManyFill, Contents
  <2> QED BY <1>8, <2>3, <2>4 DEF SetManyFill, Contents
<1> QED BY <1>1, <1>2, <1>3, <1>4, <1>5, <1>6, <1>7, <1>8

\* The goroutines of the store, the clock, and a crash.
LEMMA TypeOther ==
    ASSUME FileStoreConstants, FileTypeOK,
           \/ CleanerTick \/ CleanerStop \/ TimePasses \/ Restart
           \/ \E k \in Keys : LateDelete(k) \/ LateSweep(k)
    PROVE  FileTypeOK'
<1> USE DEF FileTypeOK, closeVars, history
<1>1. CASE CleanerTick \/ \E k \in Keys : LateSweep(k)
  <2>1. file' \in [Keys -> Contents] /\ lastCleanup' \in 1 .. clock
    BY <1>1, SweptTyped DEF CleanerTick, LateSweep
  <2> QED BY <1>1, <2>1 DEF CleanerTick, LateSweep, Contents
<1>2. CASE CleanerStop
  BY <1>2 DEF CleanerStop
<1>3. CASE TimePasses
  BY <1>3 DEF TimePasses
<1>4. CASE Restart
  <2>1. op' \in [Clients -> Calls] /\ late' \in [Keys -> Nat]
    BY <1>4, IdleTyped DEF Restart
  <2>2. /\ cleaner' \in {"running", "done"}
        /\ once' \in {"new", "running", "done"}
        /\ clock' \in Nat /\ lastCleanup' \in 1 .. clock' /\ crashes' \in Nat
    BY <1>4 DEF Restart
  <2>3. stop' \in BOOLEAN
    BY <1>4 DEF Restart
  <2> QED BY <1>4, <2>1, <2>2, <2>3 DEF Restart
<1>5. ASSUME NEW k \in Keys, LateDelete(k) PROVE FileTypeOK'
  <2>1. late' \in [Keys -> Nat] /\ file' \in [Keys -> Contents]
    BY <1>5 DEF LateDelete, Contents
  <2> QED BY <1>5, <2>1 DEF LateDelete, Contents
<1> QED BY <1>1, <1>2, <1>3, <1>4, <1>5

LEMMA TypeStep ==
    ASSUME FileStoreConstants, FileTypeOK, [Next]_vars
    PROVE  FileTypeOK'
<1>1. CASE UNCHANGED vars
  BY <1>1 DEF vars, FileTypeOK
<1>2. CASE Finished
  BY <1>1, <1>2 DEF Finished
<1> QED BY <1>1, <1>2, TypeCall, TypeGet, TypeWrite, TypeOther
        DEF Next, Proceed

-----------------------------------------------------------------------------
(***************************************************************************)
(* The lock, and what readers rely on while they hold it.                  *)
(***************************************************************************)
LEMMA LockKept ==
    ASSUME LockHeld, NEW c \in Clients,
           \A d \in Clients : d # c => op'[d].pc = op[d].pc,
           op'[c].pc \in Exclusive => Free \/ op[c].pc \in Exclusive,
           op'[c].pc \in Shared => ~Locked \/ op[c].pc \in Shared
    PROVE  LockHeld'
<1>1. ASSUME NEW d \in Clients, d # c
      PROVE  /\ op'[c].pc \in Exclusive => op[d].pc \notin Exclusive \cup Shared
             /\ op'[c].pc \in Shared => op[d].pc \notin Exclusive
  BY <1>1 DEF LockHeld, Free, Locked
<1>2. Exclusive \cap Shared = {}
  BY DEF Exclusive, Shared
<1> QED BY <1>1, <1>2 DEF LockHeld

\* While c holds the lock alone, nobody reads.
LEMMA AloneFacts ==
    ASSUME LockHeld, NEW c \in Clients, op[c].pc \in Exclusive
    PROVE  \A d \in Clients : op[d].pc \notin Readers
BY DEF LockHeld, Exclusive, Shared, Readers

LEMMA FreeFacts ==
    ASSUME Free
    PROVE  \A d \in Clients : op[d].pc \notin Readers
BY DEF Free, Shared, Readers

LEMMA NoReaders ==
    ASSUME \A d \in Clients : op'[d].pc \notin Readers
    PROVE  ReadersAgree'
BY DEF ReadersAgree, Whole, RemoversAgree, WritersAgree, Unmoved, SwapsEntry,
       OneWriter, Writes, Readers

\* What holds of k goes on to hold if nothing of k changes but that clients
\* give it up.
LEMMA SameForKey ==
    ASSUME NEW k, Whole(k), file'[k] = file[k], temp'[k] = temp[k],
           \A d \in Clients : \/ op'[d] = op[d]
                             \/ op'[d].pc \notin Readers
                             \/ op'[d].key # k
    PROVE  Whole(k)'
<1>1. RemoversAgree(k)'
  BY DEF Whole, RemoversAgree, Readers, IsEntry
<1>2. WritersAgree(k)'
  BY DEF Whole, WritersAgree, Readers
<1>3. Unmoved(k)'
  BY DEF Whole, Unmoved, Readers
<1>4. SwapsEntry(k)'
  BY DEF Whole, SwapsEntry, Readers, IsEntry
<1>5. OneWriter(k)'
  BY DEF Whole, OneWriter, Writes, Readers
<1> QED BY <1>1, <1>2, <1>3, <1>4, <1>5 DEF Whole

LEMMA SameReaders ==
    ASSUME ReadersAgree, UNCHANGED <<file, temp, shared>>,
           \A d \in Clients : op'[d] = op[d] \/ op'[d].pc \notin Readers
    PROVE  ReadersAgree'
BY SameForKey DEF ReadersAgree

\* Steps that touch no file.
LEMMA InvCall ==
    ASSUME FileStoreConstants, FileInv, NEW c \in Clients,
           \/ Call(c) \/ Close(c) \/ CloseJoin(c) \/ TryLockFails(c)
           \/ GetMany(c) \/ SetManyLock(c)
    PROVE  LockHeld' /\ ReadersAgree'
<1>1. op \in [Clients -> Calls]
  BY DEF FileInv, FileTypeOK
<1>2. UNCHANGED <<file, temp, shared>>
  BY DEF Call, Close, CloseJoin, TryLockFails, GetMany, SetManyLock, history
<1>3. /\ \A d \in Clients : d # c => op'[d] = op[d]
      /\ \/ op'[c] = op[c]
         \/ op'[c].pc \in {"idle", "join", "sweep", "lock"}
         \/ op'[c].pc \in {"stuck", "next"} /\ Free
  <2>1. CASE Call(c)
    BY <1>1, <2>1 DEF Call, Goto
  <2>2. CASE Close(c)
    <3>1. \/ Goto(c, [pc |-> "sweep", kind |-> "close"])
          \/ Goto(c, [pc |-> "join"])
          \/ UNCHANGED op
      BY <2>2 DEF Close, FileInv, FileTypeOK
    <3> QED BY <1>1, <3>1 DEF Goto
  <2>3. CASE CloseJoin(c) \/ TryLockFails(c)
    BY <1>1, <2>3 DEF CloseJoin, TryLockFails, Return, Goto, Idle
  <2>4. CASE GetMany(c)
    BY <1>1, <2>4 DEF GetMany, Return, Goto, Idle
  <2>5. CASE SetManyLock(c)
    BY <1>1, <2>5 DEF SetManyLock, Return, Goto, Idle
  <2> QED BY <2>1, <2>2, <2>3, <2>4, <2>5
<1>4. LockHeld'
  BY <1>3, LockKept DEF FileInv, Exclusive, Shared
<1>5. ReadersAgree'
  BY <1>2, <1>3, SameReaders DEF FileInv, Readers
<1> QED BY <1>4, <1>5

\* Steps of a call that holds the lock alone or takes and leaves it at once.
LEMMA InvAlone ==
    ASSUME FileStoreConstants, FileInv, NEW c \in Clients,
           \/ Sweep(c) \/ SetOpen(c) \/ SetRename(c) \/ Delete(c) \/ Clear(c)
           \/ SetManyNext(c) \/ SetManyFill(c)
    PROVE  LockHeld' /\ ReadersAgree'
<1>1. op \in [Clients -> Calls]
  BY DEF FileInv, FileTypeOK
<1>2. Free \/ op[c].pc \in Exclusive
  BY DEF Sweep, SetOpen, SetRename, Delete, Clear, SetManyNext, SetManyFill,
         Exclusive
<1>3. /\ \A d \in Clients : d # c => op'[d] = op[d]
      /\ op'[c].pc \in {"idle", "lock", "rename", "next", "fill"}
  <2>1. CASE Sweep(c)
    <3>1. CASE op[c].kind = "close"
      BY <1>1, <2>1, <3>1 DEF Sweep, Return, Goto, Idle
    <3>2. CASE op[c].kind # "close"
      <4>1. op[c] \in [pc : {"sweep", "lock"}, keys : SUBSET Keys,
                       kind : Kinds]
        BY <1>1, <2>1, <3>2, CallFields DEF Sweep
      <4> QED BY <1>1, <2>1, <3>2, <4>1 DEF Sweep, Goto
    <3> QED BY <3>1, <3>2
  <2>2. CASE SetOpen(c)
    BY <1>1, <2>2 DEF SetOpen, Return, Goto, Idle
  <2>3. CASE SetRename(c) \/ Delete(c) \/ Clear(c)
    BY <1>1, <2>3 DEF SetRename, Delete, Clear, Return, Goto, Idle
  <2>4. CASE SetManyNext(c)
    BY <1>1, <2>4 DEF SetManyNext, Return, Goto, Idle
  <2>5. CASE SetManyFill(c)
    BY <1>1, <2>5 DEF SetManyFill, Return, Goto, Idle
  <2> QED BY <2>1, <2>2, <2>3, <2>4, <2>5
<1>4. LockHeld'
  BY <1>2, <1>3, LockKept DEF FileInv, Shared
<1>5. \A d \in Clients : op'[d].pc \notin Readers
  <2>1. \A d \in Clients : op[d].pc \notin Readers
    BY <1>2, FreeFacts, AloneFacts DEF FileInv
  <2> QED BY <1>3, <2>1 DEF Readers
<1> QED BY <1>4, <1>5, NoReaders

\* Steps of the other goroutines.
LEMMA InvOther ==
    ASSUME FileStoreConstants, FileInv,
           \/ CleanerTick \/ CleanerStop \/ TimePasses \/ Restart
           \/ \E k \in Keys : LateDelete(k) \/ LateSweep(k)
    PROVE  LockHeld' /\ ReadersAgree'
<1>1. CASE Restart
  <2>1. \A d \in Clients : op'[d].pc = "idle"
    BY <1>1 DEF Restart, Idle
  <2>2. LockHeld'
    BY <2>1 DEF LockHeld, Exclusive
  <2> QED BY <2>1, <2>2, NoReaders DEF Readers
<1>2. CASE op' = op
  <2>1. LockHeld'
    BY <1>2 DEF FileInv, LockHeld
  <2>2. CASE Free
    BY <1>2, <2>1, <2>2, FreeFacts, NoReaders
  <2>3. CASE UNCHANGED <<file, temp, shared>>
    BY <1>2, <2>1, <2>3, SameReaders DEF FileInv
  <2> QED BY <1>1, <2>2, <2>3
          DEF CleanerTick, CleanerStop, TimePasses, LateDelete, LateSweep,
              history
<1> QED BY <1>1, <1>2
        DEF CleanerTick, CleanerStop, TimePasses, LateDelete, LateSweep

\* Steps of a Get, which holds the lock with others.
LEMMA LockGet ==
    ASSUME FileStoreConstants, FileInv, NEW c \in Clients,
           \/ GetRead(c) \/ GetRemove(c) \/ GetOpen(c) \/ GetWrite(c)
           \/ GetSwap(c)
    PROVE  LockHeld'
<1>0. op \in [Clients -> Calls]
  BY DEF FileInv, FileTypeOK
<1>1. CASE GetRead(c)
  <2>1. /\ \A d \in Clients : d # c => op'[d] = op[d]
        /\ op'[c].pc \in {"idle", "remove", "open"}
    BY <1>0, <1>1, ReadFacts DEF Return, Goto, Idle
  <2>2. ~Locked
    BY <1>1 DEF GetRead
  <2> QED BY <2>1, <2>2, LockKept DEF FileInv, Exclusive
<1>2. CASE GetRemove(c) \/ GetSwap(c)
  <2>1. /\ op'[c] = Idle
        /\ \A d \in Clients : d # c => op'[d].pc = op[d].pc
    <3>1. PICK moved \in {Renamed, Removed, Dropped} :
             ReturnMoving(c, op[c].key, moved)
      BY <1>2 DEF GetRemove, GetSwap
    <3>2. moved \in [{"temp", "file", "gone"} -> {"temp", "file", "gone"}]
      BY DEF Renamed, Removed, Dropped
    <3> QED BY <1>0, <3>1, <3>2, MovingFacts
  <2> QED BY <2>1, LockKept DEF FileInv, Idle, Exclusive, Shared
<1>3. CASE GetOpen(c)
  <2>1. /\ \A d \in Clients : d # c => op'[d] = op[d]
        /\ op'[c].pc = "write"
    BY <1>0, <1>3 DEF GetOpen, Goto
  <2> QED BY <1>3, <2>1, LockKept DEF GetOpen, FileInv, Exclusive, Shared
<1>4. CASE GetWrite(c)
  <2>1. /\ \A d \in Clients : d # c => op'[d] = op[d]
        /\ op'[c].pc \in {"swap", "idle"}
    <3>1. Goto(c, [pc |-> "swap", key |-> op[c].key]) \/ Goto(c, Idle)
      BY <1>4 DEF GetWrite, Return
    <3> QED BY <1>0, <3>1 DEF Goto, Idle
  <2> QED BY <1>4, <2>1, LockKept DEF GetWrite, FileInv, Exclusive, Shared
<1> QED BY <1>1, <1>2, <1>3, <1>4

LEMMA ReadersRead ==
    ASSUME FileStoreConstants, FileInv, NEW c \in Clients, GetRead(c)
    PROVE  ReadersAgree'
<1>0. op \in [Clients -> Calls]
  BY DEF FileInv, FileTypeOK
<1>1. PICK j \in op[c].keys :
         \/ Return(c)
         \/ file[j] = Torn /\ Goto(c, [pc |-> "remove", key |-> j])
         \/ /\ Live(file[j])
            /\ Goto(c, [pc |-> "open", key |-> j, entry |-> file[j]])
  BY ReadFacts
<1>2. /\ \A d \in Clients : d # c => op'[d] = op[d]
      /\ \/ op'[c].pc = "idle"
         \/ op'[c].pc = "remove" /\ op'[c].key = j /\ ~IsEntry(file[j])
         \/ op'[c].pc = "open" /\ op'[c].key = j /\ op'[c].entry = file[j]
  BY <1>0, <1>1, EntryFacts DEF Return, Goto, Idle
<1>3. UNCHANGED <<file, temp, shared>>
  BY DEF GetRead, history
<1> SUFFICES ASSUME NEW k \in Keys, k \notin shared, Whole(k) PROVE Whole(k)'
  BY <1>3 DEF FileInv, ReadersAgree
<1>4. RemoversAgree(k)'
  BY <1>2, <1>3 DEF Whole, RemoversAgree, IsEntry
<1>5. WritersAgree(k)'
  BY <1>2, <1>3 DEF Whole, WritersAgree
<1>6. Unmoved(k)' /\ SwapsEntry(k)' /\ OneWriter(k)'
  BY <1>2, <1>3 DEF Whole, Unmoved, SwapsEntry, OneWriter, Writes, IsEntry
<1> QED BY <1>4, <1>5, <1>6 DEF Whole

LEMMA ReadersRemove ==
    ASSUME FileStoreConstants, FileInv, NEW c \in Clients, GetRemove(c)
    PROVE  ReadersAgree'
<1> DEFINE j == op[c].key
<1>0. /\ op \in [Clients -> Calls] /\ file \in [Keys -> Contents]
      /\ j \in Keys
  BY CallFields DEF FileInv, FileTypeOK, Contents, GetRemove
<1>1. /\ op'[c] = Idle
      /\ \A d \in Clients : d # c /\ ~(op[d].pc = "write" /\ op[d].key = j)
            => op'[d] = op[d]
      /\ \A d \in Clients : d # c /\ op[d].pc = "write" =>
            op'[d].pc = "write" /\ op'[d].key = op[d].key
  <2>1. Removed \in [{"temp", "file", "gone"} -> {"temp", "file", "gone"}]
    BY DEF Removed
  <2> QED BY <1>0, <2>1, MovingFacts DEF GetRemove
<1>2. /\ file' = [file EXCEPT ![j] = NoFile]
      /\ UNCHANGED <<temp, shared>>
  BY DEF GetRemove, history
<1> SUFFICES ASSUME NEW k \in Keys, k \notin shared, Whole(k) PROVE Whole(k)'
  BY <1>2 DEF FileInv, ReadersAgree
<1>3. CASE k = j
  <2>1. ~IsEntry(file[k])
    BY <1>3 DEF GetRemove, Whole, RemoversAgree
  <2>2. \A d \in Clients : op[d].key = k =>
                             op[d].pc \notin {"open", "write", "swap"}
    <3> SUFFICES ASSUME NEW d \in Clients, op[d].key = k,
                        op[d].pc \in {"open", "write"}
                 PROVE  FALSE
      BY <2>1 DEF Whole, SwapsEntry
    <3>1. op[d].entry \in Entries
      BY <1>0, CallFields
    <3> QED BY <2>1, <3>1, EntryFacts DEF Whole, WritersAgree
  <2>3. ~IsEntry(file'[k])
    BY <1>0, <1>2, <1>3, EntryFacts
  <2> QED BY <1>1, <1>3, <2>2, <2>3
          DEF Whole, RemoversAgree, WritersAgree, Unmoved, SwapsEntry,
              OneWriter, Writes, Idle, IsEntry
<1>4. CASE k # j
  <2>1. file'[k] = file[k] /\ temp' = temp
    BY <1>0, <1>2, <1>4
  <2>2. \A d \in Clients :
           \/ op'[d] = op[d]
           \/ op'[d].pc \notin Readers
           \/ op'[d].key # k
    BY <1>1, <1>4 DEF Idle, Readers
  <2> QED BY <2>1, <2>2, SameForKey
<1> QED BY <1>3, <1>4

LEMMA ReadersOpen ==
    ASSUME FileStoreConstants, FileInv, NEW c \in Clients, GetOpen(c)
    PROVE  ReadersAgree'
<1> DEFINE j == op[c].key
<1>0. /\ op \in [Clients -> Calls] /\ temp \in [Keys -> Contents]
      /\ op[c].pc = "open" /\ j \in Keys
  BY CallFields DEF FileInv, FileTypeOK, Contents, GetOpen
<1>1. /\ op' = [op EXCEPT ![c] = [pc |-> "write", key |-> j,
                                 entry |-> op[c].entry, where |-> "temp"]]
      /\ temp' = [temp EXCEPT ![j] = Torn] /\ UNCHANGED file
      /\ shared \subseteq shared'
      /\ (\E d \in Clients \ {c} : Rewriting(d, j)) => j \in shared'
  BY DEF GetOpen, Goto
<1>2. /\ \A d \in Clients : d # c => op'[d] = op[d]
      /\ op'[c].pc = "write" /\ op'[c].key = j
      /\ op'[c].entry = op[c].entry /\ op'[c].where = "temp"
  BY <1>0, <1>1
<1> SUFFICES ASSUME NEW k \in Keys, k \notin shared', Whole(k)
             PROVE  Whole(k)'
  BY <1>1 DEF FileInv, ReadersAgree
<1>3. CASE k = j
  <2>1. \A d \in Clients : d # c /\ op'[d].key = k =>
                             op'[d].pc \notin {"open", "write", "swap"}
    BY <1>1, <1>2, <1>3 DEF Rewriting
  <2>2. file[k] = op[c].entry
    BY <1>0, <1>3 DEF Whole, WritersAgree
  <2>3. RemoversAgree(k)'
    BY <1>1, <1>2 DEF Whole, RemoversAgree, IsEntry
  <2>4. WritersAgree(k)' /\ SwapsEntry(k)' /\ OneWriter(k)'
    BY <1>1, <1>2, <2>1, <2>2 DEF WritersAgree, SwapsEntry, OneWriter, Writes
  <2>5. temp'[k] = Torn
    BY <1>0, <1>1, <1>3
  <2>6. Unmoved(k)'
    BY <1>2, <2>1, <2>5 DEF Unmoved, Torn
  <2> QED BY <2>3, <2>4, <2>6 DEF Whole
<1>4. CASE k # j
  BY <1>0, <1>1, <1>2, <1>4, SameForKey
<1> QED BY <1>3, <1>4

LEMMA ReadersWrite ==
    ASSUME FileStoreConstants, FileInv, NEW c \in Clients, GetWrite(c)
    PROVE  ReadersAgree'
<1> DEFINE j == op[c].key
<1>0. /\ op \in [Clients -> Calls]
      /\ temp \in [Keys -> Contents] /\ file \in [Keys -> Contents]
      /\ op[c].pc = "write" /\ j \in Keys /\ op[c].entry \in Entries
      /\ op[c].where \in {"temp", "file", "gone"}
  BY CallFields DEF FileInv, FileTypeOK, Contents, GetWrite
<1>1. /\ \A d \in Clients : d # c => op'[d] = op[d]
      /\ UNCHANGED shared
      /\ \/ op'[c].pc = "idle" /\ UNCHANGED <<file, temp>>
         \/ /\ op'[c].pc = "swap" /\ op'[c].key = j
            /\ op[c].where = "temp" =>
                  /\ \E new \in Written(temp[j], op[c].entry) :
                        temp' = [temp EXCEPT ![j] = new]
                  /\ UNCHANGED file
            /\ \A k \in Keys \ {j} : file'[k] = file[k] /\ temp'[k] = temp[k]
  <2>1. CASE Return(c) /\ UNCHANGED <<file, temp>>
    BY <1>0, <2>1 DEF GetWrite, Return, Goto, Idle, history
  <2>2. CASE Goto(c, [pc |-> "swap", key |-> j])
    <3>1. /\ \A d \in Clients : d # c => op'[d] = op[d]
          /\ op'[c].pc = "swap" /\ op'[c].key = j
      BY <1>0, <2>2 DEF Goto
    <3>2. \/ /\ op[c].where = "temp"
             /\ \E new \in Written(temp[j], op[c].entry) :
                   temp' = [temp EXCEPT ![j] = new]
             /\ UNCHANGED file
          \/ /\ op[c].where = "file"
             /\ \E new \in Written(file[j], op[c].entry) :
                   file' = [file EXCEPT ![j] = new]
             /\ UNCHANGED temp
          \/ op[c].where = "gone" /\ UNCHANGED <<file, temp>>
          \/ op'[c] = Idle
      BY <1>0 DEF GetWrite, Return, Goto
    <3>3. op'[c] # Idle
      BY <3>1 DEF Idle
    <3>4. \A k \in Keys \ {j} : file'[k] = file[k] /\ temp'[k] = temp[k]
      BY <1>0, <3>2, <3>3
    <3>5. UNCHANGED shared
      BY DEF GetWrite, history
    <3> QED BY <3>1, <3>2, <3>3, <3>4, <3>5
  <2> QED BY <2>1, <2>2 DEF GetWrite
<1>2. CASE op'[c].pc = "idle" /\ UNCHANGED <<file, temp>>
  BY <1>1, <1>2, SameReaders DEF FileInv, Readers
<1> SUFFICES ASSUME NEW k \in Keys, k \notin shared, Whole(k),
                    op'[c].pc = "swap", op'[c].key = j
             PROVE  Whole(k)'
  BY <1>1, <1>2 DEF FileInv, ReadersAgree
<1>3. CASE k = j
  <2>1. /\ op[c].where = "temp" /\ temp[k] = Torn
        /\ file[k] = op[c].entry /\ IsEntry(file[k])
    BY <1>0, <1>3, EntryFacts DEF Whole, Unmoved, WritersAgree
  <2>2. temp'[k] = op[c].entry /\ UNCHANGED file
    BY <1>0, <1>1, <1>3, <2>1 DEF Written
  <2>3. \A d \in Clients : d # c /\ op'[d].key = k =>
                             op'[d].pc \notin {"write", "swap"}
    BY <1>0, <1>1, <1>3 DEF Whole, OneWriter, Writes
  <2>4. RemoversAgree(k)' /\ WritersAgree(k)'
    BY <1>1, <2>2 DEF Whole, RemoversAgree, WritersAgree, IsEntry
  <2>5. Unmoved(k)' /\ SwapsEntry(k)' /\ OneWriter(k)'
    BY <2>1, <2>2, <2>3 DEF Unmoved, SwapsEntry, OneWriter, Writes, IsEntry
  <2> QED BY <2>4, <2>5 DEF Whole
<1>4. CASE k # j
  <2>1. file'[k] = file[k] /\ temp'[k] = temp[k]
    BY <1>1, <1>4
  <2> QED BY <1>1, <1>4, <2>1, SameForKey
<1> QED BY <1>3, <1>4

LEMMA ReadersSwap ==
    ASSUME FileStoreConstants, FileInv, NEW c \in Clients, GetSwap(c)
    PROVE  ReadersAgree'
<1> DEFINE j == op[c].key
<1>0. /\ op \in [Clients -> Calls]
      /\ temp \in [Keys -> Contents] /\ file \in [Keys -> Contents]
      /\ op[c].pc = "swap" /\ j \in Keys
  BY CallFields DEF FileInv, FileTypeOK, Contents, GetSwap
<1>1. /\ op'[c] = Idle
      /\ \A d \in Clients : d # c /\ ~(op[d].pc = "write" /\ op[d].key = j)
            => op'[d] = op[d]
      /\ \A d \in Clients : d # c /\ op[d].pc = "write" =>
            op'[d].pc = "write" /\ op'[d].key = op[d].key
  <2>1. PICK moved \in {Renamed, Dropped} : ReturnMoving(c, j, moved)
    BY DEF GetSwap
  <2>2. moved \in [{"temp", "file", "gone"} -> {"temp", "file", "gone"}]
    BY DEF Renamed, Dropped
  <2> QED BY <1>0, <2>1, <2>2, MovingFacts
<1>2. /\ temp' = [temp EXCEPT ![j] = NoFile]
      /\ file' = [file EXCEPT ![j] = temp[j]] \/ UNCHANGED file
      /\ UNCHANGED shared
  BY DEF GetSwap, history
<1> SUFFICES ASSUME NEW k \in Keys, k \notin shared, Whole(k) PROVE Whole(k)'
  BY <1>2 DEF FileInv, ReadersAgree
<1>3. CASE k = j
  <2>1. temp[k] = file[k]
    BY <1>0, <1>3 DEF Whole, SwapsEntry
  <2>2. file'[k] = file[k]
    BY <1>0, <1>2, <1>3, <2>1
  <2>3. \A d \in Clients : d # c /\ op[d].key = k =>
                             op[d].pc \notin {"write", "swap"}
    BY <1>0, <1>3 DEF Whole, OneWriter, Writes
  <2>4. \A d \in Clients : op'[d] = op[d] \/ op'[d].pc = "idle"
    BY <1>1, <1>3, <2>3 DEF Idle
  <2>5. \A d \in Clients : op'[d].key = k => op'[d].pc \notin {"write", "swap"}
    BY <1>1, <2>3, <2>4, <1>3 DEF Idle
  <2>6. RemoversAgree(k)' /\ WritersAgree(k)'
    BY <2>2, <2>4 DEF Whole, RemoversAgree, WritersAgree, IsEntry
  <2>7. Unmoved(k)' /\ SwapsEntry(k)' /\ OneWriter(k)'
    BY <2>5 DEF Unmoved, SwapsEntry, OneWriter, Writes
  <2> QED BY <2>6, <2>7 DEF Whole
<1>4. CASE k # j
  <2>1. file'[k] = file[k] /\ temp'[k] = temp[k]
    BY <1>0, <1>2, <1>4
  <2>2. \A d \in Clients :
           \/ op'[d] = op[d]
           \/ op'[d].pc \notin Readers
           \/ op'[d].key # k
    BY <1>1, <1>4 DEF Idle, Readers
  <2> QED BY <2>1, <2>2, SameForKey
<1> QED BY <1>3, <1>4

-----------------------------------------------------------------------------
(***************************************************************************)
(* FileInv is inductive.  The lock alone does not protect a file, for Gets *)
(* that share it rename files over the one they have read: what they rely  *)
(* on is that no other Get writes the same temporary file.                 *)
(***************************************************************************)
LEMMA InvInit == ASSUME FileStoreConstants, Init PROVE FileInv
<1>1. \A c \in Clients : op[c].pc = "idle"
  BY DEF Init, Idle
<1>2. LockHeld
  BY <1>1 DEF LockHeld, Exclusive
<1>3. ReadersAgree
  BY <1>1 DEF ReadersAgree, Whole, RemoversAgree, WritersAgree, Unmoved,
              SwapsEntry, OneWriter, Writes
<1> QED BY <1>2, <1>3, TypeInit DEF FileInv

LEMMA InvGet ==
    ASSUME FileStoreConstants, FileInv, NEW c \in Clients,
           \/ GetRead(c) \/ GetRemove(c) \/ GetOpen(c) \/ GetWrite(c)
           \/ GetSwap(c)
    PROVE  LockHeld' /\ ReadersAgree'
BY LockGet, ReadersRead, ReadersRemove, ReadersOpen, ReadersWrite, ReadersSwap

LEMMA InvNext ==
    ASSUME FileStoreConstants, FileInv, [Next]_vars
    PROVE  FileInv'
<1>1. FileTypeOK'
  BY TypeStep DEF FileInv
<1>2. CASE UNCHANGED vars
  <2>1. LockHeld'
    BY <1>2 DEF vars, FileInv, LockHeld
  <2>2. ReadersAgree'
    BY <1>2, SameReaders DEF vars, FileInv
  <2> QED BY <1>1, <2>1, <2>2 DEF FileInv
<1>3. CASE Finished
  BY <1>2, <1>3 DEF Finished
<1>4. ASSUME NEW c \in Clients, Call(c) \/ Close(c) \/ Proceed(c)
      PROVE  LockHeld' /\ ReadersAgree'
  BY <1>4, InvCall, InvAlone, InvGet DEF Proceed
<1> QED BY <1>1, <1>2, <1>3, <1>4, InvOther DEF Next, FileInv

LEMMA FileInvHolds == ASSUME FileStoreConstants PROVE Spec => []FileInv
<1>1. Init => FileInv
  BY InvInit
<1>2. FileInv /\ [Next]_vars => FileInv'
  BY InvNext
<1> QED BY <1>1, <1>2, PTL DEF Spec

\* Files, temporary files and the calls under way are of their types, after
\* any failure of the disk and any crash.
THEOREM TypeCorrect == ASSUME FileStoreConstants PROVE Spec => []FileTypeOK
<1>1. FileInv => FileTypeOK
  BY DEF FileInv
<1> QED BY <1>1, FileInvHolds, PTL

\* f.mu keeps its promise: a call that holds it for writing holds it alone
\* (Set, SetMany, GetMany against Get, Delete, Clear and Close).
THEOREM LockHeldHolds == ASSUME FileStoreConstants PROVE Spec => []LockHeld
<1>1. FileInv => LockHeld
  BY DEF FileInv
<1> QED BY <1>1, FileInvHolds, PTL

-----------------------------------------------------------------------------
(***************************************************************************)
(* Which steps make a file wrong.                                          *)
(***************************************************************************)
Excused(k) ==
    \/ \E c \in Clients : op'[c].pc = "fill" /\ op'[c].key = k
    \/ late'[k] < late[k]
    \/ k \in shared

LEMMA LiveFacts ==
    ASSUME FileStoreConstants
    PROVE  ~Live(NoFile) /\ ~Live(Torn)
BY EntryFacts DEF Live

\* A file that stays, or goes when it is not live, is right if it was.
LEMMA FaithfulKept ==
    ASSUME FileStoreConstants, NEW k, Faithful(k), clock' = clock,
           truth'[k] = truth[k],
           \/ file'[k] = file[k]
           \/ ~Live(file[k]) /\ file'[k] \in {NoFile, Torn}
    PROVE  Faithful(k)'
BY LiveFacts DEF Faithful, Live, Expired, IsEntry, NoFile, Torn

\* So is one that is as it should be.
LEMMA FaithfulNow ==
    ASSUME NEW k, file'[k] = truth'[k]
    PROVE  Faithful(k)'
BY DEF Faithful, Live, Expired, IsEntry

LEMMA FaithfulSwept ==
    ASSUME FileStoreConstants, FileInv, NEW k \in Keys, Faithful(k),
           SweepFiles, UNCHANGED <<clock, truth>>
    PROVE  Faithful(k)'
<1>1. file'[k] = IF Live(file[k]) THEN file[k] ELSE NoFile
  BY DEF SweepFiles
<1> QED BY <1>1, FaithfulKept

LEMMA FaithfulLater ==
    ASSUME FileStoreConstants, FileInv, NEW k \in Keys, Faithful(k),
           UNCHANGED <<file, truth>>, clock' = clock + 1
    PROVE  Faithful(k)'
<1>1. /\ clock \in Nat /\ file[k] \in Contents
      /\ truth[k] \in Entries \cup {NoFile}
  BY DEF FileInv, FileTypeOK, Contents
<1>2. ASSUME NEW e \in Contents, Live(e)' PROVE Live(e)
  <2>1. e \in Entries /\ e.expires \in Nat
    BY <1>2, EntryFacts DEF Live, IsEntry, Entries, Contents
  <2> QED BY <1>1, <1>2, <2>1 DEF Live, Expired, IsEntry, IsExpired
<1>3. /\ Live(file[k])' => Live(file[k])
      /\ Live(truth[k])' => Live(truth[k])
  BY <1>1, <1>2 DEF Contents, Live, Expired, IsEntry
<1> QED BY <1>1, <1>3 DEF Faithful

\* Calls that only read, take or give back the lock, or sweep.
LEMMA FaithfulCall ==
    ASSUME FileStoreConstants, FileInv, NEW k \in Keys, Faithful(k),
           NEW c \in Clients,
           \/ Call(c) \/ Close(c) \/ Sweep(c) \/ CloseJoin(c)
           \/ TryLockFails(c) \/ GetMany(c) \/ SetManyLock(c)
           \/ GetRead(c) \/ GetOpen(c) \/ SetOpen(c)
    PROVE  Faithful(k)'
<1>1. CASE Sweep(c)
  BY <1>1, FaithfulSwept DEF Sweep, history
<1>2. CASE UNCHANGED <<file, truth, clock>>
  BY <1>2, FaithfulKept
<1> QED BY <1>1, <1>2
        DEF Call, Close, CloseJoin, TryLockFails, GetMany, SetManyLock,
            GetRead, GetOpen, SetOpen, otherVars, history

\* Get, as far as it changes files.
LEMMA FaithfulGet ==
    ASSUME FileStoreConstants, FileInv, NEW k \in Keys, k \notin shared,
           Faithful(k), NEW c \in Clients,
           GetRemove(c) \/ GetWrite(c) \/ GetSwap(c)
    PROVE  Faithful(k)'
<1>0. /\ op[c] \in Calls /\ file \in [Keys -> Contents]
      /\ Whole(k)
      /\ UNCHANGED <<clock, truth>>
  BY DEF FileInv, FileTypeOK, ReadersAgree, Contents, GetRemove, GetWrite,
         GetSwap, otherVars, history
<1>1. CASE GetRemove(c)
  <2>1. file' = [file EXCEPT ![op[c].key] = NoFile] /\ op[c].pc = "remove"
    BY <1>1 DEF GetRemove
  <2>2. op[c].key = k => ~Live(file[k])
    BY <1>0, <2>1 DEF Whole, RemoversAgree, Live
  <2> QED BY <1>0, <2>1, <2>2, FaithfulKept
<1>2. CASE GetWrite(c)
  <2>1. op[c].pc = "write" /\ op[c].key \in Keys
    BY <1>0, <1>2, CallFields DEF GetWrite
  <2>2. CASE op[c].key = k
    <3>1. op[c].where = "temp"
      BY <1>0, <2>1, <2>2 DEF Whole, Unmoved
    <3>2. UNCHANGED file
      BY <1>2, <3>1 DEF GetWrite
    <3> QED BY <1>0, <3>2, FaithfulKept
  <2>3. CASE op[c].key # k
    <3>1. \/ UNCHANGED file
          \/ \E new : file' = [file EXCEPT ![op[c].key] = new]
      <4>1. op[c].where \in {"temp", "file", "gone"}
        BY <1>0, <2>1, CallFields
      <4> QED BY <1>2, <4>1 DEF GetWrite
    <3>2. file'[k] = file[k]
      BY <1>0, <2>3, <3>1
    <3> QED BY <1>0, <3>2, FaithfulKept
  <2> QED BY <2>2, <2>3
<1>3. CASE GetSwap(c)
  <2>1. /\ op[c].pc = "swap"
        /\ UNCHANGED file \/ file' = [file EXCEPT ![op[c].key] = temp[op[c].key]]
    BY <1>3 DEF GetSwap
  <2>2. op[c].key = k => temp[k] = file[k]
    BY <1>0, <2>1 DEF Whole, SwapsEntry
  <2>3. file'[k] = file[k]
    BY <1>0, <2>1, <2>2
  <2> QED BY <1>0, <2>3, FaithfulKept
<1> QED BY <1>1, <1>2, <1>3

\* Calls that change what a key should have.
LEMMA FaithfulWrite ==
    ASSUME FileStoreConstants, FileInv, NEW k \in Keys, Faithful(k),
           NEW c \in Clients,
           \/ SetRename(c) \/ Delete(c) \/ Clear(c)
           \/ SetManyNext(c) \/ SetManyFill(c)
    PROVE  Faithful(k)' \/ Excused(k)
<1>0. /\ op \in [Clients -> Calls] /\ file \in [Keys -> Contents]
      /\ truth \in [Keys -> Entries \cup {NoFile}]
      /\ UNCHANGED clock
  BY DEF FileInv, FileTypeOK, Contents, SetRename, Delete, Clear, SetManyNext,
         SetManyFill, otherVars
<1>1. ASSUME NEW j, NEW e, file' = [file EXCEPT ![j] = e],
             truth' = [truth EXCEPT ![j] = e]
      PROVE  Faithful(k)'
  <2>1. CASE j = k
    BY <1>0, <1>1, <2>1, FaithfulNow
  <2>2. CASE j # k
    BY <1>0, <1>1, <2>2, FaithfulKept
  <2> QED BY <2>1, <2>2
<1>2. CASE UNCHANGED <<file, truth>>
  BY <1>0, <1>2, FaithfulKept
<1>3. CASE SetRename(c) \/ SetManyFill(c)
  BY <1>1, <1>2, <1>3 DEF SetRename, SetManyFill
<1>4. CASE Delete(c)
  <2>1. PICK gone \in SUBSET op[c].keys :
           /\ file' = [j \in Keys |-> IF j \in gone THEN NoFile ELSE file[j]]
           /\ truth' = [j \in Keys |-> IF j \in gone THEN NoFile
                                       ELSE truth[j]]
    BY <1>4 DEF Delete
  <2> QED BY <1>0, <2>1, FaithfulNow, FaithfulKept
<1>5. CASE Clear(c)
  BY <1>5, FaithfulNow DEF Clear
<1>6. CASE SetManyNext(c)
  <2>1. CASE UNCHANGED file
    BY <1>2, <1>6, <2>1 DEF SetManyNext, history
  <2>2. ASSUME NEW j, NEW o, file' = [file EXCEPT ![j] = Torn],
               Goto(c, o), o.pc = "fill", o.key = j
        PROVE  Faithful(k)' \/ Excused(k)
    <3>1. op'[c] = o
      BY <1>0, <2>2 DEF Goto
    <3>2. CASE j = k
      BY <2>2, <3>1, <3>2 DEF Excused
    <3>3. CASE j # k
      BY <1>0, <1>6, <2>2, <3>3, FaithfulKept DEF SetManyNext, history
    <3> QED BY <3>2, <3>3
  <2> QED BY <1>6, <2>1, <2>2 DEF SetManyNext
<1> QED BY <1>3, <1>4, <1>5, <1>6

\* The other goroutines, the clock, and a crash.
LEMMA FaithfulOther ==
    ASSUME FileStoreConstants, FileInv, NEW k \in Keys, Faithful(k),
           \/ CleanerTick \/ CleanerStop \/ TimePasses \/ Restart
           \/ \E j \in Keys : LateDelete(j) \/ LateSweep(j)
    PROVE  Faithful(k)' \/ Excused(k)
<1>0. late \in [Keys -> Nat] /\ file \in [Keys -> Contents]
  BY DEF FileInv, FileTypeOK, Contents
<1>1. CASE CleanerTick \/ \E j \in Keys : LateSweep(j)
  BY <1>1, FaithfulSwept DEF CleanerTick, LateSweep, history
<1>2. CASE CleanerStop \/ Restart
  BY <1>2, FaithfulKept DEF CleanerStop, Restart, history
<1>3. CASE TimePasses
  BY <1>3, FaithfulLater DEF TimePasses, history
<1>4. ASSUME NEW j \in Keys, LateDelete(j)
      PROVE  Faithful(k)' \/ Excused(k)
  <2>1. CASE j = k
    BY <1>0, <1>4, <2>1 DEF LateDelete, Excused
  <2>2. CASE j # k
    BY <1>0, <1>4, <2>2, FaithfulKept DEF LateDelete, history
  <2> QED BY <2>1, <2>2
<1> QED BY <1>1, <1>2, <1>3, <1>4

LEMMA FaithfulStep ==
    ASSUME FileStoreConstants, FileInv, NEW k \in Keys, Faithful(k),
           [Next]_vars
    PROVE  Faithful(k)' \/ Excused(k)
<1>1. CASE UNCHANGED vars \/ Finished
  BY <1>1, FaithfulKept DEF vars, Finished
<1>2. ASSUME NEW c \in Clients, Call(c) \/ Close(c) \/ Proceed(c)
      PROVE  Faithful(k)' \/ Excused(k)
  BY <1>2, FaithfulCall, FaithfulGet, FaithfulWrite DEF Proceed, Excused
<1> QED BY <1>1, <1>2, FaithfulOther DEF Next

\* No step makes the file of a key wrong but a SetMany's that truncates it, a
\* late Delete's, and one of a key whose temporary file Gets have shared: a
\* crash or a failure of the disk, wherever it falls, costs no entry of a Set
\* and brings no deleted one back (FileStore.Get, Set, SetMany).
THEOREM OnlyThreeLoseEntriesHolds ==
    ASSUME FileStoreConstants
    PROVE  Spec => OnlyThreeLoseEntries
<1>1. FileInv /\ [Next]_vars =>
         [\A k \in Keys : Faithful(k) /\ ~Faithful(k)' =>
             \/ \E c \in Clients : op'[c].pc = "fill" /\ op'[c].key = k
             \/ late'[k] < late[k]
             \/ k \in shared]_vars
  BY FaithfulStep DEF Excused
<1> QED BY <1>1, FileInvHolds, PTL DEF Spec, OnlyThreeLoseEntries
=============================================================================
