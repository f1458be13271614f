# A TLA+ development for gencache

gencache is a generic caching library for Go: a cache with TTLs and eviction,
stores behind it, batch calls, and wrappers that pool or compress values. This
directory holds TLA+ modules that model its concurrent and stateful core, TLC
configurations that check them on small instances, and proofs that TLAPS checks
for every instance. `PROJECT.json` is the index: every run, the source lines of
every definition, the hazards of the code, and for each property a small
mutation of the model under which it fails.

    tlc -workers 2 -config MCCacheConcurrent.cfg MCCache.tla    # a run
    tlapm CacheProofs.tla                                       # the proofs of a module

## Inventory

Paths are relative to the repository. "Hard" is what a test hardly reaches;
"correct" is what the properties should say.

| component | state | operations | interacts with | hard | correct |
|---|---|---|---|---|---|
| cache core (`cache.go`, `options.go`) | the items map behind an atomic pointer, the policy, `stats`, `closed`, `closeOnce`, the cleanup goroutine | Get, Set, Delete, Clear, Close, the `...WithContext` forms, GetMany/SetMany/DeleteMany, GetAll, Size, SetCapacity, ResetStats, OnEvent, cleanup | calls policy, store and callbacks under its lock | Get gives up the read lock before it removes an expired entry; Delete and Clear replace the map while Set and cleanup change it in place; cleanup works from keys it collected earlier; the store may fail half way through a Set; Close waits for a goroutine | size limit; nothing lost, nothing back from the dead; cleanup removes only what is expired; Set finds room; every call returns |
| ttl (`ttl/ttl.go`) | none | Validate, Normalize, GetExpirationTime, IsExpired | used by the cache and the stores | the zero time is before every time | - |
| eviction policies (`policy/`) | LRU, FIFO: a map and a list; LFU: a map and a heap with index fields | OnGet, OnSet, OnDelete, OnClear, Evict, Size, Capacity | told by the cache what happens, asked for victims | two structures that must agree after any sequence of calls; capacity 0 and at capacity; removal from the middle of the heap | the two agree; the victim is the right one; all three keep one contract |
| memory store (`store/memory.go`, `store/options.go`) | the items, `memoryUsage`, `stop`, the cleanup goroutine | Get, Set, Delete, Clear, GetMany, SetMany, DeleteMany, Close, ForceCleanup, cleanup | a Store of the cache | Get gives up its lock before it removes; the account must follow every change; contexts end in the middle of DeleteMany | both limits hold; the account covers the entries; cleanup ends |
| batch operations (`batch.go`) | channels, a semaphore, wait groups, one goroutine per key | GetMany, SetMany, DeleteMany | calls the cache from many goroutines | the end of the context races the answers; channels closed while workers send; waiting for tokens | success means done; the limit on concurrency; every call returns, nothing leaks |
| object pool (`pool.go`) | a `sync.Pool` of value pointers, pool statistics, a cleanup goroutine | Set, Get, Delete, Clear, Cleanup, Close | the cache stores the pointers, a callback of the cache puts them back | a pointer in the pool and in the cache at once; reading through a pointer after the lock is gone | a pointer has one owner |
| compression (`compression.go`) | the configuration under a lock, statistics, a statistics goroutine | Get, Set, GetMany, SetMany, SetCompressionConfig, ... | stores wrapped values in the cache | the configuration is read twice for one value; gob, `nil` and interface types as `V` | what was set is what Get returns |
| file store (`store/file.go`) | one file per key, a temporary file per key, statistics, a cleanup goroutine | Get, Set, Delete, Clear, GetMany, SetMany, DeleteMany, Close, cleanup | a Store of the cache; the file system outlives the process | Gets that share a temporary file; TryLock that fails; deletion in a goroutine of its own; crashes | a file is read whole or not at all; no update is lost |
| store interface and helpers (`store/store.go`, `store/helper/`) | none | - | - | - | - |
| metrics (`metrics/`), errors (`errors/`), SafeCounter (`internal/utils.go`) | counters | - | written, never read, by the rest | - | - |

## Modules

| module | what it is |
|---|---|
| `TTL` | the arithmetic of package `ttl` on integers; Go's zero time is `Never = 0` and every clock starts at 1 |
| `EvictionPolicy` | abstract: what the `Policy` interface promises, whatever the order of eviction |
| `LRUList` | the record `[items, list]` of the LRU policy and one operator per method; used by `LRU` and by `Cache` |
| `LRU`, `FIFO`, `LFU` | the three policies as state machines, one action per method (each method holds the policy's own mutex); LFU has `container/heap`'s up, down, Fix and Remove with the index fields |
| `Policies` | `LRU`, `FIFO` and `LFU` next to each other: what FIFO and LFU promise, stated for the run and the theorems alike |
| `MCPolicies` | the three side by side; a behaviour picks one at its start, so the states add up instead of multiplying |
| `Cache` | `cache.go`: clients, the cleanup goroutine, the LRU policy, an optional store, time |
| `MCCache` | model values and symmetry for `Cache` |
| `MemoryStore` | `store/memory.go` with several clients, contexts, and its cleanup goroutine |
| `Compression` | `compression.go`: the two readings of the configuration, the tags, and what Get makes of what is stored |
| `MCMemoryStore` | model values for `MemoryStore` |
| `FileStore` | `store/file.go`: calls, cleanup and late deletions on a disk that may fail, in a process that may crash |
| `Batch` | one call of `batch.go` with all its goroutines |
| `MCFileBatch` | `FileStore` and `Batch` side by side |
| `MCFileStore` | `FileStore` alone, for the runs that end in a counterexample |
| `PooledCache`, `MCPooledCache` | `pool.go` over the actions of `Cache` |
| `MCWrappers` | side by side: `PooledCache` and `Compression`, which both wrap a cache, and a `Cache` of one client over a store that works |
| `LRUListProofs`, `PolicyProofs` | theorems about the LRU list operators, and about the three policies |
| `CacheProofs` | theorems about `Cache`: the inductive invariant, the action properties, and the invariants that hold while no Get does harm |
| `CompressionProofs`, `FileStoreProofs`, `MemoryStoreProofs` | theorems about the module of that name |
| `PooledCacheProofs` | theorems about `PooledCache`, from those about the actions of `Cache`, and what follows for `MCWrappers` |
| `BatchProofs` | theorems about `Batch`, and what follows for `MCFileBatch` |

`PooledCache` extends `Cache`, which uses `TTL` and `LRUList`; `MemoryStore` and
`FileStore` use `TTL`; `LRU`, `FIFO` and `LFU` instantiate `EvictionPolicy` with
their own set of tracked keys. Modules put "side by side" share no state: a
behaviour uses the one that is chosen at its start, and one run checks both.

### Cache

*Map identities.* `items` is an atomic pointer to a Go map. Set and cleanup
write into the map it points to; Delete, Clear and Close install another one;
Get, having found an expired entry under the read lock, takes the write lock,
deletes the key from the map it captured before, and installs *that* map
(`cache.go:414-419`). So `heap[m]` is the contents of map `m`, `cur` the map
that is installed, and a Get between its two critical sections holds an
identity (`op[c].map`). Maps that nothing refers to are emptied (`Collected`)
and used again, which is the garbage collector at work.

*Atomicity.* A stretch of code under `c.mu` is one action; the lock is not a
variable. A call is split exactly where the code is outside the lock:

| action | code |
|---|---|
| `CallRefused` | the checks that open Get, Set, Delete, Clear: closed cache, context done |
| `GetBegin`; `GetHit`, `GetFindsExpired`, `GetFindsNothing`; `GetRemoveExpired`; `GetFromStore`, `GetMiss` | Get: the check; the lookup; the removal; the store |
| `SetBegin`; `SetCommit`, `SetNoRoom` | Set: the check, the TTL and the expiry time; eviction, insertion, store, policy under the lock |
| `DeleteBegin`, `DeleteCommit`, `ClearBegin`, `ClearCommit`, `ResetStats` | Delete, Clear, ResetStats |
| `CleanupTick`, `CleanupScan`, `CleanupChunk`, `CleanupStop` | the cleanup goroutine: the tick and its `now`; the collection of keys; one chunk; the end |
| `CloseBegin`, `CloseAgain`, `CloseSweepDone`, `CloseCommit`, `CloseReturn` | Close and the callers that wait for `closeOnce` |

*History.* `truth[k]` is the entry that key `k` should have, going by the order
in which Sets, Deletes, Clears and evictions took the lock. It is what
`NoLostUpdate`, `NoResurrection` and `OnlyGetDisturbs` compare the map with.

*Abstractions.* `c.closed` is read once per critical section (the code reads it
again in `getItems`). Setting `closed` and closing `cleanupStop` are one step,
and so are the last steps of Close. The iteration order of a Go map is any
order (`Some`). The store is a map with its own expiry times that may fail or
miss whenever `StoreMayFail`, and always once Close has closed it. Of the
statistics only `Size` is kept: the others are written and never read. Access
metadata of entries is written and never read by the cache either. Event
callbacks do nothing to the cache's own state; the one of `pool.go` is in
`PooledCache`. The branch for
a cache without a policy is dead: `New` installs LRU when none is given. GetMany,
SetMany and DeleteMany of the cache are loops over the single calls, that is,
several calls of one client. Time advances at any moment, by one.

### MemoryStore

Every method that holds the lock from start to end is one action. `Get` is
`GetLookup` (under the read lock) and `GetCheck` (the test of the entry that was
found, and the removal under the write lock, without another look); `GetMany`
repeats them; `DeleteMany` is `DeleteManyNext` and `DeleteManyOne` (Delete with
its own look at the context, whose error is dropped). A context may end at every
place where it is looked at, so GetMany and DeleteMany may give up between two
keys; a call whose context is done at its start changes nothing and is left out.
`CtxDone` ends the context that the store was created with, which the cleanup
goroutine listens to. A value is the number of bytes `calculateMemoryUsage`
gives its entry. A Set that is refused leaves everything as it was. Lists of
keys are sets: a second occurrence of a key in a list changes nothing after the
first.

### FileStore

*The lock* `mu` is known by where the calls stand: one in an `Exclusive` step
holds it, one in a `Shared` step holds it for reading, and `Free` and `Locked`
read it off. What holds it from start to end and only reads or removes files is
one action; what writes a file is two, for `os.WriteFile` truncates it first.
A file that does not parse is `Torn`. `file[k]` and `temp[k]` are the directory
and outlive the process; everything else but the histories is lost in `Restart`.

| action | code |
|---|---|
| `Call`, `Sweep` | the start of every call, and `maybeCleanup` with the `forceCleanup` that is due, before the lock |
| `GetRead`, `GetRemove`, `GetOpen`, `GetWrite`, `GetSwap` | Get under the read lock: the file is read; removed if it does not parse; or rewritten by way of the temporary file, which is opened, written and renamed |
| `LateSweep`, `LateDelete` | the Delete of an expired key that Get starts in a goroutine of its own, with its maybeCleanup |
| `SetOpen`, `SetRename` | Set under the lock: the temporary file is written, and renamed |
| `TryLockFails` | Delete, Clear and the `...Many` calls, which give up if somebody has the lock |
| `Delete`, `Clear`, `GetMany` | those calls when they get it |
| `SetManyLock`, `SetManyNext`, `SetManyFill` | SetMany, which writes each file in place |
| `Close`, `CloseJoin`, `Sweep` | Close with its last cleanup, and the callers that wait for `closeOnce` |
| `CleanerTick`, `CleanerStop` | the cleanup goroutine |
| `Restart` | a crash, and `NewFileStore` on the same directory |

Gets of one key share a temporary file and run at once. A writer keeps writing
to the file it opened: `where` says whether that still has the temporary name,
has been renamed to the name of the key, or has no name any more, and
`ReturnMoving` keeps it up to date when another call renames or removes the
file. `Written` allows the end of a longer text to stay behind a shorter one.

`truth[k]` is the entry that the Sets, SetManys, Deletes and Clears that went
through give `k`; `shared` are the keys whose temporary file two Gets have had
open at once since the last Set. `Faithful(k)` compares the file with the truth.

Left out: `Keys`, `Size` and `MemoryUsage`, which only read; access times and
statistics, which no decision reads; the text of names and JSON. Whether a
TryLock fails is not computed but allowed whenever someone else may hold the
lock or wait for it. Removing a file never fails, writing and renaming may.

### Compression

A value is a record of what decisions are taken on and of what becomes of it in
the codecs: its kind (a `[]byte`, the `nil` of an interface type, anything
else), its encoded size, whether its bytes happen to be something a decoder
accepts (`seemsEncoded`), and what gob does with it (`gob`). Gob refuses some
values when encoding, and the Set then stores them as they are; some fail only
when decoding; and some come back *changed*, without an error, for gob leaves
out fields that are not exported and forgets the difference between a pointer to
zero and none. The type parameter `V` is `[]byte`, `any`, another interface, or
another type: Get tells `[]byte` and interfaces from the rest, and its assertion
`any(decompressed).(V)` (`compression.go:173`) panics if `V` has methods.

What the inner cache holds is a value, the codec that made its bytes and the tag
it was given. `SetBegin` reads the configuration and encodes; `SetStore`
compresses, which reads the configuration again, and stores, which the inner
cache may refuse; `SetCompressionConfig` may fall in between. `Get` is an
operator that gives the set of possible answers, an error, a panic and a value
that nobody set (`Garbage`) among them: Get changes nothing here and reads the
inner cache once. It follows the code: `Decompress` by the tag; then `Delivered`
as bytes or `Decoded` by gob; `GetRaw` for what was not compressed. The inner
cache keeps what it is given until it is deleted (`Delete`, which also stands for
its evictions). The codecs are library code, known by one fact: data of the zlib
writer may pass for LZW, and no other writer's for another reader's (`Mistaken`).
Not represented: a nil pointer as a value (gob panics when encoding it, and the
Set stores nothing), a `CompressedValue` or something whose `Unwrap` gives one as
a value, and the difference between a nil and an empty `[]byte`.

### Batch

The caller, its workers (`worker[k]`) and DeleteMany's spawner take their steps
in any order. Channels are sets of keys (each key is sent once and the buffers
are as long as the batch), the semaphore is a counter, closing `results` and
`done` is merged with the `wg.Wait()` before it. The cache behind it is the set
of keys it holds, and may fail any call while `CacheMayFail`.

### PooledCache

The values of `Cache` are pointers here, and every action is an action of
`Cache` with what `pool.go` does around it, so that the LRU policy, the map and
the critical sections are those of `Cache` itself.

| action | code |
|---|---|
| `SetTake`, `SetWrite`, `SetStore`, `PooledSetCommit` | Set: `pool.Get`, the write through the pointer, the checks of the cache's Set, its critical section with the Eviction events |
| `PooledGetBegin`, `PooledGetHit`, `PooledGetMiss`, `GetRead` | Get: the cache's Get, and the read through the pointer when the lock is gone |
| `RemovalBegin`, `PooledDeleteCommit`, `PooledClearCommit` | Delete and Clear with the events that put pointers back |
| `CleanupCall`, `LoopTick`; `ShrinkMore`, `ShrinkRemove`, `ShrinkEnd` | Cleanup, called by a client or by `cleanupLoop`, with the try-lock `mu` |
| `ResetPoolStats`, `PoolCloseCall`, `PoolCloseReturn`, `LoopStop` | the rest |

The `sync.Pool` is a bag, for a pointer may be put into it twice. Its Get gives
any pointer of the bag, or a new one at any time, since the objects may lie with
another processor or have been collected. `memory[p]` is what `p` points to;
`hand[c]` is the part of a call that is in `pool.go`; `written[k]`, a history
variable, is what the last Set gave `k`. The short uses of the try-lock are
abstracted to a count that may be missed (`CountAfter`). Of the statistics
`currentSize` is kept, for Cleanup goes by it. Expiry, a store and the Close of
the cache below are left to `Cache`: a pointer that expires, or whose Set is
refused, does not come back to the pool and is garbage. What `resurrection`
shows for the cache puts pointers back into the map whose objects are in the
pool, so `OneOwner` is stated for entries that do not expire.

## Runs

| run | configuration | question | states |
|---|---|---|---|
| `policies` | `MCPolicies.cfg` | does each policy keep its structures in order, choose its victims by its rule, and implement `EvictionPolicy`? | 29 000 |
| `cache_concurrent` | `MCCacheConcurrent.cfg` | what still holds when everything happens at once, failures of the store and Close included, and why do map, policy and store come apart? | 592 000 |
| `cache_one_client` | `MCCacheOneClient.cfg` | does the cache keep its promises to a single user beside the cleanup goroutine, and does everything end? | 52 000 |
| `memory_store` | `MCMemoryStore.cfg` | do the limits and the account of the memory store hold for concurrent users, what loses an update, does its goroutine end? | 178 000 |
| `file_and_batch` | `MCFileBatch.cfg` | what makes a file wrong, crashes and failing writes included, and does every call return? and is the success of a batch call success, is the limit kept, does everything end? | 156 000 in all |
| `wrappers_and_room` | `MCWrappers.cfg` | does a pointer have one owner, and does a key keep its value, while nothing is evicted? does every Cleanup end? and when exactly does the compressing cache return what was set, while its configuration changes? and does Set find room, over a store that works, when policy and map have come apart? | 607 000 in all |
| `pool_eviction` | `MCPooledCacheEviction.cfg` | violation of `GetReturnsWhatWasSet` | |
| `zero_ttl` | `MCCacheZeroTTL.cfg` | violation of `CleanupSparesLive` | |
| `resurrection` | `MCCacheResurrection.cfg` | violation of `NoResurrection` | |
| `file_temp` | `MCFileStoreTemp.cfg` | violation of `GetFindsWhole` | |
| `file_selflock` | `MCFileStoreSelfLock.cfg` | violation of `CleanupBeforeLock` | |
| `memory_limit` | `MCMemoryStoreSizes.cfg` | violation of `MemoryLimit` | |

What the passing runs show, property by property:

- **Policies.** `LRUInv`, `FIFOInv`, `LFUInv`: the map agrees with the list or
  heap, and the order is right; for LRU and FIFO the order is compared with a
  history variable (`since[k]`, the keys used or admitted after `k`), not with
  itself. `EvictsLeastRecent`, `FIFOEvictsOldest`, `LFUEvictsLeastFrequent`: the
  victim of `Evict` and of `OnSet` at capacity. `ImplementsPolicy` and its FIFO
  and LFU forms: refinement of `EvictionPolicy`.
- **Cache, everything at once.** `SizeBound` is about *every* map, also one that
  a Get still holds and may install again. `SetEvictsAtMostOne`: though some
  victims of the policy are not in the map any more, a Set costs at most one
  other entry. `CleanupSparesLive`: keys that were collected and then set again
  survive. `OnlyGetDisturbs`: no step other than the second critical section of
  a Get makes the map wrong about a key (an update lost, an entry back, another
  value), so the loss shown by `resurrection` has this one cause.
- **Map, policy and store.** They are three structures that are updated one after
  the other, and legal calls do bring them apart. `DriftsForKnownReasons` says of
  every key when policy and map come to disagree about it: an expired entry is
  removed; Clear empties the map; the store refuses the Set of that key; a Get
  installs an older map; or the policy is full with a key that the map has lost,
  so that `OnSet` drops one that is there. `StoreLagsForKnownReasons`: an entry
  that Get would return comes to be missing or different in the store when the
  store refuses its Set, or a Get installs an older map, and at no other time.
  Every other step (Get, Set, eviction, Delete, ResetStats, with any other
  calls in between) keeps the three together. Both are checked where all these
  reasons occur, with two clients, three keys and room for two.
- **Room.** `WorkingStoreMakesRoom`: over a store that works, Set never reports
  the capacity limit. The run has three keys, room for two and four calls, in
  which victims of the policy that have left the map and keys of a full map that
  the policy has forgotten both occur. Over a store that fails it is false, as
  the code is (see the list of disagreements).
- **Cache, one client.** `NoLostUpdate`, `CallsReturn` (a Close returns after the
  cleanup goroutine has ended, so that ends too), `ExpiredIsSwept`.
- **Memory store.** `SizeLimit` (never more than `MaxSize` entries), `MemoryLimit`
  (the account within `MaxMemory`, *for values of one size*: with two sizes it is
  false, see `memory_limit`), `UsageCovers` (the account is at least what the
  entries take, so the limit holds for the entries themselves),
  `OnlyGetDisturbs` (only the second critical section of a Get loses what was
  set; cleanup never does), `CleanerEnds`, `ExpiredIsSwept`.
- **Compression.** `RightButForKnownReasons`: Get answers what was set last,
  however often the configuration has changed since, *exactly if* none of three
  reasons applies, unless the change fell into that very Set: raw bytes that look
  as if a codec had made them (`LooksEncoded`); what an interface type cannot
  bring back, that is bytes and nil that were stored as they are, and everything
  but bytes that was compressed (`LostToInterface`); what gob does not give back
  as it was (`LostInGob`). So the tag does its work: a value is decompressed by
  the algorithm it was compressed with, not by the one of the day.
- **File store.** `OnlyThreeLoseEntries`: the step that makes the file of a key
  wrong is the truncation by SetMany, the late Delete of a Get's goroutine, or
  one for a key whose temporary file Gets have shared. So a Set replaces a file
  wholly or not at all, through crashes and failing writes, and no litter of
  temporary files is ever taken for an entry. `CallsReturn`
  (`FileCallsReturn`): every call returns unless a GetMany waits for a lock of
  its own, so the read locks, TryLocks and the wait of Close do not lock each
  other out. `LitterGoes`: files that do not parse or have expired are removed,
  by the tick or a call, as long as there is someone to do it.
- **Batch.** `ConcurrencyBound`, `SuccessIsComplete`, `QuietAfterAnswer` (no
  worker runs after an answer other than "cancelled", so none sends to a closed
  channel), `NothingLeaks` (`BatchEnds`: the call returns and all its goroutines
  end).
- **Object pool.** `OneOwner`: through any sequence of Sets, Deletes and Clears
  of two clients a pointer is in the pool once, under one key, or in one Set;
  hence `ValuesIntact`, nobody writes to what a key points to. `ShrinkAdvances`:
  each turn of Cleanup's loop lowers the counter by one, for the `New` it may
  call cannot take the lock that Cleanup holds; and it stops at the minimum.
  `GetReturnsWhatWasSet` is about the reader too, and fails: see below.

### Bounds, and why they are enough

- *Policies*: seven keys and a capacity of six. A heap of six is the smallest
  in which the last element, put in the place of a removed one, belongs to
  another branch and may have to rise; the seventh key makes `OnSet` evict.
  Access counts go to 2 (`MaxCount`), enough for larger and smaller.
- *Cache*: a map of two entries (one for the single client of `cache_one_client`)
  and one key more than fits, so eviction happens and has a choice. Two clients: every
  interference in the code is between one call and another, or the cleanup
  goroutine. Two to four calls each (`MaxCalls`): fill the map, evict, and race
  a call against another; four calls (`RoomCalls`) for the one client over
  the store that works, three keys and room for two as well: two Sets, the first
  to expire swept, a third Set for which the policy gives up the other, and a
  fourth that meets a full map with both a key that the policy has forgotten and
  a victim that is gone. Cleanup collects two keys and removes one at a time
  (`BatchSize`, `ChunkSize`; 1000 and 100 in the code), so a step of a client
  falls between two chunks. Of two clients one at
  most allocates a map, so that at most the other's Get and the pointer hold on
  to one each: three map identities (`MapIds`) are enough, and `CanAllocate`
  never makes an action wait. Instants
  up to 3 or 4 (`MaxTime`) let an entry with the shortest TTL expire for each
  of the two tests in use (`now < expiry`, `expiry < now`).
- *TTLs*: the single client passes a negative TTL, two that are accepted and one
  that is too long. Zero is left out of the runs that check `CleanupSparesLive`,
  `NoLostUpdate` or `OnlyGetDisturbs` of the cache: see `zero_ttl`.
- *Memory store*: three keys, room for two of them, three units of memory; two
  clients with three calls between them: fill the store, let an entry expire or
  remove it, and race a call against the Get that found it. The account is not
  reduced when entries expire, so it reaches the limit although each value takes
  one unit. Values of two sizes break the limit: they are in `memory_limit`, with
  one client and two calls. TTLs are a negative one, raised to the
  minimum, and zero, which never expires.
- *Compression*: one key and one client, for Sets of other keys share only the
  configuration, and that changes at any moment. Ten values: nil, bytes and others, below, within
  and above the size limits, that look compressed, and with everything that gob
  may do. All four kinds of `V`. Six configurations: each codec that matters, one at a level it
  does not accept, one of an unknown name, and a pair that differs in its limit.
  Nothing else bounds these states.
- *File store*: one key, for it is calls for one key that interfere; those for
  several keys (GetMany, SetMany, Clear) share only the lock. Two clients with
  three calls between them, one crash at any point, any write or rename may
  fail: enough for two Gets that share the temporary file and a third call that
  looks, and for a crash in the middle of a Set or SetMany and a Get that meets
  what it left. TTLs are one that is refused and one that expires within
  `MaxTime`.
- *Batch*: four keys given, at most three taken, two deletions at a time: a
  batch is cut short, and a deletion waits for a token.

- *Object pool*: two keys, two clients with two calls each, four pointers: Set
  twice, remove one, and set again while another Set or a Clear is under way;
  two counted objects are one more than `PoolMaxSize`, and 40 percent of them
  fewer than `PoolMinSize`. `pool_eviction` has one client, three keys and room
  for two.

Symmetry is used in runs without liveness only; in `policies` over five of the
seven keys, a subgroup, which keeps the search for representatives cheap.
Deadlock is checked in every run; `Finished` and `Quiet` let a model rest when
every call has been made and has returned, and only then.

### Fairness

`LiveSpec` says that a goroutine that can take a step takes one: weak fairness
per client's call in progress, per step of a cleanup goroutine, per worker,
spawner and caller. No client has to make a call, no context has to end, no
store or cache has to succeed. Strong fairness is asked for the end of a cleanup
goroutine only: once its stop channel is closed while ticks keep coming, Go's
`select` picks among the ready cases at random, so it does not choose the tick
for ever. `TimePasses` is weakly fair: time goes on to the bound.

Where two components stand side by side, fairness is asked of the one that the
behaviour has chosen (`BothSpec`); nothing is asked of the object pool and the
compressing cache, none of whose properties is a liveness property. In `FileStore` weak fairness of a call that
waits for the lock is enough: calls are bounded and the late deletions and ticks
take the lock for a single step, so the lock is free in the end and stays so.
The late deletions need not run.

## Proofs

All theorems hold for every value of the constants that satisfies the named
assumptions: any number of clients, keys, values and calls, any limits, any
number of map identities. TLC evaluates the assumptions in the runs
(`LRUAssumption`, `CacheAssumption`, `TTLConfigAssumption`,
`MemoryStoreAssumption`, `BatchAssumption`, `PoolAssumption`,
`MaxCountAssumption`; for the two modules that are
instantiated beside another, `CompressionConstants` and `FileStoreConstants`,
which are hypotheses of their theorems and ASSUMEs of the MC modules). A
theorem with a further hypothesis says so, and below is why it needs it. Each
inductive invariant was checked by TLC on a small instance before it was proved.

*LRU and FIFO* (`PolicyProofs`, first part). The inductive invariants are `LRUInv == TypeOK
/\ Consistent /\ RecencyOrder` and `FIFOInv`, with the order of admission in the
place of use; both are also checked by the run `policies`. The order alone is
not inductive: moving or removing a key keeps the order of the others only if
the key had exactly one place in the list, which is `Consistent`. The lemmas of
`LRUListProofs` say what each list operator does to positions; those at the
start of `PolicyProofs` that each keeps the list ordered by the history.

- `LRUInvHolds`, and from it `TypeCorrect`, `ConsistentHolds`,
  `RecencyOrderHolds`; `FIFOInvHolds`;
- `EvictsLeastRecentHolds`, `FIFOEvictsOldestHolds`: the last element is the
  least recent or the oldest, and `OnSet` and `Evict` drop nothing else;
- `WithinCapacityHolds`: the capacity, by induction over the steps;
- `ImplementsPolicyHolds`, `FIFOImplementsPolicyHolds`: every step is a step of
  `EvictionPolicy` or a stutter, under `tracked` for the keys of the map.

*LFU* (`PolicyProofs`, second part). `LFUInv` of the run says that the index
fields are right and that the heap is in order; `HeapInv` says the same of the
record as a whole (`Heap`), and is inductive, for every method of LFU leaves a
heap where it found one. That is the work of `up` and `down` of
`container/heap`, which are loops: their states are a function of the number of
turns (`Loop`), and what holds at its end is an induction over it. The library
states induction for operators, which cannot be instantiated here; a set of
numbers serves as well (`AllNat`, from the least element of a set that is not
empty, `Least`, and that from the well-foundedness of the order).

During the loops the heap is out of order at one place. `Rising` says that the
only edge that may be wrong is the one above that place, `Sinking` that it is
one of those below, `Unsettled` that it may be any of these; all of them say
that the children of the place may take it (`Bridged`), without which one
exchange could put a second edge out of order. `RiseStep` and `SinkStep`: an
exchange with the parent, or with the smaller child, moves the place; `UpSorts`,
`DownSorts`, `SiftSorts`: within as many turns as there are elements the heap
is in order. `down` stops at once only if no edge below is wrong, so that `up`
finds a heap that is `Rising`: this is why Fix and Remove may call `up` only if
`down` has moved nothing. `PopLastFacts`, `HeapRemoveFacts`, `FixFacts` and
`PushFacts` follow for the methods.

- `LFUInvHolds`: `HeapInv`, and that a heap has as many elements as items;
- `LFUEvictsLeastFrequentHolds`: in a heap the first element is the lightest
  (`LightestFirst`), and it is what `Evict` and `OnSet` drop;
- `LFUImplementsPolicyHolds`: every step is a step of `EvictionPolicy` or a
  stutter.

*Cache* (`CacheProofs`). The inductive invariant is
`CacheInv`, the conjunction of `MapsOK` (every map is well typed, *bounded by
MaxSize*, and its entries expire as late as the TTLs in use say), `PolicyOK`
(the policy is a well-formed LRU record), `CallsOK` (the types of calls in
progress, and that the entry of a Set under way is one that its TTL allows),
`SweepOK` (the cleanup goroutine's `now` is not in the future) and `FlagsOK`.
`SizeBound` is not inductive for the current map alone: a Get may install the
map it holds, so all of them have to be bounded. There is one lemma per action,
named after it.

- `CacheTypeCorrect`, `SizeBoundHolds` follow from `CacheInv`;
- `CleanupSparesLiveHolds`, under `EveryTTLEnds` (no TTL of zero is passed, or
  it is refused): the only step that takes keys away from a "remove" state is
  `CleanupChunk`, it removes entries whose time lies before `now`, and `now` is
  not later than the clock. Without the hypothesis it is false (`zero_ttl`);
- `SetEvictsAtMostOneHolds`: as long as there is no room, the victims so far
  were not in the map; the one that makes room is one entry;
- `OnlyGetDisturbsHolds`, under `EveryTTLEnds`: each step but one treats a key
  alike in map and history, or takes from the map what Get would not return
  (`KeyStep`); `FaithfulKept` shows that this keeps the map right about the key.

That one step is `GetRemoveExpired`. `GetsSafe` says when it does no harm: the
Get holds the current map and what it is going to remove is gone already. It is
inductive if there is one client (nobody else installs a map), and there is no
such Get if `NothingExpires` (no TTL in use runs out before the last instant).
The next four theorems assume one or the other, as the run `cache_one_client`
does; with neither they are false (`resurrection`).

- `MapFaithfulHolds` and with it `NoLostUpdateHolds`: `KeyStep` for every step;
- `WriteThroughHolds`, for a store that is there and works: `Mirrored`. That the
  store is not closed yet while the cache is open is `Ending`;
- `SetMakesRoomHolds`, for a store, if any, that works. The obvious invariant,
  that the policy tracks every key of the map, is *false*: when keys have left
  the map unannounced (by expiry or Clear) and the policy is full of them,
  `OnSet` drops the least recent of its keys, which may be in the map. TLC finds
  it with three keys and room for two. What holds is `Tracked`: a *full* map has
  at least one key that the policy tracks, and one is enough. It is inductive
  since a Set ends with its key tracked, and every step that takes a key from
  the policy alone leaves or makes room. A value that is itself
  "capacityLimit" would be taken for the error, so there is none;
- `BooksAgreeHolds`, with `NothingExpires`, a working store, a size limit, and
  nobody calling Clear or ResetStats, each of which breaks the agreement of
  policy, counter and map; so does the policy's own capacity when `MaxSize` is 0.

The last two have no hypothesis on clients, TTLs or the store: they name the
steps that such hypotheses exclude.

- `DriftsForKnownReasonsHolds`: `ChunkTakes` and `RemovedFromBoth` say that what
  leaves the map leaves the policy with it, or was expired; `SetInStep` is the
  case of a Set, which needs `FullOfLost`: if `OnSet` finds the policy full
  after the evictions, then with a key that the map has lost, for the map has
  room;
- `StoreLagsForKnownReasonsHolds`: a Set writes one value to both, and what
  leaves the store leaves the map first (`StepBacked`).

*Object pool* (`PooledCacheProofs`). `PoolInv` is `CacheInv`, which every action
of the pool keeps since it is one of `Cache` or leaves the cache alone, with the
types of the pool and with `Handed` (a call's part in `pool.go` and its part in
`cache.go` fit together), `Shrinking` (the Cleanup that has the try-lock, and
that its target lies below the counter) and `Written`.

- `PooledTypeCorrect`, `ShrinkAdvancesHolds`, with no further hypothesis;
- `OneOwnerHolds`, `ValuesIntactHolds`, under `MaxSize = 0`, that is, when
  nothing is evicted. With eviction both are false, for the event carries the
  pointer of the Set and not that of the victim (`pool_eviction`). The inductive
  invariant is `OwnInv`: `Exclusive` says place by place what `OneOwner` counts
  (a pointer in the pool is there once, and in no entry and no Set; that of a
  Set is in no entry and no other Set; two keys have two pointers), and `Copied`
  that a Set has written its value before it asks the cache. `ValuesIntact`
  needs both: the write of a Set goes to no pointer of the map. From `Exclusive`
  to the count it is cardinalities of sets of at most one element.

*Memory store* (`MemoryStoreProofs`). `StoreInv` is type correctness with the
limit on entries and `UsageCovers`. The memory of a
set of entries is the cardinality of a set of units (`Units`), so that what is
added, overwritten or removed is a matter of finite sets and needs no induction
over a sum.

- `TypeCorrect`, `UsageCoversHolds`, `SizeLimitHolds`;
- `MemoryLimitHolds`, under `OverwritesFit`: nobody calls SetMany, or all values
  have one size. Without it the limit is broken (`memory_limit`);
- `OnlyGetDisturbsHolds`: a step leaves a key as the history has it, or removes
  an expired entry, or is the removal by a Get of an entry that has changed.

*Compression* (`CompressionProofs`). The inductive invariant is type correctness
with `OfTypeV`, that what is stored or being set is a value of type `V`, and
`UnracedAgree`: a Set that has seen no change of the configuration has the one of
the moment, and a key whose Set saw none holds a value whose tag is the codec
that made its bytes. `RightButForKnownReasonsHolds` goes through the branches of
Get from there, for any values, whatever gob does with them.

*File store* (`FileStoreProofs`). `FileInv` is type correctness with `LockHeld`
and `ReadersAgree`. `LockHeld` says that a call in an exclusive step is alone
inside the lock. That is not enough, for Gets share the read lock and each
renames its temporary file over the file that it read. `ReadersAgree` says of
each key that is not `shared`: a Get that is about to remove the file removes no
entry, one that is about to write it again has the entry that is still in it, at
most one writes the temporary file, which has not moved under its hands, and
what is about to be renamed is what it replaces.

- `TypeCorrect`, `LockHeldHolds`;
- `OnlyThreeLoseEntriesHolds`: case by case over the actions, crash and failing
  writes among them; what is renamed is whole and is the truth.

*Batch* (`BatchProofs`). `BatchInv` ties the caller, the spawner, the semaphore
and the workers together: the tokens that are out are those of the workers that
run (`Tokens`), the way a worker has ended says what it has left in the channels
and in the cache (`Outcomes`), and an answer other than "cancelled" is given
only when all have ended (`Answers`).

- `TypeCorrect`, `ConcurrencyBoundHolds`, `QuietAfterAnswerHolds`,
  `SuccessIsCompleteHolds`.

*Side by side.* The runs `wrappers_and_room` and `file_and_batch` check components
side by side. `WrappersKeepToTheirSpecs` and `BothKeepToTheirSpecs` show that a behaviour
of all is one of each, so that what is proved of each holds there:
`WrappersTypeOKHolds`, `RightButForKnownReasonsHolds` in `PooledCacheProofs`,
`BothTypeOKHolds`, `OnlyThreeLoseEntriesInFiles` in `BatchProofs`. The MC modules
instantiate the modules of proofs for this.

*Only model-checked*: all liveness (`CallsReturn`, `ExpiredIsSwept`, `CleanerEnds`,
`FileCallsReturn`, `LitterGoes`, `BatchEnds`), since no prover here handles
fairness and ENABLED. Every other property of a passing run
is a theorem; of `WorkingStoreMakesRoom` it is `SetMakesRoomHolds`, the same
statement for every cache over a store that works.

## Where the code and its documents disagree

Six runs end in a counterexample; `PROJECT.json` quotes the lines.

- `zero_ttl`: cleanup removes entries that were set with a TTL of 0, for the zero
  time is before every time (`cache.go:293`).
- `resurrection`: a Get that found an expired entry installs the map it captured,
  undoing a Delete or Clear of another client (`cache.go:418`).
- `pool_eviction`: the eviction event of a Set carries the value being set
  (`cache.go:506`), so the pointer that the cache is about to hold goes into the
  pool (`pool.go:187`), and the next Set of any key may write through it.
- `file_temp`: two Gets of one key write one temporary file at once
  (`store/file.go:215`): the second truncates what the first then renames, and a
  later Get finds a file that does not parse and removes it. The comment two
  lines above calls the write atomic.
- `file_selflock`: GetMany calls Delete for an expired key while it holds the
  lock (`store/file.go:484`), and `maybeCleanup` in Delete, if a cleanup is due,
  locks it again. The store is stuck for good. Cleanup is due when
  `CleanupInterval` has passed since the last one, 100 ms by default.
- `memory_limit`: SetMany of the memory store counts only new keys against the
  memory limit (`store/memory.go:324`), so overwriting an entry by a larger one
  takes the account past the maximum of `store/options.go:25`.

Others were met while modelling. They follow from the definitions named here:

- Get, of the cache (`GetRemoveExpired`) and of the memory store (`GetCheck`),
  deletes a key that another client has set again since it was looked at:
  `NoLostUpdate` fails for two clients with expiry.
- Clear never calls `OnClear` of the policy (`ClearCommit`), though
  `policy/policy.go:18` says "OnClear is called when the cache is cleared";
  cleanup and the removal in Get do not tell the policy either. `BooksAgree` fails
  with each of them, and `DriftsForKnownReasons` names them.
- After a Set that the store refused the entry is in the map and the policy was
  not told (`SetCommit`), though `policy/policy.go:12` says "OnSet is called when
  an item is added": a map full of such entries makes every later Set fail, so
  `SetMakesRoom` fails with `StoreMayFail`. `DriftsForKnownReasons` and
  `StoreLagsForKnownReasons` name this step.
- `OnSet` of the policy may drop a key that is in the map, when it is full of
  keys that have expired or were cleared: that entry is not evicted until it is set
  again (`SetCommit`, `RoomFor`). `SetMakesRoom` holds all the same.
- cleanup and the removal in Get leave `stats.Size` as it was: `BooksAgree`
  fails with expiry.
- Get of the pooled cache reads through its pointer after the lock is gone
  (`pool.go:232`): if the key is deleted and another set in between, it returns
  the value of the other key. `GetReturnsWhatWasSet` fails for two clients.
- `CurrentSize` of the pool counts what is made or put back and never what is
  taken out (`TakePooled`), so it is not the size of the pool, as
  `metrics/METRICS.md:233` has it; a `ResetPoolStats` during a Cleanup leaves it
  at -1 (`PooledTypeOK`). A second Close of the pooled cache panics.
- `GetAll` (`cache.go:803`) leaves out entries that never expire.
- A Set that passed its check before Close installs a map with its entry after
  it: a closed cache may hold items.
- With `CleanupInterval` 0 nobody closes `cleanupDone` and Close waits for ever:
  `CallsReturn` fails with `CleanupRuns = FALSE`.
- Setting a tracked key again resets its LFU access count to 1 (`LFU!OnSet`).
- Expired entries leave the memory store without leaving its account
  (`CleanupExpired`, `GetCheck`): `memoryUsage` only ever covers the entries
  (`UsageCovers`), and the limit is reached with a store that is empty.
- A DeleteMany whose context ends at its last key reports success with the key
  still there (`DeleteManyOne`).
- The late Delete of an expired key (`store/file.go:197`) may remove what has
  been set since (`LateDelete`).
- SetMany of the file store truncates the file of a key in place
  (`store/file.go:547`): a crash or a failing write loses the old entry with the
  new one (`SetManyNext`).
- Delete, Clear and the `...Many` calls of the file store fail whenever someone
  holds the lock for a moment (`TryLockFails`), so the late Delete of an expired
  key is often dropped, and the one inside GetMany always.
- Temporary files left by a crash or a failing write stay until the next Get or
  Set of the key, or a Clear (`Sweep` passes over them).
- A closed file store can be used as before (`Close`).
- Keys `a/b` and `a__SLASH__b` of the file store share a file
  (`store/file.go:588`), and `Keys` cuts names at spaces (`store/file.go:723`).
- A change of the configuration during a Set of the compressing cache
  (`compression.go:326`) leaves a value whose tag is not its codec: Get fails, or
  returns something else, though the comment at `compression.go:83` says the
  tag is stored so that Get can decompress (`SetStore`, `raced`).
- Bytes below the minimum size that happen to be valid compressed data come back
  decompressed (`compression.go:186`, `GetRaw`). With `V` = `any` short bytes give
  an error, so does nil (`compression.go:212`), and long values of other types
  come back as the bytes gob made of them (`Delivered`); with a `V` that is an
  interface with methods Get panics on them (`compression.go:173`).
- What is compressed has been through gob: fields that are not exported are lost
  without an error, and some types can be encoded and not decoded (`Decoded`).
  The same value below `MinSize` comes back as it was.
- A second Close of the memory store closes a closed channel and panics
  (`store/memory.go:421`); the model lets it through.
- Nothing closes the stop channel of `statsLoop` (`compression.go:412`): the
  goroutine outlives its cache.
- With `MaxConcurrent` 0 a DeleteMany whose context never ends waits for ever
  (`SpawnerAcquire`).

## Not modelled, and the plan

Not to be modelled: metrics and errors (counters and wrapping that no decision
of the program reads), `SafeCounter` and the store helpers (unused), the
statistics of the compression with `statsLoop` and `OnEvent` (written, never
read), the codecs, the text of file names and JSON, and the thin wrappers of
`sync.Pool` in `pool.go`.

The order of the work, the most important behaviour first:

1. *Done*: `TTL`, `EvictionPolicy`, the three policies, `Cache`, `MemoryStore`,
   `Batch`, and the proofs about LRU and the size and step properties of `Cache`.
2. *Done*: `PooledCache`.
3. *Done*: `FileStore` with crashes and failing writes, and `Compression`.
4. *Done*: theorems about every safety property of `Cache`, `MemoryStore`,
   `FileStore`, `Compression` and `Batch` that a run checks, and about FIFO.
5. *Done*: theorems about the object pool and about LFU.

What is left is liveness, which stays with TLC.
