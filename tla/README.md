# nmfs in TLA+

nmfs is a file system for FUSE 3 that keeps files and directories in a RADOS
pool, one key-value pair per metadata record and per 64 KiB of data. The
repository has no documentation and no tests; these modules are written from the
code, and what they are held against is what the code's own comments and
asserts say, POSIX, and an abstract specification of each part.

Paths below are relative to `src/`.

## The system

One process. libfuse calls the handlers in `fuse_operations.cpp` from several
threads (from one with `-s`); a background thread of `cache_store` wakes up every
five seconds.

| Component | State | Operations |
|---|---|---|
| FUSE handlers, `fuse_operations.cpp` | `file_info->fh` of each open handle: a raw `metadata*` or `directory*` | `create open getattr chmod chown truncate read write release unlink rename mkdir rmdir opendir readdir releasedir init destroy` |
| `cache_store`, `local_caches/cache_store.*` | `cache`: path to metadata, `directory_cache`: path to directory, a `shared_mutex` each | `open create remove move`, the same for directories, `drop_if_policy_requires`, the worker's flush and drop passes |
| open contexts, `local_caches/utils/*open_context.hpp` | a lock on `metadata.mutex`, `released` | count `open_count` up and down, stamp `last_close`, evict |
| caching policy, `hold_closed_cache_for` | none | `is_valid`, `keep_cache`: open, or closed for at most 30 s |
| metadata, `structures/metadata.impl.hpp`, `indexing_types/custom/metadata.impl.hpp` | `open_count size dirty valid last_close mutex key` | `write read truncate remove flush reload`, move constructors, a destructor that flushes |
| directory, `structures/directory.impl.hpp` | `files`, `size`, `dirty`, a reference to its metadata | `add_file remove_file move_entry get_entry flush`, a move constructor that moves all children, a destructor that flushes |
| custom indexing | none | a directory's key is its path, a file's key the uuid in its entry |
| `data_object_key` | base key and 28-bit index | `update_index`, `increase_index` |
| RADOS backend | the pool: records and data objects | whole and partial `get` and `put`, `exist`, `remove` |
| `super_object` | owns backend and cache | constructor, destructor that flushes all |
| caching policy `evict_on_last_close` | none | always valid, kept while open |
| memory slices, logger, exceptions, `mapper.hpp`, `full_path` indexing | – | helpers, and an alternative that `configuration.hpp` does not select |

How they interact: a handler asks `cache_store` for an open context, which holds
the metadata's mutex (shared, exclusive, or not at all: `no_lock`), works on the
metadata or directory, and lets the context's destructor count down and evict.
`open` and `create` release the context instead and give the kernel the
address. Looking a file up opens its parent directory first. Destructors write
back: erasing a cache entry is a write to the backend. The worker flushes and
evicts with little or no locking.

What is hard here: `open_count` is an unsynchronised integer on which the life of
objects with raw pointers depends; the decision to evict is made outside the
lock that erases; entries, records and data of one file are written at different
times; a call can fail halfway; the arithmetic of objects has boundaries.
`PROJECT.json` lists the hazards with their lines.

What makes each part correct:

- *cached file*: `open_count` counts the users; an object lives as long as a
  handle or handler points to it.
- *cached directory*: its metadata lives as long as it does; a directory the kernel
  has a handle to stays; one nobody uses leaves both maps.
- *namespace*: caching, write-back, eviction and remounts are invisible; every entry
  leads to something; answers are POSIX's.
- *write-back*: what is not marked is on the backend, what is marked gets there,
  what is removed stays removed, and unmount ends.
- *directory data*: the buffer is large enough for the entries, what is flushed is
  what is loaded, and a crash leaves one or the other.
- *file data*: a file is a sequence of bytes; nothing is left behind when it goes.
- *handlers together*: each returns, none waits for another for ever, none leaves a
  mutex locked, and none changes a directory's entries while another uses them
  (which the code does not keep to where it destroys a directory that expired or
  that the policy drops).

## The modules

### OpenCount: one cached file, many handlers

The entry of `cache` for one path, its `open_count`, `metadata.mutex`, the kernel's
handles, `Threads` handler threads and the worker. Every lock, unlock, check of the
policy and half of `open_count++` / `open_count--` is a step of its own, because
the code takes no lock around them or takes it in between.

| Action | Code |
|---|---|
| `BeginOpen BeginPath BeginCreate` (`Find`), `CheckValid`, `Load` | `cache_store::open` and `create`, up to the iterator |
| `BeginHandle` | an `open_context` on `file_info->fh` |
| `Acquire`, `Increment` | `open_context::open_context` |
| `CreateDone HandleDone` | `unlock_and_release` |
| `HandleFail`, `CloseBegin`, `Decrement`, `Policy`, `DropEntry`, `DropNothing` | `open_context::~open_context` and `drop_if_policy_requires` |
| `UnlinkRemove UnlinkErase`, `Move` | `cache_store::remove`, `cache_store::move` |
| `WorkerCheck WorkerDrop` | `try_drop_regular_files` on this entry |
| `UseAfterFree`, `WorkerUseAfterFree` | a step on a destroyed object: `fault`, after which nothing is claimed |

`ref[t] = "stale"` and `fd[d] = "stale"` are pointers to a destroyed object.
`leaked` is a ghost: the references nobody owns, one more for each load or create
(the constructor starts at 1 and the context adds 1), one less for each failed
handle operation (its context counts down without having counted up).

What libfuse and the kernel guarantee is part of the model: `unlink` comes only
for files that are not open (libfuse turns the others into a rename), a handle is
released once and last, and `create`, `unlink` and `rename` have the path to
themselves (`MayStart`).

### FileTree and Namespace: directories, records, write-back

`FileTree` is the promise: a tree changed by whole operations only. `Namespace` is
the code: both caches, the records (`dmeta` by path, `fmeta` by uuid) and the data
objects of directories (`data`). Each handler, each round of the worker, mount,
unmount and crash is one action, so this is the process with one handler thread,
seen between handlers. A handler is a function on the state, composed of the
`cache_store` operations it calls, in their order, with the exception in flight
as `err`: `UnlinkFile` is `open`, `open_directory` of the parent, `remove_file`,
`remove`. Destructors that write are part of the operation that destroys. The worker's
loops over a map, each round of which touches one key, flush or erase a set of paths at
once (`FlushMetadata`, `EraseDirectory`).

A backend call may throw: `left` is the number of calls until one does, chosen anew
for each handler (`Attempts`), and the rest of the handler is skipped the way the
exception skips it, destructors included. Destructors' own calls do not fail, since
an exception out of them ends the process; nor do those of `rename` and `init`.

`View` is what a user would see, computed from caches and backend; the refinement
maps it to `FileTree`'s `tree`. `answer` pairs the handler's result with the one
POSIX asks for.

Abstractions: a directory's or file's size is only zero or not (`sized`),
because entries are read exactly if it is not zero; `open_count` between handlers
is -1 (the wrapped `size_t`), 0, or positive, and only 0 lets the policy evict.
The size bookkeeping of `remove_file`, which reads an iterator it has just erased
(`structures/directory.impl.hpp:90-91`), only affects that size. Two places where
the code goes on with freed memory set `undefined`, and nothing is said after them:
`move_directory` when `get_type` of a child erases the directory it iterates, and
`remove_directory` when the context's path was the key of the erased entry.

`MoveOpenedDirectory` is `MoveStarted` (new metadata, old record removed, children moved
one by one, each after a `get_type`) and `MoveDone`. A child whose record is gone ends
the rename in between, as the exception does (`structures/directory.impl.hpp:43-48`): the
old directory stays in `directory_cache`, clean and with all its entries, on metadata
that was moved from (`MovedFrom`: its identity is `Lost`, flush and remove do nothing),
beside new metadata without a directory. A child behind an entry of a renamed-over
file, after a remount, is such a child. A new parent that does not exist is no error to `rename`,
which takes the ENOENT for a missing target and goes on
(`fuse_operations.cpp:344-348`; `RenameEntry`).

### ByteFile and FileData: the bytes of one file

`ByteFile` is a sequence of bytes that writes, resizes and failing writes change.
`FileData` is `metadata::write`, `read`, `truncate`, `remove` and `flush` with the
objects they keep, the keys of `data_object_key`, and a backend call that throws
after any iteration. `Content` reads the objects at their keys and is mapped to
`ByteFile`'s `bytes`. A call is one action: its handler holds the metadata mutex.
The index wraps as `uint32_t` (`IndexWidth`) and its key keeps 28 bits
(`IndexLimit`). `size_t` wraps in `ReadSize` (`SizeMod`): `read` shortens a request that
ends behind the size to `size - offset`, also if it begins there, and then asks for more
than its buffer holds. What such a copy overwrites is undefined and not followed. Of the call at the limit where `increase_index` throws after the
last put, the objects and size are as modelled; only the handler's answer (an
error) is left out.

### HandlerLocks: every handler's locks

Each FUSE handler is the sequence of its steps on mutexes (`metadata.mutex` of each
path, `directory::mutex`, `cache_mutex`, `directory_cache_mutex`) and on
`directory::files`. `Program(r)` composes it from operators with the structure of
the code; whether something was cached, valid, found, dropped or threw is an
`Either`, and all choices are explored. Threads run their steps one by one.

`Erase` is the erase of a directory from its map: under the mutexes of the maps, and of
nothing else, `~directory` writes and destroys the entries. It is a step
of its own, `"destroy"`, wherever the code erases a directory. `NoDataRaces` covers those of
`rmdir` and `rename`. Where `open_directory` finds the directory expired, or
`drop_if_policy_requires` drops it, another handler may be using its entries
(`local_caches/cache_store.impl.hpp:160-164`, `196-205`), and the
property leaves that destruction out: there the code races. A handler that goes on with
a destroyed directory is undefined and not followed. The worker, whose serialisation
reads entries with neither mutex, is not in this module. `MoveDirectory` moves at most
one child, a file: the locks of each child are those of the one before, taken after
the others were freed.

| Operator | Code |
|---|---|
| `OpenMetadata`, `OpenDirectory`, `OpenFile` | `cache_store::open`, `open_directory` |
| `CloseFile`, `CloseDirectory`, `Unwind` | destructors of the two contexts, also by an exception (`Throw`) |
| `LookUp`, `GetType` | `indexing::existing_regular_file_key`, `get_type` |
| `RemoveFile`, `RemoveDirectory`, `MoveFile`, `MoveDirectory` | `cache_store` operations of these names |
| `Create`, `MakeDirectory`, `Unlink`, `RemoveEmptyDirectory`, `Rename`, `SetAttr`, `GetAttr`, `Use`, `ReadDirectory` | the handlers |
| `Excludes`, `MayStart` | what the kernel's inode locks and libfuse's path locks keep apart (outside this repository) |

### WriteBack: the worker, step by step, next to handlers

An object is a file's metadata or a directory with its metadata. Contents are a
version number (`value`), the backend has a version or none (`record`). The
worker flushes under the map's mutex but not under the object's: serialisation, put and
`dirty = false` are three steps, between which handlers run.

| Action | Code |
|---|---|
| `Change`, `ChangeEntries` | `write`, `truncate`, `chmod`, `chown`; `add_file`, `remove_file`, `move_entry` |
| `BeginCreate`, `BeginOpen`, `BeginRemove`, then `Enter`, `Leave` | the `cache_store` operations up to the map's mutex, and their section |
| `WorkerLoop`, `TryFlush`, `WaitFlush`, `GiveUp` | `background_worker_main`, `try_flush` |
| `Serialise`, `PutRecord`, `MarkClean`, `FlushEnd` | `flush_regular_files`, `flush_directories`, `metadata::flush`, `directory::flush` |
| `Drop`, `Keep`, `SweepEnd` | `try_drop_directories`, `try_drop_regular_files`; the look and the erase are one step, which `OpenCount` and `DirectoryCache` take apart |
| `Mount`, `Initialise`; `Destroy`, `FlushAll`, `Stop`, `Join` | construction; `~super_object`, `~cache_store` |

`late` is a ghost: objects changed or removed while the worker flushed that very
object. There the code loses the update or brings a removed record back
(`indexing_types/custom/metadata.impl.hpp:36-43`); `CleanIsWritten` and
`RemovedIsGone` say that nothing else does. `stop` starts as `"garbage"` because the
thread is constructed before the flag it reads (`cache_store.hpp:66-67`).
`undefined` is set when the worker erases from a map `flush_all` iterates over.

### DirectoryCache: one directory in two maps

The directory, its metadata, the handles of `opendir`, both caching policies, and the
worker's two sweeps with handlers and the clock between them. Each sweep is two steps,
`keep_cache` without a lock (`LookAtDirectory`, `LookAtMetadata`) and the erase under the mutex,
which does not ask again (`DropDirectory`, `DropMetadata`); if a handler erased the entry
in between (`Forestall`), the sweep goes on with a path that is gone
(`DropLost`, undefined). A handler is one
action (`Use`, `OpenDir`, `ReleaseDir`, `Mkdir`, `Rmdir`, `SetAttr`); `Found` says
which of `open_directory`'s three ways it took, `Added` what that adds to
`open_count`. A directory that is read again while its metadata is cached adds
nothing, although its context counts one down: `open_count`, a `size_t`, wraps.
`surplus` is a ghost: references nobody counts down, less those missing. `raced` is one
too: in this round of the worker the time ran out, `opendir` left a count of 0, or a
handler opened the directory between the look at its metadata and the erase.

### DirectoryData: one directory's stored form

Entries, the `size` kept in step with them by hand, serialisation as a sequence of cells, the
flush (truncate, one put for each object, then the record), load, removal, and a crash
between any two backend calls. `RemoveFile` asks an erased entry for its size, which
is undefined; the model takes the entry's or its base class's
(`structures/directory.impl.hpp:90-91`).

### MC modules, configurations, mutants

The `MC` modules give paths, names, bytes and symmetry sets. The operators introduced
by a comment "Mutant" are plausible bugs, one for each property of each passing
run: put in the place of the definition after them they make TLC find the property
violated.

## The runs

Passing:

| Run | Bounds | Shows |
|---|---|---|
| `OpenCountOneHandler` | 1 thread and the worker, 2 handles, 2 failures, all operations | `TypeOK`, `CountExact`, `HandlesValid`, `OnlyUnlinkErases` |
| `OpenCountHandlers` | 2 threads, 2 handles, 1 failure, the operations that lock exclusively, `read` and `rename`, `FairSpec` | `CountExact`: where the mutex is taken exclusively, or the kernel isolates the path, no update is lost; `HandlersReturn` |
| `Namespace` | root, one directory, three file paths, 4 uuids, renames to new names | `TypeOK`, `AnswersArePosix`, `EntriesResolve`, `SizedIsStored`, `RefinesFileTree` |
| `NamespaceRename` | root, two directories with two file paths each, 5 uuids, creations, rmdir, renames over entries and of directories, expired directories that are read again, remounts | `DirectoriesHaveMetadata`, `NoAliases` |
| `NamespaceCrash` | as `Namespace`, crashes and a failing backend call at any place of any handler instead of renames | `BackgroundIsInvisible`, `FailedCallsChangeNothing` |
| `FileData` | objects of 2 bytes, 3 keys, size up to 5, `size_t` of 11 values, writes up to 3 bytes, 1 failure, no shrinking but to 0 | `TypeOK`, `ReadsAreExact`, `RefinesByteFile`, `NoLeak`, `CleanIsRecorded` |
| `HandlerLocks` | root, two directories, a file in the root and one in a directory; 2 threads with all 11 operations, 3 with `CrowdOps`: create, mkdir, unlink, rmdir, rename, write, readdir | `TypeOK`, `NoDeadlock`, `NoDataRaces`, `NothingStaysLocked` |
| `WriteBack` | 1 file, 1 directory, threshold 2, 1 change of each object, any number of mounts, `FairSpec` | `TypeOK`, `CleanIsWritten`, `RemovedIsGone`, `DirtyIsWritten`, `UnmountEnds` |
| `DirectoryCache` | 2 handles, 5 opens, `size_t` of 16 values, both policies, `FairSpec` | `TypeOK`, `CountExact`, `DirectoryKeepsMetadata`, `HandlesStay`, `IdleIsDropped` |
| `DirectoryData` | 3 names of 2, 2 and 3 cells, objects of 5, size up to 8 | `TypeOK`, `SizeSuffices`, `CleanIsStored`, `CrashIsAtomic` |

Violations, where the code does not do what it says (details under "findings" in
`PROJECT.json`):

| Run | What TLC finds |
|---|---|
| `OpenCountLostUpdate` | two handlers lose an update of `open_count`; the worker destroys metadata an open handle points to |
| `NamespaceRenameOver` | the entry of a replaced file names a removed record |

Why the bounds are enough. *OpenCount*: two handles let a release and another
user meet, two threads and the worker are what a lost update or a stale pointer needs, and
two failures use up the surplus and one owner's reference; `CountMod` exceeds every
count but the wrapped ones, so that a wrap is seen as one. *Namespace*: a directory
with a child, a sibling file and a free name are what each operation distinguishes,
and the fourth uuid leaves one free while the root, a directory and a file exist. A
rename that ends between two children needs two children, of which one is lost, and
the five uuids of `NamespaceRename`; to stay within minutes that run leaves out what
the other two have, the worker's passes and renames of files to new names (the theorems
cover both, without the other renames).
*FileData*: three objects give a first, a middle and a last piece, writes that begin
and end inside objects, and every size is 0, on, before or behind a boundary; 11 is more than twice the largest
size, so that a difference that wraps is larger than any request (`SizeAssumption`).
*HandlerLocks*: a lock cycle of two handlers needs two threads; the paths give each
pair of handlers the same path, parent and child, siblings, or nothing in common.
A cycle of three is covered for the operations that change names, list or write
(`CrowdOps`); the proofs cover any number of handlers of any kind. *WriteBack*: the worker's two maps have one
object each, its handshakes are about one object and one map at a time; one change
makes a version differ from the record, and removal and creation bring it back to 0.
Threshold 2 has a failure that gives up and one that waits. The proofs cover any
number of each. *DirectoryCache*: two handles are what a premature drop needs (one to
release, one to lose); five opens go through mkdir, a re-read and further opens, and
put one of them between the look and the erase of each sweep.
*DirectoryData*: two objects, entries that end before, on and behind the boundary,
and two lengths so that a rename changes the size.

Restrictions of operations are where the code is known to break the property:
`Namespace` leaves out renames over files (`NamespaceRenameOver`) and of
directories, whose entries are not dirty under their new key; `NamespaceCrash` leaves
out renames, since a crash between the flushes of the two parents leaves one file
under two names, and does not check `AnswersArePosix`, since `mkdir` of a directory
whose record survived its parent's entry answers `EEXIST`, nor `SizedIsStored`, since
an rmdir that fails between the data objects and the record, followed by a crash,
leaves the empty directory without them (it still reads as empty); `FileData` leaves out
shrinking to a size above 0, where `truncate` by its operator precedence
(`structures/metadata.impl.hpp:201`) does not remove what it cut off and the bytes come back when
the file grows. `NoLeak` holds with it, and is proved so.

Fairness. `OpenCount!FairSpec`: strong fairness for each handler's next step, since
the mutexes are not fair but a thread that finds one free again and again gets it in
the end; weak fairness for the worker, which loops, and for the clock.
`WriteBack!FairSpec`: strong fairness for the worker and for a handler that
waits for a map's mutex (the other side frees it again and again), weak fairness for
leaving the section and for the main thread once it destroys; nothing makes the kernel call
`destroy` or a handler. `DirtyIsWritten` is then due to `try_flush` alone: the
worker's shared `try_lock` may fail each time, and only the wait after
`fail_threshold` failures gets it through. `DirectoryCache!FairSpec`: weak fairness
for the worker, strong fairness for the clock, since each lookup stamps `last_close`
anew and the 30 seconds start again, while calls are finite in number (`MaxOpens`).

Further weaknesses the models contain and no run singles out:

- A handle operation that throws counts a reference down that it never took
  (`HandleFail`; `fuse_operations.cpp:507`): `HandlesValid` asks for `failures = 0`.
- Renaming an open file moves its metadata and destroys the object of its handle
  (`Move`; `local_caches/cache_store.impl.hpp:137`): `HandlesValid` asks for `~moved`.
- Each load leaves a reference nobody counts down, so a closed file is not evicted.
- rmdir, a re-read that was not counted, and a sweep that looked before an `opendir`
  counted destroy a directory with a handle (`HandlesStay` says that nothing else does,
  and that no sweep decides to while a handle is counted).
- A handler that opens a directory between the worker's look at its metadata and the erase
  is left with a directory whose metadata is gone (`DirectoryKeepsMetadata`).
- After a rename of a directory that ended half way two paths can lead to one file: the
  child that was moved has its entry in the old directory still, a `create` of its old
  name gives that entry to a new file, and a rename of this one to the child's new path
  does the rest. Some path leads to moved-from metadata then, and `NoAliases` is about trees
  where none does. Without renames over files and of directories, `PathsDistinct` holds
  unconditionally and is proved.
- A read from an offset beyond the size copies more than the handler's buffer holds
  (`ReadSize`; `structures/metadata.impl.hpp:163-165`): the second half of `ReadsAreExact`.
- The index 2^28 is accepted although its 28 bits are those of index 0 (`Accepted`,
  `KeyIndex`; `structures/utils/data_object_key.hpp:27` says the index is below 2^28).
- After a `create`, `mkdir` or `unlink` that failed the metadata may stay in the cache
  without an entry, and the next `create` of the name answers `EEXIST`
  (`CreateMetadata`; `local_caches/cache_store.impl.hpp:38-43`).
- With three threads `HandlersReturn` fails: two readers that always overlap starve
  a writer, if the mutex prefers readers.
- A crash while a directory outgrows its record, or spans objects, may leave a mix of
  old and new entries (`CrashIsAtomic` is about the others).

Deadlock is checked in every run; the kernel can always issue another call, and
after undefined behaviour the models stutter explicitly.

## What is proved

For every value of the constants, by TLAPS:

| Theorem | Says | From |
|---|---|---|
| `OpenCountProofs!TypeCorrect` | `[]TypeOK` | the assumptions on the constants; any number of threads |
| `OpenCountProofs!CountIsExact` | `[]CountExact` | one handler thread, or any number with operations in `SerialOps`; any failures, renames, unlinks, evictions |
| `OpenCountProofs!HandlesAlwaysValid` | `[]HandlesValid` | one handler thread; says something while no handle operation failed and the file was not renamed |
| `OpenCountProofs!EvictedByUnlinkOnly` | `OnlyUnlinkErases` | the same |
| `FileDataProofs!NothingLeaks` | `[]NoLeak` | `SizesInRange`: sizes with accepted indices |
| `FileDataProofs!CleanIsAlwaysRecorded` | `[]CleanIsRecorded` | the assumptions on the constants |
| `FileRefinementProofs!TypeCorrect` | `[]TypeOK` | the assumptions on the constants |
| `FileRefinementProofs!ImplementsByteFile` | `RefinesByteFile` | `OffsetsInRange`, and no shrinking truncate |
| `FileRefinementProofs!ReadsReturnTheFile` | `[]ReadsAreExact` | `OffsetsInRange`; shrinking included |
| `WriteBackProofs!TypeCorrect` | `[]TypeOK` | the assumptions on the constants |
| `WriteBackProofs!CleanIsAlwaysWritten` | `[]CleanIsWritten` | the same: any files, directories, threshold |
| `WriteBackProofs!RemovedStaysGone` | `[]RemovedIsGone` | the same |
| `DirectoryCacheProofs!TypeCorrect` | `[]TypeOK` | the assumptions on the constants |
| `DirectoryCacheProofs!CountIsExact` | `[]CountExact` | the same: any handles and calls, both policies |
| `DirectoryCacheProofs!MetadataIsKept` | `[]DirectoryKeepsMetadata` | the same |
| `DirectoryCacheProofs!HandlesAlwaysStay` | `HandlesStay` | the same |
| `DirectoryDataProofs!TypeCorrect` | `[]TypeOK` | the assumptions on the constants |
| `DirectoryDataProofs!SizesSuffice` | `[]SizeSuffices` | the same: any names, lengths, object size |
| `DirectoryDataProofs!CleanDirectoriesAreStored` | `[]CleanIsStored` | the same |
| `DirectoryDataProofs!CrashesAreAtomic` | `CrashIsAtomic` | the same |
| `HandlerLocksProofs!TypeCorrect` | `[]TypeOK` | the assumption on the paths: any threads, any tree |
| `HandlerLocksProofs!NeverDeadlocks` | `[]NoDeadlock` | the same |
| `HandlerLocksProofs!NeverRaces` | `[]NoDataRaces` | the same |
| `HandlerLocksProofs!MutexesAreFreed` | `[]NothingStaysLocked` | the same |
| `NamespaceProofs!ImplementsFileTree` | `RefinesFileTree` | `PlainRenames`, no crashes; calls of the backend may fail |
| `NamespaceProofs!AnswersAreRight` | `[]AnswersArePosix` | `PlainRenames`, no crashes, no failing calls |
| `NamespaceProofs!NothingIsLost` | `[]EntriesResolve` | the same |
| `NamespaceProofs!BackgroundChangesNothing` | `BackgroundIsInvisible` | `PlainRenames`; crashes and failing calls included |
| `NamespaceProofs!FailuresChangeNothing` | `FailedCallsChangeNothing` | the same |
| `NamespaceProofs!PathsAreDistinct` | `[](PathsDistinct /\ NoAliases)` | the same |
| `NamespaceProofs!MetadataOutlivesDirectories` | `[]DirectoriesHaveMetadata` | the same |
| `NamespaceProofs!SizesAreStored` | `[]SizedIsStored` | `PlainRenames`, no failing calls; crashes included |
| `NamespaceProofs!TypeCorrect` | `[]TypeOK` | the same |

`PlainRenames`: no rename over an existing file or of a directory, and no renames at all
where crashes or failing calls are among the operations. It excludes what the code is
known to get wrong (see "Restrictions" above); the paths, the depth of the tree and the
identities are arbitrary.

*OpenCount.* `CountExact` alone is not inductive: a step on a destroyed object
would break it, and two handlers between the read and the write of `open_count` lose an
update. `Exact` adds that each handler is where its operation takes it, with the locks
and the object it has there (`Orderly`), and that at most one handler is in the
middle of an update (`OneUpdater`): the only one, or one that holds the mutex exclusively or
has the path to itself. `SerialOps` are the operations of which that is true, with one
failure at most where reads are among them. Nothing is assumed of failures or renames
otherwise: a failed operation moves `leaked` and the count together, and an object
that replaces an evicted or renamed one starts a count of its own.

For `HandlesValid` and `OnlyUnlinkErases` the failures do matter. Their invariant `Ind` is the
type invariant and, while no handle operation failed
and the file was not renamed (`Undisturbed`), `Pinned`: `open_count` equals the open
handles, the handler's reference and the surplus one; there is no stale pointer;
the worker has decided on nothing. The surplus keeps `open_count` above 0, so
`KeepCache` is true, so neither the worker nor a handler ever drops; only
`unlink` erases, and it comes only when no handle is open. The theorem thus says
why the single-threaded file system works: because of the reference that
every load leaks. Repairing that leak alone would expose the races.

*FileData.* `NoLeak` is inductive together with the types, the fact that an empty
file has no objects, and `CleanIsRecorded`: `Reload` brings the recorded size
back, and that must not be smaller than the one the objects were written under.
`write` enlarges the size before the first put, `truncate` shrinks it after the
last removal: in both orders a call that throws halfway leaves the size large
enough.

*FileData implements ByteFile.* `OffsetsInRange` says that the largest size needs
objects with accepted indices only (16 TiB with 64 KiB objects). The refinement's
inductive invariant, `DataInv`, is `TypeOK`, the invariant of `NoLeak` and
`NothingBeyond`: no object holds a byte beyond the size. Without the last a file that
grows would show old bytes; a `truncate` that shrinks breaks it, which is why the
refinement is about the other operations. `write` and `read` cut their range into a
first piece, whole objects and a last piece by `%` and `\div`, and the proof shows that
the pieces are the range, each byte in the object and at the place where a read looks
for it.

*DirectoryData.* The inductive invariant, `DirectoryInv`, has five parts, checked
by TLC on the run's bounds first. `SizeSuffices`. `FlushOK`: during a flush the buffer is what
`serialize` makes of the files, the objects before the next one hold it already, and at the
record all of it is written; `MetadataOK`: `metasize` is the record's size unless both are
dirty; `StoredOK`: a load would find a clean directory; and the types. They rest
on lemmas about the stored form: the size is the same in whatever order the entries are
added up (`SumRemove`), no two entries share a cell (`OnlyEntryAt`), and
`parse` finds what `serialize` wrote whatever follows it (`RoundTrip`), which is why an
object that is longer than the record does no harm. The inductions over the number of
entries and over sets of names are lemmas too (`Induction`, `SubsetInduction`), from
the well-foundedness of the strict subsets of a finite set.

*WriteBack.* The two properties are proved from one invariant, `Ind`. `Locked`: the
worker flushes only what belongs to the map whose mutex it holds, and no handler is
in its section then. `InFlightIsCurrent`: what the worker serialised, and has put, is
what the object holds, unless a handler came in between (`late`). `MarkedIsCached`:
only cached objects that exist are marked, so that `Drop` and `Join` write no
removed one back. `HandlerKnows`: a handler on its way into a section still has
the record it saw, or no entry and no mark, which is what keeps a sweep from dropping
its object first.

*DirectoryCache.* `Counted` strengthens `CountExact`: `surplus` is at least -1, and the
references add up to 0 when the directory is not cached, so that a re-read happens with
`open_count` 0 only and no second reference gets lost. `Swept` says that metadata the
second sweep would drop, or has decided to drop, has lost its directory in the first,
unless `raced`. The arithmetic of the
wrap is three lemmas on `%`. `HandlesStay` follows: with a reference for each handle
no sum that includes one is 0, so that a context never drops the directory of a handle,
and a sweep does only on a count that is not 0 any more.

*HandlerLocks.* A program is `Safe` from the locks it holds if that pair is in a set which
is closed under steps and in which each step is allowed where it stands (`Local`): a map's mutex
is locked with none of the two held; metadata is locked only while the mutex of a directory,
the metadata of a child of it (and then the parent's inode is locked by the kernel), or that of
the old parent of a rename is held (`Before`); entries are looked at under the
metadata's lock or with libfuse's path node; the end comes with no lock. `Runs` says
that a program takes a safe handler from some locks to others, and holds of programs one
after the other, so that the proofs follow the model from the sections of the maps to
`Rename`. An exception is safe by induction on the set of locks. The invariant `ThreadsOK`
is then that each thread is safe, that their requests do not exclude each other and that
their locks are compatible. `NoDeadlock` follows by descent. Whoever waits for
one that waits, waits for metadata; of those that somebody waits for, take the one that
waits for the shortest path. What it waits for is held by a handler that waits for a
shorter one yet, or by the one rename between directories, which holds the inode that this
handler holds. The argument rests on the kernel's inode locks, on its one rename between
directories at a time and on libfuse's path nodes, never on `directory::mutex`.

*Namespace.* A handler is a composition of functions on the state, and so is the proof:
one lemma per operation of `cache_store` and `directory`, from `WriteRecord` to
`RenamePath`, each saying that the invariant `Good` is kept and which part of the tree
changes. `Good(s, X)` has three parts. `Sound`: a clean directory or record is the one on
the backend, an entry and cached metadata of one path agree, a cached directory has its
metadata. `OnePath`: no identity is found at two paths, wherever it is kept: in metadata,
records, cached entries or stored ones. A directory's stored entries count only if no newer
ones are cached, but after a crash the stored ones are the ones that
are read, so where crashes may happen they count always; this is what a failed removal
would otherwise uncover. `Linked`, without
failures and crashes: what is cached or recorded at a path has an entry, and an entry leads to
something. Within a handler the last two do not hold for the paths it works
on (the record goes before or after the entry): they are the `X`. `Invisible` says that
nothing listed changes, which holds of every flush, drop, load and re-read; the
worker, `Unmount` and `Mount` are made of such steps only. `OneMore` says that two
states differ by one path, a file or an empty directory; that `create`, `mkdir`, `unlink` and `rmdir` do
no more than that, wherever they throw, makes each of them one step of `FileTree` or
none. A rename is one path less (the entry and the metadata leave the old name)
and then one more. Reachability along a whole path comes down to one step, from a directory
to its entry (`ReachableStep`). The flushes and drops of
sets of paths in the model are pointwise functions, which is what lets the lemmas
cover any number of cached objects without an induction.

Only model-checked: `HandlersReturn`, `DirtyIsWritten`, `UnmountEnds`, `IdleIsDropped`
and everything else under fairness, which is beyond the prover; `DirectoriesHaveMetadata` and `NoAliases` with renames over
files and of directories (`NamespaceRename`), whose `MoveChildren` folds over a set.

## Not modelled, and the plan

Not modelled:

- `full_path` indexing: an alternative `configuration.hpp` does not select.
- Attributes other than the size: stored and returned as they are (their change is a
  version in `WriteBack`).
- Backend failures in `rename`, `init` and destructors, and two in one handler.
- Iteration over a map that changes, and other uses of destroyed memory beyond the
  point where they happen: undefined, so nothing can be claimed afterwards.
- Byte formats inside an entry or a record; `DirectoryData` keeps entries apart by cells.
- Logging, memory slices, exceptions' texts, connection set-up, option parsing.

Done: `OpenCount`, `Namespace`, `FileData`, `HandlerLocks`, `WriteBack`,
`DirectoryCache`, `DirectoryData`, and proofs about all of them. Left:

1. Failing backend calls in `rename`.
2. `DirectoriesHaveMetadata` of `Namespace` with all renames, as a theorem.
3. The worker in `HandlerLocks`.
