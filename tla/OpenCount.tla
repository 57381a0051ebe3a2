----------------------------- MODULE OpenCount -----------------------------
(***************************************************************************)
(* The life of ONE regular file's cached metadata object: the entry of     *)
(* cache_store::cache for its path, metadata::open_count, metadata::mutex, *)
(* the raw metadata pointers the kernel keeps as file_info->fh, the FUSE   *)
(* handler threads and the background worker that evicts closed entries.   *)
(*                                                                         *)
(* open_count is a plain size_t: "open_count++" and "open_count--" are     *)
(* each a read and a later write, as the compiler may emit them, and only  *)
(* the handlers that hold the metadata mutex exclusively exclude others    *)
(* from doing the same in between.                                         *)
(***************************************************************************)
EXTENDS Integers, FiniteSets

CONSTANTS
  Threads,      \* FUSE handler threads (one with -s, several by default)
  Fds,          \* handles the kernel may have open at once
  CountMod,     \* 2^w of the size_t open_count, scaled down
  MaxFailures,  \* bound: failing handle operations in a behaviour
  Ops,          \* the operations the kernel issues in this model
  NoThread,     \* "no thread holds the mutex"
  NoFd          \* "this operation is not about a handle"

\* Mutant: setattr (chmod, chown, truncate) without the metadata mutex.
ExclusiveOpsNoSetattr == {"create", "unlink", "write"}

\* Operations that look a path up, and operations on a handle.  "read" and "write"
\* also stand for getattr, chmod, chown and truncate called with a handle: the
\* same open_context on file_info->fh, the same unlock_and_release.
PathOps    == {"open", "create", "stat", "setattr", "unlink", "rename"}
HandleOps  == {"read", "write", "release"}

\* The open_contexts with a shared and with a unique lock on metadata.mutex; the
\* other operations use no_lock.
SharedOps == {"stat", "read"}
ExclusiveOps == {"create", "setattr", "unlink", "write"}

\* libfuse takes the path exclusively for these, and the kernel holds the
\* parent's inode lock around them: no other handler runs on the path.
TreeLockedOps == {"create", "unlink", "rename"}

ASSUME ThreadsAssumption  == IsFiniteSet(Threads) /\ NoThread \notin Threads
ASSUME FdsAssumption      == IsFiniteSet(Fds) /\ NoFd \notin Fds
ASSUME OpsAssumption      == Ops \subseteq PathOps \cup HandleOps
ASSUME FailuresAssumption == MaxFailures \in Nat
\* size_t is wider than the number of handles, handlers and the one reference
\* a load leaves behind.
ASSUME CountModAssumption ==
  CountMod \in Nat /\ CountMod > Cardinality(Fds) + Cardinality(Threads) + 1

VARIABLES
  exists,   \* the file exists (parent's entry, and the backend or the cache)
  cached,   \* cache has an entry for the path
  count,    \* open_count of the cached object
  expired,  \* more than valid_duration since last_close
  writer,   \* thread holding metadata.mutex exclusively
  readers,  \* threads holding it shared
  pc, op,   \* where each handler is, and in which operation
  ref,      \* the metadata& each handler uses
  tmp,      \* the register of its open_count++ or open_count--
  hnd,      \* the handle its operation is about
  fd,       \* each handle: its file_info->fh still points to the live object?
  wref,     \* metadata& the worker decided to drop
  fault,    \* a destroyed object was used, or an assert failed
  leaked,   \* ghost: references no handle or handler accounts for
  moved,    \* ghost: the file was renamed
  failures  \* ghost: handle operations that threw

vars == <<exists, cached, count, expired, writer, readers, pc, op, ref, tmp,
          hnd, fd, wref, fault, leaked, moved, failures>>

object == <<cached, count, expired, leaked>>
locks  == <<writer, readers>>
ghosts == <<moved, failures>>

Init ==
  /\ exists = TRUE /\ cached = FALSE /\ count = 0 /\ expired = FALSE
  /\ writer = NoThread /\ readers = {}
  /\ pc = [t \in Threads |-> "idle"]
  /\ op = [t \in Threads |-> "none"]
  /\ ref = [t \in Threads |-> "none"]
  /\ tmp = [t \in Threads |-> 0]
  /\ hnd = [t \in Threads |-> NoFd]
  /\ fd = [d \in Fds |-> "closed"]
  /\ wref = "none" /\ fault = FALSE
  /\ leaked = 0 /\ moved = FALSE /\ failures = 0

-----------------------------------------------------------------------------
(* The pieces the steps are built from.                                    *)

\* Mutants: a single reference counts as closed; open_count is not looked at.
KeepCacheOneIsClosed == count > 1 \/ ~expired
KeepCacheByTime == ~expired

KeepCache == count > 0 \/ ~expired

\* The mutex can be taken in t's mode; no_lock always "succeeds".
CanLock(t) ==
  /\ op[t] \in SharedOps => writer = NoThread
  /\ op[t] \in ExclusiveOps => writer = NoThread /\ readers = {}

Lock(t) ==
  /\ writer'  = IF op[t] \in ExclusiveOps THEN t ELSE writer
  /\ readers' = IF op[t] \in SharedOps THEN readers \cup {t} ELSE readers

Unlock(t) ==
  /\ writer'  = IF writer = t THEN NoThread ELSE writer
  /\ readers' = readers \ {t}

Goto(t, place) == pc' = [pc EXCEPT ![t] = place]

Forget(t) == ref' = [ref EXCEPT ![t] = "none"]

\* t's handler returns.
Return(t) ==
  /\ Goto(t, "idle")
  /\ op'  = [op EXCEPT ![t] = "none"]
  /\ tmp' = [tmp EXCEPT ![t] = 0]
  /\ hnd' = [hnd EXCEPT ![t] = NoFd]

\* A new object for the path: emplaced with open_count 1 by the constructor,
\* before any open_context counts itself.
Emplace ==
  /\ cached' = TRUE /\ count' = 1 /\ expired' = FALSE /\ leaked' = 1

Stale(p) == IF p = "live" THEN "stale" ELSE p

\* t destroys the object and its mutex, whoever else still points to them.
Destroy(t) ==
  /\ count' = 0 /\ expired' = FALSE /\ leaked' = 0
  /\ writer' = NoThread /\ readers' = {}
  /\ ref' = [u \in Threads |-> IF u = t THEN "none" ELSE Stale(ref[u])]
  /\ fd' = [d \in Fds |-> Stale(fd[d])]
  /\ wref' = Stale(wref)

EraseEntry(t) == cached' = FALSE /\ Destroy(t)

-----------------------------------------------------------------------------
(* Handlers, up to the open_context.                                       *)

\* No handler is inside an operation libfuse isolates; t's own isolated
\* operation waits for all others.
MayStart(t, o) ==
  /\ o \in Ops /\ pc[t] = "idle"
  /\ \A u \in Threads \ {t} :
       pc[u] # "idle" => op[u] \notin TreeLockedOps /\ o \notin TreeLockedOps

Start(t, o, d) ==
  /\ op'  = [op EXCEPT ![t] = o]
  /\ hnd' = [hnd EXCEPT ![t] = d]

\* cache.find(path) under a shared cache_mutex, which is released at once.
Find(t, o, d) ==
  /\ MayStart(t, o) /\ exists
  /\ Start(t, o, d)
  /\ Goto(t, IF cached THEN "found" ELSE "miss")
  /\ ref' = [ref EXCEPT ![t] = IF cached THEN "live" ELSE "none"]
  /\ UNCHANGED <<exists, object, locks, tmp, wref, fault, ghosts>>

BeginOpen(t, d) ==
  /\ fd[d] = "closed"
  /\ fd' = [fd EXCEPT ![d] = "opening"]
  /\ Find(t, "open", d)

\* getattr, chmod, chown, truncate and rename by path; libfuse turns the unlink
\* of an open file into a rename.
BeginPath(t, o) ==
  /\ o \in {"stat", "setattr", "unlink", "rename"}
  /\ o = "unlink" => \A d \in Fds : fd[d] = "closed"
  /\ Find(t, o, NoFd)
  /\ UNCHANGED fd

\* The validity check of a found entry: needs the mutex for a moment, and
\* metadata.reload() does nothing.
CheckValid(t) ==
  /\ pc[t] = "found" /\ ref[t] = "live"
  /\ writer = NoThread /\ readers = {}
  /\ Goto(t, "acquire")
  /\ UNCHANGED <<exists, object, locks, op, ref, tmp, hnd, fd, wref, fault, ghosts>>

\* backend->get succeeded: emplace, which yields the present entry if another
\* handler was faster.
Load(t) ==
  /\ pc[t] = "miss"
  /\ IF cached THEN UNCHANGED object ELSE Emplace
  /\ ref' = [ref EXCEPT ![t] = "live"]
  /\ Goto(t, "acquire")
  /\ UNCHANGED <<exists, locks, op, tmp, hnd, fd, wref, fault, ghosts>>

\* create: neither cached nor on the backend, emplaced under cache_mutex.
BeginCreate(t, d) ==
  /\ MayStart(t, "create") /\ ~exists /\ ~cached /\ fd[d] = "closed"
  /\ Start(t, "create", d)
  /\ fd' = [fd EXCEPT ![d] = "opening"]
  /\ exists' = TRUE
  /\ Emplace
  /\ ref' = [ref EXCEPT ![t] = "live"]
  /\ Goto(t, "acquire")
  /\ UNCHANGED <<locks, tmp, wref, fault, ghosts>>

\* A handle operation makes its open_context from file_info->fh.  The kernel
\* releases a handle once, after its last operation.
BeginHandle(t, o, d) ==
  /\ MayStart(t, o) /\ o \in HandleOps
  /\ fd[d] \in {"live", "stale"}
  /\ o = "release" =>
       \A u \in Threads : pc[u] # "idle" /\ op[u] \in HandleOps => hnd[u] # d
  /\ Start(t, o, d)
  /\ ref' = [ref EXCEPT ![t] = fd[d]]
  /\ fd' = IF o = "release" THEN [fd EXCEPT ![d] = "closed"] ELSE fd
  /\ Goto(t, "acquire")
  /\ UNCHANGED <<exists, object, locks, tmp, wref, fault, ghosts>>

\* Mutant: try_to_lock, and looking at the entry again if it fails.
AcquireTry(t) ==
  /\ pc[t] = "acquire" /\ ref[t] = "live"
  /\ IF CanLock(t)
       THEN /\ Lock(t)
            /\ tmp' = [tmp EXCEPT ![t] = count]
            /\ Goto(t, IF op[t] \in PathOps THEN "inc" ELSE "use")
       ELSE Goto(t, IF op[t] \in PathOps THEN "found" ELSE "acquire") /\ UNCHANGED <<locks, tmp>>
  /\ UNCHANGED <<exists, object, op, ref, hnd, fd, wref, fault, ghosts>>

\* The open_context's lock, then the read half of open_count++ if it counts.
Acquire(t) ==
  /\ pc[t] = "acquire" /\ ref[t] = "live"
  /\ CanLock(t) /\ Lock(t)
  /\ tmp' = [tmp EXCEPT ![t] = count]
  /\ Goto(t, IF op[t] \in PathOps THEN "inc" ELSE "use")
  /\ UNCHANGED <<exists, object, op, ref, hnd, fd, wref, fault, ghosts>>

\* The write half of open_count++.  open() hands the pointer to the kernel
\* here; the other operations go on.
Increment(t) ==
  /\ pc[t] = "inc" /\ ref[t] = "live"
  /\ count' = (tmp[t] + 1) % CountMod
  /\ IF op[t] = "open"
       THEN Return(t) /\ Forget(t) /\ fd' = [fd EXCEPT ![hnd[t]] = "live"]
       ELSE Goto(t, "use") /\ UNCHANGED <<op, tmp, hnd, ref, fd>>
  /\ UNCHANGED <<exists, cached, expired, leaked, locks, wref, fault, ghosts>>

-----------------------------------------------------------------------------
(* Handlers, from the open_context on.                                     *)

\* create: unlock_and_release, the reference now belongs to the handle.
CreateDone(t) ==
  /\ pc[t] = "use" /\ op[t] = "create" /\ ref[t] = "live"
  /\ Unlock(t) /\ Return(t) /\ Forget(t)
  /\ fd' = [fd EXCEPT ![hnd[t]] = "live"]
  /\ UNCHANGED <<exists, object, wref, fault, ghosts>>

\* Mutant: read and write without unlock_and_release.
HandleDoneUnreleased(t) ==
  /\ pc[t] = "use" /\ op[t] \in {"read", "write"} /\ ref[t] = "live"
  /\ tmp' = [tmp EXCEPT ![t] = count]
  /\ Goto(t, "dec")
  /\ UNCHANGED <<exists, object, locks, op, ref, hnd, fd, wref, fault, ghosts>>

\* read or write succeeded: unlock_and_release, nothing is counted.
HandleDone(t) ==
  /\ pc[t] = "use" /\ op[t] \in {"read", "write"} /\ ref[t] = "live"
  /\ Unlock(t) /\ Return(t) /\ Forget(t)
  /\ UNCHANGED <<exists, object, fd, wref, fault, ghosts>>

\* read or write threw: the open_context is destroyed unreleased and counts a
\* reference down that it never counted up.
HandleFail(t) ==
  /\ pc[t] = "use" /\ op[t] \in {"read", "write"} /\ ref[t] = "live"
  /\ failures < MaxFailures
  /\ failures' = failures + 1
  /\ leaked' = leaked - 1
  /\ tmp' = [tmp EXCEPT ![t] = count]
  /\ Goto(t, "dec")
  /\ UNCHANGED <<exists, cached, count, expired, locks, op, ref, hnd, fd, wref, fault, moved>>

\* The other operations destroy their open_context: the read half of
\* open_count--.
CloseBegin(t) ==
  /\ pc[t] = "use" /\ op[t] \in {"stat", "setattr", "release"} /\ ref[t] = "live"
  /\ tmp' = [tmp EXCEPT ![t] = count]
  /\ Goto(t, "dec")
  /\ UNCHANGED <<exists, object, locks, op, ref, hnd, fd, wref, fault, ghosts>>

\* Mutant: the subtraction without the wrap-around of size_t.
DecrementSigned(t) ==
  /\ pc[t] = "dec" /\ ref[t] = "live"
  /\ count' = tmp[t] - 1
  /\ expired' = FALSE
  /\ Unlock(t)
  /\ Goto(t, "policy")
  /\ UNCHANGED <<exists, cached, leaked, op, ref, tmp, hnd, fd, wref, fault, ghosts>>

\* The write half of open_count--, last_close, unlock.
Decrement(t) ==
  /\ pc[t] = "dec" /\ ref[t] = "live"
  /\ count' = (tmp[t] + CountMod - 1) % CountMod
  /\ expired' = FALSE
  /\ Unlock(t)
  /\ Goto(t, "policy")
  /\ UNCHANGED <<exists, cached, leaked, op, ref, tmp, hnd, fd, wref, fault, ghosts>>

\* drop_if_policy_requires: keep_cache without any lock.
Policy(t) ==
  /\ pc[t] = "policy" /\ ref[t] = "live"
  /\ IF KeepCache
       THEN Return(t) /\ Forget(t)
       ELSE Goto(t, "drop") /\ UNCHANGED <<op, tmp, hnd, ref>>
  /\ UNCHANGED <<exists, object, locks, fd, wref, fault, ghosts>>

\* drop_if_policy_requires: find and erase under cache_mutex, not looking at
\* keep_cache again.
DropEntry(t) ==
  /\ pc[t] = "drop" /\ ref[t] = "live"
  /\ EraseEntry(t) /\ Return(t)
  /\ UNCHANGED <<exists, fault, ghosts>>

\* The same with the entry gone: a handle operation's path is the kernel's
\* string, and the TODO branch does nothing.
DropNothing(t) ==
  /\ pc[t] = "drop" /\ ref[t] = "stale" /\ op[t] \in HandleOps /\ ~cached
  /\ Return(t) /\ Forget(t)
  /\ UNCHANGED <<exists, object, locks, fd, wref, fault, ghosts>>

\* cache_store::remove: the backend's objects go first and the metadata is
\* unlocked, the entry is still in the cache.
UnlinkRemove(t) ==
  /\ pc[t] = "use" /\ op[t] = "unlink" /\ ref[t] = "live"
  /\ exists' = FALSE
  /\ Unlock(t)
  /\ Goto(t, "erase")
  /\ UNCHANGED <<object, op, ref, tmp, hnd, fd, wref, fault, ghosts>>

UnlinkErase(t) ==
  /\ pc[t] = "erase" /\ ref[t] = "live"
  /\ EraseEntry(t) /\ Return(t)
  /\ UNCHANGED <<exists, fault, ghosts>>

\* cache_store::move: the object is move-constructed into a new one with
\* open_count 0 and the old one erased, whatever handles point to it.
Move(t) ==
  /\ pc[t] = "use" /\ op[t] = "rename" /\ ref[t] = "live"
  /\ Destroy(t) /\ Return(t)
  /\ moved' = TRUE
  /\ UNCHANGED <<exists, cached, fault, failures>>

\* t is about to use an object that was destroyed.  Only DropNothing looks the
\* path up without touching the object.
UseAfterFree(t) ==
  /\ ref[t] = "stale"
  /\ pc[t] = "drop" /\ op[t] \in HandleOps => cached
  /\ fault' = TRUE
  /\ UNCHANGED <<exists, object, locks, pc, op, ref, tmp, hnd, fd, wref, ghosts>>

-----------------------------------------------------------------------------
(* Time and the worker.                                                    *)

\* 30 seconds have passed since last_close.
Expire ==
  /\ cached /\ ~expired
  /\ expired' = TRUE
  /\ UNCHANGED <<exists, cached, count, leaked, locks, pc, op, ref, tmp, hnd, fd, wref, fault, ghosts>>

\* try_drop_regular_files meets the entry: keep_cache without any lock.
WorkerCheck ==
  /\ cached /\ wref = "none" /\ ~KeepCache
  /\ wref' = "live"
  /\ UNCHANGED <<exists, object, locks, pc, op, ref, tmp, hnd, fd, fault, ghosts>>

WorkerDrop ==
  /\ wref = "live"
  /\ wref' = "none"
  /\ cached' = FALSE /\ count' = 0 /\ expired' = FALSE /\ leaked' = 0
  /\ writer' = NoThread /\ readers' = {}
  /\ ref' = [u \in Threads |-> Stale(ref[u])]
  /\ fd' = [d \in Fds |-> Stale(fd[d])]
  /\ UNCHANGED <<exists, pc, op, tmp, hnd, fault, ghosts>>

\* The entry was erased under the worker's iterator and path.
WorkerUseAfterFree ==
  /\ wref = "stale"
  /\ fault' = TRUE
  /\ UNCHANGED <<exists, object, locks, pc, op, ref, tmp, hnd, fd, wref, ghosts>>

-----------------------------------------------------------------------------
Begin(t) ==
  \/ \E d \in Fds : BeginOpen(t, d) \/ BeginCreate(t, d)
  \/ \E o \in PathOps : BeginPath(t, o)
  \/ \E o \in HandleOps, d \in Fds : BeginHandle(t, o, d)

Continue(t) ==
  \/ CheckValid(t) \/ Load(t) \/ Acquire(t) \/ Increment(t)
  \/ CreateDone(t) \/ HandleDone(t) \/ HandleFail(t)
  \/ CloseBegin(t) \/ Decrement(t) \/ Policy(t) \/ DropEntry(t) \/ DropNothing(t)
  \/ UnlinkRemove(t) \/ UnlinkErase(t) \/ Move(t) \/ UseAfterFree(t)

Worker == WorkerCheck \/ WorkerDrop \/ WorkerUseAfterFree

\* Once undefined behaviour happened nothing more is said of the process.
Next ==
  \/ ~fault /\ \E t \in Threads : Begin(t) \/ Continue(t)
  \/ ~fault /\ (Worker \/ Expire)
  \/ fault /\ UNCHANGED vars

\* Threads are scheduled, a mutex that is free again and again is taken, the
\* clock advances and the worker loops every 5 seconds.
Fairness ==
  /\ \A t \in Threads : SF_vars(~fault /\ Continue(t))
  /\ WF_vars(~fault /\ Worker)
  /\ WF_vars(~fault /\ Expire)

Spec == Init /\ [][Next]_vars
FairSpec == Spec /\ Fairness

-----------------------------------------------------------------------------
(* Properties.                                                             *)

\* Every variable has its type.
TypeOK ==
  /\ exists \in BOOLEAN /\ cached \in BOOLEAN /\ expired \in BOOLEAN
  /\ fault \in BOOLEAN /\ moved \in BOOLEAN
  /\ count \in 0 .. CountMod - 1
  /\ writer \in Threads \cup {NoThread} /\ readers \subseteq Threads
  /\ pc \in [Threads -> {"idle", "found", "miss", "acquire", "inc", "use",
                         "dec", "policy", "drop", "erase"}]
  /\ op \in [Threads -> PathOps \cup HandleOps \cup {"none"}]
  /\ ref \in [Threads -> {"none", "live", "stale"}]
  /\ tmp \in [Threads -> 0 .. CountMod - 1]
  /\ hnd \in [Threads -> Fds \cup {NoFd}]
  /\ fd \in [Fds -> {"closed", "opening", "live", "stale"}]
  /\ wref \in {"none", "live", "stale"}
  /\ failures \in 0 .. MaxFailures
  /\ leaked \in -MaxFailures .. 1

\* t's handler holds a reference that its own steps will count down (or,
\* for create, hand over to the new handle).
HoldsReference(t) ==
  \/ op[t] \in {"create", "stat", "setattr", "unlink", "rename"}
       /\ pc[t] \in {"use", "dec", "erase"}
  \/ op[t] = "release" /\ pc[t] \in {"acquire", "use", "dec"}
  \/ op[t] \in {"read", "write"} /\ pc[t] = "dec"

LiveFds == {d \in Fds : fd[d] = "live"}
Holders == {t \in Threads : ref[t] = "live" /\ HoldsReference(t)}

\* open_count is what it is meant to be: the open handles and the handlers
\* using the object, plus the one surplus reference a load or create leaves
\* (open_context.hpp:31-33 on top of metadata.impl.hpp:20,40).  No update of
\* open_count is ever lost.
CountExact ==
  cached => count = (Cardinality(LiveFds) + Cardinality(Holders) + leaked) % CountMod

\* While no handle operation failed and the file was not renamed, a pointer
\* the kernel holds is never to a destroyed object, and no handler or the
\* worker ever touches one, in whatever order handlers, clock and the
\* unsynchronised eviction pass run (cache_store.impl.hpp:80-94).
HandlesValid ==
  failures = 0 /\ ~moved => ~fault /\ \A d \in Fds : fd[d] # "stale"

\* Under the same condition an entry leaves the cache by unlink only: the
\* surplus reference pins it against the policy.
OnlyUnlinkErases ==
  [][cached /\ ~cached' /\ failures = 0 /\ ~moved
       => \E t \in Threads : op[t] = "unlink"]_vars

\* create and open hand the kernel a pointer that is good until release
\* (fuse_operations.cpp:124-125, 184-185).
HandleStaysValid == \A d \in Fds : fd[d] # "stale"

\* Every handler that starts returns, for any order in which the threads get
\* the metadata mutex: no path leaves the mutex locked.
HandlersReturn ==
  \A t \in Threads : pc[t] # "idle" ~> pc[t] = "idle" \/ fault

=============================================================================
