--------------------------- MODULE HandlerLocks ---------------------------
(***************************************************************************)
(* The locks the FUSE handlers take while they run next to each other: the *)
(* metadata mutex of every file and directory, directory::mutex, and the   *)
(* mutexes of the two maps of cache_store.  A handler is its sequence of   *)
(* steps on locks and on directory::files; whether something was cached,   *)
(* still valid, found or dropped is a choice, so that every sequence the   *)
(* code can take is one of the model's.                                    *)
(***************************************************************************)
EXTENDS Naturals, Sequences, SequencesExt, FiniteSets

CONSTANTS
  Threads,     \* FUSE handler threads
  DirPaths,    \* paths of directories, the root <<>> is one
  FilePaths,   \* paths of regular files
  Ops,         \* the operations the kernel issues in this model
  CrowdOps     \* bound: those it issues while more than two handlers run

Root == <<>>
Parent(p) == Front(p)
Paths == DirPaths \cup FilePaths

ASSUME PathsAssumption ==
  /\ Root \in DirPaths /\ DirPaths \cap FilePaths = {}
  /\ \A p \in Paths \ {Root} : p \in Seq(STRING) /\ Parent(p) \in DirPaths

VARIABLES
  request,   \* what each thread's handler was called for
  steps,     \* the steps each handler has left
  held       \* the locks each handler holds: what, how, and how many before it

vars == <<request, steps, held>>

NoRequest == [op |-> "none", path |-> Root, to |-> Root]

Init ==
  /\ request = [t \in Threads |-> NoRequest]
  /\ steps = [t \in Threads |-> << >>]
  /\ held = [t \in Threads |-> {}]

-----------------------------------------------------------------------------
(* Mutexes and steps.                                                      *)

Metadata(p) == <<"metadata", p>>
Directory(d) == <<"directory", d>>
CacheMutex == <<"cache_mutex">>
DirectoryCacheMutex == <<"directory_cache_mutex">>

\* "shared_lock", "unique_lock" of one mutex, and scoped_lock of several, which
\* waits for all of them without holding any.
Acquire(ms, mode) == [do |-> "acquire", on |-> ms, mode |-> mode]

\* Mutant: no_lock locks.
LockAlways(m, mode) == << Acquire({m}, mode) >>

Lock(m, mode) == IF mode = "no_lock" THEN << >> ELSE << Acquire({m}, mode) >>
Unlock(m) == << [do |-> "release", on |-> {m}] >>
Section(ms) == << Acquire(ms, "unique_lock"), [do |-> "release", on |-> ms] >>

\* The entries of d are looked at, or changed.
Read(d)  == << [do |-> "read", on |-> d] >>
Write(d) == << [do |-> "write", on |-> d] >>

\* d is erased from the map: ~directory writes its entries to the backend, if they
\* changed, and destroys them.
Erase(d, ms) ==
  << Acquire(ms, "unique_lock"), [do |-> "destroy", on |-> d], [do |-> "release", on |-> ms] >>

Either(choices) == << [do |-> "either", on |-> choices] >>
Maybe(program) == Either({<< >>, program})
MayThrow == Maybe(<< [do |-> "throw", on |-> {}] >>)

-----------------------------------------------------------------------------
(* cache_store, the open contexts and indexing.                            *)

\* The destructor of a context: unlock, then drop_if_policy_requires, which erases
\* the directory with no lock of its metadata.
CloseFile(f) == Unlock(Metadata(f)) \o Maybe(Section({CacheMutex}))
CloseDirectory(d) ==
  Unlock(Metadata(d)) \o Maybe(Erase(d, {DirectoryCacheMutex})) \o Maybe(Section({CacheMutex}))
Close(p) == IF p \in DirPaths THEN CloseDirectory(p) ELSE CloseFile(p)

\* What an exception does with a lock: metadata is locked by contexts only.
Unwind(m) == IF m = Metadata(m[2]) THEN Close(m[2]) ELSE Unlock(m)

\* open(path, key_generator): the metadata is cached, and locked for the validity
\* check, or loaded.
OpenMetadata(p, keyLookup) ==
  Either({Section({Metadata(p)}), keyLookup \o MayThrow \o Section({CacheMutex})})

\* open_directory: a directory that is not valid any more is erased, with no lock of
\* its metadata, and one that is not cached is loaded.
OpenDirectory(d, mode) ==
  Maybe(Maybe(Erase(d, {DirectoryCacheMutex})) \o OpenMetadata(d, << >>)
          \o Section({DirectoryCacheMutex}))
  \o Lock(Metadata(d), mode)

\* Mutant: the parent is opened without a lock to look an entry up.
LookupUnlocked(p) == OpenDirectory(Parent(p), "no_lock") \o Read(Parent(p))

\* indexing::existing_regular_file_key and get_type.
LookUp(p) ==
  OpenDirectory(Parent(p), "shared_lock") \o Read(Parent(p)) \o MayThrow \o Close(Parent(p))
GetType(p) == IF p = Root THEN << >> ELSE LookUp(p)

OpenFile(f, mode) == OpenMetadata(f, LookUp(f)) \o Lock(Metadata(f), mode)

Open(p, mode) == IF p \in DirPaths THEN OpenDirectory(p, mode) ELSE OpenFile(p, mode)

\* Mutant: remove does not unlock the metadata.
RemoveFileLocked(f) == Section({CacheMutex})

\* cache_store::remove and remove_directory of the open p.
RemoveFile(f) == Unlock(Metadata(f)) \o Section({CacheMutex})
RemoveDirectory(d) ==
  Section({Directory(d)}) \o Unlock(Metadata(d)) \o Erase(d, {DirectoryCacheMutex, CacheMutex})
RemoveOpened(p) == IF p \in DirPaths THEN RemoveDirectory(p) ELSE RemoveFile(p)

\* cache_store::move of a regular file.
MoveFile(f) ==
  OpenFile(f, "no_lock") \o Section({CacheMutex}) \o Section({CacheMutex}) \o Section({CacheMutex})

\* cache_store::move_directory, whose directory has one child.
MoveDirectory(d) ==
  LET children == {f \in FilePaths : Parent(f) = d}
      child(f) == Read(d) \o GetType(f) \o MoveFile(f)
  IN  OpenDirectory(d, "no_lock") \o Section({CacheMutex})
      \o Lock(Directory(d), "shared_lock") \o Either({child(f) : f \in children} \cup {<< >>})
      \o Unlock(Directory(d)) \o Lock(Directory(d), "unique_lock") \o Write(d)
      \o Unlock(Directory(d)) \o Erase(d, {DirectoryCacheMutex, CacheMutex})

Move(p) == IF p \in DirPaths THEN MoveDirectory(p) ELSE MoveFile(p)

-----------------------------------------------------------------------------
(* The handlers.                                                           *)

GetAttr(p) == GetType(p) \o Open(p, "shared_lock") \o Close(p)

\* The file is unlocked for the handle before the parent is closed.
Create(f) ==
  MayThrow \o Section({CacheMutex}) \o Lock(Metadata(f), "unique_lock")
  \o OpenDirectory(Parent(f), "unique_lock") \o Write(Parent(f))
  \o Unlock(Metadata(f)) \o Close(Parent(f))

MakeDirectory(d) ==
  MayThrow \o Section({DirectoryCacheMutex, CacheMutex}) \o MayThrow
  \o Section({DirectoryCacheMutex}) \o Lock(Metadata(d), "unique_lock")
  \o OpenDirectory(Parent(d), "unique_lock") \o Write(Parent(d))
  \o Close(Parent(d)) \o Close(d)

\* unlink, and rmdir, which answers ENOTEMPTY after a look at the files.
Unlink(f) ==
  OpenFile(f, "unique_lock") \o OpenDirectory(Parent(f), "unique_lock")
  \o Write(Parent(f)) \o RemoveOpened(f) \o Close(Parent(f))

RemoveEmptyDirectory(d) ==
  OpenDirectory(d, "unique_lock")
  \o Lock(Directory(d), "shared_lock") \o Read(d) \o Unlock(Directory(d)) \o MayThrow
  \o OpenDirectory(Parent(d), "unique_lock") \o Write(Parent(d))
  \o RemoveOpened(d) \o Close(Parent(d))

\* rename's removal of an existing target.
ReplaceTarget(q) ==
  Open(q, "unique_lock") \o (IF q \in DirPaths THEN Read(q) \o MayThrow ELSE << >>) \o RemoveOpened(q)

\* The old parent is locked before the new one, both after everything else.
MoveEntry(d, e) ==
  IF d = e
    THEN OpenDirectory(d, "unique_lock") \o Write(d) \o Close(d)
    ELSE OpenDirectory(d, "unique_lock") \o OpenDirectory(e, "unique_lock")
         \o Write(d) \o Write(e) \o Close(e) \o Close(d)

\* Mutant: the parents are opened first and the file is moved under their locks.
RenameParentsFirst(p, q) ==
  GetType(p) \o OpenDirectory(Parent(p), "unique_lock") \o Move(p) \o Write(Parent(p))
  \o Close(Parent(p))

Rename(p, q) ==
  GetType(p) \o GetType(q) \o Maybe(ReplaceTarget(q)) \o Move(p) \o MoveEntry(Parent(p), Parent(q))

\* read and write on a handle: the context is released, not closed.
Use(f, mode) == Lock(Metadata(f), mode) \o Unlock(Metadata(f))

\* chmod, chown and truncate by path.
SetAttr(f) == OpenFile(f, "unique_lock") \o Close(f)

ReadDirectory(d) == Lock(Metadata(d), "shared_lock") \o Read(d) \o Unlock(Metadata(d))

Program(r) ==
  CASE r.op = "getattr" -> GetAttr(r.path)
    [] r.op = "open"    -> Open(r.path, "no_lock")
    [] r.op = "readdir" -> ReadDirectory(r.path)
    [] r.op = "read"    -> Use(r.path, "shared_lock")
    [] r.op = "write"   -> Use(r.path, "unique_lock")
    [] r.op = "setattr" -> SetAttr(r.path)
    [] r.op = "create"  -> Create(r.path)
    [] r.op = "mkdir"   -> MakeDirectory(r.path)
    [] r.op = "unlink"  -> Unlink(r.path)
    [] r.op = "rmdir"   -> RemoveEmptyDirectory(r.path)
    [] r.op = "rename"  -> Rename(r.path, r.to)

-----------------------------------------------------------------------------
(* Which handlers the kernel and libfuse let run together.                 *)

Request(o, p, q) == [op |-> o, path |-> p, to |-> q]

Requests ==
  {r \in
     {Request(o, p, p) : o \in {"getattr", "open"}, p \in Paths}
     \cup {Request("readdir", d, d) : d \in DirPaths}
     \cup {Request(o, f, f) : o \in {"read", "write", "setattr", "create", "unlink"}, f \in FilePaths}
     \cup {Request(o, d, d) : o \in {"mkdir", "rmdir"}, d \in DirPaths \ {Root}}
     \cup {Request("rename", p, q) : p \in Paths \ {Root}, q \in Paths \ {Root}}
   : /\ r.op \in Ops
     /\ r.op = "rename" =>
          /\ ~IsPrefix(r.path, r.to) /\ ~IsPrefix(r.to, r.path)
          /\ r.path \in DirPaths <=> r.to \in DirPaths}

Mutators == {"create", "mkdir", "unlink", "rmdir", "rename"}
Removers == {"unlink", "rmdir", "rename"}

\* Inode locks the kernel holds exclusively, or shared, around a request.
Inodes(r) ==
  (IF r.op \in Mutators THEN {Parent(r.path), Parent(r.to)} ELSE {})
  \cup (IF r.op = "rmdir" THEN {r.path} ELSE IF r.op = "rename" THEN {r.to} ELSE {})
SharedInodes(r) == IF r.op = "readdir" THEN {r.path} ELSE {}

\* The path nodes libfuse locks.  A lookup, which is a getattr, and a creation lock
\* the path of the parent.
WriteNodes(r) == IF r.op \in Removers THEN {r.path, r.to} ELSE {}
ReadNodes(r) ==
  IF r.op \in Mutators THEN Prefixes(Parent(r.path)) \cup Prefixes(Parent(r.to))
  ELSE IF r.op = "getattr" /\ r.path # Root THEN Prefixes(Parent(r.path))
  ELSE Prefixes(r.path)

CrossDirectory(r) == r.op = "rename" /\ Parent(r.path) # Parent(r.to)

Excludes(r, s) ==
  \/ Inodes(r) \cap (Inodes(s) \cup SharedInodes(s)) # {}
  \/ WriteNodes(r) \cap (WriteNodes(s) \cup ReadNodes(s)) # {}
  \/ CrossDirectory(r) /\ CrossDirectory(s)

Idle(t) == request[t] = NoRequest

\* Bound: all of three or more handlers are of CrowdOps.
MayCrowd(r) ==
  LET running == {u \in Threads : ~Idle(u)}
  IN  Cardinality(running) > 1 => {r.op} \cup {request[u].op : u \in running} \subseteq CrowdOps

MayStart(t, r) ==
  \A u \in Threads \ {t} :
    ~Idle(u) => ~Excludes(r, request[u]) /\ ~Excludes(request[u], r)

-----------------------------------------------------------------------------
(* The steps of a thread.                                                  *)

Next1(t) == Head(steps[t])
Does(t, what) == steps[t] # << >> /\ Next1(t).do = what
Advance(t) == steps' = [steps EXCEPT ![t] = Tail(@)]

Enter(locks, ms, mode) ==
  locks \cup {[on |-> m, mode |-> mode, age |-> Cardinality(locks)] : m \in ms}
Leave(locks, ms) == {l \in locks : l.on \notin ms}
Youngest(locks) == {l \in locks : \A k \in locks : k.age =< l.age}

Holds(u, m) == \E l \in held[u] : l.on = m
HoldsUnique(u, m) == \E l \in held[u] : l.on = m /\ l.mode = "unique_lock"

\* u holds a lock that t's next step has to wait for.
Blocks(u, t) ==
  /\ Does(t, "acquire")
  /\ \E m \in Next1(t).on :
       IF Next1(t).mode = "shared_lock" THEN HoldsUnique(u, m) ELSE Holds(u, m)

Start(t, r) ==
  /\ Idle(t) /\ MayStart(t, r) /\ MayCrowd(r)
  /\ request' = [request EXCEPT ![t] = r]
  /\ steps' = [steps EXCEPT ![t] = Program(r)]
  /\ UNCHANGED held

Take(t) ==
  /\ Does(t, "acquire") /\ \A u \in Threads : ~Blocks(u, t)
  /\ held' = [held EXCEPT ![t] = Enter(@, Next1(t).on, Next1(t).mode)]
  /\ Advance(t)
  /\ UNCHANGED request

Release(t) ==
  /\ Does(t, "release")
  /\ held' = [held EXCEPT ![t] = Leave(@, Next1(t).on)]
  /\ Advance(t)
  /\ UNCHANGED request

Look(t) ==
  /\ Does(t, "read") \/ Does(t, "write") \/ Does(t, "destroy")
  /\ Advance(t)
  /\ UNCHANGED <<request, held>>

Choose(t) ==
  /\ Does(t, "either")
  /\ \E program \in Next1(t).on : steps' = [steps EXCEPT ![t] = program \o Tail(@)]
  /\ UNCHANGED <<request, held>>

\* An exception, or an early return: the contexts are destroyed, youngest first.
Throw(t) ==
  /\ Does(t, "throw")
  /\ \/ held[t] = {} /\ steps' = [steps EXCEPT ![t] = << >>]
     \/ \E l \in Youngest(held[t]) :
          steps' = [steps EXCEPT ![t] = Unwind(l.on) \o <<Next1(t)>>]
  /\ UNCHANGED <<request, held>>

Return(t) ==
  /\ ~Idle(t) /\ steps[t] = << >>
  /\ request' = [request EXCEPT ![t] = NoRequest]
  /\ UNCHANGED <<steps, held>>

Continue(t) ==
  Take(t) \/ Release(t) \/ Look(t) \/ Choose(t) \/ Throw(t) \/ Return(t)

Next == \E t \in Threads : Continue(t) \/ \E r \in Requests : Start(t, r)

Spec == Init /\ [][Next]_vars

-----------------------------------------------------------------------------
(* Properties.                                                             *)

Modes == {"shared_lock", "unique_lock"}
Mutexes ==
  {Metadata(p) : p \in Paths} \cup {Directory(d) : d \in DirPaths}
  \cup {CacheMutex, DirectoryCacheMutex}

\* Every variable has its type, and no mutex is held in conflicting modes.
TypeOK ==
  /\ request \in [Threads -> Requests \cup {NoRequest}]
  /\ \A t \in Threads : held[t] \subseteq [on : Mutexes, mode : Modes, age : Nat]
  /\ \A t, u \in Threads : \A m \in Mutexes :
       t # u /\ HoldsUnique(t, m) => ~Holds(u, m)

\* No set of handlers waits for each other, and none for itself: no handler
\* locks a mutex it already holds, and the orders child-parent and old parent-new
\* parent never meet head-on (fuse_operations.cpp:106-134, 198-257, 300-411,
\* cache_store.impl.hpp:96-264).
NoDeadlock ==
  \A S \in (SUBSET Threads) \ {{}} : \E t \in S : \A u \in S : ~Blocks(u, t)

Accesses(t) == Does(t, "read") \/ Does(t, "write")

\* While one handler changes a directory's std::set of files no other reads or
\* changes it, though none of add_file, remove_file, get_entry, fill_buffer and
\* move_entry takes directory::mutex (directory.impl.hpp:68-96, 145-204); none does
\* while rmdir or rename destroys the directory it removed or moved; and no two
\* destroy directories at once.  Nothing is said of a directory that is destroyed
\* because it expired, or because the policy drops it: that takes no lock of its
\* metadata, and another handler may be using it (cache_store.impl.hpp:160-164, 196-205).
NoDataRaces ==
  \A t, u \in Threads :
    t # u =>
      /\ Does(t, "write") /\ Accesses(u) => Next1(t).on # Next1(u).on
      /\ Does(t, "destroy") /\ Next1(t).on \in WriteNodes(request[t]) /\ Accesses(u)
           => Next1(t).on # Next1(u).on
      /\ ~(Does(t, "destroy") /\ Does(u, "destroy"))

\* However a handler ends, with an answer, an early return or an exception, no
\* mutex stays locked (open_context.hpp:45-61, directory_open_context.hpp:32-49).
NothingStaysLocked == \A t \in Threads : steps[t] = << >> => held[t] = {}

=============================================================================
