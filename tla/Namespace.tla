----------------------------- MODULE Namespace -----------------------------
(***************************************************************************)
(* Directories, file metadata and where they are kept: the metadata cache  *)
(* and the directory cache of cache_store, and the records of the backend. *)
(* The FUSE handlers that look names up and change them, one pass of the   *)
(* background worker, mount, unmount and a crash are one action each: this *)
(* is the process with one handler thread, seen between handlers.          *)
(*                                                                         *)
(* A handler is written as a function on the state s of caches and         *)
(* backend, composed of the cache_store operations it calls; s.err is the  *)
(* exception in flight, "ok" if there is none; s.left, if not 0, is the    *)
(* number of backend calls until one throws.                               *)
(***************************************************************************)
EXTENDS Naturals, Integers, Sequences, SequencesExt, FiniteSets, FiniteSetsExt, Functions

CONSTANTS
  DirPaths,    \* paths directories may have; the root <<>> is one
  FilePaths,   \* paths regular files may have
  Ids,         \* uuids generate_uuid may return (data_key_base)
  Ops,         \* the operations and events of this model
  Lost         \* the identity of an entry whose metadata is nowhere or moved away

Root == <<>>
Parent(p) == Front(p)
Name(p) == Last(p)
Paths == (DirPaths \cup FilePaths) \ {Root}

ASSUME PathsAssumption ==
  /\ Root \in DirPaths
  /\ \A p \in Paths :
       p \in Seq(STRING) /\ \A k \in 0 .. Len(p) - 1 : SubSeq(p, 1, k) \in DirPaths
ASSUME IdsAssumption == IsFiniteSet(Ids) /\ Lost \notin Ids

VARIABLES
  mc,       \* cache: path -> metadata
  dc,       \* directory_cache: path -> [entries: name -> [id, kind], dirty]
  dmeta,    \* backend: a directory's metadata record, its key is the path
  fmeta,    \* backend: the regular files' metadata records, keyed by uuid
  data,     \* backend: a directory's data objects, their keys start with the path
  mounted,  \* the process runs
  undefined,\* the process executed undefined behaviour
  answer    \* the last handler's result, and the one POSIX asks for

vars == <<mc, dc, dmeta, fmeta, data, mounted, undefined, answer>>

NoEntries == [n \in {} |-> n]

\* f with k mapped to v, whether or not it was in the domain; f without k.
Put(f, k, v) == [x \in DOMAIN f \cup {k} |-> IF x = k THEN v ELSE f[x]]
Del(f, k) == Restrict(f, DOMAIN f \ {k})

\* std::map::emplace
Emplace(f, k, v) == IF k \in DOMAIN f THEN f ELSE Put(f, k, v)

State == [mc |-> mc, dc |-> dc, dmeta |-> dmeta, fmeta |-> fmeta, data |-> data,
          undefined |-> undefined, err |-> "ok", left |-> 0]

Fail(s, errno) == [s EXCEPT !.err = errno]

\* A call of the backend, which may throw generic_kv_api_failure.
Call(s) ==
  [s EXCEPT !.left = IF @ = 0 THEN 0 ELSE @ - 1, !.err = IF s.left = 1 THEN "EIO" ELSE @]

-----------------------------------------------------------------------------
(* Metadata and its life in the cache.                                     *)

\* count is open_count with no handle open: the surplus or missing references
\* that loads, creates and the contexts of directories leave.  1 stands for any
\* positive number (it never comes down again while the directory is cached), -1
\* for the wrapped size_t; a removal that fails can make it -2.
Counts == -1 .. 1
CountUp(md) == [md EXCEPT !.count = IF @ = 1 THEN 1 ELSE @ + 1, !.expired = FALSE]

\* Mutant: open_directory's and the context's reference are both dropped.
CountDownTwice(md) == [md EXCEPT !.count = @ - 2, !.expired = FALSE]

CountDown(md) == [md EXCEPT !.count = @ - 1, !.expired = FALSE]
Touch(md) == [md EXCEPT !.expired = FALSE]

\* is_valid and keep_cache.
Valid(md) == md.count # 0 \/ ~md.expired

Metadata(kind, id, sized, dirty, count) ==
  [kind |-> kind, id |-> id, sized |-> sized, dirty |-> dirty, count |-> count,
   expired |-> FALSE]

\* A moved-from object: its data_key_base is moved away, its valid is false, and
\* flush and remove do nothing.
MovedFrom(md) == [md EXCEPT !.id = Lost, !.dirty = FALSE]

\* metadata::flush of md with the key of p.
WriteRecord(s, p, md) ==
  IF md.id = Lost THEN s
  ELSE IF md.kind = "dir"
    THEN [s EXCEPT !.dmeta = Put(@, p, [id |-> md.id, sized |-> md.sized])]
    ELSE [s EXCEPT !.fmeta = @ \cup {md.id}]

\* metadata::flush of every one of paths: each writes a record of its own, in any order.
FlushMetadata(s, paths) ==
  LET dirty == {p \in paths : s.mc[p].dirty /\ s.mc[p].id # Lost}
      dirs  == {p \in dirty : s.mc[p].kind = "dir"}
  IN [s EXCEPT
        !.mc = [p \in DOMAIN @ |-> IF p \in dirty THEN [@[p] EXCEPT !.dirty = FALSE] ELSE @[p]],
        !.dmeta = [p \in DOMAIN @ \cup dirs |->
                     IF p \in dirs THEN [id |-> s.mc[p].id, sized |-> s.mc[p].sized] ELSE @[p]],
        !.fmeta = @ \cup {s.mc[p].id : p \in dirty \ dirs}]

\* metadata::~metadata writes the record back.
EraseMetadata(s, paths) ==
  LET s1 == FlushMetadata(s, paths) IN [s1 EXCEPT !.mc = Restrict(@, DOMAIN @ \ paths)]

\* cache.emplace(p, std::move(md)): if p is taken, the temporary is destroyed.
EmplaceMetadata(s, p, md) ==
  IF p \in DOMAIN s.mc THEN WriteRecord(s, p, md) ELSE [s EXCEPT !.mc = Put(@, p, md)]

\* remove_data_objects, the part of metadata::remove if there is a size.
RemoveData(s, p) ==
  IF s.mc[p].kind # "dir" \/ ~s.mc[p].sized THEN s
  ELSE LET s1 == Call(s) IN IF s1.err # "ok" THEN s1 ELSE [s1 EXCEPT !.data = Del(@, p)]

\* Mutant: the record of a directory stays.
RemoveDataOnly(s, p) ==
  IF s.mc[p].kind = "dir" THEN RemoveData(s, p) ELSE [s EXCEPT !.fmeta = @ \ {s.mc[p].id}]

\* metadata::remove: the data objects, then the record.
RemoveRecord(s, p) ==
  LET s1 == RemoveData(s, p)
      s2 == IF s1.err # "ok" THEN s1 ELSE Call(s1)
  IN  IF s.mc[p].id = Lost THEN s
      ELSE IF s2.err # "ok" THEN s2
      ELSE IF s.mc[p].kind = "dir" THEN [s2 EXCEPT !.dmeta = Del(@, p)]
      ELSE [s2 EXCEPT !.fmeta = @ \ {s.mc[p].id}]

-----------------------------------------------------------------------------
(* Directories.                                                            *)

\* directory::directory: the entries are read if there is a size; data objects
\* that do not exist read as zeros, which is no entry.
ReadDirectory(s, p) ==
  LET s1 == IF s.mc[p].sized THEN Call(s) ELSE s
  IN  IF s1.err # "ok" THEN s1
      ELSE [s1 EXCEPT !.dc = Put(@, p,
              [entries |-> IF s.mc[p].sized /\ p \in DOMAIN s.data THEN s.data[p] ELSE NoEntries,
               dirty   |-> ~s.mc[p].sized])]

\* The directories of paths that are to be written have a size from now on.
Size(s, paths) ==
  [p \in DOMAIN s.mc |->
     IF p \in paths /\ s.dc[p].dirty THEN [s.mc[p] EXCEPT !.sized = TRUE, !.dirty = TRUE]
     ELSE s.mc[p]]

\* Their dirty flags are reset.
Clean(s, paths) ==
  [p \in DOMAIN s.dc |-> IF p \in paths THEN [s.dc[p] EXCEPT !.dirty = FALSE] ELSE s.dc[p]]

\* Mutant: a flush that writes the size and not the entries.
FlushSizeOnly(s, paths) ==
  FlushMetadata([s EXCEPT !.mc = Size(s, paths), !.dc = Clean(s, paths)], paths)

\* directory::flush of every one of paths: entries, and with them the metadata that
\* has their size.
FlushDirectory(s, paths) ==
  LET dirty == {p \in paths : s.dc[p].dirty}
      data1 == [p \in DOMAIN s.data \cup dirty |->
                  IF p \in dirty THEN s.dc[p].entries ELSE s.data[p]]
  IN FlushMetadata([s EXCEPT !.mc = Size(s, paths), !.dc = Clean(s, paths), !.data = data1], paths)

\* Mutant: a destructor that does not flush.
EraseUnflushed(s, paths) == [s EXCEPT !.dc = Restrict(@, DOMAIN @ \ paths)]

\* directory::~directory flushes.
EraseDirectory(s, paths) ==
  LET s1 == FlushDirectory(s, paths) IN [s1 EXCEPT !.dc = Restrict(@, DOMAIN @ \ paths)]

IsCached(s, p) == p \in DOMAIN s.dc /\ Valid(s.mc[p])

\* directory_cache has no p, its metadata is cached: the directory is read, and its
\* context destroyed.
ReadAgain(s, p) ==
  IF s.mc[p].kind # "dir" THEN Fail(s, "ENOTDIR")
  ELSE LET s1 == ReadDirectory(s, p)
       IN  IF s1.err # "ok" THEN s1 ELSE [s1 EXCEPT !.mc[p] = CountDown(@)]

\* The metadata is loaded with open_count 1; the context of the directory counts it
\* down, if the directory can be read.
LoadDirectory(s, p) ==
  LET s1 == Call(s)
  IN  IF s1.err # "ok" THEN s1
      ELSE IF p \notin DOMAIN s.dmeta THEN Fail(s1, "ENOENT")
      ELSE ReadAgain([s1 EXCEPT !.mc = Put(@, p,
             Metadata("dir", s.dmeta[p].id, s.dmeta[p].sized, FALSE, 1))], p)

\* open_directory of p and, at the end of the handler, the destruction of its
\* context.  A cached valid directory gains a reference, one whose metadata is
\* cached but has to be read again loses one, a loaded one is counted right.
OpenDirectory(s, p) ==
  IF s.err # "ok" THEN s
  ELSE IF IsCached(s, p)
    THEN [s EXCEPT !.mc[p] = CountUp(@)]
  ELSE IF p \in DOMAIN s.mc
    THEN ReadAgain(IF p \in DOMAIN s.dc THEN EraseDirectory(s, {p}) ELSE s, p)
  ELSE LoadDirectory(s, p)

HasEntry(s, p) == Name(p) \in DOMAIN s.dc[Parent(p)].entries
Entry(s, p) == s.dc[Parent(p)].entries[Name(p)]

\* indexing::get_type and the lookup of a regular file's key: open the parent,
\* find the entry.
GetEntry(s, p) == IF s.err = "ok" /\ ~HasEntry(s, p) THEN Fail(s, "ENOENT") ELSE s
FindEntry(s, p) == GetEntry(OpenDirectory(s, Parent(p)), p)

\* Mutant: add_file forgets that the directory has to be written.
AddEntryClean(s, p) ==
  IF s.err # "ok" \/ HasEntry(s, p) THEN s
  ELSE [s EXCEPT !.dc[Parent(p)].entries =
          Put(@, Name(p), [id |-> s.mc[p].id, kind |-> s.mc[p].kind])]

\* Mutant: remove_file forgets that the directory has to be written.
RemoveEntryClean(s, p) ==
  IF s.err # "ok" \/ ~HasEntry(s, p) THEN s
  ELSE [s EXCEPT !.dc[Parent(p)].entries = Del(@, Name(p))]

\* directory::add_file and remove_file on the open parent of p.
AddEntry(s, p) ==
  IF s.err # "ok" \/ HasEntry(s, p) THEN s
  ELSE [s EXCEPT !.dc[Parent(p)] =
          [entries |-> Put(@.entries, Name(p),
                           [id |-> s.mc[p].id, kind |-> s.mc[p].kind]),
           dirty   |-> TRUE]]

RemoveEntry(s, p) ==
  IF s.err # "ok" \/ ~HasEntry(s, p) THEN s
  ELSE [s EXCEPT !.dc[Parent(p)] =
          [entries |-> Del(@.entries, Name(p)), dirty |-> TRUE]]

\* Mutant: move_entry copies the node.
CopyEntry(s, p, q) ==
  IF s.err # "ok" THEN s
  ELSE IF ~HasEntry(s, p) THEN Fail(s, "ENOENT")
  ELSE [s EXCEPT !.dc[Parent(q)] =
          [entries |-> Emplace(@.entries, Name(q), Entry(s, p)), dirty |-> TRUE]]

\* directory::move_entry: the extracted node is lost if the target has one of
\* that name.
MoveEntry(s, p, q) ==
  IF s.err # "ok" THEN s
  ELSE IF ~HasEntry(s, p) THEN Fail(s, "ENOENT")
  ELSE LET s1 == RemoveEntry(s, p)
       IN  [s1 EXCEPT !.dc[Parent(q)] =
              [entries |-> Emplace(@.entries, Name(q), Entry(s, p)), dirty |-> TRUE]]

-----------------------------------------------------------------------------
(* Regular files.                                                          *)

\* The metadata that the entry of p names is loaded.
LoadFile(s, p) ==
  IF s.err # "ok" THEN s
  ELSE LET s1 == Call(s)
       IN  IF s1.err # "ok" THEN s1
           ELSE IF Entry(s, p).id \in s.fmeta
             THEN [s1 EXCEPT !.mc = Put(@, p, Metadata("file", Entry(s, p).id, FALSE, FALSE, 1))]
             ELSE Fail(s1, "ENOENT")

\* open<> of p and the destruction of its context.
OpenFile(s, p) ==
  IF s.err # "ok" THEN s
  ELSE IF p \in DOMAIN s.mc THEN [s EXCEPT !.mc[p] = Touch(@)]
  ELSE LoadFile(FindEntry(s, p), p)

\* cache_store::remove
RemoveFile(s, p) ==
  IF s.err # "ok" THEN s
  ELSE LET s1 == RemoveRecord(s, p) IN IF s1.err # "ok" THEN s1 ELSE [s1 EXCEPT !.mc = Del(@, p)]

\* cache_store::remove_directory of p, opened in state before.  It counts down before
\* it removes anything; if that throws, the context counts down once more.  The path
\* of the context is the key of directory_cache, unless the directory was cached and
\* valid; it is looked up in cache after erasing it.
RemoveDirectory(s, p, before) ==
  LET cached == IsCached(before, p)
      s1 == RemoveRecord(s, p)
  IN  IF s.err # "ok" THEN s
      ELSE IF s1.err # "ok"
        THEN [s1 EXCEPT !.mc[p].count = IF cached THEN before.mc[p].count ELSE @ - 1]
      ELSE [s1 EXCEPT !.mc = Del(@, p), !.dc = Del(@, p), !.undefined = @ \/ ~cached]

\* The metadata a move makes of md.
Moved(md) == [md EXCEPT !.dirty = TRUE, !.count = 0, !.expired = FALSE]

\* cache_store::move: the new object starts with open_count 0.
MoveOpened(s, p, q) ==
  IF s.err # "ok" THEN s
  ELSE [EmplaceMetadata(s, q, Moved(s.mc[p])) EXCEPT !.mc = Del(@, p)]

MoveFile(s, p, q) == MoveOpened(OpenFile(s, p), p, q)

\* The directory's move constructor: the children, regular files here, are moved
\* one by one, each after a get_type of its path.
MoveChildren(s, p, q) ==
  FoldSet(LAMBDA n, r : MoveFile(FindEntry(r, Append(p, n)), Append(p, n), Append(q, n)),
          s, DOMAIN s.dc[p].entries)

\* cache_store::move_directory, with the context released and its reference kept, up
\* to the last child.  The metadata gets the new key and everything under the old one
\* is removed.  get_type of the first child finds the directory it iterates over
\* invalid, and erases it, if its time was over.
MoveStarted(s, p, q, expired) ==
  LET s1 == EmplaceMetadata(RemoveRecord(s, p), q, Moved(s.mc[p]))
  IN MoveChildren([s1 EXCEPT
        !.mc[p] = MovedFrom(CountUp(@)), !.dc[p].dirty = FALSE,
        !.undefined = @ \/ (expired /\ s.dc[p].entries # NoEntries)], p, q)

\* The new directory is not dirty, and the local one it is moved from flushes the
\* metadata when it is destroyed.
MoveDone(s, p, q) ==
  FlushMetadata([s EXCEPT
     !.mc = Del(@, p),
     !.dc = Del(Emplace(@, q, [entries |-> s.dc[p].entries, dirty |-> FALSE]), p)], {q})

\* Mutant: the old metadata goes also if a child could not be moved.
MoveLosingMetadata(s, p, q, expired) ==
  IF s.err # "ok" THEN s
  ELSE LET s1 == MoveStarted(s, p, q, expired)
       IN  IF s1.err # "ok" THEN [s1 EXCEPT !.mc = Del(@, p)] ELSE MoveDone(s1, p, q)

\* A child that cannot be moved ends the move where it is: the old directory stays
\* cached, clean and with all its entries, on the metadata that was moved away, and
\* the new metadata has no directory.
MoveOpenedDirectory(s, p, q, expired) ==
  IF s.err # "ok" THEN s
  ELSE LET s1 == MoveStarted(s, p, q, expired)
       IN  IF s1.err # "ok" THEN s1 ELSE MoveDone(s1, p, q)

MoveDirectory(s, p, q) ==
  MoveOpenedDirectory(OpenDirectory(s, p), p, q, p \in DOMAIN s.mc /\ ~Valid(s.mc[p]))

-----------------------------------------------------------------------------
(* The background worker and the destructors.                              *)

FlushFiles(s) == FlushMetadata(s, {p \in DOMAIN s.mc : s.mc[p].kind = "file"})

\* Only the directories whose METADATA is dirty.
FlushDirectories(s) == FlushDirectory(s, {p \in DOMAIN s.dc : s.mc[p].dirty})

DropDirectories(s) == EraseDirectory(s, {p \in DOMAIN s.dc : ~Valid(s.mc[p])})
DropMetadata(s) == EraseMetadata(s, {p \in DOMAIN s.mc : ~Valid(s.mc[p])})

\* super_object's destructor, then the members of cache_store: directory_cache
\* goes before cache.
DestroyCaches(s) ==
  EraseMetadata(EraseDirectory(FlushFiles(FlushDirectories(s)), DOMAIN s.dc), DOMAIN s.mc)

-----------------------------------------------------------------------------
(* The handlers.                                                           *)

\* The entry that get_type found decides which open is called.
OpenEntry(s, p) ==
  IF s.err # "ok" THEN s
  ELSE IF Entry(s, p).kind = "file" THEN OpenFile(s, p) ELSE OpenDirectory(s, p)

\* getattr, which the kernel calls to look a name up.
GetAttr(s, p) == OpenEntry(FindEntry(s, p), p)

\* cache_store::create.  If the backend has a record with the key, or does not say,
\* the exception destroys the temporary metadata, whose destructor writes it there.
CreateMetadata(s, p, md) ==
  IF p \in DOMAIN s.mc THEN Fail(s, "EEXIST")
  ELSE LET s1 == Call(s)
       IN  IF s1.err # "ok" THEN WriteRecord(s1, p, md)
           ELSE IF md.kind = "dir" /\ p \in DOMAIN s.dmeta
             THEN Fail(WriteRecord(s1, p, md), "EEXIST")
             ELSE EmplaceMetadata(s1, p, md)

\* create, with the file closed again.
CreateFile(s, p, id) ==
  AddEntry(OpenDirectory(CreateMetadata(s, p, Metadata("file", id, FALSE, TRUE, 1)),
                         Parent(p)), p)

\* cache_store::create_directory
CreateDirectory(s, p, id) ==
  LET s1 == CreateMetadata(s, p, Metadata("dir", id, FALSE, TRUE, 1))
  IN  IF s1.err # "ok" THEN s1 ELSE ReadDirectory(s1, p)

MakeDirectory(s, p, id) ==
  AddEntry(OpenDirectory(CreateDirectory(s, p, id), Parent(p)), p)

\* Mutant: the record goes before the parent is opened.
UnlinkRecordFirst(s, p) ==
  RemoveEntry(OpenDirectory(RemoveFile(OpenFile(s, p), p), Parent(p)), p)

UnlinkFile(s, p) ==
  RemoveFile(RemoveEntry(OpenDirectory(OpenFile(s, p), Parent(p)), p), p)

\* rmdir and rename remove a directory only if it has no files.
CheckEmpty(s, p) ==
  IF s.err = "ok" /\ s.dc[p].entries # NoEntries THEN Fail(s, "ENOTEMPTY") ELSE s

RemoveEmptyDirectory(s, p) ==
  LET opened == CheckEmpty(OpenDirectory(s, p), p)
  IN  RemoveDirectory(RemoveEntry(OpenDirectory(opened, Parent(p)), p), p, s)

\* rename's treatment of an existing target: its metadata goes, its entry in the
\* parent stays.
ReplaceTarget(s, q) ==
  IF s.err # "ok" \/ ~HasEntry(s, q) THEN s
  ELSE IF Entry(s, q).kind = "file" THEN RemoveFile(OpenFile(s, q), q)
  ELSE RemoveDirectory(CheckEmpty(OpenDirectory(s, q), q), q, s)

Move(s, p, q, kind) ==
  IF s.err # "ok" THEN s
  ELSE IF kind = "file" THEN MoveFile(s, p, q) ELSE MoveDirectory(s, p, q)

\* The parents are opened again, once if they are the same.
OpenParents(s, p, q) ==
  LET opened == OpenDirectory(s, Parent(p))
  IN  IF Parent(p) = Parent(q) THEN opened ELSE OpenDirectory(opened, Parent(q))

\* The type of p is the one found at the start.  Not to find the target's parent
\* counts as not finding the target.
RenameEntry(s, p, q) ==
  IF s.err # "ok" THEN s
  ELSE LET parent == OpenDirectory(s, Parent(q))
           free   == IF parent.err = "ENOENT" THEN [parent EXCEPT !.err = "ok"]
                     ELSE ReplaceTarget(parent, q)
           moved  == Move(free, p, q, Entry(s, p).kind)
       IN  MoveEntry(OpenParents(moved, p, q), p, q)

RenamePath(s, p, q) == RenameEntry(FindEntry(s, p), p, q)

-----------------------------------------------------------------------------
(* What a user sees: the tree the caches and the backend together hold.    *)

\* What the directory p contains; a file of that name that is cached says nothing of it.
EntriesOf(s, p) ==
  IF p \in DOMAIN s.dc THEN s.dc[p].entries
  ELSE LET sized == IF p \in DOMAIN s.mc /\ s.mc[p].kind = "dir" THEN s.mc[p].sized
                    ELSE p \in DOMAIN s.dmeta /\ s.dmeta[p].sized
       IN  IF sized /\ p \in DOMAIN s.data THEN s.data[p] ELSE NoEntries

Listed(s, p) == Name(p) \in DOMAIN EntriesOf(s, Parent(p))
Listing(s, p) == EntriesOf(s, Parent(p))[Name(p)]

\* The identity of what the entry e of path p leads to.
Resolve(s, p, e) ==
  IF p \in DOMAIN s.mc THEN s.mc[p].id
  ELSE IF e.kind = "file" THEN (IF e.id \in s.fmeta THEN e.id ELSE Lost)
  ELSE IF p \in DOMAIN s.dmeta THEN s.dmeta[p].id ELSE Lost

\* Every name on the way is an entry, of a directory but for the last.
Reachable(s) ==
  {p \in Paths : \A q \in Paths :
     IsPrefix(q, p) => Listed(s, q) /\ (q # p => Listing(s, q).kind = "dir")}

Node(s, p) == [kind |-> Listing(s, p).kind, id |-> Resolve(s, p, Listing(s, p))]

Tree(s) == [p \in Reachable(s) |-> Node(s, p)]

View == Tree(State)

UsedIds ==
  {mc[p].id : p \in DOMAIN mc} \cup {dmeta[p].id : p \in DOMAIN dmeta} \cup fmeta
  \cup (UNION {{dc[p].entries[n].id : n \in DOMAIN dc[p].entries} : p \in DOMAIN dc})
  \cup (UNION {{data[p][n].id : n \in DOMAIN data[p]} : p \in DOMAIN data})

Exists(p, kind) == p \in DOMAIN View /\ View[p].kind = kind
IsDirectory(p) == p = Root \/ Exists(p, "dir")
IsEmpty(p) == \A q \in DOMAIN View : Parent(q) # p

-----------------------------------------------------------------------------
(* The actions.  The kernel looks names up first and issues an operation   *)
(* only if what it saw allows it; "wanted" is what POSIX answers then.     *)

Init ==
  /\ mc = NoEntries /\ dc = NoEntries
  /\ dmeta = NoEntries /\ fmeta = {} /\ data = NoEntries
  /\ mounted = FALSE /\ undefined = FALSE
  /\ answer = [got |-> "ok", wanted |-> "ok"]

Become(s) ==
  /\ mc' = s.mc /\ dc' = s.dc /\ dmeta' = s.dmeta /\ fmeta' = s.fmeta /\ data' = s.data
  /\ undefined' = s.undefined

Answer(s, wanted) ==
  /\ Become(s)
  /\ answer' = [got |-> s.err, wanted |-> wanted]
  /\ UNCHANGED mounted

Running(o) == o \in Ops /\ mounted /\ ~undefined

\* A handler may run into a failing call of the backend; none but rename makes more
\* than six that are not in a destructor.  A rename's calls do not fail here.
Attempts == {[State EXCEPT !.left = k] : k \in IF "fail" \in Ops THEN 0 .. 6 ELSE {0}}

Lookup(p) ==
  /\ Running("lookup") /\ IsDirectory(Parent(p))
  /\ \E s \in Attempts : Answer(GetAttr(s, p), IF p \in DOMAIN View THEN "ok" ELSE "ENOENT")

Create(p) ==
  /\ Running("create") /\ p \in FilePaths
  /\ IsDirectory(Parent(p)) /\ p \notin DOMAIN View
  /\ \E id \in Ids \ UsedIds : \E s \in Attempts : Answer(CreateFile(s, p, id), "ok")

Mkdir(p) ==
  /\ Running("mkdir") /\ p \in DirPaths
  /\ IsDirectory(Parent(p)) /\ p \notin DOMAIN View
  /\ \E id \in Ids \ UsedIds : \E s \in Attempts : Answer(MakeDirectory(s, p, id), "ok")

Unlink(p) ==
  /\ Running("unlink") /\ Exists(p, "file")
  /\ \E s \in Attempts : Answer(UnlinkFile(s, p), "ok")

Rmdir(p) ==
  /\ Running("rmdir") /\ Exists(p, "dir")
  /\ \E s \in Attempts :
       Answer(RemoveEmptyDirectory(s, p), IF IsEmpty(p) THEN "ok" ELSE "ENOTEMPTY")

\* Renaming to a new name, over a file, and of directories are separate
\* operations of Ops.
RenameOp(p, q) ==
  IF q \in DOMAIN View THEN "rename_over"
  ELSE IF Exists(p, "dir") THEN "rename_dir" ELSE "rename"

Rename(p, q) ==
  /\ Running(RenameOp(p, q)) /\ p # q /\ p \in DOMAIN View
  /\ IsDirectory(Parent(q)) /\ ~IsPrefix(p, q)
  /\ IF Exists(p, "dir")
       THEN q \in DirPaths /\ \A n \in DOMAIN EntriesOf(State, p) : Append(q, n) \in FilePaths
       ELSE q \in FilePaths
  /\ q \in DOMAIN View => View[q].kind = View[p].kind
  /\ Answer(RenamePath(State, p, q),
            IF q \in DOMAIN View /\ ~IsEmpty(q) THEN "ENOTEMPTY" ELSE "ok")

\* 30 seconds have passed since last_close; open_count 0 is the only case in
\* which it matters, and every change of open_count sets last_close.
Expire(p) ==
  /\ Running("expire") /\ p \in DOMAIN mc /\ mc[p].count = 0 /\ ~mc[p].expired
  /\ mc' = [mc EXCEPT ![p].expired = TRUE]
  /\ UNCHANGED <<dc, dmeta, fmeta, data, mounted, undefined, answer>>

\* One round of background_worker_main.
WorkerPass ==
  /\ Running("worker")
  /\ Become(DropMetadata(DropDirectories(FlushDirectories(FlushFiles(State)))))
  /\ UNCHANGED <<mounted, answer>>

\* init: open the root, or create it on an empty backend, and keep it open.
Mount ==
  /\ ~mounted /\ ~undefined
  /\ IF Root \in DOMAIN dmeta
       THEN Become([OpenDirectory(State, Root) EXCEPT !.mc[Root] = CountUp(@)])
       ELSE \E id \in Ids \ UsedIds : Become(CreateDirectory(State, Root, id))
  /\ mounted' = TRUE
  /\ UNCHANGED answer

\* destroy.
Unmount ==
  /\ Running("unmount")
  /\ Become(DestroyCaches(State))
  /\ mounted' = FALSE
  /\ UNCHANGED answer

\* The process or the machine dies: the caches are gone.
Crash ==
  /\ Running("crash")
  /\ mc' = NoEntries /\ dc' = NoEntries /\ mounted' = FALSE
  /\ UNCHANGED <<dmeta, fmeta, data, undefined, answer>>

\* Once undefined behaviour happened nothing more is said of the process.
Next ==
  \/ \E p \in Paths :
       \/ Lookup(p) \/ Create(p) \/ Mkdir(p) \/ Unlink(p) \/ Rmdir(p)
       \/ \E q \in Paths : Rename(p, q)
  \/ \E p \in DirPaths \cup FilePaths : Expire(p)
  \/ WorkerPass \/ Mount \/ Unmount \/ Crash
  \/ undefined /\ UNCHANGED vars

Spec == Init /\ [][Next]_vars

-----------------------------------------------------------------------------
(* Properties.                                                             *)

EntryType == [id : Ids, kind : {"file", "dir"}]
IsMap(f, S) == DOMAIN f \subseteq S
IsDirectoryContent(e) == \A n \in DOMAIN e : n \in STRING /\ e[n] \in EntryType

\* Every variable has its type; in particular no reference count but -1, 0 and
\* positive ones occurs between handlers as long as no removal fails
\* (cache_store.impl.hpp:145-179), and no identity is lost as long as no directory
\* is renamed.
TypeOK ==
  /\ IsMap(mc, DirPaths \cup FilePaths) /\ IsMap(dc, DirPaths)
  /\ IsMap(dmeta, DirPaths) /\ IsMap(data, DirPaths) /\ fmeta \subseteq Ids
  /\ \A p \in DOMAIN mc :
       mc[p] \in [kind : {"file", "dir"}, id : Ids, sized : BOOLEAN, dirty : BOOLEAN,
                  count : Counts, expired : BOOLEAN]
  /\ \A p \in DOMAIN dc : dc[p].dirty \in BOOLEAN /\ IsDirectoryContent(dc[p].entries)
  /\ \A p \in DOMAIN dmeta : dmeta[p] \in [id : Ids, sized : BOOLEAN]
  /\ \A p \in DOMAIN data : IsDirectoryContent(data[p])
  /\ mounted \in BOOLEAN /\ undefined \in BOOLEAN

\* The answer of every handler the kernel calls is the one POSIX asks for, given
\* the tree before the call: nothing that exists answers ENOENT, nothing that
\* does not exist EEXIST, whatever was evicted, written back or remounted since
\* (fuse_operations.cpp:106-411).
AnswersArePosix == answer.got = answer.wanted

\* Every entry leads to a file or directory whose metadata is cached or on the
\* backend: no order of writes and removals leaves an entry behind, or forgets
\* the record of one (cache_store.impl.hpp:96-138, 307-385).
EntriesResolve == ~undefined => \A p \in DOMAIN View : View[p].id # Lost

\* A directory with a size has its entries on the backend, unless they are in
\* the directory cache and marked to be written (directory.impl.hpp:27-61, 98-128).
SizedIsStored ==
  /\ \A p \in DOMAIN dmeta : dmeta[p].sized =>
       p \in DOMAIN data \/ (p \in DOMAIN dc /\ dc[p].dirty)
  /\ \A p \in DOMAIN mc : mc[p].kind = "dir" /\ mc[p].sized =>
       p \in DOMAIN data \/ (p \in DOMAIN dc /\ dc[p].dirty)

\* No two paths of the tree share an object.
PathsDistinct ==
  \A p, q \in DOMAIN View : View[p].id = View[q].id /\ View[p].id # Lost => p = q

\* As long as every path of the tree leads somewhere, no two paths share an object:
\* renames over entries, of directories and half way through one, failed creations
\* and re-used directory keys never alias two entries (metadata.impl.hpp:79-103,
\* directory.impl.hpp:27-61).
NoAliases == (\A p \in DOMAIN View : View[p].id # Lost) => PathsDistinct

\* A cached directory's directory_metadata is a cached directory of its path: the
\* reference never outlives the metadata (directory.hpp:24), also when a rename of
\* the directory ends half way (directory.impl.hpp:39-52).
DirectoriesHaveMetadata ==
  \A p \in DOMAIN dc : p \in DOMAIN mc /\ mc[p].kind = "dir"

\* Writing back, evicting and unmounting never change what a user sees, also
\* after crashes and failed creations (cache_store.impl.hpp:307-385).
BackgroundIsInvisible == [][WorkerPass \/ Unmount => View' = View]_vars

\* A call that answers with an error leaves the tree as it was, wherever the backend
\* failed; only unlink and rmdir may have removed the name all the same
\* (fuse_operations.cpp:106-134, 198-257, 300-325).  What the process does between
\* calls leaves the tree as it was in any case.
FailedCallsChangeNothing ==
  [][mounted /\ mounted' /\ answer'.got # "ok" =>
       \/ View' = View
       \/ \E p \in DOMAIN View : View' = Del(View, p) /\ (Unlink(p) \/ Rmdir(p))]_vars

\* Cache, write-back, eviction and remounts implement the plain tree: every handler
\* maps to one step of it, everything else to a stutter (fuse_operations.cpp:106-411,
\* cache_store.impl.hpp:307-385).
Abstract == INSTANCE FileTree WITH tree <- View
RefinesFileTree == Abstract!Spec

=============================================================================
