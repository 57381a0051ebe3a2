---------------------------- MODULE DirectoryData ----------------------------
(***************************************************************************)
(* The stored form of ONE directory: its entries, the size the directory   *)
(* object keeps in step with them, the serialisation, the objects and the  *)
(* record that a flush writes one backend call after the other, and what   *)
(* a load makes of them, after a drop or after a crash.  No handler runs   *)
(* during a flush here; WriteBack is about those that do.                  *)
(*                                                                         *)
(* A byte that matters is a cell: <<0, n>> the number of files, <<e, i>>   *)
(* the i-th cell of the entry of name e.  Zeroed memory reads as <<0, 0>>. *)
(***************************************************************************)
EXTENDS Integers, Sequences, FiniteSetsExt, Functions

CONSTANTS
  Names,      \* names of files, numbers in the order of the set
  EntrySize,  \* name -> cells of its serialised entry
  FixedSize,  \* cells of the uuid and the type in each of them
  ObjectSize, \* maximum_object_size
  MaxSize,    \* bound on the size
  NoRecord    \* "the backend has no record"

ASSUME NamesAssumption == Names \subseteq Nat \ {0}
ASSUME SizesAssumption ==
  /\ FixedSize \in Nat /\ ObjectSize \in Nat \ {0} /\ MaxSize \in Nat \ {0}
  /\ EntrySize \in [Names -> Nat] /\ \A e \in Names : EntrySize[e] > FixedSize
  /\ NoRecord \notin Nat

VARIABLES
  loaded,    \* directory_cache has the directory
  files,     \* its entries; when not loaded, those a load should find
  size,      \* directory.size
  dirty,     \* directory.dirty
  metasize,  \* metadata.size
  metadirty, \* metadata.dirty
  flush,     \* a flush or a removal that has begun
  data,      \* backend: the cells of the objects, one after the other
  record,    \* backend: the size in the record, or NoRecord
  undefined  \* a parse read beyond its buffer or what is no entry

memory == <<loaded, files, size, dirty, metasize, metadirty>>
backend == <<data, record>>
vars == <<memory, flush, backend, undefined>>

Idle == [step |-> "none"]

Init ==
  /\ loaded = FALSE /\ files = {} /\ size = 0 /\ dirty = FALSE
  /\ metasize = 0 /\ metadirty = FALSE
  /\ flush = Idle /\ data = << >> /\ record = NoRecord /\ undefined = FALSE

-----------------------------------------------------------------------------
(* The stored form.                                                        *)

Zero == <<0, 0>>

\* The cells of the number of files and the entries S, the first s cells of it.
Cells(S) == 1 + FoldFunctionOnSet(+, 0, EntrySize, S)

\* serialize, into a buffer of n cells
Serialized(S, n) ==
  LET start(e) == Cells({x \in S : x < e})
      at(p) == {e \in S : start(e) < p /\ p <= start(e) + EntrySize[e]}
  IN  [p \in 1 .. n |->
         IF p = 1 THEN <<0, Cardinality(S)>>
         ELSE IF at(p) = {} THEN Zero
         ELSE LET e == CHOOSE e \in at(p) : TRUE IN <<e, p - start(e)>>]

Garbage == [ok |-> FALSE, files |-> {}, next |-> 1]

\* parse: entries one after the other, as many as the first cell says
Parse(cells) ==
  LET entry(p) == cells[p][1]
      whole(p) ==
        /\ p <= Len(cells) /\ entry(p) \in Names
        /\ p + EntrySize[entry(p)] - 1 <= Len(cells)
        /\ \A i \in 1 .. EntrySize[entry(p)] : cells[p + i - 1] = <<entry(p), i>>
      walk[k \in 0 .. cells[1][2]] ==
        IF k = 0 THEN [ok |-> TRUE, files |-> {}, next |-> 2]
        ELSE LET w == walk[k - 1]
             IN  IF w.ok /\ whole(w.next)
                   THEN [ok |-> TRUE, files |-> w.files \cup {entry(w.next)},
                         next |-> w.next + EntrySize[entry(w.next)]]
                   ELSE Garbage
  IN  walk[cells[1][2]]

\* What a load finds; a record of size 0 is a directory without data.
Stored ==
  IF record \in {NoRecord, 0} THEN [ok |-> TRUE, files |-> {}, next |-> 2]
  ELSE Parse([p \in 1 .. record |-> IF p <= Len(data) THEN data[p] ELSE Zero])

Object(p) == (p - 1) \div ObjectSize

\* remove_data_objects(first, last)
Without(first, last) ==
  [p \in DOMAIN data |-> IF Object(p) \in first .. last THEN Zero ELSE data[p]]

-----------------------------------------------------------------------------
(* The entries.                                                            *)

Ready == loaded /\ flush = Idle /\ ~undefined

Change(S, n) ==
  /\ Ready /\ n <= MaxSize
  /\ files' = S /\ size' = n /\ dirty' = TRUE
  /\ UNCHANGED <<loaded, metasize, metadirty, flush, backend, undefined>>

\* add_file of a name that is there is only logged.
AddFile(e) == e \notin files /\ Change(files \cup {e}, size + EntrySize[e])

\* Mutant: remove_file also counts the number of files down.
RemoveFileTwice(e) == e \in files /\ Change(files \ {e}, size - EntrySize[e] - 1)

\* remove_file asks the erased entry for its size: undefined behaviour, which gives
\* that of the entry or, if the destructor has reset the virtual table, that of its
\* base class.
RemoveFile(e) ==
  /\ e \in files
  /\ \E n \in {EntrySize[e], EntrySize[e] - FixedSize} : Change(files \ {e}, size - n)

\* Mutant: move_entry does not mark the directory it takes the entry from.
MoveOutClean(e) ==
  /\ Ready /\ e \in files
  /\ files' = files \ {e} /\ size' = size - EntrySize[e]
  /\ UNCHANGED <<loaded, dirty, metasize, metadirty, flush, backend, undefined>>

\* move_entry to another directory, from another one, and within one; the size grows
\* even if the name is there and the entry is not inserted.
MoveOut(e) == e \in files /\ Change(files \ {e}, size - EntrySize[e])

\* Mutant: move_entry forgets the size of the directory that gets the entry.
MoveInUncounted(e) == Change(files \cup {e}, size)

MoveIn(e) == Change(files \cup {e}, size + EntrySize[e])

MoveWithin(e, f) ==
  /\ e \in files /\ e # f
  /\ Change((files \ {e}) \cup {f}, size - EntrySize[e] + EntrySize[f])

\* chmod, chown
SetAttr ==
  /\ Ready /\ ~metadirty /\ metadirty' = TRUE
  /\ UNCHANGED <<loaded, files, size, dirty, metasize, flush, backend, undefined>>

-----------------------------------------------------------------------------
(* Creation, flushes, loads, removal.                                      *)

\* mkdir: a directory without data has to be written.
Mkdir ==
  /\ ~loaded /\ record = NoRecord /\ ~undefined
  /\ loaded' = TRUE /\ files' = {} /\ size' = 1 /\ dirty' = TRUE
  /\ metasize' = 0 /\ metadirty' = TRUE
  /\ UNCHANGED <<flush, backend, undefined>>

\* The constructor with the metadata of the record; parse sets the size to what it read.
Load ==
  /\ ~loaded /\ record # NoRecord /\ ~undefined
  /\ loaded' = TRUE /\ files' = Stored.files
  /\ size' = Stored.next - 1 /\ dirty' = (record = 0)
  /\ metasize' = record /\ metadirty' = FALSE
  /\ undefined' = ~Stored.ok
  /\ UNCHANGED <<flush, backend>>

\* truncate's "a / b + a % b ? 1 : 0" is 1 for every size but 0.
FirstIndex == IF size > 0 THEN 1 ELSE 0

\* Mutant: truncate removes the first object as well.
TruncatedFirst == IF size < metasize THEN Without(0, metasize \div ObjectSize) ELSE data

Truncated == IF size < metasize THEN Without(FirstIndex, metasize \div ObjectSize) ELSE data

\* flush of the worker, if the metadata is dirty, or of the destructor: truncate, and
\* write up to its loop.  A clean directory has its metadata flushed.
BeginFlush(drop) ==
  /\ Ready /\ (drop \/ metadirty)
  /\ IF dirty
       THEN /\ data' = Truncated
            /\ metasize' = size /\ metadirty' = (metadirty \/ size # metasize)
            /\ flush' = [step |-> "put", buffer |-> Serialized(files, size),
                         object |-> 0, drop |-> drop]
       ELSE /\ flush' = [step |-> "record", drop |-> drop]
            /\ UNCHANGED <<data, metasize, metadirty>>
  /\ UNCHANGED <<loaded, files, size, dirty, record, undefined>>

\* One iteration of write.
PutObject ==
  /\ flush.step = "put"
  /\ LET last == Object(Len(flush.buffer))
         end  == Min({(flush.object + 1) * ObjectSize, Len(flush.buffer)})
     IN  /\ data' = [p \in 1 .. Max({Len(data), end}) |->
                       IF Object(p) = flush.object /\ p <= end THEN flush.buffer[p]
                       ELSE IF p <= Len(data) THEN data[p] ELSE Zero]
         /\ flush' = IF flush.object = last THEN [step |-> "record", drop |-> flush.drop]
                     ELSE [flush EXCEPT !.object = flush.object + 1]
  /\ UNCHANGED <<memory, record, undefined>>

\* metadata::flush, and what follows it
PutRecord ==
  /\ flush.step = "record"
  /\ record' = IF metadirty THEN metasize ELSE record
  /\ metadirty' = FALSE /\ dirty' = FALSE
  /\ loaded' = ~flush.drop /\ flush' = Idle
  /\ UNCHANGED <<files, size, metasize, data, undefined>>

\* rmdir of an empty directory: metadata::remove, first the objects.
RemoveObjects ==
  /\ Ready /\ files = {}
  /\ data' = IF metasize > 0 THEN Without(0, metasize \div ObjectSize) ELSE data
  /\ flush' = [step |-> "remove"]
  /\ UNCHANGED <<memory, record, undefined>>

RemoveRecord ==
  /\ flush.step = "remove"
  /\ record' = NoRecord /\ flush' = Idle /\ loaded' = FALSE
  /\ dirty' = FALSE /\ metadirty' = FALSE
  /\ UNCHANGED <<files, size, metasize, data, undefined>>

\* The process dies, of a crash or of a backend call that throws in a destructor or in
\* the worker.
Crash ==
  /\ ~undefined
  /\ loaded' = FALSE /\ flush' = Idle /\ files' = Stored.files
  /\ size' = 0 /\ dirty' = FALSE /\ metasize' = 0 /\ metadirty' = FALSE
  /\ UNCHANGED <<backend, undefined>>

Next ==
  \/ \E e \in Names : AddFile(e) \/ RemoveFile(e) \/ MoveOut(e) \/ MoveIn(e)
                      \/ \E f \in Names : MoveWithin(e, f)
  \/ SetAttr \/ Mkdir \/ Load
  \/ \E drop \in BOOLEAN : BeginFlush(drop)
  \/ PutObject \/ PutRecord \/ RemoveObjects \/ RemoveRecord \/ Crash
  \/ undefined /\ UNCHANGED vars

Spec == Init /\ [][Next]_vars

-----------------------------------------------------------------------------
(* Properties.                                                             *)

TypeOK ==
  /\ {loaded, dirty, metadirty, undefined} \subseteq BOOLEAN
  /\ files \in SUBSET Names /\ size \in 0 .. MaxSize /\ metasize \in 0 .. MaxSize
  /\ flush.step \in {"none", "put", "record", "remove"}
  /\ record \in (0 .. MaxSize) \cup {NoRecord}
  /\ \A p \in DOMAIN data : data[p][1] \in Names \cup {0}

\* serialize never writes beyond its buffer, whatever entries came, went, were renamed
\* over others or were erased before they were asked for their size: the size may be
\* too large, never too small (directory.impl.hpp:76, 91, 192-199).
SizeSuffices == loaded /\ ~undefined => Cells(files) <= size

\* A directory that is clean, or was dropped, is what a load finds in its place
\* (directory.impl.hpp:98-143).
CleanIsStored ==
  flush = Idle /\ (loaded => ~dirty) /\ ~undefined => Stored.files = files

\* The process may die at any point of a flush or a removal of a directory that fits
\* one object, and that its record does not have to grow for: a load finds the entries
\* from before or from after (directory.impl.hpp:102-108).
CrashIsAtomic ==
  [][Stored.ok /\ record # NoRecord /\ Cells(files) <= record /\ record <= ObjectSize
       => Stored'.ok /\ Stored'.files \in {Stored.files, files}]_vars

=============================================================================
