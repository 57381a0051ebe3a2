------------------------------ MODULE FileData ------------------------------
(***************************************************************************)
(* The data of ONE regular file: metadata::write, read, truncate and       *)
(* remove, the objects of maximum_object_size bytes they keep in the       *)
(* backend, the keys data_object_key gives them, and the record of the     *)
(* size.  The handlers hold metadata.mutex, so each call is one action; a  *)
(* put or remove that throws ends it halfway.                              *)
(***************************************************************************)
EXTENDS Naturals, Sequences, FiniteSets

CONSTANTS
  ObjectSize,   \* maximum_object_size
  IndexLimit,   \* 2^28: to_key_index keeps 28 bits and rejects what is larger
  IndexWidth,   \* 2^32, of the uint32_t an index is cast to
  SizeMod,      \* 2^w of the size_t that sizes are, scaled down
  Bytes,        \* byte values; 0 is one of them
  MaxSize,      \* bound on offsets and sizes
  MaxWrite,     \* bound on the length of one write
  MaxFailures,  \* bound: failing backend calls in a behaviour
  Ops           \* the operations of this model

ASSUME ObjectSizeAssumption == ObjectSize \in Nat \ {0}
ASSUME IndexAssumption ==
  /\ IndexLimit \in Nat \ {0} /\ IndexWidth \in Nat
  /\ IndexWidth > IndexLimit
ASSUME BytesAssumption == Bytes \subseteq Nat /\ 0 \in Bytes
\* size_t holds the sum of an offset and a length.
ASSUME SizeAssumption == SizeMod \in Nat /\ SizeMod > 2 * MaxSize
\* One write is never so long that two of its objects get the same key.
ASSUME BoundsAssumption ==
  /\ MaxSize \in Nat /\ MaxFailures \in Nat
  /\ MaxWrite \in Nat /\ MaxWrite <= ObjectSize * (IndexLimit - 1)

VARIABLES
  exists,    \* the file exists
  size,      \* metadata.size
  dirty,     \* metadata.dirty
  record,    \* the size in the backend's metadata record, 0 without one
  objects,   \* data objects: key index -> bytes
  failures   \* ghost: backend calls that threw

vars == <<exists, size, dirty, record, objects, failures>>

NoObjects == [k \in {} |-> << >>]

Init ==
  /\ exists = TRUE /\ size = 0 /\ dirty = TRUE /\ record = 0
  /\ objects = NoObjects /\ failures = 0

-----------------------------------------------------------------------------
(* Keys and objects.                                                       *)

Smaller(a, b) == IF a < b THEN a ELSE b
Larger(a, b) == IF a > b THEN a ELSE b

\* static_cast<uint32_t>(offset / maximum_object_size)
IndexOf(pos) == (pos \div ObjectSize) % IndexWidth

\* to_key_index: 2^28 itself is accepted, and has the key of 0.
Accepted(i) == i <= IndexLimit
KeyIndex(i) == i % IndexLimit

Stored(k) == IF k \in DOMAIN objects THEN objects[k] ELSE << >>

\* RADOS writes d into object o at offset a, filling a gap with zeros.
Overlay(o, a, d) ==
  [i \in 1 .. Larger(Len(o), a + Len(d)) |->
     IF i \in a + 1 .. a + Len(d) THEN d[i - a] ELSE IF i <= Len(o) THEN o[i] ELSE 0]

\* Mutant: offset_in_object is not reset after the first iteration.
AtKept(o, j) == o % ObjectSize

\* Mutant: an iteration is not cut at the end of its object.
LengthUncut(o, n, j) == n - (IF j = 0 THEN 0 ELSE j * ObjectSize - (o % ObjectSize))

\* The iterations of the loops of write and read over n bytes from offset o.
\* Iteration j starts at At(o, j) in its object and at From(o, j) in the buffer.
Iterations(o, n) == 0 .. ((o + n - 1) \div ObjectSize) - (o \div ObjectSize)
At(o, j) == IF j = 0 THEN o % ObjectSize ELSE 0
From(o, j) == IF j = 0 THEN 0 ELSE j * ObjectSize - (o % ObjectSize)
Length(o, n, j) == Smaller(ObjectSize - At(o, j), n - From(o, j))

\* The objects after the iterations js of write.
Written(o, d, js) ==
  LET key(j) == KeyIndex(IndexOf(o) + j)
      keys == {key(j) : j \in js}
      piece(j) == SubSeq(d, From(o, j) + 1, From(o, j) + Length(o, Len(d), j))
  IN  [k \in DOMAIN objects \cup keys |->
         IF k \in keys
           THEN LET j == CHOOSE j \in js : key(j) = k
                IN  Overlay(Stored(k), At(o, j), piece(j))
           ELSE objects[k]]

\* Mutant: i < index_to.
RemainingButLast(first, last) ==
  LET removed == {KeyIndex(i) : i \in {i \in first .. last - 1 : Accepted(i)}}
  IN  [k \in DOMAIN objects \ removed |-> objects[k]]

\* The objects after remove_data_objects(first, last), up to a rejected index.
Remaining(first, last) ==
  LET removed == {KeyIndex(i) : i \in {i \in first .. last : Accepted(i)}}
  IN  [k \in DOMAIN objects \ removed |-> objects[k]]

-----------------------------------------------------------------------------
(* The operations.                                                         *)

\* Mutants: every write sets the size; none marks the metadata dirty.
GrowAlways(n) == size' = n /\ dirty' = TRUE
GrowClean(n) == size' = Larger(size, n) /\ UNCHANGED dirty

Grow(n) ==
  /\ size' = Larger(size, n)
  /\ dirty' = (dirty \/ n > size)

\* metadata::write.  The size changes before the first put; a rejected index
\* ends the loop.
Write(o, d) ==
  /\ "write" \in Ops /\ exists /\ Accepted(IndexOf(o))
  /\ Grow(o + Len(d))
  /\ objects' = Written(o, d, {j \in Iterations(o, Len(d)) : Accepted(IndexOf(o) + j)})
  /\ UNCHANGED <<exists, record, failures>>

\* The put of iteration j throws.
WriteFails(o, d, j) ==
  /\ "write" \in Ops /\ exists /\ Accepted(IndexOf(o) + j) /\ failures < MaxFailures
  /\ failures' = failures + 1
  /\ Grow(o + Len(d))
  /\ objects' = Written(o, d, 0 .. j - 1)
  /\ UNCHANGED <<exists, record>>

\* What metadata::read makes of n bytes from offset o; from beyond the size the
\* difference wraps around.
ReadSize(o, n) == IF o + n > size THEN (size + SizeMod - o) % SizeMod ELSE n

\* What metadata::read copies to the buffer, and from beyond the size far past it.
Read(o, n) ==
  LET value(j) == Stored(KeyIndex(IndexOf(o) + j))
      byte(j, i) == IF i <= Len(value(j)) THEN value(j)[i] ELSE 0
      iteration(p) == ((o + p - 1) \div ObjectSize) - (o \div ObjectSize)
  IN  [p \in 1 .. ReadSize(o, n) |->
         LET j == iteration(p) IN byte(j, At(o, j) + p - From(o, j))]

\* truncate's "a / b + a % b ? 1 : 0" is 1 for every new_size but 0.
FirstIndex(n) == IF n > 0 THEN 1 ELSE 0

Kind(n) == IF n > size THEN "grow" ELSE IF n = 0 THEN "clear" ELSE "shrink"

\* metadata::truncate to another size.  A rejected index ends it with the size as
\* it was.
Truncate(n) ==
  /\ exists /\ n # size /\ Kind(n) \in Ops
  /\ IF n > size
       THEN UNCHANGED objects
       ELSE objects' = Remaining(FirstIndex(n), IndexOf(size))
  /\ IF n < size /\ ~Accepted(IndexOf(size))
       THEN UNCHANGED <<size, dirty>>
       ELSE size' = n /\ dirty' = TRUE
  /\ UNCHANGED <<exists, record, failures>>

\* A backend->remove of truncate throws.
TruncateFails(n, last) ==
  /\ exists /\ n < size /\ Kind(n) \in Ops /\ failures < MaxFailures
  /\ last < IndexOf(size) /\ Accepted(last)
  /\ failures' = failures + 1
  /\ objects' = Remaining(FirstIndex(n), last)
  /\ UNCHANGED <<exists, size, dirty, record>>

\* metadata::flush, by the worker or a destructor.
Flush ==
  /\ exists /\ dirty
  /\ record' = size /\ dirty' = FALSE
  /\ UNCHANGED <<exists, size, objects, failures>>

\* Dropped, which flushes, and loaded again.
Reload ==
  /\ "reload" \in Ops /\ exists
  /\ record' = IF dirty THEN size ELSE record
  /\ size' = record'
  /\ dirty' = FALSE
  /\ UNCHANGED <<exists, objects, failures>>

\* metadata::remove
Remove ==
  /\ "remove" \in Ops /\ exists
  /\ size > 0 => Accepted(IndexOf(size))
  /\ objects' = IF size > 0 THEN Remaining(0, IndexOf(size)) ELSE objects
  /\ exists' = FALSE /\ size' = 0 /\ dirty' = FALSE /\ record' = 0
  /\ UNCHANGED failures

\* A new file: its keys start with a new uuid.
Create ==
  /\ ~exists
  /\ exists' = TRUE /\ size' = 0 /\ dirty' = TRUE /\ record' = 0
  /\ objects' = NoObjects
  /\ UNCHANGED failures

Data == UNION {[1 .. n -> Bytes] : n \in 1 .. MaxWrite}

Next ==
  \/ \E d \in Data : \E o \in 0 .. MaxSize - Len(d) :
       \/ Write(o, d)
       \/ \E j \in Iterations(o, Len(d)) : WriteFails(o, d, j)
  \/ \E n \in 0 .. MaxSize : Truncate(n) \/ \E last \in 0 .. IndexOf(size) : TruncateFails(n, last)
  \/ Flush \/ Reload \/ Remove \/ Create

Spec == Init /\ [][Next]_vars

-----------------------------------------------------------------------------
(* Properties.                                                             *)

\* Every variable has its type; no object is longer than maximum_object_size.
TypeOK ==
  /\ exists \in BOOLEAN /\ dirty \in BOOLEAN
  /\ size \in 0 .. MaxSize /\ record \in 0 .. MaxSize
  /\ DOMAIN objects \subseteq 0 .. IndexLimit - 1
  /\ \A k \in DOMAIN objects : objects[k] \in UNION {[1 .. n -> Bytes] : n \in 0 .. ObjectSize}
  /\ failures \in 0 .. MaxFailures

\* The file, byte by byte.
Content ==
  [p \in 1 .. size |->
     LET o == Stored(KeyIndex(IndexOf(p - 1)))
         a == ((p - 1) % ObjectSize) + 1
     IN  IF a <= Len(o) THEN o[a] ELSE 0]

\* Objects, their growth by partial puts, failing puts, reloads and truncates to
\* 0 implement a sequence of bytes: no write is lost, shortened, shifted or
\* reaches outside its range, and what was truncated does not come back
\* (metadata.impl.hpp:126-153, 196-209).
Abstract == INSTANCE ByteFile WITH bytes <- Content
RefinesByteFile == Abstract!Spec

\* metadata::read copies the bytes of the file for every length and every offset up to
\* the size, over object boundaries, holes and short objects, and never more than
\* the buffer holds; from every offset beyond the size it copies more than that
\* (metadata.impl.hpp:156-193).
ReadsAreExact ==
  \A o \in 0 .. MaxSize : \A n \in 1 .. MaxSize :
    IF o <= size THEN Read(o, n) = SubSeq(Content, o + 1, Smaller(o + n, size))
    ELSE ReadSize(o, n) > n

\* No data object is beyond what remove will delete, and a removed file leaves
\* none in the backend, whatever writes and truncates failed halfway before
\* (metadata.impl.hpp:196-238).
NoLeak ==
  IF exists THEN DOMAIN objects \subseteq 0 .. size \div ObjectSize
  ELSE DOMAIN objects = {}

\* The record has the size unless the metadata is marked to be written, so that
\* dropping it loses nothing (metadata.impl.hpp:135-138, 206-207).
CleanIsRecorded == exists /\ ~dirty => record = size

=============================================================================
