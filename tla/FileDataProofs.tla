--------------------------- MODULE FileDataProofs ---------------------------
(***************************************************************************)
(* Theorems about FileData, for any size of objects, any byte values, any  *)
(* lengths of writes and any failures of the backend.                      *)
(***************************************************************************)
EXTENDS FileData, Integers, TLAPS

\* Sizes whose indices data_object_key accepts: up to 16 TiB for 64 KiB objects.
SizesInRange == MaxSize \div ObjectSize <= IndexLimit

LEMMA ModSmall == ASSUME NEW a \in Nat, NEW n \in Nat \ {0} PROVE a % n \in 0 .. a
  BY SMT

LEMMA ModBelow == ASSUME NEW a \in Nat, NEW n \in Nat \ {0} PROVE a % n < n
  BY SMT

LEMMA ModSame == ASSUME NEW a \in Nat, NEW n \in Nat \ {0}, a < n PROVE a % n = a
  BY SMT

LEMMA DivType == ASSUME NEW a \in Nat, NEW n \in Nat \ {0} PROVE a \div n \in Nat
  BY SMT

LEMMA DivMonotonic ==
  ASSUME NEW a \in Nat, NEW b \in Nat, NEW n \in Nat \ {0}, a <= b
  PROVE  a \div n <= b \div n
  BY SMTT(30)

\* What NoLeak needs to be inductive: an empty file has no objects, keys are 28
\* bits, and reloading cannot bring an older size back.
LeakInv ==
  /\ exists \in BOOLEAN /\ dirty \in BOOLEAN
  /\ size \in 0 .. MaxSize /\ record \in 0 .. MaxSize
  /\ DOMAIN objects \subseteq 0 .. IndexLimit - 1
  /\ size = 0 => DOMAIN objects = {}
  /\ ~exists => size = 0
  /\ CleanIsRecorded
  /\ NoLeak

LEMMA KeyIndexRange ==
  ASSUME NEW i \in Nat PROVE KeyIndex(i) \in 0 .. i /\ KeyIndex(i) \in 0 .. IndexLimit - 1
  BY ModSmall, ModBelow, IndexAssumption DEF KeyIndex

LEMMA IndexRange ==
  ASSUME NEW p \in Nat PROVE IndexOf(p) \in 0 .. p \div ObjectSize
  BY ModSmall, DivType, ObjectSizeAssumption, IndexAssumption DEF IndexOf

LEMMA IndexInRange ==
  ASSUME SizesInRange, NEW p \in 0 .. MaxSize
  PROVE  IndexOf(p) = p \div ObjectSize /\ IndexOf(p) \in 0 .. IndexLimit /\ Accepted(IndexOf(p))
<1>1. p \div ObjectSize \in Nat /\ p \div ObjectSize <= MaxSize \div ObjectSize
  BY DivType, DivMonotonic, ObjectSizeAssumption, BoundsAssumption
<1>2. p \div ObjectSize <= IndexLimit /\ p \div ObjectSize < IndexWidth
  BY <1>1, DivType, ObjectSizeAssumption, IndexAssumption, BoundsAssumption DEF SizesInRange
<1> QED
  BY <1>1, <1>2, ModSame, IndexAssumption DEF IndexOf, Accepted

LEMMA DataLength == ASSUME NEW d \in Data PROVE Len(d) \in 1 .. MaxWrite
<1>1. PICK n \in 1 .. MaxWrite : d \in [1 .. n -> Bytes]
  BY DEF Data
<1>2. DOMAIN d = 1 .. n /\ d \in Seq(Bytes) /\ n \in Nat
  BY <1>1, BoundsAssumption
<1> QED
  BY <1>1, <1>2

\* A write touches no key beyond the index of its last byte.
LEMMA WrittenKeys ==
  ASSUME NEW o \in Nat, NEW d, Len(d) \in Nat \ {0},
         NEW js, js \subseteq Iterations(o, Len(d))
  PROVE  \A k \in DOMAIN Written(o, d, js) :
           k \in DOMAIN objects
           \/ (k \in 0 .. (o + Len(d) - 1) \div ObjectSize /\ k \in 0 .. IndexLimit - 1)
<1> DEFINE last == (o + Len(d) - 1) \div ObjectSize
<1>1. o \div ObjectSize \in Nat /\ last \in Nat
  BY DivType, ObjectSizeAssumption
<1>2. IndexOf(o) \in 0 .. o \div ObjectSize
  BY IndexRange
<1>3. ASSUME NEW j \in js
      PROVE  KeyIndex(IndexOf(o) + j) \in 0 .. last /\ KeyIndex(IndexOf(o) + j) \in 0 .. IndexLimit - 1
  <2>1. j \in Nat /\ IndexOf(o) + j \in 0 .. last
    BY <1>1, <1>2 DEF Iterations
  <2> QED
    BY <1>1, <2>1, KeyIndexRange, IndexAssumption
<1>4. DOMAIN Written(o, d, js) = DOMAIN objects \cup {KeyIndex(IndexOf(o) + j) : j \in js}
  BY DEF Written
<1> SUFFICES ASSUME NEW k \in DOMAIN Written(o, d, js), k \notin DOMAIN objects
             PROVE  k \in 0 .. last /\ k \in 0 .. IndexLimit - 1
  OBVIOUS
<1>5. PICK j \in js : k = KeyIndex(IndexOf(o) + j)
  BY <1>4
<1> QED
  BY <1>3, <1>5

\* While indices are in range, truncating or removing leaves the objects before
\* the first index only.
LEMMA RemainingKeys ==
  ASSUME NEW first \in Nat, NEW last \in Nat, last <= IndexLimit,
         DOMAIN objects \subseteq 0 .. last, DOMAIN objects \subseteq 0 .. IndexLimit - 1
  PROVE  \A k \in DOMAIN Remaining(first, last) : k < first
<1> SUFFICES ASSUME NEW k \in DOMAIN objects, k >= first
             PROVE  k \in {KeyIndex(i) : i \in {i \in first .. last : Accepted(i)}}
  BY DEF Remaining
<1>1. k \in first .. last /\ k < IndexLimit /\ k \in Nat
  BY IndexAssumption
<1>2. KeyIndex(k) = k /\ Accepted(k)
  BY <1>1, ModSame, IndexAssumption DEF KeyIndex, Accepted
<1> QED
  BY <1>1, <1>2

LEMMA LeakInvInit == Init => LeakInv
  BY BoundsAssumption, IndexAssumption
  DEF Init, LeakInv, CleanIsRecorded, NoLeak, NoObjects

LEMMA WritePreserves ==
  ASSUME LeakInv, NEW o \in Nat, NEW d, Len(d) \in Nat \ {0}, o + Len(d) <= MaxSize,
         NEW js, js \subseteq Iterations(o, Len(d)),
         exists, Grow(o + Len(d)), objects' = Written(o, d, js), UNCHANGED <<exists, record>>
  PROVE  LeakInv'
<1> DEFINE last == (o + Len(d) - 1) \div ObjectSize
<1>1. size' \in 1 .. MaxSize /\ size' >= size /\ size' >= o + Len(d) - 1 /\ dirty' \in BOOLEAN
  BY BoundsAssumption DEF LeakInv, Grow, Larger
<1>2. ~dirty' => ~dirty /\ size' = size
  <2>1. ~dirty' => ~dirty /\ ~(o + Len(d) > size)
    BY Zenon DEF Grow
  <2>2. size' = Larger(size, o + Len(d))
    BY Zenon DEF Grow
  <2>3. size \in Nat
    BY BoundsAssumption DEF LeakInv
  <2> QED
    BY <2>1, <2>2, <2>3 DEF Larger
<1>3. /\ last \in Nat /\ size \div ObjectSize \in Nat /\ size' \div ObjectSize \in Nat
      /\ last <= size' \div ObjectSize
      /\ size \div ObjectSize <= size' \div ObjectSize
  <2>1. o + Len(d) - 1 \in Nat /\ size \in Nat /\ size' \in Nat
    BY <1>1, BoundsAssumption DEF LeakInv
  <2>2. o + Len(d) - 1 <= size' /\ size <= size'
    BY <1>1
  <2> QED
    BY <2>1, <2>2, DivType, DivMonotonic, ObjectSizeAssumption
<1>4. \A k \in DOMAIN objects' : k \in 0 .. size' \div ObjectSize /\ k \in 0 .. IndexLimit - 1
  BY <1>3, WrittenKeys, IndexAssumption DEF LeakInv, NoLeak
<1>5. CleanIsRecorded'
  BY <1>2 DEF LeakInv, CleanIsRecorded
<1>6. NoLeak'
  BY <1>4 DEF NoLeak
<1> QED
  BY <1>1, <1>4, <1>5, <1>6 DEF LeakInv

\* truncate or remove halfway: objects only become fewer.
LEMMA FewerPreserve ==
  ASSUME LeakInv, exists, DOMAIN objects' \subseteq DOMAIN objects,
         UNCHANGED <<exists, size, dirty, record>>
  PROVE  LeakInv'
<1>1. CleanIsRecorded'
  BY DEF LeakInv, CleanIsRecorded
<1>2. NoLeak'
  BY DEF LeakInv, NoLeak
<1> QED
  BY <1>1, <1>2 DEF LeakInv

LEMMA TruncatePreserves ==
  ASSUME SizesInRange, LeakInv, NEW n \in 0 .. MaxSize, Truncate(n)
  PROVE  LeakInv'
<1> USE BoundsAssumption
<1>1. size \in Nat /\ n \in Nat /\ size \in 0 .. MaxSize
  BY DEF LeakInv
<1>2. /\ IndexOf(size) = size \div ObjectSize
      /\ IndexOf(size) \in 0 .. IndexLimit /\ Accepted(IndexOf(size))
  BY <1>1, IndexInRange
<1>3. /\ exists' = exists /\ exists /\ record' = record
      /\ size' = n /\ dirty' = TRUE
  BY <1>2, Zenon DEF Truncate
<1>4. CASE n > size
  <2>1. objects' = objects
    BY <1>4, Zenon DEF Truncate
  <2>2. size \div ObjectSize <= n \div ObjectSize
    BY <1>1, <1>4, DivMonotonic, ObjectSizeAssumption
  <2>3. size \div ObjectSize \in Nat /\ n \div ObjectSize \in Nat
    BY <1>1, DivType, ObjectSizeAssumption
  <2>4. NoLeak'
    BY <1>3, <2>1, <2>2, <2>3 DEF LeakInv, NoLeak
  <2>5. n # 0
    BY <1>1, <1>4
  <2> QED
    BY <1>1, <1>3, <2>1, <2>4, <2>5 DEF LeakInv, CleanIsRecorded
<1>5. CASE ~(n > size)
  <2>1. objects' = Remaining(FirstIndex(n), IndexOf(size))
    BY <1>5, Zenon DEF Truncate
  <2>2. DOMAIN objects \subseteq 0 .. IndexOf(size) /\ DOMAIN objects \subseteq 0 .. IndexLimit - 1
    BY <1>2, <1>3 DEF LeakInv, NoLeak
  <2>3. \A k \in DOMAIN objects' : k < FirstIndex(n)
    BY <1>2, <2>1, <2>2, RemainingKeys, IndexAssumption DEF FirstIndex
  <2>4. DOMAIN objects' \subseteq DOMAIN objects
    BY <2>1 DEF Remaining
  <2>5. n = 0 => DOMAIN objects' = {}
    <3> SUFFICES ASSUME n = 0, NEW k \in DOMAIN objects' PROVE FALSE
      OBVIOUS
    <3>1. k \in 0 .. IndexLimit - 1 /\ k < 0
      BY <2>2, <2>3, <2>4 DEF FirstIndex
    <3> QED
      BY <3>1, IndexAssumption
  <2>6. DOMAIN objects' \subseteq 0 .. 0
    BY <1>1, <2>2, <2>3, <2>4, IndexAssumption DEF FirstIndex
  <2>7. n \div ObjectSize \in Nat
    BY <1>1, DivType, ObjectSizeAssumption
  <2>8. NoLeak'
    BY <1>3, <2>6, <2>7 DEF NoLeak
  <2> QED
    BY <1>1, <1>3, <2>2, <2>4, <2>5, <2>8 DEF LeakInv, CleanIsRecorded
<1> QED
  BY <1>4, <1>5

LEMMA RemovePreserves == ASSUME SizesInRange, LeakInv, Remove PROVE LeakInv'
<1> USE BoundsAssumption
<1>1. size \in Nat /\ size \in 0 .. MaxSize /\ exists
  BY DEF LeakInv, Remove
<1>2. DOMAIN objects' = {}
  <2>1. CASE size > 0
    <3>1. objects' = Remaining(0, IndexOf(size))
      BY <2>1 DEF Remove
    <3>2. IndexOf(size) = size \div ObjectSize /\ IndexOf(size) \in 0 .. IndexLimit
      BY <1>1, IndexInRange
    <3>3. DOMAIN objects \subseteq 0 .. IndexOf(size) /\ DOMAIN objects \subseteq 0 .. IndexLimit - 1
      BY <1>1, <3>2 DEF LeakInv, NoLeak
    <3>4. \A k \in DOMAIN objects' : k < 0
      BY <3>1, <3>2, <3>3, RemainingKeys, IndexAssumption
    <3>5. DOMAIN objects' \subseteq DOMAIN objects
      BY <3>1 DEF Remaining
    <3> SUFFICES ASSUME NEW k \in DOMAIN objects' PROVE FALSE
      OBVIOUS
    <3>6. k \in 0 .. IndexLimit - 1 /\ k < 0
      BY <3>3, <3>4, <3>5
    <3> QED
      BY <3>6, IndexAssumption
  <2>2. CASE ~(size > 0)
    BY <1>1, <2>2 DEF Remove, LeakInv
  <2> QED
    BY <2>1, <2>2
<1>3. exists' = FALSE /\ size' = 0 /\ dirty' = FALSE /\ record' = 0
  BY Zenon DEF Remove
<1>4. CleanIsRecorded' /\ NoLeak'
  BY <1>2, <1>3 DEF CleanIsRecorded, NoLeak
<1>5. exists' \in BOOLEAN /\ dirty' \in BOOLEAN /\ size' = 0 /\ record' = 0
  BY <1>3
<1>6. size' \in 0 .. MaxSize /\ record' \in 0 .. MaxSize
  BY <1>5
<1>7. DOMAIN objects' \subseteq 0 .. IndexLimit - 1
  BY <1>2
<1> QED
  BY <1>2, <1>4, <1>5, <1>6, <1>7, Zenon DEF LeakInv

LEMMA LeakInvStep == ASSUME SizesInRange, LeakInv, [Next]_vars PROVE LeakInv'
<1> USE BoundsAssumption
<1>1. ASSUME NEW d \in Data, NEW o \in 0 .. MaxSize - Len(d), Write(o, d) PROVE LeakInv'
  <2>1. Len(d) \in Nat \ {0} /\ o \in Nat /\ o + Len(d) <= MaxSize
    BY DataLength
  <2> QED
    BY <1>1, <2>1, WritePreserves DEF Write
<1>2. ASSUME NEW d \in Data, NEW o \in 0 .. MaxSize - Len(d),
             NEW j \in Iterations(o, Len(d)), WriteFails(o, d, j)
      PROVE  LeakInv'
  <2>1. Len(d) \in Nat \ {0} /\ o \in Nat /\ o + Len(d) <= MaxSize
    BY DataLength
  <2>2. o \div ObjectSize \in Nat /\ (o + Len(d) - 1) \div ObjectSize \in Nat
    BY <2>1, DivType, ObjectSizeAssumption
  <2>3. 0 .. j - 1 \subseteq Iterations(o, Len(d))
    BY <2>2 DEF Iterations
  <2> QED
    BY <1>2, <2>1, <2>3, WritePreserves DEF WriteFails
<1>3. ASSUME NEW n \in 0 .. MaxSize, Truncate(n) PROVE LeakInv'
  BY <1>3, TruncatePreserves
<1>4. ASSUME NEW n \in 0 .. MaxSize, NEW last \in 0 .. IndexOf(size), TruncateFails(n, last)
      PROVE  LeakInv'
  BY <1>4, FewerPreserve DEF TruncateFails, Remaining
<1>5. ASSUME Flush PROVE LeakInv'
  BY <1>5 DEF Flush, LeakInv, CleanIsRecorded, NoLeak
<1>6. ASSUME Reload PROVE LeakInv'
  <2>1. size' = size /\ record' = size /\ dirty' = FALSE /\ UNCHANGED <<exists, objects>>
    BY <1>6 DEF Reload, LeakInv, CleanIsRecorded
  <2> QED
    BY <2>1 DEF LeakInv, CleanIsRecorded, NoLeak
<1>7. ASSUME Remove PROVE LeakInv'
  BY <1>7, RemovePreserves
<1>8. ASSUME Create PROVE LeakInv'
  BY <1>8, DivType, ObjectSizeAssumption
  DEF Create, LeakInv, CleanIsRecorded, NoLeak, NoObjects
<1>9. ASSUME UNCHANGED vars PROVE LeakInv'
  BY <1>9 DEF vars, LeakInv, CleanIsRecorded, NoLeak
<1> QED
  BY <1>1, <1>2, <1>3, <1>4, <1>5, <1>6, <1>7, <1>8, <1>9 DEF Next

\* While offsets stay where data_object_key accepts their indices, remove and
\* truncate find every object there is: a removed file leaves none behind, after
\* any writes and truncates, failed ones included.
THEOREM NothingLeaks == ASSUME SizesInRange PROVE Spec => []NoLeak
<1>1. Init => LeakInv
  BY LeakInvInit
<1>2. LeakInv /\ [Next]_vars => LeakInv'
  BY LeakInvStep
<1>3. LeakInv => NoLeak
  BY DEF LeakInv
<1> QED
  BY <1>1, <1>2, <1>3, PTL DEF Spec

\* CleanIsRecorded alone is inductive once sizes are numbers, for indices out of
\* range too.
RecordInv == dirty \in BOOLEAN /\ size \in Nat /\ record \in Nat /\ CleanIsRecorded

LEMMA GrowRecords ==
  ASSUME RecordInv, NEW n \in Nat, Grow(n), UNCHANGED <<exists, record>>
  PROVE  RecordInv'
<1>1. size' = Larger(size, n) /\ dirty' \in BOOLEAN
  BY Zenon DEF Grow
<1>2. ~dirty' => ~dirty /\ ~(n > size)
  BY Zenon DEF Grow
<1>3. ~(n > size) => size' = size
  BY <1>1 DEF RecordInv, Larger
<1> QED
  BY <1>1, <1>2, <1>3 DEF RecordInv, CleanIsRecorded, Larger

LEMMA RecordInvStep == ASSUME RecordInv, [Next]_vars PROVE RecordInv'
<1> USE BoundsAssumption
<1>1. ASSUME NEW d \in Data, NEW o \in 0 .. MaxSize - Len(d), Write(o, d) PROVE RecordInv'
  BY <1>1, DataLength, GrowRecords DEF Write
<1>2. ASSUME NEW d \in Data, NEW o \in 0 .. MaxSize - Len(d),
             NEW j \in Iterations(o, Len(d)), WriteFails(o, d, j)
      PROVE  RecordInv'
  BY <1>2, DataLength, GrowRecords DEF WriteFails
<1>3. ASSUME NEW n \in 0 .. MaxSize, Truncate(n) PROVE RecordInv'
  <2>1. /\ exists' = exists /\ record' = record
        /\ (size' = size /\ dirty' = dirty) \/ (size' = n /\ dirty' = TRUE)
    BY <1>3, Zenon DEF Truncate
  <2>2. CASE size' = size /\ dirty' = dirty
    BY <2>1, <2>2 DEF RecordInv, CleanIsRecorded
  <2>3. CASE size' = n /\ dirty' = TRUE
    <3>1. dirty' \in BOOLEAN /\ CleanIsRecorded'
      BY <2>3, Zenon DEF CleanIsRecorded
    <3> QED
      BY <2>1, <2>3, <3>1 DEF RecordInv
  <2> QED
    BY <2>1, <2>2, <2>3
<1>4. ASSUME NEW n \in 0 .. MaxSize, NEW last \in 0 .. IndexOf(size), TruncateFails(n, last)
      PROVE  RecordInv'
  BY <1>4 DEF TruncateFails, RecordInv, CleanIsRecorded
<1>5. ASSUME Flush PROVE RecordInv'
  BY <1>5 DEF Flush, RecordInv, CleanIsRecorded
<1>6. ASSUME Reload PROVE RecordInv'
  BY <1>6 DEF Reload, RecordInv, CleanIsRecorded
<1>7. ASSUME Remove PROVE RecordInv'
  BY <1>7 DEF Remove, RecordInv, CleanIsRecorded
<1>8. ASSUME Create PROVE RecordInv'
  BY <1>8 DEF Create, RecordInv, CleanIsRecorded
<1>9. ASSUME UNCHANGED vars PROVE RecordInv'
  BY <1>9 DEF vars, RecordInv, CleanIsRecorded
<1> QED
  BY <1>1, <1>2, <1>3, <1>4, <1>5, <1>6, <1>7, <1>8, <1>9 DEF Next

\* Metadata that is not marked to be written has its size in the backend: every
\* operation that changes the size marks it, whatever the offsets.
THEOREM CleanIsAlwaysRecorded == Spec => []CleanIsRecorded
<1>1. Init => RecordInv
  BY DEF Init, RecordInv, CleanIsRecorded
<1>2. RecordInv /\ [Next]_vars => RecordInv'
  BY RecordInvStep
<1>3. RecordInv => CleanIsRecorded
  BY DEF RecordInv
<1> QED
  BY <1>1, <1>2, <1>3, PTL DEF Spec

=============================================================================
