------------------------ MODULE FileRefinementProofs ------------------------
(***************************************************************************)
(* FileData implements ByteFile, for any size of objects, any lengths of   *)
(* writes and any failures of the backend: its objects, read at the keys   *)
(* data_object_key gives them, are the sequence of bytes that was written. *)
(***************************************************************************)
EXTENDS FileDataProofs

\* The offsets whose objects have keys of their own: 16 TiB for 64 KiB objects.
OffsetsInRange == MaxSize <= ObjectSize * IndexLimit

-----------------------------------------------------------------------------
(* Arithmetic of objects.                                                  *)

LEMMA DivMod ==
  ASSUME NEW a \in Nat, NEW n \in Nat \ {0}
  PROVE  /\ a = n * (a \div n) + (a % n)
         /\ a % n \in 0 .. n - 1 /\ a \div n \in Nat
  BY SMT

LEMMA Distribute ==
  ASSUME NEW a \in Nat, NEW b \in Nat, NEW c \in Nat
  PROVE  a * (b + c) = a * b + a * c
  BY SMT

LEMMA TimesMonotonic ==
  ASSUME NEW a \in Nat, NEW b \in Nat, NEW n \in Nat \ {0}, a <= b
  PROVE  n * a \in Nat /\ n * b \in Nat /\ n * a <= n * b
  BY SMT

LEMMA TimesNext ==
  ASSUME NEW a \in Nat, NEW b \in Nat, NEW n \in Nat \ {0}, a < b
  PROVE  n * a \in Nat /\ n * b \in Nat /\ n * a + n <= n * b
<1>1. n * (a + 1) = n * a + n
  BY SMT
<1> QED
  BY <1>1, TimesMonotonic

\* Where position q lies: in object q \div ObjectSize, at byte q % ObjectSize.
LEMMA Position ==
  ASSUME NEW q \in Nat
  PROVE  /\ q = ObjectSize * (q \div ObjectSize) + (q % ObjectSize)
         /\ q % ObjectSize \in 0 .. ObjectSize - 1
         /\ q \div ObjectSize \in Nat /\ ObjectSize * (q \div ObjectSize) \in Nat
<1>1. q \div ObjectSize \in Nat
  BY DivMod, ObjectSizeAssumption
<1> QED
  BY <1>1, DivMod, TimesMonotonic, ObjectSizeAssumption

LEMMA RangeIsSizes == OffsetsInRange => SizesInRange
<1> SUFFICES ASSUME OffsetsInRange, ~(MaxSize \div ObjectSize <= IndexLimit) PROVE FALSE
  BY DEF SizesInRange
<1>1. MaxSize \in Nat /\ IndexLimit \in Nat /\ MaxSize \div ObjectSize \in Nat
  BY Position, BoundsAssumption, IndexAssumption
<1>2. ObjectSize * IndexLimit + ObjectSize <= ObjectSize * (MaxSize \div ObjectSize)
  BY <1>1, TimesNext, ObjectSizeAssumption
<1>3. ObjectSize * (MaxSize \div ObjectSize) <= MaxSize
  BY <1>1, Position, ObjectSizeAssumption
<1>4. ObjectSize * IndexLimit \in Nat /\ ObjectSize * (MaxSize \div ObjectSize) \in Nat
  BY <1>1, TimesMonotonic, ObjectSizeAssumption
<1> QED
  BY <1>1, <1>2, <1>3, <1>4, ObjectSizeAssumption DEF OffsetsInRange

\* In range the key of a position is its object: no two objects share one.
LEMMA KeyOfPosition ==
  ASSUME OffsetsInRange, NEW q \in Nat, q < MaxSize
  PROVE  /\ q \div ObjectSize \in 0 .. IndexLimit - 1
         /\ IndexOf(q) = q \div ObjectSize /\ KeyIndex(IndexOf(q)) = q \div ObjectSize
<1>1. q \in 0 .. MaxSize /\ q \div ObjectSize \in Nat /\ MaxSize \in Nat /\ IndexLimit \in Nat
  BY Position, BoundsAssumption, IndexAssumption
<1>2. q \div ObjectSize < IndexLimit
  <2> SUFFICES ASSUME IndexLimit <= q \div ObjectSize PROVE FALSE
    BY <1>1
  <2>1. ObjectSize * IndexLimit <= ObjectSize * (q \div ObjectSize)
    BY <1>1, TimesMonotonic, ObjectSizeAssumption
  <2>2. ObjectSize * (q \div ObjectSize) <= q
    BY <1>1, Position, ObjectSizeAssumption
  <2>3. ObjectSize * IndexLimit \in Nat /\ ObjectSize * (q \div ObjectSize) \in Nat
    BY <1>1, TimesMonotonic, ObjectSizeAssumption
  <2> QED
    BY <1>1, <2>1, <2>2, <2>3 DEF OffsetsInRange
<1>3. IndexOf(q) = q \div ObjectSize
  BY <1>1, IndexInRange, RangeIsSizes
<1> QED
  BY <1>1, <1>2, <1>3, ModSame, IndexAssumption DEF KeyIndex

-----------------------------------------------------------------------------
(* The iterations of write and read.                                       *)

\* Iteration j starts at position o + From of the file, which is byte At of object
\* o \div ObjectSize + j, and stays within its object and the buffer.
LEMMA Iteration ==
  ASSUME NEW o \in Nat, NEW n \in Nat \ {0}, NEW j \in Iterations(o, n)
  PROVE  /\ j \in Nat
         /\ At(o, j) \in 0 .. ObjectSize - 1 /\ From(o, j) \in 0 .. n - 1
         /\ ObjectSize * ((o \div ObjectSize) + j) + At(o, j) = o + From(o, j)
         /\ ObjectSize * ((o \div ObjectSize) + j) \in Nat
         /\ Length(o, n, j) \in 1 .. ObjectSize - At(o, j)
         /\ From(o, j) + Length(o, n, j) <= n
         /\ \/ Length(o, n, j) = ObjectSize - At(o, j)
            \/ From(o, j) + Length(o, n, j) = n
<1> DEFINE b == o \div ObjectSize
           e == (o + n - 1) \div ObjectSize
<1>1. /\ b \in Nat /\ e \in Nat /\ j \in Nat /\ b + j \in Nat /\ b + j <= e
      /\ ObjectSize \in Nat \ {0}
  BY Position, ObjectSizeAssumption DEF Iterations
<1>2. /\ ObjectSize * (b + j) = ObjectSize * b + ObjectSize * j
      /\ ObjectSize * b \in Nat /\ ObjectSize * j \in Nat /\ ObjectSize * (b + j) \in Nat
      /\ ObjectSize * e \in Nat /\ ObjectSize * (b + j) <= ObjectSize * e
      /\ j * ObjectSize = ObjectSize * j
  BY <1>1, Distribute, TimesMonotonic
<1>3. /\ o = ObjectSize * b + (o % ObjectSize) /\ o % ObjectSize \in 0 .. ObjectSize - 1
      /\ ObjectSize * e <= o + n - 1
  <2>1. o + n - 1 \in Nat
    OBVIOUS
  <2> QED
    BY <2>1, <1>2, Position, ObjectSizeAssumption
<1>4. j # 0 => ObjectSize <= ObjectSize * j
  BY <1>1, SMT
<1>5. At(o, j) \in 0 .. ObjectSize - 1
  BY <1>1, <1>3 DEF At
<1>6. ObjectSize * (b + j) + At(o, j) = o + From(o, j)
  <2>1. CASE j = 0
    BY <1>1, <1>3, <2>1 DEF At, From
  <2>2. CASE j # 0
    <3> HIDE DEF b, e
    <3>1. At(o, j) = 0 /\ From(o, j) = ObjectSize * j - (o % ObjectSize)
      BY <1>2, <2>2 DEF At, From
    <3> QED
      BY <1>1, <1>2, <1>3, <3>1
  <2> QED
    BY <2>1, <2>2
<1>7. From(o, j) \in Int /\ From(o, j) >= 0
  <2>1. CASE j = 0
    BY <2>1 DEF From
  <2>2. CASE j # 0
    BY <1>1, <1>2, <1>3, <1>4, <2>2 DEF From
  <2> QED
    BY <2>1, <2>2
<1>8. From(o, j) <= n - 1
  <2> HIDE DEF b, e
  <2>1. CASE j = 0
    BY <2>1 DEF From
  <2>2. CASE j # 0
    <3>1. At(o, j) = 0
      BY <2>2 DEF At
    <3> QED
      BY <1>1, <1>2, <1>3, <1>6, <1>7, <3>1
  <2> QED
    BY <2>1, <2>2
<1>9. From(o, j) \in 0 .. n - 1
  BY <1>7, <1>8
<1>10. /\ Length(o, n, j) \in 1 .. ObjectSize - At(o, j)
       /\ From(o, j) + Length(o, n, j) <= n
       /\ \/ Length(o, n, j) = ObjectSize - At(o, j)
          \/ From(o, j) + Length(o, n, j) = n
  BY <1>1, <1>5, <1>9 DEF Length, Smaller
<1> QED
  BY <1>1, <1>2, <1>5, <1>6, <1>9, <1>10

-----------------------------------------------------------------------------
(* Objects as sequences of bytes.                                          *)

IsObject(b) == b \in Seq(Bytes) /\ Len(b) <= ObjectSize
ByteIn(b, i) == IF i <= Len(b) THEN b[i] ELSE 0

LEMMA FunctionIsSeq ==
  ASSUME NEW n \in Nat, NEW S, NEW f \in [1 .. n -> S]
  PROVE  f \in Seq(S) /\ Len(f) = n
  OBVIOUS

LEMMA ObjectIsSeq ==
  \A b : b \in UNION {[1 .. n -> Bytes] : n \in 0 .. ObjectSize} <=> IsObject(b)
<1>1. ASSUME NEW n \in 0 .. ObjectSize, NEW b \in [1 .. n -> Bytes] PROVE IsObject(b)
  <2>1. n \in Nat /\ n <= ObjectSize
    BY ObjectSizeAssumption
  <2>2. b \in Seq(Bytes) /\ Len(b) = n
    BY <2>1, FunctionIsSeq
  <2> QED
    BY <2>1, <2>2 DEF IsObject
<1>2. ASSUME NEW b, IsObject(b) PROVE b \in [1 .. Len(b) -> Bytes] /\ Len(b) \in 0 .. ObjectSize
  BY <1>2, ObjectSizeAssumption DEF IsObject
<1> QED
  BY <1>1, <1>2

LEMMA DataIsSeq ==
  ASSUME NEW d \in Data
  PROVE  d \in Seq(Bytes) /\ d \in [1 .. Len(d) -> Bytes] /\ Len(d) \in 1 .. MaxWrite /\ Len(d) \in Nat \ {0}
<1>1. PICK n \in 1 .. MaxWrite : d \in [1 .. n -> Bytes]
  BY DEF Data
<1>2. n \in Nat \ {0} /\ d \in Seq(Bytes) /\ Len(d) = n
  BY <1>1, FunctionIsSeq, BoundsAssumption
<1> QED
  BY <1>1, <1>2

\* A part of the buffer.
LEMMA Piece ==
  ASSUME NEW d \in Seq(Bytes), NEW f \in Nat, NEW l \in Nat, f + l <= Len(d)
  PROVE  /\ SubSeq(d, f + 1, f + l) \in Seq(Bytes) /\ Len(SubSeq(d, f + 1, f + l)) = l
         /\ \A i \in 1 .. l : SubSeq(d, f + 1, f + l)[i] = d[f + i]
  OBVIOUS

\* A partial write replaces its range, and fills a gap before it with zeros.
LEMMA OverlayBytes ==
  ASSUME NEW b \in Seq(Bytes), NEW a \in Nat, NEW d \in Seq(Bytes)
  PROVE  /\ Overlay(b, a, d) \in Seq(Bytes)
         /\ Len(Overlay(b, a, d)) = Larger(Len(b), a + Len(d))
         /\ \A i \in Nat \ {0} :
              ByteIn(Overlay(b, a, d), i)
                = IF i \in a + 1 .. a + Len(d) THEN d[i - a] ELSE ByteIn(b, i)
<1> DEFINE n == Larger(Len(b), a + Len(d))
           byte(i) == IF i \in a + 1 .. a + Len(d) THEN d[i - a] ELSE IF i <= Len(b) THEN b[i] ELSE 0
<1>1. n \in Nat /\ n >= Len(b) /\ n >= a + Len(d)
  BY DEF Larger
<1>2. \A i \in 1 .. n : byte(i) \in Bytes
  BY <1>1, BytesAssumption
<1>3. Overlay(b, a, d) = [i \in 1 .. n |-> byte(i)]
  BY DEF Overlay
<1>4. Overlay(b, a, d) \in [1 .. n -> Bytes]
  BY <1>2, <1>3
<1>5. Overlay(b, a, d) \in Seq(Bytes) /\ Len(Overlay(b, a, d)) = n
  BY <1>1, <1>4, FunctionIsSeq
<1>6. ASSUME NEW i \in Nat \ {0} PROVE ByteIn(Overlay(b, a, d), i) = byte(i)
  <2>1. CASE i <= n
    BY <1>1, <1>3, <1>5, <2>1 DEF ByteIn
  <2>2. CASE ~(i <= n)
    BY <1>1, <1>5, <2>2 DEF ByteIn
  <2> QED
    BY <2>1, <2>2
<1> QED
  BY <1>5, <1>6 DEF ByteIn

\* What the bytes of the file are read from.
CellAt(q) == ByteIn(Stored(KeyIndex(IndexOf(q))), (q % ObjectSize) + 1)

\* TypeOK, and no byte beyond the size: a file that grows again, or is written
\* behind its end, reads zeros in between.
NothingBeyond == \A k \in DOMAIN objects : ObjectSize * k + Len(objects[k]) <= size
DataInv == TypeOK /\ LeakInv /\ NothingBeyond

ObjectsOK == DOMAIN objects \subseteq 0 .. IndexLimit - 1 /\ \A k \in DOMAIN objects : IsObject(objects[k])

LEMMA TypeHasObjects == TypeOK => ObjectsOK
  BY ObjectIsSeq DEF TypeOK, ObjectsOK

LEMMA StoredIsObject == ASSUME ObjectsOK, NEW k PROVE IsObject(Stored(k))
<1>1. << >> \in Seq(Bytes) /\ Len(<< >>) = 0
  OBVIOUS
<1> QED
  BY <1>1, ObjectSizeAssumption DEF ObjectsOK, Stored, IsObject

\* The objects after some iterations of write are objects at 28-bit keys.
LEMMA WrittenType ==
  ASSUME ObjectsOK, NEW o \in Nat, NEW d \in Data, NEW js, js \subseteq Iterations(o, Len(d)),
         objects' = Written(o, d, js)
  PROVE  ObjectsOK'
<1> DEFINE key(j) == KeyIndex(IndexOf(o) + j)
           keys == {key(j) : j \in js}
           piece(j) == SubSeq(d, From(o, j) + 1, From(o, j) + Length(o, Len(d), j))
           new(k) == LET j == CHOOSE j \in js : key(j) = k IN Overlay(Stored(k), At(o, j), piece(j))
<1>1. objects' = [k \in DOMAIN objects \cup keys |-> IF k \in keys THEN new(k) ELSE objects[k]]
  BY DEF Written
<1>2. ASSUME NEW j \in js PROVE key(j) \in 0 .. IndexLimit - 1
  <2>1. IndexOf(o) \in Nat /\ j \in Nat
    BY DataIsSeq, Iteration, IndexRange, Position
  <2>2. IndexOf(o) + j \in Nat
    BY <2>1
  <2> HIDE DEF key
  <2>3. KeyIndex(IndexOf(o) + j) \in 0 .. IndexLimit - 1
    BY <2>2, KeyIndexRange, Zenon
  <2> QED
    BY <2>3 DEF key
<1>3. ASSUME NEW j \in js, NEW k PROVE IsObject(Overlay(Stored(k), At(o, j), piece(j)))
  <2>1. /\ At(o, j) \in 0 .. ObjectSize - 1 /\ From(o, j) \in Nat
        /\ Length(o, Len(d), j) \in 1 .. ObjectSize - At(o, j)
        /\ From(o, j) + Length(o, Len(d), j) <= Len(d) /\ d \in Seq(Bytes)
    BY DataIsSeq, Iteration, ObjectSizeAssumption
  <2>2. piece(j) \in Seq(Bytes) /\ Len(piece(j)) = Length(o, Len(d), j)
    BY <2>1, Piece, ObjectSizeAssumption
  <2>3. Stored(k) \in Seq(Bytes) /\ Len(Stored(k)) <= ObjectSize /\ Len(Stored(k)) \in Nat
    BY StoredIsObject DEF IsObject
  <2> HIDE DEF piece
  <2>4. At(o, j) \in Nat
    BY <2>1
  <2>5. /\ Overlay(Stored(k), At(o, j), piece(j)) \in Seq(Bytes)
        /\ Len(Overlay(Stored(k), At(o, j), piece(j)))
             = Larger(Len(Stored(k)), At(o, j) + Len(piece(j)))
    BY <2>2, <2>3, <2>4, OverlayBytes
  <2>6. Larger(Len(Stored(k)), At(o, j) + Len(piece(j))) <= ObjectSize
    BY <2>1, <2>2, <2>3, ObjectSizeAssumption DEF Larger
  <2> QED
    BY <2>5, <2>6 DEF IsObject
<1>4. ASSUME NEW k \in keys PROVE IsObject(new(k))
  <2>1. \E j \in js : key(j) = k
    OBVIOUS
  <2>2. (CHOOSE j \in js : key(j) = k) \in js
    BY <2>1
  <2> QED
    BY <1>3, <2>2
<1> HIDE DEF new
<1>5. DOMAIN objects' = DOMAIN objects \cup keys
  BY <1>1
<1>6. ASSUME NEW k \in DOMAIN objects' PROVE IsObject(objects'[k])
  BY <1>1, <1>4, <1>5, <1>6 DEF ObjectsOK
<1> QED
  BY <1>2, <1>5, <1>6 DEF ObjectsOK

-----------------------------------------------------------------------------
(* What a write does to the bytes.                                         *)

ObjectOf(o, j) == (o \div ObjectSize) + j
PieceOf(o, d, j) == SubSeq(d, From(o, j) + 1, From(o, j) + Length(o, Len(d), j))

LEMMA KeyOfIteration ==
  ASSUME OffsetsInRange, NEW o \in Nat, NEW n \in Nat \ {0}, o + n <= MaxSize,
         NEW j \in Iterations(o, n)
  PROVE  /\ KeyIndex(IndexOf(o) + j) = (o \div ObjectSize) + j
         /\ IndexOf(o) + j = (o \div ObjectSize) + j
         /\ (o \div ObjectSize) + j \in 0 .. IndexLimit - 1
<1>1. o < MaxSize /\ o + n - 1 \in Nat /\ o + n - 1 < MaxSize
  BY BoundsAssumption
<1>2. /\ IndexOf(o) = o \div ObjectSize /\ o \div ObjectSize \in Nat
      /\ (o + n - 1) \div ObjectSize \in 0 .. IndexLimit - 1
  BY <1>1, KeyOfPosition, Position
<1>3. (o \div ObjectSize) + j \in 0 .. IndexLimit - 1
  BY <1>1, <1>2, IndexAssumption DEF Iterations
<1> QED
  BY <1>2, <1>3, ModSame, IndexAssumption DEF KeyIndex

\* In range each iteration writes its own object, and no other object changes.
LEMMA WrittenObjects ==
  ASSUME OffsetsInRange, NEW o \in Nat, NEW d \in Data, o + Len(d) <= MaxSize,
         NEW js, js \subseteq Iterations(o, Len(d)), objects' = Written(o, d, js)
  PROVE  /\ DOMAIN objects' = DOMAIN objects \cup {ObjectOf(o, j) : j \in js}
         /\ \A j \in js : objects'[ObjectOf(o, j)]
              = Overlay(Stored(ObjectOf(o, j)), At(o, j), PieceOf(o, d, j))
         /\ \A k \in DOMAIN objects' :
              k \notin {ObjectOf(o, j) : j \in js} => objects'[k] = objects[k]
<1> DEFINE key(j) == KeyIndex(IndexOf(o) + j)
           keys == {key(j) : j \in js}
           new(k) == LET j == CHOOSE j \in js : key(j) = k IN Overlay(Stored(k), At(o, j), PieceOf(o, d, j))
<1>1. objects' = [k \in DOMAIN objects \cup keys |-> IF k \in keys THEN new(k) ELSE objects[k]]
  BY DEF Written, PieceOf
<1>2. \A j \in js : key(j) = ObjectOf(o, j) /\ j \in Nat
  BY DataIsSeq, Iteration, KeyOfIteration DEF ObjectOf
<1>3. \A i, j \in js : ObjectOf(o, i) = ObjectOf(o, j) => i = j
  <2>1. o \div ObjectSize \in Nat
    BY Position
  <2> QED
    BY <1>2, <2>1 DEF ObjectOf
<1>4. keys = {ObjectOf(o, j) : j \in js}
  BY <1>2
<1>5. ASSUME NEW j \in js
      PROVE  new(ObjectOf(o, j)) = Overlay(Stored(ObjectOf(o, j)), At(o, j), PieceOf(o, d, j))
  <2>1. /\ (CHOOSE i \in js : key(i) = ObjectOf(o, j)) \in js
        /\ key(CHOOSE i \in js : key(i) = ObjectOf(o, j)) = ObjectOf(o, j)
    BY <1>2
  <2>2. (CHOOSE i \in js : key(i) = ObjectOf(o, j)) = j
    <3> HIDE DEF key
    <3> QED
      BY <1>2, <1>3, <2>1
  <2> QED
    BY <2>2
<1> HIDE DEF new, keys
<1> QED
  BY <1>1, <1>4, <1>5

LEMMA CellOf ==
  ASSUME OffsetsInRange, NEW q \in Nat, q < MaxSize
  PROVE  /\ CellAt(q) = ByteIn(Stored(q \div ObjectSize), (q % ObjectSize) + 1)
         /\ CellAt(q)' = ByteIn(Stored(q \div ObjectSize)', (q % ObjectSize) + 1)
<1>1. KeyIndex(IndexOf(q)) = q \div ObjectSize
  BY KeyOfPosition
<1> QED
  BY <1>1 DEF CellAt, ByteIn, Stored

\* A position of the object of iteration j is in its piece if it is in the range.
LEMMA InPiece ==
  ASSUME NEW o \in Nat, NEW n \in Nat \ {0}, NEW j \in Iterations(o, n), NEW q \in Nat,
         q \div ObjectSize = ObjectOf(o, j)
  PROVE  /\ (q % ObjectSize) + 1 \in At(o, j) + 1 .. At(o, j) + Length(o, n, j)
              <=> q \in o .. o + n - 1
         /\ ((q % ObjectSize) + 1) - At(o, j) + From(o, j) = q - o + 1
<1> DEFINE p == ObjectSize * ((o \div ObjectSize) + j)
           r == q % ObjectSize
<1>1. q = p + r /\ r \in 0 .. ObjectSize - 1
  BY Position DEF ObjectOf
<1>2. /\ j \in Nat /\ p \in Nat /\ p + At(o, j) = o + From(o, j)
      /\ At(o, j) \in 0 .. ObjectSize - 1 /\ From(o, j) \in 0 .. n - 1
      /\ Length(o, n, j) \in 1 .. ObjectSize - At(o, j)
      /\ From(o, j) + Length(o, n, j) <= n
      /\ \/ Length(o, n, j) = ObjectSize - At(o, j)
         \/ From(o, j) + Length(o, n, j) = n
  BY Iteration
<1>3. At(o, j) = 0 \/ From(o, j) = 0
  BY DEF At, From
<1> HIDE DEF p, r
<1>4. /\ r \in Nat /\ At(o, j) \in Nat /\ From(o, j) \in Nat
      /\ Length(o, n, j) \in Nat /\ ObjectSize \in Nat
      /\ r < ObjectSize /\ 1 <= Length(o, n, j)
      /\ At(o, j) + Length(o, n, j) <= ObjectSize
      /\ At(o, j) + Length(o, n, j) = ObjectSize \/ From(o, j) + Length(o, n, j) = n
  BY <1>1, <1>2, ObjectSizeAssumption
<1>5. /\ r + 1 \in At(o, j) + 1 .. At(o, j) + Length(o, n, j)
           <=> p + r \in o .. o + n - 1
      /\ (r + 1) - At(o, j) + From(o, j) = (p + r) - o + 1
  BY <1>2, <1>3, <1>4
<1>6. p + r = q /\ (p + r) - o + 1 = q - o + 1
  BY <1>1, <1>2, <1>4
<1>7. /\ r + 1 \in At(o, j) + 1 .. At(o, j) + Length(o, n, j) <=> q \in o .. o + n - 1
      /\ (r + 1) - At(o, j) + From(o, j) = q - o + 1
  BY <1>5, <1>6, Zenon
<1> QED
  BY <1>7, Zenon DEF r

\* The byte at position q after the iterations js of a write.
LEMMA WrittenCells ==
  ASSUME OffsetsInRange, ObjectsOK, NEW o \in Nat, NEW d \in Data, o + Len(d) <= MaxSize,
         NEW js, js \subseteq Iterations(o, Len(d)), objects' = Written(o, d, js),
         NEW q \in Nat, q < MaxSize
  PROVE  CellAt(q)' = IF (\E j \in js : q \div ObjectSize = ObjectOf(o, j))
                           /\ q \in o .. o + Len(d) - 1
                        THEN d[q - o + 1] ELSE CellAt(q)
<1> DEFINE i == (q % ObjectSize) + 1
<1>0. /\ DOMAIN objects' = DOMAIN objects \cup {ObjectOf(o, j) : j \in js}
      /\ \A j \in js : objects'[ObjectOf(o, j)]
           = Overlay(Stored(ObjectOf(o, j)), At(o, j), PieceOf(o, d, j))
      /\ \A k \in DOMAIN objects' :
           k \notin {ObjectOf(o, j) : j \in js} => objects'[k] = objects[k]
  BY WrittenObjects, Zenon
<1>1. d \in Seq(Bytes) /\ Len(d) \in Nat \ {0}
  BY DataIsSeq
<1>2. i \in Nat \ {0} /\ q \div ObjectSize \in Nat
  <2>1. q % ObjectSize \in 0 .. ObjectSize - 1 /\ q \div ObjectSize \in Nat
    BY Position
  <2> QED
    BY <2>1, ObjectSizeAssumption
<1>3. CASE \E j \in js : q \div ObjectSize = ObjectOf(o, j)
  <2>1. PICK j \in js : q \div ObjectSize = ObjectOf(o, j)
    BY <1>3
  <2>2. /\ At(o, j) \in Nat /\ From(o, j) \in Nat /\ Length(o, Len(d), j) \in Nat
        /\ From(o, j) + Length(o, Len(d), j) <= Len(d)
    BY <1>1, Iteration, ObjectSizeAssumption
  <2>3. Stored(ObjectOf(o, j)) \in Seq(Bytes)
    BY StoredIsObject DEF IsObject
  <2>4. Stored(q \div ObjectSize)' = Overlay(Stored(ObjectOf(o, j)), At(o, j), PieceOf(o, d, j))
    BY <1>0, <2>1 DEF Stored
  <2>5. /\ PieceOf(o, d, j) \in Seq(Bytes) /\ Len(PieceOf(o, d, j)) = Length(o, Len(d), j)
        /\ \A m \in 1 .. Length(o, Len(d), j) : PieceOf(o, d, j)[m] = d[From(o, j) + m]
    BY <1>1, <2>2, Piece DEF PieceOf
  <2>6. /\ i \in At(o, j) + 1 .. At(o, j) + Length(o, Len(d), j) <=> q \in o .. o + Len(d) - 1
        /\ i - At(o, j) + From(o, j) = q - o + 1
    <3>1. j \in Iterations(o, Len(d))
      OBVIOUS
    <3>2. Len(d) \in Nat \ {0}
      BY <1>1
    <3>3. /\ (q % ObjectSize) + 1 \in At(o, j) + 1 .. At(o, j) + Length(o, Len(d), j)
               <=> q \in o .. o + Len(d) - 1
          /\ ((q % ObjectSize) + 1) - At(o, j) + From(o, j) = q - o + 1
      BY <2>1, <3>1, <3>2, InPiece, Zenon
    <3> QED
      BY <3>3, Zenon
  <2>7. CellAt(q)' = IF i \in At(o, j) + 1 .. At(o, j) + Len(PieceOf(o, d, j))
                       THEN PieceOf(o, d, j)[i - At(o, j)] ELSE ByteIn(Stored(ObjectOf(o, j)), i)
    <3> HIDE DEF i
    <3>1. CellAt(q)' = ByteIn(Overlay(Stored(ObjectOf(o, j)), At(o, j), PieceOf(o, d, j)), i)
      BY <2>4, CellOf DEF i
    <3>2. ByteIn(Overlay(Stored(ObjectOf(o, j)), At(o, j), PieceOf(o, d, j)), i)
            = IF i \in At(o, j) + 1 .. At(o, j) + Len(PieceOf(o, d, j))
                THEN PieceOf(o, d, j)[i - At(o, j)] ELSE ByteIn(Stored(ObjectOf(o, j)), i)
      <4>1. PieceOf(o, d, j) \in Seq(Bytes) /\ At(o, j) \in Nat /\ i \in Nat \ {0}
        BY <1>2, <2>2, <2>5 DEF i
      <4>2. \A m \in Nat \ {0} :
              ByteIn(Overlay(Stored(ObjectOf(o, j)), At(o, j), PieceOf(o, d, j)), m)
                = IF m \in At(o, j) + 1 .. At(o, j) + Len(PieceOf(o, d, j))
                    THEN PieceOf(o, d, j)[m - At(o, j)] ELSE ByteIn(Stored(ObjectOf(o, j)), m)
        BY <2>3, <4>1, OverlayBytes
      <4> QED
        BY <4>1, <4>2, Zenon
    <3> QED
      BY <3>1, <3>2
  <2>8. CellAt(q) = ByteIn(Stored(ObjectOf(o, j)), i)
    BY <2>1, CellOf
  <2> HIDE DEF i
  <2>9. CASE q \in o .. o + Len(d) - 1
    <3>1. i - At(o, j) \in 1 .. Length(o, Len(d), j)
      BY <1>2, <2>2, <2>6, <2>9
    <3>2. PieceOf(o, d, j)[i - At(o, j)] = d[From(o, j) + (i - At(o, j))]
      BY <2>5, <3>1
    <3>3. From(o, j) + (i - At(o, j)) = q - o + 1
      BY <1>2, <2>2, <2>6
    <3> QED
      BY <1>3, <2>5, <2>6, <2>7, <2>9, <3>2, <3>3
  <2>10. CASE ~(q \in o .. o + Len(d) - 1)
    BY <2>5, <2>6, <2>7, <2>8, <2>10
  <2> QED
    BY <2>9, <2>10
<1>4. CASE ~(\E j \in js : q \div ObjectSize = ObjectOf(o, j))
  <2>2. Stored(q \div ObjectSize)' = Stored(q \div ObjectSize)
    <3>1. q \div ObjectSize \notin {ObjectOf(o, j) : j \in js}
      BY <1>4
    <3> QED
      BY <1>0, <3>1 DEF Stored
  <2> QED
    BY <1>4, <2>2, CellOf
<1> QED
  BY <1>3, <1>4

LEMMA BeforeObject ==
  ASSUME NEW q \in Nat, NEW k \in Nat
  PROVE  q < ObjectSize * k <=> q \div ObjectSize < k
<1>1. /\ q = ObjectSize * (q \div ObjectSize) + (q % ObjectSize)
      /\ q % ObjectSize \in 0 .. ObjectSize - 1
      /\ q \div ObjectSize \in Nat /\ ObjectSize * (q \div ObjectSize) \in Nat
  BY Position
<1>2. ObjectSize * k \in Nat
  BY TimesMonotonic, ObjectSizeAssumption
<1>3. ASSUME q \div ObjectSize < k PROVE q < ObjectSize * k
  <2>1. ObjectSize * (q \div ObjectSize) + ObjectSize <= ObjectSize * k
    BY <1>1, <1>3, TimesNext, ObjectSizeAssumption
  <2> QED
    BY <1>1, <1>2, <2>1, ObjectSizeAssumption
<1>4. ASSUME ~(q \div ObjectSize < k) PROVE ~(q < ObjectSize * k)
  <2>1. k <= q \div ObjectSize
    BY <1>1, <1>4
  <2>2. ObjectSize * k <= ObjectSize * (q \div ObjectSize)
    BY <1>1, <2>1, TimesMonotonic, ObjectSizeAssumption
  <2> QED
    BY <1>1, <1>2, <2>2, ObjectSizeAssumption
<1> QED
  BY <1>3, <1>4

\* All iterations of a write reach the whole range, the first m of them its bytes
\* before iteration m.
LEMMA AllObjects ==
  ASSUME NEW o \in Nat, NEW n \in Nat \ {0}, NEW q \in o .. o + n - 1
  PROVE  \E j \in Iterations(o, n) : q \div ObjectSize = ObjectOf(o, j)
<1>1. q \in Nat /\ o + n - 1 \in Nat /\ o <= q /\ q <= o + n - 1
  OBVIOUS
<1>2. /\ o \div ObjectSize <= q \div ObjectSize
      /\ q \div ObjectSize <= (o + n - 1) \div ObjectSize
  BY <1>1, DivMonotonic, ObjectSizeAssumption
<1>3. /\ o \div ObjectSize \in Nat /\ q \div ObjectSize \in Nat
      /\ (o + n - 1) \div ObjectSize \in Nat
  BY <1>1, DivType, ObjectSizeAssumption
<1> DEFINE j == (q \div ObjectSize) - (o \div ObjectSize)
<1>4. j \in Iterations(o, n) /\ q \div ObjectSize = ObjectOf(o, j)
  BY <1>2, <1>3 DEF Iterations, ObjectOf
<1> QED
  BY <1>4

LEMMA FirstObjects ==
  ASSUME NEW o \in Nat, NEW n \in Nat \ {0}, NEW m \in Iterations(o, n), NEW q \in Nat
  PROVE  (\E j \in 0 .. m - 1 : q \div ObjectSize = ObjectOf(o, j)) /\ q \in o .. o + n - 1
           <=> q \in o .. o + From(o, m) - 1
<1> DEFINE b == o \div ObjectSize
           k == q \div ObjectSize
           p == ObjectSize * (b + m)
<1>1. b \in Nat /\ k \in Nat /\ m \in Nat /\ From(o, m) \in 0 .. n - 1 /\ b + m \in Nat /\ p \in Nat
  <2>1. b \in Nat /\ k \in Nat
    BY Position
  <2>2. m \in Nat /\ From(o, m) \in 0 .. n - 1 /\ p \in Nat
    BY Iteration
  <2>3. b + m \in Nat
    BY <2>1, <2>2
  <2> QED
    BY <2>1, <2>2, <2>3
<1>2. o <= q => b <= k
  BY DivMonotonic, ObjectSizeAssumption
<1>3. q < p <=> k < b + m
  BY <1>1, BeforeObject
<1>4. m # 0 => p = o + From(o, m)
  <2>1. p + At(o, m) = o + From(o, m)
    BY Iteration
  <2> QED
    BY <1>1, <2>1 DEF At
<1>5. m = 0 => From(o, m) = 0
  BY DEF From
<1>6. (\E j \in 0 .. m - 1 : k = b + j) <=> b <= k /\ k < b + m
  <2> HIDE DEF b, k, p
  <2>1. ASSUME b <= k, k < b + m PROVE \E j \in 0 .. m - 1 : k = b + j
    <3>1. k - b \in 0 .. m - 1 /\ k = b + (k - b)
      BY <1>1, <2>1
    <3> QED
      BY <3>1
  <2>2. ASSUME NEW j \in 0 .. m - 1, k = b + j PROVE b <= k /\ k < b + m
    BY <1>1, <2>2
  <2> QED
    BY <2>1, <2>2
<1>7. (\E j \in 0 .. m - 1 : q \div ObjectSize = ObjectOf(o, j)) <=> b <= k /\ k < b + m
  BY <1>6 DEF ObjectOf
<1> HIDE DEF b, k, p
<1>8. b <= k /\ k < b + m /\ q \in o .. o + n - 1 <=> q \in o .. o + From(o, m) - 1
  <2>1. CASE m = 0
    BY <1>1, <1>5, <2>1
  <2>2. CASE m # 0
    BY <1>1, <1>2, <1>3, <1>4, <2>2
  <2> QED
    BY <2>1, <2>2
<1> QED
  BY <1>7, <1>8

-----------------------------------------------------------------------------
(* The contents of the file.                                               *)

LEMMA ContentIsCells ==
  /\ Content = [p \in 1 .. size |-> CellAt(p - 1)]
  /\ Content' = [p \in 1 .. size' |-> CellAt(p - 1)']
  BY DEF Content, CellAt, ByteIn

\* Behind the size every byte reads as zero.
LEMMA BeyondIsZero ==
  ASSUME OffsetsInRange, DataInv, NEW q \in Nat, size <= q, q < MaxSize
  PROVE  CellAt(q) = 0
<1> DEFINE k == q \div ObjectSize
           r == q % ObjectSize
<1>1. q = ObjectSize * k + r /\ r \in Nat /\ k \in Nat /\ ObjectSize * k \in Nat
  BY Position, ObjectSizeAssumption
<1>2. size \in Nat
  BY BoundsAssumption DEF DataInv, TypeOK
<1>3. CellAt(q) = ByteIn(Stored(k), r + 1)
  BY CellOf
<1>4. Len(Stored(k)) \in Nat /\ ObjectsOK
  BY TypeHasObjects, StoredIsObject DEF DataInv, IsObject
<1> HIDE DEF k, r
<1>5. CASE k \in DOMAIN objects
  <2>1. ObjectSize * k + Len(Stored(k)) <= size
    BY <1>5 DEF DataInv, NothingBeyond, Stored
  <2>2. ~(r + 1 <= Len(Stored(k)))
    BY <1>1, <1>2, <1>4, <2>1
  <2> QED
    BY <1>3, <2>2 DEF ByteIn
<1>6. CASE k \notin DOMAIN objects
  <2>1. Stored(k) = << >> /\ Len(<< >>) = 0
    BY <1>6 DEF Stored
  <2>2. ~(r + 1 <= Len(Stored(k)))
    BY <1>1, <2>1
  <2> QED
    BY <1>3, <2>2 DEF ByteIn
<1> QED
  BY <1>5, <1>6

LEMMA ContentLength ==
  ASSUME OffsetsInRange, DataInv
  PROVE  /\ DOMAIN Content = 1 .. size /\ Len(Content) = size /\ size \in 0 .. MaxSize
         /\ \A p \in 1 .. size : Content[p] = CellAt(p - 1)
<1>1. size \in Nat /\ size \in 0 .. MaxSize
  BY BoundsAssumption DEF DataInv, TypeOK
<1>2. Content \in [1 .. size -> {CellAt(p - 1) : p \in 1 .. size}]
  BY ContentIsCells
<1>3. Len(Content) = size
  BY <1>1, <1>2, FunctionIsSeq
<1> QED
  BY <1>1, <1>3, ContentIsCells

\* What ByteFile sees of position p: the byte there, or zero behind the end.
LEMMA ByteOfIsCell ==
  ASSUME OffsetsInRange, DataInv, NEW p \in 1 .. MaxSize
  PROVE  Abstract!ByteOf(p) = CellAt(p - 1)
<1>1. MaxSize \in Nat /\ size \in Nat /\ p \in Nat /\ p - 1 \in Nat /\ p - 1 < MaxSize
  BY BoundsAssumption DEF DataInv, TypeOK
<1>2. CASE p <= size
  BY <1>1, <1>2, ContentLength DEF Abstract!ByteOf
<1>3. CASE ~(p <= size)
  <2>1. size <= p - 1
    BY <1>1, <1>3
  <2>2. CellAt(p - 1) = 0
    BY <1>1, <2>1, BeyondIsZero
  <2> QED
    BY <1>3, <2>2, ContentLength DEF Abstract!ByteOf
<1> QED
  BY <1>2, <1>3

-----------------------------------------------------------------------------
(* The type invariant, for any offsets.                                    *)

LEMMA WriteType ==
  ASSUME TypeOK, NEW d \in Data, NEW o \in 0 .. MaxSize - Len(d),
         NEW js, js \subseteq Iterations(o, Len(d)),
         Grow(o + Len(d)), objects' = Written(o, d, js)
  PROVE  size' \in 0 .. MaxSize /\ dirty' \in BOOLEAN /\ ObjectsOK'
<1>1. Len(d) \in Nat \ {0} /\ o \in Nat /\ o + Len(d) \in 0 .. MaxSize
  BY DataLength, BoundsAssumption
<1>2. size' = Larger(size, o + Len(d)) /\ dirty' \in BOOLEAN
  BY Zenon DEF Grow
<1>3. size' \in 0 .. MaxSize
  BY <1>1, <1>2, BoundsAssumption DEF TypeOK, Larger
<1>4. ObjectsOK'
  BY <1>1, TypeHasObjects, WrittenType, Zenon
<1> QED
  BY <1>2, <1>3, <1>4

LEMMA RemainingObjects ==
  ASSUME ObjectsOK, NEW first, NEW last, objects' = Remaining(first, last)
  PROVE  /\ ObjectsOK' /\ DOMAIN objects' \subseteq DOMAIN objects
         /\ \A k \in DOMAIN objects' : objects'[k] = objects[k]
  BY DEF Remaining, ObjectsOK

ScalarsOK ==
  /\ exists \in BOOLEAN /\ dirty \in BOOLEAN
  /\ size \in 0 .. MaxSize /\ record \in 0 .. MaxSize /\ failures \in 0 .. MaxFailures

LEMMA TypeIs == TypeOK <=> ScalarsOK /\ ObjectsOK
  BY ObjectIsSeq DEF TypeOK, ScalarsOK, ObjectsOK

LEMMA FirstIterations ==
  ASSUME NEW o \in Nat, NEW n \in Nat \ {0}, NEW j \in Iterations(o, n)
  PROVE  j \in Nat /\ 0 .. j - 1 \subseteq Iterations(o, n)
<1>1. o \div ObjectSize \in Nat /\ (o + n - 1) \div ObjectSize \in Nat
  BY DivType, ObjectSizeAssumption
<1> QED
  BY <1>1 DEF Iterations

LEMMA TypeStep == ASSUME TypeOK, [Next]_vars PROVE TypeOK'
<1> USE BoundsAssumption
<1>0. ScalarsOK /\ ObjectsOK
  BY TypeIs
<1>1. ASSUME NEW d \in Data, NEW o \in 0 .. MaxSize - Len(d), Write(o, d)
      PROVE  ScalarsOK' /\ ObjectsOK'
  <2> DEFINE js == {j \in Iterations(o, Len(d)) : Accepted(IndexOf(o) + j)}
  <2>1. /\ Grow(o + Len(d)) /\ objects' = Written(o, d, js)
        /\ UNCHANGED <<exists, record, failures>>
    BY <1>1 DEF Write
  <2>2. js \subseteq Iterations(o, Len(d))
    OBVIOUS
  <2> HIDE DEF js
  <2>3. size' \in 0 .. MaxSize /\ dirty' \in BOOLEAN /\ ObjectsOK'
    BY <2>1, <2>2, WriteType, Zenon
  <2> QED
    BY <1>0, <2>1, <2>3 DEF ScalarsOK
<1>2. ASSUME NEW d \in Data, NEW o \in 0 .. MaxSize - Len(d),
             NEW j \in Iterations(o, Len(d)), WriteFails(o, d, j)
      PROVE  ScalarsOK' /\ ObjectsOK'
  <2>1. /\ Grow(o + Len(d)) /\ objects' = Written(o, d, 0 .. j - 1)
        /\ failures < MaxFailures /\ failures' = failures + 1
        /\ UNCHANGED <<exists, record>>
    BY <1>2 DEF WriteFails
  <2>2. 0 .. j - 1 \subseteq Iterations(o, Len(d))
    BY DataLength, FirstIterations
  <2>3. size' \in 0 .. MaxSize /\ dirty' \in BOOLEAN /\ ObjectsOK'
    BY <2>1, <2>2, WriteType, Zenon
  <2> QED
    BY <1>0, <2>1, <2>3 DEF ScalarsOK
<1>3. ASSUME NEW n \in 0 .. MaxSize, Truncate(n) PROVE ScalarsOK' /\ ObjectsOK'
  <2>1. /\ (size' = size /\ dirty' = dirty) \/ (size' = n /\ dirty' = TRUE)
        /\ UNCHANGED <<exists, record, failures>>
    BY <1>3, Zenon DEF Truncate
  <2>2. objects' = objects \/ objects' = Remaining(FirstIndex(n), IndexOf(size))
    BY <1>3, Zenon DEF Truncate
  <2>3. ObjectsOK'
    BY <1>0, <2>2, RemainingObjects DEF ObjectsOK
  <2>4. ScalarsOK'
    BY <1>0, <2>1 DEF ScalarsOK
  <2> QED
    BY <2>3, <2>4
<1>4. ASSUME NEW n \in 0 .. MaxSize, NEW last \in 0 .. IndexOf(size), TruncateFails(n, last)
      PROVE  ScalarsOK' /\ ObjectsOK'
  <2>1. ObjectsOK'
    BY <1>0, <1>4, RemainingObjects DEF TruncateFails
  <2> QED
    BY <1>0, <1>4, <2>1 DEF TruncateFails, ScalarsOK
<1>5. ASSUME Flush PROVE ScalarsOK' /\ ObjectsOK'
  BY <1>0, <1>5 DEF Flush, ScalarsOK, ObjectsOK
<1>6. ASSUME Reload PROVE ScalarsOK' /\ ObjectsOK'
  BY <1>0, <1>6 DEF Reload, ScalarsOK, ObjectsOK
<1>7. ASSUME Remove PROVE ScalarsOK' /\ ObjectsOK'
  <2>1. objects' = objects \/ objects' = Remaining(0, IndexOf(size))
    BY <1>7 DEF Remove
  <2>2. ObjectsOK'
    BY <1>0, <2>1, RemainingObjects DEF ObjectsOK
  <2>3. exists' = FALSE /\ size' = 0 /\ dirty' = FALSE /\ record' = 0 /\ failures' = failures
    BY <1>7, Zenon DEF Remove
  <2>4. exists' \in BOOLEAN /\ dirty' \in BOOLEAN
    BY <2>3
  <2>5. size' \in 0 .. MaxSize /\ record' \in 0 .. MaxSize
    BY <2>3
  <2>6. failures' \in 0 .. MaxFailures
    BY <1>0, <2>3 DEF ScalarsOK
  <2> QED
    BY <2>2, <2>4, <2>5, <2>6, Zenon DEF ScalarsOK
<1>8. ASSUME Create PROVE ScalarsOK' /\ ObjectsOK'
  BY <1>0, <1>8 DEF Create, ScalarsOK, ObjectsOK, NoObjects
<1>9. ASSUME UNCHANGED vars PROVE ScalarsOK' /\ ObjectsOK'
  BY <1>0, <1>9 DEF vars, ScalarsOK, ObjectsOK
<1>10. TypeOK' <=> ScalarsOK' /\ ObjectsOK'
  BY TypeIs, PTL
<1> QED
  BY <1>1, <1>2, <1>3, <1>4, <1>5, <1>6, <1>7, <1>8, <1>9, <1>10 DEF Next

LEMMA TypeInit == Init => TypeOK
<1>1. Init => ScalarsOK /\ ObjectsOK
  BY BoundsAssumption DEF Init, ScalarsOK, ObjectsOK, NoObjects
<1> QED
  BY <1>1, TypeIs

\* The type invariant: whatever is written, truncated and fails, sizes stay
\* numbers, keys stay 28 bits and no object is ever longer than
\* maximum_object_size.
THEOREM TypeCorrect == Spec => []TypeOK
<1>1. Init => TypeOK
  BY TypeInit
<1>2. TypeOK /\ [Next]_vars => TypeOK'
  BY TypeStep
<1> QED
  BY <1>1, <1>2, PTL DEF Spec


-----------------------------------------------------------------------------
(* The invariant.                                                          *)

\* A write ends no object behind the new size.
LEMMA WriteNothingBeyond ==
  ASSUME OffsetsInRange, DataInv, NEW d \in Data, NEW o \in 0 .. MaxSize - Len(d),
         NEW js, js \subseteq Iterations(o, Len(d)),
         Grow(o + Len(d)), objects' = Written(o, d, js)
  PROVE  NothingBeyond'
<1>1. Len(d) \in Nat \ {0} /\ d \in Seq(Bytes) /\ o \in Nat /\ o + Len(d) <= MaxSize /\ ObjectsOK
  BY DataIsSeq, TypeHasObjects, BoundsAssumption DEF DataInv
<1>2. /\ DOMAIN objects' = DOMAIN objects \cup {ObjectOf(o, j) : j \in js}
      /\ \A j \in js : objects'[ObjectOf(o, j)]
           = Overlay(Stored(ObjectOf(o, j)), At(o, j), PieceOf(o, d, j))
      /\ \A k \in DOMAIN objects' :
           k \notin {ObjectOf(o, j) : j \in js} => objects'[k] = objects[k]
  BY <1>1, WrittenObjects, Zenon
<1>3. /\ size \in Nat /\ size' \in Nat /\ size <= size' /\ o + Len(d) <= size'
  <2>1. size' = Larger(size, o + Len(d))
    BY Zenon DEF Grow
  <2>2. size \in Nat
    BY BoundsAssumption DEF DataInv, TypeOK
  <2> QED
    BY <1>1, <2>1, <2>2 DEF Larger
<1>4. ASSUME NEW k \in DOMAIN objects, ObjectSize * k + Len(objects[k]) <= size
      PROVE  /\ k \in Nat /\ ObjectSize * k \in Nat /\ Len(objects[k]) \in Nat
             /\ ObjectSize * k + Len(objects[k]) <= size'
  <2>1. k \in Nat /\ Len(objects[k]) \in Nat
    BY <1>1, IndexAssumption DEF ObjectsOK, IsObject
  <2>2. ObjectSize * k \in Nat
    BY <2>1, TimesMonotonic, ObjectSizeAssumption
  <2> QED
    BY <1>3, <1>4, <2>1, <2>2
<1>5. ASSUME NEW j \in js
      PROVE  ObjectSize * ObjectOf(o, j) + Len(objects'[ObjectOf(o, j)]) <= size'
  <2> DEFINE k == ObjectOf(o, j)
             p == ObjectSize * k
  <2>1. /\ At(o, j) \in Nat /\ From(o, j) \in Nat /\ p \in Nat /\ p + At(o, j) = o + From(o, j)
        /\ Length(o, Len(d), j) \in Nat /\ From(o, j) + Length(o, Len(d), j) <= Len(d)
    <3>1. j \in Iterations(o, Len(d))
      OBVIOUS
    <3> QED
      BY <1>1, <3>1, Iteration, ObjectSizeAssumption DEF ObjectOf
  <2>2. PieceOf(o, d, j) \in Seq(Bytes) /\ Len(PieceOf(o, d, j)) = Length(o, Len(d), j)
    BY <1>1, <2>1, Piece DEF PieceOf
  <2>3. Stored(k) \in Seq(Bytes) /\ Len(Stored(k)) \in Nat
    BY <1>1, StoredIsObject DEF IsObject
  <2>4. p + Len(Stored(k)) <= size'
    <3>1. CASE k \in DOMAIN objects
      BY <1>4, <3>1 DEF Stored, DataInv, NothingBeyond
    <3>2. CASE k \notin DOMAIN objects
      <4>1. Len(Stored(k)) = 0
        BY <3>2 DEF Stored
      <4> HIDE DEF k, p
      <4> QED
        BY <1>1, <1>3, <2>1, <4>1
    <3> QED
      BY <3>1, <3>2
  <2>5. Len(objects'[k]) = Larger(Len(Stored(k)), At(o, j) + Len(PieceOf(o, d, j)))
    <3>1. objects'[k] = Overlay(Stored(k), At(o, j), PieceOf(o, d, j))
      BY <1>2
    <3> HIDE DEF k
    <3>2. At(o, j) \in Nat
      BY <2>1
    <3>3. /\ Overlay(Stored(k), At(o, j), PieceOf(o, d, j)) \in Seq(Bytes)
          /\ Len(Overlay(Stored(k), At(o, j), PieceOf(o, d, j)))
               = Larger(Len(Stored(k)), At(o, j) + Len(PieceOf(o, d, j)))
      BY <2>2, <2>3, <3>2, OverlayBytes
    <3> QED
      BY <3>1, <3>3
  <2> HIDE DEF k, p
  <2>6. p + Len(objects'[k]) <= size'
    BY <1>1, <1>3, <2>1, <2>2, <2>3, <2>4, <2>5 DEF Larger
  <2> QED
    BY <2>6 DEF k, p
<1>6. ASSUME NEW k \in DOMAIN objects', k \notin {ObjectOf(o, j) : j \in js}
      PROVE  ObjectSize * k + Len(objects'[k]) <= size'
  <2>1. k \in DOMAIN objects /\ objects'[k] = objects[k]
    BY <1>2, <1>6
  <2>2. ObjectSize * k + Len(objects[k]) <= size
    BY <2>1 DEF DataInv, NothingBeyond
  <2> QED
    BY <1>4, <2>1, <2>2
<1> QED
  BY <1>5, <1>6 DEF NothingBeyond


LEMMA FewerNothingBeyond ==
  ASSUME DataInv, DOMAIN objects' \subseteq DOMAIN objects,
         \A k \in DOMAIN objects' : objects'[k] = objects[k],
         size' \in Nat, size <= size'
  PROVE  NothingBeyond'
<1> SUFFICES ASSUME NEW k \in DOMAIN objects' PROVE ObjectSize * k + Len(objects'[k]) <= size'
  BY DEF NothingBeyond
<1>1. k \in DOMAIN objects /\ objects'[k] = objects[k]
  OBVIOUS
<1>2. ObjectSize * k + Len(objects[k]) <= size
  BY <1>1 DEF DataInv, NothingBeyond
<1>3. k \in Nat /\ Len(objects[k]) \in Nat /\ size \in Nat
  BY <1>1, TypeHasObjects, IndexAssumption, BoundsAssumption DEF DataInv, TypeOK, ObjectsOK, IsObject
<1>4. ObjectSize * k \in Nat
  BY <1>3, TimesMonotonic, ObjectSizeAssumption
<1> QED
  BY <1>1, <1>2, <1>3, <1>4

\* Nothing is truncated but to a longer file or to an empty one.
LEMMA TruncateKinds ==
  ASSUME "shrink" \notin Ops, NEW n, Kind(n) \in Ops PROVE n > size \/ n = 0
  BY DEF Kind

LEMMA NoObjectsNothingBeyond == DOMAIN objects = {} => NothingBeyond
  BY DEF NothingBeyond

\* An empty file has no objects left.
LEMMA EmptyHasNoObjects == ASSUME LeakInv', size' = 0 PROVE DOMAIN objects' = {}
  BY DEF LeakInv

LEMMA DataInvStep ==
  ASSUME OffsetsInRange, "shrink" \notin Ops, DataInv, [Next]_vars PROVE DataInv'
<1> USE BoundsAssumption
<1>a. TypeOK' /\ LeakInv'
  BY TypeStep, LeakInvStep, RangeIsSizes DEF DataInv
<1>b. size \in Nat /\ size' \in Nat
  BY <1>a DEF DataInv, TypeOK
<1>c. size' = 0 => NothingBeyond'
  BY <1>a, EmptyHasNoObjects DEF NothingBeyond
<1>1. ASSUME NEW d \in Data, NEW o \in 0 .. MaxSize - Len(d), Write(o, d) PROVE NothingBeyond'
  <2> DEFINE js == {j \in Iterations(o, Len(d)) : Accepted(IndexOf(o) + j)}
  <2>1. Grow(o + Len(d)) /\ objects' = Written(o, d, js)
    BY <1>1 DEF Write
  <2>2. js \subseteq Iterations(o, Len(d))
    OBVIOUS
  <2> HIDE DEF js
  <2> QED
    BY <2>1, <2>2, WriteNothingBeyond, Zenon
<1>2. ASSUME NEW d \in Data, NEW o \in 0 .. MaxSize - Len(d),
             NEW j \in Iterations(o, Len(d)), WriteFails(o, d, j)
      PROVE  NothingBeyond'
  <2>1. Grow(o + Len(d)) /\ objects' = Written(o, d, 0 .. j - 1)
    BY <1>2 DEF WriteFails
  <2>2. 0 .. j - 1 \subseteq Iterations(o, Len(d))
    BY DataLength, FirstIterations
  <2> QED
    BY <2>1, <2>2, WriteNothingBeyond, Zenon
<1>3. ASSUME NEW n \in 0 .. MaxSize, Truncate(n) PROVE NothingBeyond'
  <2>1. n > size \/ n = 0
    BY <1>3, TruncateKinds DEF Truncate
  <2>2. CASE n > size
    <3>1. objects' = objects /\ size' = n
      BY <1>3, <1>b, <2>2 DEF Truncate
    <3> QED
      BY <1>b, <2>2, <3>1, FewerNothingBeyond
  <2>3. CASE n = 0 /\ ~(n > size)
    <3>1. size' = 0
      <4>1. Accepted(IndexOf(size))
        BY IndexInRange, RangeIsSizes DEF DataInv, TypeOK
      <4> QED
        BY <1>3, <2>3, <4>1, Zenon DEF Truncate
    <3> QED
      BY <1>c, <3>1
  <2> QED
    BY <2>1, <2>2, <2>3
<1>4. ASSUME NEW n \in 0 .. MaxSize, NEW last \in 0 .. IndexOf(size), TruncateFails(n, last)
      PROVE  NothingBeyond'
  <2>1. objects' = Remaining(FirstIndex(n), last) /\ size' = size
    BY <1>4 DEF TruncateFails
  <2>2. ObjectsOK
    BY TypeHasObjects DEF DataInv
  <2> QED
    BY <1>b, <2>1, <2>2, RemainingObjects, FewerNothingBeyond
<1>5. ASSUME Flush PROVE NothingBeyond'
  BY <1>5 DEF Flush, DataInv, NothingBeyond
<1>6. ASSUME Reload PROVE NothingBeyond'
  <2>1. size' = size /\ objects' = objects
    BY <1>6 DEF Reload, DataInv, LeakInv, CleanIsRecorded
  <2> QED
    BY <2>1 DEF DataInv, NothingBeyond
<1>7. ASSUME Remove PROVE NothingBeyond'
  BY <1>7, <1>c DEF Remove
<1>8. ASSUME Create PROVE NothingBeyond'
  BY <1>8, <1>c DEF Create
<1>9. ASSUME UNCHANGED vars PROVE NothingBeyond'
  BY <1>9 DEF vars, DataInv, NothingBeyond
<1>10. NothingBeyond'
  BY <1>1, <1>2, <1>3, <1>4, <1>5, <1>6, <1>7, <1>8, <1>9 DEF Next
<1> QED
  BY <1>a, <1>10 DEF DataInv

LEMMA DataInvInit == Init => DataInv
<1>1. Init => NothingBeyond
  BY DEF Init, NoObjects, NothingBeyond
<1> QED
  BY <1>1, TypeInit, LeakInvInit DEF DataInv


-----------------------------------------------------------------------------
(* The steps.                                                              *)

\* Steps that leave the size and the bytes before it as they are.
LEMMA SameContent ==
  ASSUME DataInv, size' = size, \A p \in 1 .. size : CellAt(p - 1)' = CellAt(p - 1)
  PROVE  Content' = Content
  BY ContentIsCells

\* The first m iterations of a write write its bytes before iteration m.
LEMMA WriteBytes ==
  ASSUME OffsetsInRange, DataInv, NEW d \in Data, NEW o \in 0 .. MaxSize - Len(d),
         NEW js, js \subseteq Iterations(o, Len(d)), NEW w \in 0 .. Len(d),
         Grow(o + Len(d)), objects' = Written(o, d, js), DataInv',
         \A q \in 0 .. MaxSize - 1 :
           (\E j \in js : q \div ObjectSize = ObjectOf(o, j)) /\ q \in o .. o + Len(d) - 1
             <=> q \in o .. o + w - 1
  PROVE  Content' = [p \in 1 .. Abstract!Longer(Len(Content), o + Len(d)) |->
                       IF p \in o + 1 .. o + w THEN d[p - o] ELSE Abstract!ByteOf(p)]
<1>1. Len(d) \in Nat \ {0} /\ o \in Nat /\ o + Len(d) <= MaxSize /\ MaxSize \in Nat
  BY DataIsSeq, BoundsAssumption
<1>2. size' \in 0 .. MaxSize /\ size' = Abstract!Longer(Len(Content), o + Len(d))
  <2>1. Len(Content) = size
    BY ContentLength
  <2>2. size' = Larger(size, o + Len(d))
    BY Zenon DEF Grow
  <2> QED
    BY <2>1, <2>2 DEF DataInv, TypeOK, Larger, Abstract!Longer
<1>3. ASSUME NEW p \in 1 .. size'
      PROVE  CellAt(p - 1)' = IF p \in o + 1 .. o + w THEN d[p - o] ELSE Abstract!ByteOf(p)
  <2>1. p \in 1 .. MaxSize /\ p - 1 \in Nat /\ p - 1 < MaxSize /\ p - 1 \in 0 .. MaxSize - 1
    BY <1>1, <1>2
  <2>2. ObjectsOK
    BY TypeHasObjects DEF DataInv
  <2>3. CellAt(p - 1)' = IF (\E j \in js : (p - 1) \div ObjectSize = ObjectOf(o, j))
                              /\ p - 1 \in o .. o + Len(d) - 1
                           THEN d[(p - 1) - o + 1] ELSE CellAt(p - 1)
    BY <1>1, <2>1, <2>2, WrittenCells, Zenon
  <2>4. (\E j \in js : (p - 1) \div ObjectSize = ObjectOf(o, j)) /\ p - 1 \in o .. o + Len(d) - 1
          <=> p - 1 \in o .. o + w - 1
    BY <2>1, Zenon
  <2>5. p - 1 \in o .. o + w - 1 <=> p \in o + 1 .. o + w
    BY <1>1, <2>1
  <2>6. (p - 1) - o + 1 = p - o
    BY <1>1, <2>1
  <2>7. Abstract!ByteOf(p) = CellAt(p - 1)
    BY <2>1, ByteOfIsCell
  <2> QED
    BY <2>3, <2>4, <2>5, <2>6, <2>7, Zenon
<1>4. Content' = [p \in 1 .. size' |-> CellAt(p - 1)']
  BY ContentIsCells
<1> QED
  BY <1>2, <1>3, <1>4


LEMMA WriteRefines ==
  ASSUME OffsetsInRange, DataInv, DataInv', NEW d \in Data, NEW o \in 0 .. MaxSize - Len(d), Write(o, d)
  PROVE  Abstract!Write(o, d)
<1> DEFINE js == {j \in Iterations(o, Len(d)) : Accepted(IndexOf(o) + j)}
<1>1. Len(d) \in Nat \ {0} /\ o \in Nat /\ o + Len(d) <= MaxSize
  BY DataLength, BoundsAssumption
<1>2. Grow(o + Len(d)) /\ objects' = Written(o, d, js) /\ js \subseteq Iterations(o, Len(d))
  BY Zenon DEF Write
<1>3. ASSUME NEW q \in o .. o + Len(d) - 1 PROVE \E j \in js : q \div ObjectSize = ObjectOf(o, j)
  <2>1. PICK j \in Iterations(o, Len(d)) : q \div ObjectSize = ObjectOf(o, j)
    BY <1>1, AllObjects, Zenon
  <2>2. IndexOf(o) + j = (o \div ObjectSize) + j /\ (o \div ObjectSize) + j \in 0 .. IndexLimit - 1
    BY <1>1, KeyOfIteration, Zenon
  <2> DEFINE i == IndexOf(o) + j
  <2>3. i \in 0 .. IndexLimit - 1
    BY <2>2, Zenon
  <2> HIDE DEF i
  <2>4. Accepted(i)
    BY <2>3, IndexAssumption DEF Accepted
  <2> QED
    BY <2>1, <2>4 DEF i
<1> HIDE DEF js
<1>4. \A q \in 0 .. MaxSize - 1 :
        (\E j \in js : q \div ObjectSize = ObjectOf(o, j)) /\ q \in o .. o + Len(d) - 1
          <=> q \in o .. o + Len(d) - 1
  BY <1>3, Zenon
<1>5. Len(d) \in 0 .. Len(d)
  BY <1>1
<1> QED
  BY <1>2, <1>4, <1>5, WriteBytes, Zenon DEF Abstract!Write

LEMMA WriteFailsRefines ==
  ASSUME OffsetsInRange, DataInv, DataInv', NEW d \in Data, NEW o \in 0 .. MaxSize - Len(d),
         NEW j \in Iterations(o, Len(d)), WriteFails(o, d, j)
  PROVE  Abstract!FailWrite(o, d)
<1>1. Len(d) \in Nat \ {0} /\ o \in Nat
  BY DataLength
<1>2. /\ Grow(o + Len(d)) /\ objects' = Written(o, d, 0 .. j - 1)
      /\ 0 .. j - 1 \subseteq Iterations(o, Len(d))
  BY <1>1, FirstIterations DEF WriteFails
<1>3. From(o, j) \in 0 .. Len(d)
  <2>1. From(o, j) \in 0 .. Len(d) - 1
    BY <1>1, Iteration
  <2> QED
    BY <1>1, <2>1
<1>4. \A q \in 0 .. MaxSize - 1 :
        (\E m \in 0 .. j - 1 : q \div ObjectSize = ObjectOf(o, m)) /\ q \in o .. o + Len(d) - 1
          <=> q \in o .. o + From(o, j) - 1
  <2> SUFFICES ASSUME NEW q \in 0 .. MaxSize - 1
               PROVE  (\E m \in 0 .. j - 1 : q \div ObjectSize = ObjectOf(o, m))
                        /\ q \in o .. o + Len(d) - 1
                      <=> q \in o .. o + From(o, j) - 1
    BY Zenon
  <2>1. q \in Nat
    BY BoundsAssumption
  <2> QED
    BY <1>1, <2>1, FirstObjects, Zenon
<1> QED
  BY <1>2, <1>3, <1>4, WriteBytes, Zenon DEF Abstract!FailWrite

\* A longer file has zeros at its end, an empty one has nothing.
LEMMA TruncateRefines ==
  ASSUME OffsetsInRange, "shrink" \notin Ops, DataInv, DataInv', NEW n \in 0 .. MaxSize, Truncate(n)
  PROVE  Abstract!Resize(n)
<1>1. n > size \/ n = 0
  BY TruncateKinds DEF Truncate
<1>2. size \in Nat /\ MaxSize \in Nat
  BY BoundsAssumption DEF DataInv, TypeOK
<1>3. size' = n
  <2>1. Accepted(IndexOf(size))
    BY IndexInRange, RangeIsSizes DEF DataInv, TypeOK
  <2> QED
    BY <2>1, Zenon DEF Truncate
<1>4. Content' = [p \in 1 .. n |-> CellAt(p - 1)']
  BY <1>3, ContentIsCells
<1>5. ASSUME NEW p \in 1 .. n PROVE CellAt(p - 1)' = Abstract!ByteOf(p)
  <2>1. objects' = objects
    BY <1>1, <1>2, <1>5 DEF Truncate
  <2>2. CellAt(p - 1)' = CellAt(p - 1)
    BY <2>1 DEF CellAt, Stored, ByteIn
  <2>3. p \in 1 .. MaxSize
    BY <1>2
  <2> QED
    BY <2>2, <2>3, ByteOfIsCell
<1> QED
  BY <1>4, <1>5 DEF Abstract!Resize

LEMMA TruncateFailsRefines ==
  ASSUME OffsetsInRange, "shrink" \notin Ops, DataInv, DataInv',
         NEW n \in 0 .. MaxSize, NEW last, TruncateFails(n, last)
  PROVE  Abstract!FailResize(n)
<1>1. n = 0
  <2>1. size \in Nat /\ n \in Nat /\ n < size
    BY BoundsAssumption DEF DataInv, TypeOK, TruncateFails
  <2> QED
    BY <2>1, TruncateKinds DEF TruncateFails
<1>2. size' = size /\ size \in Nat /\ size <= MaxSize /\ MaxSize \in Nat
  BY BoundsAssumption DEF DataInv, TypeOK, TruncateFails
<1>3. \A k \in DOMAIN objects' : k \in DOMAIN objects /\ objects'[k] = objects[k]
  BY DEF TruncateFails, Remaining
<1>4. Len(Content') = size /\ Len(Content) = size
  <2>1. Len(Content') = size'
    <3>1. Content' \in [1 .. size' -> {CellAt(p - 1)' : p \in 1 .. size'}] /\ size' \in Nat
      BY <1>2, ContentIsCells
    <3> QED
      BY <3>1, FunctionIsSeq
  <2> QED
    BY <1>2, <2>1, ContentLength
<1>5. ASSUME NEW p \in 1 .. size PROVE Content'[p] = Content[p] \/ (p > n /\ Content'[p] = 0)
  <2>1. p - 1 \in Nat /\ p - 1 < MaxSize /\ p > n
    BY <1>1, <1>2
  <2>2. Content'[p] = CellAt(p - 1)' /\ Content[p] = CellAt(p - 1)
    BY <1>2, ContentIsCells
  <2> DEFINE k == (p - 1) \div ObjectSize
             i == ((p - 1) % ObjectSize) + 1
  <2>3. CellAt(p - 1)' = ByteIn(Stored(k)', i) /\ CellAt(p - 1) = ByteIn(Stored(k), i)
    BY <2>1, CellOf
  <2>4. i \in Nat \ {0}
    BY <2>1, Position, ObjectSizeAssumption
  <2> HIDE DEF k, i
  <2>5. Stored(k)' = Stored(k) \/ Stored(k)' = << >>
    BY <1>3 DEF Stored
  <2>6. ByteIn(<< >>, i) = 0
    BY <2>4 DEF ByteIn
  <2> QED
    BY <2>1, <2>2, <2>3, <2>5, <2>6
<1> QED
  BY <1>4, <1>5 DEF Abstract!FailResize

\* A removed file is an empty one.
LEMMA RemoveRefines == ASSUME OffsetsInRange, DataInv, Remove PROVE Abstract!Resize(0)
<1>1. size' = 0
  BY Zenon DEF Remove
<1>2. Content' = [p \in 1 .. 0 |-> CellAt(p - 1)']
  BY <1>1, ContentIsCells
<1> QED
  BY <1>2 DEF Abstract!Resize

\* Every step of FileData is one of ByteFile or leaves the bytes as they are.
LEMMA StepRefines ==
  ASSUME OffsetsInRange, "shrink" \notin Ops, DataInv, DataInv', [Next]_vars
  PROVE  [Abstract!Next]_Content
<1>1. ASSUME NEW d \in Data, NEW o \in 0 .. MaxSize - Len(d),
             Abstract!Write(o, d) \/ Abstract!FailWrite(o, d)
      PROVE  Abstract!Next
  <2>1. Len(d) \in 1 .. MaxWrite /\ d \in [1 .. Len(d) -> Bytes]
    BY DataIsSeq
  <2> QED
    BY <1>1, <2>1, Zenon DEF Abstract!Next
<1>2. ASSUME NEW n \in 0 .. MaxSize, Abstract!Resize(n) \/ Abstract!FailResize(n)
      PROVE  Abstract!Next
  BY <1>2, Zenon DEF Abstract!Next
<1>3. ASSUME NEW d \in Data, NEW o \in 0 .. MaxSize - Len(d), Write(o, d) PROVE Abstract!Next
  BY <1>1, <1>3, WriteRefines, Zenon
<1>4. ASSUME NEW d \in Data, NEW o \in 0 .. MaxSize - Len(d),
             NEW j \in Iterations(o, Len(d)), WriteFails(o, d, j)
      PROVE  Abstract!Next
  BY <1>1, <1>4, WriteFailsRefines, Zenon
<1>5. ASSUME NEW n \in 0 .. MaxSize, Truncate(n) PROVE Abstract!Next
  BY <1>2, <1>5, TruncateRefines, Zenon
<1>6. ASSUME NEW n \in 0 .. MaxSize, NEW last \in 0 .. IndexOf(size), TruncateFails(n, last)
      PROVE  Abstract!Next
  BY <1>2, <1>6, TruncateFailsRefines, Zenon
<1>7. ASSUME Flush PROVE Content' = Content
  <2>1. size' = size /\ objects' = objects
    BY <1>7 DEF Flush
  <2> QED
    BY <2>1 DEF Content, Stored
<1>8. ASSUME Reload PROVE Content' = Content
  <2>1. size' = size /\ objects' = objects
    BY <1>8 DEF Reload, DataInv, LeakInv, CleanIsRecorded
  <2> QED
    BY <2>1 DEF Content, Stored
<1>9. ASSUME Remove PROVE Abstract!Next
  <2>1. 0 \in 0 .. MaxSize
    BY BoundsAssumption
  <2> QED
    BY <1>2, <1>9, <2>1, RemoveRefines, Zenon
<1>10. ASSUME Create PROVE Content' = Content
  <2>1. size = 0 /\ size' = 0
    BY <1>10 DEF Create, DataInv, LeakInv
  <2> QED
    BY <2>1 DEF Content
<1>11. ASSUME UNCHANGED vars PROVE Content' = Content
  BY <1>11 DEF vars, Content, Stored
<1> QED
  BY <1>3, <1>4, <1>5, <1>6, <1>7, <1>8, <1>9, <1>10, <1>11 DEF Next

LEMMA InitRefines == Init => Abstract!Init
  BY DEF Init, Content, Abstract!Init

\* While offsets stay where every object has a key of its own and no file is
\* truncated to a shorter one that is not empty, the objects, partial and failed
\* writes, failed truncates, flushes and reloads of nmfs implement a sequence of
\* bytes.
THEOREM ImplementsByteFile ==
  ASSUME OffsetsInRange, "shrink" \notin Ops PROVE Spec => RefinesByteFile
<1>1. Init => DataInv
  BY DataInvInit
<1>2. DataInv /\ [Next]_vars => DataInv'
  BY DataInvStep
<1>3. Init => Abstract!Init
  BY InitRefines
<1>4. DataInv /\ DataInv' /\ [Next]_vars => [Abstract!Next]_Content
  BY StepRefines
<1> QED
  BY <1>1, <1>2, <1>3, <1>4, PTL DEF Spec, RefinesByteFile, Abstract!Spec


-----------------------------------------------------------------------------
(* Reading.                                                                *)

\* The byte of the object that read takes for byte p of the buffer.
LEMMA ReadPosition ==
  ASSUME NEW o \in Nat, NEW p \in Nat \ {0}, NEW j,
         j = ((o + p - 1) \div ObjectSize) - (o \div ObjectSize)
  PROVE  At(o, j) + p - From(o, j) = ((o + p - 1) % ObjectSize) + 1
<1> DEFINE q == o + p - 1
           b == o \div ObjectSize
           c == q \div ObjectSize
           r == q % ObjectSize
           s == o % ObjectSize
<1>1. q \in Nat /\ o <= q
  OBVIOUS
<1>2. /\ q = ObjectSize * c + r /\ r \in Nat /\ c \in Nat /\ ObjectSize * c \in Nat
      /\ o = ObjectSize * b + s /\ s \in Nat /\ b \in Nat /\ ObjectSize * b \in Nat
  BY <1>1, Position, ObjectSizeAssumption
<1>3. b <= c
  BY <1>1, DivMonotonic, ObjectSizeAssumption
<1>4. j = c - b /\ j \in Nat
  BY <1>2, <1>3
<1>5. /\ At(o, j) = IF j = 0 THEN s ELSE 0
      /\ From(o, j) = IF j = 0 THEN 0 ELSE j * ObjectSize - s
  BY DEF At, From
<1>6. ObjectSize * c = ObjectSize * b + j * ObjectSize /\ j * ObjectSize \in Nat
  <2> HIDE DEF b, c
  <2>1. c = b + j
    BY <1>2, <1>4
  <2>2. ObjectSize * (b + j) = ObjectSize * b + ObjectSize * j
    BY <1>2, <1>4, Distribute, ObjectSizeAssumption
  <2>3. ObjectSize * j = j * ObjectSize /\ ObjectSize * j \in Nat
    BY <1>4, ObjectSizeAssumption, SMT
  <2> QED
    BY <2>1, <2>2, <2>3
<1>7. p = (q - o) + 1
  BY <1>1
<1> HIDE DEF q, b, c, r, s
<1>8. At(o, j) + p - From(o, j) = r + 1
  <2>1. CASE j = 0
    BY <1>1, <1>2, <1>4, <1>5, <1>6, <1>7, <2>1
  <2>2. CASE j # 0
    BY <1>1, <1>2, <1>4, <1>5, <1>6, <1>7, <2>2
  <2> QED
    BY <2>1, <2>2
<1> QED
  BY <1>8 DEF r, q

LEMMA ReadByte ==
  ASSUME OffsetsInRange, NEW o \in Nat, NEW p \in Nat \ {0}, o + p <= MaxSize, NEW j,
         j = ((o + p - 1) \div ObjectSize) - (o \div ObjectSize)
  PROVE  CellAt(o + p - 1) = ByteIn(Stored(KeyIndex(IndexOf(o) + j)), At(o, j) + p - From(o, j))
<1> DEFINE q == o + p - 1
<1>1. q \in Nat /\ q < MaxSize /\ o < MaxSize
  BY BoundsAssumption
<1>2. IndexOf(o) = o \div ObjectSize /\ IndexOf(q) = q \div ObjectSize
  BY <1>1, KeyOfPosition
<1>3. o \div ObjectSize \in Nat /\ q \div ObjectSize \in Nat
  BY <1>1, Position
<1>4. IndexOf(o) + j = IndexOf(q)
  BY <1>2, <1>3
<1>5. At(o, j) + p - From(o, j) = (q % ObjectSize) + 1
  BY ReadPosition, Zenon
<1> HIDE DEF q
<1>6. CellAt(q) = ByteIn(Stored(KeyIndex(IndexOf(o) + j)), At(o, j) + p - From(o, j))
  BY <1>4, <1>5, Zenon DEF CellAt
<1> QED
  BY <1>6 DEF q


LEMMA SubSeqFrom ==
  ASSUME NEW S, NEW s \in Seq(S), NEW a \in Nat, NEW e \in Nat, a <= e, e <= Len(s)
  PROVE  SubSeq(s, a + 1, e) = [p \in 1 .. e - a |-> s[a + p]]
  OBVIOUS

LEMMA WrapsOnce ==
  ASSUME NEW m \in Nat \ {0}, NEW r \in 0 .. m - 1 PROVE r % m = r /\ (r + m) % m = r
  BY SMTT(30)

\* Up to the size a read is cut at the size; from beyond, it is longer than asked.
LEMMA ReadSizes ==
  ASSUME TypeOK, NEW o \in 0 .. MaxSize, NEW n \in 1 .. MaxSize
  PROVE  /\ o <= size => ReadSize(o, n) = IF o + n > size THEN size - o ELSE n
         /\ o > size => ReadSize(o, n) > n
<1>1. size \in Nat /\ size <= MaxSize /\ MaxSize \in Nat /\ SizeMod \in Nat /\ SizeMod > 2 * MaxSize
  BY BoundsAssumption, SizeAssumption DEF TypeOK
<1>2. CASE o <= size
  <2>1. /\ size + SizeMod - o = (size - o) + SizeMod
        /\ SizeMod \in Nat \ {0} /\ size - o \in 0 .. SizeMod - 1
    BY <1>1, <1>2
  <2>2. (size + SizeMod - o) % SizeMod = size - o
    BY <2>1, WrapsOnce
  <2> QED BY <1>1, <1>2, <2>2 DEF ReadSize
<1>3. CASE o > size
  <2>1. /\ SizeMod \in Nat \ {0} /\ size + SizeMod - o \in 0 .. SizeMod - 1
        /\ size + SizeMod - o > n /\ o + n > size
    BY <1>1, <1>3
  <2>2. (size + SizeMod - o) % SizeMod = size + SizeMod - o
    BY <2>1, WrapsOnce
  <2> QED BY <1>1, <1>3, <2>1, <2>2 DEF ReadSize
<1> QED BY <1>1, <1>2, <1>3

LEMMA ReadsExactly ==
  ASSUME OffsetsInRange, TypeOK PROVE ReadsAreExact
<1>0. ASSUME NEW o \in 0 .. MaxSize, NEW n \in 1 .. MaxSize, ~(o <= size)
      PROVE  ReadSize(o, n) > n
  <2>1. o > size
    BY <1>0, BoundsAssumption DEF TypeOK
  <2> QED BY <2>1, ReadSizes
<1> SUFFICES ASSUME NEW o \in 0 .. size, NEW n \in 1 .. MaxSize
             PROVE  Read(o, n) = SubSeq(Content, o + 1, Smaller(o + n, size))
  BY <1>0, BoundsAssumption DEF ReadsAreExact, TypeOK
<1> DEFINE e == Smaller(o + n, size)
           j(p) == ((o + p - 1) \div ObjectSize) - (o \div ObjectSize)
<1>1. size \in Nat /\ size <= MaxSize /\ MaxSize \in Nat /\ o \in Nat /\ o <= size /\ n \in Nat
  BY BoundsAssumption DEF TypeOK
<1>2. e \in Nat /\ o <= e /\ e <= size
  BY <1>1 DEF Smaller
<1>3. Read(o, n) = [p \in 1 .. e - o |->
                      ByteIn(Stored(KeyIndex(IndexOf(o) + j(p))), At(o, j(p)) + p - From(o, j(p)))]
  <2>1. o \in 0 .. MaxSize
    BY <1>1
  <2>2. e - o = ReadSize(o, n)
    BY <1>1, <2>1, ReadSizes DEF Smaller
  <2> HIDE DEF e
  <2> QED
    BY <2>2 DEF Read, ByteIn
<1>4. ASSUME NEW p \in 1 .. e - o
      PROVE  CellAt(o + p - 1)
               = ByteIn(Stored(KeyIndex(IndexOf(o) + j(p))), At(o, j(p)) + p - From(o, j(p)))
  <2>1. p \in Nat \ {0} /\ o + p <= MaxSize /\ o \in Nat
    BY <1>1, <1>2
  <2> QED
    BY <2>1, ReadByte, Zenon
<1> HIDE DEF e, j
<1>5. Read(o, n) = [p \in 1 .. e - o |-> CellAt(o + p - 1)]
  BY <1>3, <1>4, Zenon
<1>6. ASSUME NEW p \in 1 .. e - o PROVE Content[o + p] = CellAt(o + p - 1)
  <2>1. o + p \in 1 .. size
    BY <1>1, <1>2
  <2> QED
    BY <2>1, ContentIsCells
<1>7. SubSeq(Content, o + 1, e) = [p \in 1 .. e - o |-> Content[o + p]]
  <2>1. Content \in [1 .. size -> {CellAt(p - 1) : p \in 1 .. size}]
    BY ContentIsCells
  <2>2. Content \in Seq({CellAt(p - 1) : p \in 1 .. size}) /\ Len(Content) = size
    BY <1>1, <2>1, FunctionIsSeq
  <2> QED
    BY <1>1, <1>2, <2>2, SubSeqFrom
<1> QED
  BY <1>5, <1>6, <1>7 DEF e

\* read copies the bytes of the file for every length and every offset up to the size;
\* from every offset beyond it, it copies more than was asked for, the difference of two
\* size_t being wrapped around (metadata.impl.hpp:163-165).
THEOREM ReadsReturnTheFile == ASSUME OffsetsInRange PROVE Spec => []ReadsAreExact
<1>1. Init => TypeOK
  BY TypeInit
<1>2. TypeOK /\ [Next]_vars => TypeOK'
  BY TypeStep
<1>3. TypeOK => ReadsAreExact
  BY ReadsExactly
<1> QED
  BY <1>1, <1>2, <1>3, PTL DEF Spec

=============================================================================
