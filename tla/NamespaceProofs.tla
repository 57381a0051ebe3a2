-------------------------- MODULE NamespaceProofs --------------------------
(***************************************************************************)
(* Namespace keeps its promises for any tree of paths, any identities and  *)
(* any interleaving of handlers, background worker, remounts, crashes and  *)
(* failing calls of the backend; of the renames only those of a file to a  *)
(* new name are covered.                                                   *)
(***************************************************************************)
EXTENDS Namespace, SequenceTheorems, TLAPS

-----------------------------------------------------------------------------
(* The invariant.                                                          *)

Calm == Ops \cap {"fail", "crash"} = {}
NoFailures == "fail" \notin Ops

AllPaths == DirPaths \cup FilePaths

MetadataType == [kind : {"file", "dir"}, id : Ids, sized : BOOLEAN, dirty : BOOLEAN,
                 count : Int, expired : BOOLEAN]
RecordType == [id : Ids, sized : BOOLEAN]

\* What a directory of path d may contain.
IsContent(d, e) ==
  /\ e \in [DOMAIN e -> EntryType]
  /\ \A n \in DOMAIN e : \E p \in Paths :
       Parent(p) = d /\ Name(p) = n /\ (e[n].kind = "dir" => p \in DirPaths)

MetadataOK(s) ==
  /\ s.mc \in [DOMAIN s.mc -> MetadataType] /\ DOMAIN s.mc \subseteq AllPaths
  /\ \A p \in DOMAIN s.mc : s.mc[p].kind = "dir" => p \in DirPaths
  /\ Root \in DOMAIN s.mc => s.mc[Root].kind = "dir"
DirectoryType(e) == [entries : {e}, dirty : BOOLEAN]
DirectoriesOK(s) ==
  /\ s.dc = [p \in DOMAIN s.dc |-> s.dc[p]]
  /\ \A p \in DOMAIN s.dc : s.dc[p] \in DirectoryType(s.dc[p].entries)
  /\ \A p \in DOMAIN s.dc :
       p \in DirPaths /\ s.dc[p].dirty \in BOOLEAN /\ IsContent(p, s.dc[p].entries)
RecordsOK(s) ==
  /\ s.dmeta \in [DOMAIN s.dmeta -> RecordType] /\ DOMAIN s.dmeta \subseteq DirPaths
  /\ s.fmeta \subseteq Ids
DataOK(s) ==
  /\ s.data = [p \in DOMAIN s.data |-> s.data[p]]
  /\ \A p \in DOMAIN s.data : p \in DirPaths /\ IsContent(p, s.data[p])

\* The caches and the backend fit together.
DirectoriesCached(s) == \A p \in DOMAIN s.dc : p \in DOMAIN s.mc /\ s.mc[p].kind = "dir"
CleanIsStored(s) ==
  \A p \in DOMAIN s.dc : ~s.dc[p].dirty =>
    /\ s.mc[p].sized
    /\ s.dc[p].entries = IF p \in DOMAIN s.data THEN s.data[p] ELSE NoEntries
CleanIsRecorded(s) ==
  \A p \in DOMAIN s.mc : ~s.mc[p].dirty =>
    IF s.mc[p].kind = "dir"
      THEN /\ p \in DOMAIN s.dmeta
           /\ s.dmeta[p].id = s.mc[p].id /\ s.dmeta[p].sized = s.mc[p].sized
      ELSE s.mc[p].id \in s.fmeta
EntriesMatch(s) ==
  \A p \in Paths : p \in DOMAIN s.mc /\ Listed(s, p) =>
    /\ Listing(s, p).kind = s.mc[p].kind
    /\ s.mc[p].kind = "file" => Listing(s, p).id = s.mc[p].id

\* Where the object of identity i is kept; a directory's stored entries do not count
\* while newer ones are cached, unless a crash may uncover them.
CachedAt(s, i, p) ==
  \/ p \in DOMAIN s.mc /\ s.mc[p].id = i
  \/ p \in DOMAIN s.dmeta /\ s.dmeta[p].id = i
EntryAt(s, i, p) ==
  LET d == Parent(p) IN
  \/ d \in DOMAIN s.dc /\ Name(p) \in DOMAIN s.dc[d].entries /\ s.dc[d].entries[Name(p)].id = i
  \/ /\ d \in DOMAIN s.data /\ Name(p) \in DOMAIN s.data[d] /\ s.data[d][Name(p)].id = i
     /\ d \notin DOMAIN s.dc \/ ~Calm
At(s, i, p) == CachedAt(s, i, p) \/ (p \in Paths /\ EntryAt(s, i, p))

\* One object, one path; an operation that is under way may except the paths of X.
OnePath(s, X) ==
  \A i \in Ids, p, q \in AllPaths :
    At(s, i, p) /\ At(s, i, q) => p = q \/ (p \in X /\ q \in X)

\* Without failing calls a size means data.
SizesStored(s) ==
  /\ \A p \in DOMAIN s.mc : s.mc[p].kind = "dir" /\ s.mc[p].sized => p \in DOMAIN s.data
  /\ \A p \in DOMAIN s.dmeta : s.dmeta[p].sized => p \in DOMAIN s.data

\* Without failing calls and crashes what is kept has an entry, and an entry has what
\* it names.
Unused(s, p) == p \notin DOMAIN s.mc /\ p \notin DOMAIN s.dmeta
LinkedAt(s, p) ==
  /\ ~Listed(s, p) => Unused(s, p)
  /\ Listed(s, p) =>
       IF Listing(s, p).kind = "dir" THEN p \in DOMAIN s.mc \/ p \in DOMAIN s.dmeta
       ELSE /\ p \in DOMAIN s.mc \/ Listing(s, p).id \in s.fmeta
            /\ p \notin DOMAIN s.dmeta
Linked(s, X) == \A p \in Paths \ X : LinkedAt(s, p)
DataNamed(s) ==
  \A p \in DOMAIN s.data :
    IF p \in DOMAIN s.mc THEN s.mc[p].kind = "dir" /\ s.mc[p].sized
    ELSE p \in DOMAIN s.dmeta /\ s.dmeta[p].sized

Sound(s) ==
  /\ MetadataOK(s) /\ DirectoriesOK(s) /\ RecordsOK(s) /\ DataOK(s)
  /\ DirectoriesCached(s) /\ CleanIsStored(s) /\ CleanIsRecorded(s) /\ EntriesMatch(s)
  /\ NoFailures => SizesStored(s)
  /\ Calm => DataNamed(s)

Good(s, X) == Sound(s) /\ OnePath(s, X) /\ (Calm => Linked(s, X))

\* Reference counts, if no removal fails; Y are the directories being read.
Counted(s, Y) ==
  \A p \in DOMAIN s.mc :
    s.mc[p].count \in Counts /\ (s.mc[p].kind = "dir" /\ p \notin Y => p \in DOMAIN s.dc)

IInv ==
  /\ Good(State, {})
  /\ NoFailures => Counted(State, {})
  /\ ~mounted => mc = NoEntries /\ dc = NoEntries
  /\ Calm /\ mounted => Root \in DOMAIN mc \/ Root \in DOMAIN dmeta
  /\ mounted \in BOOLEAN /\ undefined \in BOOLEAN

-----------------------------------------------------------------------------
(* Paths.  Only these facts about them are used below.                     *)

\* A path that is not the root is its parent's path and a name.
LEMMA PathSplits ==
  ASSUME NEW p \in Paths
  PROVE  /\ p \in Seq(STRING) /\ p # <<>> /\ Len(p) \in Nat \ {0}
         /\ Parent(p) = SubSeq(p, 1, Len(p) - 1)
         /\ Parent(p) \in DirPaths /\ Parent(p) \in Seq(STRING)
         /\ Len(Parent(p)) = Len(p) - 1
         /\ \A i \in 1 .. Len(p) - 1 : Parent(p)[i] = p[i]
         /\ Name(p) = p[Len(p)] /\ Name(p) \in STRING
<1>1. p \in Seq(STRING) /\ \A k \in 0 .. Len(p) - 1 : SubSeq(p, 1, k) \in DirPaths
  BY PathsAssumption
<1>2. p # <<>>
  BY DEF Paths, Root
<1>3. Len(p) \in Nat \ {0} /\ p \in [1 .. Len(p) -> STRING]
  BY <1>1, <1>2, LenProperties, EmptySeq
<1>4. Parent(p) = SubSeq(p, 1, Len(p) - 1) /\ Name(p) = p[Len(p)]
  BY DEF Parent, Name, Front, Last
<1>5. /\ SubSeq(p, 1, Len(p) - 1) \in Seq(STRING)
      /\ Len(SubSeq(p, 1, Len(p) - 1)) = IF 1 <= Len(p) - 1 THEN Len(p) - 1 - 1 + 1 ELSE 0
      /\ \A i \in 1 .. Len(p) - 1 - 1 + 1 : SubSeq(p, 1, Len(p) - 1)[i] = p[1 + i - 1]
  <2>1. \A i \in 1 .. Len(p) - 1 : p[i] \in STRING
    BY <1>3
  <2> QED
    BY <1>3, <2>1, SubSeqProperties
<1>6. Len(p) - 1 \in 0 .. Len(p) - 1
  BY <1>3
<1>7. SubSeq(p, 1, Len(p) - 1) \in DirPaths
  BY <1>1, <1>6
<1>8. /\ Len(Parent(p)) = Len(p) - 1
      /\ \A i \in 1 .. Len(p) - 1 : Parent(p)[i] = p[i]
  <2>1. \A i \in 1 .. Len(p) - 1 : 1 + i - 1 = i /\ i \in 1 .. Len(p) - 1 - 1 + 1
    BY <1>3
  <2> QED
    BY <1>3, <1>4, <1>5, <2>1
<1> QED
  BY <1>1, <1>2, <1>3, <1>4, <1>5, <1>7, <1>8

\* Two sequences of strings that agree everywhere are one.
LEMMA SameSequence ==
  ASSUME NEW p \in Seq(STRING), NEW q \in Seq(STRING), Len(p) = Len(q),
         \A i \in 1 .. Len(p) : p[i] = q[i]
  PROVE  p = q
  BY SeqEqual

\* Parent and name determine the path.
LEMMA PathUnique ==
  ASSUME NEW p \in Paths, NEW q \in Paths, Parent(p) = Parent(q), Name(p) = Name(q)
  PROVE  p = q
<1>1. Len(p) = Len(q) /\ Len(p) \in Nat \ {0}
  BY PathSplits
<1>2. ASSUME NEW i \in 1 .. Len(p)
      PROVE  p[i] = q[i]
  <2>1. CASE i = Len(p)
    BY <1>1, <2>1, PathSplits
  <2>2. CASE i # Len(p)
    <3>1. i \in 1 .. Len(p) - 1
      BY <1>1, <2>2
    <3> QED
      BY <1>1, <3>1, PathSplits
  <2> QED
    BY <2>1, <2>2
<1> QED
  BY <1>1, <1>2, PathSplits, SameSequence

\* IsPrefix says that the sequences agree as long as the first one lasts.
LEMMA PrefixMeans ==
  ASSUME NEW q \in Seq(STRING), NEW p \in Seq(STRING)
  PROVE  IsPrefix(q, p) <=> Len(q) <= Len(p) /\ \A i \in 1 .. Len(q) : q[i] = p[i]
<1>1. Len(q) \in Nat /\ Len(p) \in Nat /\ q \in [1 .. Len(q) -> STRING]
      /\ p \in [1 .. Len(p) -> STRING]
  BY LenProperties
<1>2. SubSeq(q, 1, Len(q)) = q
  BY SubSeqFull
<1>3. ASSUME Len(q) <= Len(p)
      PROVE  /\ SubSeq(p, 1, Len(q)) \in Seq(STRING)
             /\ Len(SubSeq(p, 1, Len(q))) = Len(q)
             /\ \A i \in 1 .. Len(q) : SubSeq(p, 1, Len(q))[i] = p[i]
  <2>1. \A i \in 1 .. Len(q) : p[i] \in STRING
    BY <1>1, <1>3
  <2>2. /\ SubSeq(p, 1, Len(q)) \in Seq(STRING)
        /\ Len(SubSeq(p, 1, Len(q))) = IF 1 <= Len(q) THEN Len(q) - 1 + 1 ELSE 0
        /\ \A i \in 1 .. Len(q) - 1 + 1 : SubSeq(p, 1, Len(q))[i] = p[1 + i - 1]
    BY <1>1, <2>1, SubSeqProperties
  <2>3. \A i \in 1 .. Len(q) : 1 + i - 1 = i /\ i \in 1 .. Len(q) - 1 + 1
    BY <1>1
  <2> QED
    BY <1>1, <2>2, <2>3
<1>4. ASSUME IsPrefix(q, p)
      PROVE  Len(q) <= Len(p) /\ \A i \in 1 .. Len(q) : q[i] = p[i]
  BY <1>2, <1>3, <1>4 DEF IsPrefix
<1>5. ASSUME Len(q) <= Len(p), \A i \in 1 .. Len(q) : q[i] = p[i]
      PROVE  IsPrefix(q, p)
  <2>1. q = SubSeq(p, 1, Len(q))
    BY <1>3, <1>5, SameSequence
  <2> QED
    BY <1>2, <1>5, <2>1 DEF IsPrefix
<1> QED
  BY <1>4, <1>5

LEMMA PrefixSelf ==
  ASSUME NEW p \in Paths
  PROVE  IsPrefix(p, p) /\ Parent(p) # p /\ ~IsPrefix(p, Root)
<1>1. ~IsPrefix(p, Root)
  <2>1. Root \in Seq(STRING) /\ Len(Root) = 0
    BY EmptySeq DEF Root
  <2>2. p \in Seq(STRING) /\ Len(p) \in Nat \ {0}
    BY PathSplits
  <2>3. IsPrefix(p, Root) => Len(p) <= Len(Root)
    BY <2>1, <2>2, PrefixMeans
  <2> QED
    BY <2>1, <2>2, <2>3
<1>2. Parent(p) # p
  BY PathSplits
<1> QED
  BY <1>1, <1>2, PathSplits, PrefixMeans

LEMMA ParentIsPath ==
  ASSUME NEW p \in Paths, Parent(p) # Root
  PROVE  Parent(p) \in Paths
  BY PathSplits DEF Paths

\* The prefixes of a path are the path and the prefixes of its parent.
LEMMA PrefixStep ==
  ASSUME NEW p \in Paths, NEW q \in Paths
  PROVE  IsPrefix(q, p) <=> q = p \/ IsPrefix(q, Parent(p))
<1>1. /\ p \in Seq(STRING) /\ q \in Seq(STRING) /\ Parent(p) \in Seq(STRING)
      /\ Len(p) \in Nat \ {0} /\ Len(q) \in Nat \ {0} /\ Len(Parent(p)) = Len(p) - 1
      /\ \A i \in 1 .. Len(p) - 1 : Parent(p)[i] = p[i]
  BY PathSplits
<1>2. /\ IsPrefix(q, p) <=> Len(q) <= Len(p) /\ \A i \in 1 .. Len(q) : q[i] = p[i]
      /\ IsPrefix(q, Parent(p)) <=>
           Len(q) <= Len(p) - 1 /\ \A i \in 1 .. Len(q) : q[i] = Parent(p)[i]
  BY <1>1, PrefixMeans
<1>3. ASSUME IsPrefix(q, p), Len(q) = Len(p)
      PROVE  q = p
  BY <1>1, <1>2, <1>3, SameSequence
<1>4. ASSUME Len(q) # Len(p)
      PROVE  IsPrefix(q, p) <=> IsPrefix(q, Parent(p))
  <2>1. Len(q) <= Len(p) <=> Len(q) <= Len(p) - 1
    BY <1>1, <1>4
  <2>2. ASSUME Len(q) <= Len(p) - 1, NEW i \in 1 .. Len(q)
        PROVE  Parent(p)[i] = p[i]
    <3>1. i \in 1 .. Len(p) - 1
      BY <1>1, <2>2
    <3> QED
      BY <1>1, <3>1
  <2> QED
    BY <1>2, <2>1, <2>2
<1>5. ASSUME Len(q) = Len(p)
      PROVE  ~IsPrefix(q, Parent(p))
  BY <1>1, <1>2, <1>5
<1> QED
  BY <1>3, <1>4, <1>5, PrefixSelf

\* The parent of a prefix is the root or a proper prefix.
LEMMA PrefixParent ==
  ASSUME NEW c \in Paths, NEW p \in Paths, IsPrefix(c, p), Parent(c) # Root
  PROVE  Parent(c) \in Paths /\ IsPrefix(Parent(c), p) /\ Parent(c) # p
<1>1. Parent(c) \in Paths
  BY ParentIsPath
<1>2. /\ p \in Seq(STRING) /\ c \in Seq(STRING) /\ Parent(c) \in Seq(STRING)
      /\ Len(p) \in Nat /\ Len(c) \in Nat \ {0} /\ Len(Parent(c)) = Len(c) - 1
      /\ \A i \in 1 .. Len(c) - 1 : Parent(c)[i] = c[i]
  BY PathSplits
<1>3. Len(c) <= Len(p) /\ \A i \in 1 .. Len(c) : c[i] = p[i]
  BY <1>2, PrefixMeans
<1>4. \A i \in 1 .. Len(Parent(c)) : Parent(c)[i] = p[i]
  <2>1. \A i \in 1 .. Len(c) - 1 : i \in 1 .. Len(c)
    BY <1>2
  <2> QED
    BY <1>2, <1>3, <2>1
<1>5. Len(Parent(c)) <= Len(p) /\ Len(Parent(c)) # Len(p)
  BY <1>2, <1>3
<1> QED
  BY <1>1, <1>2, <1>4, <1>5, PrefixMeans

\* A path is not below itself.
LEMMA PrefixNotBoth ==
  ASSUME NEW p \in Paths
  PROVE  ~IsPrefix(p, Parent(p))
<1>1. /\ p \in Seq(STRING) /\ Parent(p) \in Seq(STRING)
      /\ Len(p) \in Nat \ {0} /\ Len(Parent(p)) = Len(p) - 1
  BY PathSplits
<1>2. IsPrefix(p, Parent(p)) => Len(p) <= Len(Parent(p))
  BY <1>1, PrefixMeans
<1> QED
  BY <1>1, <1>2

\* Between a path and one below it there is a child of the former.
LEMMA PrefixChild ==
  ASSUME NEW q \in Paths, NEW p \in Paths, IsPrefix(q, p), q # p
  PROVE  \E c \in Paths : Parent(c) = q /\ IsPrefix(c, p)
<1> DEFINE k == Len(q) + 1
           c == SubSeq(p, 1, k)
<1>1. /\ p \in Seq(STRING) /\ q \in Seq(STRING) /\ Len(p) \in Nat /\ Len(q) \in Nat
      /\ Len(q) <= Len(p) /\ \A i \in 1 .. Len(q) : q[i] = p[i]
  BY PathSplits, PrefixMeans
<1>2. Len(q) < Len(p)
  <2>1. Len(q) # Len(p)
    BY <1>1, SameSequence
  <2> QED
    BY <1>1, <2>1
<1>3. /\ c \in Seq(STRING) /\ Len(c) = k /\ \A i \in 1 .. k : c[i] = p[i]
  <2>1. \A i \in 1 .. k : p[i] \in STRING
    BY <1>1, <1>2, LenProperties
  <2>2. /\ SubSeq(p, 1, k) \in Seq(STRING)
        /\ Len(SubSeq(p, 1, k)) = IF 1 <= k THEN k - 1 + 1 ELSE 0
        /\ \A i \in 1 .. k - 1 + 1 : SubSeq(p, 1, k)[i] = p[1 + i - 1]
    BY <1>1, <2>1, SubSeqProperties
  <2>3. \A i \in 1 .. k : 1 + i - 1 = i /\ i \in 1 .. k - 1 + 1
    BY <1>1
  <2> QED
    BY <1>1, <2>2, <2>3
<1>4. c \in Paths
  <2>1. CASE k = Len(p)
    <3>1. c = p
      BY <2>1, SubSeqFull, <1>1
    <3> QED
      BY <3>1
  <2>2. CASE k # Len(p)
    <3>1. k \in 0 .. Len(p) - 1
      BY <1>1, <1>2, <2>2
    <3>2. c \in DirPaths
      BY <3>1, PathsAssumption
    <3>3. c # Root
      <4>1. Len(Root) = 0
        BY EmptySeq DEF Root
      <4> QED
        BY <1>1, <1>3, <4>1
    <3> QED
      BY <3>2, <3>3 DEF Paths
  <2> QED
    BY <2>1, <2>2
<1> HIDE DEF c
<1>5. IsPrefix(c, p)
  BY <1>1, <1>2, <1>3, PrefixMeans
<1>6. Parent(c) = q
  <2>1. /\ Parent(c) \in Seq(STRING) /\ Len(Parent(c)) = Len(c) - 1
        /\ \A i \in 1 .. Len(c) - 1 : Parent(c)[i] = c[i]
    BY <1>4, PathSplits
  <2>2. Len(Parent(c)) = Len(q)
    BY <1>1, <1>3, <2>1
  <2>3. \A i \in 1 .. Len(q) : i \in 1 .. Len(c) - 1 /\ i \in 1 .. k
    BY <1>1, <1>3
  <2>4. \A i \in 1 .. Len(Parent(c)) : Parent(c)[i] = q[i]
    BY <1>1, <1>3, <2>1, <2>2, <2>3
  <2> QED
    BY <1>1, <2>1, <2>2, <2>4, SameSequence
<1> QED
  BY <1>4, <1>5, <1>6

-----------------------------------------------------------------------------
(* Trees.                                                                  *)

ListedDir(s, p) == Listed(s, p) /\ Listing(s, p).kind = "dir"

\* p is the root or a directory a user can reach.
IsDirIn(s, p) == p = Root \/ (p \in Reachable(s) /\ Listing(s, p).kind = "dir")

\* A user finds the same at p in both.
SameNode(s, t, p) ==
  (Listed(s, p) <=> Listed(t, p)) /\ (Listed(s, p) => Node(s, p) = Node(t, p))

LEMMA SameNodeKind ==
  ASSUME NEW s, NEW t, NEW p, SameNode(s, t, p), Listed(s, p)
  PROVE  Listing(s, p).kind = Listing(t, p).kind
<1>1. Node(s, p).kind = Listing(s, p).kind /\ Node(t, p).kind = Listing(t, p).kind
  BY DEF Node
<1> QED
  BY <1>1 DEF SameNode

\* A path is reachable if it is listed in a directory that is.
LEMMA ReachableStep ==
  ASSUME NEW s, NEW p \in Paths
  PROVE  p \in Reachable(s) <=> Listed(s, p) /\ IsDirIn(s, Parent(p))
<1>1. ASSUME p \in Reachable(s)
      PROVE  Listed(s, p) /\ IsDirIn(s, Parent(p))
  <2>1. Listed(s, p)
    BY <1>1, PrefixSelf DEF Reachable
  <2>2. CASE Parent(p) # Root
    <3>1. Parent(p) \in Paths /\ IsPrefix(Parent(p), p) /\ Parent(p) # p
      BY <2>2, PrefixSelf, PrefixParent
    <3>2. Listing(s, Parent(p)).kind = "dir"
      BY <1>1, <3>1 DEF Reachable
    <3>3. ASSUME NEW q \in Paths, IsPrefix(q, Parent(p))
          PROVE  Listed(s, q) /\ (q # Parent(p) => Listing(s, q).kind = "dir")
      <4>1. IsPrefix(q, p)
        BY <3>3, PrefixStep
      <4>2. q # p
        <5>1. SUFFICES ASSUME q = p
                       PROVE  FALSE
          OBVIOUS
        <5>2. /\ Parent(p) \in Seq(STRING) /\ p \in Seq(STRING) /\ Len(p) \in Nat
              /\ Len(Parent(p)) = Len(p) - 1
          BY PathSplits
        <5>3. Len(p) <= Len(Parent(p))
          BY <3>3, <5>1, <5>2, PrefixMeans
        <5> QED
          BY <5>2, <5>3
      <4> QED
        BY <1>1, <4>1, <4>2 DEF Reachable
    <3>4. Parent(p) \in Reachable(s)
      BY <3>1, <3>3 DEF Reachable
    <3> QED
      BY <2>1, <3>2, <3>4 DEF IsDirIn
  <2> QED
    BY <2>1, <2>2 DEF IsDirIn
<1>2. ASSUME Listed(s, p), IsDirIn(s, Parent(p))
      PROVE  p \in Reachable(s)
  <2>1. ASSUME NEW q \in Paths, IsPrefix(q, p), q # p
        PROVE  Listed(s, q) /\ Listing(s, q).kind = "dir"
    <3>1. IsPrefix(q, Parent(p))
      BY <2>1, PrefixStep
    <3>2. Parent(p) # Root
      BY <3>1, PrefixSelf
    <3>3. Parent(p) \in Reachable(s) /\ Listing(s, Parent(p)).kind = "dir"
      BY <1>2, <3>2 DEF IsDirIn
    <3> QED
      BY <3>1, <3>3 DEF Reachable
  <2> QED
    BY <1>2, <2>1 DEF Reachable
<1> QED
  BY <1>1, <1>2

\* What is reachable stays so if nothing on the way changes.
LEMMA StaysReachable ==
  ASSUME NEW s, NEW t, NEW p \in Reachable(s),
         \A c \in Paths : IsPrefix(c, p) => SameNode(s, t, c)
  PROVE  p \in Reachable(t)
<1>1. p \in Paths
  BY DEF Reachable
<1>2. ASSUME NEW q \in Paths, IsPrefix(q, p)
      PROVE  Listed(t, q) /\ (q # p => Listing(t, q).kind = "dir")
  <2>1. Listed(s, q) /\ (q # p => Listing(s, q).kind = "dir") /\ SameNode(s, t, q)
    BY <1>2 DEF Reachable
  <2>2. Listed(t, q)
    BY <2>1 DEF SameNode
  <2> QED
    BY <2>1, <2>2, SameNodeKind
<1> QED
  BY <1>1, <1>2 DEF Reachable

\* Two states show the same tree if they agree wherever the one or the other has a
\* directory.
LEMMA SameTree ==
  ASSUME NEW s, NEW t,
         \A c \in Paths :
           Parent(c) = Root \/ ListedDir(s, Parent(c)) \/ ListedDir(t, Parent(c))
             => SameNode(s, t, c)
  PROVE  Tree(s) = Tree(t) /\ Reachable(s) = Reachable(t)
<1>1. ASSUME NEW p \in Reachable(s)
      PROVE  p \in Reachable(t) /\ Node(s, p) = Node(t, p)
  <2>1. p \in Paths
    BY DEF Reachable
  <2>2. ASSUME NEW c \in Paths, IsPrefix(c, p)
        PROVE  SameNode(s, t, c)
    <3>1. CASE Parent(c) # Root
      <4>1. Parent(c) \in Paths /\ IsPrefix(Parent(c), p) /\ Parent(c) # p
        BY <2>1, <2>2, <3>1, PrefixParent
      <4> QED
        BY <4>1 DEF Reachable, ListedDir
    <3> QED
      BY <3>1
  <2> QED
    BY <2>1, <2>2, StaysReachable, PrefixSelf DEF SameNode, Reachable
<1>2. ASSUME NEW p \in Reachable(t)
      PROVE  p \in Reachable(s)
  <2>1. p \in Paths
    BY DEF Reachable
  <2>2. ASSUME NEW c \in Paths, IsPrefix(c, p)
        PROVE  SameNode(t, s, c)
    <3>1. SameNode(s, t, c)
      <4>1. CASE Parent(c) # Root
        <5>1. Parent(c) \in Paths /\ IsPrefix(Parent(c), p) /\ Parent(c) # p
          BY <2>1, <2>2, <4>1, PrefixParent
        <5> QED
          BY <5>1 DEF Reachable, ListedDir
      <4> QED
        BY <4>1
    <3> QED
      BY <3>1 DEF SameNode
  <2> QED
    BY <2>1, <2>2, StaysReachable
<1>3. Reachable(s) = Reachable(t)
  BY <1>1, <1>2
<1> QED
  BY <1>1, <1>3 DEF Tree

\* t shows one path more than s: a file, or an empty directory.
OneMore(s, t, p) ==
  /\ p \in Paths /\ Listed(t, p) /\ ~Listed(s, p) /\ IsDirIn(s, Parent(p))
  /\ \A c \in Paths \ {p} : Parent(c) # p => SameNode(s, t, c)
  /\ Listing(t, p).kind = "dir" => \A c \in Paths : Parent(c) = p => ~Listed(t, c)

LEMMA OneMoreTree ==
  ASSUME NEW s, NEW t, NEW p, OneMore(s, t, p)
  PROVE  /\ p \notin Reachable(s) /\ Reachable(t) = Reachable(s) \cup {p}
         /\ Tree(t) = [q \in Reachable(s) \cup {p} |->
                         IF q = p THEN Node(t, p) ELSE Node(s, q)]
         /\ IsDirIn(t, Parent(p))
<1> USE DEF OneMore
<1>1. p \notin Reachable(s)
  BY PrefixSelf DEF Reachable
<1>2. ASSUME NEW q \in Reachable(s)
      PROVE  q \in Reachable(t) /\ Node(s, q) = Node(t, q) /\ q # p
  <2>1. q \in Paths
    BY DEF Reachable
  <2>2. ~IsPrefix(p, q)
    BY DEF Reachable
  <2>3. ASSUME NEW c \in Paths, IsPrefix(c, q)
        PROVE  SameNode(s, t, c)
    <3>1. c # p
      BY <2>2, <2>3
    <3>2. Parent(c) # p
      <4>1. p # Root
        BY DEF Paths
      <4> QED
        BY <2>1, <2>2, <2>3, <4>1, PrefixParent
    <3> QED
      BY <3>1, <3>2
  <2> QED
    BY <1>1, <2>1, <2>3, StaysReachable, PrefixSelf DEF SameNode, Reachable
<1>3. IsDirIn(t, Parent(p))
  <2>1. CASE Parent(p) # Root
    <3>1. Parent(p) \in Reachable(s) /\ Listing(s, Parent(p)).kind = "dir"
      BY <2>1 DEF IsDirIn
    <3>2. Parent(p) \in Reachable(t) /\ Node(s, Parent(p)) = Node(t, Parent(p))
      BY <1>2, <3>1
    <3> QED
      BY <3>1, <3>2 DEF IsDirIn, Node
  <2> QED
    BY <2>1 DEF IsDirIn
<1>4. p \in Reachable(t)
  BY <1>3, ReachableStep
<1>5. ASSUME NEW q \in Reachable(t), q # p
      PROVE  q \in Reachable(s)
  <2>1. q \in Paths
    BY DEF Reachable
  <2>2. ~IsPrefix(p, q)
    <3>1. SUFFICES ASSUME IsPrefix(p, q)
                   PROVE  FALSE
      OBVIOUS
    <3>2. Listing(t, p).kind = "dir"
      BY <1>5, <3>1 DEF Reachable
    <3>3. PICK c \in Paths : Parent(c) = p /\ IsPrefix(c, q)
      BY <1>5, <2>1, <3>1, PrefixChild
    <3>4. Listed(t, c)
      BY <3>3 DEF Reachable
    <3> QED
      BY <3>2, <3>3, <3>4
  <2>3. ASSUME NEW c \in Paths, IsPrefix(c, q)
        PROVE  SameNode(t, s, c)
    <3>1. c # p
      BY <2>2, <2>3
    <3>2. Parent(c) # p
      <4>1. p # Root
        BY DEF Paths
      <4> QED
        BY <2>1, <2>2, <2>3, <4>1, PrefixParent
    <3>3. SameNode(s, t, c)
      BY <3>1, <3>2
    <3> QED
      BY <3>3 DEF SameNode
  <2> QED
    BY <2>1, <2>3, StaysReachable
<1>6. Reachable(t) = Reachable(s) \cup {p}
  BY <1>2, <1>4, <1>5
<1>7. Tree(t) = [q \in Reachable(s) \cup {p} |-> IF q = p THEN Node(t, p) ELSE Node(s, q)]
  BY <1>2, <1>6 DEF Tree
<1> QED
  BY <1>1, <1>3, <1>6, <1>7

-----------------------------------------------------------------------------
(* States, and what the invariant says of them in general.                 *)

IsState(s) ==
  /\ s = [mc |-> s.mc, dc |-> s.dc, dmeta |-> s.dmeta, fmeta |-> s.fmeta, data |-> s.data,
          undefined |-> s.undefined, err |-> s.err, left |-> s.left]
  /\ s.left \in Nat

\* Everything but the caches and the backend.
SameControl(s, t) == t.undefined = s.undefined /\ t.err = s.err /\ t.left = s.left

SameStores(s, t) ==
  t.mc = s.mc /\ t.dc = s.dc /\ t.dmeta = s.dmeta /\ t.fmeta = s.fmeta /\ t.data = s.data

SameEntries(s, t) == \A d \in DirPaths : EntriesOf(t, d) = EntriesOf(s, d)

\* t keeps no object in a place where s has it not.
NoNewPlaces(s, t) == \A i \in Ids, p \in AllPaths : At(t, i, p) => At(s, i, p)

LEMMA PathIsPath ==
  ASSUME NEW p \in Paths
  PROVE  p \in AllPaths /\ Parent(p) \in DirPaths
  BY PathSplits DEF Paths, AllPaths

LEMMA SameListing ==
  ASSUME NEW s, NEW t, SameEntries(s, t), NEW p \in Paths
  PROVE  (Listed(t, p) <=> Listed(s, p)) /\ Listing(t, p) = Listing(s, p)
  BY PathIsPath DEF SameEntries, Listed, Listing

LEMMA OnePathKept ==
  ASSUME NEW s, NEW t, NEW X, OnePath(s, X), NoNewPlaces(s, t)
  PROVE  OnePath(t, X)
  BY DEF OnePath, NoNewPlaces

\* A listed entry has the type of entries, and counts as a place of its object.
LEMMA ListingType ==
  ASSUME NEW s, DirectoriesOK(s), DataOK(s), NEW p \in Paths, Listed(s, p)
  PROVE  /\ Listing(s, p) \in EntryType /\ Listing(s, p).id \in Ids
         /\ Listing(s, p).kind \in {"file", "dir"}
         /\ Listing(s, p).kind = "dir" => p \in DirPaths
         /\ EntryAt(s, Listing(s, p).id, p) /\ At(s, Listing(s, p).id, p)
<1> DEFINE d == Parent(p)
           n == Name(p)
           e == EntriesOf(s, d)
<1>1. n \in DOMAIN e /\ Listing(s, p) = e[n]
  BY DEF Listed, Listing
<1>2. \/ d \in DOMAIN s.dc /\ e = s.dc[d].entries
      \/ d \notin DOMAIN s.dc /\ d \in DOMAIN s.data /\ e = s.data[d]
  BY <1>1 DEF EntriesOf, NoEntries
<1>3. IsContent(d, e)
  BY <1>2 DEF DirectoriesOK, DataOK
<1> HIDE DEF e
<1>4. e[n] \in EntryType
  BY <1>1, <1>3 DEF IsContent
<1>5. e[n].kind = "dir" => p \in DirPaths
  BY <1>1, <1>3, PathUnique DEF IsContent
<1>6. EntryAt(s, e[n].id, p)
  BY <1>1, <1>2 DEF EntryAt
<1> HIDE DEF d, n
<1>7. e[n].id \in Ids /\ e[n].kind \in {"file", "dir"}
  BY <1>4 DEF EntryType
<1> QED
  BY <1>1, <1>4, <1>5, <1>6, <1>7 DEF At

\* Two paths outside X that list the same file are one.
LEMMA EntriesDiffer ==
  ASSUME NEW s, NEW X, Sound(s), OnePath(s, X), NEW p \in Paths, Listed(s, p),
         NEW q \in AllPaths, At(s, Listing(s, p).id, q), p \notin X \/ q \notin X
  PROVE  p = q
<1>1. Listing(s, p).id \in Ids /\ At(s, Listing(s, p).id, p)
  BY ListingType DEF Sound
<1> QED
  BY <1>1, PathIsPath DEF OnePath

\* The invariant is about caches and backend alone.
LEMMA StoresDecide ==
  ASSUME NEW s, NEW t, SameStores(s, t), NEW X
  PROVE  /\ Good(s, X) => Good(t, X)
         /\ \A p \in Paths : SameNode(s, t, p)
         /\ SameEntries(s, t)
<1> USE DEF SameStores
<1>1. \A d : EntriesOf(t, d) = EntriesOf(s, d)
  BY DEF EntriesOf
<1>2. \A p : Listed(t, p) = Listed(s, p) /\ Listing(t, p) = Listing(s, p)
  BY <1>1 DEF Listed, Listing
<1>3. \A p, e : Resolve(t, p, e) = Resolve(s, p, e)
  BY DEF Resolve
<1>4. \A p : Node(t, p) = Node(s, p)
  BY <1>2, <1>3 DEF Node
<1>5. MetadataOK(s) => MetadataOK(t)
  BY DEF MetadataOK
<1>6. DirectoriesOK(s) => DirectoriesOK(t)
  BY DEF DirectoriesOK
<1>7. RecordsOK(s) => RecordsOK(t)
  BY DEF RecordsOK
<1>8. DataOK(s) => DataOK(t)
  BY DEF DataOK
<1>9. DirectoriesCached(s) => DirectoriesCached(t)
  BY DEF DirectoriesCached
<1>10. CleanIsStored(s) => CleanIsStored(t)
  BY DEF CleanIsStored
<1>11. CleanIsRecorded(s) => CleanIsRecorded(t)
  BY DEF CleanIsRecorded
<1>12. EntriesMatch(s) => EntriesMatch(t)
  BY <1>2 DEF EntriesMatch
<1>13. \A i, p : At(t, i, p) <=> At(s, i, p)
  BY DEF At, CachedAt, EntryAt
<1>14. OnePath(s, X) => OnePath(t, X)
  BY <1>13 DEF OnePath
<1>15. SizesStored(s) => SizesStored(t)
  BY DEF SizesStored
<1>16. Linked(s, X) => Linked(t, X)
  BY <1>2 DEF Linked, LinkedAt, Unused
<1>17. DataNamed(s) => DataNamed(t)
  BY DEF DataNamed
<1>18. Sound(s) => Sound(t)
  BY <1>5, <1>6, <1>7, <1>8, <1>9, <1>10, <1>11, <1>12, <1>15, <1>17 DEF Sound
<1> QED
  BY <1>1, <1>2, <1>4, <1>14, <1>16, <1>18 DEF Good, SameNode, SameEntries

-----------------------------------------------------------------------------
(* Writing back metadata.                                                  *)

LEMMA CleanMetadata ==
  ASSUME NEW m \in MetadataType
  PROVE  LET n == [m EXCEPT !.dirty = FALSE] IN
         /\ n \in MetadataType /\ ~n.dirty
         /\ n.kind = m.kind /\ n.id = m.id /\ n.sized = m.sized /\ n.count = m.count
         /\ n.expired = m.expired
  BY DEF MetadataType

LEMMA FlushMetadataFields ==
  ASSUME NEW s, IsState(s), NEW P, \A p \in P : s.mc[p] \in MetadataType,
         NEW t, t = FlushMetadata(s, P)
  PROVE  /\ IsState(t) /\ SameControl(s, t) /\ t.dc = s.dc /\ t.data = s.data
         /\ t.mc = [p \in DOMAIN s.mc |->
                      IF p \in P THEN [s.mc[p] EXCEPT !.dirty = FALSE] ELSE s.mc[p]]
         /\ t.dmeta = [p \in DOMAIN s.dmeta
                             \cup {q \in P : s.mc[q].dirty /\ s.mc[q].kind = "dir"} |->
                         IF p \in P /\ s.mc[p].dirty /\ s.mc[p].kind = "dir"
                           THEN [id |-> s.mc[p].id, sized |-> s.mc[p].sized]
                           ELSE s.dmeta[p]]
         /\ t.fmeta = s.fmeta \cup {s.mc[p].id : p \in
                                      {q \in P : s.mc[q].dirty /\ s.mc[q].kind # "dir"}}
<1> DEFINE dirty == {p \in P : s.mc[p].dirty}
           dirs == {p \in dirty : s.mc[p].kind = "dir"}
           mc1 == [p \in DOMAIN s.mc |->
                     IF p \in P THEN [s.mc[p] EXCEPT !.dirty = FALSE] ELSE s.mc[p]]
           dmeta1 == [p \in DOMAIN s.dmeta \cup dirs |->
                        IF p \in dirs THEN [id |-> s.mc[p].id, sized |-> s.mc[p].sized]
                        ELSE s.dmeta[p]]
           fmeta1 == s.fmeta \cup {s.mc[p].id : p \in dirty \ dirs}
<1>a. dirty = {p \in P : s.mc[p].dirty /\ s.mc[p].id # Lost}
  BY IdsAssumption DEF MetadataType
<1>b. mc1 = [p \in DOMAIN s.mc |->
               IF p \in dirty THEN [s.mc[p] EXCEPT !.dirty = FALSE] ELSE s.mc[p]]
  <2>1. \A p \in P : p \notin dirty => [s.mc[p] EXCEPT !.dirty = FALSE] = s.mc[p]
    BY DEF MetadataType
  <2> QED
    BY <2>1
<1>1. t = [s EXCEPT !.mc = mc1, !.dmeta = dmeta1, !.fmeta = fmeta1]
  BY <1>a, <1>b, Zenon DEF FlushMetadata
<1>2. dirs = {q \in P : s.mc[q].dirty /\ s.mc[q].kind = "dir"}
      /\ dirty \ dirs = {q \in P : s.mc[q].dirty /\ s.mc[q].kind # "dir"}
  OBVIOUS
<1>3. /\ dmeta1 = [p \in DOMAIN s.dmeta
                         \cup {q \in P : s.mc[q].dirty /\ s.mc[q].kind = "dir"} |->
                     IF p \in P /\ s.mc[p].dirty /\ s.mc[p].kind = "dir"
                       THEN [id |-> s.mc[p].id, sized |-> s.mc[p].sized]
                       ELSE s.dmeta[p]]
      /\ fmeta1 = s.fmeta \cup {s.mc[p].id : p \in
                                  {q \in P : s.mc[q].dirty /\ s.mc[q].kind # "dir"}}
  BY <1>2
<1> HIDE DEF mc1, dmeta1, fmeta1
<1>4. /\ IsState(t) /\ SameControl(s, t) /\ t.dc = s.dc /\ t.data = s.data
      /\ t.mc = mc1 /\ t.dmeta = dmeta1 /\ t.fmeta = fmeta1
  BY <1>1 DEF IsState, SameControl
<1> QED
  BY <1>3, <1>4 DEF mc1

\* What a flush of the metadata of P does to one path.
MetadataFlushed(s, t, P) ==
  /\ t.dc = s.dc /\ t.data = s.data
  /\ DOMAIN t.mc = DOMAIN s.mc /\ t.mc \in [DOMAIN t.mc -> MetadataType]
  /\ \A p \in DOMAIN s.mc :
       /\ t.mc[p].kind = s.mc[p].kind /\ t.mc[p].id = s.mc[p].id
       /\ t.mc[p].sized = s.mc[p].sized /\ t.mc[p].count = s.mc[p].count
       /\ t.mc[p].expired = s.mc[p].expired
       /\ IF p \in P THEN ~t.mc[p].dirty ELSE t.mc[p] = s.mc[p]
  /\ t.dmeta \in [DOMAIN t.dmeta -> RecordType]
  /\ \A p : p \in DOMAIN t.dmeta <=>
              p \in DOMAIN s.dmeta \/ (p \in P /\ s.mc[p].dirty /\ s.mc[p].kind = "dir")
  /\ \A p \in DOMAIN t.dmeta :
       IF p \in P /\ s.mc[p].dirty /\ s.mc[p].kind = "dir"
         THEN t.dmeta[p].id = s.mc[p].id /\ t.dmeta[p].sized = s.mc[p].sized
         ELSE t.dmeta[p] = s.dmeta[p]
  /\ \A i : i \in t.fmeta <=>
              i \in s.fmeta \/ \E p \in P : s.mc[p].dirty /\ s.mc[p].kind # "dir" /\ i = s.mc[p].id

LEMMA FlushMetadataDoes ==
  ASSUME NEW s, IsState(s), MetadataOK(s), RecordsOK(s), NEW P \in SUBSET DOMAIN s.mc,
         NEW t, t = FlushMetadata(s, P)
  PROVE  MetadataFlushed(s, t, P) /\ IsState(t) /\ SameControl(s, t)
<1>1. /\ IsState(t) /\ SameControl(s, t) /\ t.dc = s.dc /\ t.data = s.data
      /\ t.mc = [p \in DOMAIN s.mc |->
                   IF p \in P THEN [s.mc[p] EXCEPT !.dirty = FALSE] ELSE s.mc[p]]
      /\ t.dmeta = [p \in DOMAIN s.dmeta
                          \cup {q \in P : s.mc[q].dirty /\ s.mc[q].kind = "dir"} |->
                      IF p \in P /\ s.mc[p].dirty /\ s.mc[p].kind = "dir"
                        THEN [id |-> s.mc[p].id, sized |-> s.mc[p].sized]
                        ELSE s.dmeta[p]]
      /\ t.fmeta = s.fmeta \cup {s.mc[p].id : p \in
                                   {q \in P : s.mc[q].dirty /\ s.mc[q].kind # "dir"}}
  <2>1. \A p \in P : s.mc[p] \in MetadataType
    BY DEF MetadataOK
  <2> QED
    BY <2>1, FlushMetadataFields
<1>2. \A p \in DOMAIN s.mc : s.mc[p] \in MetadataType
  BY DEF MetadataOK
<1>3. \A p \in DOMAIN s.dmeta : s.dmeta[p] \in RecordType
  BY DEF RecordsOK
<1>4. ASSUME NEW p \in DOMAIN s.mc
      PROVE  /\ t.mc[p] \in MetadataType
             /\ t.mc[p].kind = s.mc[p].kind /\ t.mc[p].id = s.mc[p].id
             /\ t.mc[p].sized = s.mc[p].sized /\ t.mc[p].count = s.mc[p].count
             /\ t.mc[p].expired = s.mc[p].expired
             /\ IF p \in P THEN ~t.mc[p].dirty ELSE t.mc[p] = s.mc[p]
  <2>1. t.mc[p] = IF p \in P THEN [s.mc[p] EXCEPT !.dirty = FALSE] ELSE s.mc[p]
    BY <1>1
  <2>2. s.mc[p] \in MetadataType
    BY <1>2
  <2> QED
    BY <2>1, <2>2, CleanMetadata
<1>5. DOMAIN t.mc = DOMAIN s.mc /\ t.mc \in [DOMAIN t.mc -> MetadataType]
  BY <1>1, <1>4
<1>6. ASSUME NEW p \in DOMAIN t.dmeta
      PROVE  /\ t.dmeta[p] \in RecordType
             /\ IF p \in P /\ s.mc[p].dirty /\ s.mc[p].kind = "dir"
                  THEN t.dmeta[p].id = s.mc[p].id /\ t.dmeta[p].sized = s.mc[p].sized
                  ELSE t.dmeta[p] = s.dmeta[p]
  BY <1>1, <1>2, <1>3, <1>6 DEF MetadataType, RecordType
<1>7. t.dmeta \in [DOMAIN t.dmeta -> RecordType]
  <2>1. t.dmeta = [p \in DOMAIN t.dmeta |-> t.dmeta[p]]
    BY <1>1
  <2> QED
    BY <1>6, <2>1
<1>8. \A p : p \in DOMAIN t.dmeta <=>
              p \in DOMAIN s.dmeta \/ (p \in P /\ s.mc[p].dirty /\ s.mc[p].kind = "dir")
  BY <1>1
<1>9. \A i : i \in t.fmeta <=>
              i \in s.fmeta \/ \E p \in P : s.mc[p].dirty /\ s.mc[p].kind # "dir" /\ i = s.mc[p].id
  BY <1>1
<1> QED
  BY <1>1, <1>4, <1>5, <1>6, <1>7, <1>8, <1>9 DEF MetadataFlushed

\* t shows what s shows and keeps to the invariant: writing back and reading again
\* do no more.
Invisible(s, t, X) ==
  /\ Good(t, X) /\ SameEntries(s, t)
  /\ \A p \in Paths : SameNode(s, t, p)

LEMMA InvisibleTwice ==
  ASSUME NEW s, NEW t, NEW u, NEW X, Invisible(s, t, X), Invisible(t, u, X)
  PROVE  Invisible(s, u, X)
  BY DEF Invisible, SameEntries, SameNode

LEMMA FlushMetadataInvisible ==
  ASSUME NEW s, NEW X, Good(s, X), NEW t, NEW P \in SUBSET DOMAIN s.mc,
         MetadataFlushed(s, t, P), X = {} \/ \A p \in P : s.mc[p].kind = "dir"
  PROVE  Invisible(s, t, X)
<1> USE DEF MetadataFlushed
<1>1. MetadataOK(s) /\ DirectoriesOK(s) /\ RecordsOK(s) /\ DataOK(s) /\ Sound(s) /\ OnePath(s, X)
  BY DEF Good, Sound
<1>2. \A p \in DOMAIN s.mc :
        /\ p \in AllPaths /\ s.mc[p] \in MetadataType /\ s.mc[p].id \in Ids
        /\ s.mc[p].kind \in {"file", "dir"} /\ (s.mc[p].kind = "dir" => p \in DirPaths)
  BY <1>1 DEF MetadataOK, MetadataType
<1>3. ASSUME NEW d
      PROVE  EntriesOf(t, d) = EntriesOf(s, d)
  <2>1. CASE d \in DOMAIN s.mc /\ s.mc[d].kind = "dir"
    BY <2>1 DEF EntriesOf
  <2>2. CASE ~(d \in DOMAIN s.mc /\ s.mc[d].kind = "dir")
    <3>1. d \in DOMAIN t.dmeta <=> d \in DOMAIN s.dmeta
      BY <2>2
    <3>2. d \in DOMAIN s.dmeta => t.dmeta[d] = s.dmeta[d]
      BY <2>2, <3>1
    <3>3. ~(d \in DOMAIN t.mc /\ t.mc[d].kind = "dir")
      BY <2>2
    <3> QED
      BY <2>2, <3>1, <3>2, <3>3 DEF EntriesOf
  <2> QED
    BY <2>1, <2>2
<1>4. SameEntries(s, t)
  BY <1>3 DEF SameEntries
<1>5. \A p \in Paths : (Listed(t, p) <=> Listed(s, p)) /\ Listing(t, p) = Listing(s, p)
  BY <1>4, SameListing
<1>6. MetadataOK(t)
  BY <1>1 DEF MetadataOK
<1>7. DirectoriesOK(t) /\ DataOK(t)
  BY <1>1 DEF DirectoriesOK, DataOK
<1>8. RecordsOK(t)
  <2>1. DOMAIN t.dmeta \subseteq DirPaths
    BY <1>1, <1>2 DEF RecordsOK
  <2>2. t.fmeta \subseteq Ids
    BY <1>1, <1>2 DEF RecordsOK
  <2> QED
    BY <2>1, <2>2 DEF RecordsOK
<1>9. DirectoriesCached(t)
  BY <1>1 DEF Sound, DirectoriesCached
<1>10. CleanIsStored(t)
  BY <1>1 DEF Sound, CleanIsStored, DirectoriesCached
<1>11. CleanIsRecorded(t)
  <2> SUFFICES ASSUME NEW p \in DOMAIN t.mc, ~t.mc[p].dirty
               PROVE  IF t.mc[p].kind = "dir"
                        THEN /\ p \in DOMAIN t.dmeta
                             /\ t.dmeta[p].id = t.mc[p].id /\ t.dmeta[p].sized = t.mc[p].sized
                        ELSE t.mc[p].id \in t.fmeta
    BY DEF CleanIsRecorded
  <2>1. CASE s.mc[p].dirty
    <3>1. p \in P
      BY <2>1
    <3> QED
      BY <2>1, <3>1
  <2>2. CASE ~s.mc[p].dirty
    <3>1. IF s.mc[p].kind = "dir"
            THEN /\ p \in DOMAIN s.dmeta
                 /\ s.dmeta[p].id = s.mc[p].id /\ s.dmeta[p].sized = s.mc[p].sized
            ELSE s.mc[p].id \in s.fmeta
      BY <1>1, <2>2 DEF Sound, CleanIsRecorded
    <3>2. CASE s.mc[p].kind = "dir"
      <4>1. p \in DOMAIN t.dmeta /\ t.dmeta[p] = s.dmeta[p]
        BY <2>2, <3>1, <3>2
      <4> QED
        BY <3>1, <3>2, <4>1
    <3>3. CASE s.mc[p].kind # "dir"
      BY <3>1, <3>3
    <3> QED
      BY <3>2, <3>3
  <2> QED
    BY <2>1, <2>2
<1>12. EntriesMatch(t)
  BY <1>1, <1>5 DEF Sound, EntriesMatch
<1>13. SizesStored(s) => SizesStored(t)
  <2>1. ASSUME SizesStored(s), NEW p \in DOMAIN t.dmeta, t.dmeta[p].sized
        PROVE  p \in DOMAIN t.data
    <3>1. CASE p \in P /\ s.mc[p].dirty /\ s.mc[p].kind = "dir"
      <4>1. s.mc[p].sized
        BY <2>1, <3>1
      <4> QED
        BY <2>1, <3>1, <4>1 DEF SizesStored
    <3>2. CASE ~(p \in P /\ s.mc[p].dirty /\ s.mc[p].kind = "dir")
      BY <2>1, <3>2 DEF SizesStored
    <3> QED
      BY <3>1, <3>2
  <2> QED
    BY <2>1 DEF SizesStored
<1>14. DataNamed(s) => DataNamed(t)
  <2>1. ASSUME DataNamed(s), NEW p \in DOMAIN t.data
        PROVE  IF p \in DOMAIN t.mc THEN t.mc[p].kind = "dir" /\ t.mc[p].sized
               ELSE p \in DOMAIN t.dmeta /\ t.dmeta[p].sized
    <3>1. CASE p \in DOMAIN s.mc
      BY <2>1, <3>1 DEF DataNamed
    <3>2. CASE p \notin DOMAIN s.mc
      BY <2>1, <3>2 DEF DataNamed
    <3> QED
      BY <3>1, <3>2
  <2> QED
    BY <2>1 DEF DataNamed
<1>15. Sound(t)
  BY <1>1, <1>6, <1>7, <1>8, <1>9, <1>10, <1>11, <1>12, <1>13, <1>14 DEF Sound
<1>16. NoNewPlaces(s, t)
  <2>1. ASSUME NEW i, NEW p, CachedAt(t, i, p)
        PROVE  CachedAt(s, i, p)
    <3>1. CASE p \in DOMAIN t.mc /\ t.mc[p].id = i
      BY <3>1 DEF CachedAt
    <3>2. CASE p \in DOMAIN t.dmeta /\ t.dmeta[p].id = i
      <4>1. CASE p \in P /\ s.mc[p].dirty /\ s.mc[p].kind = "dir"
        <5>1. s.mc[p].id = i
          BY <3>2, <4>1
        <5> QED
          BY <4>1, <5>1 DEF CachedAt
      <4>2. CASE ~(p \in P /\ s.mc[p].dirty /\ s.mc[p].kind = "dir")
        BY <3>2, <4>2 DEF CachedAt
      <4> QED
        BY <4>1, <4>2
    <3> QED
      BY <2>1, <3>1, <3>2 DEF CachedAt
  <2>2. \A i, p : EntryAt(t, i, p) <=> EntryAt(s, i, p)
    BY DEF EntryAt
  <2> QED
    BY <2>1, <2>2 DEF NoNewPlaces, At
<1>17. OnePath(t, X)
  BY <1>1, <1>16, OnePathKept
<1>18. Linked(s, X) => Linked(t, X)
  <2>1. ASSUME NEW p \in Paths, LinkedAt(s, p)
        PROVE  LinkedAt(t, p)
    <3>1. CASE ~Listed(s, p)
      <4>1. p \notin DOMAIN s.mc /\ p \notin DOMAIN s.dmeta
        BY <2>1, <3>1 DEF LinkedAt, Unused
      <4>2. p \notin DOMAIN t.mc /\ p \notin DOMAIN t.dmeta
        BY <4>1
      <4> QED
        BY <1>5, <3>1, <4>2 DEF LinkedAt, Unused
    <3>2. CASE Listed(s, p) /\ Listing(s, p).kind = "dir"
      <4>1. p \in DOMAIN s.mc \/ p \in DOMAIN s.dmeta
        BY <2>1, <3>2 DEF LinkedAt
      <4>2. p \in DOMAIN t.mc \/ p \in DOMAIN t.dmeta
        BY <4>1
      <4> QED
        BY <1>5, <3>2, <4>2 DEF LinkedAt
    <3>3. CASE Listed(s, p) /\ Listing(s, p).kind # "dir"
      <4>1. /\ p \in DOMAIN s.mc \/ Listing(s, p).id \in s.fmeta
            /\ p \notin DOMAIN s.dmeta
        BY <2>1, <3>3 DEF LinkedAt
      <4>2. p \in DOMAIN s.mc => s.mc[p].kind # "dir"
        BY <1>1, <3>3 DEF Sound, EntriesMatch
      <4>3. /\ p \in DOMAIN t.mc \/ Listing(s, p).id \in t.fmeta
            /\ p \notin DOMAIN t.dmeta
        BY <4>1, <4>2
      <4> QED
        BY <1>5, <3>3, <4>3 DEF LinkedAt
    <3> QED
      BY <3>1, <3>2, <3>3
  <2> QED
    BY <2>1 DEF Linked
<1>19. ASSUME NEW p \in Paths, Listed(s, p)
       PROVE  Resolve(t, p, Listing(s, p)) = Resolve(s, p, Listing(s, p))
  <2>1. CASE p \in DOMAIN s.mc
    BY <2>1 DEF Resolve
  <2>2. CASE p \notin DOMAIN s.mc
    <3>1. p \in DOMAIN t.dmeta <=> p \in DOMAIN s.dmeta
      BY <2>2
    <3>2. p \in DOMAIN s.dmeta => t.dmeta[p] = s.dmeta[p]
      BY <2>2, <3>1
    <3>3. Listing(s, p).id \in t.fmeta <=> Listing(s, p).id \in s.fmeta
      <4>1. SUFFICES ASSUME NEW q \in P, s.mc[q].kind # "dir", Listing(s, p).id = s.mc[q].id
                     PROVE  FALSE
        OBVIOUS
      <4>2. X = {} /\ q \in AllPaths /\ At(s, Listing(s, p).id, q)
        BY <1>2, <4>1 DEF At, CachedAt
      <4>3. p = q
        BY <1>1, <1>19, <4>2, EntriesDiffer
      <4> QED
        BY <2>2, <4>3
    <3>4. p \notin DOMAIN t.mc
      BY <2>2
    <3> QED
      BY <2>2, <3>1, <3>2, <3>3, <3>4 DEF Resolve
  <2> QED
    BY <2>1, <2>2
<1>20. \A p \in Paths : SameNode(s, t, p)
  BY <1>5, <1>19 DEF SameNode, Node
<1> QED
  BY <1>4, <1>15, <1>17, <1>18, <1>20 DEF Good, Invisible

-----------------------------------------------------------------------------
(* Writing back directories.                                               *)

\* What writing the entries of the dirty directories among P does, before their
\* metadata is flushed.
EntriesPut(s, t, P) ==
  /\ t.dmeta = s.dmeta /\ t.fmeta = s.fmeta
  /\ DOMAIN t.mc = DOMAIN s.mc /\ t.mc \in [DOMAIN t.mc -> MetadataType]
  /\ \A p \in DOMAIN s.mc :
       /\ t.mc[p].kind = s.mc[p].kind /\ t.mc[p].id = s.mc[p].id
       /\ t.mc[p].count = s.mc[p].count /\ t.mc[p].expired = s.mc[p].expired
       /\ IF p \in P /\ s.dc[p].dirty THEN t.mc[p].sized /\ t.mc[p].dirty
          ELSE t.mc[p] = s.mc[p]
  /\ DOMAIN t.dc = DOMAIN s.dc
  /\ t.dc = [p \in DOMAIN t.dc |-> t.dc[p]]
  /\ \A p \in DOMAIN s.dc :
       /\ t.dc[p] \in DirectoryType(t.dc[p].entries)
       /\ t.dc[p].entries = s.dc[p].entries
       /\ IF p \in P THEN t.dc[p].dirty = FALSE ELSE t.dc[p] = s.dc[p]
  /\ t.data = [p \in DOMAIN t.data |-> t.data[p]]
  /\ \A p : p \in DOMAIN t.data <=> p \in DOMAIN s.data \/ (p \in P /\ s.dc[p].dirty)
  /\ \A p \in DOMAIN t.data :
       t.data[p] = IF p \in P /\ s.dc[p].dirty THEN s.dc[p].entries ELSE s.data[p]

LEMMA SizedMetadata ==
  ASSUME NEW m \in MetadataType, NEW n, n = [m EXCEPT !.sized = TRUE, !.dirty = TRUE]
  PROVE  /\ n \in MetadataType /\ n.sized /\ n.dirty
         /\ n.kind = m.kind /\ n.id = m.id /\ n.count = m.count /\ n.expired = m.expired
  BY DEF MetadataType

LEMMA CleanDirectory ==
  ASSUME NEW e, NEW m \in DirectoryType(e), NEW n, n = [m EXCEPT !.dirty = FALSE]
  PROVE  n \in DirectoryType(e) /\ n.entries = e /\ n.dirty = FALSE
  BY DEF DirectoryType

LEMMA EntriesPutDoes ==
  ASSUME NEW s, IsState(s), Sound(s), NEW P \in SUBSET DOMAIN s.dc, NEW data1, NEW t,
         data1 = [p \in DOMAIN s.data \cup {q \in P : s.dc[q].dirty} |->
                    IF p \in {q \in P : s.dc[q].dirty} THEN s.dc[p].entries ELSE s.data[p]],
         t = [s EXCEPT !.mc = Size(s, P), !.dc = Clean(s, P), !.data = data1]
  PROVE  EntriesPut(s, t, P) /\ IsState(t) /\ SameControl(s, t)
<1>1. /\ IsState(t) /\ SameControl(s, t) /\ t.dmeta = s.dmeta /\ t.fmeta = s.fmeta
      /\ t.mc = Size(s, P) /\ t.dc = Clean(s, P) /\ t.data = data1
  BY DEF IsState, SameControl
<1>2. \A p \in DOMAIN s.mc : s.mc[p] \in MetadataType
  BY DEF Sound, MetadataOK
<1>3. ASSUME NEW p \in DOMAIN s.mc
      PROVE  /\ t.mc[p] \in MetadataType
             /\ t.mc[p].kind = s.mc[p].kind /\ t.mc[p].id = s.mc[p].id
             /\ t.mc[p].count = s.mc[p].count /\ t.mc[p].expired = s.mc[p].expired
             /\ IF p \in P /\ s.dc[p].dirty THEN t.mc[p].sized /\ t.mc[p].dirty
                ELSE t.mc[p] = s.mc[p]
  <2>1. t.mc[p] = IF p \in P /\ s.dc[p].dirty
                    THEN [s.mc[p] EXCEPT !.sized = TRUE, !.dirty = TRUE] ELSE s.mc[p]
    BY <1>1 DEF Size
  <2>2. s.mc[p] \in MetadataType
    BY <1>2
  <2>3. CASE p \in P /\ s.dc[p].dirty
    <3>1. t.mc[p] = [s.mc[p] EXCEPT !.sized = TRUE, !.dirty = TRUE]
      BY <2>1, <2>3
    <3> QED
      BY <2>2, <2>3, <3>1, SizedMetadata
  <2>4. CASE ~(p \in P /\ s.dc[p].dirty)
    <3>1. t.mc[p] = s.mc[p]
      BY <2>1, <2>4
    <3> QED
      BY <2>2, <2>4, <3>1, Zenon
  <2> QED
    BY <2>3, <2>4
<1>4. DOMAIN t.mc = DOMAIN s.mc /\ t.mc \in [DOMAIN t.mc -> MetadataType]
  BY <1>1, <1>3 DEF Size
<1>5. ASSUME NEW p \in DOMAIN s.dc
      PROVE  /\ t.dc[p] \in DirectoryType(t.dc[p].entries)
             /\ t.dc[p].entries = s.dc[p].entries
             /\ IF p \in P THEN t.dc[p].dirty = FALSE ELSE t.dc[p] = s.dc[p]
  <2>1. t.dc[p] = IF p \in P THEN [s.dc[p] EXCEPT !.dirty = FALSE] ELSE s.dc[p]
    BY <1>1 DEF Clean
  <2>2. s.dc[p] \in DirectoryType(s.dc[p].entries)
    BY DEF Sound, DirectoriesOK
  <2>3. CASE p \in P
    <3>1. t.dc[p] = [s.dc[p] EXCEPT !.dirty = FALSE]
      BY <2>1, <2>3
    <3> DEFINE e == s.dc[p].entries
               m == s.dc[p]
               n == t.dc[p]
    <3>a. m \in DirectoryType(e) /\ n = [m EXCEPT !.dirty = FALSE]
      BY <2>2, <3>1
    <3> HIDE DEF e, m, n
    <3>b. n \in DirectoryType(e) /\ n.entries = e /\ n.dirty = FALSE
      BY ONLY <3>a, CleanDirectory
    <3>2. /\ t.dc[p] \in DirectoryType(s.dc[p].entries)
          /\ t.dc[p].entries = s.dc[p].entries /\ t.dc[p].dirty = FALSE
      BY <3>b DEF e, n
    <3>3. t.dc[p] \in DirectoryType(t.dc[p].entries)
      BY <3>2, Zenon
    <3> QED
      BY <2>3, <3>2, <3>3
  <2>4. CASE p \notin P
    BY <2>1, <2>2, <2>4
  <2> QED
    BY <2>3, <2>4
<1>6. DOMAIN t.dc = DOMAIN s.dc /\ t.dc = [p \in DOMAIN t.dc |-> t.dc[p]]
  BY <1>1 DEF Clean
<1>7. /\ t.data = [p \in DOMAIN t.data |-> t.data[p]]
      /\ \A p : p \in DOMAIN t.data <=> p \in DOMAIN s.data \/ (p \in P /\ s.dc[p].dirty)
      /\ \A p \in DOMAIN t.data :
           t.data[p] = IF p \in P /\ s.dc[p].dirty THEN s.dc[p].entries ELSE s.data[p]
  BY <1>1
<1> QED
  BY <1>1, <1>3, <1>4, <1>5, <1>6, <1>7 DEF EntriesPut

LEMMA EntriesPutInvisible ==
  ASSUME NEW s, NEW X, Good(s, X), NEW t, NEW P \in SUBSET DOMAIN s.dc, EntriesPut(s, t, P)
  PROVE  Invisible(s, t, X)
<1> USE DEF EntriesPut
<1>1. MetadataOK(s) /\ DirectoriesOK(s) /\ RecordsOK(s) /\ DataOK(s) /\ Sound(s) /\ OnePath(s, X)
      /\ DirectoriesCached(s)
  BY DEF Good, Sound
<1>2. \A p \in P : p \in DOMAIN s.mc /\ s.mc[p].kind = "dir" /\ p \in DirPaths
  BY <1>1 DEF DirectoriesCached, MetadataOK
<1>3. ASSUME NEW d
      PROVE  EntriesOf(t, d) = EntriesOf(s, d)
  <2>1. CASE d \in DOMAIN s.dc
    BY <2>1 DEF EntriesOf
  <2>2. CASE d \notin DOMAIN s.dc
    <3>1. d \notin P /\ d \notin DOMAIN t.dc
      BY <2>2
    <3>2. /\ d \in DOMAIN s.mc => t.mc[d] = s.mc[d]
          /\ d \in DOMAIN t.data <=> d \in DOMAIN s.data
          /\ d \in DOMAIN t.data => t.data[d] = s.data[d]
      BY <3>1
    <3> QED
      BY <2>2, <3>1, <3>2 DEF EntriesOf
  <2> QED
    BY <2>1, <2>2
<1>4. SameEntries(s, t)
  BY <1>3 DEF SameEntries
<1>5. \A p \in Paths : (Listed(t, p) <=> Listed(s, p)) /\ Listing(t, p) = Listing(s, p)
  BY <1>4, SameListing
<1>6. MetadataOK(t)
  BY <1>1 DEF MetadataOK
<1>7. DirectoriesOK(t)
  <2>1. ASSUME NEW p \in DOMAIN t.dc
        PROVE  p \in DirPaths /\ t.dc[p].dirty \in BOOLEAN /\ IsContent(p, t.dc[p].entries)
    <3>1. p \in DirPaths /\ s.dc[p].dirty \in BOOLEAN /\ IsContent(p, s.dc[p].entries)
      BY <1>1 DEF DirectoriesOK
    <3> QED
      BY <3>1
  <2> QED
    BY <2>1 DEF DirectoriesOK
<1>8. DataOK(t)
  <2>1. ASSUME NEW p \in DOMAIN t.data
        PROVE  p \in DirPaths /\ IsContent(p, t.data[p])
    <3>1. CASE p \in P /\ s.dc[p].dirty
      <4>1. t.data[p] = s.dc[p].entries
        BY <3>1
      <4> QED
        BY <1>1, <3>1, <4>1 DEF DirectoriesOK
    <3>2. CASE ~(p \in P /\ s.dc[p].dirty)
      <4>1. p \in DOMAIN s.data /\ t.data[p] = s.data[p]
        BY <3>2
      <4> QED
        BY <1>1, <4>1 DEF DataOK
    <3> QED
      BY <3>1, <3>2
  <2> QED
    BY <2>1 DEF DataOK
<1>9. RecordsOK(t)
  BY <1>1 DEF RecordsOK
<1>10. DirectoriesCached(t)
  BY <1>1 DEF DirectoriesCached
<1>11. CleanIsStored(t)
  <2> SUFFICES ASSUME NEW p \in DOMAIN t.dc, ~t.dc[p].dirty
               PROVE  /\ t.mc[p].sized
                      /\ t.dc[p].entries = IF p \in DOMAIN t.data THEN t.data[p] ELSE NoEntries
    BY DEF CleanIsStored
  <2>1. CASE p \in P /\ s.dc[p].dirty
    <3>1. p \in DOMAIN t.data /\ t.data[p] = s.dc[p].entries /\ t.dc[p].entries = s.dc[p].entries
      BY <2>1
    <3> QED
      BY <1>2, <2>1, <3>1
  <2>2. CASE ~(p \in P /\ s.dc[p].dirty)
    <3>1. ~s.dc[p].dirty
      BY <2>2
    <3>2. /\ s.mc[p].sized
          /\ s.dc[p].entries = IF p \in DOMAIN s.data THEN s.data[p] ELSE NoEntries
      BY <1>1, <3>1 DEF Sound, CleanIsStored
    <3>3. /\ t.mc[p] = s.mc[p] /\ t.dc[p].entries = s.dc[p].entries
          /\ p \in DOMAIN t.data <=> p \in DOMAIN s.data
          /\ p \in DOMAIN t.data => t.data[p] = s.data[p]
      BY <1>1, <2>2 DEF DirectoriesCached
    <3> QED
      BY <3>2, <3>3
  <2> QED
    BY <2>1, <2>2
<1>12. CleanIsRecorded(t)
  <2> SUFFICES ASSUME NEW p \in DOMAIN t.mc, ~t.mc[p].dirty
               PROVE  t.mc[p] = s.mc[p]
    BY <1>1 DEF Sound, CleanIsRecorded
  <2> QED
    OBVIOUS
<1>13. EntriesMatch(t)
  BY <1>1, <1>5 DEF Sound, EntriesMatch
<1>14. SizesStored(s) => SizesStored(t)
  <2>1. ASSUME SizesStored(s), NEW p \in DOMAIN t.mc, t.mc[p].kind = "dir", t.mc[p].sized
        PROVE  p \in DOMAIN t.data
    BY <2>1 DEF SizesStored
  <2> QED
    BY <2>1 DEF SizesStored
<1>15. DataNamed(s) => DataNamed(t)
  <2>1. ASSUME DataNamed(s), NEW p \in DOMAIN t.data
        PROVE  IF p \in DOMAIN t.mc THEN t.mc[p].kind = "dir" /\ t.mc[p].sized
               ELSE p \in DOMAIN t.dmeta /\ t.dmeta[p].sized
    <3>1. CASE p \in P /\ s.dc[p].dirty
      BY <1>2, <3>1
    <3>2. CASE ~(p \in P /\ s.dc[p].dirty)
      BY <2>1, <3>2 DEF DataNamed
    <3> QED
      BY <3>1, <3>2
  <2> QED
    BY <2>1 DEF DataNamed
<1>16. Sound(t)
  BY <1>1, <1>6, <1>7, <1>8, <1>9, <1>10, <1>11, <1>12, <1>13, <1>14, <1>15 DEF Sound
<1>17. NoNewPlaces(s, t)
  <2>1. \A i, p : CachedAt(t, i, p) <=> CachedAt(s, i, p)
    BY DEF CachedAt
  <2>2. ASSUME NEW i, NEW p, EntryAt(t, i, p)
        PROVE  EntryAt(s, i, p)
    <3> DEFINE d == Parent(p)
               n == Name(p)
    <3>1. CASE d \in DOMAIN t.dc /\ n \in DOMAIN t.dc[d].entries /\ t.dc[d].entries[n].id = i
      BY <3>1 DEF EntryAt
    <3>2. CASE /\ d \in DOMAIN t.data /\ n \in DOMAIN t.data[d] /\ t.data[d][n].id = i
               /\ d \notin DOMAIN t.dc \/ ~Calm
      <4>1. CASE d \in P /\ s.dc[d].dirty
        <5>1. t.data[d] = s.dc[d].entries /\ d \in DOMAIN s.dc
          BY <3>2, <4>1
        <5> QED
          BY <3>2, <5>1 DEF EntryAt
      <4>2. CASE ~(d \in P /\ s.dc[d].dirty)
        <5>1. d \in DOMAIN s.data /\ t.data[d] = s.data[d]
          BY <3>2, <4>2
        <5> QED
          BY <3>2, <5>1 DEF EntryAt
      <4> QED
        BY <4>1, <4>2
    <3> QED
      BY <2>2, <3>1, <3>2 DEF EntryAt
  <2> QED
    BY <2>1, <2>2 DEF NoNewPlaces, At
<1>18. OnePath(t, X)
  BY <1>1, <1>17, OnePathKept
<1>19. Linked(s, X) => Linked(t, X)
  BY <1>5 DEF Linked, LinkedAt, Unused
<1>20. \A p, e : Resolve(t, p, e) = Resolve(s, p, e)
  BY DEF Resolve
<1>21. \A p \in Paths : SameNode(s, t, p)
  BY <1>5, <1>20 DEF SameNode, Node
<1> QED
  BY <1>4, <1>16, <1>18, <1>19, <1>21 DEF Good, Invisible

\* t differs from s at the paths of P alone, and still caches the metadata of the
\* objects that s caches.
OnlyAt(s, t, P) ==
  /\ t.fmeta = s.fmeta
  /\ \A p \in DOMAIN s.mc :
       p \in DOMAIN t.mc /\ t.mc[p].kind = s.mc[p].kind /\ t.mc[p].id = s.mc[p].id
  /\ \A p : p \notin P =>
       /\ p \in DOMAIN t.mc <=> p \in DOMAIN s.mc
       /\ p \in DOMAIN t.mc => t.mc[p] = s.mc[p]
       /\ p \in DOMAIN t.dc <=> p \in DOMAIN s.dc
       /\ p \in DOMAIN t.dc => t.dc[p] = s.dc[p]
       /\ p \in DOMAIN t.dmeta <=> p \in DOMAIN s.dmeta
       /\ p \in DOMAIN t.data <=> p \in DOMAIN s.data

LEMMA OnlyAtTwice ==
  ASSUME NEW s, NEW t, NEW u, NEW P, OnlyAt(s, t, P), OnlyAt(t, u, P)
  PROVE  OnlyAt(s, u, P)
  BY DEF OnlyAt

LEMMA OnlyAtMore ==
  ASSUME NEW s, NEW t, NEW P, NEW Q, OnlyAt(s, t, P), P \subseteq Q
  PROVE  OnlyAt(s, t, Q)
  BY DEF OnlyAt

\* Reference counts and times stay.
SameCounts(s, t) ==
  /\ DOMAIN t.mc = DOMAIN s.mc
  /\ \A p \in DOMAIN s.mc : t.mc[p].count = s.mc[p].count /\ t.mc[p].expired = s.mc[p].expired

LEMMA FlushDirectoryDoes ==
  ASSUME NEW s, NEW X, IsState(s), Good(s, X), NEW P \in SUBSET DOMAIN s.dc,
         NEW t, t = FlushDirectory(s, P)
  PROVE  /\ IsState(t) /\ SameControl(s, t) /\ Invisible(s, t, X)
         /\ OnlyAt(s, t, P) /\ SameCounts(s, t)
         /\ DOMAIN t.dc = DOMAIN s.dc
         /\ \A p \in DOMAIN s.dc : t.dc[p].entries = s.dc[p].entries
         /\ \A p \in P : ~t.dc[p].dirty /\ ~t.mc[p].dirty
<1> DEFINE dirty == {q \in P : s.dc[q].dirty}
           data1 == [p \in DOMAIN s.data \cup dirty |->
                       IF p \in dirty THEN s.dc[p].entries ELSE s.data[p]]
           u == [s EXCEPT !.mc = Size(s, P), !.dc = Clean(s, P), !.data = data1]
<1>1. t = FlushMetadata(u, P)
  BY DEF FlushDirectory
<1>2. data1 = [p \in DOMAIN s.data \cup {q \in P : s.dc[q].dirty} |->
                 IF p \in {q \in P : s.dc[q].dirty} THEN s.dc[p].entries ELSE s.data[p]]
  OBVIOUS
<1>3. u = [s EXCEPT !.mc = Size(s, P), !.dc = Clean(s, P), !.data = data1]
  OBVIOUS
<1> HIDE DEF data1, u
<1>4. Sound(s) /\ DirectoriesCached(s)
  BY DEF Good, Sound
<1>5. EntriesPut(s, u, P) /\ IsState(u) /\ SameControl(s, u)
  BY <1>2, <1>3, <1>4, EntriesPutDoes
<1>6. Invisible(s, u, X)
  BY <1>5, EntriesPutInvisible
<1>7. Good(u, X) /\ MetadataOK(u) /\ RecordsOK(u)
  BY <1>6 DEF Invisible, Good, Sound
<1>8. \A p \in P : p \in DOMAIN s.mc /\ s.mc[p].kind = "dir"
  BY <1>4 DEF DirectoriesCached
<1>9. P \in SUBSET DOMAIN u.mc /\ \A p \in P : u.mc[p].kind = "dir"
  BY <1>5, <1>8 DEF EntriesPut
<1>10. MetadataFlushed(u, t, P) /\ IsState(t) /\ SameControl(u, t)
  BY <1>1, <1>5, <1>7, <1>9, FlushMetadataDoes
<1>11. Invisible(u, t, X)
  BY <1>7, <1>9, <1>10, FlushMetadataInvisible
<1>12. t.fmeta = s.fmeta
  <2>1. \A i : i \in t.fmeta <=> i \in u.fmeta
    BY <1>9, <1>10 DEF MetadataFlushed
  <2>2. t.fmeta \subseteq Ids /\ u.fmeta \subseteq Ids
    BY <1>7, <1>11 DEF RecordsOK, Invisible, Good, Sound
  <2> QED
    BY <1>5, <2>1, <2>2 DEF EntriesPut
<1>13. ASSUME NEW p \in DOMAIN s.mc
       PROVE  /\ p \in DOMAIN t.mc /\ t.mc[p].kind = s.mc[p].kind /\ t.mc[p].id = s.mc[p].id
              /\ t.mc[p].count = s.mc[p].count /\ t.mc[p].expired = s.mc[p].expired
  BY <1>5, <1>10 DEF EntriesPut, MetadataFlushed
<1>14. DOMAIN t.mc = DOMAIN s.mc /\ DOMAIN t.dc = DOMAIN s.dc
  BY <1>5, <1>10 DEF EntriesPut, MetadataFlushed
<1>15. SameCounts(s, t)
  BY <1>13, <1>14 DEF SameCounts
<1>16. ASSUME NEW p, p \notin P
       PROVE  /\ p \in DOMAIN t.mc => t.mc[p] = s.mc[p]
              /\ p \in DOMAIN t.dc => t.dc[p] = s.dc[p]
              /\ p \in DOMAIN t.dmeta <=> p \in DOMAIN s.dmeta
              /\ p \in DOMAIN t.data <=> p \in DOMAIN s.data
  BY <1>5, <1>10, <1>16 DEF EntriesPut, MetadataFlushed
<1>17. OnlyAt(s, t, P)
  BY <1>12, <1>13, <1>14, <1>16 DEF OnlyAt
<1>18. \A p \in DOMAIN s.dc : t.dc[p].entries = s.dc[p].entries
  BY <1>5, <1>10 DEF EntriesPut, MetadataFlushed
<1>19. \A p \in P : ~t.dc[p].dirty /\ ~t.mc[p].dirty
  <2>1. \A p \in P : u.dc[p].dirty = FALSE
    BY <1>5 DEF EntriesPut
  <2>2. \A p \in P : t.dc[p] = u.dc[p] /\ ~t.mc[p].dirty
    BY <1>9, <1>10 DEF MetadataFlushed
  <2> QED
    BY <2>1, <2>2
<1>20. SameControl(s, t)
  BY <1>5, <1>10 DEF SameControl
<1> QED
  BY <1>6, <1>10, <1>11, <1>14, <1>15, <1>17, <1>18, <1>19, <1>20, InvisibleTwice

\* directory_cache forgets directories that are written.
DirectoriesDropped(s, t, P) ==
  /\ t.mc = s.mc /\ t.dmeta = s.dmeta /\ t.fmeta = s.fmeta /\ t.data = s.data
  /\ t.dc = [p \in DOMAIN s.dc \ P |-> s.dc[p]]

LEMMA DropInvisible ==
  ASSUME NEW s, NEW X, Good(s, X), NEW P \in SUBSET DOMAIN s.dc, \A p \in P : ~s.dc[p].dirty,
         NEW t, DirectoriesDropped(s, t, P)
  PROVE  Invisible(s, t, X)
<1> USE DEF DirectoriesDropped
<1>1. MetadataOK(s) /\ DirectoriesOK(s) /\ RecordsOK(s) /\ DataOK(s) /\ Sound(s) /\ OnePath(s, X)
      /\ DirectoriesCached(s) /\ CleanIsStored(s)
  BY DEF Good, Sound
<1>2. /\ DOMAIN t.dc = DOMAIN s.dc \ P
      /\ \A p \in DOMAIN t.dc : t.dc[p] = s.dc[p]
      /\ t.dc = [p \in DOMAIN t.dc |-> t.dc[p]]
  OBVIOUS
<1>3. \A p \in P : /\ p \in DOMAIN s.mc /\ s.mc[p].kind = "dir" /\ s.mc[p].sized
                   /\ s.dc[p].entries = IF p \in DOMAIN s.data THEN s.data[p] ELSE NoEntries
  BY <1>1 DEF DirectoriesCached, CleanIsStored
<1>4. ASSUME NEW d
      PROVE  EntriesOf(t, d) = EntriesOf(s, d)
  <2>1. CASE d \in P
    BY <1>2, <1>3, <2>1 DEF EntriesOf
  <2>2. CASE d \notin P
    BY <1>2, <2>2 DEF EntriesOf
  <2> QED
    BY <2>1, <2>2
<1>5. SameEntries(s, t)
  BY <1>4 DEF SameEntries
<1>6. \A p \in Paths : (Listed(t, p) <=> Listed(s, p)) /\ Listing(t, p) = Listing(s, p)
  BY <1>5, SameListing
<1>7. MetadataOK(t) /\ RecordsOK(t) /\ DataOK(t) /\ CleanIsRecorded(t)
  BY <1>1 DEF MetadataOK, RecordsOK, DataOK, CleanIsRecorded, Sound
<1>8. DirectoriesOK(t)
  BY <1>1, <1>2 DEF DirectoriesOK
<1>9. DirectoriesCached(t)
  BY <1>1, <1>2 DEF DirectoriesCached
<1>10. CleanIsStored(t)
  BY <1>1, <1>2 DEF CleanIsStored
<1>11. EntriesMatch(t)
  BY <1>1, <1>6 DEF Sound, EntriesMatch
<1>12. SizesStored(s) => SizesStored(t)
  BY DEF SizesStored
<1>13. DataNamed(s) => DataNamed(t)
  BY DEF DataNamed
<1>14. Sound(t)
  BY <1>1, <1>7, <1>8, <1>9, <1>10, <1>11, <1>12, <1>13 DEF Sound
<1>15. NoNewPlaces(s, t)
  <2>1. \A i, p : CachedAt(t, i, p) <=> CachedAt(s, i, p)
    BY DEF CachedAt
  <2>2. ASSUME NEW i, NEW p, EntryAt(t, i, p)
        PROVE  EntryAt(s, i, p)
    <3> DEFINE d == Parent(p)
               n == Name(p)
    <3>1. CASE d \in DOMAIN t.dc /\ n \in DOMAIN t.dc[d].entries /\ t.dc[d].entries[n].id = i
      BY <1>2, <3>1 DEF EntryAt
    <3>2. CASE /\ d \in DOMAIN t.data /\ n \in DOMAIN t.data[d] /\ t.data[d][n].id = i
               /\ d \notin DOMAIN t.dc \/ ~Calm
      <4>1. CASE d \in P
        BY <1>3, <3>2, <4>1 DEF EntryAt
      <4>2. CASE d \notin P
        BY <1>2, <3>2, <4>2 DEF EntryAt
      <4> QED
        BY <4>1, <4>2
    <3> QED
      BY <2>2, <3>1, <3>2 DEF EntryAt
  <2> QED
    BY <2>1, <2>2 DEF NoNewPlaces, At
<1>16. OnePath(t, X)
  BY <1>1, <1>15, OnePathKept
<1>17. Linked(s, X) => Linked(t, X)
  BY <1>6 DEF Linked, LinkedAt, Unused
<1>18. \A p, e : Resolve(t, p, e) = Resolve(s, p, e)
  BY DEF Resolve
<1>19. \A p \in Paths : SameNode(s, t, p)
  BY <1>6, <1>18 DEF SameNode, Node
<1> QED
  BY <1>5, <1>14, <1>16, <1>17, <1>19 DEF Good, Invisible

LEMMA EraseDirectoryDoes ==
  ASSUME NEW s, NEW X, IsState(s), Good(s, X), NEW P \in SUBSET DOMAIN s.dc,
         NEW t, t = EraseDirectory(s, P)
  PROVE  /\ IsState(t) /\ SameControl(s, t) /\ Invisible(s, t, X)
         /\ OnlyAt(s, t, P) /\ SameCounts(s, t)
         /\ DOMAIN t.dc = DOMAIN s.dc \ P
         /\ \A p \in P : ~t.mc[p].dirty
<1> DEFINE u == FlushDirectory(s, P)
<1>1. t = [u EXCEPT !.dc = Restrict(@, DOMAIN @ \ P)]
  BY DEF EraseDirectory
<1>2. u = FlushDirectory(s, P)
  OBVIOUS
<1> HIDE DEF u
<1>3. /\ IsState(u) /\ SameControl(s, u) /\ Invisible(s, u, X)
      /\ OnlyAt(s, u, P) /\ SameCounts(s, u)
      /\ DOMAIN u.dc = DOMAIN s.dc
      /\ \A p \in P : ~u.dc[p].dirty /\ ~u.mc[p].dirty
  BY <1>2, FlushDirectoryDoes
<1>4. /\ IsState(t) /\ SameControl(u, t) /\ t.mc = u.mc /\ t.dmeta = u.dmeta
      /\ t.fmeta = u.fmeta /\ t.data = u.data /\ t.dc = Restrict(u.dc, DOMAIN u.dc \ P)
  BY <1>1, <1>3 DEF IsState, SameControl
<1>5. DirectoriesDropped(u, t, P)
  BY <1>4 DEF DirectoriesDropped, Restrict
<1>6. Invisible(u, t, X)
  BY <1>3, <1>5, DropInvisible DEF Invisible
<1>7. OnlyAt(u, t, P)
  BY <1>5 DEF OnlyAt, DirectoriesDropped
<1>8. SameCounts(s, t) /\ SameControl(s, t)
  BY <1>3, <1>4 DEF SameCounts, SameControl
<1>9. DOMAIN t.dc = DOMAIN s.dc \ P
  BY <1>3, <1>5 DEF DirectoriesDropped
<1> QED
  BY <1>3, <1>4, <1>6, <1>7, <1>8, <1>9, InvisibleTwice, OnlyAtTwice

\* cache forgets metadata that is written.
MetadataDropped(s, t, P) ==
  /\ t.dc = s.dc /\ t.dmeta = s.dmeta /\ t.fmeta = s.fmeta /\ t.data = s.data
  /\ t.mc = [p \in DOMAIN s.mc \ P |-> s.mc[p]]

LEMMA DropMetadataInvisible ==
  ASSUME NEW s, Good(s, {}), NEW P \in SUBSET DOMAIN s.mc, P \cap DOMAIN s.dc = {},
         \A p \in P : ~s.mc[p].dirty, NEW t, MetadataDropped(s, t, P)
  PROVE  Invisible(s, t, {})
<1> USE DEF MetadataDropped
<1>1. /\ MetadataOK(s) /\ DirectoriesOK(s) /\ RecordsOK(s) /\ DataOK(s) /\ Sound(s)
      /\ OnePath(s, {}) /\ DirectoriesCached(s) /\ CleanIsStored(s) /\ CleanIsRecorded(s)
      /\ EntriesMatch(s)
  BY DEF Good, Sound
<1>2. /\ DOMAIN t.mc = DOMAIN s.mc \ P
      /\ \A p \in DOMAIN t.mc : t.mc[p] = s.mc[p]
      /\ t.mc = [p \in DOMAIN t.mc |-> t.mc[p]]
  OBVIOUS
<1>3. \A p \in P :
        IF s.mc[p].kind = "dir"
          THEN /\ p \in DOMAIN s.dmeta
               /\ s.dmeta[p].id = s.mc[p].id /\ s.dmeta[p].sized = s.mc[p].sized
          ELSE s.mc[p].id \in s.fmeta
  BY <1>1 DEF CleanIsRecorded
<1>4. ASSUME NEW d
      PROVE  EntriesOf(t, d) = EntriesOf(s, d)
  <2>1. CASE d \in P
    <3>1. d \notin DOMAIN s.dc /\ d \in DOMAIN s.mc /\ d \notin DOMAIN t.mc
      BY <1>2, <2>1
    <3>2. CASE s.mc[d].kind = "dir"
      BY <1>3, <2>1, <3>1, <3>2 DEF EntriesOf
    <3>3. CASE s.mc[d].kind # "dir"
      BY <3>1, <3>3 DEF EntriesOf
    <3> QED
      BY <3>2, <3>3
  <2>2. CASE d \notin P
    <3>1. (d \in DOMAIN t.mc <=> d \in DOMAIN s.mc) /\ (d \in DOMAIN t.mc => t.mc[d] = s.mc[d])
      BY <1>2, <2>2
    <3> QED
      BY <3>1 DEF EntriesOf
  <2> QED
    BY <2>1, <2>2
<1>5. SameEntries(s, t)
  BY <1>4 DEF SameEntries
<1>6. \A p \in Paths : (Listed(t, p) <=> Listed(s, p)) /\ Listing(t, p) = Listing(s, p)
  BY <1>5, SameListing
<1>7. DirectoriesOK(t) /\ RecordsOK(t) /\ DataOK(t)
  BY <1>1 DEF DirectoriesOK, RecordsOK, DataOK
<1>8. MetadataOK(t)
  BY <1>1, <1>2 DEF MetadataOK
<1>9. \A p \in DOMAIN s.dc : p \in DOMAIN t.mc /\ t.mc[p] = s.mc[p]
  BY <1>1, <1>2 DEF DirectoriesCached
<1>10. DirectoriesCached(t) /\ CleanIsStored(t)
  BY <1>1, <1>9 DEF DirectoriesCached, CleanIsStored
<1>11. CleanIsRecorded(t)
  BY <1>1, <1>2 DEF CleanIsRecorded
<1>12. EntriesMatch(t)
  BY <1>1, <1>2, <1>6 DEF EntriesMatch
<1>13. SizesStored(s) => SizesStored(t)
  BY <1>2 DEF SizesStored
<1>14. DataNamed(s) => DataNamed(t)
  <2>1. ASSUME DataNamed(s), NEW p \in DOMAIN t.data
        PROVE  IF p \in DOMAIN t.mc THEN t.mc[p].kind = "dir" /\ t.mc[p].sized
               ELSE p \in DOMAIN t.dmeta /\ t.dmeta[p].sized
    <3>1. CASE p \in P
      BY <1>2, <1>3, <2>1, <3>1 DEF DataNamed
    <3>2. CASE p \notin P
      BY <1>2, <2>1, <3>2 DEF DataNamed
    <3> QED
      BY <3>1, <3>2
  <2> QED
    BY <2>1 DEF DataNamed
<1>15. Sound(t)
  BY <1>1, <1>7, <1>8, <1>10, <1>11, <1>12, <1>13, <1>14 DEF Sound
<1>16. NoNewPlaces(s, t)
  <2>1. \A i, p : CachedAt(t, i, p) => CachedAt(s, i, p)
    BY <1>2 DEF CachedAt
  <2>2. \A i, p : EntryAt(t, i, p) <=> EntryAt(s, i, p)
    BY DEF EntryAt
  <2> QED
    BY <2>1, <2>2 DEF NoNewPlaces, At
<1>17. OnePath(t, {})
  BY <1>1, <1>16, OnePathKept
<1>18. Linked(s, {}) => Linked(t, {})
  <2>1. ASSUME NEW p \in Paths, LinkedAt(s, p)
        PROVE  LinkedAt(t, p)
    <3>1. CASE p \in P /\ Listed(s, p)
      <4>1. /\ Listing(s, p).kind = s.mc[p].kind
            /\ s.mc[p].kind = "file" => Listing(s, p).id = s.mc[p].id
            /\ s.mc[p].kind \in {"file", "dir"}
        BY <1>1, <3>1 DEF EntriesMatch, MetadataOK, MetadataType
      <4> QED
        BY <1>2, <1>3, <1>6, <2>1, <3>1, <4>1 DEF LinkedAt
    <3>2. CASE p \in P /\ ~Listed(s, p)
      BY <2>1, <3>2 DEF LinkedAt, Unused
    <3>3. CASE p \notin P
      <4>1. p \in DOMAIN t.mc <=> p \in DOMAIN s.mc
        BY <1>2, <3>3
      <4> QED
        BY <1>6, <2>1, <4>1 DEF LinkedAt, Unused
    <3> QED
      BY <3>1, <3>2, <3>3
  <2> QED
    BY <2>1 DEF Linked
<1>19. ASSUME NEW p \in Paths, Listed(s, p)
       PROVE  Resolve(t, p, Listing(s, p)) = Resolve(s, p, Listing(s, p))
  <2>1. CASE p \in P
    <3>1. /\ Listing(s, p).kind = s.mc[p].kind
          /\ s.mc[p].kind = "file" => Listing(s, p).id = s.mc[p].id
          /\ s.mc[p].kind \in {"file", "dir"}
      BY <1>1, <1>19, <2>1 DEF EntriesMatch, MetadataOK, MetadataType
    <3>2. Resolve(s, p, Listing(s, p)) = s.mc[p].id
      BY <2>1 DEF Resolve
    <3> QED
      BY <1>2, <1>3, <2>1, <3>1, <3>2 DEF Resolve
  <2>2. CASE p \notin P
    <3>1. (p \in DOMAIN t.mc <=> p \in DOMAIN s.mc) /\ (p \in DOMAIN t.mc => t.mc[p] = s.mc[p])
      BY <1>2, <2>2
    <3> QED
      BY <3>1 DEF Resolve
  <2> QED
    BY <2>1, <2>2
<1>20. \A p \in Paths : SameNode(s, t, p)
  BY <1>6, <1>19 DEF SameNode, Node
<1> QED
  BY <1>5, <1>15, <1>17, <1>18, <1>20 DEF Good, Invisible

\* The root is cached or on the backend.
RootKnown(s) == Root \in DOMAIN s.mc \/ Root \in DOMAIN s.dmeta

LEMMA EraseMetadataDoes ==
  ASSUME NEW s, IsState(s), Good(s, {}), NEW P \in SUBSET DOMAIN s.mc, P \cap DOMAIN s.dc = {},
         NEW t, t = EraseMetadata(s, P)
  PROVE  /\ IsState(t) /\ SameControl(s, t) /\ Invisible(s, t, {}) /\ t.dc = s.dc
         /\ DOMAIN t.mc = DOMAIN s.mc \ P
         /\ \A p \in DOMAIN t.mc : t.mc[p] = s.mc[p]
         /\ RootKnown(s) => RootKnown(t)
<1> DEFINE u == FlushMetadata(s, P)
<1>1. t = [u EXCEPT !.mc = Restrict(@, DOMAIN @ \ P)]
  BY DEF EraseMetadata
<1>2. u = FlushMetadata(s, P)
  OBVIOUS
<1> HIDE DEF u
<1>3. MetadataOK(s) /\ RecordsOK(s)
  BY DEF Good, Sound
<1>4. MetadataFlushed(s, u, P) /\ IsState(u) /\ SameControl(s, u)
  BY <1>2, <1>3, FlushMetadataDoes
<1>5. Invisible(s, u, {})
  BY <1>4, FlushMetadataInvisible
<1>6. /\ IsState(t) /\ SameControl(u, t) /\ t.dc = u.dc /\ t.dmeta = u.dmeta
      /\ t.fmeta = u.fmeta /\ t.data = u.data /\ t.mc = Restrict(u.mc, DOMAIN u.mc \ P)
  BY <1>1, <1>4 DEF IsState, SameControl
<1>7. MetadataDropped(u, t, P)
  BY <1>6 DEF MetadataDropped, Restrict
<1>8. P \in SUBSET DOMAIN u.mc /\ P \cap DOMAIN u.dc = {} /\ \A p \in P : ~u.mc[p].dirty
  BY <1>4 DEF MetadataFlushed
<1>9. Invisible(u, t, {})
  BY <1>5, <1>7, <1>8, DropMetadataInvisible DEF Invisible
<1>10. /\ DOMAIN t.mc = DOMAIN s.mc \ P /\ t.dc = s.dc
       /\ \A p \in DOMAIN t.mc : t.mc[p] = s.mc[p]
  <2>1. DOMAIN t.mc = DOMAIN u.mc \ P /\ \A p \in DOMAIN t.mc : t.mc[p] = u.mc[p]
    BY <1>7 DEF MetadataDropped
  <2> QED
    BY <1>4, <1>6, <2>1 DEF MetadataFlushed
<1>11. RootKnown(s) => RootKnown(t)
  <2>1. CASE Root \in DOMAIN s.dmeta
    <3>1. Root \in DOMAIN u.dmeta
      BY <1>4, <2>1 DEF MetadataFlushed
    <3> QED
      BY <1>6, <3>1 DEF RootKnown
  <2>2. CASE Root \in DOMAIN s.mc /\ Root \in P
    <3>1. u.mc[Root].kind = "dir" /\ ~u.mc[Root].dirty /\ Root \in DOMAIN u.mc
      BY <1>3, <1>4, <2>2 DEF MetadataFlushed, MetadataOK
    <3>2. Root \in DOMAIN u.dmeta
      BY <1>5, <3>1 DEF Invisible, Good, Sound, CleanIsRecorded
    <3> QED
      BY <1>6, <3>2 DEF RootKnown
  <2>3. CASE Root \in DOMAIN s.mc /\ Root \notin P
    BY <1>10, <2>3 DEF RootKnown
  <2> QED
    BY <2>1, <2>2, <2>3 DEF RootKnown
<1>12. SameControl(s, t)
  BY <1>4, <1>6 DEF SameControl
<1> QED
  BY <1>5, <1>6, <1>9, <1>10, <1>11, <1>12, InvisibleTwice

LEMMA OnlyAtKeepsRoot ==
  ASSUME NEW s, NEW t, NEW P, DirectoriesCached(s), OnlyAt(s, t, P), P \subseteq DOMAIN s.dc,
         RootKnown(s)
  PROVE  RootKnown(t)
  BY DEF RootKnown, OnlyAt, DirectoriesCached

\* One round of the background worker.
LEMMA FlushFilesDoes ==
  ASSUME NEW s, IsState(s), Good(s, {}), NEW t, t = FlushFiles(s)
  PROVE  /\ IsState(t) /\ SameControl(s, t) /\ Invisible(s, t, {}) /\ SameCounts(s, t)
         /\ t.dc = s.dc
         /\ RootKnown(s) => RootKnown(t)
         /\ \A p \in DOMAIN s.mc : t.mc[p].kind = s.mc[p].kind
<1> DEFINE P == {p \in DOMAIN s.mc : s.mc[p].kind = "file"}
<1>1. t = FlushMetadata(s, P) /\ P \in SUBSET DOMAIN s.mc
  BY DEF FlushFiles
<1> HIDE DEF P
<1>2. MetadataOK(s) /\ RecordsOK(s)
  BY DEF Good, Sound
<1>3. MetadataFlushed(s, t, P) /\ IsState(t) /\ SameControl(s, t)
  BY <1>1, <1>2, FlushMetadataDoes
<1>4. Invisible(s, t, {})
  BY <1>1, <1>3, FlushMetadataInvisible
<1>5. RootKnown(s) => RootKnown(t)
  BY <1>3 DEF RootKnown, MetadataFlushed
<1> QED
  BY <1>3, <1>4, <1>5 DEF MetadataFlushed, SameCounts

LEMMA FlushDirectoriesDoes ==
  ASSUME NEW s, IsState(s), Good(s, {}), NEW t, t = FlushDirectories(s)
  PROVE  /\ IsState(t) /\ SameControl(s, t) /\ Invisible(s, t, {}) /\ SameCounts(s, t)
         /\ DOMAIN t.dc = DOMAIN s.dc
         /\ RootKnown(s) => RootKnown(t)
         /\ \A p \in DOMAIN s.mc : t.mc[p].kind = s.mc[p].kind
<1> DEFINE P == {p \in DOMAIN s.dc : s.mc[p].dirty}
<1>1. t = FlushDirectory(s, P) /\ P \in SUBSET DOMAIN s.dc
  BY DEF FlushDirectories
<1> HIDE DEF P
<1>2. /\ IsState(t) /\ SameControl(s, t) /\ Invisible(s, t, {}) /\ SameCounts(s, t)
      /\ DOMAIN t.dc = DOMAIN s.dc /\ OnlyAt(s, t, P)
  BY <1>1, FlushDirectoryDoes
<1>3. DirectoriesCached(s)
  BY DEF Good, Sound
<1>4. RootKnown(s) => RootKnown(t)
  BY <1>1, <1>2, <1>3, OnlyAtKeepsRoot
<1> QED
  BY <1>2, <1>4 DEF OnlyAt

LEMMA SameValid ==
  ASSUME NEW s, NEW t, SameCounts(s, t), NEW p \in DOMAIN s.mc
  PROVE  Valid(t.mc[p]) <=> Valid(s.mc[p])
  BY DEF SameCounts, Valid

LEMMA WorkerDoes ==
  ASSUME NEW s, IsState(s), Good(s, {}), NEW t,
         t = DropMetadata(DropDirectories(FlushDirectories(FlushFiles(s))))
  PROVE  /\ IsState(t) /\ SameControl(s, t) /\ Invisible(s, t, {})
         /\ Counted(s, {}) => Counted(t, {})
         /\ RootKnown(s) => RootKnown(t)
<1> DEFINE s1 == FlushFiles(s)
           s2 == FlushDirectories(s1)
           P == {p \in DOMAIN s2.dc : ~Valid(s2.mc[p])}
           s3 == EraseDirectory(s2, P)
           Q == {p \in DOMAIN s3.mc : ~Valid(s3.mc[p])}
<1>1. t = EraseMetadata(s3, Q)
  BY DEF DropMetadata, DropDirectories
<1>2. /\ s1 = FlushFiles(s) /\ s2 = FlushDirectories(s1) /\ s3 = EraseDirectory(s2, P)
      /\ P \in SUBSET DOMAIN s2.dc /\ Q \in SUBSET DOMAIN s3.mc
      /\ \A p \in DOMAIN s2.dc : p \notin P => Valid(s2.mc[p])
      /\ \A p \in Q : ~Valid(s3.mc[p])
      /\ \A p \in P : ~Valid(s2.mc[p])
      /\ \A p \in DOMAIN s3.mc : p \notin Q => Valid(s3.mc[p])
  OBVIOUS
<1> HIDE DEF s1, s2, s3, P, Q
<1>3. /\ IsState(s1) /\ SameControl(s, s1) /\ Invisible(s, s1, {}) /\ SameCounts(s, s1)
      /\ s1.dc = s.dc
      /\ RootKnown(s) => RootKnown(s1)
      /\ \A p \in DOMAIN s.mc : s1.mc[p].kind = s.mc[p].kind
  BY <1>2, FlushFilesDoes
<1>4. Good(s1, {})
  BY <1>3 DEF Invisible
<1>5. /\ IsState(s2) /\ SameControl(s1, s2) /\ Invisible(s1, s2, {}) /\ SameCounts(s1, s2)
      /\ DOMAIN s2.dc = DOMAIN s1.dc
      /\ RootKnown(s1) => RootKnown(s2)
      /\ \A p \in DOMAIN s1.mc : s2.mc[p].kind = s1.mc[p].kind
  BY <1>2, <1>3, <1>4, FlushDirectoriesDoes
<1>6. Good(s2, {}) /\ DirectoriesCached(s2)
  BY <1>5 DEF Invisible, Good, Sound
<1>7. /\ IsState(s3) /\ SameControl(s2, s3) /\ Invisible(s2, s3, {})
      /\ OnlyAt(s2, s3, P) /\ SameCounts(s2, s3)
      /\ DOMAIN s3.dc = DOMAIN s2.dc \ P
  BY <1>2, <1>5, <1>6, EraseDirectoryDoes
<1>8. /\ Good(s3, {})
      /\ DirectoriesCached(s3)
      /\ RootKnown(s2) => RootKnown(s3)
  BY <1>2, <1>6, <1>7, OnlyAtKeepsRoot DEF Invisible, Good, Sound
<1>9. Q \cap DOMAIN s3.dc = {}
  <2>1. ASSUME NEW p \in DOMAIN s3.dc
        PROVE  Valid(s3.mc[p])
    <3>1. p \in DOMAIN s2.dc /\ p \notin P /\ p \in DOMAIN s2.mc
      BY <1>6, <1>7 DEF DirectoriesCached
    <3> QED
      BY <1>2, <1>7, <3>1, SameValid
  <2> QED
    BY <1>2, <2>1
<1>10. /\ IsState(t) /\ SameControl(s3, t) /\ Invisible(s3, t, {}) /\ t.dc = s3.dc
       /\ DOMAIN t.mc = DOMAIN s3.mc \ Q /\ \A p \in DOMAIN t.mc : t.mc[p] = s3.mc[p]
       /\ RootKnown(s3) => RootKnown(t)
  BY <1>1, <1>2, <1>7, <1>8, <1>9, EraseMetadataDoes
<1>11. Counted(s, {}) => Counted(t, {})
  <2> SUFFICES ASSUME Counted(s, {}), NEW p \in DOMAIN t.mc
               PROVE  t.mc[p].count \in Counts /\ (t.mc[p].kind = "dir" => p \in DOMAIN t.dc)
    BY DEF Counted
  <2>1. p \in DOMAIN s3.mc /\ p \notin Q /\ t.mc[p] = s3.mc[p]
    BY <1>10
  <2>2. /\ p \in DOMAIN s2.mc /\ p \in DOMAIN s1.mc /\ p \in DOMAIN s.mc
        /\ s3.mc[p].count = s2.mc[p].count /\ s2.mc[p].count = s1.mc[p].count
        /\ s1.mc[p].count = s.mc[p].count
    BY <1>3, <1>5, <1>7, <2>1 DEF SameCounts
  <2>3. /\ s3.mc[p].kind = s2.mc[p].kind /\ s2.mc[p].kind = s1.mc[p].kind
        /\ s1.mc[p].kind = s.mc[p].kind
    BY <1>3, <1>5, <1>7, <2>2 DEF OnlyAt
  <2>4. t.mc[p].count \in Counts
    BY <2>1, <2>2 DEF Counted
  <2>5. ASSUME t.mc[p].kind = "dir"
        PROVE  p \in DOMAIN t.dc
    <3>1. p \in DOMAIN s2.dc
      BY <1>3, <1>5, <2>1, <2>2, <2>3, <2>5 DEF Counted
    <3>2. Valid(s3.mc[p])
      BY <1>2, <2>1
    <3>3. p \notin P
      BY <1>2, <1>7, <2>2, <3>2, SameValid
    <3> QED
      BY <1>7, <1>10, <3>1, <3>3
  <2> QED
    BY <2>4, <2>5
<1>12. Invisible(s, t, {}) /\ SameControl(s, t)
  BY <1>3, <1>5, <1>7, <1>10, InvisibleTwice DEF SameControl
<1>13. RootKnown(s) => RootKnown(t)
  BY <1>3, <1>5, <1>8, <1>10
<1> QED
  BY <1>10, <1>11, <1>12, <1>13

\* Unmounting empties the caches.
LEMMA DestroyDoes ==
  ASSUME NEW s, IsState(s), Good(s, {}), NEW t, t = DestroyCaches(s)
  PROVE  /\ IsState(t) /\ SameControl(s, t) /\ Invisible(s, t, {})
         /\ t.mc = NoEntries /\ t.dc = NoEntries
         /\ RootKnown(s) => RootKnown(t)
<1> DEFINE s1 == FlushDirectories(s)
           s2 == FlushFiles(s1)
           s3 == EraseDirectory(s2, DOMAIN s.dc)
<1>1. t = EraseMetadata(s3, DOMAIN s.mc)
  BY DEF DestroyCaches
<1>2. s1 = FlushDirectories(s) /\ s2 = FlushFiles(s1) /\ s3 = EraseDirectory(s2, DOMAIN s.dc)
  OBVIOUS
<1> HIDE DEF s1, s2, s3
<1>3. /\ IsState(s1) /\ SameControl(s, s1) /\ Invisible(s, s1, {}) /\ SameCounts(s, s1)
      /\ DOMAIN s1.dc = DOMAIN s.dc
      /\ RootKnown(s) => RootKnown(s1)
  BY <1>2, FlushDirectoriesDoes
<1>4. Good(s1, {})
  BY <1>3 DEF Invisible
<1>5. /\ IsState(s2) /\ SameControl(s1, s2) /\ Invisible(s1, s2, {}) /\ SameCounts(s1, s2)
      /\ s2.dc = s1.dc
      /\ RootKnown(s1) => RootKnown(s2)
  BY <1>2, <1>3, <1>4, FlushFilesDoes
<1>6. Good(s2, {}) /\ DirectoriesCached(s2) /\ DOMAIN s.dc \in SUBSET DOMAIN s2.dc
  BY <1>3, <1>5 DEF Invisible, Good, Sound
<1>7. /\ IsState(s3) /\ SameControl(s2, s3) /\ Invisible(s2, s3, {})
      /\ OnlyAt(s2, s3, DOMAIN s.dc) /\ SameCounts(s2, s3)
      /\ DOMAIN s3.dc = DOMAIN s2.dc \ DOMAIN s.dc
  BY <1>2, <1>5, <1>6, EraseDirectoryDoes
<1>8. /\ Good(s3, {}) /\ DOMAIN s3.dc = {} /\ DOMAIN s3.mc = DOMAIN s.mc
      /\ RootKnown(s2) => RootKnown(s3)
  BY <1>3, <1>5, <1>6, <1>7, OnlyAtKeepsRoot DEF Invisible, SameCounts
<1>9. /\ IsState(t) /\ SameControl(s3, t) /\ Invisible(s3, t, {}) /\ t.dc = s3.dc
      /\ DOMAIN t.mc = {}
      /\ RootKnown(s3) => RootKnown(t)
  BY <1>1, <1>7, <1>8, EraseMetadataDoes
<1>10. Invisible(s, t, {}) /\ SameControl(s, t)
  BY <1>3, <1>5, <1>7, <1>9, InvisibleTwice DEF SameControl
<1>11. t.mc = NoEntries /\ t.dc = NoEntries
  <2>1. MetadataOK(t) /\ DirectoriesOK(t)
    BY <1>9 DEF Invisible, Good, Sound
  <2>2. t.mc = [p \in DOMAIN t.mc |-> t.mc[p]] /\ t.dc = [p \in DOMAIN t.dc |-> t.dc[p]]
    BY <2>1 DEF MetadataOK, DirectoriesOK
  <2>3. DOMAIN t.dc = {} /\ DOMAIN t.mc = {}
    BY <1>8, <1>9
  <2> QED
    BY <2>2, <2>3 DEF NoEntries
<1>12. RootKnown(s) => RootKnown(t)
  BY <1>3, <1>5, <1>8, <1>9
<1> QED
  BY <1>9, <1>10, <1>11, <1>12

-----------------------------------------------------------------------------
(* Opening.                                                                *)

LEMMA CallDoes ==
  ASSUME NEW s, IsState(s), NEW t, t = Call(s)
  PROVE  /\ IsState(t) /\ SameStores(s, t) /\ t.undefined = s.undefined
         /\ s.left = 0 => t.left = 0 /\ t.err = s.err
<1>1. t = [s EXCEPT !.left = IF @ = 0 THEN 0 ELSE @ - 1,
                    !.err = IF s.left = 1 THEN "EIO" ELSE @]
  BY DEF Call
<1>2. /\ SameStores(s, t) /\ t.undefined = s.undefined
      /\ t.left = (IF s.left = 0 THEN 0 ELSE s.left - 1)
      /\ t.err = (IF s.left = 1 THEN "EIO" ELSE s.err)
      /\ t = [mc |-> t.mc, dc |-> t.dc, dmeta |-> t.dmeta, fmeta |-> t.fmeta, data |-> t.data,
              undefined |-> t.undefined, err |-> t.err, left |-> t.left]
  BY <1>1 DEF IsState, SameStores
<1>3. t.left \in Nat
  BY <1>2 DEF IsState
<1> QED
  BY <1>2, <1>3 DEF IsState

LEMMA FailDoes ==
  ASSUME NEW s, IsState(s), NEW e, NEW t, t = Fail(s, e)
  PROVE  /\ IsState(t) /\ SameStores(s, t) /\ t.undefined = s.undefined
         /\ t.left = s.left /\ t.err = e
  BY DEF Fail, IsState, SameStores

LEMMA SameStoresInvisible ==
  ASSUME NEW s, NEW t, NEW X, Good(s, X), SameStores(s, t)
  PROVE  Invisible(s, t, X) /\ OnlyAt(s, t, {})
<1>1. Invisible(s, t, X)
  BY StoresDecide DEF Invisible
<1>2. OnlyAt(s, t, {})
  BY DEF OnlyAt, SameStores
<1> QED
  BY <1>1, <1>2

\* Counts and times of the metadata cache are nothing a user sees.
Recounted(s, t) ==
  /\ t.dc = s.dc /\ t.dmeta = s.dmeta /\ t.fmeta = s.fmeta /\ t.data = s.data
  /\ DOMAIN t.mc = DOMAIN s.mc /\ t.mc \in [DOMAIN t.mc -> MetadataType]
  /\ \A p \in DOMAIN s.mc :
       /\ t.mc[p].kind = s.mc[p].kind /\ t.mc[p].id = s.mc[p].id
       /\ t.mc[p].sized = s.mc[p].sized /\ t.mc[p].dirty = s.mc[p].dirty

LEMMA RecountedInvisible ==
  ASSUME NEW s, NEW t, NEW X, Good(s, X), Recounted(s, t)
  PROVE  Invisible(s, t, X)
<1> USE DEF Recounted
<1>1. \A d : EntriesOf(t, d) = EntriesOf(s, d)
  BY DEF EntriesOf
<1>2. \A p : Listed(t, p) = Listed(s, p) /\ Listing(t, p) = Listing(s, p)
  BY <1>1 DEF Listed, Listing
<1>3. \A p, e : Resolve(t, p, e) = Resolve(s, p, e)
  BY DEF Resolve
<1>4. \A p : Node(t, p) = Node(s, p)
  BY <1>2, <1>3 DEF Node
<1>5. MetadataOK(s) => MetadataOK(t)
  BY DEF MetadataOK
<1>6. DirectoriesOK(s) => DirectoriesOK(t)
  BY DEF DirectoriesOK
<1>7. RecordsOK(s) => RecordsOK(t)
  BY DEF RecordsOK
<1>8. DataOK(s) => DataOK(t)
  BY DEF DataOK
<1>9. DirectoriesCached(s) => DirectoriesCached(t)
  BY DEF DirectoriesCached
<1>10. DirectoriesCached(s) /\ CleanIsStored(s) => CleanIsStored(t)
  BY DEF CleanIsStored, DirectoriesCached
<1>11. CleanIsRecorded(s) => CleanIsRecorded(t)
  BY DEF CleanIsRecorded
<1>12. EntriesMatch(s) => EntriesMatch(t)
  BY <1>2 DEF EntriesMatch
<1>13. \A i, p : At(t, i, p) <=> At(s, i, p)
  BY DEF At, CachedAt, EntryAt
<1>14. OnePath(s, X) => OnePath(t, X)
  BY <1>13 DEF OnePath
<1>15. SizesStored(s) => SizesStored(t)
  BY DEF SizesStored
<1>16. Linked(s, X) => Linked(t, X)
  BY <1>2 DEF Linked, LinkedAt, Unused
<1>17. DataNamed(s) => DataNamed(t)
  BY DEF DataNamed
<1>18. Sound(s) => Sound(t)
  BY <1>5, <1>6, <1>7, <1>8, <1>9, <1>10, <1>11, <1>12, <1>15, <1>17 DEF Sound
<1> QED
  BY <1>1, <1>2, <1>4, <1>14, <1>16, <1>18 DEF Good, SameNode, SameEntries, Invisible

\* One metadata is counted up or down, or touched.
RecountedAt(s, t, p, md) ==
  /\ t.dc = s.dc /\ t.dmeta = s.dmeta /\ t.fmeta = s.fmeta /\ t.data = s.data
  /\ t.mc = [s.mc EXCEPT ![p] = md]
  /\ md \in MetadataType
  /\ md.kind = s.mc[p].kind /\ md.id = s.mc[p].id /\ md.sized = s.mc[p].sized
  /\ md.dirty = s.mc[p].dirty

LEMMA RecountedAtInvisible ==
  ASSUME NEW s, NEW t, NEW X, Good(s, X), NEW p \in DOMAIN s.mc, NEW md,
         RecountedAt(s, t, p, md)
  PROVE  /\ Invisible(s, t, X) /\ OnlyAt(s, t, {p})
         /\ DOMAIN t.mc = DOMAIN s.mc /\ t.mc[p] = md
<1>1. s.mc \in [DOMAIN s.mc -> MetadataType]
  BY DEF Good, Sound, MetadataOK
<1>2. /\ DOMAIN t.mc = DOMAIN s.mc /\ t.mc[p] = md
      /\ \A q \in DOMAIN s.mc : q # p => t.mc[q] = s.mc[q]
      /\ t.mc \in [DOMAIN s.mc -> MetadataType]
  BY <1>1 DEF RecountedAt
<1>3. Recounted(s, t)
  BY <1>2 DEF RecountedAt, Recounted
<1>4. OnlyAt(s, t, {p})
  BY <1>2 DEF RecountedAt, OnlyAt
<1> QED
  BY <1>2, <1>3, <1>4, RecountedInvisible

LEMMA CountsType ==
  ASSUME NEW m \in MetadataType
  PROVE  /\ CountUp(m) \in MetadataType /\ CountDown(m) \in MetadataType
         /\ Touch(m) \in MetadataType
         /\ CountUp(m).kind = m.kind /\ CountUp(m).id = m.id /\ CountUp(m).sized = m.sized
         /\ CountUp(m).dirty = m.dirty
         /\ CountDown(m).kind = m.kind /\ CountDown(m).id = m.id /\ CountDown(m).sized = m.sized
         /\ CountDown(m).dirty = m.dirty
         /\ Touch(m).kind = m.kind /\ Touch(m).id = m.id /\ Touch(m).sized = m.sized
         /\ Touch(m).dirty = m.dirty
         /\ CountUp(m).count = (IF m.count = 1 THEN 1 ELSE m.count + 1)
         /\ CountDown(m).count = m.count - 1 /\ Touch(m).count = m.count
<1>1. /\ CountUp(m) = [m EXCEPT !.count = IF @ = 1 THEN 1 ELSE @ + 1, !.expired = FALSE]
      /\ CountDown(m) = [m EXCEPT !.count = @ - 1, !.expired = FALSE]
      /\ Touch(m) = [m EXCEPT !.expired = FALSE]
  BY DEF CountUp, CountDown, Touch
<1>2. m.count \in Int
  BY DEF MetadataType
<1>3. (IF m.count = 1 THEN 1 ELSE m.count + 1) \in Int /\ m.count - 1 \in Int
  BY <1>2
<1> QED
  BY <1>1, <1>3 DEF MetadataType

\* directory::directory read the entries of p.
StoredEntries(s, p) ==
  IF s.mc[p].sized /\ p \in DOMAIN s.data THEN s.data[p] ELSE NoEntries

DirectoryRead(s, t, p) ==
  /\ t.mc = s.mc /\ t.dmeta = s.dmeta /\ t.fmeta = s.fmeta /\ t.data = s.data
  /\ t.dc = Put(s.dc, p, [entries |-> StoredEntries(s, p), dirty |-> ~s.mc[p].sized])

LEMMA NoContent ==
  ASSUME NEW d
  PROVE  IsContent(d, NoEntries) /\ DOMAIN NoEntries = {}
  BY DEF IsContent, NoEntries

LEMMA DirectoryReadInvisible ==
  ASSUME NEW s, NEW t, NEW X, Good(s, X), NEW p \in DOMAIN s.mc, s.mc[p].kind = "dir",
         p \notin DOMAIN s.dc, DirectoryRead(s, t, p)
  PROVE  Invisible(s, t, X) /\ OnlyAt(s, t, {p}) /\ DOMAIN t.dc = DOMAIN s.dc \cup {p}
<1> DEFINE e == StoredEntries(s, p)
           b == ~s.mc[p].sized
<1> USE DEF DirectoryRead
<1>1. /\ MetadataOK(s) /\ DirectoriesOK(s) /\ RecordsOK(s) /\ DataOK(s) /\ Sound(s)
      /\ OnePath(s, X) /\ DirectoriesCached(s) /\ CleanIsStored(s) /\ EntriesMatch(s)
  BY DEF Good, Sound
<1>2. b \in BOOLEAN /\ p \in DirPaths
  BY <1>1 DEF MetadataOK, MetadataType
<1>3. IsContent(p, e)
  BY <1>1, NoContent DEF StoredEntries, DataOK
<1>4. EntriesOf(s, p) = e
  BY DEF EntriesOf, StoredEntries
<1>5. t.dc = Put(s.dc, p, [entries |-> e, dirty |-> b])
  OBVIOUS
<1>6. e = IF s.mc[p].sized /\ p \in DOMAIN s.data THEN s.data[p] ELSE NoEntries
  BY DEF StoredEntries
<1> HIDE DEF e
<1>7. /\ DOMAIN t.dc = DOMAIN s.dc \cup {p} /\ t.dc = [q \in DOMAIN t.dc |-> t.dc[q]]
      /\ t.dc[p].entries = e /\ t.dc[p].dirty = b
      /\ t.dc[p] \in DirectoryType(t.dc[p].entries)
      /\ \A q \in DOMAIN s.dc : t.dc[q] = s.dc[q]
  <2>1. /\ DOMAIN t.dc = DOMAIN s.dc \cup {p} /\ t.dc = [q \in DOMAIN t.dc |-> t.dc[q]]
        /\ t.dc[p] = [entries |-> e, dirty |-> b]
        /\ \A q \in DOMAIN s.dc : t.dc[q] = s.dc[q]
    <3> DEFINE r == [entries |-> e, dirty |-> b]
    <3>1. t.dc = Put(s.dc, p, r)
      BY <1>5
    <3> HIDE DEF r
    <3>2. /\ DOMAIN t.dc = DOMAIN s.dc \cup {p} /\ t.dc = [q \in DOMAIN t.dc |-> t.dc[q]]
          /\ t.dc[p] = r /\ \A q \in DOMAIN s.dc : q # p => t.dc[q] = s.dc[q]
      BY ONLY <3>1 DEF Put
    <3> QED
      BY <3>2 DEF r
  <2>2. [entries |-> e, dirty |-> b] \in DirectoryType(e)
    <3> HIDE DEF b
    <3> QED
      BY <1>2 DEF DirectoryType
  <2>3. t.dc[p].entries = e /\ t.dc[p].dirty = b
    BY <2>1
  <2> QED
    BY <2>1, <2>2, <2>3
<1>8. ASSUME NEW d
      PROVE  EntriesOf(t, d) = EntriesOf(s, d)
  <2>1. CASE d = p
    <3>1. EntriesOf(t, p) = t.dc[p].entries
      BY <1>7 DEF EntriesOf
    <3> QED
      BY <1>4, <1>7, <2>1, <3>1
  <2>2. CASE d # p
    <3>1. (d \in DOMAIN t.dc <=> d \in DOMAIN s.dc) /\ (d \in DOMAIN t.dc => t.dc[d] = s.dc[d])
      BY <1>7, <2>2
    <3> QED
      BY <3>1 DEF EntriesOf
  <2> QED
    BY <2>1, <2>2
<1>9. SameEntries(s, t)
  BY <1>8 DEF SameEntries
<1>10. \A q \in Paths : (Listed(t, q) <=> Listed(s, q)) /\ Listing(t, q) = Listing(s, q)
  BY <1>9, SameListing
<1>11. MetadataOK(t) /\ RecordsOK(t) /\ DataOK(t) /\ CleanIsRecorded(t)
  BY <1>1 DEF MetadataOK, RecordsOK, DataOK, CleanIsRecorded, Sound
<1>12. DirectoriesOK(t)
  <2>1. ASSUME NEW q \in DOMAIN t.dc
        PROVE  /\ q \in DirPaths /\ t.dc[q].dirty \in BOOLEAN /\ IsContent(q, t.dc[q].entries)
               /\ t.dc[q] \in DirectoryType(t.dc[q].entries)
    <3>1. CASE q = p
      BY <1>2, <1>3, <1>7, <3>1
    <3>2. CASE q # p
      BY <1>1, <1>7, <3>2 DEF DirectoriesOK
    <3> QED
      BY <3>1, <3>2
  <2> QED
    BY <1>7, <2>1 DEF DirectoriesOK
<1>13. DirectoriesCached(t)
  BY <1>1, <1>7 DEF DirectoriesCached
<1>14. CleanIsStored(t)
  <2>1. ASSUME NEW q \in DOMAIN t.dc, ~t.dc[q].dirty
        PROVE  /\ t.mc[q].sized
               /\ t.dc[q].entries = IF q \in DOMAIN t.data THEN t.data[q] ELSE NoEntries
    <3>1. CASE q = p
      BY <1>6, <1>7, <2>1, <3>1
    <3>2. CASE q # p
      BY <1>1, <1>7, <2>1, <3>2 DEF CleanIsStored
    <3> QED
      BY <3>1, <3>2
  <2> QED
    BY <2>1 DEF CleanIsStored
<1>15. EntriesMatch(t)
  BY <1>1, <1>10 DEF EntriesMatch
<1>16. SizesStored(s) => SizesStored(t)
  BY DEF SizesStored
<1>17. DataNamed(s) => DataNamed(t)
  BY DEF DataNamed
<1>18. Sound(t)
  BY <1>1, <1>11, <1>12, <1>13, <1>14, <1>15, <1>16, <1>17 DEF Sound
<1>19. NoNewPlaces(s, t)
  <2>1. \A i, q : CachedAt(t, i, q) <=> CachedAt(s, i, q)
    BY DEF CachedAt
  <2>2. ASSUME NEW i, NEW q, EntryAt(t, i, q)
        PROVE  EntryAt(s, i, q)
    <3> DEFINE d == Parent(q)
               n == Name(q)
    <3>1. CASE d \in DOMAIN t.dc /\ n \in DOMAIN t.dc[d].entries /\ t.dc[d].entries[n].id = i
      <4>1. CASE d = p
        <5>1. n \in DOMAIN e /\ e[n].id = i
          BY <1>7, <3>1, <4>1
        <5>2. p \in DOMAIN s.data /\ e = s.data[p]
          BY <1>6, <5>1, NoContent
        <5> QED
          BY <4>1, <5>1, <5>2 DEF EntryAt
      <4>2. CASE d # p
        BY <1>7, <3>1, <4>2 DEF EntryAt
      <4> QED
        BY <4>1, <4>2
    <3>2. CASE /\ d \in DOMAIN t.data /\ n \in DOMAIN t.data[d] /\ t.data[d][n].id = i
               /\ d \notin DOMAIN t.dc \/ ~Calm
      BY <1>7, <3>2 DEF EntryAt
    <3> QED
      BY <2>2, <3>1, <3>2 DEF EntryAt
  <2> QED
    BY <2>1, <2>2 DEF NoNewPlaces, At
<1>20. OnePath(t, X)
  BY <1>1, <1>19, OnePathKept
<1>21. Linked(s, X) => Linked(t, X)
  BY <1>10 DEF Linked, LinkedAt, Unused
<1>22. \A q, f : Resolve(t, q, f) = Resolve(s, q, f)
  BY DEF Resolve
<1>23. \A q \in Paths : SameNode(s, t, q)
  BY <1>10, <1>22 DEF SameNode, Node
<1>24. OnlyAt(s, t, {p})
  BY <1>7 DEF OnlyAt
<1> QED
  BY <1>7, <1>9, <1>18, <1>20, <1>21, <1>23, <1>24 DEF Good, Invisible

-----------------------------------------------------------------------------
(* Changes of one path.                                                    *)

\* Sound, path by path.
Shapes(s) ==
  /\ s.mc = [p \in DOMAIN s.mc |-> s.mc[p]] /\ s.dc = [p \in DOMAIN s.dc |-> s.dc[p]]
  /\ s.dmeta = [p \in DOMAIN s.dmeta |-> s.dmeta[p]]
  /\ s.data = [p \in DOMAIN s.data |-> s.data[p]]
  /\ s.fmeta \subseteq Ids

MetadataSound(s, p) ==
  p \in DOMAIN s.mc =>
    /\ p \in AllPaths /\ s.mc[p] \in MetadataType
    /\ s.mc[p].kind = "dir" => p \in DirPaths
    /\ p = Root => s.mc[p].kind = "dir"
    /\ NoFailures /\ s.mc[p].kind = "dir" /\ s.mc[p].sized => p \in DOMAIN s.data

MetadataRecorded(s, p) ==
  p \in DOMAIN s.mc /\ ~s.mc[p].dirty =>
    IF s.mc[p].kind = "dir"
      THEN /\ p \in DOMAIN s.dmeta
           /\ s.dmeta[p].id = s.mc[p].id /\ s.dmeta[p].sized = s.mc[p].sized
      ELSE s.mc[p].id \in s.fmeta

DirectorySound(s, p) ==
  p \in DOMAIN s.dc =>
    /\ p \in DirPaths /\ s.dc[p] \in DirectoryType(s.dc[p].entries)
    /\ s.dc[p].dirty \in BOOLEAN /\ IsContent(p, s.dc[p].entries)
    /\ p \in DOMAIN s.mc /\ s.mc[p].kind = "dir"
    /\ ~s.dc[p].dirty =>
         /\ s.mc[p].sized
         /\ s.dc[p].entries = IF p \in DOMAIN s.data THEN s.data[p] ELSE NoEntries

RecordSound(s, p) ==
  p \in DOMAIN s.dmeta =>
    /\ p \in DirPaths /\ s.dmeta[p] \in RecordType
    /\ NoFailures /\ s.dmeta[p].sized => p \in DOMAIN s.data

DataSound(s, p) ==
  p \in DOMAIN s.data =>
    /\ p \in DirPaths /\ IsContent(p, s.data[p])
    /\ Calm => IF p \in DOMAIN s.mc THEN s.mc[p].kind = "dir" /\ s.mc[p].sized
               ELSE p \in DOMAIN s.dmeta /\ s.dmeta[p].sized

SoundAt(s, p) ==
  /\ MetadataSound(s, p) /\ MetadataRecorded(s, p) /\ DirectorySound(s, p)
  /\ RecordSound(s, p) /\ DataSound(s, p)

LEMMA SoundIsLocal ==
  ASSUME NEW s, Sound(s)
  PROVE  Shapes(s) /\ \A p : SoundAt(s, p)
<1>1. /\ MetadataOK(s) /\ DirectoriesOK(s) /\ RecordsOK(s) /\ DataOK(s)
      /\ DirectoriesCached(s) /\ CleanIsStored(s) /\ CleanIsRecorded(s)
      /\ NoFailures => SizesStored(s)
      /\ Calm => DataNamed(s)
  BY DEF Sound
<1>2. Shapes(s)
  BY <1>1 DEF Shapes, MetadataOK, DirectoriesOK, RecordsOK, DataOK
<1>3. ASSUME NEW p
      PROVE  SoundAt(s, p)
  <2>1. MetadataSound(s, p)
    BY <1>1 DEF MetadataSound, MetadataOK, SizesStored
  <2>2. MetadataRecorded(s, p)
    BY <1>1 DEF MetadataRecorded, CleanIsRecorded
  <2>3. DirectorySound(s, p)
    BY <1>1 DEF DirectorySound, DirectoriesOK, DirectoriesCached, CleanIsStored
  <2>4. RecordSound(s, p)
    BY <1>1 DEF RecordSound, RecordsOK, SizesStored
  <2>5. DataSound(s, p)
    BY <1>1 DEF DataSound, DataOK, DataNamed
  <2> QED
    BY <2>1, <2>2, <2>3, <2>4, <2>5 DEF SoundAt
<1> QED
  BY <1>2, <1>3

LEMMA LocalIsSound ==
  ASSUME NEW s, Shapes(s), \A p : SoundAt(s, p), EntriesMatch(s)
  PROVE  Sound(s)
<1>1. \A p : /\ MetadataSound(s, p) /\ MetadataRecorded(s, p) /\ DirectorySound(s, p)
             /\ RecordSound(s, p) /\ DataSound(s, p)
  BY DEF SoundAt
<1>2. MetadataOK(s)
  BY <1>1 DEF MetadataSound, MetadataOK, Shapes
<1>3. DirectoriesOK(s)
  BY <1>1 DEF DirectorySound, DirectoriesOK, Shapes
<1>4. RecordsOK(s)
  BY <1>1 DEF RecordSound, RecordsOK, Shapes
<1>5. DataOK(s)
  BY <1>1 DEF DataSound, DataOK, Shapes
<1>6. DirectoriesCached(s) /\ CleanIsStored(s)
  BY <1>1 DEF DirectorySound, DirectoriesCached, CleanIsStored
<1>7. CleanIsRecorded(s)
  BY <1>1 DEF MetadataRecorded, CleanIsRecorded
<1>8. NoFailures => SizesStored(s)
  BY <1>1 DEF MetadataSound, RecordSound, SizesStored
<1>9. Calm => DataNamed(s)
  BY <1>1 DEF DataSound, DataNamed
<1> QED
  BY <1>2, <1>3, <1>4, <1>5, <1>6, <1>7, <1>8, <1>9 DEF Sound

\* s and t differ at p alone, but for the records of regular files.
Elsewhere(s, t, p) ==
  \A q : q # p =>
    /\ q \in DOMAIN t.mc <=> q \in DOMAIN s.mc
    /\ q \in DOMAIN t.mc => t.mc[q] = s.mc[q]
    /\ q \in DOMAIN t.dc <=> q \in DOMAIN s.dc
    /\ q \in DOMAIN t.dc => t.dc[q] = s.dc[q]
    /\ q \in DOMAIN t.dmeta <=> q \in DOMAIN s.dmeta
    /\ q \in DOMAIN t.dmeta => t.dmeta[q] = s.dmeta[q]
    /\ q \in DOMAIN t.data <=> q \in DOMAIN s.data
    /\ q \in DOMAIN t.data => t.data[q] = s.data[q]

\* A change of one path keeps the invariant if it does so at that path and no
\* cached file loses its record.
LEMMA LocalChange ==
  ASSUME NEW s, Sound(s), NEW t, NEW p, Elsewhere(s, t, p), Shapes(t), SoundAt(t, p),
         EntriesMatch(t),
         \A q \in DOMAIN s.mc \ {p} :
           s.mc[q].kind # "dir" /\ s.mc[q].id \in s.fmeta => s.mc[q].id \in t.fmeta
  PROVE  Sound(t)
<1>1. ASSUME NEW q, q # p
      PROVE  SoundAt(t, q)
  <2>1. /\ MetadataSound(s, q) /\ MetadataRecorded(s, q) /\ DirectorySound(s, q)
        /\ RecordSound(s, q) /\ DataSound(s, q)
    BY SoundIsLocal DEF SoundAt
  <2>2. /\ q \in DOMAIN t.mc <=> q \in DOMAIN s.mc
        /\ q \in DOMAIN t.mc => t.mc[q] = s.mc[q]
        /\ q \in DOMAIN t.dc <=> q \in DOMAIN s.dc
        /\ q \in DOMAIN t.dc => t.dc[q] = s.dc[q]
        /\ q \in DOMAIN t.dmeta <=> q \in DOMAIN s.dmeta
        /\ q \in DOMAIN t.dmeta => t.dmeta[q] = s.dmeta[q]
        /\ q \in DOMAIN t.data <=> q \in DOMAIN s.data
        /\ q \in DOMAIN t.data => t.data[q] = s.data[q]
    BY <1>1 DEF Elsewhere
  <2>3. MetadataSound(t, q)
    BY <2>1, <2>2 DEF MetadataSound
  <2>4. MetadataRecorded(t, q)
    BY <1>1, <2>1, <2>2 DEF MetadataRecorded
  <2>5. DirectorySound(t, q)
    BY <2>1, <2>2 DEF DirectorySound
  <2>6. RecordSound(t, q)
    BY <2>1, <2>2 DEF RecordSound
  <2>7. DataSound(t, q)
    BY <2>1, <2>2 DEF DataSound
  <2> QED
    BY <2>3, <2>4, <2>5, <2>6, <2>7 DEF SoundAt
<1> QED
  BY <1>1, LocalIsSound

\* What is elsewhere looks the same: the contents of other directories, and the
\* identities of other paths.
LEMMA ElsewhereSame ==
  ASSUME NEW s, NEW t, NEW p, Elsewhere(s, t, p)
  PROVE  /\ \A d : d # p => EntriesOf(t, d) = EntriesOf(s, d)
         /\ \A q : Parent(q) # p => Listed(t, q) = Listed(s, q) /\ Listing(t, q) = Listing(s, q)
         /\ \A i, q : q # p => (CachedAt(t, i, q) <=> CachedAt(s, i, q))
         /\ \A i, q : Parent(q) # p => (EntryAt(t, i, q) <=> EntryAt(s, i, q))
<1>1. ASSUME NEW d, d # p
      PROVE  EntriesOf(t, d) = EntriesOf(s, d)
  BY <1>1 DEF Elsewhere, EntriesOf
<1>2. \A q : Parent(q) # p => Listed(t, q) = Listed(s, q) /\ Listing(t, q) = Listing(s, q)
  BY <1>1 DEF Listed, Listing
<1>3. \A i, q : q # p => (CachedAt(t, i, q) <=> CachedAt(s, i, q))
  BY DEF Elsewhere, CachedAt
<1>4. \A i, q : Parent(q) # p => (EntryAt(t, i, q) <=> EntryAt(s, i, q))
  BY DEF Elsewhere, EntryAt
<1> QED
  BY <1>1, <1>2, <1>3, <1>4

\* A place of an object elsewhere was one before.
LEMMA ElsewherePlaces ==
  ASSUME NEW s, NEW t, NEW p, Elsewhere(s, t, p),
         \A i : CachedAt(t, i, p) => At(s, i, p),
         \A i, q : q \in Paths /\ Parent(q) = p /\ EntryAt(t, i, q) => At(s, i, q)
  PROVE  NoNewPlaces(s, t)
<1>1. /\ \A i, q : q # p => (CachedAt(t, i, q) <=> CachedAt(s, i, q))
      /\ \A i, q : Parent(q) # p => (EntryAt(t, i, q) <=> EntryAt(s, i, q))
  BY ElsewhereSame
<1> QED
  BY <1>1 DEF NoNewPlaces, At

LEMMA LinkedElsewhere ==
  ASSUME NEW s, NEW t, NEW p, NEW q, Elsewhere(s, t, p), q # p, LinkedAt(s, q),
         Listed(t, q) <=> Listed(s, q), Listed(s, q) => Listing(t, q) = Listing(s, q),
         Listed(s, q) /\ Listing(s, q).kind # "dir" /\ Listing(s, q).id \in s.fmeta
           => Listing(s, q).id \in t.fmeta
  PROVE  LinkedAt(t, q)
<1>1. (q \in DOMAIN t.mc <=> q \in DOMAIN s.mc) /\ (q \in DOMAIN t.dmeta <=> q \in DOMAIN s.dmeta)
  BY DEF Elsewhere
<1> QED
  BY <1>1 DEF LinkedAt, Unused

\* The metadata that is loaded of a directory and of a file, and the one created.
LEMMA DirectoryMetadata ==
  ASSUME NEW r \in RecordType, NEW m, m = Metadata("dir", r.id, r.sized, FALSE, 1)
  PROVE  /\ m \in MetadataType
         /\ m.kind = "dir" /\ m.id = r.id /\ m.sized = r.sized /\ ~m.dirty /\ m.count = 1
<1>1. m \in MetadataType
  BY DEF MetadataType, Metadata, RecordType
<1>2. m.kind = "dir" /\ m.id = r.id /\ ~m.dirty /\ m.count = 1
  BY DEF Metadata
<1>3. m.sized = r.sized
  BY DEF Metadata
<1> QED
  BY <1>1, <1>2, <1>3

LEMMA FileMetadata ==
  ASSUME NEW id \in Ids, NEW m, m = Metadata("file", id, FALSE, FALSE, 1)
  PROVE  /\ m \in MetadataType
         /\ m.kind = "file" /\ m.id = id /\ ~m.sized /\ ~m.dirty /\ m.count = 1
<1>1. m \in MetadataType
  BY DEF MetadataType, Metadata
<1>2. m.kind = "file" /\ m.id = id /\ ~m.sized /\ ~m.dirty /\ m.count = 1
  BY DEF Metadata
<1> QED
  BY <1>1, <1>2

LEMMA NewFileMetadata ==
  ASSUME NEW id \in Ids, NEW m, m = Metadata("file", id, FALSE, TRUE, 1)
  PROVE  /\ m \in MetadataType
         /\ m.kind = "file" /\ m.id = id /\ ~m.sized /\ m.dirty /\ m.count = 1
<1>1. m \in MetadataType
  BY DEF MetadataType, Metadata
<1>2. m.kind = "file" /\ m.id = id /\ ~m.sized /\ m.dirty /\ m.count = 1
  BY DEF Metadata
<1> QED
  BY <1>1, <1>2

LEMMA NewDirectoryMetadata ==
  ASSUME NEW id \in Ids, NEW m, m = Metadata("dir", id, FALSE, TRUE, 1)
  PROVE  /\ m \in MetadataType
         /\ m.kind = "dir" /\ m.id = id /\ ~m.sized /\ m.dirty /\ m.count = 1
<1>1. m \in MetadataType
  BY DEF MetadataType, Metadata
<1>2. m.kind = "dir" /\ m.id = id /\ ~m.sized /\ m.dirty /\ m.count = 1
  BY DEF Metadata
<1> QED
  BY <1>1, <1>2

\* Metadata of p comes into the cache.
MetadataAdded(s, t, p, md) ==
  /\ t.dc = s.dc /\ t.dmeta = s.dmeta /\ t.fmeta = s.fmeta /\ t.data = s.data
  /\ p \notin DOMAIN s.mc /\ md \in MetadataType
  /\ t.mc = Put(s.mc, p, md)

LEMMA MetadataAddedDoes ==
  ASSUME NEW s, Sound(s), NEW t, NEW p, NEW md, MetadataAdded(s, t, p, md)
  PROVE  /\ Elsewhere(s, t, p) /\ Shapes(t) /\ OnlyAt(s, t, {p})
         /\ DOMAIN t.mc = DOMAIN s.mc \cup {p} /\ t.mc[p] = md
<1>1. /\ DOMAIN t.mc = DOMAIN s.mc \cup {p} /\ t.mc = [x \in DOMAIN t.mc |-> t.mc[x]]
      /\ t.mc[p] = md /\ \A q \in DOMAIN s.mc : q # p => t.mc[q] = s.mc[q]
  BY DEF Put, MetadataAdded
<1>2. Elsewhere(s, t, p)
  BY <1>1 DEF MetadataAdded, Elsewhere
<1>3. Shapes(t)
  BY <1>1, SoundIsLocal DEF MetadataAdded, Shapes
<1>4. OnlyAt(s, t, {p})
  BY <1>1 DEF MetadataAdded, OnlyAt
<1> QED
  BY <1>1, <1>2, <1>3, <1>4

\* Adding the metadata of an object that is kept at p, or of a new one if nobody
\* lists p.
LEMMA MetadataAddedInvisible ==
  ASSUME NEW s, NEW X, Good(s, X), NEW t, NEW p \in AllPaths, NEW md,
         MetadataAdded(s, t, p, md), SoundAt(t, p),
         EntriesOf(t, p) = EntriesOf(s, p),
         \A q \in AllPaths : At(s, md.id, q) => p = q,
         p \in Paths /\ Listed(s, p) =>
           /\ md.kind = Listing(s, p).kind
           /\ Resolve(s, p, Listing(s, p)) = md.id
           /\ md.kind = "file" => md.id = Listing(s, p).id,
         Calm /\ p \in Paths \ X => Listed(s, p) /\ (md.kind = "file" => p \notin DOMAIN s.dmeta)
  PROVE  Invisible(s, t, X) /\ OnlyAt(s, t, {p})
<1>1. Sound(s) /\ EntriesMatch(s) /\ OnePath(s, X)
  BY DEF Good, Sound
<1>2. /\ Elsewhere(s, t, p) /\ Shapes(t) /\ OnlyAt(s, t, {p})
      /\ DOMAIN t.mc = DOMAIN s.mc \cup {p} /\ t.mc[p] = md
  BY <1>1, MetadataAddedDoes
<1>3. t.dc = s.dc /\ t.dmeta = s.dmeta /\ t.fmeta = s.fmeta /\ t.data = s.data
  BY DEF MetadataAdded
<1>4. SameEntries(s, t)
  BY <1>2, ElsewhereSame DEF SameEntries
<1>5. \A q \in Paths : (Listed(t, q) <=> Listed(s, q)) /\ Listing(t, q) = Listing(s, q)
  BY <1>4, SameListing
<1>6. \A q : q # p => (q \in DOMAIN t.mc <=> q \in DOMAIN s.mc)
                      /\ (q \in DOMAIN t.mc => t.mc[q] = s.mc[q])
  BY <1>2 DEF Elsewhere
<1>7. EntriesMatch(t)
  <2> SUFFICES ASSUME NEW q \in Paths, q \in DOMAIN t.mc, Listed(t, q)
               PROVE  /\ Listing(t, q).kind = t.mc[q].kind
                      /\ t.mc[q].kind = "file" => Listing(t, q).id = t.mc[q].id
    BY DEF EntriesMatch
  <2>1. CASE q = p
    <3>1. Listed(s, p) /\ Listing(t, p) = Listing(s, p) /\ t.mc[p] = md
      BY <1>2, <1>5, <2>1
    <3> QED
      BY <2>1, <3>1
  <2>2. CASE q # p
    BY <1>1, <1>5, <1>6, <2>2 DEF EntriesMatch
  <2> QED
    BY <2>1, <2>2
<1>8. Sound(t)
  <2>1. \A q \in DOMAIN s.mc \ {p} :
          s.mc[q].kind # "dir" /\ s.mc[q].id \in s.fmeta => s.mc[q].id \in t.fmeta
    BY <1>3
  <2> QED
    BY <1>1, <1>2, <1>7, <2>1, LocalChange
<1>9. OnePath(t, X)
  <2>1. ASSUME NEW i, NEW q, At(t, i, q)
        PROVE  At(s, i, q) \/ (q = p /\ i = md.id)
    <3>1. \A j, r : EntryAt(t, j, r) <=> EntryAt(s, j, r)
      BY <1>3 DEF EntryAt
    <3>2. CachedAt(t, i, q) => CachedAt(s, i, q) \/ (q = p /\ i = md.id)
      BY <1>2, <1>3, <1>6 DEF CachedAt
    <3> QED
      BY <2>1, <3>1, <3>2 DEF At
  <2> QED
    BY <1>1, <2>1 DEF OnePath
<1>10. Calm => Linked(t, X)
  <2> SUFFICES ASSUME Calm, NEW q \in Paths \ X
               PROVE  LinkedAt(t, q)
    BY DEF Linked
  <2>1. CASE q = p
    <3>1. Listed(s, p) /\ (md.kind = "file" => p \notin DOMAIN s.dmeta)
      BY <2>1
    <3>2. md.kind = Listing(s, p).kind /\ md.kind \in {"file", "dir"}
      BY <2>1, <3>1 DEF MetadataAdded, MetadataType
    <3> QED
      BY <1>2, <1>3, <1>5, <2>1, <3>1, <3>2 DEF LinkedAt
  <2>2. CASE q # p
    <3>1. LinkedAt(s, q)
      BY DEF Good, Linked
    <3> QED
      BY <1>2, <1>3, <1>5, <2>2, <3>1, LinkedElsewhere
  <2> QED
    BY <2>1, <2>2
<1>11. ASSUME NEW q \in Paths, Listed(s, q)
       PROVE  Resolve(t, q, Listing(s, q)) = Resolve(s, q, Listing(s, q))
  <2>1. CASE q = p
    <3>1. Resolve(t, p, Listing(s, p)) = md.id
      BY <1>2 DEF Resolve
    <3> QED
      BY <1>11, <2>1, <3>1
  <2>2. CASE q # p
    BY <1>3, <1>6, <2>2 DEF Resolve
  <2> QED
    BY <2>1, <2>2
<1>12. \A q \in Paths : SameNode(s, t, q)
  BY <1>5, <1>11 DEF SameNode, Node
<1> QED
  BY <1>2, <1>4, <1>8, <1>9, <1>10, <1>12 DEF Good, Invisible

\* Directories users can get to: the root, and what is listed as one.
OpenPath(s, p) == p = Root \/ (p \in Paths /\ ListedDir(s, p))

\* Loading the record of a directory.
LEMMA DirectoryLoaded ==
  ASSUME NEW s, NEW X, Good(s, X), NEW p, OpenPath(s, p), p \notin X,
         p \notin DOMAIN s.mc, p \in DOMAIN s.dmeta,
         NEW t, NEW md, MetadataAdded(s, t, p, md), md.kind = "dir", md.id = s.dmeta[p].id,
         md.sized = s.dmeta[p].sized, ~md.dirty, md.count = 1
  PROVE  Invisible(s, t, X) /\ OnlyAt(s, t, {p})
         /\ DOMAIN t.mc = DOMAIN s.mc \cup {p} /\ t.mc[p] = md
<1>1. Sound(s) /\ RecordsOK(s) /\ OnePath(s, X) /\ EntriesMatch(s) /\ SoundAt(s, p)
  BY SoundIsLocal DEF Good, Sound
<1>2. s.dmeta[p] \in RecordType /\ p \in DirPaths
  BY <1>1 DEF RecordsOK
<1>3. s.dmeta[p].id \in Ids /\ s.dmeta[p].sized \in BOOLEAN
  BY <1>2 DEF RecordType
<1>4. /\ md \in MetadataType /\ md.kind = "dir" /\ md.id = s.dmeta[p].id
      /\ md.sized = s.dmeta[p].sized /\ ~md.dirty /\ md.count = 1
  BY Zenon DEF MetadataAdded
<1>5. MetadataAdded(s, t, p, md)
  OBVIOUS
<1>6. DOMAIN t.mc = DOMAIN s.mc \cup {p} /\ t.mc[p] = md
  BY ONLY <1>1, <1>5, MetadataAddedDoes
<1>7. t.dc = s.dc /\ t.dmeta = s.dmeta /\ t.fmeta = s.fmeta /\ t.data = s.data
  BY <1>5 DEF MetadataAdded
<1>8. p \notin DOMAIN s.dc /\ p \in AllPaths
  BY <1>1, <1>2 DEF SoundAt, DirectorySound, AllPaths
<1>9. EntriesOf(t, p) = EntriesOf(s, p)
  BY <1>4, <1>6, <1>7, <1>8 DEF EntriesOf
<1>10. SoundAt(t, p)
  <2>1. MetadataSound(t, p)
    BY <1>1, <1>2, <1>4, <1>6, <1>7, <1>8 DEF SoundAt, MetadataSound, RecordSound
  <2>2. MetadataRecorded(t, p)
    BY <1>4, <1>6, <1>7 DEF MetadataRecorded
  <2>3. DirectorySound(t, p)
    BY <1>7, <1>8 DEF DirectorySound
  <2>4. RecordSound(t, p)
    BY <1>1, <1>7 DEF SoundAt, RecordSound
  <2>5. DataSound(t, p)
    BY <1>1, <1>4, <1>6, <1>7 DEF SoundAt, DataSound
  <2> QED
    BY <2>1, <2>2, <2>3, <2>4, <2>5 DEF SoundAt
<1>11. ASSUME NEW q \in AllPaths, At(s, md.id, q)
       PROVE  p = q
  <2>1. At(s, md.id, p)
    BY <1>4 DEF At, CachedAt
  <2> QED
    BY <1>1, <1>3, <1>4, <1>8, <1>11, <2>1 DEF OnePath
<1>12. p \in Paths /\ Listed(s, p) =>
         /\ md.kind = Listing(s, p).kind
         /\ Resolve(s, p, Listing(s, p)) = md.id
         /\ md.kind = "file" => md.id = Listing(s, p).id
  <2>1. Root \notin Paths
    BY DEF Paths
  <2>2. p \in Paths => Listing(s, p).kind = "dir"
    BY <2>1 DEF OpenPath, ListedDir
  <2> QED
    BY <1>4, <2>2 DEF Resolve
<1>13. p \in Paths => Listed(s, p)
  BY DEF OpenPath, ListedDir, Paths
<1> QED
  BY <1>4, <1>5, <1>6, <1>8, <1>9, <1>10, <1>11, <1>12, <1>13, MetadataAddedInvisible

\* Loading the record of a regular file.
LEMMA FileLoaded ==
  ASSUME NEW s, NEW X, Good(s, X), NEW p \in Paths, p \notin X, p \notin DOMAIN s.mc,
         Listed(s, p), Listing(s, p).kind = "file", Listing(s, p).id \in s.fmeta,
         NEW t, NEW md, MetadataAdded(s, t, p, md), md.kind = "file", md.id = Listing(s, p).id,
         ~md.dirty
  PROVE  Invisible(s, t, X) /\ OnlyAt(s, t, {p})
<1> DEFINE i == Listing(s, p).id
<1>1. Sound(s) /\ OnePath(s, X) /\ EntriesMatch(s) /\ SoundAt(s, p) /\ p \in AllPaths
  BY SoundIsLocal, PathIsPath DEF Good, Sound
<1>2. i \in Ids
  BY <1>1, ListingType DEF Sound
<1>3. md \in MetadataType /\ md.kind = "file" /\ md.id = i /\ ~md.dirty
  BY DEF MetadataAdded
<1>4. MetadataAdded(s, t, p, md)
  OBVIOUS
<1>5. DOMAIN t.mc = DOMAIN s.mc \cup {p} /\ t.mc[p] = md
  BY <1>1, <1>4, MetadataAddedDoes
<1>6. t.dc = s.dc /\ t.dmeta = s.dmeta /\ t.fmeta = s.fmeta /\ t.data = s.data
  BY <1>4 DEF MetadataAdded
<1>7. p \notin DOMAIN s.dc /\ p # Root
  BY <1>1 DEF SoundAt, DirectorySound, Paths
<1>8. EntriesOf(t, p) = EntriesOf(s, p)
  BY <1>3, <1>5, <1>6 DEF EntriesOf
<1>9. Calm => p \notin DOMAIN s.dmeta
  <2>1. Calm => LinkedAt(s, p)
    BY DEF Good, Linked
  <2> QED
    BY <2>1 DEF LinkedAt
<1>10. SoundAt(t, p)
  <2>1. MetadataSound(t, p)
    BY <1>1, <1>3, <1>5, <1>7 DEF MetadataSound
  <2>2. MetadataRecorded(t, p)
    BY <1>3, <1>5, <1>6 DEF MetadataRecorded
  <2>3. DirectorySound(t, p)
    BY <1>6, <1>7 DEF DirectorySound
  <2>4. RecordSound(t, p)
    BY <1>1, <1>6 DEF SoundAt, RecordSound
  <2>5. DataSound(t, p)
    BY <1>1, <1>6, <1>9 DEF SoundAt, DataSound
  <2> QED
    BY <2>1, <2>2, <2>3, <2>4, <2>5 DEF SoundAt
<1>11. ASSUME NEW q \in AllPaths, At(s, md.id, q)
       PROVE  p = q
  BY <1>1, <1>3, <1>11, EntriesDiffer
<1>12. /\ md.kind = Listing(s, p).kind
       /\ Resolve(s, p, Listing(s, p)) = md.id
       /\ md.kind = "file" => md.id = Listing(s, p).id
  BY <1>3 DEF Resolve
<1> QED
  BY <1>1, <1>3, <1>4, <1>5, <1>8, <1>9, <1>10, <1>11, <1>12, MetadataAddedInvisible

\* A directory whose metadata is cached is read.
LEMMA ReadDirectoryDoes ==
  ASSUME NEW s, NEW X, IsState(s), Good(s, X), s.err = "ok", NEW p \in DOMAIN s.mc,
         s.mc[p].kind = "dir", p \notin DOMAIN s.dc, NEW t, t = ReadDirectory(s, p)
  PROVE  /\ IsState(t) /\ t.undefined = s.undefined /\ t.mc = s.mc /\ t.dmeta = s.dmeta
         /\ Invisible(s, t, X) /\ OnlyAt(s, t, {p})
         /\ s.left = 0 => t.left = 0
         /\ s.left = 0 \/ ~s.mc[p].sized => t.err = "ok"
         /\ t.err = "ok" => DOMAIN t.dc = DOMAIN s.dc \cup {p}
<1> DEFINE s1 == IF s.mc[p].sized THEN Call(s) ELSE s
           r == [entries |-> StoredEntries(s, p), dirty |-> ~s.mc[p].sized]
           dc1 == Put(s.dc, p, r)
<1>1. /\ IsState(s1) /\ SameStores(s, s1) /\ s1.undefined = s.undefined
      /\ s.left = 0 => s1.left = 0 /\ s1.err = s.err
      /\ ~s.mc[p].sized => s1 = s
  <2>1. CASE s.mc[p].sized
    <3>1. s1 = Call(s)
      BY <2>1
    <3> QED
      BY <2>1, <3>1, CallDoes
  <2>2. CASE ~s.mc[p].sized
    <3>1. s1 = s
      BY <2>2
    <3> QED
      BY <2>2, <3>1 DEF SameStores
  <2> QED
    BY <2>1, <2>2
<1>2. t = IF s1.err # "ok" THEN s1
          ELSE [s1 EXCEPT !.dc = Put(@, p,
                  [entries |-> IF s.mc[p].sized /\ p \in DOMAIN s.data THEN s.data[p] ELSE NoEntries,
                   dirty   |-> ~s.mc[p].sized])]
  BY Zenon DEF ReadDirectory
<1>3. r = [entries |-> IF s.mc[p].sized /\ p \in DOMAIN s.data THEN s.data[p] ELSE NoEntries,
           dirty   |-> ~s.mc[p].sized]
  BY DEF StoredEntries
<1>4. t = IF s1.err # "ok" THEN s1 ELSE [s1 EXCEPT !.dc = Put(@, p, r)]
  BY <1>2, <1>3, Zenon
<1>5. dc1 = Put(s.dc, p, [entries |-> StoredEntries(s, p), dirty |-> ~s.mc[p].sized])
  OBVIOUS
<1>6. dc1 = Put(s.dc, p, r)
  OBVIOUS
<1> HIDE DEF s1, r, dc1
<1>7. CASE s1.err # "ok"
  <2>1. t = s1
    BY <1>4, <1>7
  <2>2. Invisible(s, t, X) /\ OnlyAt(s, t, {})
    BY <1>1, <2>1, SameStoresInvisible
  <2>3. OnlyAt(s, t, {p})
    BY <2>2, OnlyAtMore
  <2> QED
    BY <1>1, <1>7, <2>1, <2>2, <2>3 DEF SameStores
<1>8. CASE s1.err = "ok"
  <2>1. t = [s1 EXCEPT !.dc = dc1]
    BY <1>1, <1>4, <1>6, <1>8 DEF SameStores
  <2>2. /\ IsState(t) /\ t.dc = dc1 /\ t.undefined = s.undefined /\ t.left = s1.left
        /\ t.err = "ok"
        /\ t.mc = s.mc /\ t.dmeta = s.dmeta /\ t.fmeta = s.fmeta /\ t.data = s.data
    BY <1>1, <1>8, <2>1 DEF IsState, SameStores
  <2>3. DirectoryRead(s, t, p)
    BY <1>5, <2>2 DEF DirectoryRead
  <2>4. Invisible(s, t, X) /\ OnlyAt(s, t, {p}) /\ DOMAIN t.dc = DOMAIN s.dc \cup {p}
    BY <2>3, DirectoryReadInvisible
  <2> QED
    BY <1>1, <2>2, <2>4
<1> QED
  BY <1>7, <1>8

\* The reference count of cached metadata changes, or its time.
LEMMA RecountDoes ==
  ASSUME NEW s, NEW X, IsState(s), Good(s, X), NEW p \in DOMAIN s.mc, NEW md \in MetadataType,
         md.kind = s.mc[p].kind, md.id = s.mc[p].id, md.sized = s.mc[p].sized,
         md.dirty = s.mc[p].dirty, NEW t, t = [s EXCEPT !.mc[p] = md]
  PROVE  /\ IsState(t) /\ SameControl(s, t) /\ Invisible(s, t, X) /\ OnlyAt(s, t, {p})
         /\ DOMAIN t.mc = DOMAIN s.mc /\ t.mc[p] = md
         /\ t.dc = s.dc /\ t.dmeta = s.dmeta
         /\ \A q \in DOMAIN s.mc : q # p => t.mc[q] = s.mc[q]
<1> DEFINE mc1 == [s.mc EXCEPT ![p] = md]
<1>1. t = [s EXCEPT !.mc = mc1]
  OBVIOUS
<1>2. mc1 = [s.mc EXCEPT ![p] = md]
  OBVIOUS
<1> HIDE DEF mc1
<1>3. /\ IsState(t) /\ SameControl(s, t) /\ t.dc = s.dc /\ t.dmeta = s.dmeta
      /\ t.fmeta = s.fmeta /\ t.data = s.data /\ t.mc = mc1
  BY <1>1 DEF IsState, SameControl
<1>4. RecountedAt(s, t, p, md)
  BY <1>2, <1>3 DEF RecountedAt
<1>5. Invisible(s, t, X) /\ OnlyAt(s, t, {p}) /\ DOMAIN t.mc = DOMAIN s.mc /\ t.mc[p] = md
  <2>1. Good(s, X)
    OBVIOUS
  <2> QED
    BY ONLY <1>4, <2>1, RecountedAtInvisible
<1>6. \A q \in DOMAIN s.mc : q # p => t.mc[q] = s.mc[q]
  BY <1>2, <1>3
<1> QED
  BY <1>3, <1>5, <1>6

LEMMA ReadAgainDoes ==
  ASSUME NEW s, NEW X, IsState(s), Good(s, X), s.err = "ok", NEW p \in DOMAIN s.mc,
         s.mc[p].kind = "dir", p \notin DOMAIN s.dc, NEW t, t = ReadAgain(s, p)
  PROVE  /\ IsState(t) /\ t.undefined = s.undefined /\ DOMAIN t.mc = DOMAIN s.mc
         /\ t.dmeta = s.dmeta
         /\ Invisible(s, t, X) /\ OnlyAt(s, t, {p})
         /\ s.left = 0 => t.left = 0 /\ t.err = "ok" /\ t.mc[p].count = s.mc[p].count - 1
         /\ t.err = "ok" => DOMAIN t.dc = DOMAIN s.dc \cup {p}
<1> DEFINE u == ReadDirectory(s, p)
<1>1. t = IF u.err # "ok" THEN u ELSE [u EXCEPT !.mc[p] = CountDown(@)]
  BY DEF ReadAgain
<1>2. u = ReadDirectory(s, p)
  OBVIOUS
<1> HIDE DEF u
<1>3. /\ IsState(u) /\ u.undefined = s.undefined /\ u.mc = s.mc /\ u.dmeta = s.dmeta
      /\ Invisible(s, u, X) /\ OnlyAt(s, u, {p})
      /\ s.left = 0 => u.left = 0
      /\ s.left = 0 \/ ~s.mc[p].sized => u.err = "ok"
      /\ u.err = "ok" => DOMAIN u.dc = DOMAIN s.dc \cup {p}
  BY <1>2, ReadDirectoryDoes
<1>4. CASE u.err # "ok"
  BY <1>1, <1>3, <1>4
<1>5. CASE u.err = "ok"
  <2> DEFINE md == CountDown(u.mc[p])
  <2>1. t = [u EXCEPT !.mc[p] = md]
    BY <1>1, <1>5
  <2>2. Good(u, X) /\ p \in DOMAIN u.mc /\ u.mc[p] \in MetadataType
    BY <1>3 DEF Invisible, Good, Sound, MetadataOK
  <2>3. /\ md \in MetadataType /\ md.kind = u.mc[p].kind /\ md.id = u.mc[p].id
        /\ md.sized = u.mc[p].sized /\ md.dirty = u.mc[p].dirty
        /\ md.count = u.mc[p].count - 1
    BY <2>2, CountsType
  <2> HIDE DEF md
  <2>4. /\ IsState(t) /\ SameControl(u, t) /\ Invisible(u, t, X) /\ OnlyAt(u, t, {p})
        /\ DOMAIN t.mc = DOMAIN u.mc /\ t.mc[p] = md /\ t.dc = u.dc /\ t.dmeta = u.dmeta
    BY <1>3, <2>1, <2>2, <2>3, RecountDoes
  <2>5. Invisible(s, t, X) /\ OnlyAt(s, t, {p})
    BY <1>3, <2>4, InvisibleTwice, OnlyAtTwice
  <2> QED
    BY <1>3, <1>5, <2>3, <2>4, <2>5 DEF SameControl
<1> QED
  BY <1>4, <1>5

LEMMA OpenPathKind ==
  ASSUME NEW s, NEW X, Good(s, X), NEW p, OpenPath(s, p)
  PROVE  /\ p \in DOMAIN s.mc => s.mc[p].kind = "dir"
         /\ p \in DirPaths /\ p \in AllPaths
<1>1. MetadataOK(s) /\ DirectoriesOK(s) /\ DataOK(s) /\ EntriesMatch(s)
  BY DEF Good, Sound
<1>2. CASE p = Root
  BY <1>1, <1>2, PathsAssumption DEF MetadataOK, AllPaths
<1>3. CASE p \in Paths /\ ListedDir(s, p)
  <2>1. Listed(s, p) /\ Listing(s, p).kind = "dir"
    BY <1>3 DEF ListedDir
  <2> QED
    BY <1>1, <1>3, <2>1, ListingType DEF EntriesMatch, AllPaths
<1> QED
  BY <1>2, <1>3 DEF OpenPath

LEMMA CountedElsewhere ==
  ASSUME NEW s, NEW t, NEW p, Counted(s, {}), OnlyAt(s, t, {p}),
         p \in DOMAIN t.mc =>
           t.mc[p].count \in Counts /\ (t.mc[p].kind = "dir" => p \in DOMAIN t.dc)
  PROVE  Counted(t, {})
  BY DEF Counted, OnlyAt

\* What opening something does, if it fails or not.
Opened(s, t, X, P) ==
  /\ IsState(t) /\ t.undefined = s.undefined
  /\ Invisible(s, t, X) /\ OnlyAt(s, t, P)
  /\ RootKnown(s) => RootKnown(t)
  /\ s.left = 0 => t.left = 0
  /\ s.left = 0 /\ Counted(s, {}) => Counted(t, {})

LEMMA OpenedNothing ==
  ASSUME NEW s, NEW X, IsState(s), Good(s, X), NEW t, IsState(t), SameStores(s, t),
         t.undefined = s.undefined, s.left = 0 => t.left = 0, NEW P
  PROVE  Opened(s, t, X, P)
<1>1. Invisible(s, t, X) /\ OnlyAt(s, t, {})
  BY SameStoresInvisible
<1>2. OnlyAt(s, t, P)
  BY <1>1, OnlyAtMore
<1>3. (RootKnown(s) => RootKnown(t)) /\ (Counted(s, {}) => Counted(t, {}))
  BY DEF RootKnown, Counted, SameStores
<1> QED
  BY <1>1, <1>2, <1>3 DEF Opened

LEMMA OpenedTwice ==
  ASSUME NEW s, NEW t, NEW u, NEW X, NEW P, NEW Q, Opened(s, t, X, P), Opened(t, u, X, Q)
  PROVE  Opened(s, u, X, P \cup Q)
<1>1. Invisible(s, t, X) /\ Invisible(t, u, X) /\ OnlyAt(s, t, P) /\ OnlyAt(t, u, Q)
  BY DEF Opened
<1>2. Invisible(s, u, X)
  BY <1>1, InvisibleTwice
<1>3. OnlyAt(s, t, P \cup Q) /\ OnlyAt(t, u, P \cup Q)
  BY <1>1, OnlyAtMore
<1>4. OnlyAt(s, u, P \cup Q)
  BY <1>3, OnlyAtTwice
<1> QED
  BY <1>2, <1>4 DEF Opened

LEMMA ReopenDirectoryDoes ==
  ASSUME NEW s, NEW X, IsState(s), Good(s, X), s.err = "ok", NEW p, OpenPath(s, p),
         p \in DOMAIN s.mc, ~IsCached(s, p),
         NEW t, t = ReadAgain(IF p \in DOMAIN s.dc THEN EraseDirectory(s, {p}) ELSE s, p)
  PROVE  /\ Opened(s, t, X, {p})
         /\ t.err = "ok" => p \in DOMAIN t.dc
         /\ s.left = 0 => t.err = "ok"
<1> DEFINE u == IF p \in DOMAIN s.dc THEN EraseDirectory(s, {p}) ELSE s
<1>1. /\ IsState(u) /\ SameControl(s, u) /\ Invisible(s, u, X) /\ OnlyAt(s, u, {p})
      /\ SameCounts(s, u) /\ p \notin DOMAIN u.dc
  <2>1. CASE p \in DOMAIN s.dc
    <3>1. u = EraseDirectory(s, {p}) /\ {p} \in SUBSET DOMAIN s.dc
      BY <2>1
    <3> HIDE DEF u
    <3> QED
      BY <3>1, EraseDirectoryDoes
  <2>2. CASE p \notin DOMAIN s.dc
    <3>1. u = s
      BY <2>2
    <3> HIDE DEF u
    <3>2. Invisible(s, u, X) /\ OnlyAt(s, u, {})
      BY <3>1, SameStoresInvisible DEF SameStores
    <3> QED
      BY <2>2, <3>1, <3>2, OnlyAtMore DEF SameControl, SameCounts
  <2> QED
    BY <2>1, <2>2
<1>2. t = ReadAgain(u, p)
  OBVIOUS
<1> HIDE DEF u
<1>3. s.mc[p].kind = "dir" /\ p \in AllPaths
  BY OpenPathKind
<1>4. Good(u, X) /\ u.err = "ok" /\ p \in DOMAIN u.mc /\ u.mc[p].kind = "dir"
  BY <1>1, <1>3 DEF Invisible, SameControl, OnlyAt
<1>5. /\ IsState(t) /\ t.undefined = u.undefined /\ DOMAIN t.mc = DOMAIN u.mc
      /\ t.dmeta = u.dmeta
      /\ Invisible(u, t, X) /\ OnlyAt(u, t, {p})
      /\ u.left = 0 => t.left = 0 /\ t.err = "ok" /\ t.mc[p].count = u.mc[p].count - 1
      /\ t.err = "ok" => DOMAIN t.dc = DOMAIN u.dc \cup {p}
  BY ONLY <1>1, <1>2, <1>4, ReadAgainDoes
<1>6. Invisible(s, t, X) /\ OnlyAt(s, t, {p})
  BY <1>1, <1>5, InvisibleTwice, OnlyAtTwice
<1>7. t.undefined = s.undefined /\ (s.left = 0 => t.left = 0 /\ t.err = "ok")
  BY <1>1, <1>5 DEF SameControl
<1>8. t.err = "ok" => p \in DOMAIN t.dc
  BY <1>5
<1>9. RootKnown(s) => RootKnown(t)
  BY <1>6 DEF RootKnown, OnlyAt
<1>10. ASSUME s.left = 0, Counted(s, {})
       PROVE  Counted(t, {})
  <2>1. p \in DOMAIN s.dc
    BY <1>3, <1>10 DEF Counted
  <2>2. s.mc[p].count = 0
    BY <2>1 DEF IsCached, Valid
  <2>3. t.mc[p].count = -1
    BY <1>1, <1>5, <1>10, <2>2 DEF SameControl, SameCounts
  <2>4. t.mc[p].count \in Counts /\ p \in DOMAIN t.dc
    BY <1>7, <1>8, <1>10, <2>3 DEF Counts
  <2> QED
    BY ONLY <1>6, <1>10, <2>4, CountedElsewhere
<1> QED
  BY <1>5, <1>6, <1>7, <1>8, <1>9, <1>10 DEF Opened

LEMMA LoadDirectoryDoes ==
  ASSUME NEW s, NEW X, IsState(s), Good(s, X), s.err = "ok", NEW p, OpenPath(s, p), p \notin X,
         p \notin DOMAIN s.mc, NEW t, t = LoadDirectory(s, p)
  PROVE  /\ Opened(s, t, X, {p})
         /\ t.err = "ok" => p \in DOMAIN t.dc
         /\ s.left = 0 /\ p \in DOMAIN s.dmeta => t.err = "ok"
<1> DEFINE s1 == Call(s)
           md == Metadata("dir", s1.dmeta[p].id, s1.dmeta[p].sized, FALSE, 1)
           mc1 == Put(s1.mc, p, md)
           u == [s1 EXCEPT !.mc = mc1]
<1>1. t = IF s1.err # "ok" THEN s1
          ELSE IF p \notin DOMAIN s.dmeta THEN Fail(s1, "ENOENT")
          ELSE ReadAgain([s1 EXCEPT !.mc = Put(@, p,
                 Metadata("dir", s.dmeta[p].id, s.dmeta[p].sized, FALSE, 1))], p)
  BY DEF LoadDirectory
<1>2. s1 = Call(s)
  OBVIOUS
<1>3. /\ u = [s1 EXCEPT !.mc = mc1] /\ mc1 = Put(s1.mc, p, md)
      /\ md = Metadata("dir", s1.dmeta[p].id, s1.dmeta[p].sized, FALSE, 1)
  OBVIOUS
<1>4. s1.dmeta = s.dmeta => u = [s1 EXCEPT !.mc = Put(@, p,
                 Metadata("dir", s.dmeta[p].id, s.dmeta[p].sized, FALSE, 1))]
  OBVIOUS
<1> HIDE DEF s1, md, mc1, u
<1>5. /\ IsState(s1) /\ SameStores(s, s1) /\ s1.undefined = s.undefined
      /\ s.left = 0 => s1.left = 0 /\ s1.err = s.err
  BY <1>2, CallDoes
<1>6. CASE s1.err # "ok"
  BY <1>1, <1>5, <1>6, OpenedNothing
<1>7. CASE s1.err = "ok" /\ p \notin DOMAIN s.dmeta
  <2>1. t = Fail(s1, "ENOENT")
    BY <1>1, <1>7
  <2>2. /\ IsState(t) /\ SameStores(s1, t) /\ t.undefined = s1.undefined
        /\ t.left = s1.left /\ t.err = "ENOENT"
    BY <1>5, <2>1, FailDoes
  <2>3. SameStores(s, t)
    BY <1>5, <2>2 DEF SameStores
  <2> QED
    BY <1>5, <1>7, <2>2, <2>3, OpenedNothing
<1>8. CASE s1.err = "ok" /\ p \in DOMAIN s.dmeta
  <2>1. t = ReadAgain(u, p)
    BY <1>1, <1>4, <1>5, <1>8 DEF SameStores
  <2>2. /\ IsState(u) /\ u.undefined = s1.undefined /\ u.err = s1.err /\ u.left = s1.left
        /\ u.mc = mc1 /\ u.dc = s1.dc /\ u.dmeta = s1.dmeta /\ u.fmeta = s1.fmeta
        /\ u.data = s1.data
    BY <1>3, <1>5 DEF IsState
  <2>3. Good(s1, X) /\ Invisible(s, s1, X) /\ OnlyAt(s, s1, {})
    BY <1>5, SameStoresInvisible DEF Invisible
  <2>4. OpenPath(s1, p) /\ p \notin DOMAIN s1.mc /\ p \in DOMAIN s1.dmeta
    <3>1. SameEntries(s, s1)
      BY <2>3 DEF Invisible
    <3>2. p \in Paths /\ ListedDir(s, p) => ListedDir(s1, p)
      BY <3>1, SameListing DEF ListedDir
    <3> QED
      BY <1>5, <1>8, <3>2 DEF OpenPath, SameStores
  <2>5. /\ md \in MetadataType /\ md.kind = "dir" /\ md.id = s1.dmeta[p].id
        /\ md.sized = s1.dmeta[p].sized /\ ~md.dirty /\ md.count = 1
    <3>1. s1.dmeta[p] \in RecordType
      BY <2>3, <2>4 DEF Good, Sound, RecordsOK
    <3> QED
      BY <1>3, <3>1, DirectoryMetadata
  <2>6. MetadataAdded(s1, u, p, md)
    BY <1>3, <2>2, <2>4, <2>5 DEF MetadataAdded
  <2>7. /\ Invisible(s1, u, X) /\ OnlyAt(s1, u, {p})
        /\ DOMAIN u.mc = DOMAIN s1.mc \cup {p} /\ u.mc[p] = md
    <3>1. p \notin X
      OBVIOUS
    <3> QED
      BY ONLY <2>3, <2>4, <2>5, <2>6, <3>1, DirectoryLoaded
  <2>8. p \notin DOMAIN s1.dc
    BY <2>3, <2>4 DEF Good, Sound, DirectoriesCached
  <2>9. Good(u, X) /\ p \in DOMAIN u.mc /\ p \notin DOMAIN u.dc /\ u.err = "ok"
    BY <1>8, <2>2, <2>7, <2>8 DEF Invisible
  <2>10. /\ IsState(t) /\ t.undefined = u.undefined /\ DOMAIN t.mc = DOMAIN u.mc
         /\ t.dmeta = u.dmeta
         /\ Invisible(u, t, X) /\ OnlyAt(u, t, {p})
         /\ u.left = 0 => t.left = 0 /\ t.err = "ok" /\ t.mc[p].count = u.mc[p].count - 1
         /\ t.err = "ok" => DOMAIN t.dc = DOMAIN u.dc \cup {p}
    BY <2>1, <2>2, <2>5, <2>7, <2>9, ReadAgainDoes
  <2>11. Invisible(s, t, X)
    BY <2>3, <2>7, <2>10, InvisibleTwice
  <2>12. OnlyAt(s, t, {p})
    <3>1. OnlyAt(s, s1, {p})
      BY <2>3, OnlyAtMore
    <3> QED
      BY <2>7, <2>10, <3>1, OnlyAtTwice
  <2>13. t.undefined = s.undefined /\ (s.left = 0 => t.left = 0 /\ t.err = "ok")
    BY <1>5, <2>2, <2>10
  <2>14. RootKnown(s) => RootKnown(t)
    BY <1>5, <2>2, <2>7, <2>10 DEF RootKnown, SameStores
  <2>15. t.err = "ok" => p \in DOMAIN t.dc
    BY <2>10
  <2>16. ASSUME s.left = 0, Counted(s, {})
         PROVE  Counted(t, {})
    <3>1. t.mc[p].count = 0
      BY <1>5, <2>2, <2>5, <2>7, <2>10, <2>16
    <3> QED
      BY <2>12, <2>13, <2>15, <2>16, <3>1, CountedElsewhere DEF Counts
  <2> QED
    BY <2>10, <2>11, <2>12, <2>13, <2>14, <2>15, <2>16 DEF Opened
<1> QED
  BY <1>6, <1>7, <1>8

LEMMA OpenDirectoryDoes ==
  ASSUME NEW s, NEW X, IsState(s), Good(s, X), NEW p, OpenPath(s, p), p \notin X,
         NEW t, t = OpenDirectory(s, p)
  PROVE  /\ Opened(s, t, X, {p})
         /\ s.err # "ok" => t = s
         /\ t.err = "ok" => p \in DOMAIN t.dc
         /\ s.err = "ok" /\ s.left = 0 /\ Calm /\ RootKnown(s) => t.err = "ok"
<1>1. CASE s.err # "ok"
  <2>1. t = s
    BY <1>1 DEF OpenDirectory
  <2>2. SameStores(s, t)
    BY <2>1 DEF SameStores
  <2> QED
    BY <1>1, <2>1, <2>2, OpenedNothing
<1>2. CASE s.err = "ok" /\ IsCached(s, p)
  <2> DEFINE md == CountUp(s.mc[p])
  <2>1. t = [s EXCEPT !.mc[p] = md]
    BY <1>2 DEF OpenDirectory
  <2>2. p \in DOMAIN s.dc /\ p \in DOMAIN s.mc /\ s.mc[p] \in MetadataType
    BY <1>2 DEF IsCached, Good, Sound, MetadataOK, DirectoriesCached
  <2>3. /\ md \in MetadataType /\ md.kind = s.mc[p].kind /\ md.id = s.mc[p].id
        /\ md.sized = s.mc[p].sized /\ md.dirty = s.mc[p].dirty
        /\ md.count = (IF s.mc[p].count = 1 THEN 1 ELSE s.mc[p].count + 1)
    BY <2>2, CountsType
  <2> HIDE DEF md
  <2>4. /\ IsState(t) /\ SameControl(s, t) /\ Invisible(s, t, X) /\ OnlyAt(s, t, {p})
        /\ DOMAIN t.mc = DOMAIN s.mc /\ t.mc[p] = md
        /\ t.dc = s.dc /\ t.dmeta = s.dmeta
    BY <2>1, <2>2, <2>3, RecountDoes
  <2>5. Counted(s, {}) => Counted(t, {})
    <3>1. Counted(s, {}) => t.mc[p].count \in Counts
      <4>1. ASSUME NEW c \in Counts
            PROVE  (IF c = 1 THEN 1 ELSE c + 1) \in Counts
        BY DEF Counts
      <4>2. t.mc[p].count = (IF s.mc[p].count = 1 THEN 1 ELSE s.mc[p].count + 1)
        BY <2>3, <2>4
      <4> QED
        BY <2>2, <4>1, <4>2 DEF Counted
    <3>2. p \in DOMAIN t.dc
      BY <2>2, <2>4
    <3> QED
      BY ONLY <2>4, <3>1, <3>2, CountedElsewhere
  <2>6. RootKnown(s) => RootKnown(t)
    BY <2>4 DEF RootKnown
  <2> QED
    BY <1>2, <2>2, <2>4, <2>5, <2>6 DEF Opened, SameControl
<1>3. CASE s.err = "ok" /\ ~IsCached(s, p) /\ p \in DOMAIN s.mc
  <2>1. t = ReadAgain(IF p \in DOMAIN s.dc THEN EraseDirectory(s, {p}) ELSE s, p)
    BY <1>3 DEF OpenDirectory
  <2>2. /\ Opened(s, t, X, {p})
        /\ t.err = "ok" => p \in DOMAIN t.dc
        /\ s.left = 0 => t.err = "ok"
    BY <1>3, <2>1, ReopenDirectoryDoes
  <2> QED
    BY <1>3, <2>2
<1>4. CASE s.err = "ok" /\ ~IsCached(s, p) /\ p \notin DOMAIN s.mc
  <2>1. t = LoadDirectory(s, p)
    BY <1>4 DEF OpenDirectory
  <2>2. /\ Opened(s, t, X, {p})
        /\ t.err = "ok" => p \in DOMAIN t.dc
        /\ s.left = 0 /\ p \in DOMAIN s.dmeta => t.err = "ok"
    BY <1>4, <2>1, LoadDirectoryDoes
  <2>3. ASSUME Calm, RootKnown(s)
        PROVE  p \in DOMAIN s.dmeta
    <3>1. CASE p = Root
      BY <1>4, <2>3, <3>1 DEF RootKnown
    <3>2. CASE p \in Paths /\ ListedDir(s, p)
      <4>1. LinkedAt(s, p)
        BY <2>3, <3>2 DEF Good, Linked
      <4> QED
        BY <1>4, <3>2, <4>1 DEF LinkedAt, ListedDir
    <3> QED
      BY <3>1, <3>2 DEF OpenPath
  <2> QED
    BY <1>4, <2>2, <2>3
<1> QED
  BY <1>1, <1>2, <1>3, <1>4

\* What a cached directory lists.
LEMMA EntryIsListed ==
  ASSUME NEW s, NEW p, Parent(p) \in DOMAIN s.dc
  PROVE  /\ HasEntry(s, p) <=> Listed(s, p)
         /\ Entry(s, p) = Listing(s, p)
         /\ EntriesOf(s, Parent(p)) = s.dc[Parent(p)].entries
  BY DEF HasEntry, Entry, Listed, Listing, EntriesOf

\* What is listed stays so.
LEMMA InvisibleListing ==
  ASSUME NEW s, NEW t, NEW X, Invisible(s, t, X)
  PROVE  /\ \A p \in Paths : (Listed(t, p) <=> Listed(s, p)) /\ Listing(t, p) = Listing(s, p)
         /\ \A p : OpenPath(s, p) => OpenPath(t, p)
<1>1. SameEntries(s, t)
  BY DEF Invisible
<1>2. \A p \in Paths : (Listed(t, p) <=> Listed(s, p)) /\ Listing(t, p) = Listing(s, p)
  BY <1>1, SameListing
<1> QED
  BY <1>2 DEF OpenPath, ListedDir

\* The entry of p is looked up.
LEMMA FindEntryDoes ==
  ASSUME NEW s, NEW X, IsState(s), Good(s, X), NEW p \in Paths, OpenPath(s, Parent(p)),
         Parent(p) \notin X, s.err = "ok", NEW t, t = FindEntry(s, p)
  PROVE  /\ Opened(s, t, X, {Parent(p)})
         /\ t.err = "ok" => Parent(p) \in DOMAIN t.dc /\ Listed(s, p)
         /\ s.left = 0 /\ Calm /\ RootKnown(s) =>
              t.err = IF Listed(s, p) THEN "ok" ELSE "ENOENT"
<1> DEFINE u == OpenDirectory(s, Parent(p))
<1>1. t = IF u.err = "ok" /\ ~HasEntry(u, p) THEN Fail(u, "ENOENT") ELSE u
  BY DEF FindEntry, GetEntry
<1>2. u = OpenDirectory(s, Parent(p))
  OBVIOUS
<1> HIDE DEF u
<1>3. /\ Opened(s, u, X, {Parent(p)})
      /\ u.err = "ok" => Parent(p) \in DOMAIN u.dc
      /\ s.left = 0 /\ Calm /\ RootKnown(s) => u.err = "ok"
  BY <1>2, OpenDirectoryDoes
<1>4. Listed(u, p) <=> Listed(s, p)
  BY <1>3, InvisibleListing DEF Opened
<1>5. u.err = "ok" => (HasEntry(u, p) <=> Listed(s, p))
  BY <1>3, <1>4, EntryIsListed
<1>6. CASE u.err = "ok" /\ ~HasEntry(u, p)
  <2>1. t = Fail(u, "ENOENT")
    BY <1>1, <1>6
  <2>2. /\ IsState(t) /\ SameStores(u, t) /\ t.undefined = u.undefined
        /\ t.left = u.left /\ t.err = "ENOENT"
    BY <1>3, <2>1, FailDoes DEF Opened
  <2>3. Opened(u, t, X, {Parent(p)})
    BY <1>3, <2>2, OpenedNothing DEF Opened, Invisible
  <2>4. Opened(s, t, X, {Parent(p)} \cup {Parent(p)})
    BY <1>3, <2>3, OpenedTwice
  <2>5. {Parent(p)} \cup {Parent(p)} = {Parent(p)}
    OBVIOUS
  <2> QED
    BY <1>5, <1>6, <2>2, <2>4, <2>5
<1>7. CASE ~(u.err = "ok" /\ ~HasEntry(u, p))
  <2>1. t = u
    BY <1>1, <1>7
  <2> QED
    BY <1>3, <1>5, <1>7, <2>1
<1> QED
  BY <1>6, <1>7

LEMMA LoadFileDoes ==
  ASSUME NEW s, NEW X, IsState(s), Good(s, X), NEW p \in Paths, p \notin X, p \notin DOMAIN s.mc,
         Parent(p) \in DOMAIN s.dc, Listed(s, p), Listing(s, p).kind = "file", s.err = "ok",
         NEW t, t = LoadFile(s, p)
  PROVE  /\ Opened(s, t, X, {p})
         /\ t.err = "ok" => p \in DOMAIN t.mc
         /\ s.left = 0 /\ Calm => t.err = "ok"
<1> DEFINE s1 == Call(s)
           md == Metadata("file", Entry(s, p).id, FALSE, FALSE, 1)
           mc1 == Put(s1.mc, p, md)
           u == [s1 EXCEPT !.mc = mc1]
<1>1. t = IF s1.err # "ok" THEN s1
          ELSE IF Entry(s, p).id \in s.fmeta THEN u
          ELSE Fail(s1, "ENOENT")
  BY DEF LoadFile
<1>2. s1 = Call(s)
  OBVIOUS
<1>3. /\ u = [s1 EXCEPT !.mc = mc1] /\ mc1 = Put(s1.mc, p, md)
      /\ md = Metadata("file", Entry(s, p).id, FALSE, FALSE, 1)
  OBVIOUS
<1> HIDE DEF s1, md, mc1, u
<1>4. /\ IsState(s1) /\ SameStores(s, s1) /\ s1.undefined = s.undefined
      /\ s.left = 0 => s1.left = 0 /\ s1.err = s.err
  BY <1>2, CallDoes
<1>5. Entry(s, p) = Listing(s, p)
  BY EntryIsListed
<1>6. CASE s1.err # "ok"
  BY <1>1, <1>4, <1>6, OpenedNothing
<1>7. CASE s1.err = "ok" /\ Entry(s, p).id \notin s.fmeta
  <2>1. t = Fail(s1, "ENOENT")
    BY <1>1, <1>7
  <2>2. /\ IsState(t) /\ SameStores(s1, t) /\ t.undefined = s1.undefined
        /\ t.left = s1.left /\ t.err = "ENOENT"
    BY <1>4, <2>1, FailDoes
  <2>3. SameStores(s, t)
    BY <1>4, <2>2 DEF SameStores
  <2>4. ~Calm
    <3>1. Calm => LinkedAt(s, p)
      BY DEF Good, Linked
    <3> QED
      BY <1>5, <1>7, <3>1 DEF LinkedAt
  <2> QED
    BY <1>4, <2>2, <2>3, <2>4, OpenedNothing
<1>8. CASE s1.err = "ok" /\ Entry(s, p).id \in s.fmeta
  <2>1. t = u
    BY <1>1, <1>8
  <2>2. /\ IsState(t) /\ t.undefined = s1.undefined /\ t.err = s1.err /\ t.left = s1.left
        /\ t.mc = mc1 /\ t.dc = s1.dc /\ t.dmeta = s1.dmeta /\ t.fmeta = s1.fmeta
        /\ t.data = s1.data
    BY <1>3, <1>4, <2>1 DEF IsState
  <2>3. Listing(s, p).id \in Ids
    BY ListingType DEF Good, Sound
  <2>4. /\ md \in MetadataType /\ md.kind = "file" /\ md.id = Listing(s, p).id
        /\ ~md.dirty /\ md.count = 1
    BY <1>3, <1>5, <2>3, FileMetadata
  <2>5. MetadataAdded(s, t, p, md)
    BY <1>3, <1>4, <2>2, <2>4 DEF MetadataAdded, SameStores
  <2>6. /\ Invisible(s, t, X) /\ OnlyAt(s, t, {p})
        /\ DOMAIN t.mc = DOMAIN s.mc \cup {p} /\ t.mc[p] = md
    <3>1. /\ Good(s, X) /\ p \in Paths /\ p \notin X /\ p \notin DOMAIN s.mc /\ Listed(s, p)
          /\ Listing(s, p).kind = "file" /\ Listing(s, p).id \in s.fmeta
      BY <1>5, <1>8
    <3>2. Invisible(s, t, X) /\ OnlyAt(s, t, {p})
      BY ONLY <2>4, <2>5, <3>1, FileLoaded
    <3>3. DOMAIN t.mc = DOMAIN s.mc \cup {p} /\ t.mc[p] = md
      BY <2>5, MetadataAddedDoes DEF Good
    <3> QED
      BY <3>2, <3>3
  <2>7. Counted(s, {}) => Counted(t, {})
    <3>1. t.mc[p].count \in Counts /\ t.mc[p].kind # "dir"
      BY <2>4, <2>6 DEF Counts
    <3> QED
      BY <2>6, <3>1, CountedElsewhere
  <2>8. RootKnown(s) => RootKnown(t)
    BY <1>4, <2>2, <2>6 DEF RootKnown, SameStores
  <2> QED
    BY <1>4, <1>8, <2>2, <2>6, <2>7, <2>8 DEF Opened
<1> QED
  BY <1>6, <1>7, <1>8

LEMMA OpenFileDoes ==
  ASSUME NEW s, NEW X, IsState(s), Good(s, X), NEW p \in Paths, p \notin X,
         OpenPath(s, Parent(p)), Parent(p) \notin X, Listed(s, p), Listing(s, p).kind = "file",
         s.err = "ok", NEW t, t = OpenFile(s, p)
  PROVE  /\ Opened(s, t, X, {p, Parent(p)})
         /\ t.err = "ok" => p \in DOMAIN t.mc /\ t.mc[p].kind = "file"
         /\ s.left = 0 /\ Calm /\ RootKnown(s) => t.err = "ok"
<1>1. EntriesMatch(s) /\ MetadataOK(s)
  BY DEF Good, Sound
<1>2. CASE p \in DOMAIN s.mc
  <2> DEFINE md == Touch(s.mc[p])
  <2>1. t = [s EXCEPT !.mc[p] = md]
    BY <1>2 DEF OpenFile
  <2>2. s.mc[p] \in MetadataType /\ s.mc[p].kind = "file"
    BY <1>1, <1>2 DEF MetadataOK, EntriesMatch
  <2>3. /\ md \in MetadataType /\ md.kind = s.mc[p].kind /\ md.id = s.mc[p].id
        /\ md.sized = s.mc[p].sized /\ md.dirty = s.mc[p].dirty /\ md.count = s.mc[p].count
    BY <2>2, CountsType
  <2> HIDE DEF md
  <2>4. /\ IsState(t) /\ SameControl(s, t) /\ Invisible(s, t, X) /\ OnlyAt(s, t, {p})
        /\ DOMAIN t.mc = DOMAIN s.mc /\ t.mc[p] = md
        /\ t.dc = s.dc /\ t.dmeta = s.dmeta
    BY <1>2, <2>1, <2>3, RecountDoes
  <2>5. Counted(s, {}) => Counted(t, {})
    <3>1. Counted(s, {}) => t.mc[p].count \in Counts
      BY <1>2, <2>3, <2>4 DEF Counted
    <3>2. t.mc[p].kind # "dir"
      BY <2>2, <2>3, <2>4
    <3> QED
      BY ONLY <2>4, <3>1, <3>2, CountedElsewhere
  <2>6. RootKnown(s) => RootKnown(t)
    BY <2>4 DEF RootKnown
  <2>7. OnlyAt(s, t, {p, Parent(p)})
    BY <2>4, OnlyAtMore
  <2> QED
    BY <1>2, <2>2, <2>3, <2>4, <2>5, <2>6, <2>7 DEF Opened, SameControl
<1>3. CASE p \notin DOMAIN s.mc
  <2> DEFINE u == FindEntry(s, p)
  <2>1. t = LoadFile(u, p)
    BY <1>3 DEF OpenFile
  <2>2. u = FindEntry(s, p)
    OBVIOUS
  <2> HIDE DEF u
  <2>3. /\ Opened(s, u, X, {Parent(p)})
        /\ u.err = "ok" => Parent(p) \in DOMAIN u.dc /\ Listed(s, p)
        /\ s.left = 0 /\ Calm /\ RootKnown(s) => u.err = "ok"
    BY <2>2, FindEntryDoes
  <2>4. CASE u.err # "ok"
    <3>1. t = u
      BY <2>1, <2>4 DEF LoadFile
    <3>2. OnlyAt(s, t, {p, Parent(p)})
      BY <2>3, <3>1, OnlyAtMore DEF Opened
    <3> QED
      BY <2>3, <2>4, <3>1, <3>2 DEF Opened
  <2>5. CASE u.err = "ok"
    <3>1. IsState(u) /\ Good(u, X) /\ Invisible(s, u, X) /\ OnlyAt(s, u, {Parent(p)})
      BY <2>3 DEF Opened, Invisible
    <3>2. Listed(u, p) /\ Listing(u, p).kind = "file"
      BY <3>1, InvisibleListing
    <3>3. p \notin DOMAIN u.mc
      BY <1>3, <3>1, PrefixSelf DEF OnlyAt
    <3>4. /\ Opened(u, t, X, {p})
          /\ t.err = "ok" => p \in DOMAIN t.mc
          /\ u.left = 0 /\ Calm => t.err = "ok"
      BY <2>1, <2>3, <2>5, <3>1, <3>2, <3>3, LoadFileDoes
    <3>5. Opened(s, t, X, {p, Parent(p)})
      <4>1. Opened(s, t, X, {Parent(p)} \cup {p}) /\ {Parent(p)} \cup {p} = {p, Parent(p)}
        BY <2>3, <3>4, OpenedTwice
      <4> QED
        BY <4>1
    <3>6. t.err = "ok" => t.mc[p].kind = "file"
      <4>1. Good(t, X) /\ Listed(t, p) /\ Listing(t, p).kind = "file"
        BY <3>5, InvisibleListing DEF Opened, Invisible
      <4> QED
        BY <3>4, <4>1 DEF Good, Sound, EntriesMatch
    <3> QED
      BY <2>3, <3>4, <3>5, <3>6 DEF Opened
  <2> QED
    BY <2>4, <2>5
<1> QED
  BY <1>2, <1>3

\* getattr changes nothing.
LEMMA GetAttrDoes ==
  ASSUME NEW s, IsState(s), Good(s, {}), NEW p \in Paths, OpenPath(s, Parent(p)), s.err = "ok",
         NEW t, t = GetAttr(s, p)
  PROVE  /\ Opened(s, t, {}, {p, Parent(p)})
         /\ s.left = 0 /\ Calm /\ RootKnown(s) =>
              t.err = IF Listed(s, p) THEN "ok" ELSE "ENOENT"
<1> DEFINE u == FindEntry(s, p)
<1>1. t = IF u.err # "ok" THEN u
          ELSE IF Entry(u, p).kind = "file" THEN OpenFile(u, p) ELSE OpenDirectory(u, p)
  BY DEF GetAttr, OpenEntry
<1>2. u = FindEntry(s, p)
  OBVIOUS
<1> HIDE DEF u
<1>3. /\ Opened(s, u, {}, {Parent(p)})
      /\ u.err = "ok" => Parent(p) \in DOMAIN u.dc /\ Listed(s, p)
      /\ s.left = 0 /\ Calm /\ RootKnown(s) => u.err = IF Listed(s, p) THEN "ok" ELSE "ENOENT"
  BY <1>2, FindEntryDoes
<1>4. IsState(u) /\ Good(u, {}) /\ Invisible(s, u, {})
  BY <1>3 DEF Opened, Invisible
<1>5. CASE u.err # "ok"
  <2>1. t = u
    BY <1>1, <1>5
  <2>2. OnlyAt(s, t, {p, Parent(p)})
    BY <1>3, <2>1, OnlyAtMore DEF Opened
  <2> QED
    BY <1>3, <1>5, <2>1, <2>2 DEF Opened
<1>6. CASE u.err = "ok"
  <2>1. Listed(u, p) /\ OpenPath(u, Parent(p)) /\ Entry(u, p) = Listing(u, p)
    BY <1>3, <1>4, <1>6, InvisibleListing, EntryIsListed
  <2>2. Listing(u, p).kind \in {"file", "dir"}
    BY <1>4, <2>1, ListingType DEF Good, Sound
  <2>3. /\ Opened(u, t, {}, {p, Parent(p)})
        /\ u.left = 0 /\ Calm /\ RootKnown(u) => t.err = "ok"
    <3>1. CASE Listing(u, p).kind = "file"
      <4>1. t = OpenFile(u, p)
        BY <1>1, <1>6, <2>1, <3>1
      <4>2. p \notin {} /\ Parent(p) \notin {}
        OBVIOUS
      <4> QED
        BY <1>4, <1>6, <2>1, <3>1, <4>1, <4>2, OpenFileDoes
    <3>2. CASE Listing(u, p).kind # "file"
      <4>1. t = OpenDirectory(u, p) /\ OpenPath(u, p) /\ p \notin {}
        BY <1>1, <1>6, <2>1, <2>2, <3>2 DEF OpenPath, ListedDir
      <4>2. /\ Opened(u, t, {}, {p})
            /\ u.left = 0 /\ Calm /\ RootKnown(u) => t.err = "ok"
        BY <1>4, <1>6, <4>1, OpenDirectoryDoes
      <4>3. OnlyAt(u, t, {p, Parent(p)})
        BY <4>2, OnlyAtMore DEF Opened
      <4> QED
        BY <4>2, <4>3 DEF Opened
    <3> QED
      BY <3>1, <3>2
  <2>4. Opened(s, t, {}, {p, Parent(p)})
    <3>1. /\ Opened(s, t, {}, {Parent(p)} \cup {p, Parent(p)})
          /\ {Parent(p)} \cup {p, Parent(p)} = {p, Parent(p)}
      BY <1>3, <2>3, OpenedTwice
    <3> QED
      BY <3>1
  <2> QED
    BY <1>3, <1>6, <2>3, <2>4 DEF Opened
<1> QED
  BY <1>5, <1>6

-----------------------------------------------------------------------------
(* Entries.                                                                *)

LEMMA LinkedSame ==
  ASSUME NEW s, NEW t, NEW q, LinkedAt(s, q),
         q \in DOMAIN t.mc <=> q \in DOMAIN s.mc, q \in DOMAIN t.dmeta <=> q \in DOMAIN s.dmeta,
         Listed(t, q) <=> Listed(s, q), Listed(s, q) => Listing(t, q) = Listing(s, q),
         t.fmeta = s.fmeta
  PROVE  LinkedAt(t, q)
  BY DEF LinkedAt, Unused

\* The cached directory d now has the entries e.
EntriesChanged(s, t, d, e) ==
  /\ t.mc = s.mc /\ t.dmeta = s.dmeta /\ t.fmeta = s.fmeta /\ t.data = s.data
  /\ d \in DOMAIN s.dc
  /\ t.dc = [s.dc EXCEPT ![d] = [entries |-> e, dirty |-> TRUE]]

LEMMA DirtyDirectory ==
  ASSUME NEW e, NEW m, m = [entries |-> e, dirty |-> TRUE]
  PROVE  m \in DirectoryType(m.entries) /\ m.entries = e /\ m.dirty /\ m.dirty \in BOOLEAN
  BY DEF DirectoryType

LEMMA EntriesChangedDoes ==
  ASSUME NEW s, Sound(s), NEW t, NEW d, NEW e, EntriesChanged(s, t, d, e), IsContent(d, e)
  PROVE  /\ Elsewhere(s, t, d) /\ Shapes(t) /\ SoundAt(t, d)
         /\ DOMAIN t.dc = DOMAIN s.dc /\ t.dc[d].entries = e
         /\ \A q \in DOMAIN s.dc : q # d => t.dc[q] = s.dc[q]
<1> DEFINE m == [entries |-> e, dirty |-> TRUE]
<1>1. t.dc = [s.dc EXCEPT ![d] = m] /\ d \in DOMAIN s.dc
  BY DEF EntriesChanged
<1>2. m = [entries |-> e, dirty |-> TRUE]
  OBVIOUS
<1> HIDE DEF m
<1>3. Shapes(s) /\ SoundAt(s, d)
  BY SoundIsLocal
<1>4. /\ DOMAIN t.dc = DOMAIN s.dc /\ t.dc = [p \in DOMAIN t.dc |-> t.dc[p]]
      /\ t.dc[d] = m /\ \A q \in DOMAIN s.dc : q # d => t.dc[q] = s.dc[q]
  BY <1>1, <1>3 DEF Shapes
<1>5. m \in DirectoryType(m.entries) /\ m.entries = e /\ m.dirty /\ m.dirty \in BOOLEAN
  BY <1>2, DirtyDirectory
<1>6. t.mc = s.mc /\ t.dmeta = s.dmeta /\ t.fmeta = s.fmeta /\ t.data = s.data
  BY DEF EntriesChanged
<1>7. Elsewhere(s, t, d)
  BY <1>4, <1>6 DEF Elsewhere
<1>8. Shapes(t)
  BY <1>3, <1>4, <1>6 DEF Shapes
<1>9. DirectorySound(t, d)
  BY <1>1, <1>3, <1>4, <1>5, <1>6 DEF DirectorySound, SoundAt
<1>10. SoundAt(t, d)
  BY <1>3, <1>6, <1>9 DEF SoundAt, MetadataSound, MetadataRecorded, RecordSound, DataSound
<1> QED
  BY <1>4, <1>5, <1>7, <1>8, <1>10

LEMMA ContentPut ==
  ASSUME NEW p \in Paths, NEW e, IsContent(Parent(p), e), NEW x \in EntryType,
         x.kind = "dir" => p \in DirPaths, NEW f, f = Put(e, Name(p), x)
  PROVE  /\ IsContent(Parent(p), f) /\ DOMAIN f = DOMAIN e \cup {Name(p)} /\ f[Name(p)] = x
         /\ \A n \in DOMAIN e : n # Name(p) => f[n] = e[n]
<1>1. /\ DOMAIN f = DOMAIN e \cup {Name(p)} /\ f = [n \in DOMAIN f |-> f[n]] /\ f[Name(p)] = x
      /\ \A n \in DOMAIN e : n # Name(p) => f[n] = e[n]
  BY DEF Put
<1>2. /\ e \in [DOMAIN e -> EntryType]
      /\ \A n \in DOMAIN e : \E q \in Paths :
           Parent(q) = Parent(p) /\ Name(q) = n /\ (e[n].kind = "dir" => q \in DirPaths)
  BY DEF IsContent
<1>3. \A n \in DOMAIN f : f[n] \in EntryType
  BY <1>1, <1>2
<1>4. ASSUME NEW n \in DOMAIN f
      PROVE  \E q \in Paths :
               Parent(q) = Parent(p) /\ Name(q) = n /\ (f[n].kind = "dir" => q \in DirPaths)
  <2>1. CASE n = Name(p)
    BY <1>1, <2>1
  <2>2. CASE n # Name(p)
    BY <1>1, <1>2, <2>2
  <2> QED
    BY <2>1, <2>2
<1>5. f \in [DOMAIN f -> EntryType]
  BY <1>1, <1>3
<1> QED
  BY <1>1, <1>4, <1>5 DEF IsContent

LEMMA ContentDel ==
  ASSUME NEW d, NEW e, IsContent(d, e), NEW n, NEW f, f = Del(e, n)
  PROVE  /\ IsContent(d, f) /\ DOMAIN f = DOMAIN e \ {n}
         /\ \A x \in DOMAIN f : f[x] = e[x]
<1>1. f = [x \in DOMAIN e \ {n} |-> e[x]]
  BY DEF Del, Restrict
<1>2. DOMAIN f = DOMAIN e \ {n} /\ f = [x \in DOMAIN f |-> f[x]] /\ \A x \in DOMAIN f : f[x] = e[x]
  BY <1>1
<1>3. e \in [DOMAIN e -> EntryType]
  BY DEF IsContent
<1>4. f \in [DOMAIN f -> EntryType]
  BY <1>2, <1>3
<1> QED
  BY <1>2, <1>4 DEF IsContent

\* The cached metadata of p gets its entry.
LEMMA EntryAdded ==
  ASSUME NEW s, NEW p \in Paths, Good(s, {p}), p \in DOMAIN s.mc, Parent(p) \in DOMAIN s.dc,
         ~Listed(s, p), Calm /\ s.mc[p].kind = "file" => p \notin DOMAIN s.dmeta,
         NEW x \in EntryType, x.id = s.mc[p].id, x.kind = s.mc[p].kind,
         NEW t, EntriesChanged(s, t, Parent(p), Put(s.dc[Parent(p)].entries, Name(p), x))
  PROVE  /\ Good(t, {}) /\ Listed(t, p)
         /\ Node(t, p) = [kind |-> s.mc[p].kind, id |-> s.mc[p].id]
         /\ \A q \in Paths \ {p} : SameNode(s, t, q)
<1> DEFINE d == Parent(p)
           e == Put(s.dc[Parent(p)].entries, Name(p), x)
<1>1. /\ Sound(s) /\ OnePath(s, {p}) /\ EntriesMatch(s) /\ MetadataOK(s)
      /\ s.mc[p] \in MetadataType /\ IsContent(d, s.dc[d].entries)
  BY DEF Good, Sound, MetadataOK, DirectoriesOK
<1>2. x.kind = "dir" => p \in DirPaths
  BY <1>1 DEF MetadataOK
<1>3. /\ IsContent(d, e) /\ DOMAIN e = DOMAIN s.dc[d].entries \cup {Name(p)} /\ e[Name(p)] = x
      /\ \A n \in DOMAIN s.dc[d].entries : n # Name(p) => e[n] = s.dc[d].entries[n]
  BY <1>1, <1>2, ContentPut
<1>4. EntriesChanged(s, t, d, e) /\ d \in DOMAIN s.dc
  OBVIOUS
<1> HIDE DEF e, d
<1>5. /\ Elsewhere(s, t, d) /\ Shapes(t) /\ SoundAt(t, d)
      /\ DOMAIN t.dc = DOMAIN s.dc /\ t.dc[d].entries = e
      /\ \A q \in DOMAIN s.dc : q # d => t.dc[q] = s.dc[q]
  BY <1>1, <1>3, <1>4, EntriesChangedDoes
<1>6. t.mc = s.mc /\ t.dmeta = s.dmeta /\ t.fmeta = s.fmeta /\ t.data = s.data
  BY <1>4 DEF EntriesChanged
<1>7. EntriesOf(t, d) = e /\ EntriesOf(s, d) = s.dc[d].entries
  BY <1>4, <1>5 DEF EntriesOf
<1>8. ASSUME NEW q \in Paths, q # p
      PROVE  (Listed(t, q) <=> Listed(s, q)) /\ (Listed(s, q) => Listing(t, q) = Listing(s, q))
  <2>1. CASE Parent(q) = d
    <3>1. Name(q) # Name(p)
      BY <1>8, <2>1, PathUnique DEF d
    <3> QED
      BY <1>3, <1>7, <2>1, <3>1 DEF Listed, Listing
  <2>2. CASE Parent(q) # d
    BY <1>5, <2>2, ElsewhereSame
  <2> QED
    BY <2>1, <2>2
<1>9. Listed(t, p) /\ Listing(t, p) = x
  BY <1>3, <1>7 DEF Listed, Listing, d
<1>10. EntriesMatch(t)
  <2> SUFFICES ASSUME NEW q \in Paths, q \in DOMAIN t.mc, Listed(t, q)
               PROVE  /\ Listing(t, q).kind = t.mc[q].kind
                      /\ t.mc[q].kind = "file" => Listing(t, q).id = t.mc[q].id
    BY DEF EntriesMatch
  <2>1. CASE q = p
    BY <1>6, <1>9, <2>1
  <2>2. CASE q # p
    BY <1>1, <1>6, <1>8, <2>2 DEF EntriesMatch
  <2> QED
    BY <2>1, <2>2
<1>11. Sound(t)
  <2>1. \A q \in DOMAIN s.mc \ {d} :
          s.mc[q].kind # "dir" /\ s.mc[q].id \in s.fmeta => s.mc[q].id \in t.fmeta
    BY <1>6
  <2> QED
    BY <1>1, <1>5, <1>10, <2>1, LocalChange
<1>12. OnePath(t, {})
  <2>1. \A i : CachedAt(t, i, d) => At(s, i, d)
    BY <1>6 DEF CachedAt, At
  <2>2. ASSUME NEW i, NEW q, q \in Paths, Parent(q) = d, EntryAt(t, i, q)
        PROVE  At(s, i, q)
    <3> DEFINE n == Name(q)
    <3>1. CASE d \in DOMAIN t.dc /\ n \in DOMAIN t.dc[d].entries /\ t.dc[d].entries[n].id = i
      <4>1. CASE n = Name(p)
        <5>1. q = p /\ x.id = i
          BY <1>3, <1>5, <2>2, <3>1, <4>1, PathUnique DEF d
        <5> QED
          BY <5>1 DEF At, CachedAt
      <4>2. CASE n # Name(p)
        <5>1. n \in DOMAIN s.dc[d].entries /\ s.dc[d].entries[n].id = i
          BY <1>3, <1>5, <3>1, <4>2
        <5> QED
          BY <1>4, <2>2, <5>1 DEF At, EntryAt
      <4> QED
        BY <4>1, <4>2
    <3>2. CASE /\ d \in DOMAIN t.data /\ n \in DOMAIN t.data[d] /\ t.data[d][n].id = i
               /\ d \notin DOMAIN t.dc \/ ~Calm
      BY <1>5, <1>6, <2>2, <3>2 DEF At, EntryAt
    <3> QED
      BY <2>2, <3>1, <3>2 DEF EntryAt
  <2>3. NoNewPlaces(s, t)
    BY ONLY <1>5, <2>1, <2>2, ElsewherePlaces
  <2>4. OnePath(t, {p})
    BY <1>1, <2>3, OnePathKept
  <2> QED
    BY <2>4 DEF OnePath
<1>13. Calm => Linked(t, {})
  <2> SUFFICES ASSUME Calm, NEW q \in Paths
               PROVE  LinkedAt(t, q)
    BY DEF Linked
  <2>1. CASE q = p
    BY <1>1, <1>6, <1>9, <2>1 DEF LinkedAt, MetadataType
  <2>2. CASE q # p
    <3>1. LinkedAt(s, q)
      BY <2>2 DEF Good, Linked
    <3> QED
      BY <1>6, <1>8, <2>2, <3>1, LinkedSame
  <2> QED
    BY <2>1, <2>2
<1>14. ASSUME NEW q \in Paths, q # p
       PROVE  SameNode(s, t, q)
  <2>1. \A r, f : Resolve(t, r, f) = Resolve(s, r, f)
    BY <1>6 DEF Resolve
  <2> QED
    BY <1>8, <1>14, <2>1 DEF SameNode, Node
<1>15. Node(t, p) = [kind |-> s.mc[p].kind, id |-> s.mc[p].id]
  <2>1. Resolve(t, p, Listing(t, p)) = s.mc[p].id
    BY <1>6 DEF Resolve
  <2> QED
    BY <1>9, <2>1 DEF Node
<1> QED
  BY <1>9, <1>11, <1>12, <1>13, <1>14, <1>15 DEF Good

\* The entry of p goes, what it leads to stays for now.
LEMMA EntryRemoved ==
  ASSUME NEW s, NEW X, Good(s, X), NEW p \in Paths, Parent(p) \in DOMAIN s.dc, NEW t,
         EntriesChanged(s, t, Parent(p), Del(s.dc[Parent(p)].entries, Name(p)))
  PROVE  /\ Good(t, X \cup {p}) /\ ~Listed(t, p)
         /\ \A q \in Paths \ {p} : SameNode(s, t, q)
<1> DEFINE d == Parent(p)
           e == Del(s.dc[Parent(p)].entries, Name(p))
<1>1. /\ Sound(s) /\ OnePath(s, X) /\ EntriesMatch(s) /\ IsContent(d, s.dc[d].entries)
  BY DEF Good, Sound, DirectoriesOK
<1>2. e = Del(s.dc[d].entries, Name(p)) /\ d = Parent(p)
  OBVIOUS
<1>3. EntriesChanged(s, t, d, e) /\ d \in DOMAIN s.dc
  OBVIOUS
<1> HIDE DEF e, d
<1>4. /\ IsContent(d, e) /\ DOMAIN e = DOMAIN s.dc[d].entries \ {Name(p)}
      /\ \A n \in DOMAIN e : e[n] = s.dc[d].entries[n]
  <2> DEFINE g == s.dc[d].entries
  <2>1. IsContent(d, g) /\ e = Del(g, Name(p))
    BY <1>1, <1>2
  <2> HIDE DEF g
  <2>2. /\ IsContent(d, e) /\ DOMAIN e = DOMAIN g \ {Name(p)}
        /\ \A n \in DOMAIN e : e[n] = g[n]
    BY ONLY <2>1, ContentDel
  <2> QED
    BY <2>2 DEF g
<1>5. /\ Elsewhere(s, t, d) /\ Shapes(t) /\ SoundAt(t, d)
      /\ DOMAIN t.dc = DOMAIN s.dc /\ t.dc[d].entries = e
      /\ \A q \in DOMAIN s.dc : q # d => t.dc[q] = s.dc[q]
  BY <1>1, <1>3, <1>4, EntriesChangedDoes
<1>6. t.mc = s.mc /\ t.dmeta = s.dmeta /\ t.fmeta = s.fmeta /\ t.data = s.data
  BY <1>3 DEF EntriesChanged
<1>7. EntriesOf(t, d) = e /\ EntriesOf(s, d) = s.dc[d].entries
  BY <1>3, <1>5 DEF EntriesOf
<1>8. ASSUME NEW q \in Paths, q # p
      PROVE  (Listed(t, q) <=> Listed(s, q)) /\ (Listed(s, q) => Listing(t, q) = Listing(s, q))
  <2>1. CASE Parent(q) = d
    <3>1. Name(q) # Name(p)
      BY <1>2, <1>8, <2>1, PathUnique
    <3> QED
      BY <1>4, <1>7, <2>1, <3>1 DEF Listed, Listing
  <2>2. CASE Parent(q) # d
    BY <1>5, <2>2, ElsewhereSame
  <2> QED
    BY <2>1, <2>2
<1>9. ~Listed(t, p)
  BY <1>2, <1>4, <1>7 DEF Listed
<1>10. EntriesMatch(t)
  BY <1>1, <1>6, <1>8, <1>9 DEF EntriesMatch
<1>11. Sound(t)
  <2>1. \A q \in DOMAIN s.mc \ {d} :
          s.mc[q].kind # "dir" /\ s.mc[q].id \in s.fmeta => s.mc[q].id \in t.fmeta
    BY <1>6
  <2> QED
    BY <1>1, <1>5, <1>10, <2>1, LocalChange
<1>12. OnePath(t, X \cup {p})
  <2>1. \A i : CachedAt(t, i, d) => At(s, i, d)
    BY <1>6 DEF CachedAt, At
  <2>2. ASSUME NEW i, NEW q, q \in Paths, Parent(q) = d, EntryAt(t, i, q)
        PROVE  At(s, i, q)
    <3> DEFINE n == Name(q)
    <3>1. CASE d \in DOMAIN t.dc /\ n \in DOMAIN t.dc[d].entries /\ t.dc[d].entries[n].id = i
      <4>1. n \in DOMAIN s.dc[d].entries /\ s.dc[d].entries[n].id = i
        BY <1>4, <1>5, <3>1
      <4> QED
        BY <1>3, <2>2, <4>1 DEF At, EntryAt
    <3>2. CASE /\ d \in DOMAIN t.data /\ n \in DOMAIN t.data[d] /\ t.data[d][n].id = i
               /\ d \notin DOMAIN t.dc \/ ~Calm
      BY <1>5, <1>6, <2>2, <3>2 DEF At, EntryAt
    <3> QED
      BY <2>2, <3>1, <3>2 DEF EntryAt
  <2>3. NoNewPlaces(s, t)
    BY ONLY <1>5, <2>1, <2>2, ElsewherePlaces
  <2>4. OnePath(t, X)
    BY <1>1, <2>3, OnePathKept
  <2> QED
    BY <2>4 DEF OnePath
<1>13. Calm => Linked(t, X \cup {p})
  <2> SUFFICES ASSUME Calm, NEW q \in Paths \ (X \cup {p})
               PROVE  LinkedAt(t, q)
    BY DEF Linked
  <2>1. LinkedAt(s, q)
    BY DEF Good, Linked
  <2> QED
    BY <1>6, <1>8, <2>1, LinkedSame
<1>14. ASSUME NEW q \in Paths, q # p
       PROVE  SameNode(s, t, q)
  <2>1. \A r, f : Resolve(t, r, f) = Resolve(s, r, f)
    BY <1>6 DEF Resolve
  <2> QED
    BY <1>8, <1>14, <2>1 DEF SameNode, Node
<1> QED
  BY <1>9, <1>11, <1>12, <1>13, <1>14 DEF Good

-----------------------------------------------------------------------------
(* What a handler starts from and what it leaves.                          *)

LEMMA CalmMeans == Calm => NoFailures
  BY DEF Calm, NoFailures

LEMMA InvisibleTree ==
  ASSUME NEW s, NEW t, NEW X, Invisible(s, t, X)
  PROVE  Tree(t) = Tree(s) /\ Reachable(t) = Reachable(s)
<1>1. \A p \in Paths : SameNode(s, t, p)
  BY DEF Invisible
<1> QED
  BY <1>1, SameTree

\* An exception for one path is none, once the path is linked.
LEMMA GoodNarrow ==
  ASSUME NEW s, NEW p, Good(s, {p}), Calm /\ p \in Paths => LinkedAt(s, p)
  PROVE  Good(s, {})
<1>1. Sound(s) /\ OnePath(s, {p}) /\ (Calm => Linked(s, {p}))
  BY DEF Good
<1>2. OnePath(s, {})
  BY <1>1 DEF OnePath
<1>3. Calm => Linked(s, {})
  BY <1>1 DEF Linked
<1> QED
  BY <1>1, <1>2, <1>3 DEF Good

LEMMA GoodWiden ==
  ASSUME NEW s, NEW X, NEW Y, Good(s, X), X \subseteq Y
  PROVE  Good(s, Y)
  BY DEF Good, OnePath, Linked

\* What a user can get to in both is one path more in t than in s.
LEMMA OneLess ==
  ASSUME NEW s, NEW t, NEW p \in Paths, Listed(t, p), ~Listed(s, p), IsDirIn(t, Parent(p)),
         \A c \in Paths \ {p} : Parent(c) # p => SameNode(s, t, c),
         Listing(t, p).kind = "dir" => \A c \in Paths : Parent(c) = p => ~Listed(t, c)
  PROVE  OneMore(s, t, p)
<1>1. IsDirIn(s, Parent(p))
  <2>1. CASE Parent(p) = Root
    BY <2>1 DEF IsDirIn
  <2>2. CASE Parent(p) # Root
    <3> DEFINE d == Parent(p)
    <3>1. d \in Reachable(t) /\ Listing(t, d).kind = "dir" /\ d \in Paths
      BY <2>2, ParentIsPath DEF IsDirIn
    <3>2. ~IsPrefix(p, d)
      BY PrefixNotBoth
    <3>3. ASSUME NEW c \in Paths, IsPrefix(c, d)
          PROVE  SameNode(s, t, c)
      <4>1. c # p
        BY <3>2, <3>3
      <4>2. Parent(c) # p
        <5>1. p # Root
          BY DEF Paths
        <5> QED
          BY <3>1, <3>2, <3>3, <5>1, PrefixParent
      <4> QED
        BY <4>1, <4>2
    <3>4. \A c \in Paths : IsPrefix(c, d) => SameNode(t, s, c)
      BY <3>3 DEF SameNode
    <3>5. d \in Reachable(s)
      BY <3>1, <3>4, StaysReachable
    <3>6. SameNode(t, s, d) /\ Listed(t, d)
      BY <3>1, <3>4, PrefixSelf DEF Reachable
    <3> QED
      BY <3>1, <3>5, <3>6, SameNodeKind DEF IsDirIn
  <2> QED
    BY <2>1, <2>2
<1> QED
  BY <1>1 DEF OneMore

-----------------------------------------------------------------------------
(* Creations.                                                              *)

\* A new identity: no object has it.
Fresh(s, id) == id \in Ids /\ id \notin s.fmeta /\ \A q \in AllPaths : ~At(s, id, q)

\* A failed creation leaves a record behind.  That of a file has no entry.
LEMMA FileRecordWritten ==
  ASSUME NEW s, Good(s, {}), NEW id, Fresh(s, id), NEW t,
         t.mc = s.mc, t.dc = s.dc, t.dmeta = s.dmeta, t.data = s.data,
         t.fmeta = s.fmeta \cup {id}
  PROVE  Good(t, {}) /\ Tree(t) = Tree(s)
<1>1. Sound(s) /\ OnePath(s, {}) /\ EntriesMatch(s) /\ DirectoriesOK(s) /\ DataOK(s)
  BY DEF Good, Sound
<1>2. \A d : EntriesOf(t, d) = EntriesOf(s, d)
  BY DEF EntriesOf
<1>3. \A q : (Listed(t, q) <=> Listed(s, q)) /\ Listing(t, q) = Listing(s, q)
  BY <1>2 DEF Listed, Listing
<1>4. Elsewhere(s, t, Root)
  BY DEF Elsewhere
<1>5. Shapes(t) /\ SoundAt(t, Root)
  <2>1. Shapes(s) /\ SoundAt(s, Root)
    BY <1>1, SoundIsLocal
  <2>2. Shapes(t)
    BY <2>1 DEF Shapes, Fresh
  <2>3. SoundAt(t, Root)
    BY <2>1 DEF SoundAt, MetadataSound, MetadataRecorded, DirectorySound, RecordSound, DataSound
  <2> QED
    BY <2>2, <2>3
<1>6. EntriesMatch(t)
  BY <1>1, <1>3 DEF EntriesMatch
<1>7. Sound(t)
  <2>1. \A q \in DOMAIN s.mc \ {Root} :
          s.mc[q].kind # "dir" /\ s.mc[q].id \in s.fmeta => s.mc[q].id \in t.fmeta
    OBVIOUS
  <2> QED
    BY <1>1, <1>4, <1>5, <1>6, <2>1, LocalChange
<1>8. OnePath(t, {})
  <2>1. \A i, q : At(t, i, q) <=> At(s, i, q)
    BY DEF At, CachedAt, EntryAt
  <2> QED
    BY <1>1, <2>1 DEF OnePath
<1>9. Calm => Linked(t, {})
  BY <1>3 DEF Good, Linked, LinkedAt, Unused
<1>10. ASSUME NEW q \in Paths
       PROVE  SameNode(s, t, q)
  <2>1. Listed(s, q) => Listing(s, q).id # id
    <3>1. Listed(s, q) => At(s, Listing(s, q).id, q)
      BY <1>1, ListingType
    <3> QED
      BY <3>1, PathIsPath DEF Fresh
  <2>2. Listed(s, q) => Resolve(t, q, Listing(s, q)) = Resolve(s, q, Listing(s, q))
    BY <2>1 DEF Resolve
  <2> QED
    BY <1>3, <2>2 DEF SameNode, Node
<1> QED
  BY <1>7, <1>8, <1>9, <1>10, SameTree DEF Good

\* That of a directory may replace one that is left of another directory, and cuts
\* off what was stored for it; nobody could get there.
LEMMA DirectoryRecordWritten ==
  ASSUME NEW s, Good(s, {}), ~Calm, NEW p \in Paths, p \in DirPaths, p \notin DOMAIN s.mc,
         ~Listed(s, p), NEW r \in RecordType, ~r.sized, Fresh(s, r.id), NEW t,
         t.mc = s.mc, t.dc = s.dc, t.data = s.data, t.fmeta = s.fmeta,
         t.dmeta = Put(s.dmeta, p, r)
  PROVE  Good(t, {}) /\ Tree(t) = Tree(s) /\ (RootKnown(s) => RootKnown(t))
<1>1. Sound(s) /\ OnePath(s, {}) /\ EntriesMatch(s) /\ SoundAt(s, p) /\ Shapes(s)
  BY SoundIsLocal DEF Good, Sound
<1>2. /\ DOMAIN t.dmeta = DOMAIN s.dmeta \cup {p} /\ t.dmeta = [x \in DOMAIN t.dmeta |-> t.dmeta[x]]
      /\ t.dmeta[p] = r /\ \A q \in DOMAIN s.dmeta : q # p => t.dmeta[q] = s.dmeta[q]
  BY DEF Put
<1>3. Elsewhere(s, t, p)
  BY <1>2 DEF Elsewhere
<1>4. Shapes(t)
  BY <1>1, <1>2 DEF Shapes
<1>5. p \notin DOMAIN s.dc
  BY <1>1 DEF SoundAt, DirectorySound
<1>6. SoundAt(t, p)
  <2>1. MetadataSound(t, p) /\ MetadataRecorded(t, p)
    BY DEF MetadataSound, MetadataRecorded
  <2>2. DirectorySound(t, p)
    BY <1>5 DEF DirectorySound
  <2>3. RecordSound(t, p)
    BY <1>2 DEF RecordSound
  <2>4. DataSound(t, p)
    BY <1>1 DEF SoundAt, DataSound
  <2> QED
    BY <2>1, <2>2, <2>3, <2>4 DEF SoundAt
<1>7. EntriesOf(t, p) = NoEntries /\ \A q \in Paths : Parent(q) = p => ~Listed(t, q)
  <2>1. EntriesOf(t, p) = NoEntries
    BY <1>2, <1>5 DEF EntriesOf
  <2> QED
    BY <2>1, NoContent DEF Listed
<1>8. /\ \A q : Parent(q) # p => Listed(t, q) = Listed(s, q) /\ Listing(t, q) = Listing(s, q)
      /\ Parent(p) # p
  BY <1>3, ElsewhereSame, PrefixSelf
<1>9. EntriesMatch(t)
  BY <1>1, <1>7, <1>8 DEF EntriesMatch
<1>10. Sound(t)
  <2>1. \A q \in DOMAIN s.mc \ {p} :
          s.mc[q].kind # "dir" /\ s.mc[q].id \in s.fmeta => s.mc[q].id \in t.fmeta
    OBVIOUS
  <2> QED
    BY <1>1, <1>3, <1>4, <1>6, <1>9, <2>1, LocalChange
<1>11. OnePath(t, {})
  <2>1. ASSUME NEW i, NEW q, At(t, i, q)
        PROVE  At(s, i, q) \/ (q = p /\ i = r.id)
    <3>1. \A j, c : EntryAt(t, j, c) <=> EntryAt(s, j, c)
      BY DEF EntryAt
    <3>2. CachedAt(t, i, q) => CachedAt(s, i, q) \/ (q = p /\ i = r.id)
      BY <1>2 DEF CachedAt
    <3> QED
      BY <2>1, <3>1, <3>2 DEF At
  <2> QED
    BY <1>1, <2>1 DEF OnePath, Fresh
<1>12. ASSUME NEW q \in Paths, Parent(q) # p
       PROVE  SameNode(s, t, q)
  <2>1. q # p => Resolve(t, q, Listing(s, q)) = Resolve(s, q, Listing(s, q))
    BY <1>3 DEF Resolve, Elsewhere
  <2> QED
    BY <1>8, <1>12, <2>1 DEF SameNode, Node
<1>13. Tree(t) = Tree(s)
  <2>1. p # Root /\ ~ListedDir(s, p) /\ ~ListedDir(t, p)
    BY <1>8 DEF ListedDir, Paths
  <2>2. \A q \in Paths :
          Parent(q) = Root \/ ListedDir(s, Parent(q)) \/ ListedDir(t, Parent(q))
            => SameNode(s, t, q)
    BY <1>12, <2>1
  <2> QED
    BY <2>2, SameTree
<1>14. RootKnown(s) => RootKnown(t)
  BY <1>2 DEF RootKnown
<1> QED
  BY <1>10, <1>11, <1>13, <1>14 DEF Good

\* A new object's metadata.
LEMMA NewMetadataAdded ==
  ASSUME NEW s, Good(s, {}), NEW p \in AllPaths, p \in Paths => ~Listed(s, p), p \notin DOMAIN s.mc,
         NEW t, NEW md, MetadataAdded(s, t, p, md), md.kind = "dir" => p \in DirPaths,
         p = Root => md.kind = "dir", md.kind = "dir" => p \notin DOMAIN s.dmeta,
         ~md.sized, md.dirty, Fresh(s, md.id)
  PROVE  Invisible(s, t, {p}) /\ OnlyAt(s, t, {p})
         /\ DOMAIN t.mc = DOMAIN s.mc \cup {p} /\ t.mc[p] = md
         /\ p \notin DOMAIN t.dc /\ (Calm => p \notin DOMAIN t.dmeta)
<1>1. Sound(s) /\ SoundAt(s, p) /\ Good(s, {p})
  BY SoundIsLocal, GoodWiden DEF Good
<1>2. MetadataAdded(s, t, p, md) /\ md \in MetadataType
  BY DEF MetadataAdded
<1>3. DOMAIN t.mc = DOMAIN s.mc \cup {p} /\ t.mc[p] = md
  BY <1>1, <1>2, MetadataAddedDoes
<1>4. t.dc = s.dc /\ t.dmeta = s.dmeta /\ t.fmeta = s.fmeta /\ t.data = s.data
  BY <1>2 DEF MetadataAdded
<1>5. p \notin DOMAIN s.dc
  BY <1>1 DEF SoundAt, DirectorySound
<1>6. Calm => p \notin DOMAIN t.dmeta
  <2>1. Calm /\ p \in Paths => LinkedAt(s, p)
    BY DEF Good, Linked
  <2>2. p \in Paths \/ p = Root
    BY DEF Paths, AllPaths
  <2> QED
    BY <1>4, <2>1, <2>2 DEF LinkedAt, Unused
<1>7. Calm => p \notin DOMAIN s.data
  BY <1>1, <1>4, <1>6 DEF SoundAt, DataSound
<1>8. EntriesOf(t, p) = EntriesOf(s, p)
  BY <1>3, <1>4 DEF EntriesOf
<1>9. SoundAt(t, p)
  <2>1. MetadataSound(t, p)
    BY <1>2, <1>3 DEF MetadataSound
  <2>2. MetadataRecorded(t, p)
    BY <1>3 DEF MetadataRecorded
  <2>3. DirectorySound(t, p)
    BY <1>4, <1>5 DEF DirectorySound
  <2>4. RecordSound(t, p)
    BY <1>1, <1>4 DEF SoundAt, RecordSound
  <2>5. DataSound(t, p)
    BY <1>1, <1>4, <1>7 DEF SoundAt, DataSound
  <2> QED
    BY <2>1, <2>2, <2>3, <2>4, <2>5 DEF SoundAt
<1>10. \A q \in AllPaths : At(s, md.id, q) => p = q
  BY DEF Fresh
<1>11. Invisible(s, t, {p}) /\ OnlyAt(s, t, {p})
  BY <1>1, <1>2, <1>8, <1>9, <1>10, MetadataAddedInvisible
<1> QED
  BY <1>3, <1>4, <1>5, <1>6, <1>11

\* A handler begins with no exception in flight; calls that fail are those of runs
\* with failures.
Begins(s) ==
  /\ IsState(s) /\ Good(s, {}) /\ s.err = "ok"
  /\ NoFailures => s.left = 0
  /\ Calm => RootKnown(s)

\* A handler or an event leaves s as t.
Settled(s, t) ==
  /\ IsState(t) /\ Good(t, {})
  /\ RootKnown(s) => RootKnown(t)
  /\ NoFailures /\ Counted(s, {}) => Counted(t, {})

\* cache_store::create either caches the metadata or throws and leaves the tree alone.
LEMMA CreateMetadataDoes ==
  ASSUME NEW s, Begins(s), NEW p \in Paths, ~Listed(s, p), NEW md \in MetadataType,
         md.kind = "dir" => p \in DirPaths, ~md.sized, Fresh(s, md.id),
         NEW u, u = CreateMetadata(s, p, md)
  PROVE  /\ IsState(u) /\ u.undefined = s.undefined /\ (s.left = 0 => u.left = 0)
         /\ RootKnown(s) => RootKnown(u)
         /\ u.err = "ok" => MetadataAdded(s, u, p, md) /\ (md.kind = "dir" => p \notin DOMAIN s.dmeta)
         /\ u.err # "ok" => Good(u, {}) /\ Tree(u) = Tree(s) /\ u.mc = s.mc /\ u.dc = s.dc
         /\ Calm => u.err = "ok"
<1> DEFINE s1 == Call(s)
           Failed(t) ==
             /\ IsState(t) /\ t.undefined = s.undefined /\ (s.left = 0 => t.left = 0)
             /\ RootKnown(s) => RootKnown(t)
             /\ Good(t, {}) /\ Tree(t) = Tree(s) /\ t.mc = s.mc /\ t.dc = s.dc
<1>1. IsState(s) /\ Good(s, {}) /\ s.err = "ok" /\ (NoFailures => s.left = 0)
  BY DEF Begins
<1>2. Calm => p \notin DOMAIN s.mc /\ p \notin DOMAIN s.dmeta
  BY <1>1 DEF Good, Linked, LinkedAt, Unused
<1>3. CASE p \in DOMAIN s.mc
  <2>1. u = Fail(s, "EEXIST")
    BY <1>3 DEF CreateMetadata
  <2>2. IsState(u) /\ SameStores(s, u) /\ u.undefined = s.undefined /\ u.left = s.left
        /\ u.err = "EEXIST"
    BY <1>1, <2>1, FailDoes
  <2>3. Good(u, {}) /\ Tree(u) = Tree(s)
    BY <1>1, <2>2, SameStoresInvisible, InvisibleTree DEF Invisible
  <2> QED
    BY <1>2, <1>3, <2>2, <2>3 DEF SameStores, RootKnown
<1>4. CASE p \notin DOMAIN s.mc
  <2>1. /\ IsState(s1) /\ SameStores(s, s1) /\ s1.undefined = s.undefined
        /\ s.left = 0 => s1.left = 0 /\ s1.err = s.err
    BY <1>1, CallDoes
  <2>2. u = IF s1.err # "ok" THEN WriteRecord(s1, p, md)
            ELSE IF md.kind = "dir" /\ p \in DOMAIN s.dmeta
              THEN Fail(WriteRecord(s1, p, md), "EEXIST")
              ELSE EmplaceMetadata(s1, p, md)
    BY <1>4 DEF CreateMetadata
  <2> HIDE DEF s1
  <2>3. Good(s1, {}) /\ Tree(s1) = Tree(s) /\ Fresh(s1, md.id) /\ ~Listed(s1, p)
    <3>1. Invisible(s, s1, {})
      BY <1>1, <2>1, SameStoresInvisible
    <3>2. \A i, q : At(s1, i, q) <=> At(s, i, q)
      BY <2>1 DEF SameStores, At, CachedAt, EntryAt
    <3>3. Fresh(s1, md.id)
      BY <2>1, <3>2 DEF Fresh, SameStores
    <3> QED
      BY <3>1, <3>3, InvisibleTree, InvisibleListing DEF Invisible
  <2>4. ASSUME ~Calm, NEW t, t = WriteRecord(s1, p, md)
        PROVE  Failed(t) /\ t.err = s1.err /\ t.left = s1.left
    <3>0. md.id # Lost
      BY IdsAssumption DEF MetadataType
    <3>1. CASE md.kind = "dir"
      <4> DEFINE r == [id |-> md.id, sized |-> md.sized]
      <4>1. t = [s1 EXCEPT !.dmeta = Put(@, p, r)]
        BY <2>4, <3>0, <3>1 DEF WriteRecord
      <4>2. r \in RecordType /\ r.id = md.id
        BY DEF RecordType, MetadataType
      <4>3. ~r.sized
        OBVIOUS
      <4> HIDE DEF r
      <4>4. /\ IsState(t) /\ t.undefined = s1.undefined /\ t.err = s1.err /\ t.left = s1.left
            /\ t.mc = s1.mc /\ t.dc = s1.dc /\ t.data = s1.data /\ t.fmeta = s1.fmeta
            /\ t.dmeta = Put(s1.dmeta, p, r)
        BY <2>1, <4>1 DEF IsState
      <4>5. p \in DirPaths /\ p \notin DOMAIN s1.mc /\ Fresh(s1, r.id)
        BY <1>4, <2>1, <2>3, <3>1, <4>2 DEF SameStores
      <4>6. Good(t, {}) /\ Tree(t) = Tree(s1) /\ (RootKnown(s1) => RootKnown(t))
        <5>1. ~Calm
          BY <2>4
        <5> QED
          BY ONLY <2>3, <4>2, <4>3, <4>4, <4>5, <5>1, p \in Paths, DirectoryRecordWritten
      <4> QED
        BY <2>1, <2>3, <4>4, <4>6 DEF SameStores, RootKnown
    <3>2. CASE md.kind # "dir"
      <4>1. t = [s1 EXCEPT !.fmeta = @ \cup {md.id}]
        BY <2>4, <3>0, <3>2 DEF WriteRecord
      <4>2. /\ IsState(t) /\ t.undefined = s1.undefined /\ t.err = s1.err /\ t.left = s1.left
            /\ t.mc = s1.mc /\ t.dc = s1.dc /\ t.data = s1.data /\ t.dmeta = s1.dmeta
            /\ t.fmeta = s1.fmeta \cup {md.id}
        BY <2>1, <4>1 DEF IsState
      <4>3. Good(t, {}) /\ Tree(t) = Tree(s1)
        BY ONLY <2>3, <4>2, FileRecordWritten
      <4> QED
        BY <2>1, <2>3, <4>2, <4>3 DEF SameStores, RootKnown
    <3> QED
      BY <3>1, <3>2
  <2>5. CASE s1.err # "ok"
    <3>1. ~Calm
      BY <1>1, <2>1, <2>5, CalmMeans
    <3>2. u = WriteRecord(s1, p, md)
      BY <2>2, <2>5
    <3> QED
      BY <2>4, <2>5, <3>1, <3>2
  <2>6. CASE s1.err = "ok" /\ md.kind = "dir" /\ p \in DOMAIN s.dmeta
    <3> DEFINE w == WriteRecord(s1, p, md)
    <3>1. ~Calm
      BY <1>2, <2>6
    <3>2. Failed(w) /\ w.left = s1.left
      BY <2>4, <3>1
    <3> HIDE DEF w
    <3>3. u = Fail(w, "EEXIST")
      BY <2>2, <2>6 DEF w
    <3>4. IsState(u) /\ SameStores(w, u) /\ u.undefined = w.undefined /\ u.left = w.left
          /\ u.err = "EEXIST"
      BY <3>2, <3>3, FailDoes
    <3>5. Good(u, {}) /\ Tree(u) = Tree(w)
      BY <3>2, <3>4, SameStoresInvisible, InvisibleTree DEF Invisible
    <3> QED
      BY <3>1, <3>2, <3>4, <3>5 DEF SameStores, RootKnown
  <2>7. CASE s1.err = "ok" /\ ~(md.kind = "dir" /\ p \in DOMAIN s.dmeta)
    <3>1. u = [s1 EXCEPT !.mc = Put(@, p, md)]
      <4>1. u = EmplaceMetadata(s1, p, md)
        BY <2>2, <2>7
      <4>2. p \notin DOMAIN s1.mc
        BY <1>4, <2>1 DEF SameStores
      <4> QED
        BY <4>1, <4>2 DEF EmplaceMetadata
    <3>2. /\ IsState(u) /\ u.undefined = s1.undefined /\ u.err = s1.err /\ u.left = s1.left
          /\ u.dc = s1.dc /\ u.dmeta = s1.dmeta /\ u.fmeta = s1.fmeta /\ u.data = s1.data
          /\ u.mc = Put(s1.mc, p, md)
      BY <2>1, <3>1 DEF IsState
    <3>3. MetadataAdded(s, u, p, md)
      BY <1>4, <2>1, <3>2 DEF MetadataAdded, SameStores
    <3>4. RootKnown(s) => RootKnown(u)
      BY <3>3 DEF MetadataAdded, RootKnown, Put
    <3> QED
      BY <2>1, <2>7, <3>2, <3>3, <3>4
  <2> QED
    BY <2>5, <2>6, <2>7
<1> QED
  BY <1>3, <1>4

LEMMA IsDirOpen ==
  ASSUME NEW s, NEW d, IsDirIn(s, d)
  PROVE  OpenPath(s, d)
<1>1. CASE d = Root
  BY <1>1 DEF OpenPath
<1>2. CASE d # Root
  <2>1. d \in Reachable(s) /\ Listing(s, d).kind = "dir"
    BY <1>2 DEF IsDirIn
  <2>2. d \in Paths /\ Listed(s, d)
    BY <2>1, PrefixSelf DEF Reachable
  <2> QED
    BY <2>1, <2>2 DEF OpenPath, ListedDir
<1> QED
  BY <1>1, <1>2

LEMMA CountedSame ==
  ASSUME NEW s, NEW t, Counted(s, {}), t.mc = s.mc, DOMAIN t.dc = DOMAIN s.dc
  PROVE  Counted(t, {})
  BY DEF Counted

LEMMA AddEntryDoes ==
  ASSUME NEW s, IsState(s), s.err = "ok", NEW p, Parent(p) \in DOMAIN s.dc, ~HasEntry(s, p),
         s.mc[p].id \in Ids, s.mc[p].kind \in {"file", "dir"},
         NEW t, t = AddEntry(s, p)
  PROVE  /\ IsState(t) /\ SameControl(s, t)
         /\ \E x \in EntryType :
              /\ x.id = s.mc[p].id /\ x.kind = s.mc[p].kind
              /\ EntriesChanged(s, t, Parent(p), Put(s.dc[Parent(p)].entries, Name(p), x))
<1> DEFINE x == [id |-> s.mc[p].id, kind |-> s.mc[p].kind]
           e == Put(s.dc[Parent(p)].entries, Name(p), x)
           m == [entries |-> e, dirty |-> TRUE]
<1>1. t = [s EXCEPT !.dc = [s.dc EXCEPT ![Parent(p)] = m]]
  BY DEF AddEntry
<1>2. x \in EntryType /\ x.id = s.mc[p].id /\ x.kind = s.mc[p].kind
  BY DEF EntryType
<1> HIDE DEF x
<1>3. m = [entries |-> e, dirty |-> TRUE]
  OBVIOUS
<1> HIDE DEF e, m
<1>4. /\ IsState(t) /\ SameControl(s, t)
      /\ t.mc = s.mc /\ t.dmeta = s.dmeta /\ t.fmeta = s.fmeta /\ t.data = s.data
      /\ t.dc = [s.dc EXCEPT ![Parent(p)] = m]
  BY <1>1 DEF IsState, SameControl
<1>5. EntriesChanged(s, t, Parent(p), e)
  BY <1>3, <1>4 DEF EntriesChanged
<1> QED
  BY <1>2, <1>4, <1>5 DEF e

LEMMA RemoveEntryDoes ==
  ASSUME NEW s, IsState(s), s.err = "ok", NEW p, Parent(p) \in DOMAIN s.dc, HasEntry(s, p),
         NEW t, t = RemoveEntry(s, p)
  PROVE  /\ IsState(t) /\ SameControl(s, t)
         /\ EntriesChanged(s, t, Parent(p), Del(s.dc[Parent(p)].entries, Name(p)))
<1> DEFINE e == Del(s.dc[Parent(p)].entries, Name(p))
           m == [entries |-> e, dirty |-> TRUE]
<1>1. t = [s EXCEPT !.dc = [s.dc EXCEPT ![Parent(p)] = m]]
  BY DEF RemoveEntry
<1>2. m = [entries |-> e, dirty |-> TRUE]
  OBVIOUS
<1> HIDE DEF e, m
<1>3. /\ IsState(t) /\ SameControl(s, t)
      /\ t.mc = s.mc /\ t.dmeta = s.dmeta /\ t.fmeta = s.fmeta /\ t.data = s.data
      /\ t.dc = [s.dc EXCEPT ![Parent(p)] = m]
  BY <1>1 DEF IsState, SameControl
<1>4. EntriesChanged(s, t, Parent(p), e)
  BY <1>2, <1>3 DEF EntriesChanged
<1> QED
  BY <1>3, <1>4 DEF e

LEMMA EntriesChangedCounts ==
  ASSUME NEW s, NEW t, NEW d, NEW e, EntriesChanged(s, t, d, e)
  PROVE  /\ t.mc = s.mc /\ t.dmeta = s.dmeta /\ t.fmeta = s.fmeta /\ t.data = s.data
         /\ DOMAIN t.dc = DOMAIN s.dc
         /\ \A q \in DOMAIN s.dc : q # d => t.dc[q] = s.dc[q]
         /\ Counted(s, {}) => Counted(t, {})
         /\ RootKnown(s) => RootKnown(t)
<1>1. /\ t.mc = s.mc /\ t.dmeta = s.dmeta /\ t.fmeta = s.fmeta /\ t.data = s.data
      /\ DOMAIN t.dc = DOMAIN s.dc
      /\ \A q \in DOMAIN s.dc : q # d => t.dc[q] = s.dc[q]
  BY DEF EntriesChanged
<1> QED
  BY <1>1, CountedSame DEF RootKnown

\* The object p that was created gets its entry, or the parent cannot be read.
LEMMA LinkDoes ==
  ASSUME NEW s, Begins(s), NEW p \in Paths, IsDirIn(s, Parent(p)), ~Listed(s, p),
         NEW u, IsState(u), u.err = "ok", s.left = 0 => u.left = 0, RootKnown(s) => RootKnown(u),
         Invisible(s, u, {p}), p \in DOMAIN u.mc, Calm => p \notin DOMAIN u.dmeta,
         u.mc[p].kind = "dir" => p \in DOMAIN u.dc /\ u.dc[p].entries = NoEntries,
         NoFailures /\ Counted(s, {}) => Counted(u, {}),
         NEW t, t = AddEntry(OpenDirectory(u, Parent(p)), p)
  PROVE  /\ Settled(s, t) /\ t.undefined = u.undefined
         /\ t.err = "ok" => /\ OneMore(s, t, p)
                            /\ Node(t, p) = [kind |-> u.mc[p].kind, id |-> u.mc[p].id]
         /\ t.err # "ok" => Tree(t) = Tree(s)
         /\ Calm => t.err = "ok"
<1> DEFINE v == OpenDirectory(u, Parent(p))
<1>1. /\ NoFailures => s.left = 0
      /\ Calm => RootKnown(s) /\ s.left = 0
  BY CalmMeans DEF Begins
<1>2. Good(u, {p}) /\ OpenPath(u, Parent(p)) /\ Parent(p) \notin {p}
  BY IsDirOpen, InvisibleListing, PrefixSelf DEF Invisible
<1>3. /\ Opened(u, v, {p}, {Parent(p)})
      /\ v.err = "ok" => Parent(p) \in DOMAIN v.dc
      /\ u.left = 0 /\ Calm /\ RootKnown(u) => v.err = "ok"
  BY <1>2, OpenDirectoryDoes
<1>4. t = AddEntry(v, p)
  OBVIOUS
<1> HIDE DEF v
<1>5. /\ IsState(v) /\ v.undefined = u.undefined /\ Invisible(u, v, {p})
      /\ OnlyAt(u, v, {Parent(p)})
      /\ RootKnown(s) => RootKnown(v)
      /\ NoFailures /\ Counted(s, {}) => Counted(v, {})
      /\ Calm => v.err = "ok"
  BY <1>1, <1>3 DEF Opened
<1>6. Invisible(s, v, {p}) /\ Good(v, {p}) /\ Tree(v) = Tree(s) /\ ~Listed(v, p)
  <2>1. Invisible(s, v, {p})
    BY <1>5, InvisibleTwice
  <2> QED
    BY <2>1, InvisibleTree, InvisibleListing DEF Invisible
<1>7. CASE v.err # "ok"
  <2>1. t = v
    BY <1>4, <1>7 DEF AddEntry
  <2>2. Good(v, {})
    BY <1>5, <1>6, <1>7, GoodNarrow
  <2> QED
    BY <1>5, <1>6, <1>7, <2>1, <2>2 DEF Settled
<1>8. CASE v.err = "ok"
  <2>1. Parent(p) \in DOMAIN v.dc /\ ~HasEntry(v, p)
    BY <1>3, <1>6, <1>8, EntryIsListed
  <2>2. /\ p \in DOMAIN v.mc /\ v.mc[p].kind = u.mc[p].kind /\ v.mc[p].id = u.mc[p].id
        /\ Calm => p \notin DOMAIN v.dmeta
        /\ p \in DOMAIN u.dc => p \in DOMAIN v.dc /\ v.dc[p] = u.dc[p]
    BY <1>2, <1>5 DEF OnlyAt
  <2>3. v.mc[p].id \in Ids /\ v.mc[p].kind \in {"file", "dir"}
    <3>1. v.mc[p] \in MetadataType
      BY <1>6, <2>2 DEF Good, Sound, MetadataOK
    <3> QED
      BY <3>1 DEF MetadataType
  <2>4. PICK x \in EntryType :
          /\ x.id = v.mc[p].id /\ x.kind = v.mc[p].kind
          /\ EntriesChanged(v, t, Parent(p), Put(v.dc[Parent(p)].entries, Name(p), x))
    BY <1>4, <1>5, <1>8, <2>1, <2>3, AddEntryDoes
  <2>5. IsState(t) /\ SameControl(v, t)
    BY <1>4, <1>5, <1>8, <2>1, <2>3, AddEntryDoes
  <2>6. /\ Good(t, {}) /\ Listed(t, p)
        /\ Node(t, p) = [kind |-> v.mc[p].kind, id |-> v.mc[p].id]
        /\ \A q \in Paths \ {p} : SameNode(v, t, q)
    BY <1>6, <2>1, <2>2, <2>4, EntryAdded
  <2>7. /\ \A q \in DOMAIN v.dc : q # Parent(p) => t.dc[q] = v.dc[q]
        /\ DOMAIN t.dc = DOMAIN v.dc
        /\ Counted(v, {}) => Counted(t, {})
        /\ RootKnown(v) => RootKnown(t)
    BY <2>4, EntriesChangedCounts
  <2>8. Listing(t, p).kind = "dir" => \A c \in Paths : Parent(c) = p => ~Listed(t, c)
    <3>1. Listing(t, p).kind = u.mc[p].kind
      BY <2>2, <2>6 DEF Node
    <3>2. u.mc[p].kind = "dir" => EntriesOf(t, p) = NoEntries
      BY <1>2, <2>2, <2>7 DEF EntriesOf
    <3> QED
      BY <3>1, <3>2, NoContent DEF Listed
  <2>9. \A c \in Paths \ {p} : SameNode(s, t, c)
    <3>1. \A c \in Paths : SameNode(s, v, c)
      BY <1>6 DEF Invisible
    <3> QED
      BY <2>6, <3>1 DEF SameNode
  <2>10. OneMore(s, t, p)
    BY <2>6, <2>8, <2>9 DEF OneMore
  <2> QED
    BY <1>5, <1>8, <2>2, <2>5, <2>6, <2>7, <2>10 DEF Settled, SameControl
<1> QED
  BY <1>7, <1>8

LEMMA PathNotListed ==
  ASSUME NEW s, NEW p \in Paths, IsDirIn(s, Parent(p)), p \notin Reachable(s)
  PROVE  ~Listed(s, p)
  BY ReachableStep

\* What create and mkdir do, whatever fails: the file is there, or nothing happened.
Made(s, t, p, kind, id) ==
  /\ Settled(s, t) /\ t.undefined = s.undefined
  /\ t.err = "ok" => OneMore(s, t, p) /\ Node(t, p) = [kind |-> kind, id |-> id]
  /\ t.err # "ok" => Tree(t) = Tree(s)
  /\ Calm => t.err = "ok"

LEMMA CreateFileDoes ==
  ASSUME NEW s, Begins(s), NEW p \in Paths, IsDirIn(s, Parent(p)), p \notin Reachable(s),
         NEW id, Fresh(s, id), NEW t, t = CreateFile(s, p, id)
  PROVE  Made(s, t, p, "file", id)
<1> DEFINE md == Metadata("file", id, FALSE, TRUE, 1)
           u == CreateMetadata(s, p, md)
<1>1. id \in Ids
  BY DEF Fresh
<1>2. /\ md \in MetadataType /\ md.kind = "file" /\ md.id = id /\ ~md.sized /\ md.dirty
      /\ md.count = 1
  <2>1. md = Metadata("file", id, FALSE, TRUE, 1)
    OBVIOUS
  <2> HIDE DEF md
  <2> QED
    BY ONLY <1>1, <2>1, NewFileMetadata
<1>3. ~Listed(s, p) /\ Good(s, {}) /\ p \in AllPaths /\ p # Root
  BY PathNotListed, PathIsPath DEF Begins, Paths
<1>4. t = AddEntry(OpenDirectory(u, Parent(p)), p)
  BY DEF CreateFile
<1> HIDE DEF md
<1>5. /\ IsState(u) /\ u.undefined = s.undefined /\ (s.left = 0 => u.left = 0)
      /\ RootKnown(s) => RootKnown(u)
      /\ u.err = "ok" => MetadataAdded(s, u, p, md)
      /\ u.err # "ok" => Good(u, {}) /\ Tree(u) = Tree(s) /\ u.mc = s.mc /\ u.dc = s.dc
      /\ Calm => u.err = "ok"
  BY <1>2, <1>3, CreateMetadataDoes
<1> HIDE DEF u
<1>6. CASE u.err # "ok"
  <2>1. t = u
    BY <1>4, <1>6 DEF AddEntry, OpenDirectory
  <2>2. NoFailures /\ Counted(s, {}) => Counted(u, {})
    BY <1>5, <1>6, CountedSame
  <2> QED
    BY <1>5, <1>6, <2>1, <2>2 DEF Made, Settled
<1>7. CASE u.err = "ok"
  <2>1. /\ Invisible(s, u, {p}) /\ OnlyAt(s, u, {p})
        /\ DOMAIN u.mc = DOMAIN s.mc \cup {p} /\ u.mc[p] = md
        /\ Calm => p \notin DOMAIN u.dmeta
    <3>1. p \notin DOMAIN s.mc /\ MetadataAdded(s, u, p, md)
      BY <1>5, <1>7 DEF MetadataAdded
    <3>2. Fresh(s, md.id)
      BY <1>2
    <3> QED
      BY ONLY <1>2, <1>3, <3>1, <3>2, NewMetadataAdded
  <2>2. NoFailures /\ Counted(s, {}) => Counted(u, {})
    <3>1. u.mc[p].count \in Counts /\ u.mc[p].kind # "dir"
      BY <1>2, <2>1 DEF Counts
    <3> QED
      BY <2>1, <3>1, CountedElsewhere
  <2>3. p \in DOMAIN u.mc /\ u.mc[p].kind = "file" /\ u.mc[p].id = id
    BY <1>2, <2>1
  <2>4. /\ Settled(s, t) /\ t.undefined = u.undefined
        /\ t.err = "ok" => /\ OneMore(s, t, p)
                           /\ Node(t, p) = [kind |-> u.mc[p].kind, id |-> u.mc[p].id]
        /\ t.err # "ok" => Tree(t) = Tree(s)
        /\ Calm => t.err = "ok"
    <3>1. /\ Begins(s) /\ IsDirIn(s, Parent(p)) /\ p \in Paths
          /\ u.mc[p].kind = "dir" => p \in DOMAIN u.dc /\ u.dc[p].entries = NoEntries
      BY <2>3
    <3> QED
      BY ONLY <1>3, <1>4, <1>5, <1>7, <2>1, <2>2, <2>3, <3>1, LinkDoes
  <2> QED
    BY <1>5, <2>3, <2>4 DEF Made
<1> QED
  BY <1>6, <1>7

LEMMA MakeDirectoryDoes ==
  ASSUME NEW s, Begins(s), NEW p \in Paths, p \in DirPaths, IsDirIn(s, Parent(p)),
         p \notin Reachable(s), NEW id, Fresh(s, id), NEW t, t = MakeDirectory(s, p, id)
  PROVE  Made(s, t, p, "dir", id)
<1> DEFINE md == Metadata("dir", id, FALSE, TRUE, 1)
           u == CreateMetadata(s, p, md)
           w == CreateDirectory(s, p, id)
<1>1. id \in Ids
  BY DEF Fresh
<1>2. /\ md \in MetadataType /\ md.kind = "dir" /\ md.id = id /\ ~md.sized /\ md.dirty
      /\ md.count = 1
  <2>1. md = Metadata("dir", id, FALSE, TRUE, 1)
    OBVIOUS
  <2> HIDE DEF md
  <2> QED
    BY ONLY <1>1, <2>1, NewDirectoryMetadata
<1>3. ~Listed(s, p) /\ Good(s, {}) /\ p \in AllPaths /\ p # Root /\ p \in DirPaths
  BY PathNotListed, PathIsPath DEF Begins, Paths
<1>4. t = AddEntry(OpenDirectory(w, Parent(p)), p)
  BY DEF MakeDirectory
<1>5. w = IF u.err # "ok" THEN u ELSE ReadDirectory(u, p)
  BY DEF CreateDirectory
<1> HIDE DEF md
<1>6. /\ IsState(u) /\ u.undefined = s.undefined /\ (s.left = 0 => u.left = 0)
      /\ RootKnown(s) => RootKnown(u)
      /\ u.err = "ok" => MetadataAdded(s, u, p, md) /\ p \notin DOMAIN s.dmeta
      /\ u.err # "ok" => Good(u, {}) /\ Tree(u) = Tree(s) /\ u.mc = s.mc /\ u.dc = s.dc
      /\ Calm => u.err = "ok"
  BY <1>2, <1>3, CreateMetadataDoes
<1> HIDE DEF u, w
<1>7. CASE u.err # "ok"
  <2>1. t = u
    BY <1>4, <1>5, <1>7 DEF AddEntry, OpenDirectory
  <2>2. NoFailures /\ Counted(s, {}) => Counted(u, {})
    BY <1>6, <1>7, CountedSame
  <2> QED
    BY <1>6, <1>7, <2>1, <2>2 DEF Made, Settled
<1>8. CASE u.err = "ok"
  <2>1. /\ Invisible(s, u, {p}) /\ OnlyAt(s, u, {p})
        /\ DOMAIN u.mc = DOMAIN s.mc \cup {p} /\ u.mc[p] = md
        /\ p \notin DOMAIN u.dc
        /\ Calm => p \notin DOMAIN u.dmeta
    <3>1. p \notin DOMAIN s.mc /\ MetadataAdded(s, u, p, md) /\ p \notin DOMAIN s.dmeta
      BY <1>6, <1>8 DEF MetadataAdded
    <3>2. Fresh(s, md.id)
      BY <1>2
    <3> QED
      BY ONLY <1>2, <1>3, <3>1, <3>2, NewMetadataAdded
  <2>2. p \in DOMAIN u.mc /\ u.mc[p].kind = "dir" /\ u.mc[p].id = id /\ ~u.mc[p].sized
        /\ u.mc[p].count = 1
    BY <1>2, <2>1
  <2>3. /\ IsState(w) /\ w.undefined = u.undefined /\ w.mc = u.mc /\ w.dmeta = u.dmeta
        /\ Invisible(u, w, {p}) /\ OnlyAt(u, w, {p})
        /\ u.left = 0 => w.left = 0
        /\ w.err = "ok" /\ DOMAIN w.dc = DOMAIN u.dc \cup {p}
    <3>1. Good(u, {p}) /\ w = ReadDirectory(u, p)
      BY <1>5, <1>8, <2>1 DEF Invisible
    <3> QED
      BY ONLY <1>6, <1>8, <2>1, <2>2, <3>1, ReadDirectoryDoes
  <2>4. Invisible(s, w, {p}) /\ OnlyAt(s, w, {p})
    BY <2>1, <2>3, InvisibleTwice, OnlyAtTwice
  <2>5. p \in DOMAIN w.dc /\ w.dc[p].entries = NoEntries
    <3>1. EntriesOf(u, p) = NoEntries
      BY <2>1, <2>2 DEF EntriesOf
    <3>2. EntriesOf(w, p) = EntriesOf(u, p)
      BY <1>3, <2>3 DEF Invisible, SameEntries
    <3> QED
      BY <2>3, <3>1, <3>2 DEF EntriesOf
  <2>6. NoFailures /\ Counted(s, {}) => Counted(w, {})
    <3>1. w.mc[p].count \in Counts
      BY <2>2, <2>3 DEF Counts
    <3> QED
      BY <2>4, <2>5, <3>1, CountedElsewhere
  <2>7. /\ p \in DOMAIN w.mc /\ w.mc[p].kind = "dir" /\ w.mc[p].id = id
        /\ w.undefined = s.undefined /\ (s.left = 0 => w.left = 0)
        /\ RootKnown(s) => RootKnown(w)
        /\ Calm => p \notin DOMAIN w.dmeta
    BY <1>6, <2>1, <2>2, <2>3 DEF RootKnown
  <2>8. /\ Settled(s, t) /\ t.undefined = w.undefined
        /\ t.err = "ok" => /\ OneMore(s, t, p)
                           /\ Node(t, p) = [kind |-> w.mc[p].kind, id |-> w.mc[p].id]
        /\ t.err # "ok" => Tree(t) = Tree(s)
        /\ Calm => t.err = "ok"
    <3>1. Begins(s) /\ IsDirIn(s, Parent(p)) /\ p \in Paths
      OBVIOUS
    <3> QED
      BY ONLY <1>3, <1>4, <2>3, <2>4, <2>5, <2>6, <2>7, <3>1, LinkDoes
  <2> QED
    BY <2>7, <2>8 DEF Made
<1> QED
  BY <1>7, <1>8

-----------------------------------------------------------------------------
(* Lookups and removals.                                                   *)

LEMMA OpenedSettles ==
  ASSUME NEW s, Begins(s), NEW t, NEW P, Opened(s, t, {}, P)
  PROVE  Settled(s, t) /\ t.undefined = s.undefined /\ Tree(t) = Tree(s)
<1>1. Invisible(s, t, {}) /\ Good(t, {})
  BY DEF Opened, Invisible
<1> QED
  BY <1>1, InvisibleTree DEF Opened, Settled, Begins

LEMMA LookupDoes ==
  ASSUME NEW s, Begins(s), NEW p \in Paths, IsDirIn(s, Parent(p)), NEW t, t = GetAttr(s, p)
  PROVE  /\ Settled(s, t) /\ t.undefined = s.undefined /\ Tree(t) = Tree(s)
         /\ Calm => t.err = IF p \in Reachable(s) THEN "ok" ELSE "ENOENT"
<1>1. IsState(s) /\ Good(s, {}) /\ s.err = "ok" /\ (Calm => s.left = 0 /\ RootKnown(s))
  BY CalmMeans DEF Begins
<1>2. OpenPath(s, Parent(p)) /\ (Listed(s, p) <=> p \in Reachable(s))
  BY IsDirOpen, ReachableStep
<1>3. /\ Opened(s, t, {}, {p, Parent(p)})
      /\ s.left = 0 /\ Calm /\ RootKnown(s) =>
           t.err = IF Listed(s, p) THEN "ok" ELSE "ENOENT"
  BY <1>1, <1>2, GetAttrDoes
<1> QED
  BY <1>1, <1>2, <1>3, OpenedSettles

\* The metadata and the record of a file without an entry go.
LEMMA FileGone ==
  ASSUME NEW s, NEW p \in Paths, Good(s, {p}), p \in DOMAIN s.mc, s.mc[p].kind = "file",
         ~Listed(s, p), Calm => p \notin DOMAIN s.dmeta,
         NEW t, t.mc = Del(s.mc, p), t.dc = s.dc, t.dmeta = s.dmeta, t.data = s.data,
         t.fmeta = s.fmeta \ {s.mc[p].id}
  PROVE  /\ Good(t, {}) /\ ~Listed(t, p) /\ \A q \in Paths \ {p} : SameNode(s, t, q)
         /\ RootKnown(s) => RootKnown(t)
         /\ Counted(s, {}) => Counted(t, {})
<1> DEFINE i == s.mc[p].id
<1>1. /\ Sound(s) /\ OnePath(s, {p}) /\ EntriesMatch(s) /\ DirectoriesOK(s) /\ DataOK(s)
      /\ SoundAt(s, p) /\ Shapes(s) /\ p \in AllPaths
  BY SoundIsLocal, PathIsPath DEF Good, Sound
<1>2. /\ DOMAIN t.mc = DOMAIN s.mc \ {p} /\ t.mc = [x \in DOMAIN t.mc |-> t.mc[x]]
      /\ \A q \in DOMAIN t.mc : t.mc[q] = s.mc[q]
  BY DEF Del, Restrict
<1>3. i \in Ids
  BY <1>1 DEF SoundAt, MetadataSound, MetadataType
<1>4. Elsewhere(s, t, p)
  BY <1>2 DEF Elsewhere
<1>5. p \notin DOMAIN s.dc /\ p # Root /\ Parent(p) # p /\ (Calm => p \notin DOMAIN s.data)
  BY <1>1, PrefixSelf DEF SoundAt, DirectorySound, DataSound, Paths
<1>6. Shapes(t)
  BY <1>1, <1>2 DEF Shapes
<1>7. SoundAt(t, p)
  <2>1. MetadataSound(t, p) /\ MetadataRecorded(t, p)
    BY <1>2 DEF MetadataSound, MetadataRecorded
  <2>2. DirectorySound(t, p)
    BY <1>5 DEF DirectorySound
  <2>3. RecordSound(t, p)
    BY <1>1 DEF SoundAt, RecordSound
  <2>4. DataSound(t, p)
    BY <1>1, <1>5 DEF SoundAt, DataSound
  <2> QED
    BY <2>1, <2>2, <2>3, <2>4 DEF SoundAt
<1>8. \A d : EntriesOf(t, d) = EntriesOf(s, d)
  <2>1. EntriesOf(t, p) = EntriesOf(s, p)
    BY <1>2, <1>5 DEF EntriesOf
  <2> QED
    BY <1>4, <2>1, ElsewhereSame
<1>9. \A q : (Listed(t, q) <=> Listed(s, q)) /\ Listing(t, q) = Listing(s, q)
  BY <1>8 DEF Listed, Listing
<1>10. EntriesMatch(t)
  BY <1>1, <1>2, <1>9 DEF EntriesMatch
<1>11. ASSUME NEW q \in AllPaths, At(s, i, q)
       PROVE  q = p
  <2>1. At(s, i, p)
    BY DEF At, CachedAt
  <2> QED
    BY <1>1, <1>3, <1>11, <2>1 DEF OnePath
<1>12. Sound(t)
  <2>1. ASSUME NEW q \in DOMAIN s.mc \ {p}, s.mc[q].id \in s.fmeta
        PROVE  s.mc[q].id \in t.fmeta
    <3>1. q \in AllPaths /\ (s.mc[q].id = i => At(s, i, q))
      BY <1>1 DEF Sound, MetadataOK, At, CachedAt
    <3> QED
      BY <1>11, <2>1, <3>1
  <2> QED
    BY <1>1, <1>4, <1>6, <1>7, <1>10, <2>1, LocalChange
<1>13. OnePath(t, {p})
  <2>1. \A j, q : At(t, j, q) => At(s, j, q)
    BY <1>2 DEF At, CachedAt, EntryAt
  <2> QED
    BY <1>1, <2>1 DEF OnePath
<1>14. ASSUME NEW q \in Paths, q # p, Listed(s, q)
       PROVE  Listing(s, q).id # i
  <2>1. At(s, Listing(s, q).id, q) /\ q \in AllPaths
    BY <1>1, <1>14, ListingType, PathIsPath
  <2> QED
    BY <1>11, <1>14, <2>1
<1>15. Calm => Linked(t, {p})
  <2> SUFFICES ASSUME Calm, NEW q \in Paths \ {p}
               PROVE  LinkedAt(t, q)
    BY DEF Linked
  <2>1. LinkedAt(s, q)
    BY DEF Good, Linked
  <2> QED
    BY <1>4, <1>9, <1>14, <2>1, LinkedElsewhere
<1>16. Calm => LinkedAt(t, p)
  BY <1>2, <1>9 DEF LinkedAt, Unused
<1>17. Good(t, {})
  <2>1. Good(t, {p})
    BY <1>12, <1>13, <1>15 DEF Good
  <2> QED
    BY <1>16, <2>1, GoodNarrow
<1>18. ASSUME NEW q \in Paths, q # p
       PROVE  SameNode(s, t, q)
  <2>1. Listed(s, q) => Resolve(t, q, Listing(s, q)) = Resolve(s, q, Listing(s, q))
    BY <1>2, <1>14, <1>18 DEF Resolve
  <2> QED
    BY <1>9, <2>1 DEF SameNode, Node
<1>19. Counted(s, {}) => Counted(t, {})
  BY <1>2 DEF Counted
<1>20. RootKnown(s) => RootKnown(t)
  BY <1>2, <1>5 DEF RootKnown
<1> QED
  BY <1>9, <1>17, <1>18, <1>19, <1>20

\* The entry of p goes from its open parent.
LEMMA EntryGone ==
  ASSUME NEW s, NEW p \in Paths, Listed(s, p), NEW X, NEW b, IsState(b), b.err = "ok",
         Invisible(s, b, X), Parent(p) \in DOMAIN b.dc, NEW c, c = RemoveEntry(b, p)
  PROVE  /\ IsState(c) /\ SameControl(b, c) /\ Good(c, X \cup {p}) /\ ~Listed(c, p)
         /\ c.mc = b.mc /\ c.dmeta = b.dmeta /\ c.fmeta = b.fmeta /\ c.data = b.data
         /\ DOMAIN c.dc = DOMAIN b.dc
         /\ \A q \in DOMAIN b.dc : q # Parent(p) => c.dc[q] = b.dc[q]
         /\ Counted(b, {}) => Counted(c, {})
         /\ RootKnown(b) => RootKnown(c)
         /\ \A q \in Paths \ {p} : SameNode(s, c, q)
<1>1. Good(b, X) /\ HasEntry(b, p) /\ \A q \in Paths : SameNode(s, b, q)
  BY EntryIsListed, InvisibleListing DEF Invisible
<1>2. /\ IsState(c) /\ SameControl(b, c)
      /\ EntriesChanged(b, c, Parent(p), Del(b.dc[Parent(p)].entries, Name(p)))
  BY <1>1, RemoveEntryDoes
<1>3. /\ Good(c, X \cup {p}) /\ ~Listed(c, p)
      /\ \A q \in Paths \ {p} : SameNode(b, c, q)
  BY <1>1, <1>2, EntryRemoved
<1>4. /\ c.mc = b.mc /\ c.dmeta = b.dmeta /\ c.fmeta = b.fmeta /\ c.data = b.data
      /\ DOMAIN c.dc = DOMAIN b.dc
      /\ \A q \in DOMAIN b.dc : q # Parent(p) => c.dc[q] = b.dc[q]
      /\ Counted(b, {}) => Counted(c, {})
      /\ RootKnown(b) => RootKnown(c)
  BY <1>2, EntriesChangedCounts
<1>5. \A q \in Paths \ {p} : SameNode(s, c, q)
  BY <1>1, <1>3 DEF SameNode
<1> QED
  BY <1>2, <1>3, <1>4, <1>5

\* The name p is gone, everything else is found as before.
LEMMA OneGone ==
  ASSUME NEW s, NEW p \in Paths, IsDirIn(s, Parent(p)), Listed(s, p),
         NEW c, \A q \in Paths \ {p} : SameNode(s, c, q),
         NEW t, ~Listed(t, p), \A q \in Paths \ {p} : SameNode(c, t, q),
         Listing(s, p).kind = "dir" => \A q \in Paths : Parent(q) = p => ~Listed(s, q)
  PROVE  OneMore(t, s, p)
<1>1. \A q \in Paths \ {p} : SameNode(t, s, q)
  BY DEF SameNode
<1> QED
  BY <1>1, OneLess

\* What unlink and rmdir do: the name is gone, or an error is answered.
Gone(s, t, p) ==
  /\ Settled(s, t)
  /\ t.err = "ok" => OneMore(t, s, p)
  /\ t.err # "ok" => Tree(t) = Tree(s) \/ OneMore(t, s, p)

LEMMA RemoveFileDoes ==
  ASSUME NEW s, NEW p \in Paths, IsState(s), s.err = "ok", Good(s, {p}), p \in DOMAIN s.mc,
         s.mc[p].kind = "file", ~Listed(s, p), Calm => p \notin DOMAIN s.dmeta,
         NoFailures => s.left = 0, NEW t, t = RemoveFile(s, p)
  PROVE  /\ IsState(t) /\ t.undefined = s.undefined /\ (Calm => t.err = "ok")
         /\ Good(t, {}) /\ ~Listed(t, p) /\ \A q \in Paths \ {p} : SameNode(s, t, q)
         /\ RootKnown(s) => RootKnown(t)
         /\ Counted(s, {}) => Counted(t, {})
<1> DEFINE s1 == Call(s)
<1>1. /\ IsState(s1) /\ SameStores(s, s1) /\ s1.undefined = s.undefined
      /\ s.left = 0 => s1.left = 0 /\ s1.err = s.err
  BY CallDoes
<1>2. t = IF s1.err # "ok" THEN s1
          ELSE [[s1 EXCEPT !.fmeta = @ \ {s.mc[p].id}] EXCEPT !.mc = Del(@, p)]
  <2>1. RemoveData(s, p) = s
    BY DEF RemoveData
  <2>2. RemoveRecord(s, p) =
          IF s1.err # "ok" THEN s1 ELSE [s1 EXCEPT !.fmeta = @ \ {s.mc[p].id}]
    <3>1. s.mc[p].id # Lost
      BY IdsAssumption DEF Good, Sound, MetadataOK, MetadataType
    <3> QED
      BY <2>1, <3>1 DEF RemoveRecord
  <2>3. [s1 EXCEPT !.fmeta = @ \ {s.mc[p].id}].err = s1.err
    BY <1>1 DEF IsState
  <2> QED
    BY <2>2, <2>3 DEF RemoveFile
<1> HIDE DEF s1
<1>3. CASE s1.err # "ok"
  <2>1. t = s1 /\ ~Calm
    BY <1>1, <1>2, <1>3, CalmMeans
  <2>2. Good(t, {p}) /\ \A q \in Paths : SameNode(s, t, q)
    BY <1>1, <2>1, StoresDecide
  <2>3. Good(t, {})
    BY <2>1, <2>2, GoodNarrow
  <2>4. RootKnown(s) => RootKnown(t)
    BY <1>1, <2>1 DEF SameStores, RootKnown
  <2>5. Counted(s, {}) => Counted(t, {})
    BY <1>1, <2>1, CountedSame DEF SameStores
  <2>6. ~Listed(t, p)
    BY <2>2 DEF SameNode
  <2> QED
    BY <1>1, <2>1, <2>2, <2>3, <2>4, <2>5, <2>6
<1>4. CASE s1.err = "ok"
  <2>1. /\ IsState(t) /\ t.undefined = s.undefined /\ t.err = "ok"
        /\ t.mc = Del(s.mc, p) /\ t.dc = s.dc /\ t.dmeta = s.dmeta /\ t.data = s.data
        /\ t.fmeta = s.fmeta \ {s.mc[p].id}
    BY <1>1, <1>2, <1>4 DEF IsState, SameStores
  <2>2. /\ Good(t, {}) /\ ~Listed(t, p) /\ \A q \in Paths \ {p} : SameNode(s, t, q)
        /\ RootKnown(s) => RootKnown(t)
        /\ Counted(s, {}) => Counted(t, {})
    BY <2>1, FileGone
  <2> QED
    BY <2>1, <2>2
<1> QED
  BY <1>3, <1>4

LEMMA UnlinkDoes ==
  ASSUME NEW s, Begins(s), NEW p \in Reachable(s), Listing(s, p).kind = "file",
         NEW t, t = UnlinkFile(s, p)
  PROVE  Gone(s, t, p) /\ t.undefined = s.undefined /\ (Calm => t.err = "ok")
<1> DEFINE a == OpenFile(s, p)
           b == OpenDirectory(a, Parent(p))
           c == RemoveEntry(b, p)
<1>1. p \in Paths /\ Listed(s, p) /\ IsDirIn(s, Parent(p)) /\ OpenPath(s, Parent(p))
  <2>1. p \in Paths
    BY DEF Reachable
  <2> QED
    BY <2>1, ReachableStep, IsDirOpen
<1>2. /\ IsState(s) /\ Good(s, {}) /\ s.err = "ok" /\ (NoFailures => s.left = 0)
      /\ Calm => RootKnown(s) /\ s.left = 0
  BY CalmMeans DEF Begins
<1>3. /\ Opened(s, a, {}, {p, Parent(p)})
      /\ a.err = "ok" => p \in DOMAIN a.mc /\ a.mc[p].kind = "file"
      /\ s.left = 0 /\ Calm /\ RootKnown(s) => a.err = "ok"
  BY <1>1, <1>2, OpenFileDoes
<1>4. t = RemoveFile(c, p)
  BY DEF UnlinkFile
<1> HIDE DEF a
<1>5. /\ Opened(a, b, {}, {Parent(p)})
      /\ a.err # "ok" => b = a
      /\ b.err = "ok" => Parent(p) \in DOMAIN b.dc
      /\ a.err = "ok" /\ a.left = 0 /\ Calm /\ RootKnown(a) => b.err = "ok"
  <2>1. IsState(a) /\ Good(a, {}) /\ OpenPath(a, Parent(p))
    BY <1>1, <1>3, InvisibleListing DEF Opened, Invisible
  <2> QED
    BY <2>1, OpenDirectoryDoes
<1> HIDE DEF b
<1>6. Opened(s, b, {}, {p, Parent(p)} \cup {Parent(p)})
  BY <1>3, <1>5, OpenedTwice
<1>7. Settled(s, b) /\ b.undefined = s.undefined /\ Tree(b) = Tree(s)
  BY <1>6, OpenedSettles
<1>8. Calm => b.err = "ok"
  BY <1>2, <1>3, <1>5 DEF Opened
<1>9. CASE b.err # "ok"
  <2>1. t = b
    BY <1>4, <1>9 DEF RemoveFile, RemoveEntry
  <2> QED
    BY <1>7, <1>8, <1>9, <2>1 DEF Gone
<1>10. CASE b.err = "ok"
  <2>1. IsState(b) /\ Invisible(s, b, {}) /\ Parent(p) \in DOMAIN b.dc
    BY <1>5, <1>6, <1>10 DEF Opened
  <2>2. p \in DOMAIN b.mc /\ b.mc[p].kind = "file"
    BY <1>3, <1>5, <1>10 DEF Opened, OnlyAt
  <2>3. Calm => p \notin DOMAIN b.dmeta
    <3>1. Calm => LinkedAt(b, p)
      BY <1>1, <2>1 DEF Invisible, Good, Linked
    <3>2. SameNode(s, b, p)
      BY <1>1, <2>1 DEF Invisible
    <3>3. Listed(b, p) /\ Listing(b, p).kind = "file"
      BY <1>1, <3>2, SameNodeKind DEF SameNode
    <3> QED
      BY <3>1, <3>3 DEF LinkedAt
  <2>4. /\ IsState(c) /\ SameControl(b, c) /\ Good(c, {} \cup {p}) /\ ~Listed(c, p)
        /\ c.mc = b.mc /\ c.dmeta = b.dmeta
        /\ Counted(b, {}) => Counted(c, {})
        /\ RootKnown(b) => RootKnown(c)
        /\ \A q \in Paths \ {p} : SameNode(s, c, q)
    BY <1>1, <1>10, <2>1, EntryGone
  <2> HIDE DEF c
  <2>5. {} \cup {p} = {p}
    OBVIOUS
  <2>6. NoFailures => c.left = 0
    BY <1>2, <1>6, <2>4 DEF Opened, SameControl
  <2>7. /\ IsState(t) /\ t.undefined = c.undefined /\ (Calm => t.err = "ok")
        /\ Good(t, {}) /\ ~Listed(t, p) /\ \A q \in Paths \ {p} : SameNode(c, t, q)
        /\ RootKnown(c) => RootKnown(t)
        /\ Counted(c, {}) => Counted(t, {})
    BY <1>1, <1>4, <1>10, <2>2, <2>3, <2>4, <2>5, <2>6, RemoveFileDoes DEF SameControl
  <2>8. OneMore(t, s, p)
    BY <1>1, <2>4, <2>7, OneGone
  <2>9. Settled(s, t)
    BY <1>7, <2>4, <2>7 DEF Settled
  <2> QED
    BY <1>7, <2>4, <2>7, <2>8, <2>9 DEF Gone, SameControl
<1> QED
  BY <1>9, <1>10

\* Everything of an empty directory without an entry goes.
LEMMA DirectoryGone ==
  ASSUME NEW s, NEW p \in Paths, Good(s, {p}), p \in DOMAIN s.mc, s.mc[p].kind = "dir",
         p \in DOMAIN s.dc, s.dc[p].entries = NoEntries, ~Listed(s, p),
         NEW t, t.mc = Del(s.mc, p), t.dc = Del(s.dc, p), t.dmeta = Del(s.dmeta, p),
         t.fmeta = s.fmeta, t.data = IF s.mc[p].sized THEN Del(s.data, p) ELSE s.data
  PROVE  /\ Good(t, {}) /\ ~Listed(t, p) /\ \A q \in Paths \ {p} : SameNode(s, t, q)
         /\ RootKnown(s) => RootKnown(t)
         /\ Counted(s, {}) => Counted(t, {})
<1>1. /\ Sound(s) /\ OnePath(s, {p}) /\ EntriesMatch(s)
      /\ SoundAt(s, p) /\ Shapes(s) /\ p \in AllPaths
  BY SoundIsLocal, PathIsPath DEF Good, Sound
<1>2. /\ DOMAIN t.mc = DOMAIN s.mc \ {p} /\ t.mc = [x \in DOMAIN t.mc |-> t.mc[x]]
      /\ \A q \in DOMAIN t.mc : t.mc[q] = s.mc[q]
  BY DEF Del, Restrict
<1>3. /\ DOMAIN t.dc = DOMAIN s.dc \ {p} /\ t.dc = [x \in DOMAIN t.dc |-> t.dc[x]]
      /\ \A q \in DOMAIN t.dc : t.dc[q] = s.dc[q]
  BY DEF Del, Restrict
<1>4. /\ DOMAIN t.dmeta = DOMAIN s.dmeta \ {p} /\ t.dmeta = [x \in DOMAIN t.dmeta |-> t.dmeta[x]]
      /\ \A q \in DOMAIN t.dmeta : t.dmeta[q] = s.dmeta[q]
  BY DEF Del, Restrict
<1>5. /\ DOMAIN t.data = (IF s.mc[p].sized THEN DOMAIN s.data \ {p} ELSE DOMAIN s.data)
      /\ t.data = [x \in DOMAIN t.data |-> t.data[x]]
      /\ \A q \in DOMAIN t.data : t.data[q] = s.data[q]
  <2>1. CASE s.mc[p].sized
    BY <2>1 DEF Del, Restrict
  <2>2. CASE ~s.mc[p].sized
    BY <1>1, <2>2 DEF Shapes
  <2> QED
    BY <2>1, <2>2
<1>6. Elsewhere(s, t, p)
  BY <1>2, <1>3, <1>4, <1>5 DEF Elsewhere
<1>7. p # Root /\ Parent(p) # p
  BY PrefixSelf DEF Paths
<1>8. Shapes(t)
  BY <1>1, <1>2, <1>3, <1>4, <1>5 DEF Shapes
<1>9. Calm => p \notin DOMAIN t.data
  BY <1>1, <1>5 DEF SoundAt, DataSound
<1>10. SoundAt(t, p)
  <2>1. MetadataSound(t, p) /\ MetadataRecorded(t, p)
    BY <1>2 DEF MetadataSound, MetadataRecorded
  <2>2. DirectorySound(t, p)
    BY <1>3 DEF DirectorySound
  <2>3. RecordSound(t, p)
    BY <1>4 DEF RecordSound
  <2>4. DataSound(t, p)
    BY <1>1, <1>5, <1>9 DEF SoundAt, DataSound
  <2> QED
    BY <2>1, <2>2, <2>3, <2>4 DEF SoundAt
<1>11. EntriesOf(t, p) = NoEntries /\ EntriesOf(s, p) = NoEntries
  BY <1>2, <1>3, <1>4 DEF EntriesOf
<1>12. \A q : Parent(q) = p => ~Listed(t, q) /\ ~Listed(s, q)
  BY <1>11, NoContent DEF Listed
<1>13. \A q : Parent(q) # p => (Listed(t, q) <=> Listed(s, q)) /\ Listing(t, q) = Listing(s, q)
  BY <1>6, ElsewhereSame
<1>14. EntriesMatch(t)
  BY <1>1, <1>2, <1>12, <1>13 DEF EntriesMatch
<1>15. Sound(t)
  <2>1. \A q \in DOMAIN s.mc \ {p} :
          s.mc[q].kind # "dir" /\ s.mc[q].id \in s.fmeta => s.mc[q].id \in t.fmeta
    OBVIOUS
  <2> QED
    BY <1>1, <1>6, <1>8, <1>10, <1>14, <2>1, LocalChange
<1>16. OnePath(t, {p})
  <2>1. \A i : CachedAt(t, i, p) => At(s, i, p)
    BY <1>2, <1>4 DEF CachedAt
  <2>2. ASSUME NEW i, NEW q, q \in Paths, Parent(q) = p, EntryAt(t, i, q)
        PROVE  At(s, i, q)
    <3>1. p \in DOMAIN t.data /\ Name(q) \in DOMAIN t.data[p] /\ t.data[p][Name(q)].id = i
      BY <1>3, <2>2 DEF EntryAt
    <3>2. ~Calm /\ p \in DOMAIN s.data /\ t.data[p] = s.data[p]
      BY <1>5, <1>9, <3>1
    <3> QED
      BY <2>2, <3>1, <3>2 DEF At, EntryAt
  <2>3. NoNewPlaces(s, t)
    BY <1>6, <2>1, <2>2, ElsewherePlaces
  <2> QED
    BY <1>1, <2>3, OnePathKept
<1>17. Calm => Linked(t, {p})
  <2> SUFFICES ASSUME Calm, NEW q \in Paths \ {p}
               PROVE  LinkedAt(t, q)
    BY DEF Linked
  <2>1. LinkedAt(s, q)
    BY DEF Good, Linked
  <2>2. /\ Listed(t, q) <=> Listed(s, q)
        /\ Listed(s, q) => Listing(t, q) = Listing(s, q)
    BY <1>12, <1>13
  <2> QED
    BY <1>6, <2>1, <2>2, LinkedElsewhere
<1>18. ~Listed(t, p)
  BY <1>7, <1>13
<1>19. Calm => LinkedAt(t, p)
  BY <1>2, <1>4, <1>18 DEF LinkedAt, Unused
<1>20. Good(t, {})
  <2>1. Good(t, {p})
    BY <1>15, <1>16, <1>17 DEF Good
  <2> QED
    BY <1>19, <2>1, GoodNarrow
<1>21. ASSUME NEW q \in Paths, q # p
       PROVE  SameNode(s, t, q)
  <2>1. \A e : Resolve(t, q, e) = Resolve(s, q, e)
    BY <1>6, <1>21 DEF Resolve, Elsewhere
  <2>2. /\ Listed(t, q) <=> Listed(s, q)
        /\ Listed(s, q) => Listing(t, q) = Listing(s, q)
    BY <1>12, <1>13
  <2> QED
    BY <2>1, <2>2 DEF SameNode, Node
<1>22. Counted(s, {}) => Counted(t, {})
  BY <1>2, <1>3 DEF Counted
<1>23. RootKnown(s) => RootKnown(t)
  BY <1>2, <1>4, <1>7 DEF RootKnown
<1> QED
  BY <1>18, <1>20, <1>21, <1>22, <1>23

\* A removal that failed may have lost the data of the empty directory.
LEMMA DataLost ==
  ASSUME NEW s, NEW p \in Paths, Good(s, {p}), ~NoFailures, p \in DOMAIN s.mc,
         s.mc[p].kind = "dir", p \in DOMAIN s.dc, s.dc[p].entries = NoEntries, ~Listed(s, p),
         NEW md \in MetadataType, md.kind = s.mc[p].kind, md.id = s.mc[p].id,
         md.sized = s.mc[p].sized, md.dirty = s.mc[p].dirty,
         NEW t, t.mc = [s.mc EXCEPT ![p] = md], t.dc = s.dc, t.dmeta = s.dmeta,
         t.fmeta = s.fmeta, t.data = s.data \/ t.data = Del(s.data, p)
  PROVE  /\ Good(t, {}) /\ ~Listed(t, p) /\ \A q \in Paths : SameNode(s, t, q)
         /\ RootKnown(s) => RootKnown(t)
<1>1. /\ Sound(s) /\ OnePath(s, {p}) /\ EntriesMatch(s) /\ ~Calm
      /\ SoundAt(s, p) /\ Shapes(s)
  BY SoundIsLocal, CalmMeans DEF Good, Sound
<1>2. /\ DOMAIN t.mc = DOMAIN s.mc /\ t.mc = [x \in DOMAIN t.mc |-> t.mc[x]]
      /\ t.mc[p] = md /\ \A q \in DOMAIN s.mc : q # p => t.mc[q] = s.mc[q]
  BY <1>1 DEF Shapes
<1>3. /\ DOMAIN s.data \ {p} \subseteq DOMAIN t.data /\ DOMAIN t.data \subseteq DOMAIN s.data
      /\ t.data = [x \in DOMAIN t.data |-> t.data[x]]
      /\ \A q \in DOMAIN t.data : t.data[q] = s.data[q]
  <2>1. CASE t.data = s.data
    BY <1>1, <2>1 DEF Shapes
  <2>2. CASE t.data = Del(s.data, p)
    BY <2>2 DEF Del, Restrict
  <2> QED
    BY <2>1, <2>2
<1>4. Elsewhere(s, t, p)
  BY <1>2, <1>3 DEF Elsewhere
<1>5. Shapes(t)
  BY <1>1, <1>2, <1>3 DEF Shapes
<1>6. SoundAt(t, p)
  <2>1. MetadataSound(t, p)
    BY <1>1, <1>2 DEF SoundAt, MetadataSound
  <2>2. MetadataRecorded(t, p)
    <3>1. MetadataRecorded(s, p)
      BY <1>1 DEF SoundAt
    <3> QED
      BY <1>2, <3>1 DEF MetadataRecorded
  <2>3. DirectorySound(t, p)
    <3>1. DirectorySound(s, p)
      BY <1>1 DEF SoundAt
    <3>2. (p \in DOMAIN t.data => t.data[p] = s.data[p]) /\ (p \in DOMAIN t.data => p \in DOMAIN s.data)
      BY <1>3
    <3>3. ~s.dc[p].dirty => NoEntries = IF p \in DOMAIN t.data THEN t.data[p] ELSE NoEntries
      BY <3>1, <3>2 DEF DirectorySound
    <3> QED
      BY <1>2, <3>1, <3>3 DEF DirectorySound
  <2>4. RecordSound(t, p)
    BY <1>1 DEF SoundAt, RecordSound
  <2>5. DataSound(t, p)
    BY <1>1, <1>3 DEF SoundAt, DataSound
  <2> QED
    BY <2>1, <2>2, <2>3, <2>4, <2>5 DEF SoundAt
<1>7. \A d : EntriesOf(t, d) = EntriesOf(s, d)
  <2>1. EntriesOf(t, p) = EntriesOf(s, p)
    BY DEF EntriesOf
  <2> QED
    BY <1>4, <2>1, ElsewhereSame
<1>8. \A q : (Listed(t, q) <=> Listed(s, q)) /\ Listing(t, q) = Listing(s, q)
  BY <1>7 DEF Listed, Listing
<1>9. \A q \in DOMAIN s.mc : t.mc[q].kind = s.mc[q].kind /\ t.mc[q].id = s.mc[q].id
  BY <1>2
<1>10. EntriesMatch(t)
  BY <1>1, <1>2, <1>8, <1>9 DEF EntriesMatch
<1>11. Sound(t)
  <2>1. \A q \in DOMAIN s.mc \ {p} :
          s.mc[q].kind # "dir" /\ s.mc[q].id \in s.fmeta => s.mc[q].id \in t.fmeta
    OBVIOUS
  <2> QED
    BY <1>1, <1>4, <1>5, <1>6, <1>10, <2>1, LocalChange
<1>12. OnePath(t, {p})
  <2>1. \A i, q : CachedAt(t, i, q) => CachedAt(s, i, q)
    BY <1>2, <1>9 DEF CachedAt
  <2>2. \A i, q : EntryAt(t, i, q) => EntryAt(s, i, q)
    BY <1>3 DEF EntryAt
  <2> QED
    BY <1>1, <2>1, <2>2 DEF OnePath, At
<1>13. Good(t, {})
  <2>1. Good(t, {p})
    BY <1>1, <1>11, <1>12 DEF Good
  <2> QED
    BY <1>1, <2>1, GoodNarrow
<1>14. \A q \in Paths : SameNode(s, t, q)
  <2>1. \A q, e : Resolve(t, q, e) = Resolve(s, q, e)
    BY <1>2, <1>9 DEF Resolve
  <2> QED
    BY <1>8, <2>1 DEF SameNode, Node
<1>15. RootKnown(s) => RootKnown(t)
  BY <1>2 DEF RootKnown
<1> QED
  BY <1>8, <1>13, <1>14, <1>15

LEMMA RemoveDataDoes ==
  ASSUME NEW s, IsState(s), s.err = "ok", NoFailures => s.left = 0, NEW p, s.mc[p].kind = "dir",
         NEW t, t = RemoveData(s, p)
  PROVE  /\ IsState(t) /\ t.undefined = s.undefined
         /\ t.mc = s.mc /\ t.dc = s.dc /\ t.fmeta = s.fmeta /\ t.dmeta = s.dmeta
         /\ NoFailures => t.left = 0 /\ t.err = "ok"
         /\ t.err # "ok" => t.data = s.data
         /\ t.err = "ok" => t.data = IF s.mc[p].sized THEN Del(s.data, p) ELSE s.data
<1> DEFINE c == Call(s)
<1>1. /\ IsState(c) /\ SameStores(s, c) /\ c.undefined = s.undefined
      /\ s.left = 0 => c.left = 0 /\ c.err = s.err
  BY CallDoes
<1>2. t = IF ~s.mc[p].sized THEN s
          ELSE IF c.err # "ok" THEN c ELSE [c EXCEPT !.data = Del(@, p)]
  BY DEF RemoveData
<1> HIDE DEF c
<1>3. CASE ~s.mc[p].sized
  BY <1>2, <1>3
<1>4. CASE s.mc[p].sized /\ c.err # "ok"
  BY <1>1, <1>2, <1>4 DEF SameStores
<1>5. CASE s.mc[p].sized /\ c.err = "ok"
  <2>1. t = [c EXCEPT !.data = Del(@, p)]
    BY <1>2, <1>5
  <2>2. /\ IsState(t) /\ t.undefined = c.undefined /\ t.err = c.err /\ t.left = c.left
        /\ t.mc = c.mc /\ t.dc = c.dc /\ t.fmeta = c.fmeta /\ t.dmeta = c.dmeta
        /\ t.data = Del(c.data, p)
    BY <1>1, <2>1 DEF IsState
  <2> QED
    BY <1>1, <1>5, <2>2 DEF SameStores
<1> QED
  BY <1>3, <1>4, <1>5

LEMMA RemoveRecordDoes ==
  ASSUME NEW s, IsState(s), s.err = "ok", NoFailures => s.left = 0, NEW p, s.mc[p].kind = "dir",
         s.mc[p].id # Lost, NEW t, t = RemoveRecord(s, p)
  PROVE  /\ IsState(t) /\ t.undefined = s.undefined
         /\ t.mc = s.mc /\ t.dc = s.dc /\ t.fmeta = s.fmeta
         /\ t.err # "ok" => /\ ~NoFailures /\ t.dmeta = s.dmeta
                            /\ t.data = s.data \/ t.data = Del(s.data, p)
         /\ t.err = "ok" => /\ t.dmeta = Del(s.dmeta, p)
                            /\ t.data = IF s.mc[p].sized THEN Del(s.data, p) ELSE s.data
<1> DEFINE r == RemoveData(s, p)
           c == IF r.err # "ok" THEN r ELSE Call(r)
<1>1. /\ IsState(r) /\ r.undefined = s.undefined
      /\ r.mc = s.mc /\ r.dc = s.dc /\ r.fmeta = s.fmeta /\ r.dmeta = s.dmeta
      /\ NoFailures => r.left = 0 /\ r.err = "ok"
      /\ r.err # "ok" => r.data = s.data
      /\ r.err = "ok" => r.data = IF s.mc[p].sized THEN Del(s.data, p) ELSE s.data
  BY RemoveDataDoes
<1>2. t = IF c.err # "ok" THEN c ELSE [c EXCEPT !.dmeta = Del(@, p)]
  BY DEF RemoveRecord
<1> HIDE DEF r
<1>3. /\ IsState(c) /\ c.undefined = s.undefined
      /\ c.mc = s.mc /\ c.dc = s.dc /\ c.fmeta = s.fmeta /\ c.dmeta = s.dmeta /\ c.data = r.data
      /\ NoFailures => c.err = "ok"
      /\ c.err = "ok" => r.err = "ok"
  <2>1. CASE r.err # "ok"
    BY <1>1, <2>1
  <2>2. CASE r.err = "ok"
    <3>1. c = Call(r)
      BY <2>2
    <3> HIDE DEF c
    <3>2. /\ IsState(c) /\ SameStores(r, c) /\ c.undefined = r.undefined
          /\ r.left = 0 => c.left = 0 /\ c.err = r.err
      BY <1>1, <3>1, CallDoes
    <3> QED
      BY <1>1, <2>2, <3>2 DEF SameStores
  <2> QED
    BY <2>1, <2>2
<1> HIDE DEF c
<1>4. CASE c.err # "ok"
  BY <1>1, <1>2, <1>3, <1>4
<1>5. CASE c.err = "ok"
  <2>1. t = [c EXCEPT !.dmeta = Del(@, p)]
    BY <1>2, <1>5
  <2>2. /\ IsState(t) /\ t.undefined = c.undefined /\ t.err = c.err
        /\ t.mc = c.mc /\ t.dc = c.dc /\ t.fmeta = c.fmeta /\ t.data = c.data
        /\ t.dmeta = Del(c.dmeta, p)
    BY <1>3, <2>1 DEF IsState
  <2> QED
    BY <1>1, <1>3, <1>5, <2>2
<1> QED
  BY <1>4, <1>5

LEMMA CountChanged ==
  ASSUME NEW m \in MetadataType, NEW n \in Int, NEW md, md = [m EXCEPT !.count = n]
  PROVE  /\ md \in MetadataType /\ md.kind = m.kind /\ md.id = m.id
         /\ md.sized = m.sized /\ md.dirty = m.dirty /\ md.count = n
  BY DEF MetadataType

\* cache_store::remove_directory of an empty directory that has no entry any more.
LEMMA RemoveDirectoryDoes ==
  ASSUME NEW s, NEW p \in Paths, IsState(s), s.err = "ok", Good(s, {p}), p \in DOMAIN s.mc,
         s.mc[p].kind = "dir", p \in DOMAIN s.dc, s.dc[p].entries = NoEntries, ~Listed(s, p),
         NoFailures => s.left = 0,
         NEW before, IsCached(before, p) => before.mc[p].count \in Int,
         NEW t, t = RemoveDirectory(s, p, before)
  PROVE  /\ IsState(t) /\ (s.undefined \in BOOLEAN => t.undefined \in BOOLEAN)
         /\ NoFailures => t.err = "ok"
         /\ Good(t, {}) /\ ~Listed(t, p) /\ \A q \in Paths \ {p} : SameNode(s, t, q)
         /\ RootKnown(s) => RootKnown(t)
         /\ NoFailures /\ Counted(s, {}) => Counted(t, {})
<1> DEFINE r == RemoveRecord(s, p)
           cached == IsCached(before, p)
           n == IF cached THEN before.mc[p].count ELSE s.mc[p].count - 1
           md == [s.mc[p] EXCEPT !.count = n]
<1>1. /\ IsState(r) /\ r.undefined = s.undefined
      /\ r.mc = s.mc /\ r.dc = s.dc /\ r.fmeta = s.fmeta
      /\ r.err # "ok" => /\ ~NoFailures /\ r.dmeta = s.dmeta
                         /\ r.data = s.data \/ r.data = Del(s.data, p)
      /\ r.err = "ok" => /\ r.dmeta = Del(s.dmeta, p)
                         /\ r.data = IF s.mc[p].sized THEN Del(s.data, p) ELSE s.data
  <2>1. s.mc[p].id # Lost
    BY IdsAssumption DEF Good, Sound, MetadataOK, MetadataType
  <2> QED
    BY <2>1, RemoveRecordDoes
<1>2. t = IF r.err # "ok"
            THEN [r EXCEPT !.mc[p].count = IF cached THEN before.mc[p].count ELSE @ - 1]
            ELSE [r EXCEPT !.mc = Del(@, p), !.dc = Del(@, p), !.undefined = @ \/ ~cached]
  BY DEF RemoveDirectory
<1>3. s.mc[p] \in MetadataType /\ s.mc[p].count \in Int
  <2>1. s.mc[p] \in MetadataType
    BY DEF Good, Sound, MetadataOK
  <2> QED
    BY <2>1 DEF MetadataType
<1>4. n \in Int
  BY <1>3
<1>5. cached \in BOOLEAN
  BY DEF IsCached
<1> HIDE DEF r, cached
<1>6. CASE r.err # "ok"
  <2>1. t = [r EXCEPT !.mc = [r.mc EXCEPT ![p] = md]]
    BY <1>1, <1>2, <1>6
  <2>2. md = [s.mc[p] EXCEPT !.count = n]
    OBVIOUS
  <2> HIDE DEF md, n
  <2>3. /\ md \in MetadataType /\ md.kind = s.mc[p].kind /\ md.id = s.mc[p].id
        /\ md.sized = s.mc[p].sized /\ md.dirty = s.mc[p].dirty
    BY ONLY <1>3, <1>4, <2>2, CountChanged
  <2>4. /\ IsState(t) /\ t.undefined = r.undefined
        /\ t.mc = [s.mc EXCEPT ![p] = md] /\ t.dc = s.dc /\ t.dmeta = r.dmeta
        /\ t.fmeta = s.fmeta /\ t.data = r.data
    BY <1>1, <2>1 DEF IsState
  <2>5. ~NoFailures /\ r.dmeta = s.dmeta /\ (r.data = s.data \/ r.data = Del(s.data, p))
    BY <1>1, <1>6
  <2>6. t.dmeta = s.dmeta /\ (t.data = s.data \/ t.data = Del(s.data, p))
    BY <2>4, <2>5
  <2>7. /\ p \in Paths /\ Good(s, {p}) /\ p \in DOMAIN s.mc /\ s.mc[p].kind = "dir"
        /\ p \in DOMAIN s.dc /\ s.dc[p].entries = NoEntries /\ ~Listed(s, p)
    OBVIOUS
  <2>8. /\ Good(t, {}) /\ ~Listed(t, p) /\ \A q \in Paths : SameNode(s, t, q)
        /\ RootKnown(s) => RootKnown(t)
    BY ONLY <2>3, <2>4, <2>5, <2>6, <2>7, DataLost
  <2> QED
    BY <1>1, <2>4, <2>5, <2>8
<1>7. CASE r.err = "ok"
  <2>1. t = [r EXCEPT !.mc = Del(@, p), !.dc = Del(@, p), !.undefined = @ \/ ~cached]
    BY <1>2, <1>7
  <2>2. /\ IsState(t) /\ t.undefined = (r.undefined \/ ~cached) /\ t.err = r.err
        /\ t.mc = Del(s.mc, p) /\ t.dc = Del(s.dc, p) /\ t.dmeta = r.dmeta
        /\ t.fmeta = s.fmeta /\ t.data = r.data
    BY <1>1, <2>1 DEF IsState
  <2>3. /\ t.dmeta = Del(s.dmeta, p)
        /\ t.data = IF s.mc[p].sized THEN Del(s.data, p) ELSE s.data
    BY <1>1, <1>7, <2>2
  <2>4. /\ Good(t, {}) /\ ~Listed(t, p) /\ \A q \in Paths \ {p} : SameNode(s, t, q)
        /\ RootKnown(s) => RootKnown(t)
        /\ Counted(s, {}) => Counted(t, {})
    BY <2>2, <2>3, DirectoryGone
  <2>5. t.undefined \in BOOLEAN
    BY <2>2
  <2> QED
    BY <1>7, <2>2, <2>4, <2>5
<1> QED
  BY <1>6, <1>7

LEMMA EmptyMeans ==
  ASSUME NEW s, NEW t, Good(t, {}), SameEntries(s, t), NEW p \in Reachable(s), Listing(s, p).kind = "dir",
         p \in DOMAIN t.dc
  PROVE  /\ p \in Paths
         /\ t.dc[p].entries = NoEntries <=> \A q \in Reachable(s) : Parent(q) # p
         /\ t.dc[p].entries = NoEntries => \A q \in Paths : Parent(q) = p => ~Listed(s, q)
<1> DEFINE e == t.dc[p].entries
<1>1. p \in Paths /\ IsDirIn(s, p)
  BY DEF Reachable, IsDirIn
<1>2. IsContent(p, e) /\ p \in DirPaths
  BY DEF Good, Sound, DirectoriesOK
<1>3. EntriesOf(s, p) = e
  <2>1. EntriesOf(t, p) = e
    BY DEF EntriesOf
  <2> QED
    BY <1>2, <2>1 DEF SameEntries
<1> HIDE DEF e
<1>4. \A q \in Paths : Parent(q) = p => (q \in Reachable(s) <=> Name(q) \in DOMAIN e)
  BY <1>1, <1>3, ReachableStep DEF Listed
<1>5. e = NoEntries <=> DOMAIN e = {}
  <2>1. e = [n \in DOMAIN e |-> e[n]]
    BY <1>2 DEF IsContent
  <2>2. DOMAIN e = {} => e = [n \in {} |-> e[n]]
    BY <2>1
  <2>3. [n \in {} |-> e[n]] = NoEntries
    BY DEF NoEntries
  <2> QED
    BY <2>2, <2>3, NoContent
<1>6. \A n \in DOMAIN e : \E q \in Paths : Parent(q) = p /\ Name(q) = n
  BY <1>2 DEF IsContent
<1>7. e = NoEntries <=> \A q \in Reachable(s) : Parent(q) # p
  <2>1. \A q \in Reachable(s) : q \in Paths
    BY DEF Reachable
  <2> QED
    BY <1>4, <1>5, <1>6, <2>1
<1>8. e = NoEntries => \A q \in Paths : Parent(q) = p => ~Listed(s, q)
  BY <1>3, <1>5 DEF Listed
<1> QED
  BY <1>1, <1>7, <1>8 DEF e

LEMMA RmdirDoes ==
  ASSUME NEW s, Begins(s), NEW p \in Reachable(s), Listing(s, p).kind = "dir",
         NEW t, t = RemoveEmptyDirectory(s, p)
  PROVE  /\ Gone(s, t, p) /\ (s.undefined \in BOOLEAN => t.undefined \in BOOLEAN)
         /\ Calm => t.err = IF \A q \in Reachable(s) : Parent(q) # p THEN "ok" ELSE "ENOTEMPTY"
<1> DEFINE a == OpenDirectory(s, p)
           e == CheckEmpty(a, p)
           b == OpenDirectory(e, Parent(p))
           c == RemoveEntry(b, p)
           Empty == \A q \in Reachable(s) : Parent(q) # p
<1>1. /\ p \in Paths /\ Listed(s, p) /\ IsDirIn(s, Parent(p)) /\ OpenPath(s, Parent(p))
      /\ OpenPath(s, p)
  <2>1. p \in Paths /\ IsDirIn(s, p)
    BY DEF Reachable, IsDirIn
  <2> QED
    BY <2>1, ReachableStep, IsDirOpen
<1>2. /\ IsState(s) /\ Good(s, {}) /\ s.err = "ok" /\ (NoFailures => s.left = 0)
      /\ Calm => RootKnown(s) /\ s.left = 0
  BY CalmMeans DEF Begins
<1>3. /\ Opened(s, a, {}, {p})
      /\ a.err = "ok" => p \in DOMAIN a.dc
      /\ Calm => a.err = "ok"
  BY <1>1, <1>2, OpenDirectoryDoes
<1>4. t = RemoveDirectory(c, p, s)
  BY DEF RemoveEmptyDirectory
<1>5. e = IF a.err = "ok" /\ a.dc[p].entries # NoEntries THEN Fail(a, "ENOTEMPTY") ELSE a
  BY DEF CheckEmpty
<1> HIDE DEF a, e, Empty
<1>6. IsState(a) /\ Invisible(s, a, {}) /\ Good(a, {}) /\ SameEntries(s, a)
  BY <1>3 DEF Opened, Invisible
<1>7. a.err = "ok" => /\ a.dc[p].entries = NoEntries <=> Empty
                      /\ Empty => \A q \in Paths : Parent(q) = p => ~Listed(s, q)
  BY <1>3, <1>6, EmptyMeans DEF Empty
<1>8. /\ Opened(s, e, {}, {p}) /\ SameStores(a, e)
      /\ e.err = "ok" => a.err = "ok" /\ Empty
      /\ Calm => e.err = IF Empty THEN "ok" ELSE "ENOTEMPTY"
  <2>1. CASE a.err = "ok" /\ a.dc[p].entries # NoEntries
    <3>1. e = Fail(a, "ENOTEMPTY")
      BY <1>5, <2>1
    <3>2. IsState(e) /\ SameStores(a, e) /\ e.undefined = a.undefined /\ e.left = a.left
          /\ e.err = "ENOTEMPTY"
      BY <1>6, <3>1, FailDoes
    <3>3. Opened(a, e, {}, {p})
      BY <1>6, <3>2, OpenedNothing
    <3>4. Opened(s, e, {}, {p} \cup {p}) /\ {p} \cup {p} = {p}
      BY <1>3, <3>3, OpenedTwice
    <3> QED
      BY <1>7, <2>1, <3>2, <3>4
  <2>2. CASE ~(a.err = "ok" /\ a.dc[p].entries # NoEntries)
    <3>1. e = a
      BY <1>5, <2>2
    <3> QED
      BY <1>3, <1>7, <2>2, <3>1 DEF SameStores
  <2> QED
    BY <2>1, <2>2
<1>9. /\ Opened(e, b, {}, {Parent(p)})
      /\ e.err # "ok" => b = e
      /\ b.err = "ok" => Parent(p) \in DOMAIN b.dc
      /\ e.err = "ok" /\ Calm => b.err = "ok"
  <2>1. IsState(e) /\ Good(e, {}) /\ OpenPath(e, Parent(p))
    BY <1>1, <1>8, InvisibleListing DEF Opened, Invisible
  <2>2. Calm => e.left = 0 /\ RootKnown(e)
    BY <1>2, <1>8 DEF Opened
  <2> QED
    BY <2>1, <2>2, OpenDirectoryDoes
<1> HIDE DEF b
<1>10. Opened(s, b, {}, {p} \cup {Parent(p)})
  BY <1>8, <1>9, OpenedTwice
<1>11. Settled(s, b) /\ b.undefined = s.undefined /\ Tree(b) = Tree(s)
  BY <1>10, OpenedSettles
<1>12. CASE b.err # "ok"
  <2>1. t = b
    BY <1>4, <1>12 DEF RemoveDirectory, RemoveEntry
  <2>2. Calm => t.err = IF Empty THEN "ok" ELSE "ENOTEMPTY"
    BY <1>8, <1>9, <1>12, <2>1
  <2> QED
    BY <1>11, <1>12, <2>1, <2>2 DEF Gone, Empty
<1>13. CASE b.err = "ok"
  <2>1. IsState(b) /\ Invisible(s, b, {}) /\ Parent(p) \in DOMAIN b.dc /\ e.err = "ok"
    BY <1>9, <1>10, <1>13 DEF Opened
  <2>2. a.err = "ok" /\ Empty /\ p \in DOMAIN a.dc /\ a.dc[p].entries = NoEntries
    BY <1>3, <1>7, <1>8, <2>1
  <2>3. p # Parent(p)
    BY <1>1, PrefixSelf
  <2>4. p \in DOMAIN b.dc /\ b.dc[p].entries = NoEntries
    BY <1>8, <1>9, <2>2, <2>3 DEF SameStores, Opened, OnlyAt
  <2>5. /\ IsState(c) /\ SameControl(b, c) /\ Good(c, {} \cup {p}) /\ ~Listed(c, p)
        /\ c.mc = b.mc /\ DOMAIN c.dc = DOMAIN b.dc
        /\ \A q \in DOMAIN b.dc : q # Parent(p) => c.dc[q] = b.dc[q]
        /\ Counted(b, {}) => Counted(c, {})
        /\ RootKnown(b) => RootKnown(c)
        /\ \A q \in Paths \ {p} : SameNode(s, c, q)
    <3>1. c = RemoveEntry(b, p)
      OBVIOUS
    <3> HIDE DEF c
    <3> QED
      BY ONLY <1>1, <1>13, <2>1, <3>1, EntryGone
  <2> HIDE DEF c
  <2>6. Good(c, {p})
    <3>1. {} \cup {p} = {p}
      OBVIOUS
    <3> QED
      BY <2>5, <3>1
  <2>7. p \in DOMAIN c.dc /\ c.dc[p].entries = NoEntries
    BY <2>3, <2>4, <2>5
  <2>8. p \in DOMAIN c.mc /\ c.mc[p].kind = "dir"
    BY <2>6, <2>7 DEF Good, Sound, DirectoriesCached
  <2>9. NoFailures => c.left = 0
    BY <1>2, <1>10, <2>5 DEF Opened, SameControl
  <2>10. IsCached(s, p) => s.mc[p].count \in Int
    <3>1. IsCached(s, p) => s.mc[p] \in MetadataType
      BY <1>2 DEF IsCached, Good, Sound, DirectoriesCached, MetadataOK
    <3> QED
      BY <3>1 DEF MetadataType
  <2>11. c.err = "ok" /\ c.undefined = s.undefined
    BY <1>11, <1>13, <2>5 DEF SameControl
  <2>12. /\ IsState(t) /\ (c.undefined \in BOOLEAN => t.undefined \in BOOLEAN)
         /\ NoFailures => t.err = "ok"
         /\ Good(t, {}) /\ ~Listed(t, p) /\ \A q \in Paths \ {p} : SameNode(c, t, q)
         /\ RootKnown(c) => RootKnown(t)
         /\ NoFailures /\ Counted(c, {}) => Counted(t, {})
    BY <1>1, <1>4, <2>5, <2>6, <2>7, <2>8, <2>9, <2>10, <2>11, RemoveDirectoryDoes
  <2>13. OneMore(t, s, p)
    <3>1. \A q \in Paths : Parent(q) = p => ~Listed(s, q)
      BY <1>7, <2>2
    <3> QED
      BY <1>1, <2>5, <2>12, <3>1, OneGone
  <2>14. Settled(s, t)
    BY <1>11, <2>5, <2>12 DEF Settled
  <2>15. Calm => t.err = IF Empty THEN "ok" ELSE "ENOTEMPTY"
    BY <2>2, <2>12, CalmMeans
  <2> QED
    BY <2>11, <2>12, <2>13, <2>14, <2>15 DEF Gone, Empty
<1> QED
  BY <1>12, <1>13

-----------------------------------------------------------------------------
(* Renaming a file to a new name, without failing calls and crashes.       *)

\* The metadata of a file moves to a path nobody uses; both paths are excepted until
\* the entries follow.
LEMMA FileMoved ==
  ASSUME NEW s, Good(s, {}), Calm, NEW p \in Paths, NEW q \in Paths, p # q,
         p \in DOMAIN s.mc, s.mc[p].kind = "file", Listed(s, p), ~Listed(s, q),
         NEW md \in MetadataType, md.kind = "file", md.id = s.mc[p].id, md.dirty,
         md.count \in Counts,
         NEW t, t.mc = Del(Put(s.mc, q, md), p), t.dc = s.dc, t.dmeta = s.dmeta,
         t.fmeta = s.fmeta, t.data = s.data
  PROVE  /\ Good(t, {p, q}) /\ SameEntries(s, t)
         /\ \A c \in Paths \ {p, q} : SameNode(s, t, c)
         /\ p \notin DOMAIN t.mc /\ q \in DOMAIN t.mc /\ t.mc[q] = md
         /\ p \notin DOMAIN t.dmeta /\ q \notin DOMAIN t.dmeta
         /\ Counted(s, {}) => Counted(t, {})
         /\ RootKnown(s) => RootKnown(t)
<1>1. /\ Sound(s) /\ OnePath(s, {}) /\ EntriesMatch(s)
      /\ \A c : SoundAt(s, c)
      /\ Shapes(s) /\ p \in AllPaths /\ q \in AllPaths
  BY SoundIsLocal, PathIsPath DEF Good, Sound
<1>2. LinkedAt(s, p) /\ LinkedAt(s, q)
  BY DEF Good, Linked
<1>3. q \notin DOMAIN s.mc /\ q \notin DOMAIN s.dmeta /\ p \notin DOMAIN s.dmeta
  <2>1. Listing(s, p).kind = "file"
    BY <1>1 DEF EntriesMatch
  <2> QED
    BY <1>2, <2>1 DEF LinkedAt, Unused
<1>4. /\ DOMAIN t.mc = (DOMAIN s.mc \cup {q}) \ {p} /\ t.mc = [c \in DOMAIN t.mc |-> t.mc[c]]
      /\ t.mc[q] = md /\ \A c \in DOMAIN s.mc : c # p => t.mc[c] = s.mc[c]
  BY <1>3 DEF Put, Del, Restrict
<1>5. p \notin DOMAIN s.dc /\ q \notin DOMAIN s.dc /\ p # Root /\ q # Root
      /\ p \notin DOMAIN s.data /\ q \notin DOMAIN s.data
  BY <1>1, <1>3 DEF SoundAt, DirectorySound, DataSound, Paths
<1>6. \A d : EntriesOf(t, d) = EntriesOf(s, d)
  <2>1. \A d : d \notin {p, q} => (d \in DOMAIN t.mc <=> d \in DOMAIN s.mc)
                                  /\ (d \in DOMAIN s.mc => t.mc[d] = s.mc[d])
    BY <1>4
  <2>2. \A d : d \notin {p, q} => EntriesOf(t, d) = EntriesOf(s, d)
    BY <2>1 DEF EntriesOf
  <2>3. EntriesOf(t, p) = NoEntries /\ EntriesOf(s, p) = NoEntries
    BY <1>3, <1>4, <1>5 DEF EntriesOf
  <2>4. EntriesOf(t, q) = NoEntries /\ EntriesOf(s, q) = NoEntries
    BY <1>3, <1>4, <1>5 DEF EntriesOf
  <2> QED
    BY <2>2, <2>3, <2>4
<1>7. \A c : (Listed(t, c) <=> Listed(s, c)) /\ Listing(t, c) = Listing(s, c)
  BY <1>6 DEF Listed, Listing
<1>8. Shapes(t)
  BY <1>1, <1>4 DEF Shapes
<1>9. EntriesMatch(t)
  <2> SUFFICES ASSUME NEW c \in Paths, c \in DOMAIN t.mc, Listed(t, c)
               PROVE  /\ Listing(t, c).kind = t.mc[c].kind
                      /\ t.mc[c].kind = "file" => Listing(t, c).id = t.mc[c].id
    BY DEF EntriesMatch
  <2>1. c # q /\ c # p
    BY <1>4, <1>7
  <2> QED
    BY <1>1, <1>4, <1>7, <2>1 DEF EntriesMatch
<1>10. ASSUME NEW c
       PROVE  SoundAt(t, c)
  <2>1. CASE c = q
    <3>1. MetadataSound(t, c)
      BY <1>1, <1>4, <1>5, <2>1 DEF MetadataSound
    <3>2. MetadataRecorded(t, c)
      BY <1>4, <2>1 DEF MetadataRecorded
    <3>3. DirectorySound(t, c) /\ RecordSound(t, c) /\ DataSound(t, c)
      BY <1>3, <1>5, <2>1 DEF DirectorySound, RecordSound, DataSound
    <3> QED
      BY <3>1, <3>2, <3>3 DEF SoundAt
  <2>2. CASE c = p
    <3>1. MetadataSound(t, c) /\ MetadataRecorded(t, c)
      BY <1>4, <2>2 DEF MetadataSound, MetadataRecorded
    <3>2. DirectorySound(t, c) /\ RecordSound(t, c) /\ DataSound(t, c)
      BY <1>3, <1>5, <2>2 DEF DirectorySound, RecordSound, DataSound
    <3> QED
      BY <3>1, <3>2 DEF SoundAt
  <2>3. CASE c # p /\ c # q
    <3>1. /\ MetadataSound(s, c) /\ MetadataRecorded(s, c) /\ DirectorySound(s, c)
          /\ RecordSound(s, c) /\ DataSound(s, c)
      BY <1>1 DEF SoundAt
    <3>2. (c \in DOMAIN t.mc <=> c \in DOMAIN s.mc) /\ (c \in DOMAIN t.mc => t.mc[c] = s.mc[c])
      BY <1>4, <2>3
    <3>3. MetadataSound(t, c) /\ MetadataRecorded(t, c)
      BY <3>1, <3>2 DEF MetadataSound, MetadataRecorded
    <3>4. DirectorySound(t, c)
      BY <3>1, <3>2 DEF DirectorySound
    <3>5. RecordSound(t, c) /\ DataSound(t, c)
      BY <3>1, <3>2 DEF RecordSound, DataSound
    <3> QED
      BY <3>3, <3>4, <3>5 DEF SoundAt
  <2> QED
    BY <2>1, <2>2, <2>3
<1>11. Sound(t)
  BY <1>8, <1>9, <1>10, LocalIsSound
<1>12. OnePath(t, {p, q})
  <2>1. ASSUME NEW i, NEW c, At(t, i, c)
        PROVE  At(s, i, c) \/ (c = q /\ i = md.id)
    <3>1. \A j, r : EntryAt(t, j, r) <=> EntryAt(s, j, r)
      BY DEF EntryAt
    <3>2. CachedAt(t, i, c) => CachedAt(s, i, c) \/ (c = q /\ i = md.id)
      BY <1>4 DEF CachedAt
    <3> QED
      BY <2>1, <3>1, <3>2 DEF At
  <2>2. md.id \in Ids /\ At(s, md.id, p)
    BY DEF MetadataType, At, CachedAt
  <2>3. \A c \in AllPaths : At(s, md.id, c) => c = p
    BY <1>1, <2>2 DEF OnePath
  <2> QED
    BY <1>1, <2>1, <2>3 DEF OnePath
<1>13. Linked(t, {p, q})
  <2> SUFFICES ASSUME NEW c \in Paths \ {p, q}
               PROVE  LinkedAt(t, c)
    BY DEF Linked
  <2>1. LinkedAt(s, c)
    BY DEF Good, Linked
  <2>2. c \in DOMAIN t.mc <=> c \in DOMAIN s.mc
    BY <1>4
  <2> QED
    BY <1>7, <2>1, <2>2, LinkedSame
<1>14. Good(t, {p, q})
  BY <1>11, <1>12, <1>13 DEF Good
<1>15. ASSUME NEW c \in Paths \ {p, q}
       PROVE  SameNode(s, t, c)
  <2>1. \A e : Resolve(t, c, e) = Resolve(s, c, e)
    BY <1>4 DEF Resolve
  <2> QED
    BY <1>7, <2>1 DEF SameNode, Node
<1>16. Counted(s, {}) => Counted(t, {})
  BY <1>4 DEF Counted
<1>17. RootKnown(s) => RootKnown(t)
  BY <1>4, <1>5 DEF RootKnown
<1>18. SameEntries(s, t)
  BY <1>6 DEF SameEntries
<1> QED
  BY <1>3, <1>4, <1>14, <1>15, <1>16, <1>17, <1>18

\* A path at which nothing is left needs no exception.
LEMMA GoodWithout ==
  ASSUME NEW s, Calm, NEW p \in Paths, NEW q, Good(s, {p, q}), p \notin DOMAIN s.mc,
         p \notin DOMAIN s.dmeta, ~Listed(s, p), Parent(p) \in DOMAIN s.dc
  PROVE  Good(s, {q})
<1>1. Sound(s) /\ OnePath(s, {p, q}) /\ Linked(s, {p, q})
  BY DEF Good
<1>2. \A i : ~At(s, i, p)
  <2>1. EntriesOf(s, Parent(p)) = s.dc[Parent(p)].entries
    BY DEF EntriesOf
  <2> QED
    BY <2>1 DEF At, CachedAt, EntryAt, Listed
<1>3. OnePath(s, {q})
  BY <1>1, <1>2 DEF OnePath
<1>4. Linked(s, {q})
  BY <1>1 DEF Linked, LinkedAt, Unused
<1> QED
  BY <1>1, <1>3, <1>4 DEF Good

LEMMA OpenPathSame ==
  ASSUME NEW s, NEW t, SameEntries(s, t), NEW p, OpenPath(s, p)
  PROVE  OpenPath(t, p)
  BY SameListing DEF OpenPath, ListedDir

LEMMA MovedDoes ==
  ASSUME NEW m \in MetadataType, NEW md, md = Moved(m)
  PROVE  md \in MetadataType /\ md.kind = m.kind /\ md.id = m.id /\ md.dirty /\ md.count \in Counts
<1>1. md \in MetadataType
  <2> DEFINE a == [m EXCEPT !.dirty = TRUE]
             b == [a EXCEPT !.count = 0]
             c == [b EXCEPT !.expired = FALSE]
  <2>1. md = c
    BY DEF MetadataType, Moved
  <2>2. a \in MetadataType
    BY DEF MetadataType
  <2> HIDE DEF a
  <2>3. b \in MetadataType
    BY <2>2 DEF MetadataType
  <2> HIDE DEF b
  <2>4. c \in MetadataType
    BY <2>3 DEF MetadataType
  <2> QED
    BY <2>1, <2>4
<1>2. md.kind = m.kind /\ md.id = m.id
  BY DEF MetadataType, Moved
<1>3. md.dirty /\ md.count = 0
  BY DEF MetadataType, Moved
<1> QED
  BY <1>1, <1>2, <1>3 DEF Counts

LEMMA MoveOpenedDoes ==
  ASSUME NEW s, IsState(s), s.err = "ok", NEW p, NEW q, q \notin DOMAIN s.mc,
         NEW t, t = MoveOpened(s, p, q)
  PROVE  /\ IsState(t) /\ SameControl(s, t)
         /\ t.mc = Del(Put(s.mc, q, Moved(s.mc[p])), p) /\ t.dc = s.dc /\ t.dmeta = s.dmeta
         /\ t.fmeta = s.fmeta /\ t.data = s.data
<1> DEFINE m == Moved(s.mc[p])
<1>1. t = [[s EXCEPT !.mc = Put(@, q, m)] EXCEPT !.mc = Del(@, p)]
  BY DEF MoveOpened, EmplaceMetadata
<1> HIDE DEF m
<1>2. t = [s EXCEPT !.mc = Del(Put(s.mc, q, m), p)]
  BY <1>1 DEF IsState
<1>3. /\ IsState(t) /\ SameControl(s, t)
      /\ t.mc = Del(Put(s.mc, q, m), p) /\ t.dc = s.dc /\ t.dmeta = s.dmeta
      /\ t.fmeta = s.fmeta /\ t.data = s.data
  BY <1>2 DEF IsState, SameControl
<1> QED
  BY <1>3 DEF m

LEMMA OpenParentsDoes ==
  ASSUME NEW s, NEW X, IsState(s), Good(s, X), s.err = "ok", Calm, s.left = 0, RootKnown(s),
         NEW p, NEW q, OpenPath(s, Parent(p)), OpenPath(s, Parent(q)),
         Parent(p) \notin X, Parent(q) \notin X, NEW t, t = OpenParents(s, p, q)
  PROVE  /\ Opened(s, t, X, {Parent(p), Parent(q)}) /\ t.err = "ok"
         /\ Parent(p) \in DOMAIN t.dc /\ Parent(q) \in DOMAIN t.dc
<1> DEFINE u == OpenDirectory(s, Parent(p))
<1>1. Opened(s, u, X, {Parent(p)}) /\ u.err = "ok" /\ Parent(p) \in DOMAIN u.dc
  BY OpenDirectoryDoes
<1>2. t = IF Parent(p) = Parent(q) THEN u ELSE OpenDirectory(u, Parent(q))
  BY DEF OpenParents
<1> HIDE DEF u
<1>3. CASE Parent(p) = Parent(q)
  <2>1. {Parent(p)} = {Parent(p), Parent(q)} /\ t = u
    BY <1>2, <1>3
  <2> QED
    BY <1>1, <1>3, <2>1
<1>4. CASE Parent(p) # Parent(q)
  <2>1. IsState(u) /\ Good(u, X) /\ OpenPath(u, Parent(q)) /\ u.left = 0 /\ RootKnown(u)
    BY <1>1, InvisibleListing DEF Opened, Invisible
  <2>2. t = OpenDirectory(u, Parent(q))
    BY <1>2, <1>4
  <2>3. Opened(u, t, X, {Parent(q)}) /\ t.err = "ok" /\ Parent(q) \in DOMAIN t.dc
    BY <1>1, <2>1, <2>2, OpenDirectoryDoes
  <2>4. Opened(s, t, X, {Parent(p)} \cup {Parent(q)})
    BY <1>1, <2>3, OpenedTwice
  <2>5. {Parent(p)} \cup {Parent(q)} = {Parent(p), Parent(q)}
    OBVIOUS
  <2>6. Parent(p) \in DOMAIN t.dc
    BY <1>1, <1>4, <2>3 DEF Opened, OnlyAt
  <2> QED
    BY <2>3, <2>4, <2>5, <2>6
<1> QED
  BY <1>3, <1>4

\* directory::move_entry of a file whose metadata has moved.
LEMMA MoveEntryDoes ==
  ASSUME NEW s, IsState(s), s.err = "ok", Calm, NEW p \in Paths, NEW q \in Paths, p # q,
         Good(s, {p, q}), Listed(s, p), ~Listed(s, q), Listing(s, p).kind = "file",
         p \notin DOMAIN s.mc, q \in DOMAIN s.mc, s.mc[q].kind = "file",
         s.mc[q].id = Listing(s, p).id, p \notin DOMAIN s.dmeta, q \notin DOMAIN s.dmeta,
         Parent(p) \in DOMAIN s.dc, Parent(q) \in DOMAIN s.dc,
         NEW t, t = MoveEntry(s, p, q)
  PROVE  /\ IsState(t) /\ SameControl(s, t) /\ Good(t, {})
         /\ Counted(s, {}) => Counted(t, {})
         /\ RootKnown(s) => RootKnown(t)
         /\ \E w : /\ ~Listed(w, p) /\ ~Listed(w, q) /\ \A c \in Paths \ {p} : SameNode(s, w, c)
                   /\ \A c \in Paths \ {q} : SameNode(w, t, c)
                   /\ Listed(t, q) /\ Node(t, q) = [kind |-> "file", id |-> s.mc[q].id]
<1> DEFINE w == RemoveEntry(s, p)
           x == Entry(s, p)
           e == Put(w.dc[Parent(q)].entries, Name(q), x)
           m == [entries |-> e, dirty |-> TRUE]
<1>1. /\ HasEntry(s, p) /\ ~HasEntry(s, q) /\ x = Listing(s, p)
  BY EntryIsListed
<1>2. x \in EntryType /\ x.id = s.mc[q].id /\ x.kind = s.mc[q].kind
  <2>1. Listing(s, p) \in EntryType
    BY ListingType DEF Good, Sound
  <2> QED
    BY <1>1, <2>1
<1>3. Invisible(s, s, {p, q})
  BY DEF Invisible, SameEntries, SameNode
<1>4. /\ IsState(w) /\ SameControl(s, w) /\ Good(w, {p, q} \cup {p}) /\ ~Listed(w, p)
      /\ w.mc = s.mc /\ w.dmeta = s.dmeta /\ w.fmeta = s.fmeta /\ w.data = s.data
      /\ DOMAIN w.dc = DOMAIN s.dc
      /\ Counted(s, {}) => Counted(w, {})
      /\ RootKnown(s) => RootKnown(w)
      /\ \A c \in Paths \ {p} : SameNode(s, w, c)
  <2>1. w = RemoveEntry(s, p) /\ Listed(s, p) /\ p \in Paths /\ IsState(s) /\ s.err = "ok"
        /\ Parent(p) \in DOMAIN s.dc
    OBVIOUS
  <2> HIDE DEF w
  <2> QED
    BY ONLY <1>3, <2>1, EntryGone
<1>5. ~Listed(w, q) /\ ~HasEntry(w, q)
  <2>1. SameNode(s, w, q)
    BY <1>4
  <2>2. ~Listed(w, q)
    BY <2>1 DEF SameNode
  <2>3. Parent(q) \in DOMAIN w.dc
    BY <1>4
  <2> HIDE DEF w
  <2> QED
    BY <2>2, <2>3, EntryIsListed
<1>6. Good(w, {q})
  <2>1. {p, q} \cup {p} = {p, q}
    OBVIOUS
  <2>2. /\ Calm /\ p \in Paths /\ Good(w, {p, q}) /\ p \notin DOMAIN w.mc
        /\ p \notin DOMAIN w.dmeta /\ ~Listed(w, p) /\ Parent(p) \in DOMAIN w.dc
    BY <1>4, <2>1
  <2> HIDE DEF w
  <2> QED
    BY ONLY <2>2, GoodWithout
<1>7. t = [w EXCEPT !.dc = [w.dc EXCEPT ![Parent(q)] = m]]
  <2>1. t = [w EXCEPT !.dc[Parent(q)] =
              [entries |-> Emplace(@.entries, Name(q), Entry(s, p)), dirty |-> TRUE]]
    BY <1>1 DEF MoveEntry
  <2>2. Emplace(w.dc[Parent(q)].entries, Name(q), Entry(s, p)) = e
    BY <1>5 DEF Emplace, HasEntry
  <2> HIDE DEF w, e
  <2> QED
    BY <2>1, <2>2
<1>8. m = [entries |-> e, dirty |-> TRUE] /\ e = Put(w.dc[Parent(q)].entries, Name(q), x)
  OBVIOUS
<1> HIDE DEF w, x, e, m
<1>9. /\ IsState(t) /\ SameControl(w, t)
      /\ t.mc = w.mc /\ t.dmeta = w.dmeta /\ t.fmeta = w.fmeta /\ t.data = w.data
      /\ t.dc = [w.dc EXCEPT ![Parent(q)] = m]
  BY <1>4, <1>7 DEF IsState, SameControl
<1>10. EntriesChanged(w, t, Parent(q), Put(w.dc[Parent(q)].entries, Name(q), x))
  BY <1>4, <1>8, <1>9 DEF EntriesChanged
<1>11. /\ Good(t, {}) /\ Listed(t, q)
       /\ Node(t, q) = [kind |-> w.mc[q].kind, id |-> w.mc[q].id]
       /\ \A c \in Paths \ {q} : SameNode(w, t, c)
  <2>1. /\ q \in Paths /\ q \in DOMAIN w.mc /\ Parent(q) \in DOMAIN w.dc
        /\ q \notin DOMAIN w.dmeta /\ x.id = w.mc[q].id /\ x.kind = w.mc[q].kind
    BY <1>2, <1>4
  <2> QED
    BY ONLY <1>2, <1>5, <1>6, <1>10, <2>1, EntryAdded
<1>12. /\ Counted(w, {}) => Counted(t, {})
       /\ RootKnown(w) => RootKnown(t)
  BY <1>10, EntriesChangedCounts
<1>13. Node(t, q) = [kind |-> "file", id |-> s.mc[q].id]
  BY <1>4, <1>11
<1>14. SameControl(s, t)
  BY <1>4, <1>9 DEF SameControl
<1> QED
  BY <1>4, <1>5, <1>9, <1>11, <1>12, <1>13, <1>14

\* The tree t is s with what p names under the name q.
Renamed(s, t, p, q) ==
  /\ Reachable(t) = (Reachable(s) \ {p}) \cup {q}
  /\ Tree(t) = [r \in (Reachable(s) \ {p}) \cup {q} |-> IF r = q THEN Node(s, p) ELSE Node(s, r)]

LEMMA TreeMoves ==
  ASSUME NEW s, NEW p \in Reachable(s), Listing(s, p).kind = "file",
         NEW q \in Paths, p # q, ~Listed(s, q), IsDirIn(s, Parent(q)),
         NEW w, ~Listed(w, p), ~Listed(w, q), \A c \in Paths \ {p, q} : SameNode(s, w, c),
         NEW t, Listed(t, q), \A c \in Paths \ {q} : SameNode(w, t, c), Node(t, q) = Node(s, p)
  PROVE  Renamed(s, t, p, q)
<1>1. p \in Paths /\ Listed(s, p) /\ IsDirIn(s, Parent(p))
  <2>1. p \in Paths
    BY DEF Reachable
  <2> QED
    BY <2>1, ReachableStep
<1>2. \A c \in Paths \ {p} : SameNode(w, s, c)
  BY DEF SameNode
<1>3. OneMore(w, s, p)
  BY <1>1, <1>2, OneLess
<1>4. /\ p \notin Reachable(w) /\ Reachable(s) = Reachable(w) \cup {p}
  BY <1>3, OneMoreTree
<1>5. IsDirIn(w, Parent(q))
  <2>1. CASE Parent(q) = Root
    BY <2>1 DEF IsDirIn
  <2>2. CASE Parent(q) # Root
    <3>1. Parent(q) \in Reachable(s) /\ Listing(s, Parent(q)).kind = "dir"
      BY <2>2 DEF IsDirIn
    <3>2. Parent(q) # p
      BY <3>1
    <3>3. Parent(q) \in Reachable(w) /\ Parent(q) \in Paths
      BY <1>4, <3>1, <3>2 DEF Reachable
    <3>4. SameNode(w, s, Parent(q)) /\ Listed(w, Parent(q))
      BY <1>2, <3>2, <3>3, ReachableStep
    <3> QED
      BY <3>1, <3>3, <3>4, SameNodeKind DEF IsDirIn
  <2> QED
    BY <2>1, <2>2
<1>6. OneMore(w, t, q)
  <2>1. Listing(t, q).kind = "file"
    BY DEF Node
  <2> QED
    BY <1>5, <2>1 DEF OneMore
<1>7. /\ Reachable(t) = Reachable(w) \cup {q}
      /\ Tree(t) = [r \in Reachable(w) \cup {q} |-> IF r = q THEN Node(t, q) ELSE Node(w, r)]
  BY <1>6, OneMoreTree
<1>8. Reachable(w) = Reachable(s) \ {p}
  BY <1>4
<1>9. \A r \in Reachable(w) : Node(w, r) = Node(s, r)
  <2> SUFFICES ASSUME NEW r \in Reachable(w)
               PROVE  Node(w, r) = Node(s, r)
    OBVIOUS
  <2>1. r \in Paths /\ r # p
    BY <1>4 DEF Reachable
  <2>2. Listed(w, r)
    BY <2>1, ReachableStep
  <2> QED
    BY <1>2, <2>1, <2>2 DEF SameNode
<1> QED
  BY <1>7, <1>8, <1>9 DEF Renamed

LEMMA RenameDoes ==
  ASSUME NEW s, Begins(s), Calm, NEW p \in Reachable(s), Listing(s, p).kind = "file",
         NEW q \in Paths, p # q, q \notin Reachable(s), IsDirIn(s, Parent(q)),
         NEW t, t = RenamePath(s, p, q)
  PROVE  Settled(s, t) /\ t.undefined = s.undefined /\ t.err = "ok" /\ Renamed(s, t, p, q)
<1> DEFINE a == FindEntry(s, p)
           d == OpenDirectory(a, Parent(q))
           f == OpenFile(d, p)
           m == MoveOpened(f, p, q)
           v == OpenParents(m, p, q)
<1>1. p \in Paths /\ Listed(s, p) /\ IsDirIn(s, Parent(p)) /\ ~Listed(s, q)
  <2>1. p \in Paths
    BY DEF Reachable
  <2> QED
    BY <2>1, ReachableStep
<1>2. OpenPath(s, Parent(p)) /\ OpenPath(s, Parent(q))
  BY <1>1, IsDirOpen
<1>3. IsState(s) /\ Good(s, {}) /\ s.err = "ok" /\ s.left = 0 /\ RootKnown(s)
  BY CalmMeans DEF Begins
<1>4. Opened(s, a, {}, {Parent(p)}) /\ a.err = "ok" /\ Parent(p) \in DOMAIN a.dc
  BY <1>1, <1>2, <1>3, FindEntryDoes
<1>5. t = RenameEntry(a, p, q)
  BY DEF RenamePath
<1> HIDE DEF a
<1>6. /\ IsState(a) /\ Good(a, {}) /\ a.left = 0 /\ RootKnown(a) /\ Invisible(s, a, {})
      /\ a.undefined = s.undefined
  BY <1>3, <1>4 DEF Opened, Invisible
<1>7. Opened(a, d, {}, {Parent(q)}) /\ d.err = "ok" /\ Parent(q) \in DOMAIN d.dc
  <2>1. OpenPath(a, Parent(q)) /\ Parent(q) \notin {}
    BY <1>2, <1>6, InvisibleListing
  <2> QED
    BY <1>4, <1>6, <2>1, OpenDirectoryDoes
<1>8. Entry(a, p).kind = "file"
  BY <1>1, <1>4, <1>6, EntryIsListed, InvisibleListing
<1>9. d = OpenDirectory(a, Parent(q))
  OBVIOUS
<1> HIDE DEF d
<1>10. /\ IsState(d) /\ Good(d, {}) /\ d.left = 0 /\ RootKnown(d) /\ Invisible(s, d, {})
       /\ d.undefined = s.undefined
  BY <1>6, <1>7, InvisibleTwice DEF Opened, Invisible
<1>11. ReplaceTarget(d, q) = d
  <2>1. ~HasEntry(d, q)
    BY <1>1, <1>7, <1>10, EntryIsListed, InvisibleListing
  <2> QED
    BY <2>1 DEF ReplaceTarget
<1>12. t = MoveEntry(v, p, q)
  <2>1. Move(d, p, q, "file") = MoveOpened(f, p, q)
    BY <1>7 DEF Move, MoveFile
  <2>2. t = MoveEntry(OpenParents(Move(ReplaceTarget(d, q), p, q, Entry(a, p).kind), p, q), p, q)
    BY <1>4, <1>5, <1>7, <1>9 DEF RenameEntry
  <2> QED
    BY <1>8, <1>11, <2>1, <2>2
<1>13. Opened(d, f, {}, {p, Parent(p)}) /\ f.err = "ok" /\ p \in DOMAIN f.mc /\ f.mc[p].kind = "file"
  <2>1. OpenPath(d, Parent(p)) /\ Listed(d, p) /\ Listing(d, p).kind = "file"
    BY <1>1, <1>2, <1>10, InvisibleListing
  <2>2. p \notin {} /\ Parent(p) \notin {}
    OBVIOUS
  <2> QED
    BY <1>1, <1>7, <1>10, <2>1, <2>2, OpenFileDoes
<1> HIDE DEF f
<1>14. /\ IsState(f) /\ Good(f, {}) /\ f.left = 0 /\ RootKnown(f) /\ Invisible(s, f, {})
       /\ f.undefined = s.undefined
       /\ Counted(s, {}) => Counted(f, {})
  BY <1>3, <1>4, <1>6, <1>7, <1>10, <1>13, InvisibleTwice DEF Opened, Invisible
<1>15. /\ Listed(f, p) /\ ~Listed(f, q) /\ Listing(f, p) = Listing(s, p)
       /\ OpenPath(f, Parent(p)) /\ OpenPath(f, Parent(q))
  BY <1>1, <1>2, <1>14, InvisibleListing
<1>16. /\ f.mc[p] \in MetadataType /\ f.mc[p].id = Listing(s, p).id /\ q \notin DOMAIN f.mc
  <2>1. f.mc[p] \in MetadataType /\ EntriesMatch(f) /\ LinkedAt(f, q)
    BY <1>13, <1>14 DEF Good, Sound, MetadataOK, Linked
  <2> QED
    BY <1>1, <1>13, <1>15, <2>1 DEF EntriesMatch, LinkedAt, Unused
<1> DEFINE md == Moved(f.mc[p])
<1>17. md \in MetadataType /\ md.kind = "file" /\ md.id = f.mc[p].id /\ md.dirty /\ md.count \in Counts
  BY <1>13, <1>16, MovedDoes
<1>18. /\ IsState(m) /\ SameControl(f, m)
       /\ m.mc = Del(Put(f.mc, q, md), p) /\ m.dc = f.dc /\ m.dmeta = f.dmeta
       /\ m.fmeta = f.fmeta /\ m.data = f.data
  BY <1>13, <1>14, <1>16, MoveOpenedDoes
<1> HIDE DEF md, m
<1>19. /\ Good(m, {p, q}) /\ SameEntries(f, m)
       /\ \A c \in Paths \ {p, q} : SameNode(f, m, c)
       /\ p \notin DOMAIN m.mc /\ q \in DOMAIN m.mc /\ m.mc[q] = md
       /\ p \notin DOMAIN m.dmeta /\ q \notin DOMAIN m.dmeta
       /\ Counted(f, {}) => Counted(m, {})
       /\ RootKnown(f) => RootKnown(m)
  <2>1. Calm /\ p \in Paths /\ q \in Paths /\ p # q
    BY <1>1
  <2> QED
    BY ONLY <1>13, <1>14, <1>15, <1>17, <1>18, <2>1, FileMoved
<1>20. Parent(p) \notin {p, q} /\ Parent(q) \notin {p, q}
  <2>1. OpenPath(s, q) => FALSE
    BY <1>1 DEF OpenPath, ListedDir, Paths
  <2>2. OpenPath(s, p) => FALSE
    BY <1>1 DEF OpenPath, ListedDir, Paths
  <2> QED
    BY <1>2, <2>1, <2>2
<1>21. /\ Opened(m, v, {p, q}, {Parent(p), Parent(q)}) /\ v.err = "ok"
       /\ Parent(p) \in DOMAIN v.dc /\ Parent(q) \in DOMAIN v.dc
  <2>1. /\ OpenPath(m, Parent(p)) /\ OpenPath(m, Parent(q)) /\ m.err = "ok" /\ m.left = 0
        /\ RootKnown(m)
    BY <1>13, <1>14, <1>15, <1>18, <1>19, OpenPathSame DEF SameControl
  <2> QED
    BY <1>18, <1>19, <1>20, <2>1, OpenParentsDoes
<1> HIDE DEF v
<1>22. /\ IsState(v) /\ Good(v, {p, q}) /\ v.undefined = m.undefined /\ Invisible(m, v, {p, q})
       /\ OnlyAt(m, v, {Parent(p), Parent(q)})
       /\ RootKnown(m) => RootKnown(v)
       /\ Counted(m, {}) => Counted(v, {})
  <2>1. m.left = 0
    BY <1>14, <1>18 DEF SameControl
  <2> QED
    BY <1>21, <2>1 DEF Opened, Invisible
<1>23. Listed(v, p) /\ ~Listed(v, q) /\ Listing(v, p) = Listing(s, p)
  <2>1. /\ Listed(m, p) <=> Listed(f, p)
        /\ Listed(m, q) <=> Listed(f, q)
        /\ Listing(m, p) = Listing(f, p)
    BY <1>1, <1>19, SameListing
  <2> QED
    BY <1>1, <1>15, <1>22, <2>1, InvisibleListing
<1>24. /\ p \notin DOMAIN v.mc /\ q \in DOMAIN v.mc /\ v.mc[q].kind = "file"
       /\ v.mc[q].id = Listing(v, p).id /\ p \notin DOMAIN v.dmeta /\ q \notin DOMAIN v.dmeta
  <2>1. p \notin {Parent(p), Parent(q)} /\ q \notin {Parent(p), Parent(q)}
    BY <1>20
  <2> QED
    BY <1>16, <1>17, <1>19, <1>22, <1>23, <2>1 DEF OnlyAt
<1>25. /\ IsState(t) /\ SameControl(v, t) /\ Good(t, {})
       /\ Counted(v, {}) => Counted(t, {})
       /\ RootKnown(v) => RootKnown(t)
       /\ \E w : /\ ~Listed(w, p) /\ ~Listed(w, q) /\ \A c \in Paths \ {p} : SameNode(v, w, c)
                 /\ \A c \in Paths \ {q} : SameNode(w, t, c)
                 /\ Listed(t, q) /\ Node(t, q) = [kind |-> "file", id |-> v.mc[q].id]
  <2>1. Calm /\ p \in Paths /\ q \in Paths /\ p # q /\ Listing(v, p).kind = "file"
    BY <1>1, <1>23
  <2> QED
    BY ONLY <1>12, <1>21, <1>22, <1>23, <1>24, <2>1, MoveEntryDoes
<1>26. PICK w : /\ ~Listed(w, p) /\ ~Listed(w, q) /\ \A c \in Paths \ {p} : SameNode(v, w, c)
                /\ \A c \in Paths \ {q} : SameNode(w, t, c)
                /\ Listed(t, q) /\ Node(t, q) = [kind |-> "file", id |-> v.mc[q].id]
  BY <1>25
<1>27. \A c \in Paths \ {p, q} : SameNode(s, w, c)
  <2>1. \A c \in Paths \ {p, q} :
          SameNode(s, f, c) /\ SameNode(f, m, c) /\ SameNode(m, v, c) /\ SameNode(v, w, c)
    BY <1>14, <1>19, <1>22, <1>26 DEF Invisible
  <2> QED
    BY <2>1 DEF SameNode
<1>28. Node(t, q) = Node(s, p)
  <2>1. Node(s, p) = Node(f, p)
    BY <1>1, <1>14 DEF Invisible, SameNode
  <2>2. Node(f, p) = [kind |-> "file", id |-> f.mc[p].id]
    BY <1>13, <1>15 DEF Node, Resolve
  <2>3. v.mc[q].id = f.mc[p].id
    BY <1>16, <1>23, <1>24
  <2> QED
    BY <1>26, <2>1, <2>2, <2>3
<1>29. Renamed(s, t, p, q)
  BY <1>1, <1>26, <1>27, <1>28, TreeMoves
<1>30. Settled(s, t)
  BY <1>14, <1>19, <1>22, <1>25 DEF Settled
<1>31. t.undefined = s.undefined /\ t.err = "ok"
  BY <1>14, <1>18, <1>21, <1>22, <1>25 DEF SameControl
<1> QED
  BY <1>29, <1>30, <1>31

-----------------------------------------------------------------------------
(* What the invariant says between handlers.                               *)

LEMMA StateIs ==
  /\ IsState(State) /\ State.err = "ok" /\ State.left = 0
  /\ State.mc = mc /\ State.dc = dc /\ State.dmeta = dmeta /\ State.fmeta = fmeta
  /\ State.data = data /\ State.undefined = undefined
  BY DEF State, IsState

\* A path of the tree has the identity of an object that is kept there, or none.
LEMMA NodeIsAt ==
  ASSUME NEW s, Good(s, {}), NEW p \in Reachable(s)
  PROVE  /\ Node(s, p).id # Lost => Node(s, p).id \in Ids /\ At(s, Node(s, p).id, p)
         /\ Calm => Node(s, p).id # Lost
<1>1. p \in Paths /\ Listed(s, p)
  <2>1. p \in Paths
    BY DEF Reachable
  <2> QED
    BY <2>1, ReachableStep
<1>2. Listing(s, p) \in EntryType
  BY <1>1, ListingType DEF Good, Sound
<1>3. Node(s, p).id = Resolve(s, p, Listing(s, p))
  BY DEF Node
<1>4. MetadataOK(s) /\ RecordsOK(s)
  BY DEF Good, Sound
<1>5. CASE p \in DOMAIN s.mc
  <2>1. s.mc[p] \in MetadataType
    BY <1>4, <1>5 DEF MetadataOK
  <2>2. s.mc[p].id \in Ids /\ Node(s, p).id = s.mc[p].id
    BY <1>3, <1>5, <2>1 DEF MetadataType, Resolve
  <2> QED
    BY <1>5, <2>2, IdsAssumption DEF At, CachedAt
<1>6. CASE p \notin DOMAIN s.mc /\ Listing(s, p).kind = "file"
  <2>1. CASE Listing(s, p).id \in s.fmeta
    <3>1. Node(s, p).id = Listing(s, p).id /\ Listing(s, p).id \in Ids
      BY <1>2, <1>3, <1>6, <2>1 DEF Resolve, EntryType
    <3>2. EntryAt(s, Listing(s, p).id, p)
      BY <1>1, ListingType DEF Good, Sound
    <3> QED
      BY <1>1, <3>1, <3>2, IdsAssumption DEF At
  <2>2. CASE Listing(s, p).id \notin s.fmeta
    <3>1. Node(s, p).id = Lost
      BY <1>3, <1>6, <2>2 DEF Resolve
    <3>2. ~Calm
      BY <1>1, <1>6, <2>2 DEF Good, Linked, LinkedAt
    <3> QED
      BY <3>1, <3>2
  <2> QED
    BY <2>1, <2>2
<1>7. CASE p \notin DOMAIN s.mc /\ Listing(s, p).kind = "dir"
  <2>1. CASE p \in DOMAIN s.dmeta
    <3>1. s.dmeta[p] \in RecordType
      BY <1>4, <2>1 DEF RecordsOK
    <3>2. s.dmeta[p].id \in Ids /\ Node(s, p).id = s.dmeta[p].id
      BY <1>3, <1>7, <2>1, <3>1 DEF RecordType, Resolve
    <3> QED
      BY <2>1, <3>2, IdsAssumption DEF At, CachedAt
  <2>2. CASE p \notin DOMAIN s.dmeta
    <3>1. Node(s, p).id = Lost
      BY <1>3, <1>7, <2>2 DEF Resolve
    <3>2. ~Calm
      BY <1>1, <1>7, <2>2 DEF Good, Linked, LinkedAt
    <3> QED
      BY <3>1, <3>2
  <2> QED
    BY <2>1, <2>2
<1> QED
  BY <1>2, <1>5, <1>6, <1>7 DEF EntryType

\* An attempt at a handler begins in what the caches and the backend hold.
LEMMA AttemptBegins ==
  ASSUME IInv, mounted, NEW s \in Attempts
  PROVE  /\ Begins(s) /\ SameStores(State, s) /\ s.undefined = undefined
         /\ Counted(State, {}) => Counted(s, {})
<1>1. PICK k \in (IF "fail" \in Ops THEN 0 .. 6 ELSE {0}) : s = [State EXCEPT !.left = k]
  BY DEF Attempts
<1>2. /\ s.mc = mc /\ s.dc = dc /\ s.dmeta = dmeta /\ s.fmeta = fmeta /\ s.data = data
      /\ s.undefined = undefined /\ s.err = "ok" /\ s.left = k
      /\ s = [mc |-> s.mc, dc |-> s.dc, dmeta |-> s.dmeta, fmeta |-> s.fmeta, data |-> s.data,
              undefined |-> s.undefined, err |-> s.err, left |-> s.left]
  BY <1>1 DEF State
<1>3. IsState(s) /\ (NoFailures => s.left = 0)
  BY <1>1, <1>2 DEF IsState, NoFailures
<1>4. SameStores(State, s)
  BY <1>2, StateIs DEF SameStores
<1>5. Good(s, {})
  BY <1>4, StoresDecide DEF IInv
<1>6. Calm => RootKnown(s)
  BY <1>2 DEF IInv, RootKnown
<1>7. Counted(State, {}) => Counted(s, {})
  BY <1>4, StateIs DEF Counted, SameStores
<1> QED
  BY <1>2, <1>3, <1>4, <1>5, <1>6, <1>7 DEF Begins

\* What the kernel sees of the tree is what a handler finds.
LEMMA ViewIs ==
  ASSUME NEW s, SameStores(State, s)
  PROVE  /\ Tree(s) = View /\ Reachable(s) = DOMAIN View
         /\ \A p \in Reachable(s) : View[p] = Node(s, p) /\ View[p].kind = Listing(s, p).kind
         /\ \A p \in Paths, kind \in {"file", "dir"} :
              Exists(p, kind) <=> p \in Reachable(s) /\ Listing(s, p).kind = kind
         /\ \A p \in DirPaths : IsDirectory(p) <=> IsDirIn(s, p)
         /\ \A p \in Paths : IsEmpty(p) <=> \A q \in Reachable(s) : Parent(q) # p
<1>1. \A p \in Paths : SameNode(State, s, p)
  BY StoresDecide
<1>2. Tree(State) = Tree(s)
  BY <1>1, SameTree
<1>3. Tree(s) = View
  BY <1>2 DEF View
<1>4. DOMAIN View = Reachable(s) /\ \A p \in Reachable(s) : View[p] = Node(s, p)
  BY <1>3 DEF Tree
<1>5. \A p \in Reachable(s) : View[p].kind = Listing(s, p).kind
  BY <1>4 DEF Node
<1>6. \A p \in Paths, kind \in {"file", "dir"} :
        Exists(p, kind) <=> p \in Reachable(s) /\ Listing(s, p).kind = kind
  BY <1>4, <1>5 DEF Exists
<1>7. \A p : Exists(p, "dir") <=> p \in Reachable(s) /\ Listing(s, p).kind = "dir"
  BY <1>4, <1>5 DEF Exists
<1>8. \A p \in DirPaths : IsDirectory(p) <=> IsDirIn(s, p)
  BY <1>7 DEF IsDirectory, IsDirIn
<1>9. \A p \in Paths : IsEmpty(p) <=> \A q \in Reachable(s) : Parent(q) # p
  BY <1>4 DEF IsEmpty
<1> QED
  BY <1>3, <1>4, <1>5, <1>6, <1>8, <1>9

\* generate_uuid returns what nothing has.
LEMMA FreshIds ==
  ASSUME IInv, NEW id \in Ids \ UsedIds, NEW s, SameStores(State, s)
  PROVE  Fresh(s, id)
<1>1. /\ s.mc = mc /\ s.dc = dc /\ s.dmeta = dmeta /\ s.fmeta = fmeta /\ s.data = data
  BY StateIs DEF SameStores
<1>2. /\ id \notin fmeta
      /\ \A p \in DOMAIN mc : mc[p].id # id
      /\ \A p \in DOMAIN dmeta : dmeta[p].id # id
      /\ \A p \in DOMAIN dc : \A n \in DOMAIN dc[p].entries : dc[p].entries[n].id # id
      /\ \A p \in DOMAIN data : \A n \in DOMAIN data[p] : data[p][n].id # id
  BY DEF UsedIds
<1>3. ASSUME NEW q \in AllPaths
      PROVE  ~At(s, id, q)
  <2>1. ~CachedAt(s, id, q)
    BY <1>1, <1>2 DEF CachedAt
  <2>2. ~EntryAt(s, id, q)
    BY <1>1, <1>2 DEF EntryAt
  <2> QED
    BY <2>1, <2>2 DEF At
<1> QED
  BY <1>1, <1>2, <1>3 DEF Fresh

\* A handler that settles keeps the invariant.
LEMMA SettledKeeps ==
  ASSUME IInv, mounted, NEW s \in Attempts, NEW t, Settled(s, t), t.undefined \in BOOLEAN,
         Become(t), UNCHANGED mounted
  PROVE  IInv' /\ View' = Tree(t)
<1>1. /\ Begins(s) /\ (Counted(State, {}) => Counted(s, {}))
  BY AttemptBegins
<1>2. SameStores(t, State')
  BY StateIs DEF SameStores, Become, State
<1>3. Good(State', {}) /\ \A p \in Paths : SameNode(t, State', p)
  BY <1>2, StoresDecide DEF Settled
<1>4. Tree(State') = Tree(t)
  BY <1>3, SameTree
<1>5. View' = Tree(t)
  BY <1>4 DEF View
<1>6. NoFailures => Counted(State', {})
  <2>1. NoFailures => Counted(t, {})
    BY <1>1 DEF IInv, Settled
  <2> QED
    BY <1>2, <2>1 DEF Counted, SameStores
<1>7. Calm => Root \in DOMAIN mc' \/ Root \in DOMAIN dmeta'
  <2>1. Calm => RootKnown(t)
    BY <1>1 DEF Begins, Settled
  <2> QED
    BY <2>1 DEF RootKnown, Become
<1>8. mounted' \in BOOLEAN /\ undefined' \in BOOLEAN /\ mounted'
  BY DEF IInv, Become
<1> QED
  BY <1>3, <1>5, <1>6, <1>7, <1>8 DEF IInv

-----------------------------------------------------------------------------
(* The steps of the handlers, and what a user sees of them.                *)

\* The tree with a new object at p, without p, and with p renamed.
Grows(p, kind) ==
  /\ p \in Paths \ DOMAIN View /\ IsDirectory(Parent(p))
  /\ \E id \in Ids \ {View[q].id : q \in DOMAIN View} :
       View' = [q \in DOMAIN View \cup {p} |->
                  IF q = p THEN [kind |-> kind, id |-> id] ELSE View[q]]

Shrinks(p) ==
  /\ p \in DOMAIN View /\ IsEmpty(p)
  /\ View' = [q \in DOMAIN View \ {p} |-> View[q]]

Moves(p, q) ==
  /\ p \in DOMAIN View /\ View[p].kind = "file" /\ p # q
  /\ q \in Paths \ DOMAIN View /\ IsDirectory(Parent(q)) /\ ~IsPrefix(p, q)
  /\ \A r \in DOMAIN View : IsPrefix(p, r) => r = p
  /\ View' = [r \in (DOMAIN View \ {p}) \cup {q} |-> IF r = q THEN View[p] ELSE View[r]]

\* Nothing of a tree is below a file or an empty directory.
LEMMA OneMoreIsLeaf ==
  ASSUME NEW s, NEW t, NEW p, OneMore(s, t, p)
  PROVE  /\ p \in Reachable(t) /\ \A q \in Reachable(t) : Parent(q) # p
         /\ Tree(s) = [q \in Reachable(t) \ {p} |-> Node(t, q)]
<1>1. /\ p \notin Reachable(s) /\ Reachable(t) = Reachable(s) \cup {p} /\ p \in Paths
      /\ Tree(t) = [q \in Reachable(s) \cup {p} |-> IF q = p THEN Node(t, p) ELSE Node(s, q)]
  BY OneMoreTree DEF OneMore
<1>2. ASSUME NEW q \in Reachable(t)
      PROVE  Parent(q) # p
  <2>1. q \in Paths
    BY DEF Reachable
  <2>2. CASE q = p
    BY <1>1, <2>2, PrefixSelf
  <2>3. CASE q # p
    <3>1. q \in Reachable(s)
      BY <1>1, <2>3
    <3>2. IsDirIn(s, Parent(q))
      BY <2>1, <3>1, ReachableStep
    <3>3. p # Root
      BY <1>1 DEF Paths
    <3> QED
      BY <1>1, <3>2, <3>3 DEF IsDirIn
  <2> QED
    BY <2>2, <2>3
<1>3. ASSUME NEW q \in Reachable(s)
      PROVE  Node(s, q) = Node(t, q)
  <2>1. Tree(t)[q] = Node(t, q)
    BY <1>1 DEF Tree
  <2>2. Tree(t)[q] = Node(s, q)
    BY <1>1
  <2> QED
    BY <2>1, <2>2
<1>4. Reachable(s) = Reachable(t) \ {p}
  BY <1>1
<1>5. Tree(s) = [q \in Reachable(s) |-> Node(s, q)]
  BY DEF Tree
<1> QED
  BY <1>1, <1>2, <1>3, <1>4, <1>5

LEMMA LookupStep ==
  ASSUME IInv, NEW p \in Paths, Lookup(p)
  PROVE  IInv' /\ View' = View /\ (Calm => answer'.got = answer'.wanted)
<1>1. mounted
  BY DEF Lookup, Running
<1>2. PICK s \in Attempts : Answer(GetAttr(s, p), IF p \in DOMAIN View THEN "ok" ELSE "ENOENT")
  BY DEF Lookup
<1> DEFINE t == GetAttr(s, p)
<1>3. /\ Become(t) /\ UNCHANGED mounted
      /\ answer' = [got |-> t.err, wanted |-> IF p \in DOMAIN View THEN "ok" ELSE "ENOENT"]
  BY <1>2 DEF Answer
<1>4. Begins(s) /\ SameStores(State, s) /\ s.undefined = undefined
  BY <1>1, AttemptBegins
<1>5. Tree(s) = View /\ Reachable(s) = DOMAIN View /\ IsDirIn(s, Parent(p))
  <2>1. Parent(p) \in DirPaths /\ IsDirectory(Parent(p))
    BY PathSplits DEF Lookup
  <2> QED
    BY <1>4, <2>1, ViewIs
<1>6. t = GetAttr(s, p)
  OBVIOUS
<1> HIDE DEF t
<1>7. /\ Settled(s, t) /\ t.undefined = s.undefined /\ Tree(t) = Tree(s)
      /\ Calm => t.err = IF p \in Reachable(s) THEN "ok" ELSE "ENOENT"
  BY <1>4, <1>5, <1>6, LookupDoes
<1>8. t.undefined \in BOOLEAN
  BY <1>4, <1>7 DEF IInv
<1>9. IInv' /\ View' = Tree(t)
  BY <1>1, <1>3, <1>7, <1>8, SettledKeeps
<1> QED
  BY <1>3, <1>5, <1>7, <1>9

\* create and mkdir.
LEMMA MakeStep ==
  ASSUME IInv, NEW p \in Paths, Create(p) \/ Mkdir(p)
  PROVE  /\ IInv'
         /\ answer'.got = "ok" => \E kind \in {"file", "dir"} : Grows(p, kind)
         /\ answer'.got # "ok" => View' = View
         /\ Calm => answer'.got = "ok" /\ answer'.wanted = "ok"
<1>1. mounted /\ IsDirectory(Parent(p)) /\ p \notin DOMAIN View
  BY DEF Create, Mkdir, Running
<1>0. PICK kind \in {"file", "dir"}, id \in Ids \ UsedIds, s \in Attempts : \E t :
        /\ \/ kind = "file" /\ t = CreateFile(s, p, id)
           \/ kind = "dir" /\ p \in DirPaths /\ t = MakeDirectory(s, p, id)
        /\ Answer(t, "ok")
  <2>1. CASE Create(p)
    <3>1. PICK id \in Ids \ UsedIds, s \in Attempts : Answer(CreateFile(s, p, id), "ok")
      BY <2>1 DEF Create
    <3> QED
      BY <3>1
  <2>2. CASE Mkdir(p)
    <3>1. p \in DirPaths
      BY <2>2 DEF Mkdir
    <3>2. PICK id \in Ids \ UsedIds, s \in Attempts : Answer(MakeDirectory(s, p, id), "ok")
      BY <2>2 DEF Mkdir
    <3> QED
      BY <3>1, <3>2
  <2> QED
    BY <2>1, <2>2
<1>2. PICK t :
        /\ \/ kind = "file" /\ t = CreateFile(s, p, id)
           \/ kind = "dir" /\ p \in DirPaths /\ t = MakeDirectory(s, p, id)
        /\ Answer(t, "ok")
  BY <1>0
<1>3. /\ Become(t) /\ UNCHANGED mounted /\ answer' = [got |-> t.err, wanted |-> "ok"]
  BY <1>2 DEF Answer
<1>4. Begins(s) /\ SameStores(State, s) /\ s.undefined = undefined
  BY <1>1, AttemptBegins
<1>5. /\ Tree(s) = View /\ Reachable(s) = DOMAIN View /\ IsDirIn(s, Parent(p))
      /\ \A q \in Reachable(s) : View[q] = Node(s, q)
  BY <1>1, <1>4, PathSplits, ViewIs
<1>6. Fresh(s, id)
  BY <1>4, FreshIds
<1>7. Made(s, t, p, kind, id)
  <2>1. p \notin Reachable(s)
    BY <1>1, <1>5
  <2> QED
    BY <1>2, <1>4, <1>5, <1>6, <2>1, CreateFileDoes, MakeDirectoryDoes
<1>8. t.undefined \in BOOLEAN
  BY <1>4, <1>7 DEF IInv, Made
<1>9. IInv' /\ View' = Tree(t)
  BY <1>1, <1>3, <1>7, <1>8, SettledKeeps DEF Made
<1>10. ASSUME t.err = "ok"
       PROVE  Grows(p, kind)
  <2>1. OneMore(s, t, p) /\ Node(t, p) = [kind |-> kind, id |-> id]
    BY <1>7, <1>10 DEF Made
  <2>2. Tree(t) = [q \in Reachable(s) \cup {p} |-> IF q = p THEN Node(t, p) ELSE Node(s, q)]
    BY <2>1, OneMoreTree
  <2>3. View' = [q \in DOMAIN View \cup {p} |->
                   IF q = p THEN [kind |-> kind, id |-> id] ELSE View[q]]
    BY <1>5, <1>9, <2>1, <2>2
  <2>4. ASSUME NEW q \in DOMAIN View, View[q].id = id
        PROVE  FALSE
    <3>1. q \in Reachable(s) /\ Node(s, q).id = id
      BY <1>5, <2>4
    <3>2. Good(s, {}) /\ id # Lost
      BY <1>4, IdsAssumption DEF Begins
    <3>3. At(s, id, q)
      BY <3>1, <3>2, NodeIsAt
    <3>4. q \in AllPaths
      BY <3>1 DEF Reachable, Paths, AllPaths
    <3> QED
      BY <1>6, <3>3, <3>4 DEF Fresh
  <2>5. id \in Ids \ {View[q].id : q \in DOMAIN View}
    BY <2>4
  <2> QED
    BY <1>1, <2>3, <2>5 DEF Grows
<1>11. t.err # "ok" => View' = View
  BY <1>5, <1>7, <1>9 DEF Made
<1>12. Calm => t.err = "ok"
  BY <1>7 DEF Made
<1>13. answer'.got = t.err /\ answer'.wanted = "ok"
  BY <1>3
<1> QED
  BY <1>9, <1>10, <1>11, <1>12, <1>13

\* unlink and rmdir.
LEMMA DeleteStep ==
  ASSUME IInv, NEW p \in Paths, Unlink(p) \/ Rmdir(p)
  PROVE  /\ IInv'
         /\ answer'.got = "ok" => Shrinks(p)
         /\ answer'.got # "ok" => View' = View \/ Shrinks(p)
         /\ Calm => answer'.got = answer'.wanted
         /\ Calm /\ answer'.got # "ok" => View' = View
<1>1. mounted
  BY DEF Unlink, Rmdir, Running
<1>0. PICK s \in Attempts : \E t, wanted :
        /\ \/ Exists(p, "file") /\ t = UnlinkFile(s, p) /\ wanted = "ok"
           \/ /\ Exists(p, "dir") /\ t = RemoveEmptyDirectory(s, p)
              /\ wanted = IF IsEmpty(p) THEN "ok" ELSE "ENOTEMPTY"
        /\ Answer(t, wanted)
  BY DEF Unlink, Rmdir
<1>2. PICK t, wanted :
        /\ \/ Exists(p, "file") /\ t = UnlinkFile(s, p) /\ wanted = "ok"
           \/ /\ Exists(p, "dir") /\ t = RemoveEmptyDirectory(s, p)
              /\ wanted = IF IsEmpty(p) THEN "ok" ELSE "ENOTEMPTY"
        /\ Answer(t, wanted)
  BY <1>0
<1>3. /\ Become(t) /\ UNCHANGED mounted /\ answer' = [got |-> t.err, wanted |-> wanted]
  BY <1>2 DEF Answer
<1>4. Begins(s) /\ SameStores(State, s) /\ s.undefined = undefined
  BY <1>1, AttemptBegins
<1>5. /\ Tree(s) = View /\ Reachable(s) = DOMAIN View
      /\ \A q \in Reachable(s) : View[q] = Node(s, q)
      /\ IsEmpty(p) <=> \A q \in Reachable(s) : Parent(q) # p
      /\ \A kind \in {"file", "dir"} :
           Exists(p, kind) <=> p \in Reachable(s) /\ Listing(s, p).kind = kind
  BY <1>4, ViewIs
<1>6. /\ Gone(s, t, p) /\ t.undefined \in BOOLEAN
      /\ Calm => t.err = wanted
  <2>1. CASE Exists(p, "file") /\ t = UnlinkFile(s, p) /\ wanted = "ok"
    <3>1. p \in Reachable(s) /\ Listing(s, p).kind = "file"
      BY <1>5, <2>1
    <3>2. Gone(s, t, p) /\ t.undefined = s.undefined /\ (Calm => t.err = "ok")
      BY <1>4, <2>1, <3>1, UnlinkDoes
    <3> QED
      BY <1>4, <2>1, <3>2 DEF IInv
  <2>2. CASE /\ Exists(p, "dir") /\ t = RemoveEmptyDirectory(s, p)
             /\ wanted = IF IsEmpty(p) THEN "ok" ELSE "ENOTEMPTY"
    <3>1. p \in Reachable(s) /\ Listing(s, p).kind = "dir"
      BY <1>5, <2>2
    <3>2. /\ Gone(s, t, p) /\ (s.undefined \in BOOLEAN => t.undefined \in BOOLEAN)
          /\ Calm => t.err = IF \A q \in Reachable(s) : Parent(q) # p THEN "ok" ELSE "ENOTEMPTY"
      BY <1>4, <2>2, <3>1, RmdirDoes
    <3> QED
      BY <1>4, <1>5, <2>2, <3>2 DEF IInv
  <2> QED
    BY <1>2, <2>1, <2>2
<1>7. IInv' /\ View' = Tree(t)
  BY <1>1, <1>3, <1>6, SettledKeeps DEF Gone
<1>8. ASSUME OneMore(t, s, p)
      PROVE  Shrinks(p)
  <2>1. /\ p \in Reachable(s) /\ \A q \in Reachable(s) : Parent(q) # p
        /\ Tree(t) = [q \in Reachable(s) \ {p} |-> Node(s, q)]
    BY <1>8, OneMoreIsLeaf
  <2>2. View' = [q \in DOMAIN View \ {p} |-> View[q]]
    BY <1>5, <1>7, <2>1
  <2> QED
    BY <1>5, <2>1, <2>2 DEF Shrinks
<1>9. /\ t.err = "ok" => OneMore(t, s, p)
      /\ t.err # "ok" => Tree(t) = Tree(s) \/ OneMore(t, s, p)
  BY <1>6 DEF Gone
<1>10. answer'.got = t.err /\ answer'.wanted = wanted
  BY <1>3
<1>11. ASSUME Calm, t.err # "ok"
       PROVE  View' = View
  <2>1. wanted # "ok" /\ ~IsEmpty(p)
    BY <1>2, <1>6, <1>11
  <2>2. ~Shrinks(p)
    BY <2>1 DEF Shrinks
  <2> QED
    BY <1>5, <1>7, <1>8, <1>9, <1>11, <2>2
<1> QED
  BY <1>5, <1>6, <1>7, <1>8, <1>9, <1>10, <1>11

\* The renames that Calm runs are about: a file gets a new name.
LEMMA RenameStep ==
  ASSUME IInv, Calm, NEW p \in Paths, NEW q \in Paths, Rename(p, q),
         Ops \cap {"rename_over", "rename_dir"} = {}
  PROVE  IInv' /\ Moves(p, q) /\ answer'.got = "ok" /\ answer'.wanted = "ok"
<1>1. /\ mounted /\ p # q /\ p \in DOMAIN View /\ q \notin DOMAIN View /\ ~Exists(p, "dir")
      /\ IsDirectory(Parent(q)) /\ ~IsPrefix(p, q)
  BY DEF Rename, RenameOp, Running
<1> DEFINE t == RenamePath(State, p, q)
<1>2. /\ Become(t) /\ UNCHANGED mounted /\ answer' = [got |-> t.err, wanted |-> "ok"]
  BY <1>1 DEF Rename, Answer
<1>3. t = RenamePath(State, p, q)
  OBVIOUS
<1> HIDE DEF t
<1>4. State \in Attempts
  <2>1. [State EXCEPT !.left = 0] = State
    BY DEF State
  <2>2. 0 \in 0 .. 6
    OBVIOUS
  <2> QED
    BY <2>1, <2>2 DEF Attempts
<1>5. Begins(State) /\ SameStores(State, State)
  BY <1>1, <1>4, AttemptBegins
<1>6. /\ View = Tree(State) /\ Reachable(State) = DOMAIN View
      /\ \A r \in Reachable(State) : View[r] = Node(State, r) /\ View[r].kind = Listing(State, r).kind
      /\ IsDirIn(State, Parent(q))
  BY <1>1, <1>5, PathSplits, ViewIs
<1>7. p \in Reachable(State) /\ Listing(State, p).kind = "file" /\ q \notin Reachable(State)
  <2>1. p \in Reachable(State) /\ Listed(State, p)
    BY <1>1, <1>6, ReachableStep
  <2>2. Listing(State, p).kind \in {"file", "dir"}
    BY <1>5, <2>1, ListingType DEF Begins, Good, Sound
  <2>3. Listing(State, p).kind # "dir"
    BY <1>1, <1>6, <2>1 DEF Exists
  <2> QED
    BY <1>1, <1>6, <2>1, <2>2, <2>3
<1>8. /\ Settled(State, t) /\ t.undefined = State.undefined /\ t.err = "ok"
      /\ Renamed(State, t, p, q)
  BY <1>1, <1>3, <1>5, <1>6, <1>7, RenameDoes
<1>9. t.undefined \in BOOLEAN
  BY <1>8, StateIs DEF IInv
<1>10. IInv' /\ View' = Tree(t)
  BY <1>1, <1>2, <1>4, <1>8, <1>9, SettledKeeps
<1>11. View' = [r \in (DOMAIN View \ {p}) \cup {q} |-> IF r = q THEN View[p] ELSE View[r]]
  <2>1. \A r \in DOMAIN View : View[r] = Node(State, r)
    BY <1>6
  <2> QED
    BY <1>1, <1>6, <1>8, <1>10, <2>1 DEF Renamed
<1>12. \A r \in DOMAIN View : IsPrefix(p, r) => r = p
  BY <1>6, <1>7 DEF Reachable
<1>13. Moves(p, q)
  BY <1>1, <1>6, <1>7, <1>11, <1>12 DEF Moves
<1> QED
  BY <1>2, <1>8, <1>10, <1>13

-----------------------------------------------------------------------------
(* The events.                                                             *)

LEMMA EventKeeps ==
  ASSUME NEW t, Invisible(State, t, {}), SameStores(t, State'),
         NoFailures => Counted(t, {})
  PROVE  /\ Good(State', {}) /\ View' = View
         /\ NoFailures => Counted(State', {})
<1>1. Good(State', {}) /\ \A p \in Paths : SameNode(t, State', p)
  BY StoresDecide DEF Invisible
<1>2. Tree(State') = Tree(t)
  BY <1>1, SameTree
<1>3. Tree(t) = Tree(State)
  BY InvisibleTree
<1>4. NoFailures => Counted(State', {})
  BY DEF Counted, SameStores
<1> QED
  BY <1>1, <1>2, <1>3, <1>4 DEF View

LEMMA ExpireStep ==
  ASSUME IInv, NEW p \in AllPaths, Expire(p)
  PROVE  IInv' /\ View' = View /\ UNCHANGED answer
<1> DEFINE md == [mc[p] EXCEPT !.expired = TRUE]
           t == [State EXCEPT !.mc[p] = md]
<1>1. /\ mounted /\ p \in DOMAIN mc /\ mc' = [mc EXCEPT ![p].expired = TRUE]
      /\ UNCHANGED <<dc, dmeta, fmeta, data, mounted, undefined, answer>>
  BY DEF Expire, Running
<1>2. /\ State.mc = mc /\ State.dc = dc /\ State.dmeta = dmeta /\ State.fmeta = fmeta
      /\ State.data = data /\ IsState(State)
  BY StateIs
<1>3. mc[p] \in MetadataType /\ mc = [q \in DOMAIN mc |-> mc[q]]
  BY <1>1, <1>2 DEF IInv, Good, Sound, MetadataOK
<1>4. /\ md \in MetadataType /\ md.kind = mc[p].kind /\ md.id = mc[p].id
      /\ md.sized = mc[p].sized /\ md.dirty = mc[p].dirty /\ md.count = mc[p].count
  BY <1>3 DEF MetadataType
<1>5. mc' = [mc EXCEPT ![p] = md]
  BY <1>1, <1>3
<1>6. t = [State EXCEPT !.mc[p] = md]
  OBVIOUS
<1>7. t.mc = mc' /\ t.dc = dc /\ t.dmeta = dmeta /\ t.fmeta = fmeta /\ t.data = data
  BY <1>2, <1>5 DEF State
<1> HIDE DEF md, t
<1>8. /\ Invisible(State, t, {}) /\ OnlyAt(State, t, {p})
      /\ DOMAIN t.mc = DOMAIN mc /\ t.mc[p] = md /\ t.dc = dc
      /\ \A q \in DOMAIN mc : q # p => t.mc[q] = mc[q]
  <2>1. Good(State, {}) /\ p \in DOMAIN State.mc
    BY <1>1, <1>2 DEF IInv
  <2>2. /\ md.kind = State.mc[p].kind /\ md.id = State.mc[p].id
        /\ md.sized = State.mc[p].sized /\ md.dirty = State.mc[p].dirty
    BY <1>2, <1>4
  <2>3. /\ Invisible(State, t, {}) /\ OnlyAt(State, t, {p})
        /\ DOMAIN t.mc = DOMAIN State.mc /\ t.mc[p] = md /\ t.dc = State.dc
        /\ \A q \in DOMAIN State.mc : q # p => t.mc[q] = State.mc[q]
    BY ONLY <1>2, <1>4, <1>6, <2>1, <2>2, RecountDoes
  <2> QED
    BY <1>2, <2>3
<1>9. NoFailures => Counted(t, {})
  <2>1. \A q \in DOMAIN mc : t.mc[q].count = mc[q].count /\ t.mc[q].kind = mc[q].kind
    BY <1>4, <1>8
  <2> QED
    BY <1>2, <1>8, <2>1 DEF IInv, Counted
<1>10. SameStores(t, State')
  <2>1. /\ State'.mc = mc' /\ State'.dc = dc' /\ State'.dmeta = dmeta' /\ State'.fmeta = fmeta'
        /\ State'.data = data'
    BY DEF State
  <2> QED
    BY <1>1, <1>7, <2>1 DEF SameStores
<1>11. /\ Good(State', {}) /\ View' = View
       /\ NoFailures => Counted(State', {})
  BY <1>8, <1>9, <1>10, EventKeeps
<1>12. Calm => Root \in DOMAIN mc' \/ Root \in DOMAIN dmeta'
  BY <1>1, <1>7, <1>8 DEF IInv
<1>13. mounted' /\ mounted' \in BOOLEAN /\ undefined' \in BOOLEAN
  BY <1>1 DEF IInv
<1> QED
  BY <1>1, <1>11, <1>12, <1>13 DEF IInv

LEMMA WorkerStep ==
  ASSUME IInv, WorkerPass
  PROVE  IInv' /\ View' = View /\ UNCHANGED answer
<1> DEFINE t == DropMetadata(DropDirectories(FlushDirectories(FlushFiles(State))))
<1>1. mounted /\ Become(t) /\ UNCHANGED <<mounted, answer>>
  BY DEF WorkerPass, Running
<1>2. t = DropMetadata(DropDirectories(FlushDirectories(FlushFiles(State))))
  OBVIOUS
<1> HIDE DEF t
<1>3. IsState(State) /\ Good(State, {})
  BY StateIs DEF IInv
<1>4. /\ Invisible(State, t, {}) /\ t.undefined = State.undefined
      /\ Counted(State, {}) => Counted(t, {})
      /\ RootKnown(State) => RootKnown(t)
  BY <1>2, <1>3, WorkerDoes DEF SameControl
<1>5. SameStores(t, State')
  BY <1>1 DEF SameStores, Become, State
<1>6. /\ Good(State', {}) /\ View' = View
      /\ NoFailures => Counted(State', {})
  BY <1>4, <1>5, EventKeeps DEF IInv
<1>7. Calm => Root \in DOMAIN mc' \/ Root \in DOMAIN dmeta'
  <2>1. Calm => RootKnown(State)
    BY <1>1, StateIs DEF IInv, RootKnown
  <2> QED
    BY <1>1, <1>4, <2>1 DEF RootKnown, Become
<1>8. mounted' /\ mounted' \in BOOLEAN /\ undefined' \in BOOLEAN
  BY <1>1, <1>4, StateIs DEF IInv, Become
<1> QED
  BY <1>1, <1>6, <1>7, <1>8 DEF IInv

LEMMA UnmountStep ==
  ASSUME IInv, Unmount
  PROVE  IInv' /\ View' = View /\ UNCHANGED answer /\ ~mounted'
<1> DEFINE t == DestroyCaches(State)
<1>1. mounted /\ Become(t) /\ mounted' = FALSE /\ UNCHANGED answer
  BY DEF Unmount, Running
<1>2. t = DestroyCaches(State)
  OBVIOUS
<1> HIDE DEF t
<1>3. IsState(State) /\ Good(State, {})
  BY StateIs DEF IInv
<1>4. /\ Invisible(State, t, {}) /\ t.undefined = State.undefined
      /\ t.mc = NoEntries /\ t.dc = NoEntries
  BY <1>2, <1>3, DestroyDoes DEF SameControl
<1>5. SameStores(t, State')
  BY <1>1 DEF SameStores, Become, State
<1>6. Counted(t, {})
  BY <1>4 DEF Counted, NoEntries
<1>7. /\ Good(State', {}) /\ View' = View
      /\ NoFailures => Counted(State', {})
  BY <1>4, <1>5, <1>6, EventKeeps
<1>8. undefined' \in BOOLEAN /\ mc' = NoEntries /\ dc' = NoEntries
  BY <1>1, <1>4, StateIs DEF IInv, Become
<1> QED
  BY <1>1, <1>7, <1>8 DEF IInv

\* A crash uncovers what is stored.
LEMMA CrashStep ==
  ASSUME IInv, Crash
  PROVE  IInv' /\ UNCHANGED answer /\ ~mounted'
<1>1. /\ mc' = NoEntries /\ dc' = NoEntries /\ mounted' = FALSE /\ ~Calm
      /\ UNCHANGED <<dmeta, fmeta, data, undefined, answer>>
  BY DEF Crash, Running, Calm
<1>2. PICK s : s = State
  OBVIOUS
<1>3. PICK t : t = State'
  OBVIOUS
<1>4. /\ t.mc = NoEntries /\ t.dc = NoEntries /\ t.dmeta = s.dmeta /\ t.fmeta = s.fmeta
      /\ t.data = s.data
  BY <1>1, <1>2, <1>3 DEF State
<1>5. DOMAIN t.mc = {} /\ DOMAIN t.dc = {} /\ t.mc = [p \in DOMAIN t.mc |-> t.mc[p]]
      /\ t.dc = [p \in DOMAIN t.dc |-> t.dc[p]]
  BY <1>4 DEF NoEntries
<1>6. Sound(s) /\ OnePath(s, {})
  BY <1>2 DEF IInv, Good
<1>7. MetadataOK(t)
  <2>1. t.mc \in [DOMAIN t.mc -> MetadataType]
    BY <1>5
  <2> QED
    BY <1>5, <2>1 DEF MetadataOK
<1>8. DirectoriesOK(t) /\ RecordsOK(t) /\ DataOK(t)
  BY <1>4, <1>5, <1>6 DEF Sound, DirectoriesOK, RecordsOK, DataOK
<1>9. /\ DirectoriesCached(t) /\ CleanIsStored(t) /\ CleanIsRecorded(t) /\ EntriesMatch(t)
      /\ NoFailures => SizesStored(t)
  BY <1>4, <1>5, <1>6
     DEF Sound, DirectoriesCached, CleanIsStored, CleanIsRecorded, EntriesMatch, SizesStored
<1>10. \A i, p : At(t, i, p) => At(s, i, p)
  <2>1. \A i, p : CachedAt(t, i, p) => CachedAt(s, i, p)
    BY <1>4, <1>5 DEF CachedAt
  <2>2. \A i, p : EntryAt(t, i, p) => EntryAt(s, i, p)
    BY <1>1, <1>4, <1>5 DEF EntryAt
  <2> QED
    BY <2>1, <2>2 DEF At
<1>11. OnePath(t, {})
  BY <1>6, <1>10 DEF OnePath
<1>12. Good(State', {}) /\ Counted(State', {})
  <2>1. Good(t, {})
    BY <1>1, <1>7, <1>8, <1>9, <1>11 DEF Good, Sound
  <2>2. Counted(t, {})
    BY <1>5 DEF Counted
  <2> QED
    BY <1>3, <2>1, <2>2
<1>13. undefined' \in BOOLEAN
  BY <1>1 DEF IInv
<1> QED
  BY <1>1, <1>12, <1>13 DEF IInv

\* init opens a root that is on the backend.
LEMMA RootOpens ==
  ASSUME NEW s, IsState(s), Good(s, {}), s.err = "ok", s.left = 0, s.mc = NoEntries,
         Root \in DOMAIN s.dmeta,
         NEW t, t = [OpenDirectory(s, Root) EXCEPT !.mc[Root] = CountUp(@)]
  PROVE  /\ Invisible(s, t, {}) /\ Counted(t, {}) /\ t.undefined = s.undefined
         /\ Root \in DOMAIN t.mc
<1> DEFINE u == OpenDirectory(s, Root)
           md == CountUp(u.mc[Root])
<1>1. DOMAIN s.mc = {} /\ Counted(s, {})
  BY DEF NoEntries, Counted
<1>2. u = LoadDirectory(s, Root)
  <2>1. Root \notin DOMAIN s.dc
    BY <1>1 DEF Good, Sound, DirectoriesCached
  <2> QED
    BY <1>1, <2>1 DEF OpenDirectory, IsCached
<1>3. t = [u EXCEPT !.mc[Root] = CountUp(@)]
  OBVIOUS
<1> HIDE DEF u
<1>4. Opened(s, u, {}, {Root}) /\ u.err = "ok" /\ Root \in DOMAIN u.dc
  <2>1. OpenPath(s, Root) /\ Root \notin {} /\ Root \notin DOMAIN s.mc
    BY <1>1 DEF OpenPath
  <2> QED
    BY <1>2, <2>1, LoadDirectoryDoes
<1>5. /\ IsState(u) /\ Good(u, {}) /\ Invisible(s, u, {}) /\ Counted(u, {})
      /\ u.undefined = s.undefined
  BY <1>1, <1>4 DEF Opened, Invisible
<1>6. /\ Root \in DOMAIN u.mc /\ u.mc[Root] \in MetadataType /\ u.mc[Root].count \in Counts
      /\ u.mc \in [DOMAIN u.mc -> MetadataType]
  BY <1>4, <1>5 DEF Good, Sound, DirectoriesCached, MetadataOK, Counted
<1>7. /\ md \in MetadataType /\ md.kind = u.mc[Root].kind /\ md.id = u.mc[Root].id
      /\ md.sized = u.mc[Root].sized /\ md.dirty = u.mc[Root].dirty /\ md.count \in Counts
  BY <1>6, CountsType DEF Counts
<1>8. t = [u EXCEPT !.mc[Root] = md]
  BY <1>3, <1>6
<1> HIDE DEF md
<1>9. /\ SameControl(u, t) /\ Invisible(u, t, {})
      /\ DOMAIN t.mc = DOMAIN u.mc /\ t.mc[Root] = md /\ t.dc = u.dc
      /\ \A q \in DOMAIN u.mc : q # Root => t.mc[q] = u.mc[q]
  <2>1. PICK r : r = Root
    OBVIOUS
  <2>2. r \in DOMAIN u.mc /\ IsState(u) /\ Good(u, {})
    BY <1>5, <1>6, <2>1
  <2>3. /\ md \in MetadataType /\ md.kind = u.mc[r].kind /\ md.id = u.mc[r].id
        /\ md.sized = u.mc[r].sized /\ md.dirty = u.mc[r].dirty
    BY <1>7, <2>1
  <2>4. t = [u EXCEPT !.mc[r] = md]
    BY <1>8, <2>1
  <2>5. /\ IsState(t) /\ SameControl(u, t) /\ Invisible(u, t, {}) /\ OnlyAt(u, t, {r})
        /\ DOMAIN t.mc = DOMAIN u.mc /\ t.mc[r] = md
        /\ t.dc = u.dc /\ t.dmeta = u.dmeta
        /\ \A q \in DOMAIN u.mc : q # r => t.mc[q] = u.mc[q]
    BY ONLY <2>2, <2>3, <2>4, RecountDoes
  <2> QED
    BY <2>1, <2>5
<1>10. Counted(t, {})
  BY <1>5, <1>7, <1>9 DEF Counted
<1> QED
  BY <1>5, <1>6, <1>9, <1>10, InvisibleTwice DEF SameControl

\* init creates the root on a backend that has none.
LEMMA RootCreated ==
  ASSUME NEW s, IsState(s), Good(s, {}), s.err = "ok", s.left = 0, s.mc = NoEntries,
         Root \notin DOMAIN s.dmeta, NEW id, Fresh(s, id),
         NEW t, t = CreateDirectory(s, Root, id)
  PROVE  /\ Invisible(s, t, {}) /\ Counted(t, {}) /\ t.undefined = s.undefined
         /\ Root \in DOMAIN t.mc
<1> DEFINE md == Metadata("dir", id, FALSE, TRUE, 1)
           u == CreateMetadata(s, Root, md)
<1>1. /\ md \in MetadataType /\ md.kind = "dir" /\ md.id = id /\ ~md.sized /\ md.dirty
      /\ md.count = 1
  <2>1. md = Metadata("dir", id, FALSE, TRUE, 1)
    OBVIOUS
  <2>2. id \in Ids
    BY DEF Fresh
  <2> HIDE DEF md
  <2> QED
    BY ONLY <2>1, <2>2, NewDirectoryMetadata
<1>2. t = IF u.err # "ok" THEN u ELSE ReadDirectory(u, Root)
  BY DEF CreateDirectory
<1>3. DOMAIN s.mc = {} /\ DOMAIN s.dc = {}
  BY DEF NoEntries, Good, Sound, DirectoriesCached
<1>4. u = CreateMetadata(s, Root, md)
  OBVIOUS
<1> HIDE DEF md, u
<1>5. /\ IsState(u) /\ u.err = "ok" /\ u.left = 0 /\ u.undefined = s.undefined
      /\ MetadataAdded(s, u, Root, md)
  <2>1. PICK c : c = Call(s)
    OBVIOUS
  <2>2. /\ IsState(c) /\ SameStores(s, c) /\ c.undefined = s.undefined /\ c.left = 0
        /\ c.err = "ok"
    BY <2>1, CallDoes
  <2>3. u = EmplaceMetadata(c, Root, md)
    BY <1>3, <1>4, <2>1, <2>2 DEF CreateMetadata, SameStores
  <2> DEFINE m == Put(c.mc, Root, md)
  <2>4. u = [c EXCEPT !.mc = m]
    BY <1>3, <2>2, <2>3 DEF EmplaceMetadata, SameStores
  <2>6. m = Put(s.mc, Root, md)
    BY <2>2 DEF SameStores
  <2> HIDE DEF m
  <2>5. /\ u.mc = Put(s.mc, Root, md) /\ u.dc = s.dc /\ u.dmeta = s.dmeta /\ u.fmeta = s.fmeta
        /\ u.data = s.data /\ u.undefined = s.undefined /\ u.err = "ok" /\ u.left = 0
        /\ IsState(u)
    <3>1. c.left \in Nat /\ c = [mc |-> c.mc, dc |-> c.dc, dmeta |-> c.dmeta,
            fmeta |-> c.fmeta, data |-> c.data, undefined |-> c.undefined, err |-> c.err,
            left |-> c.left]
      BY <2>2 DEF IsState
    <3>2. u = [mc |-> m, dc |-> c.dc, dmeta |-> c.dmeta, fmeta |-> c.fmeta, data |-> c.data,
               undefined |-> c.undefined, err |-> c.err, left |-> c.left]
      BY ONLY <2>4, <3>1
    <3>3. /\ u.mc = m /\ u.dc = c.dc /\ u.dmeta = c.dmeta /\ u.fmeta = c.fmeta
          /\ u.data = c.data /\ u.undefined = c.undefined /\ u.err = c.err /\ u.left = c.left
          /\ IsState(u)
      BY ONLY <3>1, <3>2 DEF IsState
    <3> QED
      BY <2>2, <2>6, <3>3 DEF SameStores
  <2> QED
    BY <1>1, <1>3, <2>5 DEF MetadataAdded
<1>6. /\ Invisible(s, u, {Root}) /\ DOMAIN u.mc = {Root} /\ u.mc[Root] = md
      /\ Root \notin DOMAIN u.dc
  <2>1. Root \in AllPaths /\ Root \in DirPaths /\ Root \notin Paths
    BY PathsAssumption DEF AllPaths, Paths
  <2>3. Fresh(s, md.id) /\ Good(s, {}) /\ Root \notin DOMAIN s.dmeta /\ Root \notin DOMAIN s.mc
    BY <1>1, <1>3
  <2>4. PICK p : p = Root
    OBVIOUS
  <2>5. /\ p \in AllPaths /\ p \in DirPaths /\ p \notin Paths /\ p \notin DOMAIN s.dmeta
        /\ p \notin DOMAIN s.mc /\ MetadataAdded(s, u, p, md)
    BY <1>5, <2>1, <2>3, <2>4
  <2>6. Invisible(s, u, {p}) /\ OnlyAt(s, u, {p})
        /\ DOMAIN u.mc = DOMAIN s.mc \cup {p} /\ u.mc[p] = md
        /\ p \notin DOMAIN u.dc
    BY ONLY <1>1, <2>3, <2>5, NewMetadataAdded
  <2>2. /\ Invisible(s, u, {Root}) /\ DOMAIN u.mc = DOMAIN s.mc \cup {Root} /\ u.mc[Root] = md
        /\ Root \notin DOMAIN u.dc
    BY <2>4, <2>6
  <2> QED
    BY <1>3, <2>2
<1>7. t = ReadDirectory(u, Root)
  BY <1>2, <1>5
<1>8. /\ t.undefined = u.undefined /\ t.mc = u.mc /\ Invisible(u, t, {Root})
      /\ t.err = "ok" /\ DOMAIN t.dc = DOMAIN u.dc \cup {Root}
  <2>1. Good(u, {Root}) /\ Root \in DOMAIN u.mc /\ u.mc[Root].kind = "dir"
    BY <1>1, <1>6 DEF Invisible
  <2> QED
    BY ONLY <1>5, <1>6, <1>7, <2>1, ReadDirectoryDoes
<1>9. Invisible(s, t, {Root})
  BY <1>6, <1>8, InvisibleTwice
<1>10. Good(t, {})
  <2>1. Good(t, {Root}) /\ Root \notin Paths
    BY <1>9 DEF Invisible, Paths
  <2> QED
    BY <2>1, GoodNarrow
<1>11. Counted(t, {})
  <2>1. 1 \in Counts
    BY DEF Counts
  <2> QED
    BY <1>1, <1>6, <1>8, <2>1 DEF Counted
<1> QED
  BY <1>5, <1>6, <1>8, <1>9, <1>10, <1>11 DEF Invisible

LEMMA MountStep ==
  ASSUME IInv, Mount
  PROVE  IInv' /\ View' = View /\ UNCHANGED answer /\ ~mounted
<1>1. /\ ~mounted /\ mc = NoEntries /\ dc = NoEntries /\ mounted' = TRUE /\ UNCHANGED answer
  BY DEF Mount, IInv
<1>2. /\ IsState(State) /\ Good(State, {}) /\ State.err = "ok" /\ State.left = 0
      /\ State.mc = NoEntries /\ State.dmeta = dmeta /\ State.undefined = undefined
  BY <1>1, StateIs DEF IInv
<1>3. PICK t : /\ Become(t)
               /\ Invisible(State, t, {}) /\ Counted(t, {}) /\ t.undefined = undefined
               /\ Root \in DOMAIN t.mc
  <2>1. CASE Root \in DOMAIN dmeta
    <3>1. PICK t : t = [OpenDirectory(State, Root) EXCEPT !.mc[Root] = CountUp(@)]
      OBVIOUS
    <3>2. Become(t)
      BY <2>1, <3>1 DEF Mount
    <3>3. /\ Invisible(State, t, {}) /\ Counted(t, {}) /\ t.undefined = State.undefined
          /\ Root \in DOMAIN t.mc
      BY <1>2, <2>1, <3>1, RootOpens
    <3> QED
      BY <1>2, <3>2, <3>3
  <2>2. CASE Root \notin DOMAIN dmeta
    <3>1. PICK id \in Ids \ UsedIds : Become(CreateDirectory(State, Root, id))
      BY <2>2 DEF Mount
    <3>2. PICK t : t = CreateDirectory(State, Root, id)
      OBVIOUS
    <3>3. Fresh(State, id)
      BY FreshIds DEF SameStores
    <3>4. /\ Invisible(State, t, {}) /\ Counted(t, {}) /\ t.undefined = State.undefined
          /\ Root \in DOMAIN t.mc
      BY <1>2, <2>2, <3>2, <3>3, RootCreated
    <3> QED
      BY <1>2, <3>1, <3>2, <3>4
  <2> QED
    BY <2>1, <2>2
<1>4. SameStores(t, State')
  BY <1>3 DEF SameStores, Become, State
<1>5. /\ Good(State', {}) /\ View' = View
      /\ NoFailures => Counted(State', {})
  BY <1>3, <1>4, EventKeeps
<1>6. /\ undefined' \in BOOLEAN /\ Root \in DOMAIN mc'
  BY <1>3 DEF IInv, Become
<1> QED
  BY <1>1, <1>5, <1>6 DEF IInv

LEMMA InitGood == Init => IInv
<1> SUFFICES ASSUME Init
             PROVE  IInv
  OBVIOUS
<1>1. PICK s : s = State
  OBVIOUS
<1>2. /\ s.mc = NoEntries /\ s.dc = NoEntries /\ s.dmeta = NoEntries /\ s.fmeta = {}
      /\ s.data = NoEntries
  BY <1>1, StateIs DEF Init
<1>3. /\ DOMAIN s.mc = {} /\ DOMAIN s.dc = {} /\ DOMAIN s.dmeta = {} /\ DOMAIN s.data = {}
      /\ NoEntries = [p \in DOMAIN NoEntries |-> NoEntries[p]]
  BY <1>2 DEF NoEntries
<1>4. MetadataOK(s) /\ DirectoriesOK(s) /\ RecordsOK(s) /\ DataOK(s)
  <2>1. s.mc \in [DOMAIN s.mc -> MetadataType] /\ s.dmeta \in [DOMAIN s.dmeta -> RecordType]
    BY <1>2, <1>3
  <2> QED
    BY <1>2, <1>3, <2>1 DEF MetadataOK, DirectoriesOK, RecordsOK, DataOK
<1>5. /\ DirectoriesCached(s) /\ CleanIsStored(s) /\ CleanIsRecorded(s) /\ EntriesMatch(s)
      /\ SizesStored(s) /\ DataNamed(s)
  BY <1>3 DEF DirectoriesCached, CleanIsStored, CleanIsRecorded, EntriesMatch, SizesStored, DataNamed
<1>6. OnePath(s, {})
  BY <1>3 DEF OnePath, At, CachedAt, EntryAt
<1>7. \A p \in Paths : ~Listed(s, p)
  BY <1>3 DEF Listed, EntriesOf, NoEntries
<1>8. Linked(s, {})
  BY <1>3, <1>7 DEF Linked, LinkedAt, Unused
<1>9. Good(State, {}) /\ Counted(State, {})
  BY <1>1, <1>3, <1>4, <1>5, <1>6, <1>8 DEF Good, Sound, Counted
<1> QED
  BY <1>9 DEF Init, IInv

-----------------------------------------------------------------------------
(* The theorems.                                                           *)

\* Of the renames those of a file to a new name are covered, and those without crashes
\* and calls that fail in other handlers: a crash between the flushes of the two parents
\* leaves the file under two names.  A rename over a file, or of a directory, does not
\* keep the promises; what they do keep is model-checked.
PlainRenames ==
  /\ Ops \cap {"rename_over", "rename_dir"} = {}
  /\ "rename" \in Ops => Calm

LEMMA RenameIsCalm ==
  ASSUME PlainRenames, NEW p \in Paths, NEW q \in Paths, Rename(p, q)
  PROVE  Calm
  BY DEF PlainRenames, Rename, RenameOp, Running

\* What a user may see of a step.
TreeStep ==
  \/ View' = View
  \/ \E p \in Paths : \/ \E kind \in {"file", "dir"} : Grows(p, kind)
                      \/ Shrinks(p)
                      \/ \E q \in Paths : Moves(p, q)
FailedStep ==
  mounted /\ mounted' /\ answer'.got # "ok" =>
    View' = View \/ \E p \in Paths : Shrinks(p) /\ (Unlink(p) \/ Rmdir(p))
PosixStep == Calm /\ AnswersArePosix => AnswersArePosix'

LEMMA StepKeeps ==
  ASSUME PlainRenames, IInv, [Next]_vars
  PROVE  IInv' /\ FailedStep /\ PosixStep /\ ("crash" \notin Ops => TreeStep)
<1> USE DEF FailedStep, PosixStep, TreeStep, AnswersArePosix
<1>1. CASE UNCHANGED vars
  <2>1. UNCHANGED State /\ UNCHANGED <<mc, dc, dmeta, mounted, undefined, answer>>
    BY <1>1 DEF vars, State
  <2> QED
    BY <2>1 DEF IInv, View
<1>2. ASSUME NEW p \in Paths, Lookup(p)
      PROVE  IInv' /\ FailedStep /\ PosixStep /\ ("crash" \notin Ops => TreeStep)
  BY <1>2, LookupStep
<1>3. ASSUME NEW p \in Paths, Create(p) \/ Mkdir(p)
      PROVE  IInv' /\ FailedStep /\ PosixStep /\ ("crash" \notin Ops => TreeStep)
  BY <1>3, MakeStep
<1>4. ASSUME NEW p \in Paths, Unlink(p) \/ Rmdir(p)
      PROVE  IInv' /\ FailedStep /\ PosixStep /\ ("crash" \notin Ops => TreeStep)
  BY <1>4, DeleteStep
<1>5. ASSUME NEW p \in Paths, NEW q \in Paths, Rename(p, q)
      PROVE  IInv' /\ FailedStep /\ PosixStep /\ ("crash" \notin Ops => TreeStep)
  <2>1. Calm
    BY <1>5, RenameIsCalm
  <2> QED
    BY <1>5, <2>1, RenameStep DEF PlainRenames
<1>6. ASSUME NEW p \in DirPaths \cup FilePaths, Expire(p)
      PROVE  IInv' /\ FailedStep /\ PosixStep /\ ("crash" \notin Ops => TreeStep)
  BY <1>6, ExpireStep DEF AllPaths
<1>7. CASE WorkerPass
  BY <1>7, WorkerStep
<1>8. CASE Mount
  BY <1>8, MountStep
<1>9. CASE Unmount
  BY <1>9, UnmountStep
<1>10. CASE Crash
  <2>1. "crash" \in Ops /\ ~Calm
    BY <1>10 DEF Crash, Running, Calm
  <2> QED
    BY <1>10, <2>1, CrashStep
<1> QED
  BY <1>1, <1>2, <1>3, <1>4, <1>5, <1>6, <1>7, <1>8, <1>9, <1>10 DEF Next

LEMMA Invariance ==
  ASSUME PlainRenames PROVE Spec => []IInv
<1>1. Init => IInv
  BY InitGood
<1>2. IInv /\ [Next]_vars => IInv'
  BY StepKeeps
<1> QED
  BY <1>1, <1>2, PTL DEF Spec

\* A cached directory has its metadata in the cache, whatever fails
\* (directory.hpp:24).
THEOREM MetadataOutlivesDirectories ==
  ASSUME PlainRenames PROVE Spec => []DirectoriesHaveMetadata
<1>1. IInv => DirectoriesHaveMetadata
  BY StateIs DEF IInv, Good, Sound, DirectoriesCached, DirectoriesHaveMetadata
<1> QED
  BY <1>1, Invariance, PTL

\* No two paths of the tree share an object, also after failed creations and crashes,
\* and whether or not every path leads somewhere (metadata.impl.hpp:79-103).
THEOREM PathsAreDistinct ==
  ASSUME PlainRenames PROVE Spec => [](PathsDistinct /\ NoAliases)
<1>1. IInv => PathsDistinct /\ NoAliases
  <2> SUFFICES ASSUME IInv, NEW p \in DOMAIN View, NEW q \in DOMAIN View,
                      View[p].id = View[q].id, View[p].id # Lost
               PROVE  p = q
    BY DEF PathsDistinct, NoAliases
  <2>1. /\ DOMAIN View = Reachable(State)
        /\ \A r \in Reachable(State) : View[r] = Node(State, r)
    BY ViewIs DEF SameStores
  <2>2. Good(State, {})
    BY DEF IInv
  <2>3. /\ View[p].id \in Ids /\ At(State, View[p].id, p) /\ At(State, View[p].id, q)
    BY <2>1, <2>2, NodeIsAt
  <2>4. p \in AllPaths /\ q \in AllPaths
    BY <2>1 DEF Reachable, Paths, AllPaths
  <2> QED
    BY <2>2, <2>3, <2>4 DEF Good, OnePath
<1> QED
  BY <1>1, Invariance, PTL

\* Without failing calls every variable has its type, and no reference count but -1,
\* 0 and positive ones occurs between handlers (cache_store.impl.hpp:145-179).
THEOREM TypeCorrect ==
  ASSUME PlainRenames, NoFailures PROVE Spec => []TypeOK
<1>1. IInv => TypeOK
  <2> SUFFICES ASSUME IInv
               PROVE  TypeOK
    OBVIOUS
  <2>1. /\ MetadataOK(State) /\ DirectoriesOK(State) /\ RecordsOK(State) /\ DataOK(State)
        /\ Counted(State, {})
    BY DEF IInv, Good, Sound
  <2>2. ASSUME NEW d, NEW e, IsContent(d, e)
        PROVE  IsDirectoryContent(e)
    <3>1. \A n \in DOMAIN e : n \in STRING
      BY <2>2, PathSplits DEF IsContent
    <3>2. \A n \in DOMAIN e : e[n] \in EntryType
      BY <2>2 DEF IsContent
    <3> QED
      BY <3>1, <3>2 DEF IsDirectoryContent
  <2>3. /\ IsMap(mc, DirPaths \cup FilePaths) /\ IsMap(dc, DirPaths)
        /\ IsMap(dmeta, DirPaths) /\ IsMap(data, DirPaths) /\ fmeta \subseteq Ids
    BY <2>1, StateIs DEF MetadataOK, DirectoriesOK, RecordsOK, DataOK, IsMap, AllPaths
  <2>4. \A p \in DOMAIN mc :
          mc[p] \in [kind : {"file", "dir"}, id : Ids, sized : BOOLEAN, dirty : BOOLEAN,
                     count : Counts, expired : BOOLEAN]
    <3> SUFFICES ASSUME NEW p \in DOMAIN mc
                 PROVE  mc[p] \in [kind : {"file", "dir"}, id : Ids, sized : BOOLEAN,
                                   dirty : BOOLEAN, count : Counts, expired : BOOLEAN]
      OBVIOUS
    <3>1. mc[p] \in MetadataType /\ mc[p].count \in Counts
      BY <2>1, StateIs DEF MetadataOK, Counted
    <3> QED
      BY <3>1 DEF MetadataType
  <2>5. \A p \in DOMAIN dc : dc[p].dirty \in BOOLEAN /\ IsDirectoryContent(dc[p].entries)
    BY <2>1, <2>2, StateIs DEF DirectoriesOK
  <2>6. /\ \A p \in DOMAIN dmeta : dmeta[p] \in [id : Ids, sized : BOOLEAN]
        /\ \A p \in DOMAIN data : IsDirectoryContent(data[p])
    BY <2>1, <2>2, StateIs DEF RecordsOK, DataOK, RecordType
  <2> QED
    BY <2>3, <2>4, <2>5, <2>6 DEF TypeOK, IInv
<1> QED
  BY <1>1, Invariance, PTL

\* Without failing calls a directory with a size has its entries on the backend, or
\* they are marked to be written (directory.impl.hpp:27-61, 98-128).
THEOREM SizesAreStored ==
  ASSUME PlainRenames, NoFailures PROVE Spec => []SizedIsStored
<1>1. IInv => SizedIsStored
  BY StateIs DEF IInv, Good, Sound, SizesStored, SizedIsStored
<1> QED
  BY <1>1, Invariance, PTL

\* Without failing calls and crashes every entry leads to an object
\* (cache_store.impl.hpp:96-138, 307-385).
THEOREM NothingIsLost ==
  ASSUME PlainRenames, Calm PROVE Spec => []EntriesResolve
<1>1. IInv => EntriesResolve
  <2> SUFFICES ASSUME IInv, NEW p \in DOMAIN View
               PROVE  View[p].id # Lost
    BY DEF EntriesResolve
  <2>1. p \in Reachable(State) /\ View[p] = Node(State, p)
    BY ViewIs DEF SameStores
  <2> QED
    BY <2>1, NodeIsAt DEF IInv
<1> QED
  BY <1>1, Invariance, PTL

\* Without failing calls and crashes every answer is the one POSIX asks for
\* (fuse_operations.cpp:106-411).
THEOREM AnswersAreRight ==
  ASSUME PlainRenames, Calm PROVE Spec => []AnswersArePosix
<1>1. Init => AnswersArePosix
  BY DEF Init, AnswersArePosix
<1>2. IInv /\ AnswersArePosix /\ [Next]_vars => AnswersArePosix'
  BY StepKeeps DEF PosixStep
<1> QED
  BY <1>1, <1>2, Invariance, PTL DEF Spec

\* Write-back, eviction and unmounting change nothing a user sees, whatever failed
\* before (cache_store.impl.hpp:307-385).
THEOREM BackgroundChangesNothing ==
  ASSUME PlainRenames PROVE Spec => BackgroundIsInvisible
<1>1. IInv /\ [Next]_vars => [WorkerPass \/ Unmount => View' = View]_vars
  BY WorkerStep, UnmountStep
<1> QED
  BY <1>1, Invariance, PTL DEF Spec, BackgroundIsInvisible

\* A call that fails leaves the tree as it was, but for the name that unlink and rmdir
\* may have removed (fuse_operations.cpp:106-134, 198-257, 300-325).
THEOREM FailuresChangeNothing ==
  ASSUME PlainRenames PROVE Spec => FailedCallsChangeNothing
<1>1. IInv /\ [Next]_vars =>
        [mounted /\ mounted' /\ answer'.got # "ok" =>
           \/ View' = View
           \/ \E p \in DOMAIN View : View' = Del(View, p) /\ (Unlink(p) \/ Rmdir(p))]_vars
  <2> SUFFICES ASSUME IInv, [Next]_vars, mounted, mounted', answer'.got # "ok", View' # View
               PROVE  \E p \in DOMAIN View : View' = Del(View, p) /\ (Unlink(p) \/ Rmdir(p))
    OBVIOUS
  <2>1. PICK p \in Paths : Shrinks(p) /\ (Unlink(p) \/ Rmdir(p))
    BY StepKeeps DEF FailedStep
  <2>2. p \in DOMAIN View /\ View' = Del(View, p)
    BY <2>1 DEF Shrinks, Del, Restrict
  <2> QED
    BY <2>1, <2>2
<1> QED
  BY <1>1, Invariance, PTL DEF Spec, FailedCallsChangeNothing

-----------------------------------------------------------------------------
(* The tree that FileTree describes.                                       *)

LEMMA EmptyTree ==
  ASSUME Init
  PROVE  View = << >>
<1>1. DOMAIN dc = {} /\ DOMAIN mc = {} /\ DOMAIN dmeta = {} /\ DOMAIN data = {}
  BY DEF Init, NoEntries
<1>2. \A p : ~Listed(State, p)
  BY <1>1, StateIs DEF Listed, EntriesOf, NoEntries
<1>3. Reachable(State) = {}
  <2>1. ASSUME NEW p \in Reachable(State)
        PROVE  FALSE
    <3>1. p \in Paths
      BY DEF Reachable
    <3> QED
      BY <1>2, <3>1, ReachableStep
  <2> QED
    BY <2>1
<1>4. View = [p \in {} |-> Node(State, p)]
  BY <1>3 DEF View, Tree
<1>5. View \in Seq(STRING)
  <2>1. View \in [1 .. 0 -> STRING] /\ 0 \in Nat
    BY <1>4
  <2> QED
    BY <2>1, SeqDef
<1>6. Len(View) = 0
  <2>1. Len(View) \in Nat /\ DOMAIN View = 1 .. Len(View)
    BY <1>5, LenProperties
  <2>2. DOMAIN View = {}
    BY <1>4
  <2> QED
    BY <2>1, <2>2
<1> QED
  BY <1>5, <1>6, EmptySeq

LEMMA AbstractPaths ==
  ASSUME NEW p, NEW q
  PROVE  /\ Abstract!Parent(p) = Parent(p)
         /\ Abstract!IsPrefix(p, q) <=> IsPrefix(p, q)
  BY DEF Parent, Front, Abstract!Parent, Abstract!Front, IsPrefix, Abstract!IsPrefix

LEMMA GrowsIsMake ==
  ASSUME NEW p \in Paths, NEW kind \in {"file", "dir"}, Grows(p, kind)
  PROVE  Abstract!Next
<1>1. Abstract!IsDir(Parent(p))
  BY DEF Grows, IsDirectory, Exists, Abstract!IsDir, Root, Abstract!Root
<1>2. Abstract!Make(p, kind)
  BY <1>1, AbstractPaths DEF Grows, Abstract!Make
<1> QED
  BY <1>2 DEF Abstract!Next, Abstract!Kinds

LEMMA ShrinksIsDelete ==
  ASSUME NEW p \in Paths, Shrinks(p)
  PROVE  Abstract!Next
<1>1. Abstract!Delete(p)
  BY AbstractPaths DEF Shrinks, IsEmpty, Abstract!Delete, Abstract!Children
<1> QED
  BY <1>1 DEF Abstract!Next

\* A file has nothing below it: its rename moves one path.
LEMMA MovesIsRename ==
  ASSUME NEW p \in Paths, NEW q \in Paths, Moves(p, q)
  PROVE  Abstract!Next
<1>1. /\ p \in DOMAIN View /\ p # q /\ q \notin DOMAIN View /\ ~IsPrefix(p, q)
      /\ Abstract!IsDir(Parent(q))
  BY DEF Moves, IsDirectory, Exists, Abstract!IsDir, Root, Abstract!Root
<1>2. Abstract!Below(p) = {p}
  <2>1. \A r \in DOMAIN View : IsPrefix(p, r) <=> r = p
    BY PrefixSelf DEF Moves
  <2> QED
    BY <1>1, <2>1, AbstractPaths DEF Abstract!Below
<1>3. /\ q \o SubSeq(p, Len(p) + 1, Len(p)) = q
      /\ p \o SubSeq(q, Len(q) + 1, Len(q)) = p
  <2>1. /\ p \in Seq(STRING) /\ q \in Seq(STRING) /\ Len(p) \in Nat /\ Len(q) \in Nat
    BY PathSplits
  <2>2. SubSeq(p, Len(p) + 1, Len(p)) = << >> /\ SubSeq(q, Len(q) + 1, Len(q)) = << >>
    BY <2>1, SubSeqEmpty
  <2> QED
    BY <2>1, <2>2, ConcatEmptySeq
<1>4. Abstract!Rename(p, q)
  <2> DEFINE new == {q \o SubSeq(r, Len(p) + 1, Len(r)) : r \in Abstract!Below(p)}
  <2>1. new = {q}
    BY <1>2, <1>3
  <2>2. View' = [r \in ((DOMAIN View \ Abstract!Below(p)) \ {q}) \cup new |->
                   IF r \in new THEN View[p \o SubSeq(r, Len(q) + 1, Len(r))] ELSE View[r]]
    <3>1. ((DOMAIN View \ Abstract!Below(p)) \ {q}) \cup new = (DOMAIN View \ {p}) \cup {q}
      BY <1>1, <1>2, <2>1
    <3> HIDE DEF new
    <3> QED
      BY <1>3, <2>1, <3>1 DEF Moves
  <2> QED
    BY <1>1, <2>2, AbstractPaths DEF Abstract!Rename
<1> QED
  BY <1>4 DEF Abstract!Next

\* Without crashes caches, write-back, eviction, remounts and calls that fail anywhere
\* in a handler implement the plain tree (fuse_operations.cpp:106-411).
THEOREM ImplementsFileTree ==
  ASSUME PlainRenames, "crash" \notin Ops PROVE Spec => RefinesFileTree
<1>1. Init => Abstract!Init
  BY EmptyTree DEF Abstract!Init
<1>2. IInv /\ [Next]_vars => [Abstract!Next]_View
  BY StepKeeps, GrowsIsMake, ShrinksIsDelete, MovesIsRename DEF TreeStep
<1> QED
  BY <1>1, <1>2, Invariance, PTL DEF Spec, RefinesFileTree, Abstract!Spec

=============================================================================
