------------------------ MODULE DirectoryCacheProofs ------------------------
(***************************************************************************)
(* Theorems about DirectoryCache, for any number of directory handles and  *)
(* of calls, and both caching policies.                                    *)
(***************************************************************************)
EXTENDS DirectoryCache, FiniteSetTheorems, TLAPS

\* What open_count says is the references of the handles and the surplus.
Total == surplus + Cardinality(handles)
Wrap(n) == IF n >= 0 THEN n ELSE n + CountMod

\* At most one reference is missing for each opening.
Counted ==
  metadata =>
    /\ surplus >= -opens /\ Total <= 2 * opens
    /\ count = Wrap(Total)

NothingCached == ~metadata /\ ~directory => count = 0 /\ surplus = 0

\* Metadata that a sweep would drop, or decided to drop, has lost its directory to the
\* sweep before, unless the round was raced; what a sweep decided to drop is there.
Swept ==
  /\ ~raced /\ metadata /\ count = 0 /\ ~Recent /\ worker = "between" => ~directory
  /\ ~raced /\ worker = "dropMetadata" => ~directory
  /\ worker = "dropDirectory" => directory /\ metadata
  /\ worker = "dropMetadata" => metadata

\* evict_on_last_close drops everything at the last close and leaves the worker nothing.
Evicting ==
  policy = "evict_on_last_close" =>
    /\ metadata => directory /\ Total >= 1
    /\ worker \in {"idle", "between"}

Ind ==
  /\ TypeOK
  /\ directory \/ handles = {}
  /\ ~undefined => Counted /\ NothingCached /\ Swept /\ Evicting /\ DirectoryKeepsMetadata

-----------------------------------------------------------------------------
(* Arithmetic and sets.                                                    *)

LEMMA Constants ==
  /\ MaxOpens \in Nat /\ CountMod \in Nat /\ CountMod > 2 * MaxOpens + 2
  /\ IsFiniteSet(Fds)
<1>1. Cardinality(Fds) \in Nat
  BY FdsAssumption, FS_CardinalityType
<1> QED BY <1>1, FdsAssumption, CountModAssumption

LEMMA ModType == ASSUME NEW a \in Nat, NEW m \in Nat \ {0} PROVE a % m \in 0 .. m - 1
  BY SMT

LEMMA ModOnce ==
  ASSUME NEW m \in Nat \ {0}, NEW r \in 0 .. m - 1 PROVE (r + m) % m = r
  BY SMTT(30)

LEMMA ModTwice ==
  ASSUME NEW m \in Nat \ {0}, NEW r \in 0 .. m - 1 PROVE (r + m + m) % m = r
  BY SMTT(30)

LEMMA PlusType ==
  ASSUME TypeOK, NEW n \in -1 .. 2 PROVE Plus(n) \in 0 .. CountMod - 1
<1>1. count + n + CountMod \in Nat /\ CountMod \in Nat \ {0}
  BY Constants DEF TypeOK
<1> QED BY <1>1, ModType DEF Plus

LEMMA PlusExact ==
  ASSUME NEW t \in Int, t >= -MaxOpens, t <= 2 * MaxOpens, count = Wrap(t), NEW n \in -1 .. 2
  PROVE  Plus(n) = Wrap(t + n)
<1> USE Constants
<1>1. CASE t >= 0 /\ t + n >= 0
  <2>1. count + n + CountMod = (t + n) + CountMod /\ t + n \in 0 .. CountMod - 1
    BY <1>1 DEF Wrap
  <2> QED BY <1>1, <2>1, ModOnce DEF Plus, Wrap
<1>2. CASE t = 0 /\ n = -1
  <2>1. count + n + CountMod = CountMod - 1 /\ CountMod - 1 \in 0 .. CountMod - 1
    BY <1>2 DEF Wrap
  <2>2. (CountMod - 1) % CountMod = CountMod - 1
    BY SMT
  <2> QED BY <1>2, <2>1, <2>2 DEF Plus, Wrap
<1>3. CASE t < 0 /\ t + n >= 0
  <2>1. count + n + CountMod = (t + n) + CountMod + CountMod /\ t + n \in 0 .. CountMod - 1
    BY <1>3 DEF Wrap
  <2> QED BY <1>3, <2>1, ModTwice DEF Plus, Wrap
<1>4. CASE t < 0 /\ t + n < 0
  <2>1. /\ count + n + CountMod = (t + n + CountMod) + CountMod
        /\ t + n + CountMod \in 0 .. CountMod - 1
    BY <1>4 DEF Wrap
  <2>2. ((t + n + CountMod) + CountMod) % CountMod = t + n + CountMod
    BY <2>1, ModOnce
  <2> QED BY <1>4, <2>1, <2>2 DEF Plus, Wrap
<1> QED BY <1>1, <1>2, <1>3, <1>4

LEMMA HandlesFinite ==
  ASSUME NEW S, S \subseteq Fds
  PROVE  /\ IsFiniteSet(S) /\ Cardinality(S) \in Nat
         /\ Cardinality(S) = 0 <=> S = {}
<1>1. IsFiniteSet(S)
  BY Constants, FS_Subset
<1> QED BY <1>1, FS_CardinalityType, FS_EmptySet

LEMMA HandleAdded ==
  ASSUME NEW S, S \subseteq Fds, NEW d \in Fds, d \notin S
  PROVE  Cardinality(S \cup {d}) = Cardinality(S) + 1
  BY HandlesFinite, FS_AddElement

LEMMA HandleRemoved ==
  ASSUME NEW S, S \subseteq Fds, NEW d \in S
  PROVE  Cardinality(S \ {d}) = Cardinality(S) - 1
  BY HandlesFinite, FS_RemoveElement

-----------------------------------------------------------------------------
(* What open_directory finds, and what the destruction of a context leaves. *)

LEMMA Totals ==
  ASSUME Ind, ~undefined, metadata
  PROVE  /\ surplus \in Int /\ Cardinality(handles) \in Nat /\ opens \in 0 .. MaxOpens
         /\ surplus >= -opens
         /\ Total \in Int /\ Total >= -MaxOpens /\ Total <= 2 * opens /\ Total <= 2 * MaxOpens
         /\ count = Wrap(Total) /\ (count = 0 <=> Total = 0)
<1>1. /\ surplus \in Int /\ Cardinality(handles) \in Nat /\ opens \in 0 .. MaxOpens
      /\ surplus >= -opens /\ Total <= 2 * opens /\ count = Wrap(Total)
  BY HandlesFinite DEF Ind, TypeOK, Counted
<1>2. Total \in Int /\ Total >= -MaxOpens /\ Total <= 2 * MaxOpens
  BY <1>1, Constants DEF Total
<1> QED BY <1>1, <1>2, Constants DEF Wrap

LEMMA FoundFacts ==
  ASSUME Ind, Alive
  PROVE  /\ Found \in {"cached", "reread", "loaded"}
         /\ Found = "cached" => metadata /\ directory /\ Added = 2 /\ Orphaned = {}
         /\ Found = "reread" =>
              /\ metadata /\ Added = 0 /\ Orphaned = handles
              /\ handles # {} => Total = 0
              /\ policy # "evict_on_last_close"
         /\ Found = "loaded" =>
              /\ ~metadata /\ ~directory /\ handles = {} /\ count = 0 /\ surplus = 0
              /\ Added = 1 /\ Orphaned = {}
<1> USE DEF Alive
<1>1. CASE Found = "cached"
  BY <1>1 DEF Found, Added, Orphaned
<1>2. CASE Found = "reread"
  <2>1. metadata /\ ~(directory /\ IsValid) /\ Added = 0 /\ Orphaned = handles
    BY <1>2 DEF Found, Added, Orphaned
  <2>2. directory /\ ~IsValid => count = 0
    BY DEF IsValid, Ind, TypeOK
  <2>3. handles # {} => Total = 0
    BY <2>1, <2>2, Totals DEF Ind
  <2>4. policy # "evict_on_last_close"
    BY <2>1 DEF Ind, Evicting, IsValid
  <2> QED BY <1>2, <2>1, <2>3, <2>4
<1>3. CASE Found = "loaded"
  BY <1>3 DEF Found, Added, Orphaned, NothingCached, Ind
<1>4. Found \in {"cached", "reread", "loaded"}
  BY DEF Found
<1> QED BY <1>1, <1>2, <1>3, <1>4

LEMMA CloseStep ==
  ASSUME TypeOK, NEW n \in 0 .. CountMod - 1, opens' \in 0 .. MaxOpens,
         NEW s \in Int, s >= -opens',
         NEW live, live \subseteq Fds \ stale, NEW dead, dead \subseteq Fds \ live,
         NEW replaced \in BOOLEAN,
         n = Wrap(s + Cardinality(live)), s + Cardinality(live) <= 2 * opens',
         policy = "evict_on_last_close" =>
           worker \in {"idle", "between"} /\ s + Cardinality(live) >= 0,
         Close(n, s, live, dead, replaced), UNCHANGED <<policy, exists>>,
         undefined' \in BOOLEAN, raced' \in BOOLEAN, ~raced' => worker # "dropMetadata"
  PROVE  Ind'
<1> DEFINE kept == Keeps(n, policy = "hold_closed_cache_for")
<1> USE DEF Close, Forestall
<1>1. Cardinality(live) \in Nat /\ Cardinality({}) = 0
  BY HandlesFinite, FS_EmptySet
<1>2. kept \in BOOLEAN
  BY DEF Keeps
<1>3. TypeOK'
  <2>1. metadata' \in BOOLEAN /\ directory' \in BOOLEAN /\ expired' \in BOOLEAN
    BY <1>2
  <2>2. /\ exists' \in BOOLEAN
        /\ worker' \in {"idle", "dropDirectory", "between", "dropMetadata", "lost"}
    BY DEF TypeOK
  <2>3. handles' \in SUBSET Fds /\ stale' \in SUBSET (Fds \ handles')
    BY DEF TypeOK
  <2>4. count' \in 0 .. CountMod - 1 /\ surplus' \in Int
    BY Constants
  <2> QED BY <2>1, <2>2, <2>3, <2>4 DEF TypeOK
<1>4. directory' \/ handles' = {}
  OBVIOUS
<1>5. CASE kept
  <2>1. /\ metadata' /\ directory' /\ ~expired' /\ count' = n /\ surplus' = s /\ handles' = live
        /\ policy' = policy
    BY <1>5
  <2>2. Total' = s + Cardinality(live)
    BY <2>1 DEF Total
  <2>3. Counted' /\ NothingCached' /\ DirectoryKeepsMetadata'
    BY <1>1, <2>1, <2>2 DEF Counted, NothingCached, DirectoryKeepsMetadata, Wrap
  <2>4. policy = "evict_on_last_close" => n > 0
    BY <1>5 DEF Keeps
  <2>5. Evicting'
    <3> SUFFICES ASSUME policy = "evict_on_last_close" PROVE Total' >= 1 /\ worker' \in {"idle", "between"}
      BY <2>1 DEF Evicting
    <3>1. s + Cardinality(live) >= 1
      BY <1>1, <2>4, Constants DEF Wrap
    <3> QED BY <2>2, <3>1
  <2>6. policy = "evict_on_last_close" \/ Recent'
    BY <2>1, PoliciesAssumption DEF TypeOK, Recent
  <2>7. policy = "evict_on_last_close" => count' # 0
    BY <2>1, <2>4
  <2>8. Swept'
    BY <2>1, <2>6, <2>7, <1>5 DEF Swept
  <2> QED BY <1>3, <1>4, <2>3, <2>5, <2>8 DEF Ind
<1>6. CASE ~kept
  <2>1. Counted' /\ NothingCached' /\ DirectoryKeepsMetadata'
    BY <1>6 DEF Counted, NothingCached, DirectoryKeepsMetadata
  <2>2. Swept' /\ Evicting'
    BY <1>6 DEF Swept, Evicting
  <2> QED BY <1>3, <1>4, <2>1, <2>2 DEF Ind
<1> QED BY <1>5, <1>6

-----------------------------------------------------------------------------
(* The actions.                                                            *)

LEMMA Initially == ASSUME Init PROVE Ind
<1> USE DEF Init
<1>1. TypeOK
  <2>1. /\ exists \in BOOLEAN /\ metadata \in BOOLEAN /\ directory \in BOOLEAN /\ expired \in BOOLEAN
        /\ undefined \in BOOLEAN /\ raced \in BOOLEAN
        /\ worker \in {"idle", "dropDirectory", "between", "dropMetadata", "lost"}
    OBVIOUS
  <2>2. policy \in Policies /\ handles \in SUBSET Fds /\ stale \in SUBSET (Fds \ handles)
    OBVIOUS
  <2>3. count \in 0 .. CountMod - 1 /\ opens \in 0 .. MaxOpens /\ surplus \in Int
    BY Constants
  <2> QED BY <2>1, <2>2, <2>3 DEF TypeOK
<1>2. Counted /\ NothingCached /\ Swept /\ Evicting /\ DirectoryKeepsMetadata
  BY DEF Counted, NothingCached, Swept, Evicting, DirectoryKeepsMetadata
<1> QED BY <1>1, <1>2 DEF Ind

LEMMA UseStep == ASSUME Ind, Use PROVE Ind'
<1> DEFINE s == surplus + Added - 1 + Cardinality(Orphaned)
           live == handles \ Orphaned
           replaced == Found # "cached"
<1>0. /\ Alive /\ opens < MaxOpens /\ opens' = opens + 1
      /\ Close(Plus(Added - 1), s, live, Orphaned, replaced)
      /\ undefined' \in BOOLEAN /\ UNCHANGED <<policy, exists>>
  BY DEF Use, CanOpen
<1> HIDE DEF s, live, replaced
<1>1. TypeOK
  BY DEF Ind
<1>2. Added \in 0 .. 2 /\ Orphaned \in {{}, handles}
  BY <1>0, FoundFacts
<1>3. /\ handles \subseteq Fds /\ surplus \in Int /\ Cardinality(handles) \in Nat /\ Cardinality({}) = 0
      /\ opens \in Nat /\ opens' \in 0 .. MaxOpens
  BY <1>0, <1>1, HandlesFinite, FS_EmptySet, Constants DEF TypeOK
<1>4. Plus(Added - 1) \in 0 .. CountMod - 1 /\ s \in Int
  <2>1. Added - 1 \in -1 .. 2 /\ Cardinality(Orphaned) \in Nat
    BY <1>2, <1>3
  <2> QED BY <1>1, <1>3, <2>1, PlusType DEF s
<1>5. live \subseteq Fds \ stale /\ Orphaned \subseteq Fds \ live
  BY <1>1, <1>2 DEF TypeOK, live
<1>6. /\ s >= -opens' /\ s + Cardinality(live) <= 2 * opens'
      /\ Plus(Added - 1) = Wrap(s + Cardinality(live))
      /\ policy = "evict_on_last_close" => s + Cardinality(live) >= 0
  <2>1. CASE Found = "cached"
    <3>1. /\ Added = 2 /\ Orphaned = {} /\ metadata
          /\ surplus >= -opens /\ Total \in Int /\ Total >= -MaxOpens
          /\ Total <= 2 * opens /\ Total <= 2 * MaxOpens /\ count = Wrap(Total)
      BY <1>0, <2>1, FoundFacts, Totals DEF Alive
    <3>2. live = handles /\ s = surplus + 1 /\ s + Cardinality(live) = Total + 1
      BY <1>3, <3>1 DEF Total, s, live
    <3>3. Plus(1) = Wrap(Total + 1)
      BY <3>1, PlusExact
    <3>4. policy = "evict_on_last_close" => Total >= 1
      BY <1>0, <3>1 DEF Ind, Alive, Evicting
    <3> QED BY <1>0, <1>3, <3>1, <3>2, <3>3, <3>4
  <2>2. CASE Found = "reread"
    <3>1. /\ Added = 0 /\ Orphaned = handles /\ metadata /\ policy # "evict_on_last_close"
          /\ surplus >= -opens /\ Total \in Int /\ Total >= -MaxOpens
          /\ Total <= 2 * opens /\ Total <= 2 * MaxOpens /\ count = Wrap(Total)
      BY <1>0, <2>2, FoundFacts, Totals DEF Alive
    <3>2. live = {} /\ s = Total - 1 /\ s + Cardinality(live) = Total + (-1)
      BY <1>3, <3>1 DEF Total, s, live
    <3>3. Plus(-1) = Wrap(Total + (-1))
      BY <3>1, PlusExact
    <3>4. s >= -opens'
      BY <1>0, <1>3, <3>1, <3>2 DEF Total
    <3> QED BY <1>0, <1>3, <3>1, <3>2, <3>3, <3>4
  <2>3. CASE Found = "loaded"
    <3>1. Added = 1 /\ Orphaned = {} /\ handles = {} /\ surplus = 0 /\ count = Wrap(0)
      BY <1>0, <2>3, FoundFacts, Constants DEF Wrap
    <3>2. live = {} /\ s = 0
      BY <1>3, <3>1 DEF s, live
    <3>3. Plus(0) = Wrap(0)
      BY <3>1, PlusExact, Constants
    <3> QED BY <1>0, <1>3, <3>1, <3>2, <3>3
  <2> QED BY <1>0, <2>1, <2>2, <2>3, FoundFacts
<1>7. raced' \in BOOLEAN /\ (~raced' => worker # "dropMetadata")
  BY <1>0, <1>1 DEF TypeOK, Use, RacedByOpen
<1>8. policy = "evict_on_last_close" => worker \in {"idle", "between"}
  BY <1>0 DEF Ind, Alive, Evicting
<1>9. replaced \in BOOLEAN
  BY DEF replaced
<1> QED BY <1>0, <1>1, <1>3, <1>4, <1>5, <1>6, <1>7, <1>8, <1>9, CloseStep

LEMMA ReleaseStep == ASSUME Ind, NEW d \in Fds, ReleaseDir(d) PROVE Ind'
<1> DEFINE live == handles \ {d}
<1>0. /\ Alive /\ d \in handles /\ Close(Plus(-1), surplus, live, {}, FALSE)
      /\ UNCHANGED <<policy, exists, undefined, opens, raced>>
  BY DEF ReleaseDir
<1>1. /\ TypeOK /\ handles \subseteq Fds /\ live \subseteq Fds \ stale /\ surplus \in Int
      /\ opens \in 0 .. MaxOpens
  BY <1>0 DEF Ind, TypeOK
<1>2. Cardinality(live) \in Nat /\ Cardinality(handles) = Cardinality(live) + 1
  <2>1. Cardinality(live) = Cardinality(handles) - 1
    BY <1>0, <1>1, HandleRemoved
  <2>2. Cardinality(live) \in Nat /\ Cardinality(handles) \in Nat
    BY <1>1, HandlesFinite
  <2> QED BY <2>1, <2>2
<1> HIDE DEF live
<1>3. metadata /\ directory /\ ~undefined
  BY <1>0 DEF Ind, Alive
<1>4. /\ surplus >= -opens /\ Total \in Int /\ Total >= -MaxOpens /\ Total <= 2 * opens
      /\ Total <= 2 * MaxOpens /\ count = Wrap(Total)
      /\ surplus + Cardinality(live) = Total + (-1)
  <2>1. surplus + Cardinality(live) = Total + (-1)
    BY <1>1, <1>2 DEF Total
  <2> QED BY <1>3, <2>1, Totals
<1>5. Plus(-1) = Wrap(Total + (-1)) /\ Plus(-1) \in 0 .. CountMod - 1
  BY <1>1, <1>4, PlusExact, PlusType, Constants
<1>6. /\ undefined' \in BOOLEAN /\ raced' \in BOOLEAN /\ opens' = opens
      /\ ~raced' => worker # "dropMetadata"
  BY <1>0, <1>1, <1>3 DEF Ind, Swept, TypeOK
<1>7. surplus + Cardinality(live) <= 2 * opens'
  BY <1>1, <1>4, <1>6
<1>8. policy = "evict_on_last_close" =>
        worker \in {"idle", "between"} /\ surplus + Cardinality(live) >= 0
  BY <1>3, <1>4 DEF Ind, Evicting
<1> QED BY <1>0, <1>1, <1>4, <1>5, <1>6, <1>7, <1>8, CloseStep

LEMMA OpenDirStep == ASSUME Ind, NEW d \in Fds, OpenDir(d) PROVE Ind'
<1> DEFINE s == surplus + Added - 1 + Cardinality(Orphaned)
<1>0. /\ Alive /\ opens < MaxOpens /\ opens' = opens + 1 /\ d \notin handles \cup stale
      /\ count' = Plus(Added) /\ surplus' = s
      /\ metadata' = TRUE /\ directory' = TRUE
      /\ handles' = (handles \ Orphaned) \cup {d} /\ stale' = stale \cup Orphaned
      /\ expired' = (expired /\ metadata)
      /\ Forestall(Found # "cached", FALSE) /\ RacedByOpen(count' = 0)
      /\ UNCHANGED <<policy, exists, undefined>>
  BY DEF OpenDir, CanOpen
<1> HIDE DEF s
<1>1. Alive /\ TypeOK /\ ~undefined
  BY <1>0 DEF Ind, Alive
<1>2. Added \in 0 .. 2 /\ Orphaned \in {{}, handles}
  BY <1>1, FoundFacts
<1>3. /\ handles \subseteq Fds /\ surplus \in Int /\ Cardinality(handles) \in Nat /\ Cardinality({}) = 0
      /\ opens \in Nat /\ opens < MaxOpens
  BY <1>0, <1>1, HandlesFinite, FS_EmptySet, Constants DEF TypeOK
<1>4. Plus(Added) \in 0 .. CountMod - 1 /\ s \in Int
  <2>1. Added \in -1 .. 2 /\ Cardinality(Orphaned) \in Nat
    BY <1>2, <1>3
  <2> QED BY <1>1, <1>3, <2>1, PlusType DEF s
<1>5. TypeOK'
  <2>1. /\ exists' \in BOOLEAN /\ metadata' \in BOOLEAN /\ directory' \in BOOLEAN /\ expired' \in BOOLEAN
        /\ undefined' \in BOOLEAN /\ raced' \in BOOLEAN
        /\ worker' \in {"idle", "dropDirectory", "between", "dropMetadata", "lost"}
    BY <1>0, <1>1 DEF TypeOK, Forestall, RacedByOpen
  <2>2. policy' \in Policies /\ handles' \in SUBSET Fds /\ stale' \in SUBSET (Fds \ handles')
    BY <1>0, <1>1, <1>2 DEF TypeOK
  <2>3. count' \in 0 .. CountMod - 1 /\ opens' \in 0 .. MaxOpens /\ surplus' \in Int
    BY <1>0, <1>3, <1>4, Constants
  <2> QED BY <2>1, <2>2, <2>3 DEF TypeOK
<1>6. /\ s >= -opens' /\ Total' \in Int /\ Total' <= 2 * opens'
      /\ count' = Wrap(Total')
      /\ policy = "evict_on_last_close" => Total' >= 1
  <2>1. CASE Found = "cached"
    <3>1. /\ Added = 2 /\ Orphaned = {} /\ metadata
          /\ surplus >= -opens /\ Total \in Int /\ Total >= -MaxOpens
          /\ Total <= 2 * opens /\ Total <= 2 * MaxOpens /\ count = Wrap(Total)
      BY <1>1, <2>1, FoundFacts, Totals
    <3>2. handles' = handles \cup {d} /\ Cardinality(handles') = Cardinality(handles) + 1
      BY <1>0, <1>3, <3>1, HandleAdded
    <3>3. Total' = Total + 2 /\ s = surplus + 1
      BY <1>0, <1>3, <3>1, <3>2 DEF Total, s
    <3>4. Plus(2) = Wrap(Total + 2)
      BY <3>1, PlusExact
    <3>5. policy = "evict_on_last_close" => Total >= 1
      BY <1>1, <3>1 DEF Ind, Evicting
    <3> QED BY <1>0, <1>3, <3>1, <3>3, <3>4, <3>5
  <2>2. CASE Found = "reread"
    <3>1. /\ Added = 0 /\ Orphaned = handles /\ metadata /\ policy # "evict_on_last_close"
          /\ surplus >= -opens /\ Total \in Int /\ Total >= -MaxOpens
          /\ Total <= 2 * opens /\ Total <= 2 * MaxOpens /\ count = Wrap(Total)
      BY <1>1, <2>2, FoundFacts, Totals
    <3>2. handles' = {} \cup {d} /\ Cardinality(handles') = 1
      BY <1>0, <1>3, <3>1, HandleAdded
    <3>3. s = Total - 1 /\ Total' = Total + 0
      BY <1>0, <1>3, <3>1, <3>2 DEF Total, s
    <3>4. Plus(0) = Wrap(Total + 0)
      BY <3>1, PlusExact
    <3>5. s >= -opens'
      BY <1>0, <1>3, <3>1, <3>3 DEF Total
    <3> QED BY <1>0, <1>3, <3>1, <3>3, <3>4, <3>5
  <2>3. CASE Found = "loaded"
    <3>1. Added = 1 /\ Orphaned = {} /\ handles = {} /\ surplus = 0 /\ count = Wrap(0)
      BY <1>1, <2>3, FoundFacts, Constants DEF Wrap
    <3>2. handles' = {} \cup {d} /\ Cardinality({} \cup {d}) = 1
      <4>1. handles' = {} \cup {d}
        BY <1>0, <3>1
      <4>2. Cardinality({} \cup {d}) = Cardinality({}) + 1
        BY HandleAdded
      <4> QED BY <4>1, <4>2, <1>3
    <3>3. s = 0 /\ Total' = 1
      BY <1>0, <1>3, <3>1, <3>2 DEF Total, s
    <3>4. Plus(1) = Wrap(1)
      BY <3>1, PlusExact, Constants
    <3> QED BY <1>0, <1>3, <3>1, <3>3, <3>4
  <2> QED BY <1>1, <2>1, <2>2, <2>3, FoundFacts
<1>7. Counted' /\ NothingCached' /\ DirectoryKeepsMetadata'
  BY <1>0, <1>6 DEF Counted, NothingCached, DirectoryKeepsMetadata
<1>8. Swept' /\ Evicting'
  <2>1. Swept'
    BY <1>0, <1>1 DEF Ind, Swept, Forestall, RacedByOpen
  <2>2. Evicting'
    BY <1>0, <1>1, <1>6 DEF Ind, Evicting, Forestall
  <2> QED BY <2>1, <2>2
<1> QED BY <1>0, <1>5, <1>7, <1>8 DEF Ind

LEMMA MkdirStep == ASSUME Ind, Mkdir PROVE Ind'
<1> USE DEF Mkdir, Alive
<1>1. TypeOK /\ (directory \/ handles = {})
  BY DEF Ind
<1>2. /\ handles \subseteq Fds /\ surplus \in Int /\ Cardinality(handles) \in Nat /\ Cardinality({}) = 0
      /\ opens \in Nat /\ count \in Int
  BY <1>1, HandlesFinite, FS_EmptySet, Constants DEF TypeOK
<1>3. TypeOK'
  <2>1. /\ exists' \in BOOLEAN /\ metadata' \in BOOLEAN /\ directory' \in BOOLEAN /\ expired' \in BOOLEAN
        /\ undefined' \in BOOLEAN /\ raced' \in BOOLEAN
        /\ worker' \in {"idle", "dropDirectory", "between", "dropMetadata", "lost"}
    BY <1>1 DEF TypeOK
  <2>2. policy' \in Policies /\ handles' \in SUBSET Fds /\ stale' \in SUBSET (Fds \ handles')
    BY <1>1 DEF TypeOK
  <2>3. count' \in 0 .. CountMod - 1 /\ opens' \in 0 .. MaxOpens /\ surplus' \in Int
    BY <1>1, <1>2, Constants DEF TypeOK
  <2> QED BY <2>1, <2>2, <2>3 DEF TypeOK
<1>4. directory' \/ handles' = {}
  BY <1>1
<1>5. handles' = {} /\ Total' = 2
  BY <1>1, <1>2 DEF Total
<1>6. ~undefined' => Counted' /\ NothingCached'
  BY <1>2, <1>5, Constants DEF Counted, NothingCached, Wrap
<1>7. ~undefined' => Swept' /\ Evicting' /\ DirectoryKeepsMetadata'
  BY <1>1, <1>2, Constants DEF Ind, Counted, Swept, Evicting, DirectoryKeepsMetadata, Total, Wrap, Recent, TypeOK
<1> QED BY <1>3, <1>4, <1>6, <1>7 DEF Ind

LEMMA RmdirStep == ASSUME Ind, Rmdir PROVE Ind'
<1> USE DEF Rmdir, CanOpen, Forestall, Alive
<1>1. TypeOK /\ (directory \/ handles = {})
  BY DEF Ind
<1>2. /\ handles \subseteq Fds /\ surplus \in Int /\ Cardinality(handles) \in Nat /\ Cardinality({}) = 0
      /\ opens \in Nat /\ count \in Int
  BY <1>1, HandlesFinite, FS_EmptySet, Constants DEF TypeOK
<1>3. TypeOK'
  <2>1. /\ exists' \in BOOLEAN /\ metadata' \in BOOLEAN /\ directory' \in BOOLEAN /\ expired' \in BOOLEAN
        /\ undefined' \in BOOLEAN /\ raced' \in BOOLEAN
        /\ worker' \in {"idle", "dropDirectory", "between", "dropMetadata", "lost"}
    BY <1>1 DEF TypeOK
  <2>2. policy' \in Policies /\ handles' \in SUBSET Fds /\ stale' \in SUBSET (Fds \ handles')
    BY <1>1 DEF TypeOK
  <2>3. count' \in 0 .. CountMod - 1 /\ opens' \in 0 .. MaxOpens /\ surplus' \in Int
    BY <1>1, <1>2, Constants DEF TypeOK
  <2> QED BY <2>1, <2>2, <2>3 DEF TypeOK
<1>4. directory' \/ handles' = {}
  BY <1>1
<1>5. ~undefined' => Counted' /\ NothingCached'
  BY <1>1, <1>2, Constants DEF Ind, Counted, NothingCached, Total, Wrap
<1>6. ~undefined' => Swept' /\ Evicting' /\ DirectoryKeepsMetadata'
  BY <1>1, <1>2, Constants DEF Ind, Counted, Swept, Evicting, DirectoryKeepsMetadata, Total, Wrap, Recent, TypeOK
<1> QED BY <1>3, <1>4, <1>5, <1>6 DEF Ind

LEMMA SetAttrStep == ASSUME Ind, SetAttr PROVE Ind'
<1> USE DEF SetAttr, Forestall
<1>1. TypeOK /\ (directory \/ handles = {})
  BY DEF Ind
<1>2. /\ handles \subseteq Fds /\ surplus \in Int /\ Cardinality(handles) \in Nat /\ Cardinality({}) = 0
      /\ opens \in Nat /\ count \in Int
  BY <1>1, HandlesFinite, FS_EmptySet, Constants DEF TypeOK
<1>3. TypeOK'
  <2>1. /\ exists' \in BOOLEAN /\ metadata' \in BOOLEAN /\ directory' \in BOOLEAN /\ expired' \in BOOLEAN
        /\ undefined' \in BOOLEAN /\ raced' \in BOOLEAN
        /\ worker' \in {"idle", "dropDirectory", "between", "dropMetadata", "lost"}
    BY <1>1 DEF TypeOK, Keeps
  <2>2. policy' \in Policies /\ handles' \in SUBSET Fds /\ stale' \in SUBSET (Fds \ handles')
    BY <1>1 DEF TypeOK
  <2>3. count' \in 0 .. CountMod - 1 /\ opens' \in 0 .. MaxOpens /\ surplus' \in Int
    BY <1>1, <1>2, Constants DEF TypeOK
  <2> QED BY <2>1, <2>2, <2>3 DEF TypeOK
<1>4. directory' \/ handles' = {}
  BY <1>1
<1>5. policy = "hold_closed_cache_for" \/ policy = "evict_on_last_close"
  BY <1>1, PoliciesAssumption DEF TypeOK
<1>6. policy = "evict_on_last_close" => count > 0
  <2>1. policy = "evict_on_last_close" => Total >= 1
    BY DEF Ind, Evicting
  <2> QED BY <2>1, Totals DEF Wrap
<1>7. metadata' /\ Total' = Total /\ surplus' = surplus /\ worker' = worker
  <2>1. Keeps(count, policy = "hold_closed_cache_for") = TRUE
    BY <1>5, <1>6 DEF Keeps
  <2>2. metadata' = TRUE /\ surplus' = surplus /\ worker' = worker
    BY <2>1
  <2> QED BY <2>2 DEF Total
<1>8. ~undefined' => Counted' /\ NothingCached'
  <2>1. surplus >= -opens /\ Total \in Int /\ Total <= 2 * opens /\ count = Wrap(Total)
    BY Totals
  <2>2. opens' = opens + 1 /\ count' = count
    OBVIOUS
  <2> QED BY <1>2, <1>7, <2>1, <2>2 DEF Counted, NothingCached, Wrap
<1>9. ~undefined' => Swept' /\ Evicting' /\ DirectoryKeepsMetadata'
  <2>1. CASE policy = "hold_closed_cache_for"
    BY <1>7, <2>1 DEF Ind, Swept, Evicting, DirectoryKeepsMetadata, Recent
  <2>2. CASE policy = "evict_on_last_close"
    BY <1>6, <1>7, <2>2 DEF Ind, Swept, Evicting, DirectoryKeepsMetadata
  <2> QED BY <1>5, <2>1, <2>2
<1> QED BY <1>3, <1>4, <1>8, <1>9 DEF Ind

LEMMA ExpireStep == ASSUME Ind, Expire PROVE Ind'
<1> USE DEF Expire
<1>1. TypeOK /\ (directory \/ handles = {})
  BY DEF Ind
<1>2. /\ handles \subseteq Fds /\ surplus \in Int /\ Cardinality(handles) \in Nat /\ Cardinality({}) = 0
      /\ opens \in Nat /\ count \in Int
  BY <1>1, HandlesFinite, FS_EmptySet, Constants DEF TypeOK
<1>3. TypeOK'
  <2>1. /\ exists' \in BOOLEAN /\ metadata' \in BOOLEAN /\ directory' \in BOOLEAN /\ expired' \in BOOLEAN
        /\ undefined' \in BOOLEAN /\ raced' \in BOOLEAN
        /\ worker' \in {"idle", "dropDirectory", "between", "dropMetadata", "lost"}
    BY <1>1 DEF TypeOK
  <2>2. policy' \in Policies /\ handles' \in SUBSET Fds /\ stale' \in SUBSET (Fds \ handles')
    BY <1>1 DEF TypeOK
  <2>3. count' \in 0 .. CountMod - 1 /\ opens' \in 0 .. MaxOpens /\ surplus' \in Int
    BY <1>1, <1>2, Constants DEF TypeOK
  <2> QED BY <2>1, <2>2, <2>3 DEF TypeOK
<1>4. directory' \/ handles' = {}
  BY <1>1
<1>5. ~undefined' => Counted' /\ NothingCached'
  BY <1>1, <1>2, Constants DEF Ind, Counted, NothingCached, Total, Wrap
<1>6. ~undefined' => Swept' /\ Evicting' /\ DirectoryKeepsMetadata'
  BY <1>1, <1>2, Constants DEF Ind, Counted, Swept, Evicting, DirectoryKeepsMetadata, Total, Wrap, Recent, TypeOK
<1> QED BY <1>3, <1>4, <1>5, <1>6 DEF Ind

LEMMA LookAtDirectoryStep == ASSUME Ind, LookAtDirectory PROVE Ind'
<1> USE DEF LookAtDirectory
<1>1. TypeOK /\ (directory \/ handles = {})
  BY DEF Ind
<1>2. /\ handles \subseteq Fds /\ surplus \in Int /\ Cardinality(handles) \in Nat /\ Cardinality({}) = 0
      /\ opens \in Nat /\ count \in Int
  BY <1>1, HandlesFinite, FS_EmptySet, Constants DEF TypeOK
<1>3. TypeOK'
  <2>1. /\ exists' \in BOOLEAN /\ metadata' \in BOOLEAN /\ directory' \in BOOLEAN /\ expired' \in BOOLEAN
        /\ undefined' \in BOOLEAN /\ raced' \in BOOLEAN
        /\ worker' \in {"idle", "dropDirectory", "between", "dropMetadata", "lost"}
    BY <1>1 DEF TypeOK
  <2>2. policy' \in Policies /\ handles' \in SUBSET Fds /\ stale' \in SUBSET (Fds \ handles')
    BY <1>1 DEF TypeOK
  <2>3. count' \in 0 .. CountMod - 1 /\ opens' \in 0 .. MaxOpens /\ surplus' \in Int
    BY <1>1, <1>2, Constants DEF TypeOK
  <2> QED BY <2>1, <2>2, <2>3 DEF TypeOK
<1>4. directory' \/ handles' = {}
  BY <1>1
<1>5. ~undefined' => Counted' /\ NothingCached'
  BY <1>1, <1>2, Constants DEF Ind, Counted, NothingCached, Total, Wrap
<1>6. ~undefined' => Swept' /\ Evicting' /\ DirectoryKeepsMetadata'
  BY <1>1, <1>2, Constants DEF Ind, Counted, Swept, Evicting, DirectoryKeepsMetadata, Total, Wrap, Recent, TypeOK, Keeps, Alive
<1> QED BY <1>3, <1>4, <1>5, <1>6 DEF Ind

LEMMA DropDirectoryStep == ASSUME Ind, DropDirectory PROVE Ind'
<1> USE DEF DropDirectory
<1>1. TypeOK /\ (directory \/ handles = {})
  BY DEF Ind
<1>2. /\ handles \subseteq Fds /\ surplus \in Int /\ Cardinality(handles) \in Nat /\ Cardinality({}) = 0
      /\ opens \in Nat /\ count \in Int
  BY <1>1, HandlesFinite, FS_EmptySet, Constants DEF TypeOK
<1>3. TypeOK'
  <2>1. /\ exists' \in BOOLEAN /\ metadata' \in BOOLEAN /\ directory' \in BOOLEAN /\ expired' \in BOOLEAN
        /\ undefined' \in BOOLEAN /\ raced' \in BOOLEAN
        /\ worker' \in {"idle", "dropDirectory", "between", "dropMetadata", "lost"}
    BY <1>1 DEF TypeOK
  <2>2. policy' \in Policies /\ handles' \in SUBSET Fds /\ stale' \in SUBSET (Fds \ handles')
    BY <1>1 DEF TypeOK
  <2>3. count' \in 0 .. CountMod - 1 /\ opens' \in 0 .. MaxOpens /\ surplus' \in Int
    BY <1>1, <1>2, Constants DEF TypeOK
  <2> QED BY <2>1, <2>2, <2>3 DEF TypeOK
<1>4. directory' \/ handles' = {}
  BY <1>1
<1>5. ~undefined' => Counted' /\ NothingCached'
  <2>1. metadata /\ Total' = Total /\ surplus' >= surplus
    BY <1>2 DEF Ind, Swept, Total
  <2> QED BY <1>2, <2>1, Constants DEF Ind, Counted, NothingCached, Wrap, TypeOK
<1>6. ~undefined' => Swept' /\ Evicting' /\ DirectoryKeepsMetadata'
  BY <1>1, <1>2, Constants DEF Ind, Counted, Swept, Evicting, DirectoryKeepsMetadata, Total, Wrap, Recent, TypeOK
<1> QED BY <1>3, <1>4, <1>5, <1>6 DEF Ind

LEMMA LookAtMetadataStep == ASSUME Ind, LookAtMetadata PROVE Ind'
<1> USE DEF LookAtMetadata
<1>1. TypeOK /\ (directory \/ handles = {})
  BY DEF Ind
<1>2. /\ handles \subseteq Fds /\ surplus \in Int /\ Cardinality(handles) \in Nat /\ Cardinality({}) = 0
      /\ opens \in Nat /\ count \in Int
  BY <1>1, HandlesFinite, FS_EmptySet, Constants DEF TypeOK
<1>3. TypeOK'
  <2>1. /\ exists' \in BOOLEAN /\ metadata' \in BOOLEAN /\ directory' \in BOOLEAN /\ expired' \in BOOLEAN
        /\ undefined' \in BOOLEAN /\ raced' \in BOOLEAN
        /\ worker' \in {"idle", "dropDirectory", "between", "dropMetadata", "lost"}
    BY <1>1 DEF TypeOK
  <2>2. policy' \in Policies /\ handles' \in SUBSET Fds /\ stale' \in SUBSET (Fds \ handles')
    BY <1>1 DEF TypeOK
  <2>3. count' \in 0 .. CountMod - 1 /\ opens' \in 0 .. MaxOpens /\ surplus' \in Int
    BY <1>1, <1>2, Constants DEF TypeOK
  <2> QED BY <2>1, <2>2, <2>3 DEF TypeOK
<1>4. directory' \/ handles' = {}
  BY <1>1
<1>5. ~undefined' => Counted' /\ NothingCached'
  BY <1>1, <1>2, Constants DEF Ind, Counted, NothingCached, Total, Wrap
<1>6. ~undefined' => Swept' /\ Evicting' /\ DirectoryKeepsMetadata'
  BY <1>1, <1>2, Constants DEF Ind, Counted, Swept, Evicting, DirectoryKeepsMetadata, Total, Wrap, Recent, TypeOK, Keeps, Alive
<1> QED BY <1>3, <1>4, <1>5, <1>6 DEF Ind

LEMMA DropMetadataStep == ASSUME Ind, DropMetadata PROVE Ind'
<1> USE DEF DropMetadata
<1>1. TypeOK /\ (directory \/ handles = {})
  BY DEF Ind
<1>2. /\ handles \subseteq Fds /\ surplus \in Int /\ Cardinality(handles) \in Nat /\ Cardinality({}) = 0
      /\ opens \in Nat /\ count \in Int
  BY <1>1, HandlesFinite, FS_EmptySet, Constants DEF TypeOK
<1>3. TypeOK'
  <2>1. /\ exists' \in BOOLEAN /\ metadata' \in BOOLEAN /\ directory' \in BOOLEAN /\ expired' \in BOOLEAN
        /\ undefined' \in BOOLEAN /\ raced' \in BOOLEAN
        /\ worker' \in {"idle", "dropDirectory", "between", "dropMetadata", "lost"}
    BY <1>1 DEF TypeOK
  <2>2. policy' \in Policies /\ handles' \in SUBSET Fds /\ stale' \in SUBSET (Fds \ handles')
    BY <1>1 DEF TypeOK
  <2>3. count' \in 0 .. CountMod - 1 /\ opens' \in 0 .. MaxOpens /\ surplus' \in Int
    BY <1>1, <1>2, Constants DEF TypeOK
  <2> QED BY <2>1, <2>2, <2>3 DEF TypeOK
<1>4. directory' \/ handles' = {}
  BY <1>1
<1>5. ~undefined' => Counted' /\ NothingCached'
  BY <1>1, <1>2, Constants DEF Ind, Counted, NothingCached, Total, Wrap
<1>6. ~undefined' => Swept' /\ Evicting' /\ DirectoryKeepsMetadata'
  BY <1>1, <1>2, Constants DEF Ind, Counted, Swept, Evicting, DirectoryKeepsMetadata, Total, Wrap, Recent, TypeOK
<1> QED BY <1>3, <1>4, <1>5, <1>6 DEF Ind

LEMMA DropLostStep == ASSUME Ind, DropLost PROVE Ind'
<1> USE DEF DropLost
<1>1. TypeOK /\ (directory \/ handles = {})
  BY DEF Ind
<1>2. /\ handles \subseteq Fds /\ surplus \in Int /\ Cardinality(handles) \in Nat /\ Cardinality({}) = 0
      /\ opens \in Nat /\ count \in Int
  BY <1>1, HandlesFinite, FS_EmptySet, Constants DEF TypeOK
<1>3. TypeOK'
  <2>1. /\ exists' \in BOOLEAN /\ metadata' \in BOOLEAN /\ directory' \in BOOLEAN /\ expired' \in BOOLEAN
        /\ undefined' \in BOOLEAN /\ raced' \in BOOLEAN
        /\ worker' \in {"idle", "dropDirectory", "between", "dropMetadata", "lost"}
    BY <1>1 DEF TypeOK
  <2>2. policy' \in Policies /\ handles' \in SUBSET Fds /\ stale' \in SUBSET (Fds \ handles')
    BY <1>1 DEF TypeOK
  <2>3. count' \in 0 .. CountMod - 1 /\ opens' \in 0 .. MaxOpens /\ surplus' \in Int
    BY <1>1, <1>2, Constants DEF TypeOK
  <2> QED BY <2>1, <2>2, <2>3 DEF TypeOK
<1>4. directory' \/ handles' = {}
  BY <1>1
<1>5. ~undefined' => Counted' /\ NothingCached'
  BY <1>1, <1>2, Constants DEF Ind, Counted, NothingCached, Total, Wrap
<1>6. ~undefined' => Swept' /\ Evicting' /\ DirectoryKeepsMetadata'
  BY <1>1, <1>2, Constants DEF Ind, Counted, Swept, Evicting, DirectoryKeepsMetadata, Total, Wrap, Recent, TypeOK
<1> QED BY <1>3, <1>4, <1>5, <1>6 DEF Ind

LEMMA RemountStep == ASSUME Ind, Remount PROVE Ind'
<1> USE DEF Remount
<1>1. TypeOK /\ (directory \/ handles = {})
  BY DEF Ind
<1>2. /\ handles \subseteq Fds /\ surplus \in Int /\ Cardinality(handles) \in Nat /\ Cardinality({}) = 0
      /\ opens \in Nat /\ count \in Int
  BY <1>1, HandlesFinite, FS_EmptySet, Constants DEF TypeOK
<1>3. TypeOK'
  <2>1. /\ exists' \in BOOLEAN /\ metadata' \in BOOLEAN /\ directory' \in BOOLEAN /\ expired' \in BOOLEAN
        /\ undefined' \in BOOLEAN /\ raced' \in BOOLEAN
        /\ worker' \in {"idle", "dropDirectory", "between", "dropMetadata", "lost"}
    BY <1>1 DEF TypeOK
  <2>2. policy' \in Policies /\ handles' \in SUBSET Fds /\ stale' \in SUBSET (Fds \ handles')
    BY <1>1 DEF TypeOK
  <2>3. count' \in 0 .. CountMod - 1 /\ opens' \in 0 .. MaxOpens /\ surplus' \in Int
    BY <1>1, <1>2, Constants DEF TypeOK
  <2> QED BY <2>1, <2>2, <2>3 DEF TypeOK
<1>4. directory' \/ handles' = {}
  BY <1>1
<1>5. ~undefined' => Counted' /\ NothingCached'
  BY <1>1, <1>2, Constants DEF Ind, Counted, NothingCached, Total, Wrap
<1>6. ~undefined' => Swept' /\ Evicting' /\ DirectoryKeepsMetadata'
  BY <1>1, <1>2, Constants DEF Ind, Counted, Swept, Evicting, DirectoryKeepsMetadata, Total, Wrap, Recent, TypeOK
<1> QED BY <1>3, <1>4, <1>5, <1>6 DEF Ind

LEMMA UseStaleStep == ASSUME Ind, NEW d \in Fds, UseStale(d) PROVE Ind'
<1> USE DEF UseStale
<1>1. TypeOK /\ (directory \/ handles = {})
  BY DEF Ind
<1>2. /\ handles \subseteq Fds /\ surplus \in Int /\ Cardinality(handles) \in Nat /\ Cardinality({}) = 0
      /\ opens \in Nat /\ count \in Int
  BY <1>1, HandlesFinite, FS_EmptySet, Constants DEF TypeOK
<1>3. TypeOK'
  <2>1. /\ exists' \in BOOLEAN /\ metadata' \in BOOLEAN /\ directory' \in BOOLEAN /\ expired' \in BOOLEAN
        /\ undefined' \in BOOLEAN /\ raced' \in BOOLEAN
        /\ worker' \in {"idle", "dropDirectory", "between", "dropMetadata", "lost"}
    BY <1>1 DEF TypeOK
  <2>2. policy' \in Policies /\ handles' \in SUBSET Fds /\ stale' \in SUBSET (Fds \ handles')
    BY <1>1 DEF TypeOK
  <2>3. count' \in 0 .. CountMod - 1 /\ opens' \in 0 .. MaxOpens /\ surplus' \in Int
    BY <1>1, <1>2, Constants DEF TypeOK
  <2> QED BY <2>1, <2>2, <2>3 DEF TypeOK
<1>4. directory' \/ handles' = {}
  BY <1>1
<1>5. ~undefined' => Counted' /\ NothingCached'
  BY <1>1, <1>2, Constants DEF Ind, Counted, NothingCached, Total, Wrap
<1>6. ~undefined' => Swept' /\ Evicting' /\ DirectoryKeepsMetadata'
  BY <1>1, <1>2, Constants DEF Ind, Counted, Swept, Evicting, DirectoryKeepsMetadata, Total, Wrap, Recent, TypeOK
<1> QED BY <1>3, <1>4, <1>5, <1>6 DEF Ind

LEMMA UseDestroyedStep == ASSUME Ind, UseDestroyed PROVE Ind'
<1> USE DEF UseDestroyed
<1>1. TypeOK /\ (directory \/ handles = {})
  BY DEF Ind
<1>2. /\ handles \subseteq Fds /\ surplus \in Int /\ Cardinality(handles) \in Nat /\ Cardinality({}) = 0
      /\ opens \in Nat /\ count \in Int
  BY <1>1, HandlesFinite, FS_EmptySet, Constants DEF TypeOK
<1>3. TypeOK'
  <2>1. /\ exists' \in BOOLEAN /\ metadata' \in BOOLEAN /\ directory' \in BOOLEAN /\ expired' \in BOOLEAN
        /\ undefined' \in BOOLEAN /\ raced' \in BOOLEAN
        /\ worker' \in {"idle", "dropDirectory", "between", "dropMetadata", "lost"}
    BY <1>1 DEF TypeOK
  <2>2. policy' \in Policies /\ handles' \in SUBSET Fds /\ stale' \in SUBSET (Fds \ handles')
    BY <1>1 DEF TypeOK
  <2>3. count' \in 0 .. CountMod - 1 /\ opens' \in 0 .. MaxOpens /\ surplus' \in Int
    BY <1>1, <1>2, Constants DEF TypeOK
  <2> QED BY <2>1, <2>2, <2>3 DEF TypeOK
<1>4. directory' \/ handles' = {}
  BY <1>1
<1>5. ~undefined' => Counted' /\ NothingCached'
  BY <1>1, <1>2, Constants DEF Ind, Counted, NothingCached, Total, Wrap
<1>6. ~undefined' => Swept' /\ Evicting' /\ DirectoryKeepsMetadata'
  BY <1>1, <1>2, Constants DEF Ind, Counted, Swept, Evicting, DirectoryKeepsMetadata, Total, Wrap, Recent, TypeOK
<1> QED BY <1>3, <1>4, <1>5, <1>6 DEF Ind

LEMMA Inductive == Ind /\ [Next]_vars => Ind'
<1> SUFFICES ASSUME Ind, [Next]_vars PROVE Ind'
  OBVIOUS
<1>1. CASE UNCHANGED vars
  BY <1>1 DEF vars, Ind, TypeOK, Counted, NothingCached, Swept, Evicting, DirectoryKeepsMetadata,
              Total, Recent
<1>2. CASE Worker
  BY <1>2, LookAtDirectoryStep, DropDirectoryStep, LookAtMetadataStep, DropMetadataStep,
     DropLostStep, UseDestroyedStep DEF Worker
<1>3. CASE \E d \in Fds : OpenDir(d) \/ ReleaseDir(d) \/ UseStale(d)
  BY <1>3, OpenDirStep, ReleaseStep, UseStaleStep
<1>4. CASE Use \/ Mkdir \/ Rmdir \/ SetAttr \/ Expire \/ Remount
  BY <1>4, UseStep, MkdirStep, RmdirStep, SetAttrStep, ExpireStep, RemountStep
<1> QED BY <1>1, <1>2, <1>3, <1>4 DEF Next

LEMMA Invariant == Spec => []Ind
<1>1. Init => Ind
  BY Initially
<1> QED BY <1>1, Inductive, PTL DEF Spec

-----------------------------------------------------------------------------
(* The theorems.                                                           *)

\* The variables of DirectoryCache keep their types.
THEOREM TypeCorrect == Spec => []TypeOK
<1>1. Ind => TypeOK
  BY DEF Ind
<1> QED BY <1>1, Invariant, PTL

\* open_count is the handles and the surplus, wrapped around at most once: a reference
\* is missing when open_directory read the directory again (directory_open_context.hpp:36).
THEOREM CountIsExact == Spec => []CountExact
<1>1. Ind => CountExact
  BY DEF Ind, CountExact, Counted, Total, Wrap
<1> QED BY <1>1, Invariant, PTL

\* A cached directory keeps the metadata it refers to, under both policies and with the
\* worker's keep_cache and erase apart, unless the round was raced: the time ran out in it,
\* opendir left a count of zero, or a handler opened the directory between the keep_cache
\* and the erase of its metadata (cache_store.impl.hpp:83-88, 333-334).
THEOREM MetadataIsKept == Spec => []DirectoryKeepsMetadata
<1>1. Ind => DirectoryKeepsMetadata
  BY DEF Ind, DirectoryKeepsMetadata
<1> QED BY <1>1, Invariant, PTL

\* The handles a step makes stale.
Lost == \E d \in handles : d \in stale'

LEMMA UseLoses == ASSUME Ind, Use, Lost PROVE surplus < 0
<1>0. /\ Alive /\ Close(Plus(Added - 1), surplus + Added - 1 + Cardinality(Orphaned),
                        handles \ Orphaned, Orphaned, Found # "cached")
  BY DEF Use, CanOpen
<1>1. /\ handles \subseteq Fds /\ surplus \in Int /\ Cardinality(handles) \in Nat
      /\ handles \cap stale = {} /\ handles # {}
  BY HandlesFinite DEF Ind, TypeOK, Lost
<1>2. Cardinality(handles) >= 1
  BY <1>1, HandlesFinite
<1>3. CASE Found = "reread"
  BY <1>0, <1>1, <1>2, <1>3, FoundFacts DEF Total
<1>4. CASE Found = "cached"
  <2>1. /\ Added = 2 /\ Orphaned = {} /\ Total \in Int /\ Total >= -MaxOpens
        /\ Total <= 2 * MaxOpens /\ count = Wrap(Total)
    BY <1>0, <1>4, FoundFacts, Totals DEF Alive
  <2>2. Plus(1) = Wrap(Total + 1)
    BY <2>1, PlusExact
  <2>3. Close(Plus(1), surplus + 1 + Cardinality({}), handles, {}, FALSE)
    <3>1. Added - 1 = 1 /\ surplus + Added - 1 = surplus + 1 /\ handles \ Orphaned = handles
      BY <1>1, <2>1
    <3> QED BY <1>0, <1>4, <2>1, <3>1
  <2>4. ~Keeps(Plus(1), policy = "hold_closed_cache_for")
    BY <1>1, <2>3 DEF Close, Lost
  <2>5. ~(Wrap(Total + 1) > 0)
    BY <2>2, <2>4 DEF Keeps
  <2>6. Total + 1 <= 0
    BY <2>1, <2>5, Constants DEF Wrap
  <2> QED BY <1>1, <1>2, <2>1, <2>6 DEF Total
<1>5. CASE Found = "loaded"
  BY <1>0, <1>1, <1>5, FoundFacts
<1> QED BY <1>0, <1>3, <1>4, <1>5, FoundFacts

LEMMA OpenDirLoses == ASSUME Ind, NEW d \in Fds, OpenDir(d), Lost PROVE surplus < 0
<1>0. Alive /\ stale' = stale \cup Orphaned
  BY DEF OpenDir, CanOpen
<1>1. /\ handles \subseteq Fds /\ surplus \in Int /\ Cardinality(handles) \in Nat
      /\ handles \cap stale = {} /\ handles # {}
  BY HandlesFinite DEF Ind, TypeOK, Lost
<1>2. Cardinality(handles) >= 1
  BY <1>1, HandlesFinite
<1>3. Found = "reread"
  BY <1>0, <1>1, FoundFacts DEF Lost
<1> QED BY <1>0, <1>1, <1>2, <1>3, FoundFacts DEF Total

LEMMA ReleaseLoses == ASSUME Ind, NEW d \in Fds, ReleaseDir(d), Lost PROVE surplus < 0
<1>0. Alive /\ d \in handles /\ Close(Plus(-1), surplus, handles \ {d}, {}, FALSE)
  BY DEF ReleaseDir
<1>1. /\ handles \subseteq Fds /\ surplus \in Int /\ handles \cap stale = {}
      /\ handles \ {d} \subseteq Fds /\ ~undefined /\ metadata
  BY <1>0 DEF Ind, TypeOK, Alive
<1>2. PICK e \in handles : e \in stale'
  BY DEF Lost
<1>3. ~Keeps(Plus(-1), policy = "hold_closed_cache_for") /\ e \in handles \ {d}
  BY <1>0, <1>1, <1>2 DEF Close
<1>4. Cardinality(handles \ {d}) \in Nat /\ Cardinality(handles \ {d}) >= 1
  BY <1>1, <1>3, HandlesFinite
<1>5. Cardinality(handles) = Cardinality(handles \ {d}) + 1
  <2>1. Cardinality(handles \ {d}) = Cardinality(handles) - 1
    BY <1>0, <1>1, HandleRemoved
  <2>2. Cardinality(handles) \in Nat
    BY <1>1, HandlesFinite
  <2> QED BY <2>1, <2>2, <1>4
<1>6. /\ Total \in Int /\ Total >= -MaxOpens /\ Total <= 2 * MaxOpens /\ count = Wrap(Total)
  BY <1>1, Totals
<1>7. Plus(-1) = Wrap(Total + (-1))
  BY <1>6, PlusExact
<1>8. ~(Wrap(Total + (-1)) > 0)
  BY <1>3, <1>7 DEF Keeps
<1>9. Total <= 1
  BY <1>6, <1>8, Constants DEF Wrap
<1> QED BY <1>1, <1>4, <1>5, <1>6, <1>9 DEF Total

LEMMA DropLoses == ASSUME Ind, DropDirectory, Lost PROVE surplus < 0 \/ count > 0
<1>1. /\ handles \subseteq Fds /\ surplus \in Int /\ Cardinality(handles) \in Nat /\ handles # {}
      /\ count \in 0 .. CountMod - 1
  BY HandlesFinite DEF Ind, TypeOK, Lost
<1>2. Cardinality(handles) >= 1
  BY <1>1, HandlesFinite
<1>3. metadata /\ ~undefined
  BY DEF DropDirectory, Ind, Swept
<1>4. Total \in Int /\ (count = 0 <=> Total = 0)
  BY <1>3, Totals
<1> QED BY <1>1, <1>2, <1>4, Constants DEF Total

\* How a handle may be lost.
Excused ==
  \/ ~exists'
  \/ surplus < 0
  \/ worker = "dropDirectory" /\ worker' = "between" /\ count > 0

LEMMA HandlesStayStep == Ind /\ [Next]_vars => (Lost => Excused)
<1> SUFFICES ASSUME Ind, [Next]_vars, Lost PROVE Excused
  OBVIOUS
<1>0. handles \cap stale = {}
  BY DEF Ind, TypeOK
<1>1. CASE stale' = stale
  BY <1>0, <1>1 DEF Lost
<1>2. UNCHANGED vars => stale' = stale
  BY DEF vars
<1>3. CASE Worker
  <2>1. LookAtDirectory \/ LookAtMetadata \/ DropMetadata \/ DropLost \/ UseDestroyed => stale' = stale
    BY DEF LookAtDirectory, LookAtMetadata, DropMetadata, DropLost, UseDestroyed
  <2>2. CASE DropDirectory
    BY <2>2, DropLoses DEF Excused, DropDirectory
  <2> QED BY <1>1, <1>3, <2>1, <2>2 DEF Worker
<1>4. CASE \E d \in Fds : OpenDir(d) \/ ReleaseDir(d) \/ UseStale(d)
  <2>1. ASSUME NEW d \in Fds, UseStale(d) PROVE stale' = stale
    BY <2>1 DEF UseStale
  <2> QED BY <1>1, <1>4, <2>1, OpenDirLoses, ReleaseLoses DEF Excused
<1>5. CASE Use
  BY <1>5, UseLoses DEF Excused
<1>6. CASE Rmdir
  BY <1>6 DEF Rmdir, Excused
<1>7. Mkdir \/ SetAttr \/ Expire \/ Remount => stale' = stale
  BY DEF Mkdir, SetAttr, Expire, Remount
<1> QED BY <1>1, <1>2, <1>3, <1>4, <1>5, <1>6, <1>7 DEF Next

Decides == worker = "idle" /\ worker' = "dropDirectory"

LEMMA DecideStep == Ind /\ [Next]_vars => (Decides => handles = {} \/ surplus < 0)
<1> SUFFICES ASSUME Ind, [Next]_vars, Decides, handles # {} PROVE surplus < 0
  OBVIOUS
<1>1. LookAtDirectory
  <2>1. worker' # worker /\ worker = "idle" /\ worker' = "dropDirectory"
    BY DEF Decides
  <2>2. UNCHANGED vars => worker' = worker
    BY DEF vars
  <2>4. Use \/ Rmdir \/ SetAttr => worker' = worker \/ worker' = "lost"
    BY Zenon, <2>1 DEF Use, Rmdir, SetAttr, Close, Forestall
  <2>5. ASSUME NEW d \in Fds, OpenDir(d) \/ ReleaseDir(d) \/ UseStale(d)
        PROVE  worker' = worker \/ worker' = "lost"
    BY <2>5 DEF OpenDir, ReleaseDir, UseStale, Close, Forestall
  <2>6. Mkdir \/ Expire \/ Remount => worker' = worker
    BY DEF Mkdir, Expire, Remount
  <2>7. DropDirectory \/ LookAtMetadata \/ DropMetadata \/ DropLost \/ UseDestroyed
          => worker # "idle" \/ worker' = worker
    BY DEF DropDirectory, LookAtMetadata, DropMetadata, DropLost, UseDestroyed
  <2> QED BY <2>1, <2>2, <2>4, <2>5, <2>6, <2>7 DEF Next, Worker
<1>2. directory /\ Alive /\ ~Keeps(count, Recent)
  BY <1>1 DEF LookAtDirectory, Decides
<1>3. /\ handles \subseteq Fds /\ surplus \in Int /\ Cardinality(handles) \in Nat
      /\ count \in 0 .. CountMod - 1
  BY HandlesFinite DEF Ind, TypeOK
<1>4. metadata /\ ~undefined
  BY <1>2 DEF Alive
<1>5. Total \in Int /\ (count = 0 <=> Total = 0)
  BY <1>4, Totals
<1>6. count = 0
  BY <1>2, <1>3, Constants DEF Keeps
<1>7. Cardinality(handles) >= 1
  BY <1>3, HandlesFinite
<1> QED BY <1>3, <1>5, <1>6, <1>7 DEF Total

\* A sweep never decides to drop a directory with a handle whose re-reads were all
\* counted, and such a directory is destroyed by rmdir, or by a sweep whose keep_cache is
\* older than an open that counted (cache_store.impl.hpp:161-178, 199-204, 229); in no
\* other way.
THEOREM HandlesAlwaysStay == Spec => HandlesStay
<1>1. Ind /\ [Next]_vars =>
        [/\ worker = "idle" /\ worker' = "dropDirectory" => handles = {} \/ surplus < 0
         /\ (\E d \in handles : d \in stale') =>
              \/ ~exists'
              \/ surplus < 0
              \/ worker = "dropDirectory" /\ worker' = "between" /\ count > 0]_vars
  BY HandlesStayStep, DecideStep DEF Lost, Excused, Decides
<1> QED BY <1>1, Invariant, PTL DEF Spec, HandlesStay

=============================================================================
