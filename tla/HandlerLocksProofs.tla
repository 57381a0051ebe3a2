------------------------ MODULE HandlerLocksProofs ------------------------
(***************************************************************************)
(* Theorems about HandlerLocks, for any number of threads and any tree of  *)
(* directories: handlers never wait for each other for ever, leave no      *)
(* mutex locked, and never race on a directory's files but when one        *)
(* destroys a directory that expired or that the policy drops.             *)
(*                                                                         *)
(* A handler's program is shown to be safe by itself first: whatever it    *)
(* chooses and wherever it throws, it locks a mutex only while it holds    *)
(* what goes before that mutex in a fixed order, it looks at a directory's *)
(* files only under a lock or a path node that is for it, and it ends with *)
(* no lock.  Safety of a program is a set of states that has the program   *)
(* and is closed under its steps; the programs are put together from       *)
(* pieces, as in the model, and so are the proofs.  The threads meet in    *)
(* the last part only, where each has taken safe steps so far and the      *)
(* kernel and libfuse keep apart those that exclude each other.            *)
(***************************************************************************)
EXTENDS HandlerLocks, FiniteSetTheorems, SequenceTheorems, TLAPS

-----------------------------------------------------------------------------
(* Sequences of steps.                                                     *)

IsSeq(p) == \E S : p \in Seq(S)

\* The empty program is one.
LEMMA EmptyIsSeq == IsSeq(<< >>)
  BY EmptySeq DEF IsSeq

\* One step after the other, and programs of one step.
LEMMA OneStep == ASSUME NEW x PROVE IsSeq(<<x>>)
<1>1. <<x>> \in Seq({x})
  OBVIOUS
<1> QED
  BY <1>1 DEF IsSeq

\* Two programs, and three, are over one set of steps.
LEMMA Common ==
  ASSUME NEW p, IsSeq(p), NEW q, IsSeq(q), NEW z, IsSeq(z)
  PROVE  \E S : p \in Seq(S) /\ q \in Seq(S) /\ z \in Seq(S)
<1>1. PICK A : p \in Seq(A)
  BY DEF IsSeq
<1>2. PICK B : q \in Seq(B)
  BY DEF IsSeq
<1>3. PICK C : z \in Seq(C)
  BY DEF IsSeq
<1> DEFINE S == A \cup B \cup C
<1>4. A \subseteq S /\ B \subseteq S /\ C \subseteq S
  OBVIOUS
<1>5. p \in Seq(S) /\ q \in Seq(S) /\ z \in Seq(S)
  BY <1>1, <1>2, <1>3, <1>4, SeqMonotonic
<1> QED
  BY <1>5

\* A program after another is a program, and three are the same in any brackets.
LEMMA Concat ==
  ASSUME NEW p, IsSeq(p), NEW q, IsSeq(q)
  PROVE  IsSeq(p \o q)
<1>1. PICK S : p \in Seq(S) /\ q \in Seq(S)
  BY Common
<1>2. p \o q \in Seq(S)
  BY <1>1, ConcatProperties
<1> QED
  BY <1>2 DEF IsSeq

LEMMA Brackets ==
  ASSUME NEW p, IsSeq(p), NEW q, IsSeq(q), NEW z, IsSeq(z)
  PROVE  (p \o q) \o z = p \o (q \o z)
<1>1. PICK S : p \in Seq(S) /\ q \in Seq(S) /\ z \in Seq(S)
  BY Common
<1> QED
  BY <1>1, ConcatAssociative

\* Nothing before or after a program.
LEMMA NoSteps == ASSUME NEW p, IsSeq(p) PROVE << >> \o p = p /\ p \o << >> = p
<1>1. PICK S : p \in Seq(S)
  BY DEF IsSeq
<1> QED
  BY <1>1, ConcatEmptySeq

\* The first step of a program, and the others.
LEMMA FirstStep ==
  ASSUME NEW x, NEW q, IsSeq(q)
  PROVE  /\ IsSeq(<<x>> \o q) /\ <<x>> \o q # << >>
         /\ Head(<<x>> \o q) = x /\ Tail(<<x>> \o q) = q
<1>1. PICK S : q \in Seq(S) /\ <<x>> \in Seq(S)
  BY Common, OneStep
<1> DEFINE p == <<x>> \o q
<1>2. p \in Seq(S) /\ Len(p) = 1 + Len(q)
  BY <1>1, ConcatProperties
<1>3. Len(q) \in Nat /\ \A i \in 1 .. 1 + Len(q) : p[i] = IF i <= 1 THEN <<x>>[i] ELSE q[i - 1]
  BY <1>1, ConcatProperties
<1>4. p # << >> /\ p[1] = x
  BY <1>2, <1>3
<1>5. Tail(p) \in Seq(S) /\ Len(Tail(p)) = Len(q)
      /\ \A i \in 1 .. Len(Tail(p)) : Tail(p)[i] = p[i + 1]
  BY <1>2, <1>3, <1>4, HeadTailProperties
<1>6. \A i \in 1 .. Len(q) : Tail(p)[i] = q[i]
  BY <1>3, <1>5
<1>7. Tail(p) = q
  BY <1>1, <1>5, <1>6, SeqEqual
<1>8. Head(p) = x
  BY <1>4
<1>9. IsSeq(p)
  BY <1>2 DEF IsSeq
<1> QED
  BY <1>4, <1>7, <1>8, <1>9

-----------------------------------------------------------------------------
(* What makes a handler's next step safe.                                  *)

\* The path nodes that libfuse locks for a request.
Nodes(r) == ReadNodes(r) \cup WriteNodes(r)

\* What a handler can lock for longer than a section: metadata, and the mutex of a
\* directory whose node is its own.
Lockable(r) ==
  {Metadata(p) : p \in Paths} \cup {Directory(d) : d \in WriteNodes(r) \cap DirPaths}
CacheMutexes == {CacheMutex, DirectoryCacheMutex}
LocksOn(ms) == [on : ms, mode : Modes, age : Nat]

\* A handler with the locks h is in no section of a map.
Calm(r, h) == IsFiniteSet(h) /\ h \subseteq LocksOn(Lockable(r))

\* The mutex m may be held while the metadata of x is locked: a directory's mutex,
\* the metadata of a child of a directory whose inode is locked, and that of
\* the old parent while a rename locks the new one.
Before(r, m, x) ==
  \/ \E d \in DirPaths : m = Directory(d)
  \/ \E y \in Paths \ {Root} : m = Metadata(y) /\ Parent(y) = x /\ x \in Inodes(r)
  \/ CrossDirectory(r) /\ m = Metadata(Parent(r.path)) /\ x = Parent(r.to)
Free(r, h, x) == Calm(r, h) /\ x \in Paths /\ \A l \in h : Before(r, l.on, x)

MayAcquire(r, h, ms, mode) ==
  /\ Calm(r, h) /\ mode \in Modes
  /\ \/ ms \subseteq CacheMutexes
     \/ \E d \in WriteNodes(r) \cap DirPaths : ms = {Directory(d)} /\ \A l \in h : l.on # Directory(d)
     \/ \E x \in Paths : ms = {Metadata(x)} /\ Free(r, h, x)

\* The entries of d are looked at under a lock of its metadata, and changed under a
\* unique one, or the node of d is the handler's own; they are destroyed in a section of
\* the directories' map.
Looks == {"read", "write", "destroy"}
MayAccess(r, h, what, d) ==
  IF what = "destroy" THEN \E l \in h : l.on = DirectoryCacheMutex /\ l.mode = "unique_lock"
  ELSE
    /\ d \in Nodes(r)
    /\ \/ d \in WriteNodes(r)
       \/ \E l \in h : l.on = Metadata(d) /\ (what = "write" => l.mode = "unique_lock")

\* c is the pair of the locks a handler holds and the steps it has left.
Local(r, c) ==
  /\ IsSeq(c[2]) /\ IsFiniteSet(c[1]) /\ c[1] \subseteq LocksOn(Lockable(r) \cup CacheMutexes)
  /\ c[2] = << >> => c[1] = {}
  /\ c[2] # << >> /\ Head(c[2]).do = "acquire"
       => MayAcquire(r, c[1], Head(c[2]).on, Head(c[2]).mode)
  /\ c[2] # << >> /\ Head(c[2]).do \in Looks
       => MayAccess(r, c[1], Head(c[2]).do, Head(c[2]).on)

\* What a handler with the locks h, the next step x and the later ones q becomes.
After(h, x, q) ==
  IF x.do = "acquire" THEN {<<Enter(h, x.on, x.mode), q>>}
  ELSE IF x.do = "release" THEN {<<Leave(h, x.on), q>>}
  ELSE IF x.do \in Looks THEN {<<h, q>>}
  ELSE IF x.do = "either" THEN {<<h, a \o q>> : a \in x.on}
  ELSE IF h = {} THEN {<<h, << >> >>}
  ELSE {<<h, Unwind(l.on) \o <<x>> >> : l \in h}
Succ(c) == IF c[2] = << >> THEN {} ELSE After(c[1], Head(c[2]), Tail(c[2]))

Closed(r, R) == \A c \in R : Local(r, c) /\ Succ(c) \subseteq R
Safe(r, c) == \E R : Closed(r, R) /\ c \in R

\* A safe handler may take its next step, and is safe after it.
LEMMA SafeUnfold ==
  ASSUME NEW r, NEW c, Safe(r, c)
  PROVE  Local(r, c) /\ \A d \in Succ(c) : Safe(r, d)
  BY Zenon DEF Safe, Closed

\* A handler that may take its next step, and is safe after it, is safe.
LEMMA SafeFold ==
  ASSUME NEW r, NEW c, Local(r, c), \A d \in Succ(c) : Safe(r, d)
  PROVE  Safe(r, c)
<1> DEFINE W(e) == CHOOSE X : Closed(r, X) /\ e \in X
           U == UNION {W(e) : e \in Succ(c)}
           R == U \cup {c}
<1>1. ASSUME NEW d \in Succ(c) PROVE Closed(r, W(d)) /\ d \in W(d)
  BY Zenon DEF Safe, W
<1> HIDE DEF W
<1>2. ASSUME NEW d \in R PROVE Local(r, d) /\ Succ(d) \subseteq R
  <2>1. CASE d = c
    BY <1>1, <2>1
  <2>2. CASE d # c
    <3>1. PICK e \in Succ(c) : d \in W(e)
      BY <2>2, Zenon
    <3>2. Local(r, d) /\ Succ(d) \subseteq W(e)
      BY <1>1, <3>1, Zenon DEF Closed
    <3> QED
      BY <3>2
  <2> QED
    BY <2>1, <2>2
<1>3. Closed(r, R)
  <2> HIDE DEF R
  <2> QED
    BY <1>2, Zenon DEF Closed
<1>4. c \in R
  OBVIOUS
<1> HIDE DEF R
<1> QED
  BY <1>3, <1>4, Zenon DEF Safe

-----------------------------------------------------------------------------
(* One step.                                                               *)

\* p takes a handler of r from the locks h to h2, whatever comes after it.
Runs(r, h, p, h2) ==
  IsSeq(p) /\ \A q : IsSeq(q) /\ Safe(r, <<h2, q>>) => Safe(r, <<h, p \o q>>)

\* A handler holds what a calm one does, or the mutex of a map too.
LEMMA CalmHolds ==
  ASSUME NEW r, NEW h, Calm(r, h)
  PROVE  IsFiniteSet(h) /\ h \subseteq LocksOn(Lockable(r) \cup CacheMutexes)
  BY DEF Calm, LocksOn

\* The end: no lock is held.
LEMMA SafeEnd == ASSUME NEW r PROVE Safe(r, <<{}, << >> >>)
<1> DEFINE c == <<{}, << >> >>
<1>1. Local(r, c)
  BY EmptyIsSeq, FS_EmptySet DEF Local
<1>2. Succ(c) = {}
  BY DEF Succ
<1> HIDE DEF c
<1>3. Safe(r, c)
  BY <1>1, <1>2, SafeFold
<1> QED
  BY <1>3 DEF c

\* What is locked is one finite set more.
LEMMA EnterHolds ==
  ASSUME NEW r, NEW h, NEW ms, NEW mode, MayAcquire(r, h, ms, mode)
  PROVE  /\ IsFiniteSet(Enter(h, ms, mode))
         /\ Enter(h, ms, mode) \subseteq LocksOn(Lockable(r) \cup CacheMutexes)
<1>1. IsFiniteSet(h) /\ h \subseteq LocksOn(Lockable(r) \cup CacheMutexes) /\ mode \in Modes
  BY CalmHolds DEF MayAcquire
<1>2. ms \subseteq Lockable(r) \cup CacheMutexes /\ IsFiniteSet(ms)
  <2>1. IsFiniteSet(CacheMutexes)
    <3>1. CacheMutexes = {CacheMutex} \cup {DirectoryCacheMutex}
      BY DEF CacheMutexes
    <3>2. IsFiniteSet({CacheMutex} \cup {DirectoryCacheMutex})
      BY FS_Singleton, FS_AddElement, Zenon
    <3> QED
      BY <3>1, <3>2
  <2>2. CASE ms \subseteq CacheMutexes
    BY <2>1, <2>2, FS_Subset
  <2>3. CASE \E d \in WriteNodes(r) \cap DirPaths : ms = {Directory(d)}
    BY <2>3, FS_Singleton DEF Lockable
  <2>4. CASE \E x \in Paths : ms = {Metadata(x)}
    BY <2>4, FS_Singleton DEF Lockable
  <2> QED
    BY <2>2, <2>3, <2>4 DEF MayAcquire
<1>3. Cardinality(h) \in Nat
  BY <1>1, FS_CardinalityType
<1> DEFINE lock == [m \in ms |-> [on |-> m, mode |-> mode, age |-> Cardinality(h)]]
           new == {[on |-> m, mode |-> mode, age |-> Cardinality(h)] : m \in ms}
<1>4. IsFiniteSet(new)
  <2>1. lock \in Surjection(ms, new)
    BY DEF Surjection
  <2> HIDE DEF lock, new
  <2> QED
    BY <1>2, <2>1, FS_Surjection
<1>5. new \subseteq LocksOn(Lockable(r) \cup CacheMutexes)
  BY <1>1, <1>2, <1>3 DEF LocksOn
<1> QED
  BY <1>1, <1>4, <1>5, FS_Union DEF Enter

\* A first step that is allowed, and safe whatever it does, makes a program safe.
LEMMA SafeStep ==
  ASSUME NEW r, NEW h, NEW x, NEW q, IsSeq(q),
         IsFiniteSet(h), h \subseteq LocksOn(Lockable(r) \cup CacheMutexes),
         x.do = "acquire" => MayAcquire(r, h, x.on, x.mode),
         x.do \in Looks => MayAccess(r, h, x.do, x.on),
         \A d \in After(h, x, q) : Safe(r, d)
  PROVE  Safe(r, <<h, <<x>> \o q>>)
<1> DEFINE p == <<x>> \o q
           c == <<h, p>>
<1>1. IsSeq(p) /\ p # << >> /\ Head(p) = x /\ Tail(p) = q
  BY FirstStep
<1>2. c[1] = h /\ c[2] = p
  OBVIOUS
<1> HIDE DEF p, c
<1>3. Local(r, c)
  BY <1>1, <1>2, Zenon DEF Local
<1>4. Succ(c) = After(h, x, q)
  BY <1>1, <1>2, Zenon DEF Succ
<1>5. Safe(r, c)
  BY <1>3, <1>4, SafeFold, Zenon
<1> QED
  BY <1>5, Zenon DEF c, p

\* Locking what may be locked.
LEMMA RunsAcquire ==
  ASSUME NEW r, NEW h, NEW ms, NEW mode, MayAcquire(r, h, ms, mode)
  PROVE  Runs(r, h, << Acquire(ms, mode) >>, Enter(h, ms, mode))
<1> DEFINE x == Acquire(ms, mode)
<1> SUFFICES ASSUME NEW q, IsSeq(q), Safe(r, <<Enter(h, ms, mode), q>>)
             PROVE  Safe(r, <<h, <<x>> \o q>>)
  BY OneStep, Zenon DEF Runs
<1>1. IsFiniteSet(h) /\ h \subseteq LocksOn(Lockable(r) \cup CacheMutexes)
  BY CalmHolds DEF MayAcquire
<1>2. x.do = "acquire" /\ x.on = ms /\ x.mode = mode
  BY DEF Acquire
<1> HIDE DEF x
<1>3. After(h, x, q) = {<<Enter(h, ms, mode), q>>}
  BY <1>2, Zenon DEF After
<1>4. MayAcquire(r, h, x.on, x.mode) /\ x.do \notin Looks
  BY <1>2 DEF Looks
<1> QED
  BY <1>1, <1>3, <1>4, SafeStep

\* Unlocking.
LEMMA RunsRelease ==
  ASSUME NEW r, NEW h, NEW ms, IsFiniteSet(h), h \subseteq LocksOn(Lockable(r) \cup CacheMutexes)
  PROVE  Runs(r, h, << [do |-> "release", on |-> ms] >>, Leave(h, ms))
<1> DEFINE x == [do |-> "release", on |-> ms]
<1> SUFFICES ASSUME NEW q, IsSeq(q), Safe(r, <<Leave(h, ms), q>>)
             PROVE  Safe(r, <<h, <<x>> \o q>>)
  BY OneStep, Zenon DEF Runs
<1>2. x.do = "release" /\ x.on = ms /\ x.do # "acquire" /\ x.do \notin Looks
  BY DEF Looks
<1> HIDE DEF x
<1>3. After(h, x, q) = {<<Leave(h, ms), q>>}
  BY <1>2, Zenon DEF After
<1> QED
  BY <1>2, <1>3, SafeStep

\* Looking at a directory's entries, and changing them.
LEMMA RunsRead ==
  ASSUME NEW r, NEW h, NEW d, Calm(r, h), MayAccess(r, h, "read", d)
  PROVE  Runs(r, h, Read(d), h)
<1> DEFINE x == [do |-> "read", on |-> d]
<1> SUFFICES ASSUME NEW q, IsSeq(q), Safe(r, <<h, q>>)
             PROVE  Safe(r, <<h, <<x>> \o q>>)
  BY OneStep, Zenon DEF Runs, Read
<1>1. IsFiniteSet(h) /\ h \subseteq LocksOn(Lockable(r) \cup CacheMutexes)
  BY CalmHolds
<1>2. x.do = "read" /\ x.on = d /\ x.do # "acquire" /\ x.do # "release" /\ x.do \in Looks
  BY DEF Looks
<1> HIDE DEF x
<1>3. After(h, x, q) = {<<h, q>>}
  BY <1>2, Zenon DEF After
<1> QED
  BY <1>1, <1>2, <1>3, SafeStep

LEMMA RunsWrite ==
  ASSUME NEW r, NEW h, NEW d, Calm(r, h), MayAccess(r, h, "write", d)
  PROVE  Runs(r, h, Write(d), h)
<1> DEFINE x == [do |-> "write", on |-> d]
<1> SUFFICES ASSUME NEW q, IsSeq(q), Safe(r, <<h, q>>)
             PROVE  Safe(r, <<h, <<x>> \o q>>)
  BY OneStep, Zenon DEF Runs, Write
<1>1. IsFiniteSet(h) /\ h \subseteq LocksOn(Lockable(r) \cup CacheMutexes)
  BY CalmHolds
<1>2. x.do = "write" /\ x.on = d /\ x.do # "acquire" /\ x.do # "release" /\ x.do \in Looks
  BY DEF Looks
<1> HIDE DEF x
<1>3. After(h, x, q) = {<<h, q>>}
  BY <1>2, Zenon DEF After
<1> QED
  BY <1>1, <1>2, <1>3, SafeStep

\* Destroying a directory in a section of the directories' map.
LEMMA RunsDestroy ==
  ASSUME NEW r, NEW h, NEW d, IsFiniteSet(h), h \subseteq LocksOn(Lockable(r) \cup CacheMutexes),
         MayAccess(r, h, "destroy", d)
  PROVE  Runs(r, h, << [do |-> "destroy", on |-> d] >>, h)
<1> DEFINE x == [do |-> "destroy", on |-> d]
<1> SUFFICES ASSUME NEW q, IsSeq(q), Safe(r, <<h, q>>)
             PROVE  Safe(r, <<h, <<x>> \o q>>)
  BY OneStep, Zenon DEF Runs
<1>1. x.do = "destroy" /\ x.on = d /\ x.do # "acquire" /\ x.do # "release" /\ x.do \in Looks
  BY DEF Looks
<1> HIDE DEF x
<1>2. After(h, x, q) = {<<h, q>>}
  BY <1>1, Zenon DEF After
<1> QED
  BY <1>1, <1>2, SafeStep

-----------------------------------------------------------------------------
(* Steps put together.                                                     *)

\* No steps.
LEMMA RunsEmpty == ASSUME NEW r, NEW h PROVE Runs(r, h, << >>, h)
<1> SUFFICES ASSUME NEW q, IsSeq(q), Safe(r, <<h, q>>)
             PROVE  Safe(r, <<h, << >> \o q>>)
  BY EmptyIsSeq, Zenon DEF Runs
<1> QED
  BY NoSteps

\* One program after the other.
LEMMA RunsThen ==
  ASSUME NEW r, NEW h, NEW p, NEW h1, NEW q, NEW h2, Runs(r, h, p, h1), Runs(r, h1, q, h2)
  PROVE  Runs(r, h, p \o q, h2)
<1>1. IsSeq(p) /\ IsSeq(q) /\ IsSeq(p \o q)
  BY Concat, Zenon DEF Runs
<1>2. ASSUME NEW z, IsSeq(z), Safe(r, <<h2, z>>) PROVE Safe(r, <<h, (p \o q) \o z>>)
  <2>1. Safe(r, <<h1, q \o z>>) /\ IsSeq(q \o z)
    BY <1>1, <1>2, Concat, Zenon DEF Runs
  <2>2. Safe(r, <<h, p \o (q \o z)>>)
    BY <2>1, Zenon DEF Runs
  <2>3. (p \o q) \o z = p \o (q \o z)
    BY <1>1, <1>2, Brackets
  <2> QED
    BY <2>2, <2>3
<1> QED
  BY <1>1, <1>2, Zenon DEF Runs

\* One of several programs, each of which leaves the same locks.
LEMMA RunsEither ==
  ASSUME NEW r, NEW h, NEW choices, NEW h2,
         IsFiniteSet(h), h \subseteq LocksOn(Lockable(r) \cup CacheMutexes),
         \A p \in choices : Runs(r, h, p, h2)
  PROVE  Runs(r, h, Either(choices), h2)
<1> DEFINE x == [do |-> "either", on |-> choices]
<1> SUFFICES ASSUME NEW q, IsSeq(q), Safe(r, <<h2, q>>)
             PROVE  Safe(r, <<h, <<x>> \o q>>)
  BY OneStep, Zenon DEF Runs, Either
<1>2. /\ x.do = "either" /\ x.on = choices /\ x.do # "acquire" /\ x.do # "release"
      /\ x.do \notin Looks
  BY DEF Looks
<1> HIDE DEF x
<1>3. After(h, x, q) = {<<h, a \o q>> : a \in choices}
  BY <1>2, Zenon DEF After
<1>4. \A a \in choices : Safe(r, <<h, a \o q>>)
  BY Zenon DEF Runs
<1>5. \A d \in After(h, x, q) : Safe(r, d)
  BY <1>3, <1>4
<1> QED
  BY <1>2, <1>5, SafeStep

\* A program, or none.
LEMMA RunsMaybe ==
  ASSUME NEW r, NEW h, NEW p, Calm(r, h), Runs(r, h, p, h)
  PROVE  Runs(r, h, Maybe(p), h)
<1>1. \A q \in {<< >>, p} : Runs(r, h, q, h)
  BY RunsEmpty
<1> QED
  BY <1>1, CalmHolds, RunsEither, Zenon DEF Maybe

-----------------------------------------------------------------------------
(* Locks.                                                                  *)

\* The parent of a path other than the root is a directory, and a shorter path.
LEMMA ParentShorter ==
  ASSUME NEW p \in Paths \ {Root}
  PROVE  /\ Parent(p) \in DirPaths /\ Parent(p) \in Paths /\ Parent(p) # p
         /\ Len(p) \in Nat /\ Len(Parent(p)) \in Nat /\ Len(Parent(p)) < Len(p)
<1>1. p \in Seq(STRING) /\ p # << >> /\ Parent(p) \in DirPaths
  BY PathsAssumption DEF Root
<1>2. Len(p) \in Nat \ {0} /\ \A i \in 1 .. Len(p) : p[i] \in STRING
  BY <1>1, EmptySeq, LenProperties
<1> DEFINE n == Len(p) - 1
<1>3. Len(SubSeq(p, 1, n)) = IF 1 <= n THEN (n - 1) + 1 ELSE 0
  BY <1>2, SubSeqProperties
<1>4. Len(Parent(p)) = Len(p) - 1
  <2>1. Parent(p) = SubSeq(p, 1, n)
    BY DEF Parent, Front
  <2>2. n \in Nat
    BY <1>2
  <2> HIDE DEF n
  <2>3. Len(Parent(p)) = n
    BY <1>3, <2>1, <2>2
  <2> QED
    BY <2>3 DEF n
<1> QED
  BY <1>1, <1>2, <1>4 DEF Paths

\* The mutexes differ.
LEMMA MutexesDiffer ==
  /\ \A p, q : Metadata(p) = Metadata(q) <=> p = q
  /\ \A p, q : Directory(p) = Directory(q) <=> p = q
  /\ \A p, q : Metadata(p) # Directory(q)
  /\ \A p : Metadata(p) \notin CacheMutexes /\ Directory(p) \notin CacheMutexes
  /\ \A p : Metadata(p)[2] = p /\ Directory(p)[2] = p
BY DEF Metadata, Directory, CacheMutexes, CacheMutex, DirectoryCacheMutex

\* What a calm handler holds.
LEMMA CalmLocks ==
  ASSUME NEW r, NEW h, Calm(r, h), NEW l \in h
  PROVE  /\ l.on \notin CacheMutexes
         /\ \/ \E p \in Paths : l.on = Metadata(p)
            \/ \E d \in WriteNodes(r) \cap DirPaths : l.on = Directory(d)
<1>1. l.on \in Lockable(r)
  BY DEF Calm, LocksOn
<1> QED
  BY <1>1, MutexesDiffer DEF Lockable

\* The metadata of x is not held by a handler that may lock it.
LEMMA FreeIsNotHeld ==
  ASSUME NEW r, NEW h, NEW x, Free(r, h, x), NEW l \in h
  PROVE  l.on # Metadata(x)
<1>1. Before(r, l.on, x)
  BY DEF Free
<1>2. CASE \E d \in DirPaths : l.on = Directory(d)
  BY <1>2, MutexesDiffer
<1>3. CASE \E y \in Paths \ {Root} : l.on = Metadata(y) /\ Parent(y) = x /\ x \in Inodes(r)
  BY <1>3, MutexesDiffer, ParentShorter
<1>4. CASE CrossDirectory(r) /\ l.on = Metadata(Parent(r.path)) /\ x = Parent(r.to)
  BY <1>4, MutexesDiffer DEF CrossDirectory
<1> QED
  BY <1>1, <1>2, <1>3, <1>4 DEF Before

\* Unlocking what was just locked.
LEMMA LeaveEntered ==
  ASSUME NEW h, NEW ms, NEW mode, \A l \in h : l.on \notin ms
  PROVE  Leave(Enter(h, ms, mode), ms) = h
BY DEF Leave, Enter

\* Locking metadata, or a directory's mutex, and unlocking anything.
LEMMA CalmEnter ==
  ASSUME NEW r, NEW h, Calm(r, h), NEW m \in Lockable(r), NEW mode \in Modes
  PROVE  Calm(r, Enter(h, {m}, mode))
<1>1. Cardinality(h) \in Nat
  BY FS_CardinalityType DEF Calm
<1> DEFINE l == [on |-> m, mode |-> mode, age |-> Cardinality(h)]
<1>2. l \in LocksOn(Lockable(r))
  BY <1>1 DEF LocksOn
<1>3. Enter(h, {m}, mode) = h \cup {l}
  BY DEF Enter
<1> HIDE DEF l
<1>4. IsFiniteSet(h \cup {l})
  BY FS_AddElement DEF Calm
<1> QED
  BY <1>2, <1>3, <1>4 DEF Calm

LEMMA CalmLeave ==
  ASSUME NEW r, NEW h, Calm(r, h), NEW ms
  PROVE  Calm(r, Leave(h, ms))
BY FS_Subset DEF Calm, Leave

LEMMA RunsUnlock ==
  ASSUME NEW r, NEW h, Calm(r, h), NEW m
  PROVE  Runs(r, h, Unlock(m), Leave(h, {m}))
BY CalmHolds, RunsRelease DEF Unlock

\* Locking and unlocking what is not held.
LEMMA RunsSection ==
  ASSUME NEW r, NEW h, NEW ms, MayAcquire(r, h, ms, "unique_lock"), \A l \in h : l.on \notin ms
  PROVE  Runs(r, h, Section(ms), h)
<1> DEFINE a == Acquire(ms, "unique_lock")
           b == [do |-> "release", on |-> ms]
           g == Enter(h, ms, "unique_lock")
<1>1. Section(ms) = <<a>> \o <<b>>
  BY DEF Section
<1>2. Runs(r, h, <<a>>, g)
  BY RunsAcquire
<1>3. Runs(r, g, <<b>>, Leave(g, ms))
  BY EnterHolds, RunsRelease
<1>4. Leave(g, ms) = h
  BY LeaveEntered
<1> HIDE DEF a, b, g
<1> QED
  BY <1>1, <1>2, <1>3, <1>4, RunsThen

LEMMA RunsCacheSection ==
  ASSUME NEW r, NEW h, Calm(r, h), NEW ms, ms \subseteq CacheMutexes
  PROVE  Runs(r, h, Section(ms), h)
<1>1. MayAcquire(r, h, ms, "unique_lock")
  BY DEF MayAcquire, Modes
<1>2. \A l \in h : l.on \notin ms
  BY CalmLocks
<1> QED
  BY <1>1, <1>2, RunsSection

\* Erasing a directory, under the mutex of its map.
LEMMA RunsErase ==
  ASSUME NEW r, NEW h, Calm(r, h), NEW ms, ms \subseteq CacheMutexes, DirectoryCacheMutex \in ms,
         NEW d
  PROVE  Runs(r, h, Erase(d, ms), h)
<1> DEFINE a == Acquire(ms, "unique_lock")
           x == [do |-> "destroy", on |-> d]
           b == [do |-> "release", on |-> ms]
           g == Enter(h, ms, "unique_lock")
<1>1. Erase(d, ms) = (<<a>> \o <<x>>) \o <<b>>
  BY DEF Erase
<1>2. MayAcquire(r, h, ms, "unique_lock") /\ \A l \in h : l.on \notin ms
  BY CalmLocks DEF MayAcquire, Modes
<1>3. Runs(r, h, <<a>>, g)
  BY <1>2, RunsAcquire
<1>4. IsFiniteSet(g) /\ g \subseteq LocksOn(Lockable(r) \cup CacheMutexes)
  BY <1>2, EnterHolds
<1>5. MayAccess(r, g, "destroy", d)
  <2> DEFINE l == [on |-> DirectoryCacheMutex, mode |-> "unique_lock", age |-> Cardinality(h)]
  <2>1. l.on = DirectoryCacheMutex /\ l.mode = "unique_lock" /\ l \in g
    BY DEF Enter
  <2> HIDE DEF l, g
  <2>2. \E k \in g : k.on = DirectoryCacheMutex /\ k.mode = "unique_lock"
    BY <2>1
  <2> QED
    BY <2>2 DEF MayAccess
<1>6. Runs(r, g, <<x>>, g)
  BY <1>4, <1>5, RunsDestroy
<1>7. Runs(r, g, <<b>>, Leave(g, ms)) /\ Leave(g, ms) = h
  BY <1>2, <1>4, RunsRelease, LeaveEntered
<1> HIDE DEF a, x, b, g
<1>8. Runs(r, h, <<a>> \o <<x>>, g)
  BY <1>3, <1>6, RunsThen
<1> QED
  BY <1>1, <1>7, <1>8, RunsThen

LEMMA RunsMetadataSection ==
  ASSUME NEW r, NEW h, NEW x, Free(r, h, x)
  PROVE  Runs(r, h, Section({Metadata(x)}), h)
<1>1. MayAcquire(r, h, {Metadata(x)}, "unique_lock")
  BY DEF MayAcquire, Modes, Free
<1>2. \A l \in h : l.on \notin {Metadata(x)}
  BY FreeIsNotHeld
<1> QED
  BY <1>1, <1>2, RunsSection

LEMMA RunsDirectorySection ==
  ASSUME NEW r, NEW h, NEW d \in WriteNodes(r) \cap DirPaths, Calm(r, h),
         \A l \in h : l.on # Directory(d)
  PROVE  Runs(r, h, Section({Directory(d)}), h)
<1>1. MayAcquire(r, h, {Directory(d)}, "unique_lock")
  BY DEF MayAcquire, Modes
<1> QED
  BY <1>1, RunsSection

\* h after locking m in a mode that may be no_lock.
With(h, m, mode) == IF mode = "no_lock" THEN h ELSE Enter(h, {m}, mode)
LockModes == Modes \cup {"no_lock"}

LEMMA RunsLock ==
  ASSUME NEW r, NEW h, NEW m, NEW mode \in LockModes,
         mode # "no_lock" => MayAcquire(r, h, {m}, mode)
  PROVE  Runs(r, h, Lock(m, mode), With(h, m, mode))
BY RunsAcquire, RunsEmpty, Zenon DEF Lock, With

LEMMA RunsLockMetadata ==
  ASSUME NEW r, NEW h, NEW x, Free(r, h, x), NEW mode \in LockModes
  PROVE  Runs(r, h, Lock(Metadata(x), mode), With(h, Metadata(x), mode))
<1>1. mode # "no_lock" => MayAcquire(r, h, {Metadata(x)}, mode)
  BY DEF MayAcquire, LockModes, Free
<1> QED
  BY <1>1, RunsLock

LEMMA RunsLockDirectory ==
  ASSUME NEW r, NEW h, NEW d \in WriteNodes(r) \cap DirPaths, NEW mode \in Modes, Calm(r, h),
         \A l \in h : l.on # Directory(d)
  PROVE  Runs(r, h, Lock(Directory(d), mode), Enter(h, {Directory(d)}, mode))
<1>1. MayAcquire(r, h, {Directory(d)}, mode)
  BY DEF MayAcquire
<1>2. mode # "no_lock" /\ mode \in LockModes
  BY DEF LockModes, Modes
<1> QED
  BY <1>1, <1>2, RunsLock DEF With

-----------------------------------------------------------------------------
(* The contexts.                                                           *)

\* A section of the maps that may be taken or not.
LEMMA RunsMaybeCacheSection ==
  ASSUME NEW r, NEW h, Calm(r, h), NEW ms, ms \subseteq CacheMutexes
  PROVE  Runs(r, h, Maybe(Section(ms)), h)
BY RunsCacheSection, RunsMaybe

LEMMA RunsMaybeErase ==
  ASSUME NEW r, NEW h, Calm(r, h), NEW d
  PROVE  /\ Runs(r, h, Erase(d, {DirectoryCacheMutex}), h)
         /\ Runs(r, h, Maybe(Erase(d, {DirectoryCacheMutex})), h)
         /\ Runs(r, h, Erase(d, {DirectoryCacheMutex, CacheMutex}), h)
<1>1. {DirectoryCacheMutex} \subseteq CacheMutexes /\ {DirectoryCacheMutex, CacheMutex} \subseteq CacheMutexes
  BY DEF CacheMutexes
<1>2. Runs(r, h, Erase(d, {DirectoryCacheMutex}), h)
      /\ Runs(r, h, Erase(d, {DirectoryCacheMutex, CacheMutex}), h)
  BY <1>1, RunsErase
<1> QED
  BY <1>2, RunsMaybe

\* The sections of the maps.
LEMMA MapSections ==
  /\ {CacheMutex} \subseteq CacheMutexes /\ {DirectoryCacheMutex} \subseteq CacheMutexes
  /\ {DirectoryCacheMutex, CacheMutex} \subseteq CacheMutexes
BY DEF CacheMutexes

\* The destructor of a context unlocks the metadata, and nothing else.
LEMMA RunsClose ==
  ASSUME NEW r, NEW h, Calm(r, h), NEW p
  PROVE  Runs(r, h, Close(p), Leave(h, {Metadata(p)}))
<1> DEFINE g == Leave(h, {Metadata(p)})
           u == Unlock(Metadata(p))
           s == Maybe(Erase(p, {DirectoryCacheMutex}))
           c == Maybe(Section({CacheMutex}))
<1>1. Runs(r, h, u, g) /\ Calm(r, g)
  BY RunsUnlock, CalmLeave
<1>2. Runs(r, g, s, g) /\ Runs(r, g, c, g)
  BY <1>1, MapSections, RunsMaybeErase, RunsMaybeCacheSection
<1>3. Close(p) = IF p \in DirPaths THEN (u \o s) \o c ELSE u \o c
  BY DEF Close, CloseDirectory, CloseFile
<1> HIDE DEF g, u, s, c
<1>4. Runs(r, h, u \o s, g)
  BY <1>1, <1>2, RunsThen
<1>5. Runs(r, h, (u \o s) \o c, g)
  BY <1>2, <1>4, RunsThen
<1>6. Runs(r, h, u \o c, g)
  BY <1>1, <1>2, RunsThen
<1>7. Runs(r, h, Close(p), g)
  BY <1>3, <1>5, <1>6
<1> QED
  BY <1>7 DEF g

\* An exception gives up the lock it comes to.
LEMMA RunsUnwind ==
  ASSUME NEW r, NEW h, Calm(r, h), NEW l \in h
  PROVE  Runs(r, h, Unwind(l.on), Leave(h, {l.on}))
<1>1. CASE \E p \in Paths : l.on = Metadata(p)
  <2>1. PICK p \in Paths : l.on = Metadata(p)
    BY <1>1
  <2>2. Unwind(l.on) = Close(p)
    BY <2>1, MutexesDiffer DEF Unwind
  <2> QED
    BY <2>1, <2>2, RunsClose
<1>2. CASE \E d \in WriteNodes(r) \cap DirPaths : l.on = Directory(d)
  <2>1. PICK d \in DirPaths : l.on = Directory(d)
    BY <1>2
  <2>2. Unwind(l.on) = Unlock(l.on)
    BY <2>1, MutexesDiffer DEF Unwind
  <2> QED
    BY <2>2, RunsUnlock
<1> QED
  BY <1>1, <1>2, CalmLocks

\* A set of subsets of a finite set that has a subset when it has all smaller
\* ones of it, has all of them.
LEMMA SubsetInduction ==
  ASSUME NEW S, IsFiniteSet(S), NEW G,
         \A T \in SUBSET S : (\A U \in SUBSET T : U # T => U \in G) => T \in G
  PROVE  SUBSET S \subseteq G
<1> DEFINE B == (SUBSET S) \ G
<1> SUFFICES ASSUME B # {} PROVE FALSE
  OBVIOUS
<1> DEFINE P == SUBSET S
           R == StrictSubsetOrdering(S)
<1>1. IsWellFoundedOn(R, P)
  <2>1. FiniteSubsetsOf(S) = SUBSET S
    BY FS_FiniteSubsetsOfFinite, Zenon
  <2>2. IsWellFoundedOn(StrictSubsetOrdering(S), FiniteSubsetsOf(S))
    BY FS_StrictSubsetOrderingWellFounded, Zenon
  <2> QED
    BY <2>1, <2>2, Zenon
<1>2. B \subseteq P
  OBVIOUS
<1>3. PICK x \in B : \A y \in B : <<y, x>> \notin R
  <2>1. B # {}
    OBVIOUS
  <2> HIDE DEF B, P, R
  <2> QED
    BY <1>1, <1>2, <2>1, WFMin
<1>4. ASSUME NEW U \in SUBSET x, U # x PROVE U \in G
  <2>1. U \in SUBSET S /\ x \in SUBSET S
    OBVIOUS
  <2>2. <<U, x>> \in StrictSubsetOrdering(S)
    BY <1>4, <2>1 DEF StrictSubsetOrdering
  <2> QED
    BY <1>3, <2>1, <2>2
<1> QED
  BY <1>4

\* An exception ends a handler that is in no section: it gives up one lock after
\* the other.
LEMMA SafeThrow ==
  ASSUME NEW r, NEW h, Calm(r, h), NEW q, IsSeq(q)
  PROVE  Safe(r, <<h, << [do |-> "throw", on |-> {}] >> \o q>>)
<1> DEFINE x == [do |-> "throw", on |-> {}]
           G == {g \in SUBSET h : Safe(r, <<g, <<x>> >>)}
<1>1. x.do # "acquire" /\ x.do # "release" /\ x.do \notin Looks /\ x.do # "either"
  BY DEF Looks
<1> HIDE DEF x
<1>2. ASSUME NEW T \in SUBSET h, \A U \in SUBSET T : U # T => U \in G, NEW z, IsSeq(z)
      PROVE  Safe(r, <<T, <<x>> \o z>>)
  <2>1. Calm(r, T) /\ IsFiniteSet(T) /\ T \subseteq LocksOn(Lockable(r) \cup CacheMutexes)
    <3>1. Calm(r, T)
      BY FS_Subset DEF Calm
    <3> QED
      BY <3>1, CalmHolds
  <2>2. CASE T = {}
    <3>1. After(T, x, z) = {<<{}, << >> >>}
      BY <1>1, <2>2, Zenon DEF After
    <3> QED
      BY <1>1, <1>2, <2>1, <3>1, SafeEnd, SafeStep
  <2>3. CASE T # {}
    <3>1. After(T, x, z) = {<<T, Unwind(l.on) \o <<x>> >> : l \in T}
      BY <1>1, <2>3, Zenon DEF After
    <3>2. ASSUME NEW l \in T PROVE Safe(r, <<T, Unwind(l.on) \o <<x>> >>)
      <4>1. Runs(r, T, Unwind(l.on), Leave(T, {l.on}))
        BY <2>1, RunsUnwind
      <4>2. Leave(T, {l.on}) \in SUBSET T /\ Leave(T, {l.on}) # T
        BY DEF Leave
      <4>3. Safe(r, <<Leave(T, {l.on}), <<x>> >>)
        BY <1>2, <4>2
      <4> QED
        BY <4>1, <4>3, OneStep, Zenon DEF Runs
    <3>3. \A d \in After(T, x, z) : Safe(r, d)
      BY <3>1, <3>2
    <3> QED
      BY <1>1, <1>2, <2>1, <3>3, SafeStep
  <2> QED
    BY <2>2, <2>3
<1>3. ASSUME NEW T \in SUBSET h, \A U \in SUBSET T : U # T => U \in G PROVE T \in G
  <2>1. Safe(r, <<T, <<x>> \o << >> >>)
    BY <1>2, <1>3, EmptyIsSeq
  <2>2. <<x>> \o << >> = <<x>>
    BY NoSteps, OneStep
  <2> QED
    BY <2>1, <2>2
<1>4. IsFiniteSet(h)
  BY DEF Calm
<1>5. SUBSET h \subseteq G
  <2> HIDE DEF G
  <2> QED
    BY <1>3, <1>4, SubsetInduction
<1>6. Safe(r, <<h, <<x>> \o q>>)
  BY <1>2, <1>5
<1> QED
  BY <1>6 DEF x

\* A step that may throw.
LEMMA RunsMayThrow ==
  ASSUME NEW r, NEW h, Calm(r, h)
  PROVE  Runs(r, h, MayThrow, h)
<1> DEFINE p == << [do |-> "throw", on |-> {}] >>
<1>1. IsSeq(p)
  BY OneStep
<1>2. \A q : IsSeq(q) => Safe(r, <<h, p \o q>>)
  BY SafeThrow
<1>3. MayThrow = Maybe(p)
  BY DEF MayThrow
<1> HIDE DEF p
<1>4. Runs(r, h, p, h)
  BY <1>1, <1>2, Zenon DEF Runs
<1> QED
  BY <1>3, <1>4, RunsMaybe

-----------------------------------------------------------------------------
(* Opening, looking up, removing and moving.                               *)

\* A handler without locks may lock any metadata; one with the mutex of a directory
\* too.
LEMMA NothingHeld ==
  ASSUME NEW r
  PROVE  Calm(r, {}) /\ \A x \in Paths : Free(r, {}, x)
BY FS_EmptySet DEF Calm, Free

LEMMA DirectoryHeld ==
  ASSUME NEW r, NEW d \in WriteNodes(r) \cap DirPaths, NEW mode \in Modes
  PROVE  /\ Calm(r, Enter({}, {Directory(d)}, mode))
         /\ \A x \in Paths : Free(r, Enter({}, {Directory(d)}, mode), x)
         /\ Leave(Enter({}, {Directory(d)}, mode), {Directory(d)}) = {}
<1> DEFINE h == Enter({}, {Directory(d)}, mode)
<1>1. Calm(r, h)
  BY NothingHeld, CalmEnter DEF Lockable
<1>2. \A l \in h : l.on = Directory(d)
  BY DEF Enter
<1>3. Leave(h, {Directory(d)}) = {}
  BY LeaveEntered
<1> HIDE DEF h
<1>4. \A x \in Paths : Free(r, h, x)
  BY <1>1, <1>2 DEF Free, Before
<1> QED
  BY <1>1, <1>3, <1>4 DEF h

\* Metadata is opened with no lock left, if its key is looked up so.
LEMMA RunsOpenMetadata ==
  ASSUME NEW r, NEW h, NEW x, Free(r, h, x), NEW k, Runs(r, h, k, h)
  PROVE  Runs(r, h, OpenMetadata(x, k), h)
<1> DEFINE a == Section({Metadata(x)})
           c == Section({CacheMutex})
           b == (k \o MayThrow) \o c
<1>0. Calm(r, h)
  BY DEF Free
<1>1. Runs(r, h, a, h)
  BY RunsMetadataSection
<1>2. Runs(r, h, MayThrow, h) /\ Runs(r, h, c, h)
  BY <1>0, RunsMayThrow, RunsCacheSection, MapSections
<1>3. OpenMetadata(x, k) = Either({a, b})
  BY DEF OpenMetadata
<1> HIDE DEF a, c
<1>4. Runs(r, h, k \o MayThrow, h)
  BY <1>2, RunsThen
<1>5. Runs(r, h, b, h)
  BY <1>2, <1>4, RunsThen
<1> HIDE DEF b
<1>6. \A p \in {a, b} : Runs(r, h, p, h)
  BY <1>1, <1>5
<1> QED
  BY <1>0, <1>3, <1>6, CalmHolds, RunsEither

LEMMA RunsOpenDirectory ==
  ASSUME NEW r, NEW h, NEW d, Free(r, h, d), NEW mode \in LockModes
  PROVE  Runs(r, h, OpenDirectory(d, mode), With(h, Metadata(d), mode))
<1> DEFINE s == Section({DirectoryCacheMutex})
           e == Maybe(Erase(d, {DirectoryCacheMutex}))
           m == OpenMetadata(d, << >>)
           load == (e \o m) \o s
           k == Lock(Metadata(d), mode)
           g == With(h, Metadata(d), mode)
<1>0. Calm(r, h)
  BY DEF Free
<1>1. Runs(r, h, s, h) /\ Runs(r, h, e, h)
  BY <1>0, MapSections, RunsCacheSection, RunsMaybeErase
<1>2. Runs(r, h, m, h)
  BY RunsEmpty, RunsOpenMetadata
<1>3. Runs(r, h, k, g)
  BY RunsLockMetadata
<1>4. OpenDirectory(d, mode) = Maybe(load) \o k
  BY DEF OpenDirectory
<1> HIDE DEF s, e, m, k, g
<1>5. Runs(r, h, e \o m, h)
  BY <1>1, <1>2, RunsThen
<1>6. Runs(r, h, load, h)
  BY <1>1, <1>5, RunsThen
<1> HIDE DEF load
<1>7. Runs(r, h, Maybe(load), h)
  BY <1>0, <1>6, RunsMaybe
<1>8. Runs(r, h, OpenDirectory(d, mode), g)
  BY <1>3, <1>4, <1>7, RunsThen
<1> QED
  BY <1>8 DEF g

\* After a directory was opened with a lock: it is held, and closing it gives back
\* what was held before.
LEMMA Opened ==
  ASSUME NEW r, NEW h, NEW x, Free(r, h, x), NEW mode \in Modes
  PROVE  /\ With(h, Metadata(x), mode) = Enter(h, {Metadata(x)}, mode)
         /\ Calm(r, Enter(h, {Metadata(x)}, mode))
         /\ Leave(Enter(h, {Metadata(x)}, mode), {Metadata(x)}) = h
         /\ x \in Nodes(r) => MayAccess(r, Enter(h, {Metadata(x)}, mode), "read", x)
         /\ x \in Nodes(r) /\ mode = "unique_lock"
              => MayAccess(r, Enter(h, {Metadata(x)}, mode), "write", x)
<1>1. mode # "no_lock" /\ Calm(r, h) /\ x \in Paths
  BY DEF Modes, Free
<1>2. Calm(r, Enter(h, {Metadata(x)}, mode))
  BY <1>1, CalmEnter DEF Lockable
<1>3. Leave(Enter(h, {Metadata(x)}, mode), {Metadata(x)}) = h
  BY FreeIsNotHeld, LeaveEntered
<1>4. \E l \in Enter(h, {Metadata(x)}, mode) : l.on = Metadata(x) /\ l.mode = mode
  <2> DEFINE l == [on |-> Metadata(x), mode |-> mode, age |-> Cardinality(h)]
  <2>1. l \in Enter(h, {Metadata(x)}, mode)
    BY DEF Enter
  <2>2. l.on = Metadata(x) /\ l.mode = mode
    OBVIOUS
  <2> QED
    BY <2>1, <2>2
<1> QED
  BY <1>1, <1>2, <1>3, <1>4 DEF With, MayAccess

\* A look-up needs the parent's metadata and gives it back.
LEMMA RunsLookUp ==
  ASSUME NEW r, NEW h, NEW p, Free(r, h, Parent(p)), Parent(p) \in Nodes(r)
  PROVE  Runs(r, h, LookUp(p), h)
<1> DEFINE d == Parent(p)
           g == Enter(h, {Metadata(d)}, "shared_lock")
           a == OpenDirectory(d, "shared_lock")
           c == Close(d)
<1>0. "shared_lock" \in Modes /\ "shared_lock" \in LockModes
  BY DEF Modes, LockModes
<1>1. /\ With(h, Metadata(d), "shared_lock") = g /\ Calm(r, g) /\ Leave(g, {Metadata(d)}) = h
      /\ MayAccess(r, g, "read", d)
  BY <1>0, Opened
<1>2. Runs(r, h, a, g)
  BY <1>0, <1>1, RunsOpenDirectory
<1>3. LookUp(p) = ((a \o Read(d)) \o MayThrow) \o c
  BY DEF LookUp
<1> HIDE DEF d, g, a
<1>4. Runs(r, g, Read(d), g)
  BY <1>1, RunsRead
<1>5. Runs(r, g, MayThrow, g)
  BY <1>1, RunsMayThrow
<1>6. Runs(r, g, c, h)
  BY <1>1, RunsClose
<1> HIDE DEF c
<1>7. Runs(r, h, a \o Read(d), g)
  BY <1>2, <1>4, RunsThen
<1>8. Runs(r, h, (a \o Read(d)) \o MayThrow, g)
  BY <1>5, <1>7, RunsThen
<1> QED
  BY <1>3, <1>6, <1>8, RunsThen

LEMMA RunsGetType ==
  ASSUME NEW r, NEW h, NEW p, p # Root => Free(r, h, Parent(p)) /\ Parent(p) \in Nodes(r)
  PROVE  Runs(r, h, GetType(p), h)
BY RunsLookUp, RunsEmpty DEF GetType

LEMMA RunsOpenFile ==
  ASSUME NEW r, NEW h, NEW f, Free(r, h, f), Free(r, h, Parent(f)), Parent(f) \in Nodes(r),
         NEW mode \in LockModes
  PROVE  Runs(r, h, OpenFile(f, mode), With(h, Metadata(f), mode))
<1>1. Runs(r, h, OpenMetadata(f, LookUp(f)), h)
  BY RunsLookUp, RunsOpenMetadata
<1>2. Runs(r, h, Lock(Metadata(f), mode), With(h, Metadata(f), mode))
  BY RunsLockMetadata
<1> QED
  BY <1>1, <1>2, RunsThen, Zenon DEF OpenFile

\* p can be opened: if it is a file, its parent can be too.
LEMMA RunsOpen ==
  ASSUME NEW r, NEW h, NEW p, Free(r, h, p),
         p \notin DirPaths => Free(r, h, Parent(p)) /\ Parent(p) \in Nodes(r),
         NEW mode \in LockModes
  PROVE  Runs(r, h, Open(p, mode), With(h, Metadata(p), mode))
BY RunsOpenFile, RunsOpenDirectory DEF Open

\* remove and remove_directory unlock the metadata.
LEMMA RunsRemoveFile ==
  ASSUME NEW r, NEW h, Calm(r, h), NEW f
  PROVE  Runs(r, h, RemoveFile(f), Leave(h, {Metadata(f)}))
<1>1. Runs(r, h, Unlock(Metadata(f)), Leave(h, {Metadata(f)}))
  BY RunsUnlock
<1>2. Runs(r, Leave(h, {Metadata(f)}), Section({CacheMutex}), Leave(h, {Metadata(f)}))
  BY CalmLeave, MapSections, RunsCacheSection
<1> QED
  BY <1>1, <1>2, RunsThen, Zenon DEF RemoveFile

LEMMA RunsRemoveDirectory ==
  ASSUME NEW r, NEW h, Calm(r, h), NEW d \in WriteNodes(r) \cap DirPaths,
         \A l \in h : l.on # Directory(d)
  PROVE  Runs(r, h, RemoveDirectory(d), Leave(h, {Metadata(d)}))
<1> DEFINE g == Leave(h, {Metadata(d)})
           a == Section({Directory(d)})
           u == Unlock(Metadata(d))
           c == Erase(d, {DirectoryCacheMutex, CacheMutex})
<1>1. Runs(r, h, a, h)
  BY RunsDirectorySection
<1>2. Runs(r, h, u, g)
  BY RunsUnlock
<1>3. Runs(r, g, c, g)
  BY CalmLeave, RunsMaybeErase
<1>4. RemoveDirectory(d) = (a \o u) \o c
  BY DEF RemoveDirectory
<1> HIDE DEF g, a, u, c
<1>5. Runs(r, h, a \o u, g)
  BY <1>1, <1>2, RunsThen
<1>6. Runs(r, h, RemoveDirectory(d), g)
  BY <1>3, <1>4, <1>5, RunsThen
<1> QED
  BY <1>6 DEF g

LEMMA RunsRemoveOpened ==
  ASSUME NEW r, NEW h, Calm(r, h), NEW p \in WriteNodes(r),
         \A l \in h : l.on # Directory(p)
  PROVE  Runs(r, h, RemoveOpened(p), Leave(h, {Metadata(p)}))
BY RunsRemoveFile, RunsRemoveDirectory DEF RemoveOpened

-----------------------------------------------------------------------------
(* Moving, which comes first in a rename, with no lock held.               *)

\* A regular file is moved with no lock left.
LEMMA RunsMoveFile ==
  ASSUME NEW r, NEW h, NEW f, Free(r, h, f), Free(r, h, Parent(f)), Parent(f) \in Nodes(r)
  PROVE  Runs(r, h, MoveFile(f), h)
<1> DEFINE a == OpenFile(f, "no_lock")
           c == Section({CacheMutex})
<1>1. Runs(r, h, a, h)
  BY RunsOpenFile DEF With, LockModes
<1>2. Runs(r, h, c, h)
  BY MapSections, RunsCacheSection DEF Free
<1>3. MoveFile(f) = ((a \o c) \o c) \o c
  BY DEF MoveFile
<1> HIDE DEF a, c
<1>4. Runs(r, h, a \o c, h)
  BY <1>1, <1>2, RunsThen
<1>5. Runs(r, h, (a \o c) \o c, h)
  BY <1>2, <1>4, RunsThen
<1> QED
  BY <1>2, <1>3, <1>5, RunsThen

\* A directory is moved with its mutex locked twice, and each child under the
\* first lock.
LEMMA RunsMoveDirectory ==
  ASSUME NEW r, NEW d \in WriteNodes(r) \cap DirPaths
  PROVE  Runs(r, {}, MoveDirectory(d), {})
<1> DEFINE children == {f \in FilePaths : Parent(f) = d}
           child(f) == (Read(d) \o GetType(f)) \o MoveFile(f)
           choices == {child(f) : f \in children} \cup {<< >>}
           s == Enter({}, {Directory(d)}, "shared_lock")
           u == Enter({}, {Directory(d)}, "unique_lock")
           a == OpenDirectory(d, "no_lock")
           b == Section({CacheMutex})
           lock == Lock(Directory(d), "shared_lock")
           each == Either(choices)
           unlock == Unlock(Directory(d))
           lock2 == Lock(Directory(d), "unique_lock")
           c == Erase(d, {DirectoryCacheMutex, CacheMutex})
<1>1. /\ "shared_lock" \in Modes /\ "unique_lock" \in Modes /\ "no_lock" \in LockModes
      /\ d \in Paths /\ Calm(r, {}) /\ Free(r, {}, d)
      /\ MayAccess(r, s, "read", d) /\ MayAccess(r, u, "write", d)
  BY NothingHeld DEF Modes, LockModes, Paths, MayAccess, Nodes
<1>2. /\ Calm(r, s) /\ (\A x \in Paths : Free(r, s, x)) /\ Leave(s, {Directory(d)}) = {}
      /\ Calm(r, u) /\ Leave(u, {Directory(d)}) = {}
  BY <1>1, DirectoryHeld
<1>3. Runs(r, {}, a, {})
  BY <1>1, RunsOpenDirectory DEF With
<1>4. Runs(r, {}, b, {}) /\ Runs(r, {}, c, {})
  BY <1>1, MapSections, RunsCacheSection, RunsMaybeErase
<1>5. Runs(r, {}, lock, s) /\ Runs(r, {}, lock2, u)
  BY <1>1, RunsLockDirectory
<1>6. Runs(r, s, unlock, {}) /\ Runs(r, u, unlock, {})
  BY <1>2, RunsUnlock
<1>7. Runs(r, u, Write(d), u)
  BY <1>1, <1>2, RunsWrite
<1>8. ASSUME NEW f \in children PROVE Runs(r, s, child(f), s)
  <2>1. /\ f \in Paths /\ d \in Paths /\ d = Parent(f) /\ d \in Nodes(r)
        /\ Free(r, s, f) /\ Free(r, s, d)
    BY <1>2 DEF Paths, Nodes
  <2>2. Runs(r, s, Read(d), s)
    BY <1>1, <1>2, RunsRead
  <2>3. Runs(r, s, GetType(f), s)
    BY <2>1, RunsGetType
  <2>4. Runs(r, s, MoveFile(f), s)
    BY <2>1, RunsMoveFile
  <2> HIDE DEF s
  <2>5. Runs(r, s, Read(d) \o GetType(f), s)
    BY <2>2, <2>3, RunsThen
  <2> QED
    BY <2>4, <2>5, RunsThen
<1>9. Runs(r, s, each, s)
  <2>1. \A p \in choices : Runs(r, s, p, s)
    <3> HIDE DEF s, child
    <3> QED
      BY <1>8, RunsEmpty
  <2> HIDE DEF s, choices
  <2> QED
    BY <1>2, <2>1, CalmHolds, RunsEither
<1>10. MoveDirectory(d) =
         (((((((a \o b) \o lock) \o each) \o unlock) \o lock2) \o Write(d)) \o unlock) \o c
  BY DEF MoveDirectory
<1> HIDE DEF s, u, a, b, lock, each, unlock, lock2, c
<1>11. Runs(r, {}, (a \o b) \o lock, s)
  <2>1. Runs(r, {}, a \o b, {})
    BY <1>3, <1>4, RunsThen
  <2> QED
    BY <1>5, <2>1, RunsThen
<1>12. Runs(r, {}, (((a \o b) \o lock) \o each) \o unlock, {})
  <2>1. Runs(r, {}, ((a \o b) \o lock) \o each, s)
    BY <1>9, <1>11, RunsThen
  <2> QED
    BY <1>6, <2>1, RunsThen
<1> DEFINE first == (((a \o b) \o lock) \o each) \o unlock
<1> HIDE DEF first
<1>13. Runs(r, {}, (first \o lock2) \o Write(d), u)
  <2>1. Runs(r, {}, first, {})
    BY <1>12 DEF first
  <2>2. Runs(r, {}, first \o lock2, u)
    BY <1>5, <2>1, RunsThen
  <2> QED
    BY <1>7, <2>2, RunsThen
<1>14. Runs(r, {}, ((first \o lock2) \o Write(d)) \o unlock, {})
  BY <1>6, <1>13, RunsThen
<1>15. Runs(r, {}, (((first \o lock2) \o Write(d)) \o unlock) \o c, {})
  BY <1>4, <1>14, RunsThen
<1> QED
  BY <1>10, <1>15 DEF first

LEMMA RunsMove ==
  ASSUME NEW r, NEW p \in Paths \ {Root}, p \in WriteNodes(r), Parent(p) \in Nodes(r)
  PROVE  Runs(r, {}, Move(p), {})
BY NothingHeld, ParentShorter, RunsMoveFile, RunsMoveDirectory DEF Move

-----------------------------------------------------------------------------
(* The handlers that change no names.                                      *)

\* The path nodes of a handler.
LEMMA PrefixNodes ==
  ASSUME NEW p \in Paths
  PROVE  p \in Prefixes(p) /\ (p # Root => Parent(p) \in Prefixes(p))
<1>1. p \in Seq(STRING)
  BY PathsAssumption, EmptySeq DEF Root
<1>2. Len(p) \in Nat /\ SubSeq(p, 1, Len(p)) = p
  BY <1>1, LenProperties, SubSeqFull
<1>3. p \in Prefixes(p)
  <2>1. Len(p) \in 0 .. Len(p)
    BY <1>2
  <2>2. p = SubSeq(p, 1, Len(p))
    BY <1>2
  <2> QED
    BY <2>1, <2>2, Zenon DEF Prefixes
<1>4. ASSUME p # Root PROVE Parent(p) \in Prefixes(p)
  <2>1. Len(p) # 0
    BY <1>1, <1>4, EmptySeq DEF Root
  <2>2. Len(p) - 1 \in 0 .. Len(p)
    BY <1>2, <2>1
  <2>3. Parent(p) = SubSeq(p, 1, Len(p) - 1)
    BY Zenon DEF Parent, Front
  <2> QED
    BY <2>2, <2>3, Zenon DEF Prefixes
<1> QED
  BY <1>3, <1>4

\* A handler that looks p up may.
LEMMA LooksUp ==
  ASSUME NEW r, NEW p \in Paths \ {Root}, Parent(p) \in Nodes(r)
  PROVE  /\ Runs(r, {}, LookUp(p), {}) /\ Runs(r, {}, GetType(p), {})
         /\ \A mode \in LockModes : Runs(r, {}, OpenFile(p, mode), With({}, Metadata(p), mode))
         /\ \A mode \in LockModes : Runs(r, {}, Open(p, mode), With({}, Metadata(p), mode))
<1>1. Free(r, {}, p) /\ Free(r, {}, Parent(p))
  BY NothingHeld, ParentShorter
<1> QED
  BY <1>1, RunsLookUp, RunsGetType, RunsOpenFile, RunsOpen

\* The root is opened, and its type is known.
LEMMA LooksUpRoot ==
  ASSUME NEW r
  PROVE  /\ Root \in Paths /\ Runs(r, {}, GetType(Root), {})
         /\ \A mode \in LockModes : Runs(r, {}, Open(Root, mode), With({}, Metadata(Root), mode))
<1>1. Root \in Paths /\ Root \in DirPaths
  BY PathsAssumption DEF Paths
<1> QED
  BY <1>1, NothingHeld, RunsGetType, RunsOpen

\* Metadata that was locked with nothing held before, and used.
LEMMA UsedAlone ==
  ASSUME NEW r, NEW x \in Paths, NEW mode \in Modes
  PROVE  LET g == With({}, Metadata(x), mode)
         IN  /\ Runs(r, {}, Lock(Metadata(x), mode), g)
             /\ Runs(r, g, Close(x), {}) /\ Runs(r, g, Unlock(Metadata(x)), {})
             /\ x \in Nodes(r) => Runs(r, g, Read(x), g)
<1> DEFINE g == Enter({}, {Metadata(x)}, mode)
<1>1. Free(r, {}, x) /\ mode \in LockModes
  BY NothingHeld DEF LockModes
<1>2. /\ With({}, Metadata(x), mode) = g /\ Calm(r, g) /\ Leave(g, {Metadata(x)}) = {}
      /\ x \in Nodes(r) => MayAccess(r, g, "read", x)
  BY <1>1, Opened
<1>3. Runs(r, {}, Lock(Metadata(x), mode), g)
  BY <1>1, <1>2, RunsLockMetadata
<1> HIDE DEF g
<1>4. Runs(r, g, Close(x), {}) /\ Runs(r, g, Unlock(Metadata(x)), {})
  BY <1>2, RunsClose, RunsUnlock
<1>5. x \in Nodes(r) => Runs(r, g, Read(x), g)
  BY <1>2, RunsRead
<1> QED
  BY <1>2, <1>3, <1>4, <1>5

LEMMA RunsGetAttr ==
  ASSUME NEW p \in Paths, NEW r, r = Request("getattr", p, p)
  PROVE  Runs(r, {}, GetAttr(p), {})
<1> DEFINE g == With({}, Metadata(p), "shared_lock")
<1>0. "shared_lock" \in LockModes /\ "shared_lock" \in Modes
  BY DEF LockModes, Modes
<1>1. p # Root => Parent(p) \in Nodes(r)
  <2>1. r.op = "getattr" /\ r.path = p /\ r.op \notin Mutators
    BY DEF Request, Mutators
  <2> QED
    BY <2>1, ParentShorter, PrefixNodes DEF Nodes, ReadNodes
<1>2. Runs(r, {}, GetType(p), {}) /\ Runs(r, {}, Open(p, "shared_lock"), g)
  BY <1>0, <1>1, LooksUp, LooksUpRoot
<1>3. Runs(r, g, Close(p), {})
  BY <1>0, UsedAlone
<1> HIDE DEF g
<1>4. Runs(r, {}, GetType(p) \o Open(p, "shared_lock"), g)
  BY <1>2, RunsThen
<1>5. Runs(r, {}, (GetType(p) \o Open(p, "shared_lock")) \o Close(p), {})
  BY <1>3, <1>4, RunsThen
<1> QED
  BY <1>5 DEF GetAttr

\* open, chmod, chown and truncate look up the path's last name.
LEMMA OpensPath ==
  ASSUME NEW p \in Paths \ {Root}, NEW r, r.path = p, r.op \in {"open", "setattr"}
  PROVE  Parent(p) \in Nodes(r)
BY PrefixNodes DEF Nodes, ReadNodes, Mutators

LEMMA RunsOpenHandler ==
  ASSUME NEW p \in Paths, NEW r, r = Request("open", p, p)
  PROVE  Runs(r, {}, Open(p, "no_lock"), {})
<1>1. "no_lock" \in LockModes /\ With({}, Metadata(p), "no_lock") = {}
  BY DEF LockModes, With
<1>2. r.path = p /\ r.op = "open"
  BY DEF Request
<1>3. Runs(r, {}, Open(p, "no_lock"), With({}, Metadata(p), "no_lock"))
  BY <1>1, <1>2, OpensPath, LooksUp, LooksUpRoot
<1> QED
  BY <1>1, <1>3

LEMMA RunsSetAttr ==
  ASSUME NEW f \in Paths \ {Root}, NEW r, r = Request("setattr", f, f)
  PROVE  Runs(r, {}, SetAttr(f), {})
<1> DEFINE g == With({}, Metadata(f), "unique_lock")
<1>0. "unique_lock" \in LockModes /\ "unique_lock" \in Modes
  BY DEF LockModes, Modes
<1>1. r.path = f /\ r.op = "setattr"
  BY DEF Request
<1>2. Runs(r, {}, OpenFile(f, "unique_lock"), g)
  BY <1>0, <1>1, OpensPath, LooksUp
<1>3. Runs(r, g, Close(f), {})
  BY <1>0, UsedAlone
<1> HIDE DEF g
<1> QED
  BY <1>2, <1>3, RunsThen DEF SetAttr

LEMMA RunsUse ==
  ASSUME NEW f \in Paths, NEW r, NEW mode \in Modes
  PROVE  Runs(r, {}, Use(f, mode), {})
<1> DEFINE g == With({}, Metadata(f), mode)
<1>1. Runs(r, {}, Lock(Metadata(f), mode), g) /\ Runs(r, g, Unlock(Metadata(f)), {})
  BY UsedAlone
<1> HIDE DEF g
<1> QED
  BY <1>1, RunsThen DEF Use

LEMMA RunsReadDirectory ==
  ASSUME NEW d \in DirPaths, NEW r, r = Request("readdir", d, d)
  PROVE  Runs(r, {}, ReadDirectory(d), {})
<1> DEFINE g == With({}, Metadata(d), "shared_lock")
<1>0. "shared_lock" \in Modes /\ d \in Paths
  BY DEF Modes, Paths
<1>1. d \in Nodes(r)
  <2>1. r.op = "readdir" /\ r.path = d
    BY DEF Request
  <2> QED
    BY <1>0, <2>1, PrefixNodes DEF Nodes, ReadNodes, Mutators
<1>2. /\ Runs(r, {}, Lock(Metadata(d), "shared_lock"), g) /\ Runs(r, g, Read(d), g)
      /\ Runs(r, g, Unlock(Metadata(d)), {})
  BY <1>0, <1>1, UsedAlone
<1> HIDE DEF g
<1>3. Runs(r, {}, Lock(Metadata(d), "shared_lock") \o Read(d), g)
  BY <1>2, RunsThen
<1>4. Runs(r, {}, (Lock(Metadata(d), "shared_lock") \o Read(d)) \o Unlock(Metadata(d)), {})
  BY <1>2, <1>3, RunsThen
<1> QED
  BY <1>4 DEF ReadDirectory

-----------------------------------------------------------------------------
(* The handlers that change names: a child's metadata is locked before its *)
(* parent's.                                                               *)

Child(p) == Enter({}, {Metadata(p)}, "unique_lock")
Both(p) == Enter(Child(p), {Metadata(Parent(p))}, "unique_lock")

LEMMA UniqueMode == "unique_lock" \in Modes /\ "unique_lock" \in LockModes /\ "unique_lock" # "no_lock"
BY DEF Modes, LockModes

\* The locks of a child and its parent, and what is left of them.
LEMMA ChildAndParent ==
  ASSUME NEW r, NEW p \in Paths \ {Root}, Parent(p) \in Inodes(r)
  PROVE  /\ Free(r, {}, p) /\ Calm(r, Child(p)) /\ Free(r, Child(p), Parent(p))
         /\ Calm(r, Both(p)) /\ Leave(Both(p), {Metadata(Parent(p))}) = Child(p)
         /\ Leave(Child(p), {Metadata(p)}) = {}
         /\ Leave(Leave(Both(p), {Metadata(p)}), {Metadata(Parent(p))}) = {}
         /\ \A d : \A l \in Both(p) : l.on # Directory(d)
         /\ \A d : \A l \in Child(p) : l.on # Directory(d)
<1>1. Free(r, {}, p) /\ "unique_lock" \in Modes
  BY NothingHeld, UniqueMode
<1>2. Calm(r, Child(p)) /\ Leave(Child(p), {Metadata(p)}) = {}
  BY <1>1, Opened DEF Child
<1>3. \A l \in Child(p) : l.on = Metadata(p)
  BY DEF Child, Enter
<1>4. Free(r, Child(p), Parent(p))
  BY <1>2, <1>3, ParentShorter DEF Free, Before
<1>5. Calm(r, Both(p)) /\ Leave(Both(p), {Metadata(Parent(p))}) = Child(p)
  BY <1>1, <1>4, Opened DEF Both
<1>6. \A l \in Both(p) : l.on \in {Metadata(p), Metadata(Parent(p))}
  BY <1>3 DEF Both, Enter
<1>7. Leave(Leave(Both(p), {Metadata(p)}), {Metadata(Parent(p))}) = {}
  BY <1>6 DEF Leave
<1> QED
  BY <1>1, <1>2, <1>3, <1>4, <1>5, <1>6, <1>7, MutexesDiffer

\* With the child locked, the parent is opened, changed and closed.
LEMMA ParentAfterChild ==
  ASSUME NEW r, NEW p \in Paths \ {Root}, Parent(p) \in Inodes(r), Parent(p) \in Nodes(r)
  PROVE  /\ Runs(r, {}, Lock(Metadata(p), "unique_lock"), Child(p))
         /\ Runs(r, Child(p), OpenDirectory(Parent(p), "unique_lock"), Both(p))
         /\ Runs(r, Both(p), Write(Parent(p)), Both(p))
         /\ Runs(r, Both(p), Close(Parent(p)), Child(p))
         /\ Runs(r, Child(p), Close(p), {})
<1>1. /\ Free(r, {}, p) /\ Calm(r, Child(p)) /\ Free(r, Child(p), Parent(p)) /\ Calm(r, Both(p))
      /\ Leave(Both(p), {Metadata(Parent(p))}) = Child(p) /\ Leave(Child(p), {Metadata(p)}) = {}
  BY ChildAndParent
<1>2. With({}, Metadata(p), "unique_lock") = Child(p)
  BY UniqueMode DEF With, Child
<1>3. With(Child(p), Metadata(Parent(p)), "unique_lock") = Both(p)
  BY UniqueMode DEF With, Both
<1>4. MayAccess(r, Both(p), "write", Parent(p))
  BY <1>1, UniqueMode, Opened DEF Both
<1>5. Runs(r, {}, Lock(Metadata(p), "unique_lock"), Child(p))
  BY <1>1, <1>2, UniqueMode, RunsLockMetadata
<1>6. Runs(r, Child(p), OpenDirectory(Parent(p), "unique_lock"), Both(p))
  BY <1>1, <1>3, UniqueMode, RunsOpenDirectory
<1>7. Runs(r, Both(p), Write(Parent(p)), Both(p))
  BY <1>1, <1>4, RunsWrite
<1>8. Runs(r, Both(p), Close(Parent(p)), Child(p)) /\ Runs(r, Child(p), Close(p), {})
  BY <1>1, RunsClose
<1> QED
  BY <1>5, <1>6, <1>7, <1>8

\* The inode and the node of the parent are the handler's.
LEMMA MutatorsHaveParents ==
  ASSUME NEW r, r.op \in Mutators, r.path \in Paths \ {Root}, r.to \in Paths \ {Root}
  PROVE  /\ Parent(r.path) \in Inodes(r) /\ Parent(r.path) \in Nodes(r)
         /\ Parent(r.to) \in Inodes(r) /\ Parent(r.to) \in Nodes(r)
<1>1. Parent(r.path) \in Paths /\ Parent(r.to) \in Paths
  BY ParentShorter
<1>2. Parent(r.path) \in Prefixes(Parent(r.path)) /\ Parent(r.to) \in Prefixes(Parent(r.to))
  BY <1>1, PrefixNodes
<1> QED
  BY <1>2 DEF Inodes, Nodes, ReadNodes

\* create unlocks the file before the parent.
LEMMA RunsCreate ==
  ASSUME NEW f \in Paths \ {Root}, NEW r, r = Request("create", f, f)
  PROVE  Runs(r, {}, Create(f), {})
<1> DEFINE P == Parent(f)
           g == Leave(Both(f), {Metadata(f)})
           s == Section({CacheMutex})
           lock == Lock(Metadata(f), "unique_lock")
           open == OpenDirectory(P, "unique_lock")
           unlock == Unlock(Metadata(f))
           close == Close(P)
<1>1. P \in Inodes(r) /\ P \in Nodes(r)
  <2>1. r.op = "create" /\ r.path = f /\ r.to = f
    BY DEF Request
  <2> QED
    BY <2>1, MutatorsHaveParents DEF Mutators
<1>2. /\ Runs(r, {}, lock, Child(f)) /\ Runs(r, Child(f), open, Both(f))
      /\ Runs(r, Both(f), Write(P), Both(f))
  BY <1>1, ParentAfterChild
<1>3. Calm(r, Both(f)) /\ Calm(r, g) /\ Leave(g, {Metadata(P)}) = {}
  BY <1>1, ChildAndParent, CalmLeave
<1>4. Runs(r, {}, MayThrow, {}) /\ Runs(r, {}, s, {})
  BY NothingHeld, MapSections, RunsMayThrow, RunsCacheSection
<1>5. Runs(r, Both(f), unlock, g) /\ Runs(r, g, close, {})
  BY <1>3, RunsUnlock, RunsClose
<1>6. Create(f) = (((((MayThrow \o s) \o lock) \o open) \o Write(P)) \o unlock) \o close
  BY DEF Create
<1> HIDE DEF P, g, s, lock, open, unlock, close
<1>7. Runs(r, {}, (MayThrow \o s) \o lock, Child(f))
  <2>1. Runs(r, {}, MayThrow \o s, {})
    BY <1>4, RunsThen
  <2> QED
    BY <1>2, <2>1, RunsThen
<1>8. Runs(r, {}, (((MayThrow \o s) \o lock) \o open) \o Write(P), Both(f))
  <2>1. Runs(r, {}, ((MayThrow \o s) \o lock) \o open, Both(f))
    BY <1>2, <1>7, RunsThen
  <2> QED
    BY <1>2, <2>1, RunsThen
<1>9. Runs(r, {}, ((((MayThrow \o s) \o lock) \o open) \o Write(P)) \o unlock, g)
  BY <1>5, <1>8, RunsThen
<1>10. Runs(r, {}, (((((MayThrow \o s) \o lock) \o open) \o Write(P)) \o unlock) \o close, {})
  BY <1>5, <1>9, RunsThen
<1> QED
  BY <1>6, <1>10

LEMMA RunsMakeDirectory ==
  ASSUME NEW d \in Paths \ {Root}, NEW r, r = Request("mkdir", d, d)
  PROVE  Runs(r, {}, MakeDirectory(d), {})
<1> DEFINE P == Parent(d)
           s == Section({DirectoryCacheMutex, CacheMutex})
           s2 == Section({DirectoryCacheMutex})
           lock == Lock(Metadata(d), "unique_lock")
           open == OpenDirectory(P, "unique_lock")
           close == Close(P)
           close2 == Close(d)
<1>1. P \in Inodes(r) /\ P \in Nodes(r)
  <2>1. r.op = "mkdir" /\ r.path = d /\ r.to = d
    BY DEF Request
  <2> QED
    BY <2>1, MutatorsHaveParents DEF Mutators
<1>2. /\ Runs(r, {}, lock, Child(d)) /\ Runs(r, Child(d), open, Both(d))
      /\ Runs(r, Both(d), Write(P), Both(d)) /\ Runs(r, Both(d), close, Child(d))
      /\ Runs(r, Child(d), close2, {})
  BY <1>1, ParentAfterChild
<1>3. Runs(r, {}, MayThrow, {}) /\ Runs(r, {}, s, {}) /\ Runs(r, {}, s2, {})
  BY NothingHeld, MapSections, RunsMayThrow, RunsCacheSection
<1>4. MakeDirectory(d) =
        (((((((MayThrow \o s) \o MayThrow) \o s2) \o lock) \o open) \o Write(P)) \o close) \o close2
  BY DEF MakeDirectory
<1> HIDE DEF P, s, s2, lock, open, close, close2
<1> DEFINE first == ((MayThrow \o s) \o MayThrow) \o s2
<1>5. Runs(r, {}, first, {})
  <2>1. Runs(r, {}, MayThrow \o s, {})
    BY <1>3, RunsThen
  <2>2. Runs(r, {}, (MayThrow \o s) \o MayThrow, {})
    BY <1>3, <2>1, RunsThen
  <2> QED
    BY <1>3, <2>2, RunsThen
<1> HIDE DEF first
<1>6. Runs(r, {}, (first \o lock) \o open, Both(d))
  <2>1. Runs(r, {}, first \o lock, Child(d))
    BY <1>2, <1>5, RunsThen
  <2> QED
    BY <1>2, <2>1, RunsThen
<1>7. Runs(r, {}, ((first \o lock) \o open) \o Write(P), Both(d))
  BY <1>2, <1>6, RunsThen
<1>8. Runs(r, {}, (((first \o lock) \o open) \o Write(P)) \o close, Child(d))
  BY <1>2, <1>7, RunsThen
<1>9. Runs(r, {}, ((((first \o lock) \o open) \o Write(P)) \o close) \o close2, {})
  BY <1>2, <1>8, RunsThen
<1> QED
  BY <1>4, <1>9 DEF first

\* After the child was opened: the entry is taken out of the parent, the child
\* removed, the parent closed.
LEMMA RunsRemoval ==
  ASSUME NEW r, NEW p \in Paths \ {Root}, Parent(p) \in Inodes(r), Parent(p) \in Nodes(r),
         p \in WriteNodes(r), NEW opened, Runs(r, {}, opened, Child(p))
  PROVE  Runs(r, {}, opened \o OpenDirectory(Parent(p), "unique_lock") \o Write(Parent(p))
                       \o RemoveOpened(p) \o Close(Parent(p)), {})
<1> DEFINE P == Parent(p)
           g == Leave(Both(p), {Metadata(p)})
           open == OpenDirectory(P, "unique_lock")
           remove == RemoveOpened(p)
           close == Close(P)
<1>1. Runs(r, Child(p), open, Both(p)) /\ Runs(r, Both(p), Write(P), Both(p))
  BY ParentAfterChild
<1>2. /\ Calm(r, Both(p)) /\ Calm(r, g) /\ Leave(g, {Metadata(P)}) = {}
      /\ \A l \in Both(p) : l.on # Directory(p)
  BY ChildAndParent, CalmLeave
<1>3. Runs(r, Both(p), remove, g) /\ Runs(r, g, close, {})
  BY <1>2, RunsRemoveOpened, RunsClose
<1> HIDE DEF P, g, open, remove, close
<1>4. Runs(r, {}, opened \o open, Both(p))
  BY <1>1, RunsThen
<1>5. Runs(r, {}, (opened \o open) \o Write(P), Both(p))
  BY <1>1, <1>4, RunsThen
<1>6. Runs(r, {}, ((opened \o open) \o Write(P)) \o remove, g)
  BY <1>3, <1>5, RunsThen
<1>7. Runs(r, {}, (((opened \o open) \o Write(P)) \o remove) \o close, {})
  BY <1>3, <1>6, RunsThen
<1> QED
  BY <1>7 DEF open, P, remove, close

LEMMA RunsUnlink ==
  ASSUME NEW f \in Paths \ {Root}, NEW r, r = Request("unlink", f, f)
  PROVE  Runs(r, {}, Unlink(f), {})
<1>1. r.op = "unlink" /\ r.path = f /\ r.to = f
  BY DEF Request
<1>2. Parent(f) \in Inodes(r) /\ Parent(f) \in Nodes(r) /\ f \in WriteNodes(r)
  BY <1>1, MutatorsHaveParents DEF Mutators, WriteNodes, Removers
<1>3. Runs(r, {}, OpenFile(f, "unique_lock"), Child(f))
  <2>1. With({}, Metadata(f), "unique_lock") = Child(f)
    BY UniqueMode DEF With, Child
  <2> QED
    BY <1>2, <2>1, UniqueMode, LooksUp
<1> QED
  BY <1>2, <1>3, RunsRemoval DEF Unlink

LEMMA RunsRemoveEmptyDirectory ==
  ASSUME NEW d \in DirPaths \ {Root}, NEW r, r = Request("rmdir", d, d)
  PROVE  Runs(r, {}, RemoveEmptyDirectory(d), {})
<1> DEFINE g == Enter(Child(d), {Directory(d)}, "shared_lock")
           open == OpenDirectory(d, "unique_lock")
           lock == Lock(Directory(d), "shared_lock")
           unlock == Unlock(Directory(d))
<1>1. r.op = "rmdir" /\ r.path = d /\ r.to = d /\ d \in Paths \ {Root}
  BY DEF Request, Paths
<1>2. Parent(d) \in Inodes(r) /\ Parent(d) \in Nodes(r) /\ d \in WriteNodes(r) \cap DirPaths
  BY <1>1, MutatorsHaveParents DEF Mutators, WriteNodes, Removers
<1>3. /\ Free(r, {}, d) /\ Calm(r, Child(d)) /\ "shared_lock" \in Modes
      /\ \A l \in Child(d) : l.on # Directory(d)
  BY <1>1, <1>2, ChildAndParent DEF Modes
<1>4. Runs(r, {}, open, Child(d))
  <2>1. With({}, Metadata(d), "unique_lock") = Child(d)
    BY UniqueMode DEF With, Child
  <2> QED
    BY <1>3, <2>1, UniqueMode, RunsOpenDirectory
<1>5. Calm(r, g) /\ Leave(g, {Directory(d)}) = Child(d) /\ MayAccess(r, g, "read", d)
  <2>1. Directory(d) \in Lockable(r)
    BY <1>2 DEF Lockable
  <2>2. Calm(r, g)
    BY <1>3, <2>1, CalmEnter
  <2>3. \A l \in Child(d) : l.on \notin {Directory(d)}
    BY <1>3
  <2>4. Leave(g, {Directory(d)}) = Child(d)
    BY <2>3, LeaveEntered
  <2>5. MayAccess(r, g, "read", d)
    BY <1>2 DEF MayAccess, Nodes
  <2> QED
    BY <2>2, <2>4, <2>5
<1>6. Runs(r, Child(d), lock, g)
  BY <1>2, <1>3, RunsLockDirectory
<1>7. Runs(r, g, Read(d), g) /\ Runs(r, g, unlock, Child(d)) /\ Runs(r, Child(d), MayThrow, Child(d))
  BY <1>3, <1>5, RunsRead, RunsUnlock, RunsMayThrow
<1>8. RemoveEmptyDirectory(d) =
        ((((open \o lock) \o Read(d)) \o unlock) \o MayThrow)
          \o OpenDirectory(Parent(d), "unique_lock") \o Write(Parent(d))
          \o RemoveOpened(d) \o Close(Parent(d))
  BY DEF RemoveEmptyDirectory
<1> HIDE DEF g, open, lock, unlock
<1>9. Runs(r, {}, (open \o lock) \o Read(d), g)
  <2>1. Runs(r, {}, open \o lock, g)
    BY <1>4, <1>6, RunsThen
  <2> QED
    BY <1>7, <2>1, RunsThen
<1>10. Runs(r, {}, ((open \o lock) \o Read(d)) \o unlock, Child(d))
  BY <1>7, <1>9, RunsThen
<1>11. Runs(r, {}, (((open \o lock) \o Read(d)) \o unlock) \o MayThrow, Child(d))
  BY <1>7, <1>10, RunsThen
<1> QED
  BY <1>1, <1>2, <1>8, <1>11, RunsRemoval

-----------------------------------------------------------------------------
(* rename.                                                                 *)

\* More locks allow no less.
LEMMA AccessGrows ==
  ASSUME NEW r, NEW h, NEW g, h \subseteq g, NEW what, NEW d, MayAccess(r, h, what, d)
  PROVE  MayAccess(r, g, what, d)
BY DEF MayAccess

\* What a rename locks beside mutexes.
LEMMA RenameNodes ==
  ASSUME NEW p \in Paths \ {Root}, NEW q \in Paths \ {Root}, NEW r, r = Request("rename", p, q)
  PROVE  /\ r.op = "rename" /\ r.path = p /\ r.to = q
         /\ p \in WriteNodes(r) /\ q \in WriteNodes(r)
         /\ Parent(p) \in Nodes(r) /\ Parent(q) \in Nodes(r)
         /\ Parent(p) \in Inodes(r) /\ Parent(q) \in Inodes(r)
<1>1. r.op = "rename" /\ r.path = p /\ r.to = q
  BY DEF Request
<1>2. r.op \in Mutators /\ r.op \in Removers
  BY <1>1 DEF Mutators, Removers
<1> QED
  BY <1>1, <1>2, MutatorsHaveParents DEF WriteNodes

\* An existing target is removed, with a look at its files if it is a directory.
LEMMA RunsReplaceTarget ==
  ASSUME NEW r, NEW q \in Paths \ {Root}, Parent(q) \in Inodes(r), Parent(q) \in Nodes(r),
         q \in WriteNodes(r)
  PROVE  Runs(r, {}, ReplaceTarget(q), {})
<1> DEFINE open == Open(q, "unique_lock")
           look == Read(q) \o MayThrow
           remove == RemoveOpened(q)
<1>1. /\ Calm(r, Child(q)) /\ Leave(Child(q), {Metadata(q)}) = {}
      /\ \A l \in Child(q) : l.on # Directory(q)
  BY ChildAndParent
<1>2. Runs(r, {}, open, Child(q))
  <2>1. With({}, Metadata(q), "unique_lock") = Child(q)
    BY UniqueMode DEF With, Child
  <2> QED
    BY <2>1, UniqueMode, LooksUp
<1>3. Runs(r, Child(q), look, Child(q))
  <2>1. MayAccess(r, Child(q), "read", q)
    BY DEF MayAccess, Nodes
  <2> QED
    BY <1>1, <2>1, RunsRead, RunsMayThrow, RunsThen
<1>4. Runs(r, Child(q), remove, {})
  BY <1>1, RunsRemoveOpened
<1>5. ReplaceTarget(q) = (open \o (IF q \in DirPaths THEN look ELSE << >>)) \o remove
  BY DEF ReplaceTarget
<1> HIDE DEF open, look, remove
<1>6. Runs(r, Child(q), IF q \in DirPaths THEN look ELSE << >>, Child(q))
  BY <1>3, RunsEmpty
<1> DEFINE maybe == IF q \in DirPaths THEN look ELSE << >>
<1> HIDE DEF maybe
<1>7. Runs(r, Child(q), maybe, Child(q))
  BY <1>6 DEF maybe
<1>8. Runs(r, {}, open \o maybe, Child(q))
  BY <1>2, <1>7, RunsThen
<1>9. Runs(r, {}, (open \o maybe) \o remove, {})
  BY <1>4, <1>8, RunsThen
<1> QED
  BY <1>5, <1>9 DEF maybe

\* The entry is moved inside one directory, or from one to the other.
LEMMA RunsMoveEntry ==
  ASSUME NEW p \in Paths \ {Root}, NEW q \in Paths \ {Root}, NEW r, r = Request("rename", p, q)
  PROVE  Runs(r, {}, MoveEntry(Parent(p), Parent(q)), {})
<1> DEFINE d == Parent(p)
           e == Parent(q)
           g == Enter({}, {Metadata(d)}, "unique_lock")
           k == Enter(g, {Metadata(e)}, "unique_lock")
           opend == OpenDirectory(d, "unique_lock")
           opene == OpenDirectory(e, "unique_lock")
           closed == Close(d)
           closee == Close(e)
<1>1. /\ d \in Paths /\ e \in Paths /\ d \in Nodes(r) /\ e \in Nodes(r)
      /\ r.op = "rename" /\ r.path = p /\ r.to = q
  BY RenameNodes, ParentShorter
<1>2. Free(r, {}, d)
  BY <1>1, NothingHeld
<1>3. /\ With({}, Metadata(d), "unique_lock") = g /\ Calm(r, g) /\ Leave(g, {Metadata(d)}) = {}
      /\ MayAccess(r, g, "write", d)
  BY <1>1, <1>2, UniqueMode, Opened
<1>4. Runs(r, {}, opend, g)
  BY <1>2, <1>3, UniqueMode, RunsOpenDirectory
<1>5. Runs(r, g, Write(d), g) /\ Runs(r, g, closed, {})
  BY <1>3, RunsWrite, RunsClose
<1>6. CASE d = e
  <2>1. MoveEntry(d, e) = (opend \o Write(d)) \o closed
    BY <1>6 DEF MoveEntry
  <2> HIDE DEF d, e, g, opend, closed
  <2>2. Runs(r, {}, opend \o Write(d), g)
    BY <1>4, <1>5, RunsThen
  <2>3. Runs(r, {}, MoveEntry(d, e), {})
    BY <1>5, <2>1, <2>2, RunsThen
  <2> QED
    BY <2>3 DEF d, e
<1>7. CASE d # e
  <2>1. Free(r, g, e)
    <3>1. CrossDirectory(r) /\ d = Parent(r.path) /\ e = Parent(r.to)
      BY <1>1, <1>7 DEF CrossDirectory
    <3>2. \A l \in g : l.on = Metadata(d)
      BY DEF Enter
    <3> HIDE DEF d, e, g
    <3> QED
      BY <1>1, <1>3, <3>1, <3>2 DEF Free, Before
  <2>2. /\ With(g, Metadata(e), "unique_lock") = k /\ Calm(r, k) /\ Leave(k, {Metadata(e)}) = g
        /\ MayAccess(r, k, "write", e)
    BY <1>1, <2>1, UniqueMode, Opened
  <2>3. MayAccess(r, k, "write", d)
    <3>1. g \subseteq k
      BY DEF Enter
    <3> QED
      BY <1>3, <3>1, AccessGrows
  <2>4. Runs(r, g, opene, k)
    BY <2>1, <2>2, UniqueMode, RunsOpenDirectory
  <2>5. Runs(r, k, Write(d), k) /\ Runs(r, k, Write(e), k) /\ Runs(r, k, closee, g)
    BY <2>2, <2>3, RunsWrite, RunsClose
  <2>6. MoveEntry(d, e) = ((((opend \o opene) \o Write(d)) \o Write(e)) \o closee) \o closed
    BY <1>7 DEF MoveEntry
  <2> HIDE DEF d, e, g, k, opend, opene, closed, closee
  <2>7. Runs(r, {}, opend \o opene, k)
    BY <1>4, <2>4, RunsThen
  <2>8. Runs(r, {}, (opend \o opene) \o Write(d), k)
    BY <2>5, <2>7, RunsThen
  <2>9. Runs(r, {}, ((opend \o opene) \o Write(d)) \o Write(e), k)
    BY <2>5, <2>8, RunsThen
  <2>10. Runs(r, {}, (((opend \o opene) \o Write(d)) \o Write(e)) \o closee, g)
    BY <2>5, <2>9, RunsThen
  <2>11. Runs(r, {}, MoveEntry(d, e), {})
    BY <1>5, <2>6, <2>10, RunsThen
  <2> QED
    BY <2>11 DEF d, e
<1> QED
  BY <1>6, <1>7

LEMMA RunsRename ==
  ASSUME NEW p \in Paths \ {Root}, NEW q \in Paths \ {Root}, NEW r, r = Request("rename", p, q)
  PROVE  Runs(r, {}, Rename(p, q), {})
<1> DEFINE replace == Maybe(ReplaceTarget(q))
           entry == MoveEntry(Parent(p), Parent(q))
<1>1. /\ p \in WriteNodes(r) /\ q \in WriteNodes(r) /\ Parent(p) \in Nodes(r)
      /\ Parent(q) \in Nodes(r) /\ Parent(p) \in Inodes(r) /\ Parent(q) \in Inodes(r)
  BY RenameNodes
<1>2. Runs(r, {}, GetType(p), {}) /\ Runs(r, {}, GetType(q), {})
  BY <1>1, LooksUp
<1>3. Runs(r, {}, replace, {})
  BY <1>1, NothingHeld, RunsReplaceTarget, RunsMaybe
<1>4. Runs(r, {}, Move(p), {}) /\ Runs(r, {}, entry, {})
  BY <1>1, RunsMove, RunsMoveEntry
<1>5. Rename(p, q) = (((GetType(p) \o GetType(q)) \o replace) \o Move(p)) \o entry
  BY DEF Rename
<1> HIDE DEF replace, entry
<1>6. Runs(r, {}, GetType(p) \o GetType(q), {})
  BY <1>2, RunsThen
<1>7. Runs(r, {}, (GetType(p) \o GetType(q)) \o replace, {})
  BY <1>3, <1>6, RunsThen
<1>8. Runs(r, {}, ((GetType(p) \o GetType(q)) \o replace) \o Move(p), {})
  BY <1>4, <1>7, RunsThen
<1> QED
  BY <1>4, <1>5, <1>8, RunsThen

-----------------------------------------------------------------------------
(* Every handler.                                                          *)

\* A handler's program takes it from no locks to none.
LEMMA RunsProgram ==
  ASSUME NEW r \in Requests
  PROVE  Runs(r, {}, Program(r), {})
<1>0. Root \in DirPaths /\ DirPaths \cap FilePaths = {} /\ Paths = DirPaths \cup FilePaths
  BY PathsAssumption DEF Paths
<1>1. CASE \E o \in {"getattr", "open"}, p \in Paths : r = Request(o, p, p)
  <2>1. PICK p \in Paths : r = Request("getattr", p, p) \/ r = Request("open", p, p)
    BY <1>1
  <2>2. ASSUME r = Request("getattr", p, p) PROVE Program(r) = GetAttr(p)
    BY <2>2 DEF Program, Request
  <2>3. ASSUME r = Request("open", p, p) PROVE Program(r) = Open(p, "no_lock")
    BY <2>3 DEF Program, Request
  <2> QED
    BY <2>1, <2>2, <2>3, RunsGetAttr, RunsOpenHandler
<1>2. CASE \E d \in DirPaths : r = Request("readdir", d, d)
  <2>1. PICK d \in DirPaths : r = Request("readdir", d, d)
    BY <1>2
  <2>2. Program(r) = ReadDirectory(d)
    BY <2>1 DEF Program, Request
  <2> QED
    BY <2>1, <2>2, RunsReadDirectory
<1>3. CASE \E o \in {"read", "write", "setattr", "create", "unlink"}, f \in FilePaths :
             r = Request(o, f, f)
  <2>1. PICK o \in {"read", "write", "setattr", "create", "unlink"}, f \in FilePaths :
          r = Request(o, f, f)
    BY <1>3
  <2>2. f \in Paths \ {Root}
    BY <1>0, <2>1
  <2>3. CASE o = "read"
    <3>1. Program(r) = Use(f, "shared_lock") /\ "shared_lock" \in Modes
      BY <2>1, <2>3 DEF Program, Request, Modes
    <3> QED
      BY <2>2, <3>1, RunsUse
  <2>4. CASE o = "write"
    <3>1. Program(r) = Use(f, "unique_lock") /\ "unique_lock" \in Modes
      BY <2>1, <2>4 DEF Program, Request, Modes
    <3> QED
      BY <2>2, <3>1, RunsUse
  <2>5. CASE o = "setattr"
    <3>1. Program(r) = SetAttr(f)
      BY <2>1, <2>5 DEF Program, Request
    <3> QED
      BY <2>1, <2>2, <2>5, <3>1, RunsSetAttr
  <2>6. CASE o = "create"
    <3>1. Program(r) = Create(f)
      BY <2>1, <2>6 DEF Program, Request
    <3> QED
      BY <2>1, <2>2, <2>6, <3>1, RunsCreate
  <2>7. CASE o = "unlink"
    <3>1. Program(r) = Unlink(f)
      BY <2>1, <2>7 DEF Program, Request
    <3> QED
      BY <2>1, <2>2, <2>7, <3>1, RunsUnlink
  <2> QED
    BY <2>1, <2>3, <2>4, <2>5, <2>6, <2>7
<1>4. CASE \E o \in {"mkdir", "rmdir"}, d \in DirPaths \ {Root} : r = Request(o, d, d)
  <2>1. PICK o \in {"mkdir", "rmdir"}, d \in DirPaths \ {Root} : r = Request(o, d, d)
    BY <1>4
  <2>2. CASE o = "mkdir"
    <3>1. Program(r) = MakeDirectory(d) /\ d \in Paths \ {Root}
      BY <1>0, <2>1, <2>2 DEF Program, Request
    <3> QED
      BY <2>1, <2>2, <3>1, RunsMakeDirectory
  <2>3. CASE o = "rmdir"
    <3>1. Program(r) = RemoveEmptyDirectory(d)
      BY <2>1, <2>3 DEF Program, Request
    <3> QED
      BY <2>1, <2>3, <3>1, RunsRemoveEmptyDirectory
  <2> QED
    BY <2>1, <2>2, <2>3
<1>5. CASE \E p \in Paths \ {Root}, q \in Paths \ {Root} : r = Request("rename", p, q)
  <2>1. PICK p \in Paths \ {Root}, q \in Paths \ {Root} : r = Request("rename", p, q)
    BY <1>5
  <2>2. Program(r) = Rename(p, q)
    BY <2>1 DEF Program, Request
  <2> QED
    BY <2>1, <2>2, RunsRename
<1> QED
  BY <1>1, <1>2, <1>3, <1>4, <1>5 DEF Requests

\* A handler that starts is safe.
LEMMA StartsSafe == ASSUME NEW r \in Requests PROVE Safe(r, <<{}, Program(r)>>)
<1>1. IsSeq(Program(r)) /\ Safe(r, <<{}, Program(r) \o << >> >>)
  BY RunsProgram, SafeEnd, EmptyIsSeq, Zenon DEF Runs
<1>2. Program(r) \o << >> = Program(r)
  BY <1>1, NoSteps
<1> QED
  BY <1>1, <1>2

-----------------------------------------------------------------------------
(* The threads together.                                                   *)

\* No lock of one is in the way of one of the other.
Compatible(h, k) ==
  \A l \in h : \A m \in k : l.on = m.on => l.mode # "unique_lock" /\ m.mode # "unique_lock"

ThreadsOK ==
  /\ request \in [Threads -> Requests \cup {NoRequest}]
  /\ steps = [t \in Threads |-> steps[t]] /\ held = [t \in Threads |-> held[t]]
  /\ \A t \in Threads : Safe(request[t], <<held[t], steps[t]>>)
  /\ \A t \in Threads : request[t] = NoRequest => steps[t] = << >>
  /\ \A t, u \in Threads :
       t # u /\ request[t] # NoRequest /\ request[u] # NoRequest => ~Excludes(request[t], request[u])
  /\ \A t, u \in Threads : t # u => Compatible(held[t], held[u])

\* No handler runs at first.
LEMMA ThreadsInit == Init => ThreadsOK
<1> SUFFICES ASSUME Init PROVE ThreadsOK
  OBVIOUS
<1>1. /\ request = [t \in Threads |-> NoRequest] /\ steps = [t \in Threads |-> << >>]
      /\ held = [t \in Threads |-> {}]
  BY DEF Init
<1>2. \A t \in Threads : request[t] = NoRequest /\ held[t] = {} /\ steps[t] = << >>
  BY <1>1
<1>3. \A t \in Threads : Safe(request[t], <<held[t], steps[t]>>)
  BY <1>2, SafeEnd
<1>4. \A t, u \in Threads : t # u => Compatible(held[t], held[u])
  BY <1>2 DEF Compatible
<1>5. request \in [Threads -> Requests \cup {NoRequest}]
  BY <1>1
<1>6. steps = [t \in Threads |-> steps[t]] /\ held = [t \in Threads |-> held[t]]
  BY <1>1
<1> QED
  BY <1>2, <1>3, <1>4, <1>5, <1>6, Zenon DEF ThreadsOK

\* A request is not the absence of one.
LEMMA RequestsAreSome == NoRequest \notin Requests
<1>1. ASSUME NEW r \in Requests
      PROVE  r.op \in {"getattr", "open", "readdir", "read", "write", "setattr", "create", "unlink",
                      "mkdir", "rmdir", "rename"}
  BY <1>1 DEF Requests, Request
<1>2. NoRequest.op = "none"
  BY DEF NoRequest
<1> QED
  BY <1>1, <1>2

\* What each thread knows.
LEMMA ThreadIsLocal ==
  ASSUME ThreadsOK, NEW t \in Threads
  PROVE  /\ Local(request[t], <<held[t], steps[t]>>)
         /\ \A d \in Succ(<<held[t], steps[t]>>) : Safe(request[t], d)
BY SafeUnfold DEF ThreadsOK

\* A handler that continues takes one of its steps, and no lock that is in the way.
LEMMA ContinueIsSucc ==
  ASSUME ThreadsOK, NEW t \in Threads,
         Take(t) \/ Release(t) \/ Look(t) \/ Choose(t) \/ Throw(t)
  PROVE  \E d \in Succ(<<held[t], steps[t]>>) :
           /\ held' = [held EXCEPT ![t] = d[1]] /\ steps' = [steps EXCEPT ![t] = d[2]]
           /\ request' = request
           /\ \A u \in Threads \ {t} : Compatible(d[1], held[u])
<1> DEFINE h == held[t]
           p == steps[t]
           x == Head(p)
           q == Tail(p)
<1>0. /\ steps = [u \in Threads |-> steps[u]] /\ held = [u \in Threads |-> held[u]]
      /\ \A u \in Threads \ {t} : Compatible(h, held[u])
  BY DEF ThreadsOK
<1>1. p # << >> /\ Next1(t) = x
  BY DEF Take, Release, Look, Choose, Throw, Does, Next1
<1>2. Succ(<<h, p>>) = After(h, x, q)
  BY <1>1 DEF Succ
<1>3. CASE Take(t)
  <2> DEFINE g == Enter(h, x.on, x.mode)
  <2>1. x.do = "acquire" /\ \A u \in Threads : ~Blocks(u, t)
    BY <1>1, <1>3 DEF Take, Does
  <2>2. held' = [held EXCEPT ![t] = g] /\ steps' = [steps EXCEPT ![t] = q] /\ request' = request
    BY <1>1, <1>3 DEF Take, Advance
  <2>3. <<g, q>> \in Succ(<<h, p>>)
    BY <1>2, <2>1 DEF After
  <2>4. MayAcquire(request[t], h, x.on, x.mode)
    BY <1>1, <2>1, ThreadIsLocal DEF Local
  <2>5. ASSUME NEW u \in Threads \ {t} PROVE Compatible(g, held[u])
    <3>1. x.mode \in Modes /\ Compatible(h, held[u])
      BY <1>0, <2>4 DEF MayAcquire
    <3>2. ~Blocks(u, t) /\ Does(t, "acquire")
      BY <1>3, <2>1 DEF Take
    <3>3. ASSUME NEW m \in x.on, NEW k \in held[u], k.on = m
          PROVE  x.mode # "unique_lock" /\ k.mode # "unique_lock"
      <4>1. CASE x.mode = "shared_lock"
        BY <1>1, <3>2, <3>3, <4>1 DEF Blocks, HoldsUnique
      <4>2. CASE x.mode # "shared_lock"
        BY <1>1, <3>2, <3>3, <4>2 DEF Blocks, Holds
      <4> QED
        BY <4>1, <4>2
    <3>4. ASSUME NEW l \in g, NEW k \in held[u], l.on = k.on
          PROVE  l.mode # "unique_lock" /\ k.mode # "unique_lock"
      <4>1. CASE l \in h
        BY <3>1, <3>4, <4>1 DEF Compatible
      <4>2. CASE l \notin h
        <5>1. l.on \in x.on /\ l.mode = x.mode
          BY <4>2 DEF Enter
        <5> QED
          BY <3>3, <3>4, <5>1
      <4> QED
        BY <4>1, <4>2
    <3> HIDE DEF g
    <3> QED
      BY <3>4 DEF Compatible
  <2> HIDE DEF g, h, p, q, x
  <2> DEFINE d == <<g, q>>
  <2>6. d[1] = g /\ d[2] = q
    OBVIOUS
  <2> HIDE DEF d
  <2>7. d \in Succ(<<h, p>>)
    BY <2>3 DEF d
  <2> QED
    BY <2>2, <2>5, <2>6, <2>7, Zenon DEF h, p
<1>4. ASSUME NEW d, d \in Succ(<<h, p>>), d[1] \subseteq h,
             held' = [held EXCEPT ![t] = d[1]], steps' = [steps EXCEPT ![t] = d[2]],
             request' = request
      PROVE  \E e \in Succ(<<h, p>>) :
               /\ held' = [held EXCEPT ![t] = e[1]] /\ steps' = [steps EXCEPT ![t] = e[2]]
               /\ request' = request
               /\ \A u \in Threads \ {t} : Compatible(e[1], held[u])
  <2>1. \A u \in Threads \ {t} : Compatible(d[1], held[u])
    BY <1>0, <1>4 DEF Compatible
  <2> QED
    BY <1>4, <2>1
<1>5. CASE Release(t)
  <2> DEFINE d == <<Leave(h, x.on), q>>
  <2>1. x.do = "release" /\ x.do # "acquire"
    BY <1>1, <1>5 DEF Release, Does
  <2>2. d \in Succ(<<h, p>>) /\ d[1] \subseteq h
    BY <1>2, <2>1 DEF After, Leave
  <2>3. held' = [held EXCEPT ![t] = d[1]] /\ steps' = [steps EXCEPT ![t] = d[2]] /\ request' = request
    BY <1>1, <1>5 DEF Release, Advance
  <2> HIDE DEF d
  <2> QED
    BY <1>4, <2>2, <2>3
<1>6. CASE Look(t)
  <2> DEFINE d == <<h, q>>
  <2>1. x.do \in Looks /\ x.do # "acquire" /\ x.do # "release"
    BY <1>1, <1>6 DEF Look, Does, Looks
  <2>2. d \in Succ(<<h, p>>) /\ d[1] \subseteq h
    BY <1>2, <2>1 DEF After
  <2>3. held' = [held EXCEPT ![t] = d[1]] /\ steps' = [steps EXCEPT ![t] = d[2]] /\ request' = request
    BY <1>0, <1>1, <1>6 DEF Look, Advance
  <2> HIDE DEF d
  <2> QED
    BY <1>4, <2>2, <2>3
<1>7. CASE Choose(t)
  <2>1. PICK a \in x.on : steps' = [steps EXCEPT ![t] = a \o q]
    BY <1>1, <1>7 DEF Choose
  <2> DEFINE d == <<h, a \o q>>
  <2>2. x.do = "either" /\ x.do # "acquire" /\ x.do # "release" /\ x.do \notin Looks
    BY <1>1, <1>7 DEF Choose, Does, Looks
  <2>3. d \in Succ(<<h, p>>) /\ d[1] \subseteq h
    BY <1>2, <2>1, <2>2 DEF After
  <2>4. held' = [held EXCEPT ![t] = d[1]] /\ steps' = [steps EXCEPT ![t] = d[2]] /\ request' = request
    BY <1>0, <1>7, <2>1 DEF Choose
  <2> HIDE DEF d
  <2> QED
    BY <1>4, <2>3, <2>4
<1>8. CASE Throw(t)
  <2>1. /\ x.do = "throw" /\ x.do # "acquire" /\ x.do # "release" /\ x.do \notin Looks
        /\ x.do # "either"
    BY <1>1, <1>8 DEF Throw, Does, Looks
  <2>2. CASE h = {} /\ steps' = [steps EXCEPT ![t] = << >>]
    <3> DEFINE d == <<h, << >> >>
    <3>1. d \in Succ(<<h, p>>) /\ d[1] \subseteq h
      BY <1>2, <2>1, <2>2 DEF After
    <3>2. held' = [held EXCEPT ![t] = d[1]] /\ steps' = [steps EXCEPT ![t] = d[2]] /\ request' = request
      BY <1>0, <1>8, <2>2 DEF Throw
    <3> HIDE DEF d
    <3> QED
      BY <1>4, <3>1, <3>2
  <2>3. CASE \E l \in Youngest(h) : steps' = [steps EXCEPT ![t] = Unwind(l.on) \o <<x>>]
    <3>1. PICK l \in h : steps' = [steps EXCEPT ![t] = Unwind(l.on) \o <<x>>]
      BY <2>3 DEF Youngest
    <3> DEFINE d == <<h, Unwind(l.on) \o <<x>> >>
    <3>2. d \in Succ(<<h, p>>) /\ d[1] \subseteq h
      BY <1>2, <2>1, <3>1 DEF After
    <3>3. held' = [held EXCEPT ![t] = d[1]] /\ steps' = [steps EXCEPT ![t] = d[2]] /\ request' = request
      BY <1>0, <1>8, <3>1 DEF Throw
    <3> HIDE DEF d
    <3> QED
      BY <1>4, <3>2, <3>3
  <2> QED
    BY <1>1, <1>8, <2>2, <2>3 DEF Throw
<1> QED
  BY <1>3, <1>5, <1>6, <1>7, <1>8

\* A handler that continues, returns or starts leaves all safe and apart.
LEMMA ThreadsContinue ==
  ASSUME ThreadsOK, NEW t \in Threads,
         Take(t) \/ Release(t) \/ Look(t) \/ Choose(t) \/ Throw(t)
  PROVE  ThreadsOK'
<1>1. PICK d \in Succ(<<held[t], steps[t]>>) :
        /\ held' = [held EXCEPT ![t] = d[1]] /\ steps' = [steps EXCEPT ![t] = d[2]]
        /\ request' = request
        /\ \A u \in Threads \ {t} : Compatible(d[1], held[u])
  BY ContinueIsSucc
<1>2. /\ request \in [Threads -> Requests \cup {NoRequest}]
      /\ steps = [u \in Threads |-> steps[u]] /\ held = [u \in Threads |-> held[u]]
      /\ \A u \in Threads : Safe(request[u], <<held[u], steps[u]>>)
      /\ \A u \in Threads : request[u] = NoRequest => steps[u] = << >>
      /\ \A u, v \in Threads : u # v => Compatible(held[u], held[v])
  BY DEF ThreadsOK
<1>3. steps[t] # << >> /\ request[t] # NoRequest
  BY <1>2 DEF Take, Release, Look, Choose, Throw, Does
<1>4. Safe(request[t], d)
  BY ThreadIsLocal
<1>5. d = <<d[1], d[2]>>
  BY <1>1 DEF Succ, After
<1>6. held'[t] = d[1] /\ steps'[t] = d[2]
  BY <1>1, <1>2
<1>7. \A u \in Threads \ {t} : held'[u] = held[u] /\ steps'[u] = steps[u]
  BY <1>1, <1>2
<1>8. \A u \in Threads : Safe(request'[u], <<held'[u], steps'[u]>>)
  <2>1. Safe(request'[t], <<held'[t], steps'[t]>>)
    BY <1>1, <1>4, <1>5, <1>6
  <2>2. ASSUME NEW u \in Threads \ {t} PROVE Safe(request'[u], <<held'[u], steps'[u]>>)
    BY <1>1, <1>2, <1>7
  <2> QED
    BY <2>1, <2>2
<1>9. \A u \in Threads : request'[u] = NoRequest => steps'[u] = << >>
  BY <1>1, <1>2, <1>3, <1>7
<1>10. \A u, v \in Threads : u # v => Compatible(held'[u], held'[v])
  <2>1. ASSUME NEW u \in Threads, NEW v \in Threads, u # v
        PROVE  Compatible(held'[u], held'[v])
    <3>1. CASE u = t
      BY <1>1, <1>6, <1>7, <2>1, <3>1
    <3>2. CASE v = t
      BY <1>1, <1>6, <1>7, <2>1, <3>2 DEF Compatible
    <3>3. CASE u # t /\ v # t
      BY <1>2, <1>7, <2>1, <3>3
    <3> QED
      BY <3>1, <3>2, <3>3
  <2> QED
    BY <2>1
<1>11. steps' = [u \in Threads |-> steps'[u]] /\ held' = [u \in Threads |-> held'[u]]
  BY <1>1, <1>2
<1>12. request' \in [Threads -> Requests \cup {NoRequest}]
  BY <1>1, <1>2
<1>13. \A u, v \in Threads :
         u # v /\ request'[u] # NoRequest /\ request'[v] # NoRequest
           => ~Excludes(request'[u], request'[v])
  BY <1>1 DEF ThreadsOK
<1> QED
  BY <1>8, <1>9, <1>10, <1>11, <1>12, <1>13 DEF ThreadsOK

LEMMA ThreadsReturn ==
  ASSUME ThreadsOK, NEW t \in Threads, Return(t)
  PROVE  ThreadsOK'
<1>1. /\ request \in [Threads -> Requests \cup {NoRequest}]
      /\ \A u \in Threads : Safe(request[u], <<held[u], steps[u]>>)
      /\ \A u \in Threads : request[u] = NoRequest => steps[u] = << >>
      /\ \A u, v \in Threads :
           u # v /\ request[u] # NoRequest /\ request[v] # NoRequest => ~Excludes(request[u], request[v])
  BY DEF ThreadsOK
<1>2. /\ steps[t] = << >> /\ request' = [request EXCEPT ![t] = NoRequest]
      /\ steps' = steps /\ held' = held
  BY DEF Return
<1>3. held[t] = {}
  BY <1>2, ThreadIsLocal DEF Local
<1>4. request'[t] = NoRequest /\ \A u \in Threads \ {t} : request'[u] = request[u]
  BY <1>1, <1>2
<1>5. \A u \in Threads : Safe(request'[u], <<held'[u], steps'[u]>>)
  <2>1. Safe(request'[t], <<held'[t], steps'[t]>>)
    BY <1>2, <1>3, SafeEnd
  <2> QED
    BY <1>1, <1>2, <1>4, <2>1
<1>6. \A u \in Threads : request'[u] = NoRequest => steps'[u] = << >>
  BY <1>1, <1>2, <1>4
<1>7. \A u, v \in Threads :
        u # v /\ request'[u] # NoRequest /\ request'[v] # NoRequest
          => ~Excludes(request'[u], request'[v])
  BY <1>1, <1>4
<1>8. request' \in [Threads -> Requests \cup {NoRequest}]
  BY <1>1, <1>2
<1> QED
  BY <1>2, <1>5, <1>6, <1>7, <1>8 DEF ThreadsOK

LEMMA ThreadsStart ==
  ASSUME ThreadsOK, NEW t \in Threads, NEW r \in Requests, Start(t, r)
  PROVE  ThreadsOK'
<1>1. /\ request \in [Threads -> Requests \cup {NoRequest}]
      /\ steps = [u \in Threads |-> steps[u]]
      /\ \A u \in Threads : Safe(request[u], <<held[u], steps[u]>>)
      /\ \A u \in Threads : request[u] = NoRequest => steps[u] = << >>
      /\ \A u, v \in Threads :
           u # v /\ request[u] # NoRequest /\ request[v] # NoRequest => ~Excludes(request[u], request[v])
  BY DEF ThreadsOK
<1>2. /\ request[t] = NoRequest /\ request' = [request EXCEPT ![t] = r]
      /\ steps' = [steps EXCEPT ![t] = Program(r)] /\ held' = held
  BY DEF Start, Idle
<1>3. \A u \in Threads \ {t} :
        request[u] # NoRequest => ~Excludes(r, request[u]) /\ ~Excludes(request[u], r)
  BY DEF Start, MayStart, Idle
<1>4. held[t] = {}
  BY <1>1, <1>2, ThreadIsLocal DEF Local
<1>5. request'[t] = r /\ \A u \in Threads \ {t} : request'[u] = request[u]
  BY <1>1, <1>2
<1>6. steps'[t] = Program(r) /\ \A u \in Threads \ {t} : steps'[u] = steps[u]
  BY <1>1, <1>2
<1>7. \A u \in Threads : Safe(request'[u], <<held'[u], steps'[u]>>)
  <2>1. Safe(request'[t], <<held'[t], steps'[t]>>)
    BY <1>2, <1>4, <1>5, <1>6, StartsSafe
  <2> QED
    BY <1>1, <1>2, <1>5, <1>6, <2>1
<1>8. \A u \in Threads : request'[u] = NoRequest => steps'[u] = << >>
  BY <1>1, <1>5, <1>6, RequestsAreSome
<1>9. \A u, v \in Threads :
        u # v /\ request'[u] # NoRequest /\ request'[v] # NoRequest
          => ~Excludes(request'[u], request'[v])
  BY <1>1, <1>3, <1>5
<1>10. request' \in [Threads -> Requests \cup {NoRequest}]
  BY <1>1, <1>2
<1>11. steps' = [u \in Threads |-> steps'[u]]
  BY <1>1, <1>2
<1> QED
  BY <1>2, <1>7, <1>8, <1>9, <1>10, <1>11 DEF ThreadsOK

LEMMA ThreadsNext == ThreadsOK /\ [Next]_vars => ThreadsOK'
<1> SUFFICES ASSUME ThreadsOK, [Next]_vars PROVE ThreadsOK'
  OBVIOUS
<1>1. ASSUME NEW t \in Threads, Continue(t) PROVE ThreadsOK'
  BY <1>1, ThreadsContinue, ThreadsReturn DEF Continue
<1>2. ASSUME NEW t \in Threads, NEW r \in Requests, Start(t, r) PROVE ThreadsOK'
  BY <1>2, ThreadsStart
<1>3. CASE UNCHANGED vars
  BY <1>3 DEF ThreadsOK, vars
<1> QED
  BY <1>1, <1>2, <1>3 DEF Next

\* The invariant holds for ever.
THEOREM Invariance == Spec => []ThreadsOK
BY ThreadsInit, ThreadsNext, PTL DEF Spec

-----------------------------------------------------------------------------
(* What follows from it.                                                   *)

\* The invariant gives the types, and no mutex is held in conflicting modes.
LEMMA TypesHold == ThreadsOK => TypeOK
<1> SUFFICES ASSUME ThreadsOK PROVE TypeOK
  OBVIOUS
<1>1. request \in [Threads -> Requests \cup {NoRequest}]
  BY DEF ThreadsOK
<1>2. ASSUME NEW t \in Threads PROVE held[t] \subseteq [on : Mutexes, mode : Modes, age : Nat]
  <2>1. held[t] \subseteq LocksOn(Lockable(request[t]) \cup CacheMutexes)
    BY ThreadIsLocal DEF Local
  <2>2. Lockable(request[t]) \cup CacheMutexes \subseteq Mutexes
    BY DEF Lockable, CacheMutexes, Mutexes
  <2> QED
    BY <2>1, <2>2 DEF LocksOn
<1>3. ASSUME NEW t \in Threads, NEW u \in Threads, NEW m \in Mutexes, t # u, HoldsUnique(t, m)
      PROVE  ~Holds(u, m)
  <2>1. Compatible(held[t], held[u])
    BY <1>3 DEF ThreadsOK
  <2> QED
    BY <1>3, <2>1 DEF Compatible, HoldsUnique, Holds
<1> QED
  BY <1>1, <1>2, <1>3 DEF TypeOK

\* TypeOK for any threads and any tree: requests, locks and modes are what they should
\* be, and shared and unique locks of one mutex never meet.
THEOREM TypeCorrect == Spec => []TypeOK
BY Invariance, TypesHold, PTL

\* A handler that has ended holds nothing.
LEMMA EndsFree == ThreadsOK => NothingStaysLocked
<1> SUFFICES ASSUME ThreadsOK, NEW t \in Threads, steps[t] = << >> PROVE held[t] = {}
  BY DEF NothingStaysLocked
<1> QED
  BY ThreadIsLocal DEF Local

\* NothingStaysLocked for any threads and any tree: answers, early returns and exceptions
\* anywhere leave no mutex locked.
THEOREM MutexesAreFreed == Spec => []NothingStaysLocked
BY Invariance, EndsFree, PTL

\* A change of a directory's entries, or its destruction by the handler that has its
\* node, and any other use of them are of one handler, or have the lock of its metadata
\* between them, or libfuse's path node.
LEMMA AccessIsApart ==
  ASSUME ThreadsOK, NEW t \in Threads, NEW u \in Threads, t # u, Accesses(u),
         Does(t, "write") \/ (Does(t, "destroy") /\ Next1(t).on \in WriteNodes(request[t]))
  PROVE  Next1(t).on # Next1(u).on
<1> SUFFICES ASSUME Next1(t).on = Next1(u).on PROVE FALSE
  OBVIOUS
<1> DEFINE r == request[t]
           s == request[u]
           d == Next1(t).on
<1>1. r # NoRequest /\ s # NoRequest
  BY DEF ThreadsOK, Does, Accesses
<1>2. ~Excludes(r, s) /\ ~Excludes(s, r) /\ Compatible(held[t], held[u])
  BY <1>1 DEF ThreadsOK
<1>3. d \in WriteNodes(r) \/ MayAccess(r, held[t], "write", d)
  BY ThreadIsLocal DEF Local, Does, Next1, Looks
<1>4. MayAccess(s, held[u], "read", d) \/ MayAccess(s, held[u], "write", d)
  BY ThreadIsLocal DEF Local, Does, Next1, Accesses, Looks
<1>5. d \in Nodes(r) /\ d \in Nodes(s)
  BY <1>3, <1>4 DEF MayAccess, Nodes
<1>6. d \notin WriteNodes(r) /\ d \notin WriteNodes(s)
  BY <1>2, <1>5 DEF Excludes, Nodes
<1>7. \E l \in held[t] : l.on = Metadata(d) /\ l.mode = "unique_lock"
  BY <1>3, <1>6 DEF MayAccess
<1>8. \E l \in held[u] : l.on = Metadata(d)
  BY <1>4, <1>6 DEF MayAccess
<1> QED
  BY <1>2, <1>7, <1>8 DEF Compatible

\* Directories are destroyed under the mutex of their map.
LEMMA OneDestroys ==
  ASSUME ThreadsOK, NEW t \in Threads, NEW u \in Threads, t # u,
         Does(t, "destroy"), Does(u, "destroy")
  PROVE  FALSE
<1> DEFINE Has(v) == \E l \in held[v] : l.on = DirectoryCacheMutex /\ l.mode = "unique_lock"
<1>1. ASSUME NEW v \in Threads, Does(v, "destroy") PROVE Has(v)
  <2>1. MayAccess(request[v], held[v], "destroy", Next1(v).on)
    BY <1>1, ThreadIsLocal DEF Local, Does, Next1, Looks
  <2> QED
    BY <2>1 DEF MayAccess
<1>2. Has(t) /\ Has(u)
  BY <1>1
<1>3. Compatible(held[t], held[u])
  BY DEF ThreadsOK
<1> QED
  BY <1>2, <1>3 DEF Compatible

LEMMA NoRaces == ThreadsOK => NoDataRaces
BY AccessIsApart, OneDestroys, Zenon DEF NoDataRaces

\* NoDataRaces for any threads and any tree: under the contexts' locks a directory's set of
\* files is never changed by one handler while another reads or changes it, nor destroyed by
\* its removal or move while another does; two handlers never destroy directories at once.
\* What destroys an expired or a dropped directory is the exception: it takes no lock of
\* the metadata (cache_store.impl.hpp:160-164, 196-205).
THEOREM NeverRaces == Spec => []NoDataRaces
BY Invariance, NoRaces, PTL

-----------------------------------------------------------------------------
(* Deadlock.                                                               *)

\* A set of numbers has a least one.
LEMMA LeastNumber ==
  ASSUME NEW N, N \subseteq Nat, N # {}
  PROVE  \E n \in N : \A m \in N : n =< m
<1> DEFINE R == {ss \in Nat \X Nat : ss[1] < ss[2]}
<1>1. OpToRel(<, Nat) = R
  BY Zenon DEF OpToRel
<1>2. IsWellFoundedOn(R, Nat)
  BY <1>1, NatLessThanWellFounded, Zenon
<1>3. \E n \in N : \A m \in N : <<m, n>> \notin R
  <2> HIDE DEF R
  <2> QED
    BY <1>2, WFMin, Zenon
<1>4. PICK n \in N : \A m \in N : <<m, n>> \notin R
  BY <1>3
<1>5. ASSUME NEW m \in N PROVE n =< m
  <2>1. m \in Nat /\ n \in Nat
    OBVIOUS
  <2>2. ~(m < n)
    <3>1. m < n => <<m, n>> \in R
      BY <2>1
    <3> QED
      BY <1>4, <3>1
  <2> QED
    BY <2>1, <2>2
<1> QED
  BY <1>5

\* A handler that waits for one that waits too, waits for metadata that it may lock
\* and the other holds: nobody waits in a section, and a directory's mutex is for one
\* handler only.
LEMMA WaitsForMetadata ==
  ASSUME ThreadsOK, NEW t \in Threads, NEW u \in Threads, Blocks(u, t), Does(u, "acquire")
  PROVE  /\ u # t /\ request[t] # NoRequest /\ request[u] # NoRequest
         /\ \E x \in Paths :
              /\ Next1(t).on = {Metadata(x)} /\ Free(request[t], held[t], x)
              /\ \E l \in held[u] : l.on = Metadata(x)
<1> DEFINE r == request[t]
           s == request[u]
           ms == Next1(t).on
<1>1. PICK m \in ms : Holds(u, m)
  BY DEF Blocks, Holds, HoldsUnique
<1>2. PICK l \in held[u] : l.on = m
  BY <1>1 DEF Holds
<1>3. Does(t, "acquire") /\ steps[t] # << >> /\ steps[u] # << >>
  BY DEF Blocks, Does
<1>4. r # NoRequest /\ s # NoRequest
  BY <1>3 DEF ThreadsOK
<1>5. MayAcquire(r, held[t], ms, Next1(t).mode)
  BY <1>3, ThreadIsLocal DEF Local, Does, Next1
<1>6. Calm(s, held[u])
  BY <1>3, ThreadIsLocal DEF Local, Does, Next1, MayAcquire
<1>7. CASE ms \subseteq CacheMutexes
  BY <1>1, <1>2, <1>6, <1>7, CalmLocks
<1>8. ASSUME NEW d \in WriteNodes(r) \cap DirPaths, ms = {Directory(d)},
             \A k \in held[t] : k.on # Directory(d)
      PROVE  FALSE
  <2>1. l.on = Directory(d) /\ u # t
    BY <1>1, <1>2, <1>8
  <2>2. d \in WriteNodes(s)
    BY <1>2, <1>6, <2>1, CalmLocks, MutexesDiffer
  <2>3. Excludes(r, s)
    BY <2>2, <1>8 DEF Excludes
  <2> QED
    BY <1>4, <2>1, <2>3 DEF ThreadsOK
<1>9. ASSUME NEW x \in Paths, ms = {Metadata(x)}, Free(r, held[t], x)
      PROVE  u # t /\ l.on = Metadata(x)
  BY <1>1, <1>2, <1>9, FreeIsNotHeld
<1>10. PICK x \in Paths : ms = {Metadata(x)} /\ Free(r, held[t], x)
  BY <1>5, <1>7, <1>8 DEF MayAcquire
<1> QED
  BY <1>2, <1>4, <1>9, <1>10

\* A handler that waits for the metadata of x while it holds that of y is below x, or
\* renames to another directory.
LEMMA HoldsChild ==
  ASSUME NEW r, NEW h, NEW x, Free(r, h, x), NEW y \in Paths, NEW l \in h, l.on = Metadata(y)
  PROVE  \/ y # Root /\ Parent(y) = x /\ x \in Inodes(r)
         \/ CrossDirectory(r) /\ y = Parent(r.path) /\ x = Parent(r.to)
<1>1. Before(r, Metadata(y), x)
  BY DEF Free
<1> QED
  BY <1>1, MutexesDiffer DEF Before

\* Each handler of a set that waits for one of the set waits for metadata.  Of those
\* that hold what another waits for and do not rename between directories, take the one
\* that waits for the shortest path: what it waits for is held by one that
\* waits for its parent, or by the only rename between directories, which has the inode of
\* that directory as the handler does, and the kernel keeps them apart.
LEMMA SomeoneGoesOn == ThreadsOK => NoDeadlock
<1> SUFFICES ASSUME ThreadsOK, NEW S \in SUBSET Threads, S # {},
                    \A t \in S : \E u \in S : Blocks(u, t)
             PROVE  FALSE
  BY DEF NoDeadlock
<1> DEFINE Waits(t, x) == Next1(t).on = {Metadata(x)} /\ Free(request[t], held[t], x)
           Has(u, x) == \E l \in held[u] : l.on = Metadata(x)
           W == {t \in S : CrossDirectory(request[t])}
<1>1. \A t \in S : Does(t, "acquire") /\ t \in Threads
  BY DEF Blocks
<1>2. ASSUME NEW t \in S
      PROVE  \E x \in Paths : Waits(t, x) /\ \E u \in S \ {t} : Has(u, x)
  <2>1. PICK u \in S : Blocks(u, t)
    OBVIOUS
  <2> QED
    BY <1>1, <2>1, WaitsForMetadata
<1>3. \A t \in S : request[t] # NoRequest
  BY <1>1 DEF ThreadsOK, Does
<1>4. \A t \in S : \A x, y \in Paths : Waits(t, x) /\ Waits(t, y) => x = y
  BY MutexesDiffer
<1>5. \A t, u \in S : t # u => ~Excludes(request[t], request[u])
  BY <1>1, <1>3 DEF ThreadsOK
<1>6. \A t, u \in W : t = u
  BY <1>5 DEF Excludes
<1>7. ASSUME NEW t \in S, NEW x \in Paths, Waits(t, x), NEW y \in Paths, Has(t, y)
      PROVE  \/ y # Root /\ Parent(y) = x /\ x \in Inodes(request[t])
             \/ t \in W /\ y = Parent(request[t].path) /\ x = Parent(request[t].to)
  BY <1>7, HoldsChild
<1> DEFINE N == {n \in Nat : \E t \in S \ W : \E x, y \in Paths :
                               Waits(t, x) /\ Has(t, y) /\ n = Len(x)}
<1>8. \A x \in Paths : Len(x) \in Nat
  BY ParentShorter, EmptySeq DEF Root
<1> HIDE DEF Waits, Has, W
<1>9. N # {}
  <2>1. PICK s \in S : TRUE
    OBVIOUS
  <2>2. PICK x \in Paths, u \in S \ {s} : Waits(s, x) /\ Has(u, x)
    BY <1>2
  <2>3. PICK z \in Paths, v \in S \ {u} : Waits(u, z) /\ Has(v, z)
    BY <1>2
  <2>4. CASE u \notin W
    BY <1>8, <2>2, <2>3, <2>4
  <2>5. CASE u \in W
    <3>1. v \in S \ W
      BY <1>6, <2>3, <2>5
    <3>2. PICK y \in Paths : Waits(v, y)
      BY <1>2, <3>1
    <3> QED
      BY <1>8, <2>3, <3>1, <3>2
  <2> QED
    BY <2>4, <2>5
<1>10. PICK n \in N : \A m \in N : n =< m
  BY <1>9, LeastNumber
<1>11. PICK t \in S \ W, x \in Paths, y \in Paths : Waits(t, x) /\ Has(t, y) /\ n = Len(x)
  BY <1>10
<1>12. x \in Inodes(request[t])
  BY <1>7, <1>11
<1>13. PICK u \in S \ {t} : Has(u, x)
  BY <1>2, <1>4, <1>11
<1>14. PICK z \in Paths, v \in S \ {u} : Waits(u, z) /\ Has(v, z)
  BY <1>2
<1>15. n \in Nat /\ \A w \in S \ W : \A a, b \in Paths : Waits(w, a) /\ Has(w, b) => n =< Len(a)
  BY <1>8, <1>10
<1>16. ASSUME x # Root, Parent(x) = z PROVE FALSE
  <2>1. Len(z) < n /\ Len(z) \in Nat
    BY <1>11, <1>16, ParentShorter
  <2>2. CASE u \notin W
    BY <1>13, <1>14, <1>15, <2>1, <2>2
  <2>3. CASE u \in W
    <3>1. v \in S \ W
      BY <1>6, <1>14, <2>3
    <3>2. PICK a \in Paths : Waits(v, a)
      BY <1>2, <3>1
    <3>3. z # Root /\ Parent(z) = a
      BY <1>7, <1>14, <3>1, <3>2
    <3>4. Len(a) < Len(z) /\ Len(a) \in Nat
      BY <1>14, <3>3, ParentShorter
    <3>5. n =< Len(a)
      BY <1>14, <1>15, <3>1, <3>2
    <3> QED
      BY <1>15, <2>1, <3>4, <3>5
  <2> QED
    BY <2>2, <2>3
<1>17. ASSUME u \in W, x = Parent(request[u].path) PROVE FALSE
  <2>1. x \in Inodes(request[u])
    BY <1>17 DEF W, CrossDirectory, Inodes, Mutators
  <2>2. Excludes(request[t], request[u])
    BY <1>12, <2>1 DEF Excludes
  <2> QED
    BY <1>5, <1>11, <1>13, <2>2
<1> QED
  BY <1>7, <1>11, <1>13, <1>14, <1>16, <1>17

\* NoDeadlock for any number of threads and any tree: among any handlers that wait there is
\* one whose lock none of the others holds.
THEOREM NeverDeadlocks == Spec => []NoDeadlock
BY Invariance, SomeoneGoesOn, PTL

=============================================================================
