------------------------ MODULE DirectoryDataProofs ------------------------
(***************************************************************************)
(* Theorems about DirectoryData, for any names, sizes of entries and       *)
(* objects, by an inductive invariant: what a flush has written so far is  *)
(* what serialize makes of the entries, a clean directory has the size of  *)
(* its record, and a load finds what was clean.  That needs three facts    *)
(* about the operators of the model: the size of a set of entries does not *)
(* depend on the order they are counted in; serialize lays them out one    *)
(* after the other; and parse finds what serialize wrote, whatever follows *)
(* it in the buffer.                                                       *)
(*                                                                         *)
(* The folds and the walk of parse are recursive functions: each proof by  *)
(* induction shows that the numbers, or the subsets, for which a formula   *)
(* holds are all of them.                                                  *)
(***************************************************************************)
EXTENDS DirectoryData, FiniteSetTheorems, NaturalsInduction, TLAPS

-----------------------------------------------------------------------------
(* Induction.                                                              *)

\* A set of numbers that has 0, and with a number the next one, has all of them.
LEMMA Induction ==
  ASSUME NEW G, 0 \in G, \A n \in Nat : n \in G => n + 1 \in G
  PROVE  Nat \subseteq G
<1> DEFINE T == Nat \ G
           R == {ss \in Nat \X Nat : ss[1] < ss[2]}
<1> SUFFICES ASSUME T # {} PROVE FALSE
  OBVIOUS
<1>1. OpToRel(<, Nat) = R
  BY Zenon DEF OpToRel
<1>2. IsWellFoundedOn(R, Nat)
  BY <1>1, NatLessThanWellFounded, Zenon
<1>3. \E x \in T : \A y \in T : <<y, x>> \notin R
  <2>1. T \subseteq Nat
    OBVIOUS
  <2> HIDE DEF T, R
  <2> QED
    BY <1>2, <2>1, WFMin, Zenon
<1>4. PICK x \in T : \A y \in T : <<y, x>> \notin R
  BY <1>3
<1>5. x \in Nat /\ x # 0 /\ x - 1 \in Nat
  OBVIOUS
<1>6. x - 1 \notin G /\ <<x - 1, x>> \in R
  BY <1>5
<1> QED
  BY <1>4, <1>5, <1>6

\* A set of subsets of a finite set that has a subset when it has all smaller
\* ones of it, has all of them.
LEMMA SubsetInduction ==
  ASSUME NEW S, IsFiniteSet(S), NEW G,
         \A T \in SUBSET S : (\A U \in SUBSET T : U # T => U \in G) => T \in G
  PROVE  SUBSET S \subseteq G
<1> DEFINE B == (SUBSET S) \ G
<1> SUFFICES ASSUME B # {} PROVE FALSE
  OBVIOUS
<1> DEFINE P == SUBSET S
           R == StrictSubsetOrdering(S)
<1>1. IsWellFoundedOn(R, P)
  <2>1. FiniteSubsetsOf(S) = SUBSET S
    BY FS_FiniteSubsetsOfFinite, Zenon
  <2>2. IsWellFoundedOn(StrictSubsetOrdering(S), FiniteSubsetsOf(S))
    BY FS_StrictSubsetOrderingWellFounded, Zenon
  <2> QED
    BY <2>1, <2>2, Zenon
<1>2. B \subseteq P
  OBVIOUS
<1>3. PICK x \in B : \A y \in B : <<y, x>> \notin R
  <2>1. B # {}
    OBVIOUS
  <2> HIDE DEF B, P, R
  <2> QED
    BY <1>1, <1>2, <2>1, WFMin
<1>4. ASSUME NEW U \in SUBSET x, U # x PROVE U \in G
  <2>1. U \in SUBSET S /\ x \in SUBSET S
    OBVIOUS
  <2>2. <<U, x>> \in StrictSubsetOrdering(S)
    BY <1>4, <2>1 DEF StrictSubsetOrdering
  <2> QED
    BY <1>3, <2>1, <2>2
<1> QED
  BY <1>4

-----------------------------------------------------------------------------
(* Sums over a finite set.                                                 *)

\* The element that a fold takes first.
Pick(s) == CHOOSE x \in s : TRUE

\* g is the sum of F over each subset of T.
IsSum(F, T, g) ==
  g = [s \in SUBSET T |-> IF s = {} THEN 0 ELSE F[Pick(s)] + g[s \ {Pick(s)}]]
Sum(F, T) == (CHOOSE g : IsSum(F, T, g))[T]

\* The fold of Cells is a sum.
LEMMA FoldIsSum == ASSUME NEW F, NEW T PROVE FoldFunctionOnSet(+, 0, F, T) = Sum(F, T)
  BY Zenon DEF FoldFunctionOnSet, MapThenFoldSet, Sum, IsSum, Pick

\* The element a sum counts first is one of the set.
LEMMA PickIn == ASSUME NEW s, s # {} PROVE Pick(s) \in s
  BY DEF Pick

\* Two recursive sums agree where both are defined.
LEMMA SumUnique ==
  ASSUME NEW F, NEW T, IsFiniteSet(T), NEW U \in SUBSET T, NEW g, NEW h,
         IsSum(F, T, g), IsSum(F, U, h)
  PROVE  h[U] = g[U]
<1> DEFINE G == {s \in SUBSET U : h[s] = g[s]}
<1>1. IsFiniteSet(U)
  BY FS_Subset
<1>2. ASSUME NEW s \in SUBSET U, \A r \in SUBSET s : r # s => r \in G PROVE s \in G
  <2>1. h[s] = IF s = {} THEN 0 ELSE F[Pick(s)] + h[s \ {Pick(s)}]
    BY DEF IsSum
  <2>2. g[s] = IF s = {} THEN 0 ELSE F[Pick(s)] + g[s \ {Pick(s)}]
    <3>1. s \in SUBSET T
      OBVIOUS
    <3> QED
      BY <3>1 DEF IsSum
  <2>3. s # {} => h[s \ {Pick(s)}] = g[s \ {Pick(s)}]
    BY <1>2, PickIn
  <2> QED
    BY <2>1, <2>2, <2>3
<1> HIDE DEF G
<1>3. SUBSET U \subseteq G
  BY <1>1, <1>2, SubsetInduction, Zenon
<1> QED
  BY <1>3 DEF G

\* Every finite set has a sum.
LEMMA SumExists == ASSUME NEW F, NEW S, IsFiniteSet(S) PROVE \E g : IsSum(F, S, g)
<1> DEFINE G == {T \in SUBSET S : \E g : IsSum(F, T, g)}
<1>1. ASSUME NEW T \in SUBSET S, \A U \in SUBSET T : U # T => U \in G PROVE T \in G
  <2> DEFINE h(s) == Sum(F, s \ {Pick(s)})
             g == [s \in SUBSET T |-> IF s = {} THEN 0 ELSE F[Pick(s)] + h(s)]
             sum(U) == CHOOSE f : IsSum(F, U, f)
  <2>1. ASSUME NEW U \in SUBSET T, U # T PROVE IsSum(F, U, sum(U))
    <3>1. \E f : IsSum(F, U, f)
      BY <1>1, <2>1
    <3> HIDE DEF sum
    <3> QED
      BY <3>1, Zenon DEF sum
  <2>2. ASSUME NEW s \in SUBSET T, s # {} PROVE g[s \ {Pick(s)}] = h(s)
    <3> DEFINE U == s \ {Pick(s)}
               V == U \ {Pick(U)}
    <3>1. U \in SUBSET T /\ U # T /\ V \in SUBSET U /\ V \in SUBSET T
      BY <2>2, PickIn
    <3>2. IsSum(F, U, sum(U))
      BY <2>1, <3>1
    <3> HIDE DEF sum
    <3>3. sum(U)[U] = IF U = {} THEN 0 ELSE F[Pick(U)] + sum(U)[V]
      BY <3>2 DEF IsSum
    <3>4. g[U] = IF U = {} THEN 0 ELSE F[Pick(U)] + h(U)
      BY <3>1
    <3>5. CASE U = {}
      BY <3>3, <3>4, <3>5 DEF Sum, sum
    <3>6. CASE U # {}
      <4>1. V # T
        BY <3>1
      <4>2. IsSum(F, V, sum(V))
        BY <2>1, <3>1, <4>1
      <4>3. IsFiniteSet(U)
        BY <3>1, FS_Subset
      <4>4. sum(V)[V] = sum(U)[V]
        <5>1. V \in SUBSET U
          BY <3>1
        <5> HIDE DEF U, V
        <5> QED
          BY <3>2, <4>2, <4>3, <5>1, SumUnique
      <4> QED
        BY <3>3, <3>4, <3>6, <4>4 DEF Sum, sum
    <3> QED
      BY <3>5, <3>6
  <2>3. IsSum(F, T, g)
    <3>1. ASSUME NEW s \in SUBSET T
          PROVE  (IF s = {} THEN 0 ELSE F[Pick(s)] + h(s))
                   = (IF s = {} THEN 0 ELSE F[Pick(s)] + g[s \ {Pick(s)}])
      BY <2>2, Zenon
    <3> HIDE DEF h
    <3>2. g = [s \in SUBSET T |-> IF s = {} THEN 0 ELSE F[Pick(s)] + g[s \ {Pick(s)}]]
      BY <3>1, Zenon
    <3> HIDE DEF g
    <3> QED
      BY <3>2 DEF IsSum
  <2> QED
    BY <2>3
<1> HIDE DEF G
<1>2. SUBSET S \subseteq G
  BY <1>1, SubsetInduction, Zenon
<1> QED
  BY <1>2 DEF G

\* A sum counts one element, and then the others.
LEMMA SumIs ==
  ASSUME NEW F, NEW S, IsFiniteSet(S)
  PROVE  Sum(F, S) = IF S = {} THEN 0 ELSE F[Pick(S)] + Sum(F, S \ {Pick(S)})
<1> DEFINE sum(U) == CHOOSE f : IsSum(F, U, f)
           V == S \ {Pick(S)}
<1>1. IsSum(F, S, sum(S)) /\ IsSum(F, V, sum(V))
  <2>1. IsFiniteSet(V)
    BY FS_RemoveElement
  <2>2. (\E f : IsSum(F, S, f)) /\ (\E f : IsSum(F, V, f))
    BY <2>1, SumExists, Zenon
  <2> HIDE DEF V
  <2> QED
    BY <2>2, Zenon
<1> HIDE DEF sum
<1>2. sum(S)[S] = IF S = {} THEN 0 ELSE F[Pick(S)] + sum(S)[V]
  BY <1>1 DEF IsSum
<1>3. sum(V)[V] = sum(S)[V]
  <2>1. V \in SUBSET S
    OBVIOUS
  <2> HIDE DEF V
  <2> QED
    BY <1>1, <2>1, SumUnique
<1> QED
  BY <1>2, <1>3 DEF sum, Sum

\* A sum of natural numbers is one.
LEMMA SumNat ==
  ASSUME NEW S, IsFiniteSet(S), NEW F, \A e \in S : F[e] \in Nat
  PROVE  Sum(F, S) \in Nat
<1> DEFINE G == {T \in SUBSET S : Sum(F, T) \in Nat}
<1>1. ASSUME NEW T \in SUBSET S, \A U \in SUBSET T : U # T => U \in G PROVE T \in G
  <2>1. IsFiniteSet(T)
    BY FS_Subset
  <2>2. Sum(F, T) = IF T = {} THEN 0 ELSE F[Pick(T)] + Sum(F, T \ {Pick(T)})
    BY <2>1, SumIs, Zenon
  <2>3. T # {} => Pick(T) \in S /\ Sum(F, T \ {Pick(T)}) \in Nat
    BY <1>1, PickIn
  <2> QED
    BY <2>2, <2>3
<1> HIDE DEF G
<1>2. SUBSET S \subseteq G
  BY <1>1, SubsetInduction, Zenon
<1> QED
  BY <1>2 DEF G

\* Which element is counted first does not matter.
LEMMA SumRemove ==
  ASSUME NEW S, IsFiniteSet(S), NEW F, \A e \in S : F[e] \in Nat, NEW e \in S
  PROVE  Sum(F, S) = F[e] + Sum(F, S \ {e})
<1> DEFINE G == {T \in SUBSET S : \A x \in T : Sum(F, T) = F[x] + Sum(F, T \ {x})}
<1>1. ASSUME NEW T \in SUBSET S, \A U \in SUBSET T : U # T => U \in G PROVE T \in G
  <2> SUFFICES ASSUME NEW x \in T PROVE Sum(F, T) = F[x] + Sum(F, T \ {x})
    OBVIOUS
  <2> DEFINE c == Pick(T)
             V == T \ {c}
             W == T \ {x}
             X == V \ {x}
  <2>1. IsFiniteSet(T) /\ c \in T
    BY FS_Subset, PickIn
  <2>2. Sum(F, T) = F[c] + Sum(F, V)
    BY <2>1, SumIs, Zenon
  <2>3. CASE x = c
    BY <2>2, <2>3
  <2>4. CASE x # c
    <3>1. V \in G /\ W \in G /\ x \in V /\ c \in W /\ X = W \ {c}
      BY <1>1, <2>1, <2>4
    <3>2. Sum(F, V) = F[x] + Sum(F, X) /\ Sum(F, W) = F[c] + Sum(F, X)
      BY <3>1
    <3>3. Sum(F, X) \in Nat
      <4>1. IsFiniteSet(X) /\ X \subseteq S
        BY FS_Subset
      <4> HIDE DEF X
      <4> QED
        BY <4>1, SumNat
    <3>4. F[x] \in Nat /\ F[c] \in Nat
      BY <2>1
    <3> HIDE DEF V, W, X, c
    <3>5. Sum(F, T) = F[x] + Sum(F, W)
      BY <2>2, <3>2, <3>3, <3>4
    <3> QED
      BY <3>5 DEF W
  <2> QED
    BY <2>3, <2>4
<1> HIDE DEF G
<1>2. SUBSET S \subseteq G
  BY <1>1, SubsetInduction, Zenon
<1> QED
  BY <1>2 DEF G

-----------------------------------------------------------------------------
(* The size of a set of entries.                                           *)

\* The cells of a set of entries: the count, and the cells of each.
LEMMA CellsIsSum == ASSUME NEW S PROVE Cells(S) = 1 + Sum(EntrySize, S)
  BY FoldIsSum, Zenon DEF Cells

\* An entry has at least one cell.
LEMMA SizeOfEntry ==
  ASSUME NEW e \in Names PROVE EntrySize[e] \in Nat \ {0}
  BY SizesAssumption

\* The sizes of entries are natural numbers.
LEMMA SizesOfEntries ==
  ASSUME NEW S \in SUBSET Names PROVE \A e \in S : EntrySize[e] \in Nat
  BY SizesAssumption

\* A directory without entries has the count.
LEMMA CellsEmpty == Cells({}) = 1
<1>1. Sum(EntrySize, {}) = 0
  BY FS_EmptySet, SumIs
<1> QED
  BY <1>1, CellsIsSum

\* A directory has at least the cell of the count.
LEMMA CellsNat ==
  ASSUME NEW S \in SUBSET Names, IsFiniteSet(S)
  PROVE  Cells(S) \in Nat \ {0}
<1>1. Sum(EntrySize, S) \in Nat
  BY SizesOfEntries, SumNat
<1> QED
  BY <1>1, CellsIsSum

\* Without one of its entries, a directory has the cells of that entry less.
LEMMA CellsWithout ==
  ASSUME NEW S \in SUBSET Names, IsFiniteSet(S), NEW e \in S
  PROVE  Cells(S) = Cells(S \ {e}) + EntrySize[e]
<1> DEFINE T == S \ {e}
<1>1. Sum(EntrySize, S) = EntrySize[e] + Sum(EntrySize, T)
  BY SizesOfEntries, SumRemove
<1>2. T \in SUBSET Names /\ IsFiniteSet(T)
  BY FS_RemoveElement
<1> HIDE DEF T
<1>3. Sum(EntrySize, T) \in Nat /\ EntrySize[e] \in Nat
  BY <1>2, SizesOfEntries, SumNat
<1>4. Cells(S) = 1 + Sum(EntrySize, S) /\ Cells(T) = 1 + Sum(EntrySize, T)
  BY CellsIsSum
<1>5. Cells(S) = Cells(T) + EntrySize[e]
  BY <1>1, <1>3, <1>4
<1> QED
  BY <1>5 DEF T

\* With one entry more, a directory has the cells of that entry more.
LEMMA CellsWith ==
  ASSUME NEW S \in SUBSET Names, IsFiniteSet(S), NEW e \in Names, e \notin S
  PROVE  Cells(S \cup {e}) = Cells(S) + EntrySize[e]
<1> DEFINE T == S \cup {e}
<1>1. T \in SUBSET Names /\ IsFiniteSet(T) /\ e \in T /\ T \ {e} = S
  BY FS_AddElement
<1> HIDE DEF T
<1>2. Cells(T) = Cells(T \ {e}) + EntrySize[e]
  BY <1>1, CellsWithout
<1> QED
  BY <1>1, <1>2 DEF T

\* Fewer entries have no more cells.
LEMMA CellsMonotone ==
  ASSUME NEW S \in SUBSET Names, IsFiniteSet(S), NEW R \in SUBSET S
  PROVE  Cells(R) <= Cells(S)
<1> DEFINE G == {T \in SUBSET S : R \subseteq T => Cells(R) <= Cells(T)}
<1>1. ASSUME NEW T \in SUBSET S, \A U \in SUBSET T : U # T => U \in G PROVE T \in G
  <2>1. IsFiniteSet(T) /\ T \in SUBSET Names /\ IsFiniteSet(R) /\ R \in SUBSET Names
    BY FS_Subset
  <2>2. CASE R = T
    BY <2>1, <2>2, CellsNat
  <2>3. CASE R \subseteq T /\ R # T
    <3>1. PICK e \in T : e \notin R
      BY <2>3
    <3> DEFINE U == T \ {e}
    <3>2. U \in SUBSET T /\ U # T /\ R \subseteq U
      BY <2>3, <3>1
    <3>3. Cells(R) <= Cells(U)
      BY <1>1, <3>2
    <3>4. Cells(T) = Cells(U) + EntrySize[e]
      BY <2>1, CellsWithout
    <3>5. Cells(U) \in Nat /\ Cells(R) \in Nat /\ EntrySize[e] \in Nat
      <4>1. IsFiniteSet(U) /\ U \in SUBSET Names
        BY <2>1, <3>2, FS_Subset
      <4>2. EntrySize[e] \in Nat
        BY <2>1, SizeOfEntry
      <4> HIDE DEF U
      <4> QED
        BY <2>1, <4>1, <4>2, CellsNat
    <3> HIDE DEF U
    <3>6. Cells(R) <= Cells(T)
      BY <3>3, <3>4, <3>5
    <3> QED
      BY <3>6
  <2> QED
    BY <2>2, <2>3
<1> HIDE DEF G
<1>2. SUBSET S \subseteq G
  BY <1>1, SubsetInduction, Zenon
<1> QED
  BY <1>2 DEF G

-----------------------------------------------------------------------------
(* The cells that serialize writes.                                        *)

\* What a cell may be.
Cell == (Names \cup {0}) \X Nat

\* The entries before e, where e starts, and the entry that has cell p.
Below(S, e) == {x \in S : x < e}
Start(S, e) == Cells(Below(S, e))
At(S, p) == {e \in S : Start(S, e) < p /\ p <= Start(S, e) + EntrySize[e]}
CellOf(S, p) == LET e == CHOOSE e \in At(S, p) : TRUE IN <<e, p - Start(S, e)>>
SerializedCell(S, p) ==
  IF p = 1 THEN <<0, Cardinality(S)>> ELSE IF At(S, p) = {} THEN Zero ELSE CellOf(S, p)

\* serialize without its local definitions.
LEMMA SerializedIs ==
  ASSUME NEW S, NEW n PROVE Serialized(S, n) = [p \in 1 .. n |-> SerializedCell(S, p)]
  BY DEF Serialized, SerializedCell, CellOf, At, Start, Below

\* The entries before one of a set are some of it.
LEMMA BelowIsSet ==
  ASSUME NEW S \in SUBSET Names, IsFiniteSet(S), NEW e
  PROVE  Below(S, e) \in SUBSET Names /\ IsFiniteSet(Below(S, e)) /\ Below(S, e) \in SUBSET S
<1>1. Below(S, e) \in SUBSET S
  BY DEF Below
<1> QED
  BY <1>1, FS_Subset

\* An entry starts behind the count.
LEMMA StartNat ==
  ASSUME NEW S \in SUBSET Names, IsFiniteSet(S), NEW e
  PROVE  Start(S, e) \in Nat \ {0}
  BY BelowIsSet, CellsNat DEF Start

\* An entry lies within the cells of every set that has it and those before it.
LEMMA EntryFits ==
  ASSUME NEW S \in SUBSET Names, IsFiniteSet(S), NEW e \in S, NEW R \in SUBSET S,
         Below(S, e) \subseteq R, e \in R
  PROVE  Start(S, e) + EntrySize[e] <= Cells(R)
<1> DEFINE T == Below(S, e) \cup {e}
<1>1. e \in Names /\ e \notin Below(S, e)
  BY NamesAssumption DEF Below
<1>2. Cells(T) = Start(S, e) + EntrySize[e]
  BY <1>1, BelowIsSet, CellsWith DEF Start
<1>3. T \in SUBSET R /\ R \in SUBSET Names /\ IsFiniteSet(R)
  BY FS_Subset
<1> HIDE DEF T
<1> QED
  BY <1>2, <1>3, CellsMonotone

\* The entries lie one after the other, in the order of their names.
LEMMA EntriesAreApart ==
  ASSUME NEW S \in SUBSET Names, IsFiniteSet(S), NEW e \in S, NEW d \in S, e < d
  PROVE  Start(S, e) + EntrySize[e] <= Start(S, d)
<1> DEFINE R == Below(S, d)
<1>1. Below(S, e) \subseteq R /\ e \in R
  <2>1. e \in Nat /\ d \in Nat
    BY NamesAssumption
  <2>2. ASSUME NEW x \in S, x < e PROVE x < d
    <3>1. x \in Nat
      BY NamesAssumption
    <3> QED
      BY <2>1, <2>2, <3>1
  <2> QED
    BY <2>2 DEF Below
<1>2. R \in SUBSET S
  BY BelowIsSet
<1> HIDE DEF R
<1>3. Start(S, e) + EntrySize[e] <= Cells(R)
  BY <1>1, <1>2, EntryFits
<1> QED
  BY <1>3 DEF R, Start

\* A cell of an entry is a cell of no other.
LEMMA OnlyEntryAt ==
  ASSUME NEW S \in SUBSET Names, IsFiniteSet(S), NEW e \in S, NEW p \in Int,
         Start(S, e) < p, p <= Start(S, e) + EntrySize[e]
  PROVE  At(S, p) = {e}
<1>1. e \in At(S, p)
  BY DEF At
<1>2. ASSUME NEW d \in At(S, p), d # e PROVE FALSE
  <2>1. d \in S /\ d \in Nat /\ e \in Nat
    BY NamesAssumption DEF At
  <2>2. Start(S, d) < p /\ p <= Start(S, d) + EntrySize[d]
    BY DEF At
  <2>3. Start(S, d) \in Nat /\ Start(S, e) \in Nat /\ EntrySize[d] \in Nat /\ EntrySize[e] \in Nat
    BY <2>1, StartNat, SizeOfEntry
  <2>4. CASE d < e
    BY <2>1, <2>2, <2>3, <2>4, EntriesAreApart
  <2>5. CASE e < d
    BY <2>1, <2>2, <2>3, <2>5, EntriesAreApart
  <2> QED
    BY <1>2, <2>1, <2>4, <2>5
<1> QED
  BY <1>1, <1>2

\* The cells of an entry are written where it starts.
LEMMA SerializedEntry ==
  ASSUME NEW S \in SUBSET Names, IsFiniteSet(S), NEW e \in S,
         NEW i \in 1 .. EntrySize[e]
  PROVE  SerializedCell(S, Start(S, e) + i) = <<e, i>>
<1> DEFINE p == Start(S, e) + i
<1>1. Start(S, e) \in Nat \ {0} /\ EntrySize[e] \in Nat
  BY StartNat, SizeOfEntry
<1>2. p \in Int /\ Start(S, e) < p /\ p <= Start(S, e) + EntrySize[e] /\ p # 1
      /\ p - Start(S, e) = i
  BY <1>1
<1> HIDE DEF p
<1>3. At(S, p) = {e}
  BY <1>2, OnlyEntryAt
<1>4. (CHOOSE x \in At(S, p) : TRUE) = e
  BY <1>3
<1>5. CellOf(S, p) = <<e, i>>
  BY <1>2, <1>4 DEF CellOf
<1>6. SerializedCell(S, p) = <<e, i>>
  BY <1>2, <1>3, <1>5 DEF SerializedCell
<1> QED
  BY <1>6 DEF p

\* serialize fills its buffer with cells.
LEMMA SerializedType ==
  ASSUME NEW S \in SUBSET Names, IsFiniteSet(S), NEW n \in Nat
  PROVE  Serialized(S, n) \in Seq(Cell) /\ Len(Serialized(S, n)) = n
<1>1. ASSUME NEW p \in 1 .. n PROVE SerializedCell(S, p) \in Cell
  <2>1. Zero \in Cell
    BY DEF Zero, Cell
  <2>2. <<0, Cardinality(S)>> \in Cell
    BY FS_CardinalityType DEF Cell
  <2>3. ASSUME At(S, p) # {} PROVE CellOf(S, p) \in Cell
    <3>1. PICK e \in At(S, p) : e = (CHOOSE x \in At(S, p) : TRUE)
      BY <2>3
    <3>2. Start(S, e) \in Nat /\ Start(S, e) < p /\ e \in Names
      BY StartNat DEF At
    <3>3. p - Start(S, e) \in Nat
      BY <3>2
    <3>4. CellOf(S, p) = <<e, p - Start(S, e)>>
      BY <3>1, Zenon DEF CellOf
    <3> QED
      BY <3>2, <3>3, <3>4 DEF Cell
  <2> QED
    BY <2>1, <2>2, <2>3 DEF SerializedCell
<1> QED
  BY <1>1, SerializedIs

-----------------------------------------------------------------------------
(* The walk of parse.                                                      *)

\* The parts of Parse without their local definitions.
Entry(cells, p) == cells[p][1]
Whole(cells, p) ==
  /\ p <= Len(cells) /\ Entry(cells, p) \in Names
  /\ p + EntrySize[Entry(cells, p)] - 1 <= Len(cells)
  /\ \A i \in 1 .. EntrySize[Entry(cells, p)] : cells[p + i - 1] = <<Entry(cells, p), i>>
Found(S, p) == [ok |-> TRUE, files |-> S, next |-> p]
Step(cells, w) ==
  IF w.ok /\ Whole(cells, w.next)
    THEN Found(w.files \cup {Entry(cells, w.next)},
               w.next + EntrySize[Entry(cells, w.next)])
    ELSE Garbage
Walk(cells, n, g) ==
  g = [k \in 0 .. n |-> IF k = 0 THEN Found({}, 2) ELSE Step(cells, g[k - 1])]

\* parse without its local definitions: the last step of the walk.
LEMMA ParseIs ==
  ASSUME NEW cells
  PROVE  Parse(cells) = (CHOOSE g : Walk(cells, cells[1][2], g))[cells[1][2]]
  BY Zenon DEF Parse, Walk, Step, Found, Whole, Entry

\* The recursion of the walk defines a function.
LEMMA WalkExists ==
  ASSUME NEW cells, NEW m \in Nat
  PROVE  \E g : Walk(cells, m, g)
<1> DEFINE G == {n \in Nat : \E g : Walk(cells, n, g)}
<1>1. 0 \in G
  <2> DEFINE g == [k \in 0 .. 0 |-> Found({}, 2)]
  <2>1. \A k \in 0 .. 0 : k = 0
    OBVIOUS
  <2>2. Walk(cells, 0, g)
    BY <2>1 DEF Walk
  <2> QED
    BY <2>2
<1>2. ASSUME NEW n \in Nat, n \in G PROVE n + 1 \in G
  <2>1. PICK g : Walk(cells, n, g)
    BY <1>2
  <2> DEFINE h == [k \in 0 .. n + 1 |-> IF k = 0 THEN Found({}, 2) ELSE Step(cells, g[k - 1])]
  <2>2. ASSUME NEW k \in 0 .. n PROVE g[k] = h[k]
    BY <2>1 DEF Walk
  <2>3. \A k \in 0 .. n + 1 : k # 0 => k - 1 \in 0 .. n
    OBVIOUS
  <2> HIDE DEF h
  <2>4. \A k \in 0 .. n + 1 : k # 0 => g[k - 1] = h[k - 1]
    BY <2>2, <2>3
  <2>5. h = [k \in 0 .. n + 1 |-> IF k = 0 THEN Found({}, 2) ELSE Step(cells, h[k - 1])]
    BY <2>4 DEF h
  <2>6. Walk(cells, n + 1, h)
    BY <2>5 DEF Walk
  <2> QED
    BY <2>6
<1> HIDE DEF G
<1>3. Nat \subseteq G
  BY <1>1, <1>2, Induction
<1> QED
  BY <1>3 DEF G

\* A parse ends where a walk of as many steps as its first cell says ends.
LEMMA ParseWalks ==
  ASSUME NEW cells, cells[1][2] \in Nat
  PROVE  \E g : Walk(cells, cells[1][2], g) /\ Parse(cells) = g[cells[1][2]]
<1> DEFINE n == cells[1][2]
<1> HIDE DEF n
<1>1. \E g : Walk(cells, n, g)
  BY WalkExists DEF n
<1>2. Parse(cells) = (CHOOSE g : Walk(cells, n, g))[n]
  BY ParseIs DEF n
<1>3. \E g : Walk(cells, n, g) /\ Parse(cells) = g[n]
  BY <1>1, <1>2, Zenon
<1> QED
  BY <1>3 DEF n

\* One step of the walk.
LEMMA WalkStep ==
  ASSUME NEW cells, NEW n \in Nat, NEW g, Walk(cells, n, g), NEW k \in 0 .. n
  PROVE  g[k] = IF k = 0 THEN Found({}, 2) ELSE Step(cells, g[k - 1])
  BY DEF Walk

\* The fields of what a walk has found.
LEMMA FoundIs ==
  ASSUME NEW S, NEW p
  PROVE  Found(S, p).ok = TRUE /\ Found(S, p).files = S /\ Found(S, p).next = p
  BY DEF Found

\* A step finds one entry more, or what is no entry.
LEMMA StepFound ==
  ASSUME NEW cells, NEW S, NEW p
  PROVE  Step(cells, Found(S, p)) =
           IF Whole(cells, p)
             THEN Found(S \cup {Entry(cells, p)}, p + EntrySize[Entry(cells, p)])
             ELSE Garbage
<1> DEFINE w == Found(S, p)
<1>1. w.ok = TRUE /\ w.files = S /\ w.next = p
  BY FoundIs, Zenon
<1> HIDE DEF w
<1>2. Step(cells, w) = IF Whole(cells, p)
                         THEN Found(S \cup {Entry(cells, p)},
                                    p + EntrySize[Entry(cells, p)])
                         ELSE Garbage
  BY <1>1, Zenon DEF Step
<1> QED
  BY <1>2, Zenon DEF w

\* A walk that has met what is no entry stays there.
LEMMA StepGarbage == ASSUME NEW cells PROVE Step(cells, Garbage) = Garbage
<1>1. Garbage.ok = FALSE
  BY DEF Garbage
<1> QED
  BY <1>1 DEF Step

\* What a walk finds: entries whose cells lie before its next position, in the buffer.
Holds(cells, S, p) ==
  /\ S \in SUBSET Names /\ IsFiniteSet(S)
  /\ p \in Nat \ {0} /\ (p <= Len(cells) + 1 \/ p = 2)
  /\ Cells(S) < p
IsFound(cells, w) == w = Garbage \/ \E S, p : w = Found(S, p) /\ Holds(cells, S, p)

\* A walk starts with no entries.
LEMMA EmptyIsFound == ASSUME NEW cells PROVE IsFound(cells, Found({}, 2))
<1>1. Holds(cells, {}, 2)
  BY CellsEmpty, FS_EmptySet DEF Holds
<1> QED
  BY <1>1, Zenon DEF IsFound

\* A step keeps the entries within the buffer.
LEMMA StepFinds ==
  ASSUME NEW cells, Len(cells) \in Nat, NEW w, IsFound(cells, w)
  PROVE  IsFound(cells, Step(cells, w))
<1>1. CASE w = Garbage
  BY <1>1, StepGarbage DEF IsFound
<1>2. ASSUME NEW S, NEW p, w = Found(S, p), Holds(cells, S, p)
      PROVE  IsFound(cells, Step(cells, w))
  <2>1. CASE ~Whole(cells, p)
    BY <1>2, <2>1, StepFound DEF IsFound
  <2>2. CASE Whole(cells, p)
    <3> DEFINE e == Entry(cells, p)
    <3>1. e \in Names
      BY <2>2 DEF Whole
    <3>2. EntrySize[e] \in Nat
      BY <3>1, SizeOfEntry
    <3>3. S \in SUBSET Names /\ IsFiniteSet(S) /\ Cells(S) < p /\ p \in Nat \ {0}
      BY <1>2 DEF Holds
    <3>4. p + EntrySize[e] \in Nat \ {0} /\ p + EntrySize[e] <= Len(cells) + 1
      <4>1. p + EntrySize[e] - 1 <= Len(cells)
        BY <2>2 DEF Whole
      <4> HIDE DEF e
      <4> QED
        BY <3>2, <3>3, <4>1
    <3> HIDE DEF e
    <3>5. Cells(S) \in Nat
      BY <3>3, CellsNat
    <3>6. Cells(S \cup {e}) < p + EntrySize[e]
      <4>1. CASE e \in S
        <5>1. S \cup {e} = S
          BY <4>1
        <5>2. Cells(S) < p + EntrySize[e]
          BY <3>2, <3>3, <3>5
        <5> QED
          BY <5>1, <5>2
      <4>2. CASE e \notin S
        <5>1. Cells(S \cup {e}) = Cells(S) + EntrySize[e]
          BY <3>1, <3>3, <4>2, CellsWith
        <5> QED
          BY <3>2, <3>3, <3>5, <5>1
      <4> QED
        BY <4>1, <4>2
    <3>7. S \cup {e} \in SUBSET Names /\ IsFiniteSet(S \cup {e})
      BY <3>1, <3>3, FS_AddElement
    <3>8. Holds(cells, S \cup {e}, p + EntrySize[e])
      BY <3>4, <3>6, <3>7 DEF Holds
    <3>9. Step(cells, w) = Found(S \cup {e}, p + EntrySize[e])
      BY <1>2, <2>2, StepFound DEF e
    <3> QED
      BY <3>8, <3>9, Zenon DEF IsFound
  <2> QED
    BY <2>1, <2>2
<1> QED
  BY <1>1, <1>2 DEF IsFound

\* What a parse finds has no more cells than it has read.
LEMMA ParseFinds ==
  ASSUME NEW cells, Len(cells) \in Nat, cells[1][2] \in Nat
  PROVE  IsFound(cells, Parse(cells))
<1> DEFINE n == cells[1][2]
<1>1. PICK g : Walk(cells, n, g) /\ Parse(cells) = g[n]
  BY ParseWalks
<1> HIDE DEF n
<1> DEFINE G == {k \in Nat : k <= n => IsFound(cells, g[k])}
<1>2. n \in Nat
  BY DEF n
<1>3. 0 \in G
  <2>1. 0 \in 0 .. n
    BY <1>2
  <2>2. g[0] = Found({}, 2)
    BY <1>1, <1>2, <2>1, WalkStep, Zenon
  <2> QED
    BY <2>2, EmptyIsFound
<1>4. ASSUME NEW k \in Nat, k \in G PROVE k + 1 \in G
  <2> SUFFICES ASSUME k + 1 <= n PROVE IsFound(cells, g[k + 1])
    OBVIOUS
  <2> DEFINE j == k + 1
  <2>1. j \in 0 .. n /\ j # 0 /\ j - 1 = k /\ k <= n
    BY <1>2
  <2> HIDE DEF j
  <2>2. g[j] = Step(cells, g[j - 1])
    BY <1>1, <1>2, <2>1, WalkStep, Zenon
  <2>3. IsFound(cells, g[k])
    BY <1>4, <2>1
  <2>4. IsFound(cells, g[j])
    BY <2>1, <2>2, <2>3, StepFinds
  <2> QED
    BY <2>4 DEF j
<1> HIDE DEF G
<1>5. Nat \subseteq G
  BY <1>3, <1>4, Induction
<1>6. IsFound(cells, g[n])
  BY <1>2, <1>5 DEF G
<1> QED
  BY <1>1, <1>6

-----------------------------------------------------------------------------
(* parse finds what serialize wrote.                                       *)

\* A set of numbers has a smallest one.
LEMMA Minimum ==
  ASSUME NEW B \in SUBSET Nat, B # {}
  PROVE  \E e \in B : \A y \in B : e <= y
<1> SUFFICES ASSUME \A e \in B : \E y \in B : ~(e <= y) PROVE FALSE
  OBVIOUS
<1> DEFINE G == {n \in Nat : \A m \in 0 .. n : m \notin B}
<1>1. 0 \in G
  <2>1. ASSUME 0 \in B PROVE FALSE
    <3>1. \A y \in B : 0 <= y
      OBVIOUS
    <3> QED
      BY <2>1, <3>1
  <2>2. \A m \in 0 .. 0 : m = 0
    OBVIOUS
  <2> QED
    BY <2>1, <2>2
<1>2. ASSUME NEW n \in Nat, n \in G PROVE n + 1 \in G
  <2>1. ASSUME n + 1 \in B PROVE FALSE
    <3>1. ASSUME NEW y \in B PROVE n + 1 <= y
      <4>1. y \in Nat /\ y \notin 0 .. n
        BY <1>2
      <4> QED
        BY <4>1
    <3> QED
      BY <2>1, <3>1
  <2>2. \A m \in 0 .. n + 1 : m \in 0 .. n \/ m = n + 1
    OBVIOUS
  <2> QED
    BY <1>2, <2>1, <2>2
<1> HIDE DEF G
<1>3. Nat \subseteq G
  BY <1>1, <1>2, Induction
<1>4. PICK b \in B : TRUE
  OBVIOUS
<1>5. b \in Nat /\ b \in G
  BY <1>3, <1>4
<1> QED
  BY <1>4, <1>5 DEF G

\* cells begins with what serialize writes of the entries S.
Matches(cells, S) ==
  /\ Len(cells) \in Nat /\ Cells(S) <= Len(cells)
  /\ \A p \in 1 .. Cells(S) : cells[p] = SerializedCell(S, p)

\* P has the smallest of the entries S.
Prefix(P, S) == P \in SUBSET S /\ \A x \in P : \A y \in S \ P : x < y

\* The smallest entry that a prefix lacks makes a prefix, and starts where it ends.
LEMMA NextEntry ==
  ASSUME NEW S \in SUBSET Names, NEW P, Prefix(P, S), P # S
  PROVE  \E e \in S : e \notin P /\ Below(S, e) = P /\ Prefix(P \cup {e}, S)
<1> DEFINE B == S \ P
<1>1. B \in SUBSET Nat /\ B # {} /\ P \in SUBSET S
  BY NamesAssumption DEF Prefix
<1>2. PICK e \in B : \A y \in B : e <= y
  BY <1>1, Minimum
<1>3. \A x \in S : x \in Nat
  BY NamesAssumption
<1>4. Below(S, e) = P
  <2>1. ASSUME NEW x \in P PROVE x \in S /\ x < e
    BY <1>1, <1>2, <2>1 DEF Prefix
  <2>2. ASSUME NEW x \in S, x < e PROVE x \in P
    BY <1>2, <1>3, <2>2
  <2> QED
    BY <2>1, <2>2 DEF Below
<1>5. Prefix(P \cup {e}, S)
  <2>1. ASSUME NEW y \in S, y \notin P, y # e PROVE e < y
    BY <1>2, <1>3, <2>1
  <2> QED
    BY <1>1, <1>2, <2>1 DEF Prefix
<1> QED
  BY <1>2, <1>4, <1>5

\* Where an entry of S starts, a parse finds it whole.
LEMMA EntryIsWhole ==
  ASSUME NEW S \in SUBSET Names, IsFiniteSet(S), NEW cells, Matches(cells, S), NEW e \in S
  PROVE  Whole(cells, Start(S, e) + 1) /\ Entry(cells, Start(S, e) + 1) = e
<1> DEFINE p == Start(S, e) + 1
<1>1. Start(S, e) \in Nat \ {0} /\ EntrySize[e] \in Nat \ {0} /\ e \in Names
  BY StartNat, SizeOfEntry
<1>2. Start(S, e) + EntrySize[e] <= Cells(S) /\ Cells(S) \in Nat /\ Cells(S) <= Len(cells)
  BY BelowIsSet, EntryFits, CellsNat DEF Matches
<1>3. ASSUME NEW i \in 1 .. EntrySize[e] PROVE cells[Start(S, e) + i] = <<e, i>>
  <2>1. Start(S, e) + i \in 1 .. Cells(S)
    BY <1>1, <1>2
  <2>2. cells[Start(S, e) + i] = SerializedCell(S, Start(S, e) + i)
    BY <2>1 DEF Matches
  <2> QED
    BY <2>2, SerializedEntry
<1>4. Entry(cells, p) = e
  BY <1>1, <1>3 DEF Entry
<1>5. p <= Len(cells) /\ p + EntrySize[e] - 1 <= Len(cells)
  <2>1. Len(cells) \in Nat
    BY DEF Matches
  <2> QED
    BY <1>1, <1>2, <2>1
<1>6. \A i \in 1 .. EntrySize[e] : cells[p + i - 1] = <<e, i>>
  <2>1. ASSUME NEW i \in 1 .. EntrySize[e] PROVE p + i - 1 = Start(S, e) + i
    BY <1>1
  <2> HIDE DEF p
  <2> QED
    BY <1>3, <2>1
<1> HIDE DEF p
<1>7. Whole(cells, p)
  BY <1>1, <1>4, <1>5, <1>6 DEF Whole
<1> QED
  BY <1>4, <1>7 DEF p

\* A step of the walk over what serialize wrote finds the next entry.
LEMMA StepReads ==
  ASSUME NEW S \in SUBSET Names, IsFiniteSet(S), NEW cells, Matches(cells, S), NEW e \in S,
         NEW P, P = Below(S, e), e \notin P
  PROVE  Step(cells, Found(P, Cells(P) + 1)) = Found(P \cup {e}, Cells(P \cup {e}) + 1)
<1> DEFINE p == Cells(P) + 1
<1>1. Whole(cells, p) /\ Entry(cells, p) = e
  BY EntryIsWhole DEF Start
<1>2. P \in SUBSET Names /\ IsFiniteSet(P) /\ e \in Names
  BY BelowIsSet
<1>3. p + EntrySize[e] = Cells(P \cup {e}) + 1
  <2>1. Cells(P \cup {e}) = Cells(P) + EntrySize[e]
    BY <1>2, CellsWith
  <2>2. Cells(P) \in Nat /\ EntrySize[e] \in Nat
    BY <1>2, CellsNat, SizeOfEntry
  <2> QED
    BY <2>1, <2>2
<1> HIDE DEF p
<1>4. Step(cells, Found(P, p)) = Found(P \cup {e}, p + EntrySize[e])
  BY <1>1, StepFound
<1> QED
  BY <1>3, <1>4 DEF p

\* parse finds the entries that serialize wrote, whatever follows them.
LEMMA RoundTrip ==
  ASSUME NEW S \in SUBSET Names, IsFiniteSet(S), NEW cells, Matches(cells, S)
  PROVE  Parse(cells) = Found(S, Cells(S) + 1)
<1> DEFINE n == cells[1][2]
           Reads(w, k) == \E P : /\ Prefix(P, S) /\ Cardinality(P) = k
                                 /\ w = Found(P, Cells(P) + 1)
<1>1. n = Cardinality(S) /\ n \in Nat
  <2>1. 1 \in 1 .. Cells(S)
    BY CellsNat
  <2>2. cells[1] = SerializedCell(S, 1)
    BY <2>1 DEF Matches
  <2>3. cells[1] = <<0, Cardinality(S)>>
    BY <2>2 DEF SerializedCell
  <2> QED
    BY <2>3, FS_CardinalityType
<1>2. PICK g : Walk(cells, n, g) /\ Parse(cells) = g[n]
  BY <1>1, ParseWalks
<1> HIDE DEF n
<1> DEFINE G == {k \in Nat : k <= n => Reads(g[k], k)}
<1>3. 0 \in G
  <2>1. 0 \in 0 .. n
    BY <1>1
  <2>2. g[0] = Found({}, 2)
    BY <1>1, <1>2, <2>1, WalkStep, Zenon
  <2>3. Prefix({}, S) /\ Cardinality({}) = 0 /\ Cells({}) + 1 = 2
    BY CellsEmpty, FS_EmptySet DEF Prefix
  <2>4. g[0] = Found({}, Cells({}) + 1)
    BY <2>2, <2>3
  <2> QED
    BY <2>3, <2>4
<1>4. ASSUME NEW k \in Nat, k \in G PROVE k + 1 \in G
  <2> SUFFICES ASSUME k + 1 <= n PROVE Reads(g[k + 1], k + 1)
    OBVIOUS
  <2> DEFINE j == k + 1
  <2>1. j \in 0 .. n /\ j # 0 /\ j - 1 = k /\ k <= n /\ k < n
    BY <1>1
  <2> HIDE DEF j
  <2>2. g[j] = Step(cells, g[k])
    <3>1. g[j] = Step(cells, g[j - 1])
      BY <1>1, <1>2, <2>1, WalkStep, Zenon
    <3> QED
      BY <2>1, <3>1
  <2>3. PICK P : Prefix(P, S) /\ Cardinality(P) = k /\ g[k] = Found(P, Cells(P) + 1)
    BY <1>4, <2>1
  <2>4. P # S
    BY <1>1, <2>1, <2>3
  <2>5. PICK e \in S : e \notin P /\ Below(S, e) = P /\ Prefix(P \cup {e}, S)
    BY <2>3, <2>4, NextEntry
  <2>6. Cardinality(P \cup {e}) = j
    <3>1. IsFiniteSet(P)
      BY <2>5, BelowIsSet
    <3>2. Cardinality(P \cup {e}) = Cardinality(P) + 1
      BY <2>5, <3>1, FS_AddElement
    <3> QED
      BY <2>3, <3>2 DEF j
  <2>7. g[j] = Found(P \cup {e}, Cells(P \cup {e}) + 1)
    BY <2>2, <2>3, <2>5, StepReads
  <2>8. Reads(g[j], j)
    BY <2>5, <2>6, <2>7
  <2> QED
    BY <2>8 DEF j
<1> HIDE DEF G
<1>5. Nat \subseteq G
  BY <1>3, <1>4, Induction
<1>6. Reads(g[n], n)
  BY <1>1, <1>5 DEF G
<1>7. PICK P : Prefix(P, S) /\ Cardinality(P) = n /\ g[n] = Found(P, Cells(P) + 1)
  BY <1>6
<1>8. P = S
  BY <1>1, <1>7, FS_Subset DEF Prefix
<1> QED
  BY <1>2, <1>7, <1>8

-----------------------------------------------------------------------------
(* What a load finds.                                                      *)

\* Stored without its local definitions, of a record r and objects d.
Content(d, p) == IF p <= Len(d) THEN d[p] ELSE Zero
Image(r, d) == [p \in 1 .. r |-> Content(d, p)]
StoredOf(r, d) == IF r \in {NoRecord, 0} THEN Found({}, 2) ELSE Parse(Image(r, d))

\* What a load finds depends on the record and the objects.
LEMMA StoredIs ==
  /\ Stored = StoredOf(record, data)
  /\ Stored' = StoredOf(record', data')
<1>1. Stored = StoredOf(record, data)
  BY DEF Stored, StoredOf, Image, Content, Found
<1>2. Stored' = StoredOf(record', data')
  BY DEF Stored, StoredOf, Image, Content, Found
<1> QED
  BY <1>1, <1>2

\* A load reads as many cells as the record says.
LEMMA ImageType ==
  ASSUME NEW r \in Nat, NEW d \in Seq(Cell)
  PROVE  Image(r, d) \in Seq(Cell) /\ Len(Image(r, d)) = r
<1>1. \A p \in 1 .. r : Content(d, p) \in Cell
  BY DEF Content, Cell, Zero
<1> QED
  BY <1>1 DEF Image

\* What a walk over a buffer of a legal size finds is legal.
LEMMA FoundType ==
  ASSUME NEW n \in Nat \ {0}, n <= MaxSize, NEW cells, Len(cells) = n, NEW w, IsFound(cells, w)
  PROVE  /\ w.ok \in BOOLEAN /\ w.files \in SUBSET Names /\ IsFiniteSet(w.files)
         /\ w.next - 1 \in 0 .. MaxSize
         /\ w.ok = TRUE => Cells(w.files) <= w.next - 1
<1>1. CASE w = Garbage
  <2>1. w.ok = FALSE /\ w.files = {} /\ w.next = 1
    BY <1>1 DEF Garbage
  <2>2. w.next - 1 = 0
    BY <2>1
  <2>3. IsFiniteSet({}) /\ 0 \in 0 .. MaxSize
    BY FS_EmptySet, SizesAssumption
  <2> QED
    BY <2>1, <2>2, <2>3
<1>2. ASSUME NEW S, NEW p, w = Found(S, p), Holds(cells, S, p)
      PROVE  /\ w.ok \in BOOLEAN /\ w.files \in SUBSET Names /\ IsFiniteSet(w.files)
             /\ w.next - 1 \in 0 .. MaxSize
             /\ w.ok = TRUE => Cells(w.files) <= w.next - 1
  <2>1. w.ok = TRUE /\ w.files = S /\ w.next = p
    BY <1>2, FoundIs, Zenon
  <2>2. /\ S \in SUBSET Names /\ IsFiniteSet(S) /\ Cells(S) < p /\ p \in Nat \ {0}
        /\ (p <= n + 1 \/ p = 2)
    BY <1>2 DEF Holds
  <2>3. Cells(S) \in Nat
    BY <2>2, CellsNat
  <2>4. p - 1 \in 0 .. MaxSize /\ Cells(S) <= p - 1
    BY <2>2, <2>3, SizesAssumption
  <2> QED
    BY <2>1, <2>2, <2>4
<1> QED
  BY <1>1, <1>2 DEF IsFound

\* What a load finds is legal, also of garbage.
LEMMA StoredType ==
  ASSUME NEW r \in (0 .. MaxSize) \cup {NoRecord}, NEW d \in Seq(Cell), NEW w, w = StoredOf(r, d)
  PROVE  /\ w.ok \in BOOLEAN /\ w.files \in SUBSET Names /\ IsFiniteSet(w.files)
         /\ w.next - 1 \in 0 .. MaxSize
         /\ w.ok = TRUE => Cells(w.files) <= w.next - 1
<1>1. CASE r \in {NoRecord, 0}
  <2>1. w = Found({}, 2)
    BY <1>1 DEF StoredOf
  <2>2. w.ok = TRUE /\ w.files = {} /\ w.next = 2
    BY <2>1 DEF Found
  <2>3. w.next - 1 = 1
    BY <2>2
  <2>4. IsFiniteSet({}) /\ 1 \in 0 .. MaxSize /\ Cells({}) <= 1
    BY CellsEmpty, FS_EmptySet, SizesAssumption
  <2> QED
    BY <2>2, <2>3, <2>4
<1>2. CASE r \notin {NoRecord, 0}
  <2> DEFINE cells == Image(r, d)
  <2>1. r \in Nat \ {0} /\ r <= MaxSize
    <3>1. r \in 0 .. MaxSize /\ r # 0
      BY <1>2
    <3>2. MaxSize \in Nat
      BY SizesAssumption
    <3> QED
      BY <3>1, <3>2
  <2>2. cells \in Seq(Cell) /\ Len(cells) = r
    BY <2>1, ImageType
  <2>3. w = Parse(cells)
    BY <1>2 DEF StoredOf
  <2> HIDE DEF cells
  <2>4. cells[1] \in Cell
    BY <2>1, <2>2
  <2>5. cells[1][2] \in Nat
    BY <2>4 DEF Cell
  <2>6. IsFound(cells, w)
    BY <2>1, <2>2, <2>3, <2>5, ParseFinds
  <2> QED
    BY <2>1, <2>2, <2>6, FoundType
<1> QED
  BY <1>1, <1>2

\* A load finds the entries S when the record is long enough for what serialize
\* writes of them, and the objects begin with it.
LEMMA StoredReads ==
  ASSUME NEW S \in SUBSET Names, IsFiniteSet(S), NEW r \in Nat, NEW d, Cells(S) <= r,
         \A p \in 1 .. Cells(S) : p <= Len(d) /\ d[p] = SerializedCell(S, p)
  PROVE  StoredOf(r, d) = Found(S, Cells(S) + 1)
<1>1. Cells(S) \in Nat \ {0}
  BY CellsNat
<1>2. r \notin {NoRecord, 0}
  BY <1>1, SizesAssumption
<1>3. Len(Image(r, d)) = r
  BY DEF Image
<1>4. \A p \in 1 .. Cells(S) : Image(r, d)[p] = SerializedCell(S, p)
  BY <1>1 DEF Image, Content
<1>5. Matches(Image(r, d), S)
  BY <1>3, <1>4 DEF Matches
<1> QED
  BY <1>2, <1>5, RoundTrip DEF StoredOf

\* Only the cells that the record covers matter.
LEMMA StoredSame ==
  ASSUME NEW r, NEW d, NEW c,
         r \notin {NoRecord, 0} => \A p \in 1 .. r : Content(d, p) = Content(c, p)
  PROVE  StoredOf(r, d) = StoredOf(r, c)
<1>1. r \notin {NoRecord, 0} => Image(r, d) = Image(r, c)
  BY DEF Image
<1> QED
  BY <1>1 DEF StoredOf

-----------------------------------------------------------------------------
(* The inductive invariant.                                                *)

Types ==
  /\ loaded \in BOOLEAN /\ dirty \in BOOLEAN /\ metadirty \in BOOLEAN /\ undefined \in BOOLEAN
  /\ files \in SUBSET Names /\ IsFiniteSet(files)
  /\ size \in 0 .. MaxSize /\ metasize \in 0 .. MaxSize
  /\ record \in (0 .. MaxSize) \cup {NoRecord}
  /\ data \in Seq(Cell)

\* The first n cells that serialize writes are in the objects.
Written(n) == \A p \in 1 .. n : p <= Len(data) /\ data[p] = SerializedCell(files, p)

\* The cells, of n, of the objects before o.
FirstObjects(n, o) == {p \in 1 .. n : Object(p) < o}

FlushOK ==
  /\ flush.step \in {"none", "put", "record", "remove"}
  /\ flush.step # "none" => loaded /\ ~undefined
  /\ flush.step = "put" =>
       /\ flush = [step |-> "put", buffer |-> Serialized(files, size),
                   object |-> flush.object, drop |-> flush.drop]
       /\ dirty /\ metasize = size
       /\ flush.object \in 0 .. Object(size)
       /\ \A p \in FirstObjects(size, flush.object) :
            p <= Len(data) /\ data[p] = SerializedCell(files, p)
  /\ flush.step = "record" /\ dirty => metasize = size /\ Written(size)
  /\ flush.step = "remove" => files = {}

MetadataOK == loaded /\ (~dirty \/ ~metadirty) => metasize = record

StoredOK ==
  ~undefined /\ flush.step \in {"none", "record"} /\ (loaded => ~dirty) => Stored.files = files

DirectoryInv == Types /\ SizeSuffices /\ FlushOK /\ MetadataOK /\ StoredOK

\* The initial state: an empty backend.
LEMMA InvInit == Init => DirectoryInv
<1> SUFFICES ASSUME Init PROVE DirectoryInv
  OBVIOUS
<1>1. Types
  <2>1. IsFiniteSet({}) /\ 0 \in 0 .. MaxSize /\ << >> \in Seq(Cell)
    BY FS_EmptySet, SizesAssumption
  <2> QED
    BY <2>1 DEF Init, Types
<1>2. SizeSuffices /\ MetadataOK
  BY DEF Init, SizeSuffices, MetadataOK
<1>3. FlushOK
  BY DEF Init, Idle, FlushOK
<1>4. Stored.files = files
  <2>1. Stored = Found({}, 2)
    BY StoredIs DEF Init, StoredOf
  <2> QED
    BY <2>1 DEF Init, Found
<1> QED
  BY <1>1, <1>2, <1>3, <1>4 DEF DirectoryInv, StoredOK

-----------------------------------------------------------------------------
(* The entries.                                                            *)

\* Any change of the entries that the size keeps up with.
LEMMA ChangePreserves ==
  ASSUME DirectoryInv, NEW S \in SUBSET Names, IsFiniteSet(S), NEW n \in Nat,
         Cells(S) <= n, Change(S, n)
  PROVE  DirectoryInv'
<1>1. /\ loaded /\ flush.step = "none" /\ ~undefined /\ n <= MaxSize
      /\ files' = S /\ size' = n /\ dirty' = TRUE
      /\ loaded' = loaded /\ metasize' = metasize /\ metadirty' = metadirty
      /\ flush' = flush /\ data' = data /\ record' = record /\ undefined' = undefined
  BY DEF Change, Ready, Idle, backend
<1>2. Types'
  BY <1>1, SizesAssumption DEF DirectoryInv, Types
<1>3. SizeSuffices'
  BY <1>1 DEF SizeSuffices
<1>4. FlushOK'
  BY <1>1 DEF FlushOK
<1>5. MetadataOK'
  BY <1>1 DEF DirectoryInv, MetadataOK
<1>6. StoredOK'
  BY <1>1 DEF DirectoryInv, Types, StoredOK
<1> QED
  BY <1>2, <1>3, <1>4, <1>5, <1>6 DEF DirectoryInv

\* Without an entry the size may shrink by the size of that entry, or by less.
LEMMA RemainingFit ==
  ASSUME DirectoryInv, loaded, ~undefined, NEW e \in files, NEW n \in Nat, n <= EntrySize[e]
  PROVE  /\ files \ {e} \in SUBSET Names /\ IsFiniteSet(files \ {e})
         /\ size - n \in Nat /\ Cells(files \ {e}) <= size - n
<1> DEFINE S == files \ {e}
<1>1. files \in SUBSET Names /\ IsFiniteSet(files) /\ size \in Nat /\ Cells(files) <= size
  BY SizesAssumption DEF DirectoryInv, Types, SizeSuffices
<1>2. S \in SUBSET Names /\ IsFiniteSet(S)
  BY <1>1, FS_RemoveElement
<1>3. Cells(files) = Cells(S) + EntrySize[e]
  BY <1>1, CellsWithout
<1>4. EntrySize[e] \in Nat
  BY <1>1, SizeOfEntry
<1> HIDE DEF S
<1>5. Cells(S) \in Nat
  BY <1>2, CellsNat
<1>6. size - n \in Nat /\ Cells(S) <= size - n
  BY <1>1, <1>3, <1>4, <1>5
<1> QED
  BY <1>2, <1>6 DEF S

\* With an entry the size has to grow by its size, even if the entry was there.
LEMMA OneMoreFits ==
  ASSUME NEW S \in SUBSET Names, IsFiniteSet(S), NEW n \in Nat, Cells(S) <= n, NEW e \in Names
  PROVE  /\ S \cup {e} \in SUBSET Names /\ IsFiniteSet(S \cup {e})
         /\ n + EntrySize[e] \in Nat /\ Cells(S \cup {e}) <= n + EntrySize[e]
<1>1. S \cup {e} \in SUBSET Names /\ IsFiniteSet(S \cup {e})
  BY FS_AddElement
<1>2. EntrySize[e] \in Nat /\ Cells(S) \in Nat
  BY CellsNat, SizeOfEntry
<1>3. CASE e \in S
  <2>1. S \cup {e} = S
    BY <1>3
  <2> QED
    BY <1>1, <1>2, <2>1
<1>4. CASE e \notin S
  <2>1. Cells(S \cup {e}) = Cells(S) + EntrySize[e]
    BY <1>4, CellsWith
  <2> QED
    BY <1>1, <1>2, <2>1
<1> QED
  BY <1>3, <1>4

\* add_file, remove_file and move_entry.
LEMMA EntriesPreserve ==
  ASSUME DirectoryInv, NEW e \in Names,
         AddFile(e) \/ RemoveFile(e) \/ MoveOut(e) \/ MoveIn(e) \/ \E f \in Names : MoveWithin(e, f)
  PROVE  DirectoryInv'
<1>1. loaded /\ ~undefined
  BY DEF AddFile, RemoveFile, MoveOut, MoveIn, MoveWithin, Change, Ready
<1>2. files \in SUBSET Names /\ IsFiniteSet(files) /\ size \in Nat /\ Cells(files) <= size
  BY <1>1, SizesAssumption DEF DirectoryInv, Types, SizeSuffices
<1>3. EntrySize[e] \in Nat /\ FixedSize \in Nat /\ FixedSize < EntrySize[e]
  BY SizesAssumption
<1>4. CASE Change(files \cup {e}, size + EntrySize[e])
  <2>1. /\ files \cup {e} \in SUBSET Names /\ IsFiniteSet(files \cup {e})
        /\ size + EntrySize[e] \in Nat /\ Cells(files \cup {e}) <= size + EntrySize[e]
    BY <1>2, OneMoreFits
  <2> QED
    BY <1>4, <2>1, ChangePreserves
<1>5. ASSUME e \in files, NEW n \in Nat, n <= EntrySize[e], Change(files \ {e}, size - n)
      PROVE  DirectoryInv'
  <2>1. /\ files \ {e} \in SUBSET Names /\ IsFiniteSet(files \ {e})
        /\ size - n \in Nat /\ Cells(files \ {e}) <= size - n
    BY <1>1, <1>5, RemainingFit
  <2> QED
    BY <1>5, <2>1, ChangePreserves
<1>6. CASE AddFile(e) \/ MoveIn(e)
  BY <1>4, <1>6 DEF AddFile, MoveIn
<1>7. CASE RemoveFile(e)
  <2>1. PICK n \in {EntrySize[e], EntrySize[e] - FixedSize} : Change(files \ {e}, size - n)
    BY <1>7 DEF RemoveFile
  <2>2. n \in Nat /\ n <= EntrySize[e]
    BY <1>3
  <2> QED
    BY <1>5, <1>7, <2>1, <2>2 DEF RemoveFile
<1>8. CASE MoveOut(e)
  <2>1. EntrySize[e] <= EntrySize[e]
    BY <1>3
  <2> QED
    BY <1>3, <1>5, <1>8, <2>1 DEF MoveOut
<1>9. ASSUME NEW f \in Names, MoveWithin(e, f) PROVE DirectoryInv'
  <2> DEFINE S == files \ {e}
             n == size - EntrySize[e]
  <2>1. S \in SUBSET Names /\ IsFiniteSet(S) /\ n \in Nat /\ Cells(S) <= n
    <3>1. e \in files /\ EntrySize[e] <= EntrySize[e]
      BY <1>3, <1>9 DEF MoveWithin
    <3> QED
      BY <1>1, <1>3, <3>1, RemainingFit
  <2>2. Change(S \cup {f}, n + EntrySize[f])
    BY <1>9 DEF MoveWithin
  <2> HIDE DEF S, n
  <2>3. /\ S \cup {f} \in SUBSET Names /\ IsFiniteSet(S \cup {f})
        /\ n + EntrySize[f] \in Nat /\ Cells(S \cup {f}) <= n + EntrySize[f]
    BY <2>1, OneMoreFits
  <2> QED
    BY <2>2, <2>3, ChangePreserves
<1> QED
  BY <1>6, <1>7, <1>8, <1>9

\* chmod and chown.
LEMMA SetAttrPreserves == ASSUME DirectoryInv, SetAttr PROVE DirectoryInv'
<1>1. /\ metadirty' = TRUE /\ ~metadirty
      /\ loaded' = loaded /\ files' = files /\ size' = size /\ dirty' = dirty
      /\ metasize' = metasize /\ flush' = flush /\ flush.step = "none"
      /\ data' = data /\ record' = record /\ undefined' = undefined
  BY DEF SetAttr, Ready, Idle, backend
<1>2. Types'
  BY <1>1 DEF DirectoryInv, Types
<1>3. SizeSuffices' /\ FlushOK' /\ MetadataOK'
  BY <1>1 DEF DirectoryInv, SizeSuffices, FlushOK, MetadataOK
<1>4. StoredOK'
  <2>1. Stored' = Stored
    BY <1>1, StoredIs
  <2> QED
    BY <1>1, <2>1 DEF DirectoryInv, StoredOK
<1> QED
  BY <1>2, <1>3, <1>4 DEF DirectoryInv

\* A new directory.
LEMMA MkdirPreserves == ASSUME DirectoryInv, Mkdir PROVE DirectoryInv'
<1>1. /\ loaded' = TRUE /\ files' = {} /\ size' = 1 /\ dirty' = TRUE
      /\ metasize' = 0 /\ metadirty' = TRUE /\ ~loaded /\ ~undefined
      /\ flush' = flush /\ data' = data /\ record' = record /\ undefined' = undefined
  BY DEF Mkdir, backend
<1>2. flush.step = "none"
  BY <1>1 DEF DirectoryInv, FlushOK
<1>3. Types'
  <2>1. IsFiniteSet({}) /\ 0 \in 0 .. MaxSize /\ 1 \in 0 .. MaxSize
    BY FS_EmptySet, SizesAssumption
  <2> QED
    BY <1>1, <2>1 DEF DirectoryInv, Types
<1>4. SizeSuffices'
  BY <1>1, CellsEmpty DEF SizeSuffices
<1>5. FlushOK' /\ MetadataOK' /\ StoredOK'
  BY <1>1, <1>2 DEF FlushOK, MetadataOK, StoredOK
<1> QED
  BY <1>3, <1>4, <1>5 DEF DirectoryInv

\* A load: the size is what parse has read.
LEMMA LoadPreserves == ASSUME DirectoryInv, Load PROVE DirectoryInv'
<1>1. /\ loaded' = TRUE /\ files' = Stored.files /\ size' = Stored.next - 1
      /\ dirty' = (record = 0) /\ metasize' = record /\ metadirty' = FALSE
      /\ undefined' = ~Stored.ok /\ ~loaded /\ record # NoRecord
      /\ flush' = flush /\ data' = data /\ record' = record
  BY DEF Load, backend
<1>2. flush.step = "none"
  BY <1>1 DEF DirectoryInv, FlushOK
<1>3. /\ Stored.ok \in BOOLEAN /\ Stored.files \in SUBSET Names /\ IsFiniteSet(Stored.files)
      /\ Stored.next - 1 \in 0 .. MaxSize
      /\ Stored.ok = TRUE => Cells(Stored.files) <= Stored.next - 1
  BY StoredIs, StoredType DEF DirectoryInv, Types
<1>4. Types'
  BY <1>1, <1>3 DEF DirectoryInv, Types
<1>5. SizeSuffices'
  BY <1>1, <1>3 DEF SizeSuffices
<1>6. FlushOK' /\ MetadataOK'
  BY <1>1, <1>2 DEF FlushOK, MetadataOK
<1>7. StoredOK'
  <2>1. Stored' = Stored
    BY <1>1, StoredIs
  <2> QED
    BY <1>1, <2>1 DEF StoredOK
<1> QED
  BY <1>4, <1>5, <1>6, <1>7 DEF DirectoryInv

-----------------------------------------------------------------------------
(* The objects.                                                            *)

\* Indices are natural numbers.
LEMMA ObjectType == ASSUME NEW p \in Nat \ {0} PROVE Object(p) \in Nat
  BY SizesAssumption DEF Object

\* Later cells are in later objects.
LEMMA ObjectMonotonic ==
  ASSUME NEW p \in Nat \ {0}, NEW q \in Nat \ {0}, p <= q
  PROVE  Object(p) <= Object(q)
  BY SizesAssumption, SMTT(30) DEF Object

\* An object holds no cell behind its end.
LEMMA ObjectEnds ==
  ASSUME NEW p \in Nat \ {0} PROVE p <= (Object(p) + 1) * ObjectSize
  BY SizesAssumption, SMTT(30) DEF Object

\* The cells of the first object.
LEMMA FirstObject ==
  ASSUME NEW p \in Nat \ {0}, p <= ObjectSize PROVE Object(p) = 0
  BY SizesAssumption, SMTT(30) DEF Object

\* The smaller of two.
LEMMA MinOfTwo ==
  ASSUME NEW a \in Int, NEW b \in Int PROVE Min({a, b}) = IF a <= b THEN a ELSE b
  BY DEF Min

\* The larger of two.
LEMMA MaxOfTwo ==
  ASSUME NEW a \in Int, NEW b \in Int PROVE Max({a, b}) = IF a <= b THEN b ELSE a
  BY DEF Max

\* Removed objects read as zero, the others as before.
LEMMA WithoutIs ==
  ASSUME data \in Seq(Cell), NEW first, NEW last
  PROVE  /\ Without(first, last) \in Seq(Cell)
         /\ Len(Without(first, last)) = Len(data)
         /\ \A p \in Nat \ {0} :
              Content(Without(first, last), p) =
                IF Object(p) \in first .. last THEN Zero ELSE Content(data, p)
<1> DEFINE w == Without(first, last)
<1>1. w = [p \in 1 .. Len(data) |-> IF Object(p) \in first .. last THEN Zero ELSE data[p]]
  BY DEF Without
<1>2. Zero \in Cell
  BY DEF Zero, Cell
<1> HIDE DEF w
<1>3. w \in Seq(Cell) /\ Len(w) = Len(data)
  BY <1>1, <1>2
<1>4. \A p \in Nat \ {0} :
        Content(w, p) = IF Object(p) \in first .. last THEN Zero ELSE Content(data, p)
  BY <1>1, <1>3 DEF Content
<1> QED
  BY <1>3, <1>4 DEF w

\* The objects after one iteration of write, which puts object o of the buffer b.
End(o, b) == Min({(o + 1) * ObjectSize, Len(b)})
Put(o, b) ==
  [p \in 1 .. Max({Len(data), End(o, b)}) |->
     IF Object(p) = o /\ p <= End(o, b) THEN b[p]
     ELSE IF p <= Len(data) THEN data[p] ELSE Zero]

\* An iteration of write: its object is that of the buffer, the others are as before.
LEMMA PutIs ==
  ASSUME data \in Seq(Cell), NEW o \in Nat, NEW b \in Seq(Cell)
  PROVE  /\ Put(o, b) \in Seq(Cell) /\ Len(data) <= Len(Put(o, b))
         /\ \A p \in 1 .. Len(b) : Object(p) = o => p <= Len(Put(o, b)) /\ Put(o, b)[p] = b[p]
         /\ \A p \in Nat \ {0} : Object(p) # o => Content(Put(o, b), p) = Content(data, p)
         /\ \A p \in 1 .. Len(data) : Object(p) # o => Put(o, b)[p] = data[p]
<1> DEFINE end == End(o, b)
           m == Max({Len(data), end})
           w == Put(o, b)
           whole == (o + 1) * ObjectSize
<1>1. end = IF whole <= Len(b) THEN whole ELSE Len(b)
  <2>1. whole \in Int /\ Len(b) \in Int
    BY SizesAssumption
  <2> HIDE DEF whole
  <2> QED
    BY <2>1, MinOfTwo DEF End, whole
<1>2. whole \in Nat /\ Len(b) \in Nat /\ Len(data) \in Nat
  BY SizesAssumption
<1> HIDE DEF whole
<1>3. end \in Nat
  BY <1>1, <1>2
<1> HIDE DEF end
<1>4. m \in Nat /\ Len(data) <= m /\ end <= m /\ (m = end \/ m = Len(data))
  BY <1>2, <1>3, MaxOfTwo
<1>5. w = [p \in 1 .. m |-> IF Object(p) = o /\ p <= end THEN b[p]
                            ELSE IF p <= Len(data) THEN data[p] ELSE Zero]
  BY DEF Put, end
<1> HIDE DEF m, w
<1>6. end <= Len(b)
  BY <1>1, <1>2
<1>7. w \in Seq(Cell) /\ Len(w) = m
  <2>1. ASSUME NEW p \in 1 .. m
        PROVE  (IF Object(p) = o /\ p <= end THEN b[p]
                ELSE IF p <= Len(data) THEN data[p] ELSE Zero) \in Cell
    <3>1. p <= end => b[p] \in Cell
      BY <1>2, <1>3, <1>6
    <3>2. p <= Len(data) => data[p] \in Cell
      BY <1>2
    <3>3. Zero \in Cell
      BY DEF Zero, Cell
    <3> QED
      BY <3>1, <3>2, <3>3
  <2> QED
    BY <1>4, <1>5, <2>1
<1>8. ASSUME NEW p \in 1 .. Len(b), Object(p) = o PROVE p <= Len(w) /\ w[p] = b[p]
  <2>1. p <= whole
    BY <1>8, ObjectEnds DEF whole
  <2>2. p <= end
    BY <1>1, <1>2, <2>1
  <2>3. p \in 1 .. m
    BY <1>3, <1>4, <2>2
  <2> QED
    BY <1>4, <1>5, <1>7, <1>8, <2>2, <2>3
<1>9. ASSUME NEW p \in Nat \ {0}, Object(p) # o PROVE Content(w, p) = Content(data, p)
  <2>1. CASE p <= m
    <3>1. p \in 1 .. m
      BY <1>4, <2>1
    <3>2. w[p] = IF p <= Len(data) THEN data[p] ELSE Zero
      BY <1>5, <1>9, <3>1
    <3> QED
      BY <1>7, <2>1, <3>2 DEF Content
  <2>2. CASE ~(p <= m)
    <3>1. ~(p <= Len(data))
      BY <1>2, <1>4, <2>2
    <3> QED
      BY <1>7, <2>2, <3>1 DEF Content
  <2> QED
    BY <2>1, <2>2
<1>10. ASSUME NEW p \in 1 .. Len(data), Object(p) # o PROVE w[p] = data[p]
  <2>1. p \in 1 .. m
    BY <1>2, <1>4
  <2> QED
    BY <1>5, <1>10, <2>1
<1> QED
  BY <1>4, <1>7, <1>8, <1>9, <1>10 DEF w

-----------------------------------------------------------------------------
(* Flushes and removal.                                                    *)

\* A directory that is loaded, without undefined behaviour, fits its size.
LEMMA LoadedFits ==
  ASSUME DirectoryInv, loaded, ~undefined
  PROVE  /\ files \in SUBSET Names /\ IsFiniteSet(files)
         /\ size \in Nat \ {0} /\ size <= MaxSize /\ metasize \in Nat
         /\ Cells(files) \in Nat \ {0} /\ Cells(files) <= size
<1>1. /\ files \in SUBSET Names /\ IsFiniteSet(files)
      /\ size \in Nat /\ size <= MaxSize /\ metasize \in Nat /\ Cells(files) <= size
  BY SizesAssumption DEF DirectoryInv, Types, SizeSuffices
<1>2. Cells(files) \in Nat \ {0}
  BY <1>1, CellsNat
<1> QED
  BY <1>1, <1>2

\* truncate leaves the first object alone.
LEMMA TruncatedIs ==
  ASSUME DirectoryInv, loaded, ~undefined
  PROVE  /\ Truncated \in Seq(Cell)
         /\ \A p \in Nat \ {0} : Object(p) = 0 => Content(Truncated, p) = Content(data, p)
<1>1. data \in Seq(Cell) /\ size > 0
  BY LoadedFits DEF DirectoryInv, Types
<1>2. FirstIndex = 1
  BY <1>1 DEF FirstIndex
<1>3. CASE size < metasize
  <2> DEFINE w == Without(1, metasize \div ObjectSize)
  <2>1. Truncated = w
    BY <1>2, <1>3 DEF Truncated
  <2>2. /\ w \in Seq(Cell)
        /\ \A p \in Nat \ {0} :
             Content(w, p) = IF Object(p) \in 1 .. metasize \div ObjectSize THEN Zero
                             ELSE Content(data, p)
    BY <1>1, WithoutIs
  <2> HIDE DEF w
  <2> QED
    BY <2>1, <2>2
<1>4. CASE ~(size < metasize)
  BY <1>1, <1>4 DEF Truncated
<1> QED
  BY <1>3, <1>4

\* The beginning of a flush.
LEMMA BeginFlushPreserves ==
  ASSUME DirectoryInv, NEW drop \in BOOLEAN, BeginFlush(drop) PROVE DirectoryInv'
<1>1. /\ loaded /\ ~undefined /\ flush.step = "none"
      /\ loaded' = loaded /\ files' = files /\ size' = size /\ dirty' = dirty
      /\ record' = record /\ undefined' = undefined
  BY DEF BeginFlush, Ready, Idle
<1>2. SizeSuffices'
  BY <1>1 DEF DirectoryInv, SizeSuffices
<1>3. CASE dirty
  <2>1. /\ data' = Truncated /\ metasize' = size
        /\ metadirty' = (metadirty \/ size # metasize)
        /\ flush' = [step |-> "put", buffer |-> Serialized(files, size),
                     object |-> 0, drop |-> drop]
    BY <1>3 DEF BeginFlush
  <2>2. size \in Nat \ {0} /\ size \in 0 .. MaxSize
    BY <1>1, LoadedFits DEF DirectoryInv, Types
  <2>3. Types'
    BY <1>1, <2>1, <2>2, TruncatedIs DEF DirectoryInv, Types
  <2>4. FlushOK'
    <3>1. /\ flush'.step = "put" /\ flush'.object = 0
          /\ flush' = [step |-> "put", buffer |-> Serialized(files', size'),
                       object |-> flush'.object, drop |-> flush'.drop]
      BY <1>1, <2>1
    <3>2. 0 \in 0 .. Object(size')
      BY <1>1, <2>2, ObjectType
    <3>3. \A p \in FirstObjects(size', 0) : FALSE
      <4>1. \A p \in 1 .. size' : Object(p) \in Nat
        BY ObjectType
      <4> QED
        BY <4>1 DEF FirstObjects
    <3> QED
      BY <1>1, <1>3, <2>1, <3>1, <3>2, <3>3 DEF FlushOK
  <2>5. MetadataOK'
    BY <1>1, <1>3, <2>1 DEF DirectoryInv, Types, MetadataOK
  <2>6. StoredOK'
    BY <1>1, <1>3 DEF StoredOK
  <2> QED
    BY <1>2, <2>3, <2>4, <2>5, <2>6 DEF DirectoryInv
<1>4. CASE ~dirty
  <2>1. /\ flush' = [step |-> "record", drop |-> drop]
        /\ data' = data /\ metasize' = metasize /\ metadirty' = metadirty
    BY <1>4 DEF BeginFlush
  <2>2. flush'.step = "record"
    BY <2>1
  <2>3. Types' /\ FlushOK' /\ MetadataOK'
    BY <1>1, <1>4, <2>1, <2>2 DEF DirectoryInv, Types, FlushOK, MetadataOK
  <2>4. StoredOK'
    <3>1. Stored' = Stored
      BY <1>1, <2>1, StoredIs
    <3> QED
      BY <1>1, <1>4, <2>1, <3>1 DEF DirectoryInv, StoredOK
  <2> QED
    BY <1>2, <2>3, <2>4 DEF DirectoryInv
<1> QED
  BY <1>3, <1>4

\* What an iteration of write leaves: its object, and those before, as serialize made
\* them; the others as they were.
LEMMA PutObjectIs ==
  ASSUME DirectoryInv, PutObject
  PROVE  /\ data' \in Seq(Cell)
         /\ \A p \in 1 .. size : Object(p) <= flush.object =>
              p <= Len(data') /\ data'[p] = SerializedCell(files, p)
         /\ \A p \in Nat \ {0} : Object(p) # flush.object => Content(data', p) = Content(data, p)
<1> DEFINE o == flush.object
           b == flush.buffer
<1>1. /\ loaded /\ ~undefined /\ b = Serialized(files, size) /\ o \in 0 .. Object(size)
      /\ \A p \in FirstObjects(size, o) : p <= Len(data) /\ data[p] = SerializedCell(files, p)
  <2>1. /\ loaded /\ ~undefined /\ o \in 0 .. Object(size)
        /\ flush = [step |-> "put", buffer |-> Serialized(files, size),
                    object |-> flush.object, drop |-> flush.drop]
        /\ \A p \in FirstObjects(size, o) : p <= Len(data) /\ data[p] = SerializedCell(files, p)
    BY DEF PutObject, DirectoryInv, FlushOK
  <2>2. flush.buffer = Serialized(files, size)
    BY <2>1
  <2> QED
    BY <2>1, <2>2
<1>2. size \in Nat \ {0} /\ data \in Seq(Cell) /\ files \in SUBSET Names /\ IsFiniteSet(files)
  BY <1>1, LoadedFits DEF DirectoryInv, Types
<1>3. b \in Seq(Cell) /\ Len(b) = size /\ o \in Nat
  BY <1>1, <1>2, SerializedType, ObjectType
<1>4. \A p \in 1 .. size : b[p] = SerializedCell(files, p)
  BY <1>1, SerializedIs
<1>5. data' = Put(o, b)
  BY DEF PutObject, Put, End
<1> HIDE DEF o, b
<1> DEFINE w == Put(o, b)
<1>6. /\ w \in Seq(Cell) /\ Len(data) <= Len(w)
      /\ \A p \in 1 .. Len(b) : Object(p) = o => p <= Len(w) /\ w[p] = b[p]
      /\ \A p \in Nat \ {0} : Object(p) # o => Content(w, p) = Content(data, p)
      /\ \A p \in 1 .. Len(data) : Object(p) # o => w[p] = data[p]
  BY <1>2, <1>3, PutIs
<1> HIDE DEF w
<1>7. ASSUME NEW p \in 1 .. size, Object(p) <= o
      PROVE  p <= Len(w) /\ w[p] = SerializedCell(files, p)
  <2>1. CASE Object(p) = o
    BY <1>3, <1>4, <1>6, <2>1
  <2>2. CASE Object(p) # o
    <3>1. Object(p) \in Nat
      BY ObjectType
    <3>2. p \in FirstObjects(size, o)
      BY <1>3, <1>7, <2>2, <3>1 DEF FirstObjects
    <3>3. p <= Len(data) /\ data[p] = SerializedCell(files, p)
      BY <1>1, <3>2
    <3>4. p \in 1 .. Len(data)
      BY <1>2, <3>3
    <3>5. w[p] = data[p]
      BY <1>6, <2>2, <3>4
    <3>6. p <= Len(w)
      BY <1>2, <1>6, <3>3
    <3> QED
      BY <3>3, <3>5, <3>6
  <2> QED
    BY <2>1, <2>2
<1>8. data' = w
  BY <1>5 DEF w
<1> QED
  BY <1>6, <1>7, <1>8 DEF o

\* An iteration of write; the last one leaves all of the buffer in the objects.
LEMMA PutObjectPreserves == ASSUME DirectoryInv, PutObject PROVE DirectoryInv'
<1> DEFINE o == flush.object
<1>1. /\ loaded /\ ~undefined /\ dirty /\ metasize = size /\ o \in 0 .. Object(size)
      /\ flush.buffer = Serialized(files, size)
  <2>1. /\ loaded /\ ~undefined /\ dirty /\ metasize = size /\ o \in 0 .. Object(size)
        /\ flush = [step |-> "put", buffer |-> Serialized(files, size),
                    object |-> flush.object, drop |-> flush.drop]
    BY DEF PutObject, DirectoryInv, FlushOK
  <2>2. flush.buffer = Serialized(files, size)
    BY <2>1
  <2> QED
    BY <2>1, <2>2
<1>2. /\ loaded' = loaded /\ files' = files /\ size' = size /\ dirty' = dirty
      /\ metasize' = metasize /\ metadirty' = metadirty
      /\ record' = record /\ undefined' = undefined
  BY DEF PutObject, memory
<1>3. size \in Nat \ {0} /\ Len(flush.buffer) = size /\ o \in Nat /\ Object(size) \in Nat
  <2>1. size \in Nat \ {0} /\ files \in SUBSET Names /\ IsFiniteSet(files)
    BY <1>1, LoadedFits
  <2>2. Len(flush.buffer) = size
    BY <1>1, <2>1, SerializedType
  <2>3. Object(size) \in Nat
    BY <2>1, ObjectType
  <2> QED
    BY <1>1, <2>1, <2>2, <2>3
<1>4. Types'
  BY <1>2, PutObjectIs DEF DirectoryInv, Types
<1>5. SizeSuffices' /\ MetadataOK'
  BY <1>2 DEF DirectoryInv, SizeSuffices, MetadataOK
<1>6. StoredOK'
  BY <1>1, <1>2 DEF StoredOK
<1>7. FlushOK'
  <2>1. CASE o = Object(size)
    <3>1. flush' = [step |-> "record", drop |-> flush.drop]
      BY <1>3, <2>1 DEF PutObject
    <3>2. flush'.step = "record"
      BY <3>1
    <3>3. Written(size)'
      <4>1. ASSUME NEW p \in 1 .. size PROVE Object(p) <= o
        BY <1>3, <2>1, ObjectMonotonic
      <4> HIDE DEF o
      <4> QED
        BY <1>2, <4>1, PutObjectIs DEF Written, o
    <3> QED
      BY <1>1, <1>2, <3>2, <3>3 DEF FlushOK
  <2>2. CASE o # Object(size)
    <3>1. flush' = [flush EXCEPT !.object = o + 1]
      BY <1>3, <2>2 DEF PutObject
    <3>2. flush = [step |-> "put", buffer |-> Serialized(files, size),
                   object |-> flush.object, drop |-> flush.drop]
      BY DEF PutObject, DirectoryInv, FlushOK
    <3>3. /\ flush'.step = "put" /\ flush'.object = o + 1
          /\ flush' = [step |-> "put", buffer |-> Serialized(files', size'),
                       object |-> flush'.object, drop |-> flush'.drop]
      BY <1>2, <3>1, <3>2
    <3>4. o + 1 \in 0 .. Object(size)
      BY <1>1, <1>3, <2>2
    <3>5. \A p \in FirstObjects(size, o + 1) : p <= Len(data') /\ data'[p] = SerializedCell(files', p)
      <4>1. ASSUME NEW p \in 1 .. size, Object(p) < o + 1 PROVE Object(p) <= o
        BY <1>3, <4>1, ObjectType
      <4>2. \A p \in FirstObjects(size, o + 1) : p \in 1 .. size /\ Object(p) < o + 1
        BY DEF FirstObjects
      <4> HIDE DEF o
      <4> QED
        BY <1>2, <4>1, <4>2, PutObjectIs DEF o
    <3> HIDE DEF o
    <3> QED
      BY <1>1, <1>2, <3>3, <3>4, <3>5 DEF FlushOK
  <2> QED
    BY <2>1, <2>2
<1> QED
  BY <1>4, <1>5, <1>6, <1>7 DEF DirectoryInv

\* When all of the buffer is in the objects, a record of the size gives the entries.
LEMMA WrittenIsStored ==
  ASSUME DirectoryInv, loaded, ~undefined, Written(size)
  PROVE  StoredOf(size, data) = Found(files, Cells(files) + 1)
<1>1. \A p \in 1 .. Cells(files) : p <= Len(data) /\ data[p] = SerializedCell(files, p)
  <2>1. \A p \in 1 .. Cells(files) : p \in 1 .. size
    BY LoadedFits
  <2> QED
    BY <2>1 DEF Written
<1> QED
  BY <1>1, LoadedFits, StoredReads

\* The end of a flush.
LEMMA PutRecordPreserves == ASSUME DirectoryInv, PutRecord PROVE DirectoryInv'
<1>1. /\ flush.step = "record" /\ loaded /\ ~undefined
      /\ dirty => metasize = size /\ Written(size)
  BY DEF PutRecord, DirectoryInv, FlushOK
<1>2. /\ record' = (IF metadirty THEN metasize ELSE record)
      /\ metadirty' = FALSE /\ dirty' = FALSE /\ flush' = Idle /\ loaded' \in BOOLEAN
      /\ files' = files /\ size' = size /\ metasize' = metasize /\ data' = data
      /\ undefined' = undefined
  BY DEF PutRecord
<1>3. record' = metasize
  BY <1>1, <1>2 DEF DirectoryInv, MetadataOK
<1>4. Types'
  <2>1. metasize \in 0 .. MaxSize
    BY DEF DirectoryInv, Types
  <2> QED
    BY <1>2, <1>3, <2>1 DEF DirectoryInv, Types
<1>5. SizeSuffices'
  BY <1>1, <1>2 DEF DirectoryInv, SizeSuffices
<1>6. FlushOK' /\ MetadataOK'
  <2>1. flush'.step = "none"
    BY <1>2 DEF Idle
  <2> QED
    BY <1>2, <1>3, <2>1 DEF FlushOK, MetadataOK
<1>7. Stored'.files = files'
  <2>1. CASE dirty
    <3>1. Stored' = StoredOf(size, data)
      BY <1>1, <1>2, <1>3, <2>1, StoredIs
    <3>2. Stored' = Found(files, Cells(files) + 1)
      BY <1>1, <2>1, <3>1, WrittenIsStored
    <3> QED
      BY <1>2, <3>2, FoundIs
  <2>2. CASE ~dirty
    <3>1. metasize = record
      BY <1>1, <2>2 DEF DirectoryInv, MetadataOK
    <3>2. Stored' = Stored
      BY <1>2, <1>3, <3>1, StoredIs
    <3> QED
      BY <1>1, <1>2, <2>2, <3>2 DEF DirectoryInv, StoredOK
  <2> QED
    BY <2>1, <2>2
<1> QED
  BY <1>4, <1>5, <1>6, <1>7 DEF DirectoryInv, StoredOK

\* The first half of a removal.
LEMMA RemoveObjectsPreserves == ASSUME DirectoryInv, RemoveObjects PROVE DirectoryInv'
<1>1. /\ loaded /\ ~undefined /\ files = {}
      /\ flush' = [step |-> "remove"]
      /\ data' = (IF metasize > 0 THEN Without(0, metasize \div ObjectSize) ELSE data)
      /\ loaded' = loaded /\ files' = files /\ size' = size /\ dirty' = dirty
      /\ metasize' = metasize /\ metadirty' = metadirty
      /\ record' = record /\ undefined' = undefined
  BY DEF RemoveObjects, Ready, memory
<1>2. flush'.step = "remove"
  BY <1>1
<1>3. data' \in Seq(Cell)
  <2>1. data \in Seq(Cell)
    BY DEF DirectoryInv, Types
  <2>2. Without(0, metasize \div ObjectSize) \in Seq(Cell)
    BY <2>1, WithoutIs
  <2> QED
    BY <1>1, <2>1, <2>2
<1>4. Types'
  BY <1>1, <1>3 DEF DirectoryInv, Types
<1>5. SizeSuffices' /\ FlushOK' /\ MetadataOK' /\ StoredOK'
  BY <1>1, <1>2 DEF DirectoryInv, SizeSuffices, FlushOK, MetadataOK, StoredOK
<1> QED
  BY <1>4, <1>5 DEF DirectoryInv

\* The second half of a removal.
LEMMA RemoveRecordPreserves == ASSUME DirectoryInv, RemoveRecord PROVE DirectoryInv'
<1>1. /\ flush.step = "remove" /\ files = {} /\ ~undefined
      /\ record' = NoRecord /\ flush' = Idle /\ loaded' = FALSE
      /\ dirty' = FALSE /\ metadirty' = FALSE
      /\ files' = files /\ size' = size /\ metasize' = metasize /\ data' = data
      /\ undefined' = undefined
  BY DEF RemoveRecord, DirectoryInv, FlushOK
<1>2. Types'
  BY <1>1 DEF DirectoryInv, Types
<1>3. SizeSuffices' /\ MetadataOK'
  BY <1>1 DEF SizeSuffices, MetadataOK
<1>4. FlushOK'
  <2>1. flush'.step = "none"
    BY <1>1 DEF Idle
  <2> QED
    BY <1>1, <2>1 DEF FlushOK
<1>5. Stored'.files = files'
  <2>1. Stored' = Found({}, 2)
    BY <1>1, StoredIs DEF StoredOf
  <2> QED
    BY <1>1, <2>1 DEF Found
<1> QED
  BY <1>2, <1>3, <1>4, <1>5 DEF DirectoryInv, StoredOK

\* A crash: what is then expected of a load is what it finds.
LEMMA CrashPreserves == ASSUME DirectoryInv, Crash PROVE DirectoryInv'
<1>1. /\ loaded' = FALSE /\ flush' = Idle /\ files' = Stored.files
      /\ size' = 0 /\ dirty' = FALSE /\ metasize' = 0 /\ metadirty' = FALSE
      /\ data' = data /\ record' = record /\ undefined' = undefined
  BY DEF Crash, backend
<1>2. Types'
  <2>1. Stored.files \in SUBSET Names /\ IsFiniteSet(Stored.files)
    BY StoredIs, StoredType DEF DirectoryInv, Types
  <2>2. 0 \in 0 .. MaxSize
    BY SizesAssumption
  <2> QED
    BY <1>1, <2>1, <2>2 DEF DirectoryInv, Types
<1>3. SizeSuffices' /\ MetadataOK'
  BY <1>1 DEF SizeSuffices, MetadataOK
<1>4. FlushOK'
  <2>1. flush'.step = "none"
    BY <1>1 DEF Idle
  <2> QED
    BY <1>1, <2>1 DEF FlushOK
<1>5. StoredOK'
  BY <1>1, StoredIs DEF StoredOK
<1> QED
  BY <1>2, <1>3, <1>4, <1>5 DEF DirectoryInv

\* Nothing happens.
LEMMA InvStutter == ASSUME DirectoryInv, UNCHANGED vars PROVE DirectoryInv'
<1>1. /\ loaded' = loaded /\ files' = files /\ size' = size /\ dirty' = dirty
      /\ metasize' = metasize /\ metadirty' = metadirty /\ flush' = flush
      /\ data' = data /\ record' = record /\ undefined' = undefined
  BY DEF vars, memory, backend
<1>2. Stored' = Stored
  BY <1>1, StoredIs
<1> QED
  BY <1>1, <1>2
     DEF DirectoryInv, Types, SizeSuffices, FlushOK, Written, MetadataOK, StoredOK

\* Every step.
LEMMA InvStep == ASSUME DirectoryInv, [Next]_vars PROVE DirectoryInv'
<1>1. CASE \E e \in Names : AddFile(e) \/ RemoveFile(e) \/ MoveOut(e) \/ MoveIn(e)
                            \/ \E f \in Names : MoveWithin(e, f)
  BY <1>1, EntriesPreserve
<1>2. CASE SetAttr \/ Mkdir \/ Load
  BY <1>2, SetAttrPreserves, MkdirPreserves, LoadPreserves
<1>3. CASE \E drop \in BOOLEAN : BeginFlush(drop)
  BY <1>3, BeginFlushPreserves
<1>4. CASE PutObject \/ PutRecord \/ RemoveObjects \/ RemoveRecord \/ Crash
  BY <1>4, PutObjectPreserves, PutRecordPreserves, RemoveObjectsPreserves,
     RemoveRecordPreserves, CrashPreserves
<1>5. CASE UNCHANGED vars
  BY <1>5, InvStutter
<1> QED
  BY <1>1, <1>2, <1>3, <1>4, <1>5 DEF Next

\* The invariant is stronger than the type invariant.
LEMMA InvType == ASSUME DirectoryInv PROVE TypeOK
<1>1. \A p \in DOMAIN data : data[p][1] \in Names \cup {0}
  <2>1. data \in Seq(Cell)
    BY DEF DirectoryInv, Types
  <2>2. ASSUME NEW p \in DOMAIN data PROVE data[p][1] \in Names \cup {0}
    <3>1. data[p] \in Cell
      BY <2>1
    <3> QED
      BY <3>1 DEF Cell
  <2> QED
    BY <2>2
<1> QED
  BY <1>1 DEF DirectoryInv, Types, FlushOK, TypeOK

\* The invariant is about clean directories.
LEMMA InvCleanIsStored == ASSUME DirectoryInv PROVE CleanIsStored
<1>1. flush = Idle => flush.step = "none"
  BY DEF Idle
<1> QED
  BY <1>1 DEF DirectoryInv, StoredOK, CleanIsStored

-----------------------------------------------------------------------------
(* The theorems.                                                           *)

\* The invariant holds of every reachable state.
THEOREM Invariance == Spec => []DirectoryInv
<1>1. DirectoryInv /\ [Next]_vars => DirectoryInv'
  BY InvStep
<1> QED
  BY <1>1, InvInit, PTL DEF Spec

\* The type invariant, for any names and sizes of entries and objects.
THEOREM TypeCorrect == Spec => []TypeOK
  BY InvType, Invariance, PTL

\* serialize never writes beyond its buffer: the size a directory keeps is at least the
\* cells of its entries, also after a load of what a crash left
\* (directory.impl.hpp:76, 91, 192-199).
THEOREM SizesSuffice == Spec => []SizeSuffices
<1>1. DirectoryInv => SizeSuffices
  BY DEF DirectoryInv
<1> QED
  BY <1>1, Invariance, PTL

\* A clean directory is what a load finds in its place (directory.impl.hpp:98-143).
THEOREM CleanDirectoriesAreStored == Spec => []CleanIsStored
  BY InvCleanIsStored, Invariance, PTL

-----------------------------------------------------------------------------
(* A crash in a flush.                                                     *)

\* What is assumed of the state before a step of a flush.
Covered == Stored.ok /\ record # NoRecord /\ Cells(files) <= record /\ record <= ObjectSize
Kept == Stored'.ok /\ Stored'.files \in {Stored.files, files}

\* A step that a load does not see.
LEMMA SameIsKept == ASSUME Covered, Stored' = Stored PROVE Kept
  BY DEF Covered, Kept

\* A step after which a load finds the entries in memory.
LEMMA FilesAreKept == ASSUME NEW p, Stored' = Found(files, p) PROVE Kept
  BY FoundIs DEF Kept

\* A record that fits one object covers the first object only.
LEMMA CoveredIs ==
  ASSUME DirectoryInv, Covered
  PROVE  /\ record \in Nat /\ data \in Seq(Cell)
         /\ files \in SUBSET Names /\ IsFiniteSet(files) /\ Cells(files) \in Nat \ {0}
         /\ \A p \in 1 .. record : Object(p) = 0
<1>1. /\ record \in Nat /\ data \in Seq(Cell) /\ files \in SUBSET Names /\ IsFiniteSet(files)
      /\ record <= ObjectSize /\ ObjectSize \in Nat
  BY SizesAssumption DEF DirectoryInv, Types, Covered
<1>2. Cells(files) \in Nat \ {0}
  BY <1>1, CellsNat
<1>3. ASSUME NEW p \in 1 .. record PROVE Object(p) = 0
  <2>1. p \in Nat \ {0} /\ p <= ObjectSize
    BY <1>1
  <2> QED
    BY <2>1, FirstObject
<1> QED
  BY <1>1, <1>2, <1>3

\* A step that leaves the first object alone is not seen by a load.
LEMMA FirstObjectSame ==
  ASSUME DirectoryInv, Covered, record' = record,
         \A p \in Nat \ {0} : Object(p) = 0 => Content(data', p) = Content(data, p)
  PROVE  Kept
<1>1. \A p \in 1 .. record : p \in Nat \ {0} /\ Object(p) = 0
  BY CoveredIs
<1>2. \A p \in 1 .. record : Content(data', p) = Content(data, p)
  BY <1>1
<1>3. StoredOf(record, data') = StoredOf(record, data)
  BY <1>2, StoredSame
<1>4. Stored' = Stored
  BY <1>3, StoredIs
<1> QED
  BY <1>4, SameIsKept

\* An iteration of write: the first one brings all of the entries, the others nothing.
LEMMA PutObjectIsAtomic == ASSUME DirectoryInv, Covered, PutObject PROVE Kept
<1>1. loaded /\ ~undefined /\ record' = record /\ flush.object \in 0 .. Object(size)
  BY DEF PutObject, DirectoryInv, FlushOK
<1>2. size \in Nat \ {0} /\ Cells(files) <= size
  BY <1>1, LoadedFits
<1>3. CASE flush.object = 0
  <2>1. ASSUME NEW p \in 1 .. Cells(files)
        PROVE  p <= Len(data') /\ data'[p] = SerializedCell(files, p)
    <3>1. p \in 1 .. size /\ p \in 1 .. record
      BY <1>2, CoveredIs DEF Covered
    <3>2. Object(p) <= flush.object
      BY <1>3, <3>1, CoveredIs
    <3> QED
      BY <3>1, <3>2, PutObjectIs
  <2>2. StoredOf(record, data') = Found(files, Cells(files) + 1)
    <3>1. record \in Nat /\ Cells(files) <= record /\ files \in SUBSET Names /\ IsFiniteSet(files)
      BY CoveredIs DEF Covered
    <3> QED
      BY <2>1, <3>1, StoredReads
  <2>3. Stored' = Found(files, Cells(files) + 1)
    BY <1>1, <2>2, StoredIs
  <2> QED
    BY <2>3, FilesAreKept
<1>4. CASE flush.object # 0
  <2>1. \A p \in Nat \ {0} : Object(p) = 0 => Content(data', p) = Content(data, p)
    BY <1>4, PutObjectIs
  <2> QED
    BY <1>1, <2>1, FirstObjectSame
<1> QED
  BY <1>3, <1>4

\* truncate is not seen.
LEMMA BeginFlushIsAtomic ==
  ASSUME DirectoryInv, Covered, NEW drop \in BOOLEAN, BeginFlush(drop) PROVE Kept
<1>1. loaded /\ ~undefined /\ record' = record /\ (data' = Truncated \/ data' = data)
  BY DEF BeginFlush, Ready
<1>2. \A p \in Nat \ {0} : Object(p) = 0 => Content(data', p) = Content(data, p)
  BY <1>1, TruncatedIs
<1> QED
  BY <1>1, <1>2, FirstObjectSame

\* The record comes when the objects have the entries.
LEMMA PutRecordIsAtomic == ASSUME DirectoryInv, Covered, PutRecord PROVE Kept
<1>1. /\ loaded /\ ~undefined /\ data' = data
      /\ record' = (IF metadirty THEN metasize ELSE record)
      /\ dirty => metasize = size /\ Written(size)
  BY DEF PutRecord, DirectoryInv, FlushOK
<1>2. CASE dirty
  <2>1. record' = size
    BY <1>1, <1>2 DEF DirectoryInv, MetadataOK
  <2>2. Stored' = Found(files, Cells(files) + 1)
    BY <1>1, <1>2, <2>1, StoredIs, WrittenIsStored
  <2> QED
    BY <2>2, FilesAreKept
<1>3. CASE ~dirty
  <2>1. record' = record
    BY <1>1, <1>3 DEF DirectoryInv, MetadataOK
  <2> QED
    BY <1>1, <2>1, StoredIs, SameIsKept
<1> QED
  BY <1>2, <1>3

\* Zeroed objects are those of a directory without entries, which this one is.
LEMMA RemoveObjectsIsAtomic == ASSUME DirectoryInv, Covered, RemoveObjects PROVE Kept
<1> DEFINE last == metasize \div ObjectSize
<1>1. /\ files = {} /\ record' = record
      /\ data' = (IF metasize > 0 THEN Without(0, last) ELSE data)
      /\ metasize \in Nat
  BY SizesAssumption DEF RemoveObjects, DirectoryInv, Types
<1>2. last \in Nat
  BY <1>1, SizesAssumption
<1> HIDE DEF last
<1>3. CASE metasize > 0
  <2>1. ASSUME NEW p \in 1 .. record PROVE Content(data', p) = Zero
    <3>1. p \in Nat \ {0} /\ Object(p) \in 0 .. last
      BY <1>2, CoveredIs
    <3>2. Content(Without(0, last), p) = Zero
      BY <3>1, WithoutIs, CoveredIs
    <3> QED
      BY <1>1, <1>3, <3>2
  <2>2. Stored' = StoredOf(record, data')
    BY <1>1, StoredIs
  <2>3. record \in Nat \ {0}
    BY CoveredIs DEF Covered
  <2>4. Parse(Image(record, data')) = Found({}, 2)
    <3> DEFINE cells == Image(record, data')
    <3>1. cells[1] = Zero
      BY <2>1, <2>3 DEF Image
    <3> HIDE DEF cells
    <3>2. cells[1][2] = 0
      BY <3>1 DEF Zero
    <3>3. PICK g : Walk(cells, 0, g) /\ Parse(cells) = g[0]
      BY <3>2, ParseWalks
    <3>4. 0 \in 0 .. 0
      OBVIOUS
    <3>5. g[0] = Found({}, 2)
      BY <3>3, <3>4 DEF Walk
    <3>6. Parse(cells) = Found({}, 2)
      BY <3>3, <3>5
    <3> QED
      BY <3>6 DEF cells
  <2>5. Stored' = Found(files, 2)
    BY <1>1, <2>2, <2>3, <2>4, SizesAssumption DEF StoredOf
  <2> QED
    BY <2>5, FilesAreKept
<1>4. CASE ~(metasize > 0)
  BY <1>1, <1>4, StoredIs, SameIsKept
<1> QED
  BY <1>3, <1>4

\* Without a record there are no entries either.
LEMMA RemoveRecordIsAtomic == ASSUME DirectoryInv, Covered, RemoveRecord PROVE Kept
<1>1. files = {} /\ record' = NoRecord
  BY DEF RemoveRecord, DirectoryInv, FlushOK
<1>2. Stored' = Found(files, 2)
  BY <1>1, StoredIs DEF StoredOf
<1> QED
  BY <1>2, FilesAreKept

\* Every step.
LEMMA StepIsAtomic == ASSUME DirectoryInv, [Next]_vars, Covered PROVE Kept
<1>1. CASE UNCHANGED backend
  <2>1. record' = record /\ data' = data
    BY <1>1 DEF backend
  <2> QED
    BY <2>1, StoredIs, SameIsKept
<1>2. CASE \E e \in Names : AddFile(e) \/ RemoveFile(e) \/ MoveOut(e) \/ MoveIn(e)
                            \/ \E f \in Names : MoveWithin(e, f)
  BY <1>1, <1>2 DEF AddFile, RemoveFile, MoveOut, MoveIn, MoveWithin, Change
<1>3. CASE SetAttr \/ Mkdir \/ Load \/ Crash \/ UNCHANGED vars
  BY <1>1, <1>3 DEF SetAttr, Mkdir, Load, Crash, vars
<1>4. CASE \E drop \in BOOLEAN : BeginFlush(drop)
  BY <1>4, BeginFlushIsAtomic
<1>5. CASE PutObject \/ PutRecord \/ RemoveObjects \/ RemoveRecord
  BY <1>5, PutObjectIsAtomic, PutRecordIsAtomic, RemoveObjectsIsAtomic, RemoveRecordIsAtomic
<1> QED
  BY <1>2, <1>3, <1>4, <1>5 DEF Next

\* A crash in a flush or a removal of a directory that fits one object and its record
\* leaves the entries from before or from after (directory.impl.hpp:102-108).
THEOREM CrashesAreAtomic == Spec => CrashIsAtomic
<1> DEFINE A == Stored.ok /\ record # NoRecord /\ Cells(files) <= record /\ record <= ObjectSize
                  => Stored'.ok /\ Stored'.files \in {Stored.files, files}
<1>1. DirectoryInv /\ [Next]_vars => A
  BY StepIsAtomic DEF Covered, Kept
<1>2. DirectoryInv /\ [Next]_vars => [A]_vars
  BY <1>1
<1>3. Spec => [][A]_vars
  BY <1>2, Invariance, PTL DEF Spec
<1> QED
  BY <1>3 DEF CrashIsAtomic

=============================================================================
