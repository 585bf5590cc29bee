----------------------------- MODULE FiniteSums -----------------------------
(***************************************************************************)
(* Sums over finite sets, for the proofs that add up quantities in rows    *)
(* and in requests: what the library's SumFunctionOnSet returns, from its  *)
(* definition.  The library folds a set by a recursive function on the     *)
(* subsets, one chosen element at a time; that such a function exists, and *)
(* what it yields, is shown by least counterexamples: a set of subsets     *)
(* that holds {} and is closed under adding an element holds them all.     *)
(***************************************************************************)
EXTENDS Integers, FiniteSets, Functions, FiniteSetTheorems, WellFoundedInduction, TLAPS

(* The element the fold takes next, and the equation that defines the fold.  *)
Chosen(s) == CHOOSE x \in s : TRUE
FoldStep(f, g, s) == IF s = {} THEN 0 ELSE f[Chosen(s)] + g[s \ {Chosen(s)}]
Solves(f, g, D) == g = [s \in D |-> FoldStep(f, g, s)]

(* A sum is what the function that solves the fold's equation yields.        *)
LEMMA FoldUnfolded ==
    ASSUME NEW f, NEW S
    PROVE  SumFunctionOnSet(f, S) = (CHOOSE g : Solves(f, g, SUBSET S))[S]
BY DEF SumFunctionOnSet, FoldFunctionOnSet, MapThenFoldSet, Solves, FoldStep, Chosen

(* The element the fold takes is one of the set.                             *)
LEMMA ChosenIn == ASSUME NEW s, s # {} PROVE Chosen(s) \in s
BY DEF Chosen

(* A set that holds 0 and every successor of its numbers holds all numbers.  *)
LEMMA NumberInduction ==
    ASSUME NEW P, 0 \in P, \A n \in Nat : n \in P => n + 1 \in P
    PROVE  Nat \subseteq P
<1> SUFFICES ASSUME Nat \ P # {} PROVE FALSE
  OBVIOUS
<1>1. PICK n \in Nat \ P : \A m \in Nat \ P : ~(<<m, n>> \in OpToRel(<, Nat))
  BY NatLessThanWellFounded, WFMin
<1>2. n - 1 \in Nat /\ n - 1 < n
  OBVIOUS
<1>3. n - 1 \notin P
  BY <1>2
<1> QED
  BY <1>1, <1>2, <1>3 DEF OpToRel

(* A set that holds {} and each set all of whose one-smaller subsets it      *)
(* holds, holds every subset of a finite set.                                *)
LEMMA SubsetInduction ==
    ASSUME NEW U, IsFiniteSet(U), NEW P, {} \in P,
           \A s \in SUBSET U : s # {} /\ (\A x \in s : s \ {x} \in P) => s \in P
    PROVE  SUBSET U \subseteq P
<1> SUFFICES ASSUME (SUBSET U) \ P # {} PROVE FALSE
  OBVIOUS
<1>1. FiniteSubsetsOf(U) = SUBSET U
  BY FS_FiniteSubsetsOfFinite
<1>2. IsWellFoundedOn(StrictSubsetOrdering(U), SUBSET U)
  <2>1. IsWellFoundedOn(StrictSubsetOrdering(U), FiniteSubsetsOf(U))
    BY FS_StrictSubsetOrderingWellFounded
  <2> QED
    BY <1>1, <2>1
<1>3. PICK s \in (SUBSET U) \ P :
        \A r \in (SUBSET U) \ P : ~(<<r, s>> \in StrictSubsetOrdering(U))
  <2>1. (SUBSET U) \ P \subseteq SUBSET U
    OBVIOUS
  <2> QED
    BY <1>2, <2>1, WFMin
<1>4. \A x \in s : s \ {x} \in P
  <2> SUFFICES ASSUME NEW x \in s PROVE s \ {x} \in P
    OBVIOUS
  <2>1. s \ {x} \in SUBSET U /\ s \in SUBSET U /\ s \ {x} \subseteq s /\ s \ {x} # s
    OBVIOUS
  <2>2. <<s \ {x}, s>> \in StrictSubsetOrdering(U)
    BY <2>1 DEF StrictSubsetOrdering
  <2> QED
    BY <1>3, <2>1, <2>2
<1>5. s # {}
  BY <1>3
<1> QED
  BY <1>3, <1>4, <1>5

-----------------------------------------------------------------------------
(* The fold *)

(* The subsets with at most n elements.                                      *)
UpTo(U, n) == {s \in SUBSET U : Cardinality(s) <= n}

(* The fold's equation has a solution on the subsets of a finite set: by the *)
(* number of elements of the subsets it is solved for.                       *)
LEMMA SolutionExists ==
    ASSUME NEW f, NEW U, IsFiniteSet(U)
    PROVE  \E g : Solves(f, g, SUBSET U)
<1> DEFINE P == {n \in Nat : \E g : Solves(f, g, UpTo(U, n))}
<1>1. 0 \in P
  <2> DEFINE g == [s \in UpTo(U, 0) |-> 0]
  <2>1. \A s \in UpTo(U, 0) : s = {}
    BY FS_Subset, FS_EmptySet, FS_CardinalityType DEF UpTo
  <2>2. Solves(f, g, UpTo(U, 0))
    BY <2>1 DEF Solves, FoldStep
  <2> QED
    BY <2>2
<1>2. ASSUME NEW n \in Nat, n \in P PROVE n + 1 \in P
  <2>1. PICK g : Solves(f, g, UpTo(U, n))
    BY <1>2
  <2> DEFINE h == [s \in UpTo(U, n + 1) |-> FoldStep(f, g, s)]
  <2>2. ASSUME NEW s \in UpTo(U, n + 1), s # {}
        PROVE  s \ {Chosen(s)} \in UpTo(U, n) /\ s \ {Chosen(s)} \in UpTo(U, n + 1)
    <3>1. Chosen(s) \in s /\ IsFiniteSet(s) /\ s \ {Chosen(s)} \in SUBSET U
      BY <2>2, ChosenIn, FS_Subset DEF UpTo
    <3>2. Cardinality(s) \in Nat /\ Cardinality(s \ {Chosen(s)}) = Cardinality(s) - 1
      BY <3>1, FS_RemoveElement, FS_CardinalityType
    <3> QED
      BY <3>1, <3>2 DEF UpTo
  <2>3. \A s \in UpTo(U, n) : s \in UpTo(U, n + 1) /\ g[s] = FoldStep(f, g, s)
    <3>1. \A s \in UpTo(U, n) : g[s] = FoldStep(f, g, s)
      BY <2>1 DEF Solves
    <3>2. \A s \in UpTo(U, n) : Cardinality(s) \in Nat
      BY FS_Subset, FS_CardinalityType DEF UpTo
    <3> QED
      BY <3>1, <3>2 DEF UpTo
  <2>4. \A s \in UpTo(U, n + 1) : FoldStep(f, g, s) = FoldStep(f, h, s)
    BY <2>2, <2>3 DEF FoldStep
  <2>5. h = [s \in UpTo(U, n + 1) |-> FoldStep(f, h, s)]
    BY <2>4
  <2> HIDE DEF h
  <2>6. Solves(f, h, UpTo(U, n + 1))
    BY <2>5 DEF Solves
  <2> QED
    BY <2>6
<1>3. Cardinality(U) \in Nat /\ Cardinality(U) \in P
  <2> HIDE DEF P
  <2> QED
    BY <1>1, <1>2, NumberInduction, FS_CardinalityType
<1>4. UpTo(U, Cardinality(U)) = SUBSET U
  BY FS_Subset DEF UpTo
<1> QED
  BY <1>3, <1>4

(* Its solutions agree wherever both are defined.                            *)
LEMMA SolutionsAgree ==
    ASSUME NEW f, NEW U, IsFiniteSet(U), NEW V \in SUBSET U, NEW g, NEW h,
           Solves(f, g, SUBSET U), Solves(f, h, SUBSET V)
    PROVE  \A s \in SUBSET V : g[s] = h[s]
<1> DEFINE P == {s \in SUBSET V : g[s] = h[s]}
<1>1. \A s \in SUBSET V : g[s] = FoldStep(f, g, s) /\ h[s] = FoldStep(f, h, s)
  BY DEF Solves
<1>2. {} \in P
  BY <1>1 DEF FoldStep
<1>3. ASSUME NEW s \in SUBSET V, s # {}, \A x \in s : s \ {x} \in P PROVE s \in P
  BY <1>1, <1>3, ChosenIn DEF FoldStep
<1>4. IsFiniteSet(V)
  BY FS_Subset
<1> HIDE DEF P
<1>5. \A s \in SUBSET V : s # {} /\ (\A x \in s : s \ {x} \in P) => s \in P
  BY <1>3
<1>6. SUBSET V \subseteq P
  BY <1>2, <1>4, <1>5, SubsetInduction
<1> QED
  BY <1>6 DEF P

-----------------------------------------------------------------------------
(* Sums *)

(* Nothing sums up to 0.                                                     *)
LEMMA SumEmpty == ASSUME NEW f PROVE SumFunctionOnSet(f, {}) = 0
<1> DEFINE g == CHOOSE g : Solves(f, g, SUBSET {})
<1>1. Solves(f, g, SUBSET {})
  BY SolutionExists, FS_EmptySet
<1> QED
  BY <1>1, FoldUnfolded DEF Solves, FoldStep

(* The first element is added to the sum of the others.                      *)
LEMMA SumChosen ==
    ASSUME NEW f, NEW S, IsFiniteSet(S), S # {}
    PROVE  SumFunctionOnSet(f, S) = f[Chosen(S)] + SumFunctionOnSet(f, S \ {Chosen(S)})
<1> DEFINE T == S \ {Chosen(S)}
           g == CHOOSE g : Solves(f, g, SUBSET S)
           h == CHOOSE h : Solves(f, h, SUBSET T)
<1>1. IsFiniteSet(T) /\ T \in SUBSET S
  BY FS_Subset
<1>2. Solves(f, g, SUBSET S) /\ Solves(f, h, SUBSET T)
  BY <1>1, SolutionExists
<1>3. g[T] = h[T]
  <2> HIDE DEF g, h, T
  <2>1. \A s \in SUBSET T : g[s] = h[s]
    BY <1>1, <1>2, SolutionsAgree
  <2> QED
    BY <2>1
<1>4. g[S] = f[Chosen(S)] + g[T]
  BY <1>2 DEF Solves, FoldStep
<1>5. SumFunctionOnSet(f, S) = g[S] /\ SumFunctionOnSet(f, T) = h[T]
  BY FoldUnfolded
<1> QED
  BY <1>3, <1>4, <1>5

(* Sums of naturals are naturals.                                            *)
LEMMA SumType ==
    ASSUME NEW f, NEW S, IsFiniteSet(S), \A x \in S : f[x] \in Nat
    PROVE  SumFunctionOnSet(f, S) \in Nat
<1> DEFINE P == {s \in SUBSET S : SumFunctionOnSet(f, s) \in Nat}
<1>1. {} \in P
  BY SumEmpty
<1>2. ASSUME NEW s \in SUBSET S, s # {}, \A x \in s : s \ {x} \in P PROVE s \in P
  <2>1. Chosen(s) \in s /\ IsFiniteSet(s)
    BY <1>2, ChosenIn, FS_Subset
  <2>2. s \ {Chosen(s)} \in P /\ s \ {Chosen(s)} \in SUBSET S
    BY <1>2, <2>1
  <2> QED
    BY <1>2, <2>1, <2>2, SumChosen
<1> HIDE DEF P
<1>3. S \in P
  <2>1. \A s \in SUBSET S : s # {} /\ (\A y \in s : s \ {y} \in P) => s \in P
    BY <1>2
  <2> QED
    BY <1>1, <2>1, SubsetInduction
<1> QED
  BY <1>3 DEF P

(* Any element may be taken first.                                           *)
LEMMA SumRemove ==
    ASSUME NEW f, NEW S, IsFiniteSet(S), \A x \in S : f[x] \in Nat, NEW x \in S
    PROVE  SumFunctionOnSet(f, S) = f[x] + SumFunctionOnSet(f, S \ {x})
<1> DEFINE Sum(s) == SumFunctionOnSet(f, s)
           P == {s \in SUBSET S : \A y \in s : Sum(s) = f[y] + Sum(s \ {y})}
<1>1. {} \in P
  OBVIOUS
<1>2. ASSUME NEW s \in SUBSET S, s # {}, \A y \in s : s \ {y} \in P, NEW y \in s
      PROVE  Sum(s) = f[y] + Sum(s \ {y})
  <2> DEFINE z == Chosen(s)
  <2>1. z \in s /\ Sum(s) = f[z] + Sum(s \ {z})
    BY <1>2, SumChosen, ChosenIn, FS_Subset
  <2>2. CASE y = z
    BY <2>1, <2>2
  <2>3. CASE y # z
    <3>1. Sum(s \ {z}) = f[y] + Sum((s \ {z}) \ {y})
      BY <1>2, <2>1, <2>3
    <3>2. Sum(s \ {y}) = f[z] + Sum((s \ {y}) \ {z})
      BY <1>2, <2>1, <2>3
    <3>3. (s \ {z}) \ {y} = (s \ {y}) \ {z}
      OBVIOUS
    <3>4. Sum((s \ {z}) \ {y}) \in Nat
      BY SumType, FS_Subset
    <3> QED
      BY <2>1, <3>1, <3>2, <3>3, <3>4
  <2> QED
    BY <2>2, <2>3
<1> HIDE DEF P, Sum
<1>3. S \in P
  <2>1. \A s \in SUBSET S : s # {} /\ (\A y \in s : s \ {y} \in P) => s \in P
    BY <1>2 DEF P
  <2> QED
    BY <1>1, <2>1, SubsetInduction
<1> QED
  BY <1>3 DEF P, Sum

(* Only the values at the elements of the set count.                         *)
LEMMA SumSame ==
    ASSUME NEW f, NEW g, NEW S, IsFiniteSet(S), \A x \in S : f[x] = g[x]
    PROVE  SumFunctionOnSet(f, S) = SumFunctionOnSet(g, S)
<1> DEFINE P == {s \in SUBSET S : SumFunctionOnSet(f, s) = SumFunctionOnSet(g, s)}
<1>1. {} \in P
  BY SumEmpty
<1>2. ASSUME NEW s \in SUBSET S, s # {}, \A x \in s : s \ {x} \in P PROVE s \in P
  <2>1. Chosen(s) \in s /\ IsFiniteSet(s)
    BY <1>2, ChosenIn, FS_Subset
  <2>2. s \ {Chosen(s)} \in P /\ s \ {Chosen(s)} \in SUBSET S
    BY <1>2, <2>1
  <2> QED
    BY <1>2, <2>1, <2>2, SumChosen
<1> HIDE DEF P
<1>3. S \in P
  <2>1. \A s \in SUBSET S : s # {} /\ (\A y \in s : s \ {y} \in P) => s \in P
    BY <1>2
  <2> QED
    BY <1>1, <2>1, SubsetInduction
<1> QED
  BY <1>3 DEF P

(* A sum of naturals none of which exceeds b.                                *)
LEMMA SumBounded ==
    ASSUME NEW f, NEW S, IsFiniteSet(S), NEW b \in Nat, \A x \in S : f[x] \in Nat /\ f[x] <= b
    PROVE  SumFunctionOnSet(f, S) <= Cardinality(S) * b
<1> DEFINE P == {s \in SUBSET S : SumFunctionOnSet(f, s) <= Cardinality(s) * b}
<1>1. {} \in P
  BY SumEmpty, FS_EmptySet
<1>2. ASSUME NEW s \in SUBSET S, s # {}, \A x \in s : s \ {x} \in P PROVE s \in P
  <2> DEFINE z == Chosen(s)
  <2>1. z \in s /\ IsFiniteSet(s) /\ IsFiniteSet(s \ {z})
    BY <1>2, ChosenIn, FS_Subset
  <2>2. SumFunctionOnSet(f, s) = f[z] + SumFunctionOnSet(f, s \ {z})
    BY <1>2, <2>1, SumChosen
  <2>3. SumFunctionOnSet(f, s \ {z}) \in Nat
    BY <2>1, SumType
  <2>4. Cardinality(s) \in Nat /\ Cardinality(s \ {z}) = Cardinality(s) - 1
    BY <2>1, FS_RemoveElement, FS_CardinalityType
  <2>5. SumFunctionOnSet(f, s \ {z}) <= (Cardinality(s) - 1) * b
    BY <1>2, <2>1, <2>4
  <2>6. f[z] \in Nat /\ f[z] <= b
    BY <2>1
  <2>7. (Cardinality(s) - 1) * b + b = Cardinality(s) * b
    BY <2>4
  <2>8. (Cardinality(s) - 1) * b \in Int /\ Cardinality(s) * b \in Int
    BY <2>4
  <2> HIDE DEF z
  <2>9. SumFunctionOnSet(f, s) <= Cardinality(s) * b
    BY <2>2, <2>3, <2>5, <2>6, <2>7, <2>8
  <2> QED
    BY <2>9
<1> HIDE DEF P
<1>3. S \in P
  <2>1. \A s \in SUBSET S : s # {} /\ (\A y \in s : s \ {y} \in P) => s \in P
    BY <1>2
  <2> QED
    BY <1>1, <2>1, SubsetInduction
<1> QED
  BY <1>3 DEF P

(* The same for at most n elements.                                          *)
LEMMA SumOfFew ==
    ASSUME NEW f, NEW S, IsFiniteSet(S), NEW n \in Nat, Cardinality(S) <= n,
           NEW b \in Nat, \A x \in S : f[x] \in Nat /\ f[x] <= b
    PROVE  SumFunctionOnSet(f, S) <= n * b
<1>1. SumFunctionOnSet(f, S) <= Cardinality(S) * b /\ SumFunctionOnSet(f, S) \in Nat
  BY SumBounded, SumType
<1>2. Cardinality(S) \in Nat
  BY FS_CardinalityType
<1>3. ASSUME NEW c \in Nat, c <= n PROVE c * b <= n * b
  <2>1. n * b = c * b + (n - c) * b /\ n - c \in Nat
    BY <1>3
  <2>2. (n - c) * b \in Nat /\ c * b \in Nat
    BY <2>1
  <2> QED
    BY <2>1, <2>2
<1>4. Cardinality(S) * b <= n * b /\ Cardinality(S) * b \in Nat /\ n * b \in Nat
  BY <1>2, <1>3
<1> QED
  BY <1>1, <1>4

(* Leaving elements out never makes a sum of naturals larger.                *)
LEMMA SumSubset ==
    ASSUME NEW f, NEW S, IsFiniteSet(S), \A x \in S : f[x] \in Nat, NEW T \in SUBSET S
    PROVE  SumFunctionOnSet(f, T) <= SumFunctionOnSet(f, S)
<1> DEFINE Sum(s) == SumFunctionOnSet(f, s)
           P == {s \in SUBSET S : \A u \in SUBSET s : Sum(u) <= Sum(s)}
<1>0. \A s \in SUBSET S : Sum(s) \in Nat /\ IsFiniteSet(s)
  BY SumType, FS_Subset
<1>1. {} \in P
  BY SumEmpty
<1>2. ASSUME NEW s \in SUBSET S, s # {}, \A x \in s : s \ {x} \in P, NEW u \in SUBSET s
      PROVE  Sum(u) <= Sum(s)
  <2>1. CASE u = s
    BY <1>0, <2>1
  <2>2. CASE u # s
    <3>1. PICK x \in s : u \in SUBSET (s \ {x})
      BY <2>2
    <3>2. Sum(u) <= Sum(s \ {x})
      BY <1>2, <3>1
    <3>3. Sum(s) = f[x] + Sum(s \ {x}) /\ f[x] \in Nat
      BY <1>0, <3>1, SumRemove
    <3>4. Sum(u) \in Nat /\ Sum(s \ {x}) \in Nat
      BY <1>0, <3>1
    <3> QED
      BY <3>2, <3>3, <3>4
  <2> QED
    BY <2>1, <2>2
<1> HIDE DEF P, Sum
<1>3. S \in P
  <2>1. \A s \in SUBSET S : s # {} /\ (\A y \in s : s \ {y} \in P) => s \in P
    BY <1>2 DEF P
  <2> QED
    BY <1>1, <2>1, SubsetInduction
<1> QED
  BY <1>3 DEF P, Sum
=============================================================================
