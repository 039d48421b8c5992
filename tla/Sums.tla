-------------------------------- MODULE Sums --------------------------------
(***************************************************************************)
(* Facts about SumFunctionOnSet, the sum in which the properties of the    *)
(* other modules count shares and answers.  It is a recursion over the     *)
(* subsets of a finite set.  An induction principle that is a statement    *)
(* about sets, and not about a predicate, is enough for it: a set of       *)
(* counterexamples that is not empty has a smallest member.                *)
(***************************************************************************)
EXTENDS Integers, Functions, FiniteSetTheorems, TLAPS

LEMMA LeastNatural ==
    ASSUME NEW S \in SUBSET Nat, S # {}
    PROVE  \E m \in S : \A k \in S : m <= k
<1>1. PICK m \in S : \A k \in S : <<k, m>> \notin OpToRel(<, Nat)
  BY NatLessThanWellFounded, WFMin
<1>2. ASSUME NEW k \in S PROVE m <= k
  <2>1. <<k, m>> \in Nat \X Nat /\ <<k, m>>[1] = k /\ <<k, m>>[2] = m
    OBVIOUS
  <2>2. <<k, m>> \notin {ss \in Nat \X Nat : ss[1] < ss[2]}
    BY <1>1 DEF OpToRel
  <2>3. ~(k < m)
    BY <2>1, <2>2
  <2> QED
    BY <2>3
<1> QED
  BY <1>2

\* What holds of a subset whenever it holds of the smaller ones holds of all.
LEMMA SubsetInduction ==
    ASSUME NEW S, IsFiniteSet(S), NEW Good,
           \A s \in SUBSET S :
              (\A t \in SUBSET s : t # s => t \in Good) => s \in Good
    PROVE  SUBSET S \subseteq Good
<1> DEFINE R   == StrictSubsetOrdering(S)
           Bad == {s \in SUBSET S : s \notin Good}
<1>1. IsWellFoundedOn(R, SUBSET S)
  BY FS_StrictSubsetOrderingWellFounded, FS_FiniteSubsetsOfFinite
<1>2. ASSUME Bad # {} PROVE FALSE
  <2>1. Bad \subseteq SUBSET S
    OBVIOUS
  <2> HIDE DEF R
  <2>2. PICK s \in Bad : \A t \in Bad : <<t, s>> \notin R
    <3> HIDE DEF Bad
    <3> QED
      BY <1>1, <1>2, <2>1, WFMin
  <2>3. ASSUME NEW t \in SUBSET s, t # s PROVE t \in Good
    <3>1. <<t, s>> \in (SUBSET S) \X (SUBSET S) /\ <<t, s>>[1] = t /\ <<t, s>>[2] = s
      BY <2>1, <2>3
    <3>2. <<t, s>> \in R
      BY <2>3, <3>1 DEF R, StrictSubsetOrdering
    <3> QED
      BY <2>1, <2>2, <2>3, <3>2
  <2> QED
    BY <2>1, <2>3
<1> QED
  BY <1>2

-----------------------------------------------------------------------------
(* The recursion is well founded *)

\* the element a sum takes first
FirstOf(s) == CHOOSE x \in s : TRUE

\* what the sum over s is if g gives the sums over smaller sets
SumStep(f, g, s) == IF s = {} THEN 0 ELSE f[FirstOf(s)] + g[s \ {FirstOf(s)}]

\* g gives the sum of f over every subset of S
Accumulates(g, f, S) == g = [s \in SUBSET S |-> SumStep(f, g, s)]

LEMMA SumIsChosen ==
    ASSUME NEW f, NEW S
    PROVE  SumFunctionOnSet(f, S) = (CHOOSE g : Accumulates(g, f, S))[S]
BY DEF SumFunctionOnSet, FoldFunctionOnSet, MapThenFoldSet, Accumulates, SumStep, FirstOf

LEMMA FirstOfShrinks ==
    ASSUME NEW S, IsFiniteSet(S), S # {}
    PROVE  /\ FirstOf(S) \in S
           /\ IsFiniteSet(S \ {FirstOf(S)})
           /\ Cardinality(S) \in Nat
           /\ Cardinality(S \ {FirstOf(S)}) = Cardinality(S) - 1
<1>1. FirstOf(S) \in S
  BY DEF FirstOf
<1> QED
  BY <1>1, FS_RemoveElement, FS_CardinalityType

LEMMA SumExists ==
    ASSUME NEW f, NEW S, IsFiniteSet(S)
    PROVE  \E g : Accumulates(g, f, S)
<1> DEFINE Small(n) == {s \in SUBSET S : Cardinality(s) <= n}
           Upto(g, n) == g = [s \in Small(n) |-> SumStep(f, g, s)]
           Bad == {n \in Nat : ~ \E g : Upto(g, n)}
<1>1. \A s \in SUBSET S : IsFiniteSet(s) /\ Cardinality(s) \in Nat
  BY FS_Subset, FS_CardinalityType
<1>2. \E g : Upto(g, 0)
  <2> DEFINE g == [s \in Small(0) |-> 0]
  <2>1. \A s \in Small(0) : s = {}
    BY <1>1, FS_EmptySet
  <2>2. Upto(g, 0)
    BY <2>1 DEF SumStep
  <2> QED
    BY <2>2
<1>3. ASSUME NEW n \in Nat, n # 0, NEW g, Upto(g, n - 1) PROVE \E h : Upto(h, n)
  <2> DEFINE h == [s \in Small(n) |-> SumStep(f, g, s)]
  <2>1. ASSUME NEW s \in Small(n) PROVE SumStep(f, h, s) = SumStep(f, g, s)
    <3>1. CASE s = {}
      BY <3>1 DEF SumStep
    <3>2. CASE s # {}
      <4> DEFINE t == s \ {FirstOf(s)}
      <4>1. t \in Small(n - 1) /\ t \in Small(n)
        BY <1>1, <1>3, <3>2, FirstOfShrinks
      <4>2. h[t] = SumStep(f, g, t) /\ g[t] = SumStep(f, g, t)
        BY <1>3, <4>1
      <4> HIDE DEF h
      <4> QED
        BY <3>2, <4>2 DEF SumStep
    <3> QED
      BY <3>1, <3>2
  <2>2. Upto(h, n)
    <3> HIDE DEF Small
    <3>1. h = [s \in Small(n) |-> SumStep(f, h, s)]
      BY <2>1
    <3> QED
      BY <3>1
  <2> QED
    BY <2>2
<1>4. Bad = {}
  <2> SUFFICES ASSUME Bad # {} PROVE FALSE
    OBVIOUS
  <2>1. PICK m \in Bad : \A k \in Bad : m <= k
    BY LeastNatural
  <2> HIDE DEF Upto
  <2>2. m # 0
    BY <1>2, <2>1
  <2>3. m - 1 \in Nat /\ m - 1 \notin Bad
    BY <2>1, <2>2
  <2> QED
    BY <1>3, <2>1, <2>2, <2>3
<1>5. Small(Cardinality(S)) = SUBSET S
  BY FS_Subset
<1>6. Cardinality(S) \in Nat
  BY FS_CardinalityType
<1>7. \E g : Upto(g, Cardinality(S))
  <2> HIDE DEF Upto
  <2> QED
    BY <1>4, <1>6
<1>8. PICK g : Upto(g, Cardinality(S))
  BY <1>7
<1>9. g = [s \in SUBSET S |-> SumStep(f, g, s)]
  <2> HIDE DEF Small
  <2> QED
    BY <1>5, <1>8
<1> QED
  BY <1>9 DEF Accumulates

LEMMA SumUnique ==
    ASSUME NEW f, NEW S, IsFiniteSet(S), NEW T \in SUBSET S,
           NEW g, Accumulates(g, f, S), NEW h, Accumulates(h, f, T)
    PROVE  g[T] = h[T]
<1> DEFINE Good == {s \in SUBSET T : g[s] = h[s]}
<1>1. IsFiniteSet(T)
  BY FS_Subset
<1>2. ASSUME NEW s \in SUBSET T, \A t \in SUBSET s : t # s => t \in Good
      PROVE  s \in Good
  <2>1. g[s] = SumStep(f, g, s) /\ h[s] = SumStep(f, h, s)
    BY DEF Accumulates
  <2>2. CASE s = {}
    BY <2>1, <2>2 DEF SumStep
  <2>3. CASE s # {}
    <3>1. FirstOf(s) \in s
      BY <2>3 DEF FirstOf
    <3>2. s \ {FirstOf(s)} \in Good
      BY <1>2, <3>1
    <3> QED
      BY <2>1, <2>3, <3>2 DEF SumStep
  <2> QED
    BY <2>2, <2>3
<1>3. SUBSET T \subseteq Good
  <2> HIDE DEF Good
  <2> QED
    BY <1>1, <1>2, SubsetInduction
<1> QED
  BY <1>3

LEMMA SumAccumulates ==
    ASSUME NEW f, NEW S, IsFiniteSet(S), NEW T \in SUBSET S,
           NEW g, Accumulates(g, f, S)
    PROVE  g[T] = SumFunctionOnSet(f, T)
<1>1. IsFiniteSet(T)
  BY FS_Subset
<1>2. Accumulates(CHOOSE h : Accumulates(h, f, T), f, T)
  BY <1>1, SumExists
<1> QED
  BY <1>2, SumUnique, SumIsChosen

LEMMA SumTakesFirst ==
    ASSUME NEW f, NEW S, IsFiniteSet(S)
    PROVE  SumFunctionOnSet(f, S)
             = IF S = {} THEN 0
               ELSE f[FirstOf(S)] + SumFunctionOnSet(f, S \ {FirstOf(S)})
<1>1. PICK g : Accumulates(g, f, S)
  BY SumExists
<1>2. g[S] = SumStep(f, g, S)
  BY <1>1 DEF Accumulates
<1>3. g[S] = SumFunctionOnSet(f, S)
  BY <1>1, SumAccumulates
<1>4. g[S \ {FirstOf(S)}] = SumFunctionOnSet(f, S \ {FirstOf(S)})
  BY <1>1, SumAccumulates
<1> QED
  BY <1>2, <1>3, <1>4 DEF SumStep

-----------------------------------------------------------------------------
(* Any element may be taken first *)

LEMMA SumEmpty == ASSUME NEW f PROVE SumFunctionOnSet(f, {}) = 0
BY SumTakesFirst, FS_EmptySet

\* Functions that agree on a set have the same sum over it.
LEMMA SumSame ==
    ASSUME NEW S, IsFiniteSet(S), NEW f, NEW g, \A x \in S : f[x] = g[x]
    PROVE  SumFunctionOnSet(f, S) = SumFunctionOnSet(g, S)
<1> DEFINE Good == {s \in SUBSET S : SumFunctionOnSet(f, s) = SumFunctionOnSet(g, s)}
<1>1. ASSUME NEW s \in SUBSET S, \A t \in SUBSET s : t # s => t \in Good
      PROVE  s \in Good
  <2>1. CASE s = {}
    BY <2>1, SumEmpty
  <2>2. CASE s # {}
    <3>1. FirstOf(s) \in s /\ IsFiniteSet(s)
      BY <2>2, FS_Subset DEF FirstOf
    <3>2. s \ {FirstOf(s)} \in Good
      BY <1>1, <3>1
    <3>3. SumFunctionOnSet(f, s) = f[FirstOf(s)] + SumFunctionOnSet(f, s \ {FirstOf(s)})
      BY <2>2, <3>1, SumTakesFirst
    <3>4. SumFunctionOnSet(g, s) = g[FirstOf(s)] + SumFunctionOnSet(g, s \ {FirstOf(s)})
      BY <2>2, <3>1, SumTakesFirst
    <3> QED
      BY <3>1, <3>2, <3>3, <3>4
  <2> QED
    BY <2>1, <2>2
<1> HIDE DEF Good
<1>2. SUBSET S \subseteq Good
  BY <1>1, SubsetInduction
<1> QED
  BY <1>2 DEF Good

\* What every partial sum keeps the sum has.
LEMMA SumIn ==
    ASSUME NEW S, IsFiniteSet(S), NEW f, NEW T, 0 \in T,
           \A x \in S : \A t \in T : f[x] + t \in T
    PROVE  SumFunctionOnSet(f, S) \in T
<1> DEFINE Good == {s \in SUBSET S : SumFunctionOnSet(f, s) \in T}
<1>1. ASSUME NEW s \in SUBSET S, \A t \in SUBSET s : t # s => t \in Good
      PROVE  s \in Good
  <2>1. CASE s = {}
    BY <2>1, SumEmpty
  <2>2. CASE s # {}
    <3>1. FirstOf(s) \in s /\ IsFiniteSet(s)
      BY <2>2, FS_Subset DEF FirstOf
    <3>2. s \ {FirstOf(s)} \in Good
      BY <1>1, <3>1
    <3>3. SumFunctionOnSet(f, s) = f[FirstOf(s)] + SumFunctionOnSet(f, s \ {FirstOf(s)})
      BY <2>2, <3>1, SumTakesFirst
    <3> QED
      BY <3>1, <3>2, <3>3
  <2> QED
    BY <2>1, <2>2
<1> HIDE DEF Good
<1>2. SUBSET S \subseteq Good
  BY <1>1, SubsetInduction
<1> QED
  BY <1>2 DEF Good

LEMMA SumInt ==
    ASSUME NEW S, IsFiniteSet(S), NEW f, \A x \in S : f[x] \in Int
    PROVE  SumFunctionOnSet(f, S) \in Int
BY SumIn

LEMMA SumNat ==
    ASSUME NEW S, IsFiniteSet(S), NEW f, \A x \in S : f[x] \in Nat
    PROVE  SumFunctionOnSet(f, S) \in Nat
<1> DEFINE T == Nat
<1>1. 0 \in T /\ \A x \in S : \A t \in T : f[x] + t \in T
  OBVIOUS
<1> HIDE DEF T
<1>2. SumFunctionOnSet(f, S) \in T
  BY <1>1, SumIn
<1> QED
  BY <1>2 DEF T

LEMMA SumZeros ==
    ASSUME NEW S, IsFiniteSet(S), NEW f, \A x \in S : f[x] = 0
    PROVE  SumFunctionOnSet(f, S) = 0
<1> DEFINE T == {0}
<1>1. 0 \in T /\ \A x \in S : \A t \in T : f[x] + t \in T
  OBVIOUS
<1> HIDE DEF T
<1>2. SumFunctionOnSet(f, S) \in T
  BY <1>1, SumIn
<1> QED
  BY <1>2 DEF T

\* An element may be taken out of a sum, whichever it is.
LEMMA SumRemove ==
    ASSUME NEW S, IsFiniteSet(S), NEW f, \A x \in S : f[x] \in Int, NEW a \in S
    PROVE  SumFunctionOnSet(f, S) = f[a] + SumFunctionOnSet(f, S \ {a})
<1> DEFINE Sum(s) == SumFunctionOnSet(f, s)
           Good == {s \in SUBSET S : \A x \in s : Sum(s) = f[x] + Sum(s \ {x})}
<1>1. ASSUME NEW s \in SUBSET S, \A t \in SUBSET s : t # s => t \in Good,
             NEW x \in s
      PROVE  Sum(s) = f[x] + Sum(s \ {x})
  <2> DEFINE y == FirstOf(s)
  <2>1. y \in s /\ IsFiniteSet(s)
    BY FS_Subset DEF FirstOf
  <2>2. Sum(s) = f[y] + Sum(s \ {y})
    BY <2>1, SumTakesFirst
  <2> HIDE DEF y
  <2>3. CASE x = y
    BY <2>2, <2>3
  <2>4. CASE x # y
    <3> DEFINE rest == s \ {x, y}
    <3>1. s \ {x} \in Good /\ s \ {y} \in Good
      BY <1>1, <2>1
    <3>2. y \in s \ {x} /\ x \in s \ {y} /\ (s \ {x}) \ {y} = rest /\ (s \ {y}) \ {x} = rest
      BY <2>1, <2>4
    <3>3. Sum(s \ {x}) = f[y] + Sum(rest) /\ Sum(s \ {y}) = f[x] + Sum(rest)
      BY <3>1, <3>2
    <3>4. IsFiniteSet(rest) /\ \A z \in rest : f[z] \in Int
      BY <2>1, FS_Subset
    <3>5. Sum(rest) \in Int /\ f[x] \in Int /\ f[y] \in Int
      BY <2>1, <3>4, SumInt
    <3> HIDE DEF Sum, rest
    <3> QED
      BY <2>2, <3>3, <3>5
  <2> QED
    BY <2>3, <2>4
<1>2. \A s \in SUBSET S : (\A t \in SUBSET s : t # s => t \in Good) => s \in Good
  BY <1>1
<1>3. SUBSET S \subseteq Good
  <2> HIDE DEF Good
  <2> QED
    BY <1>2, SubsetInduction
<1> QED
  BY <1>3

LEMMA SumAdd ==
    ASSUME NEW S, IsFiniteSet(S), NEW f, \A x \in S : f[x] \in Int,
           NEW a, a \notin S, f[a] \in Int
    PROVE  SumFunctionOnSet(f, S \cup {a}) = f[a] + SumFunctionOnSet(f, S)
<1> DEFINE T == S \cup {a}
<1>1. IsFiniteSet(T) /\ a \in T /\ T \ {a} = S /\ \A x \in T : f[x] \in Int
  BY FS_AddElement
<1> HIDE DEF T
<1>2. SumFunctionOnSet(f, T) = f[a] + SumFunctionOnSet(f, T \ {a})
  BY <1>1, SumRemove
<1> QED
  BY <1>1, <1>2 DEF T

\* What changes in one place moves the sum by as much.
LEMMA SumChange ==
    ASSUME NEW S, IsFiniteSet(S), NEW f, NEW g, NEW a \in S,
           \A x \in S : f[x] \in Int, g[a] \in Int,
           \A x \in S : x # a => g[x] = f[x]
    PROVE  SumFunctionOnSet(g, S) = SumFunctionOnSet(f, S) + g[a] - f[a]
<1> DEFINE rest == S \ {a}
<1>1. IsFiniteSet(rest) /\ \A x \in S : g[x] \in Int
  BY FS_Subset
<1>2. SumFunctionOnSet(f, rest) = SumFunctionOnSet(g, rest)
  BY <1>1, SumSame
<1>3. SumFunctionOnSet(f, rest) \in Int
  BY <1>1, SumInt
<1>4. /\ SumFunctionOnSet(f, S) = f[a] + SumFunctionOnSet(f, rest)
      /\ SumFunctionOnSet(g, S) = g[a] + SumFunctionOnSet(g, rest)
  BY <1>1, SumRemove
<1> HIDE DEF rest
<1> QED
  BY <1>2, <1>3, <1>4

\* One more place at the end of a sequence.
LEMMA SumAtEnd ==
    ASSUME NEW n \in Nat, NEW f, NEW g, DOMAIN f = 1 .. n, DOMAIN g = 1 .. n + 1,
           \A k \in 1 .. n : g[k] = f[k] /\ f[k] \in Int, g[n + 1] \in Int
    PROVE  SumFunction(g) = SumFunction(f) + g[n + 1]
<1>1. IsFiniteSet(1 .. n) /\ n + 1 \notin 1 .. n /\ 1 .. n + 1 = (1 .. n) \cup {n + 1}
  <2>1. IsFiniteSet(1 .. n)
    BY FS_Interval
  <2>2. n + 1 \notin 1 .. n /\ 1 .. n + 1 = (1 .. n) \cup {n + 1}
    OBVIOUS
  <2> QED
    BY <2>1, <2>2
<1>2. SumFunctionOnSet(g, (1 .. n) \cup {n + 1}) = g[n + 1] + SumFunctionOnSet(g, 1 .. n)
  BY <1>1, SumAdd
<1>3. SumFunctionOnSet(g, 1 .. n) = SumFunctionOnSet(f, 1 .. n)
  BY <1>1, SumSame
<1>4. SumFunctionOnSet(f, 1 .. n) \in Int
  BY <1>1, SumInt
<1>5. /\ SumFunction(f) = SumFunctionOnSet(f, 1 .. n)
      /\ SumFunction(g) = SumFunctionOnSet(g, (1 .. n) \cup {n + 1})
  BY <1>1 DEF SumFunction
<1> QED
  BY <1>2, <1>3, <1>4, <1>5
-----------------------------------------------------------------------------
(* Parts of a set, unions and sequences *)

\* Summing ones counts.
LEMMA SumOnes ==
    ASSUME NEW S, IsFiniteSet(S), NEW f, \A x \in S : f[x] = 1
    PROVE  SumFunctionOnSet(f, S) = Cardinality(S)
<1> DEFINE Good == {s \in SUBSET S : SumFunctionOnSet(f, s) = Cardinality(s)}
<1>1. ASSUME NEW s \in SUBSET S, \A t \in SUBSET s : t # s => t \in Good
      PROVE  s \in Good
  <2>1. CASE s = {}
    BY <2>1, SumEmpty, FS_EmptySet
  <2>2. CASE s # {}
    <3>1. IsFiniteSet(s)
      BY FS_Subset
    <3>2. /\ FirstOf(s) \in s /\ s \ {FirstOf(s)} \in SUBSET s /\ s \ {FirstOf(s)} # s
          /\ Cardinality(s) \in Nat
          /\ Cardinality(s \ {FirstOf(s)}) = Cardinality(s) - 1
      BY <2>2, <3>1, FirstOfShrinks
    <3>3. SumFunctionOnSet(f, s) = f[FirstOf(s)] + SumFunctionOnSet(f, s \ {FirstOf(s)})
      BY <2>2, <3>1, SumTakesFirst
    <3>4. SumFunctionOnSet(f, s \ {FirstOf(s)}) = Cardinality(s \ {FirstOf(s)})
      BY <1>1, <3>2
    <3> QED
      BY <3>2, <3>3, <3>4
  <2> QED
    BY <2>1, <2>2
<1>2. SUBSET S \subseteq Good
  <2> HIDE DEF Good
  <2> QED
    BY <1>1, SubsetInduction
<1> QED
  BY <1>2

\* The sum over two sets that share nothing.
LEMMA SumSplit ==
    ASSUME NEW S, IsFiniteSet(S), NEW T, IsFiniteSet(T), S \cap T = {},
           NEW f, \A x \in S \cup T : f[x] \in Int
    PROVE  SumFunctionOnSet(f, S \cup T) = SumFunctionOnSet(f, S) + SumFunctionOnSet(f, T)
<1> DEFINE Good == {s \in SUBSET T : SumFunctionOnSet(f, S \cup s)
                                      = SumFunctionOnSet(f, S) + SumFunctionOnSet(f, s)}
<1>0. SumFunctionOnSet(f, S) \in Int
  BY SumInt
<1>1. ASSUME NEW s \in SUBSET T, \A t \in SUBSET s : t # s => t \in Good
      PROVE  s \in Good
  <2>1. CASE s = {}
    <3>1. S \cup s = S
      BY <2>1
    <3> QED
      BY <1>0, <2>1, <3>1, SumEmpty
  <2>2. CASE s # {}
    <3>1. IsFiniteSet(s)
      BY FS_Subset
    <3> DEFINE a == FirstOf(s)
               t == s \ {a}
    <3>2. a \in s /\ t \in SUBSET s /\ t # s /\ IsFiniteSet(t) /\ a \notin S \cup t
      BY <2>2, <3>1, FirstOfShrinks
    <3>3. IsFiniteSet(S \cup t) /\ s = t \cup {a} /\ S \cup s = (S \cup t) \cup {a}
      BY <3>2, FS_Union
    <3> HIDE DEF a, t
    <3>4. SumFunctionOnSet(f, (S \cup t) \cup {a}) = f[a] + SumFunctionOnSet(f, S \cup t)
      BY <3>2, <3>3, SumAdd
    <3>5. SumFunctionOnSet(f, t \cup {a}) = f[a] + SumFunctionOnSet(f, t)
      BY <3>2, <3>3, SumAdd
    <3>6. SumFunctionOnSet(f, S \cup t) = SumFunctionOnSet(f, S) + SumFunctionOnSet(f, t)
      BY <1>1, <3>2
    <3>7. SumFunctionOnSet(f, t) \in Int /\ f[a] \in Int
      BY <3>2, SumInt
    <3>8. SumFunctionOnSet(f, S \cup s) = SumFunctionOnSet(f, S) + SumFunctionOnSet(f, s)
      <4>1. SumFunctionOnSet(f, S \cup s) = f[a] + SumFunctionOnSet(f, S \cup t)
        BY <3>3, <3>4
      <4>2. SumFunctionOnSet(f, s) = f[a] + SumFunctionOnSet(f, t)
        BY <3>3, <3>5
      <4> QED
        BY <1>0, <3>6, <3>7, <4>1, <4>2
    <3> QED
      BY <3>8
  <2> QED
    BY <2>1, <2>2
<1>2. SUBSET T \subseteq Good
  <2> HIDE DEF Good
  <2> QED
    BY <1>1, SubsetInduction
<1> QED
  BY <1>2

\* Part of a set of natural numbers adds up to no more than all of it.
LEMMA SumOfPart ==
    ASSUME NEW S, IsFiniteSet(S), NEW T \in SUBSET S, NEW f, \A x \in S : f[x] \in Nat
    PROVE  SumFunctionOnSet(f, T) <= SumFunctionOnSet(f, S)
<1> DEFINE R == S \ T
<1>1. IsFiniteSet(T) /\ IsFiniteSet(R) /\ S = T \cup R /\ T \cap R = {}
  BY FS_Subset
<1> HIDE DEF R
<1>2. SumFunctionOnSet(f, S) = SumFunctionOnSet(f, T) + SumFunctionOnSet(f, R)
  BY <1>1, SumSplit
<1>3. SumFunctionOnSet(f, T) \in Nat /\ SumFunctionOnSet(f, R) \in Nat
  BY <1>1, SumNat
<1> QED
  BY <1>2, <1>3

\* A sum over part of a set, as a sum of zeros elsewhere.
LEMMA SumWhere ==
    ASSUME NEW S, IsFiniteSet(S), NEW T \in SUBSET S, NEW f, NEW g,
           \A x \in T : f[x] \in Int /\ g[x] = f[x],
           \A x \in S \ T : g[x] = 0
    PROVE  SumFunctionOnSet(f, T) = SumFunctionOnSet(g, S)
<1> DEFINE R == S \ T
<1>1. /\ IsFiniteSet(T) /\ IsFiniteSet(R) /\ T \cap R = {} /\ T \cup R = S
      /\ (\A x \in R : g[x] = 0) /\ \A x \in T \cup R : g[x] \in Int
  BY FS_Subset
<1> HIDE DEF R
<1>2. SumFunctionOnSet(g, T \cup R) = SumFunctionOnSet(g, T) + SumFunctionOnSet(g, R)
  BY <1>1, SumSplit
<1>3. SumFunctionOnSet(g, T) = SumFunctionOnSet(f, T)
  BY <1>1, SumSame
<1>4. SumFunctionOnSet(g, R) = 0
  BY <1>1, SumZeros
<1>5. SumFunctionOnSet(g, T) \in Int
  BY <1>1, SumInt
<1>6. SumFunctionOnSet(g, S) = SumFunctionOnSet(g, T) + SumFunctionOnSet(g, R)
  BY <1>1, <1>2
<1>7. SumFunctionOnSet(g, S) = SumFunctionOnSet(g, T)
  BY <1>4, <1>5, <1>6
<1> QED
  BY <1>3, <1>7

\* The sum over the places of a sequence that has been put behind another one.
Shifted(n, S) == {n + i : i \in S}

LEMMA SumShift ==
    ASSUME NEW n \in Nat, NEW S \in SUBSET Nat, IsFiniteSet(S), NEW f, NEW g,
           \A i \in S : f[n + i] = g[i] /\ g[i] \in Int
    PROVE  /\ IsFiniteSet(Shifted(n, S))
           /\ SumFunctionOnSet(f, Shifted(n, S)) = SumFunctionOnSet(g, S)
<1> DEFINE Good == {s \in SUBSET S :
                      /\ IsFiniteSet(Shifted(n, s))
                      /\ SumFunctionOnSet(f, Shifted(n, s)) = SumFunctionOnSet(g, s)}
<1>1. ASSUME NEW s \in SUBSET S, \A t \in SUBSET s : t # s => t \in Good
      PROVE  s \in Good
  <2>1. CASE s = {}
    <3>1. Shifted(n, s) = {}
      BY <2>1 DEF Shifted
    <3> QED
      BY <2>1, <3>1, SumEmpty, FS_EmptySet
  <2>2. CASE s # {}
    <3>1. IsFiniteSet(s)
      BY FS_Subset
    <3> DEFINE a == FirstOf(s)
               t == s \ {a}
    <3>2. a \in s /\ t \in SUBSET s /\ t # s /\ IsFiniteSet(t) /\ a \notin t /\ s = t \cup {a}
      BY <2>2, <3>1, FirstOfShrinks
    <3> HIDE DEF a, t
    <3>3. Shifted(n, s) = Shifted(n, t) \cup {n + a} /\ n + a \notin Shifted(n, t)
      BY <3>2 DEF Shifted
    <3>4. IsFiniteSet(Shifted(n, t))
          /\ SumFunctionOnSet(f, Shifted(n, t)) = SumFunctionOnSet(g, t)
      BY <1>1, <3>2
    <3>5. \A x \in Shifted(n, t) : f[x] \in Int
      BY <3>2 DEF Shifted
    <3>6. f[n + a] = g[a] /\ g[a] \in Int
      BY <3>2
    <3>7. SumFunctionOnSet(f, Shifted(n, t) \cup {n + a})
            = f[n + a] + SumFunctionOnSet(f, Shifted(n, t))
      BY <3>3, <3>4, <3>5, <3>6, SumAdd
    <3>8. SumFunctionOnSet(g, t \cup {a}) = g[a] + SumFunctionOnSet(g, t)
      BY <3>2, SumAdd
    <3>9. IsFiniteSet(Shifted(n, t) \cup {n + a})
      BY <3>4, FS_AddElement
    <3> QED
      BY <3>2, <3>3, <3>4, <3>6, <3>7, <3>8, <3>9
  <2> QED
    BY <2>1, <2>2
<1>2. SUBSET S \subseteq Good
  <2> HIDE DEF Good
  <2> QED
    BY <1>1, SubsetInduction
<1> QED
  BY <1>2

\* The places after n up to n + m are 1 .. m moved up by n.
LEMMA IntervalShifted ==
    ASSUME NEW n \in Nat, NEW m \in Nat
    PROVE  n + 1 .. n + m = Shifted(n, 1 .. m)
<1>1. ASSUME NEW x \in n + 1 .. n + m PROVE x \in Shifted(n, 1 .. m)
  <2>1. x - n \in 1 .. m /\ x = n + (x - n)
    OBVIOUS
  <2> QED
    BY <2>1 DEF Shifted
<1>2. ASSUME NEW x \in 1 .. m PROVE n + x \in n + 1 .. n + m
  OBVIOUS
<1> QED
  BY <1>1, <1>2 DEF Shifted

\* h is f on A and then g on B: what a concatenation adds up to.
LEMMA SumConcat ==
    ASSUME NEW n \in Nat, NEW A \in SUBSET (1 .. n), NEW B \in SUBSET (Nat \ {0}), IsFiniteSet(B),
           NEW f, NEW g, NEW h,
           \A i \in A : h[i] = f[i] /\ f[i] \in Int,
           \A i \in B : h[n + i] = g[i] /\ g[i] \in Int
    PROVE  SumFunctionOnSet(h, A \cup Shifted(n, B))
             = SumFunctionOnSet(f, A) + SumFunctionOnSet(g, B)
<1>1. IsFiniteSet(A)
  <2>1. IsFiniteSet(1 .. n)
    BY FS_Interval
  <2> QED
    BY <2>1, FS_Subset
<1>2. SumFunctionOnSet(h, A) = SumFunctionOnSet(f, A)
  BY <1>1, SumSame
<1>3. /\ IsFiniteSet(Shifted(n, B))
      /\ SumFunctionOnSet(h, Shifted(n, B)) = SumFunctionOnSet(g, B)
  BY SumShift
<1>4. A \cap Shifted(n, B) = {}
  BY DEF Shifted
<1>5. \A x \in A \cup Shifted(n, B) : h[x] \in Int
  BY DEF Shifted
<1>6. SumFunctionOnSet(h, A \cup Shifted(n, B))
        = SumFunctionOnSet(h, A) + SumFunctionOnSet(h, Shifted(n, B))
  BY <1>1, <1>3, <1>4, <1>5, SumSplit
<1> QED
  BY <1>2, <1>3, <1>6
=============================================================================
