-------------------------------- MODULE Sums --------------------------------
(***************************************************************************)
(* What the components' proofs need of sums over finite sets: the folds of *)
(* the community modules are recursive functions, element by chosen        *)
(* element, whose existence and values are proved here by minimal          *)
(* counterexample.                                                         *)
(***************************************************************************)
EXTENDS Integers, FiniteSetsExt, FiniteSetTheorems, WellFoundedInduction, TLAPS

\* One step of a sum over a finite set, element by chosen element.
Chosen(T) == CHOOSE x \in T : TRUE
SumStep(f, g, T) == IF T = {} THEN 0 ELSE f[Chosen(T)] + g[T \ {Chosen(T)}]

\* g sums f over each subset of S.
Sums(f, S, g) == g = [T \in SUBSET S |-> SumStep(f, g, T)]

\* The subsets of S with at most n elements.
UpTo(S, n) == {T \in SUBSET S : Cardinality(T) <= n}

\* g sums f over each subset of S with at most n elements.
SumsUpTo(f, S, n, g) == g = [T \in UpTo(S, n) |-> SumStep(f, g, T)]

\* A smaller set has a smaller cardinality.
LEMMA UpToGrows ==
  ASSUME NEW S, IsFiniteSet(S), NEW k \in Nat
  PROVE  /\ UpTo(S, k) \subseteq UpTo(S, k + 1)
         /\ \A T \in UpTo(S, k + 1) : T # {} => T \ {Chosen(T)} \in UpTo(S, k)
<1>1. \A T \in SUBSET S : IsFiniteSet(T) /\ Cardinality(T) \in Nat
  BY FS_Subset, FS_CardinalityType
<1>2. \A T \in SUBSET S : Cardinality(T) <= k => Cardinality(T) <= k + 1
  BY <1>1
<1>3. ASSUME NEW T \in UpTo(S, k + 1), T # {} PROVE T \ {Chosen(T)} \in UpTo(S, k)
  <2>1. T \in SUBSET S /\ IsFiniteSet(T) /\ Cardinality(T) \in Nat /\ Cardinality(T) <= k + 1
    BY <1>1 DEF UpTo
  <2>2. Chosen(T) \in T
    BY <1>3 DEF Chosen
  <2>3. Cardinality(T \ {Chosen(T)}) = Cardinality(T) - 1
    BY <2>1, <2>2, FS_RemoveElement
  <2> QED
    BY <2>1, <2>3 DEF UpTo
<1> QED
  BY <1>2, <1>3 DEF UpTo

\* There is a sum over the sets of each size.
LEMMA SumUpTo ==
  ASSUME NEW S, IsFiniteSet(S), NEW f, NEW n \in Nat
  PROVE  \E g : SumsUpTo(f, S, n, g)
<1> DEFINE
  Good(k) == \E g : SumsUpTo(f, S, k, g)
  Bad == {k \in Nat : ~Good(k)}
<1>1. Good(0)
  <2> DEFINE g == [T \in UpTo(S, 0) |-> 0]
  <2>1. \A T \in UpTo(S, 0) : T = {}
    <3> TAKE T \in UpTo(S, 0)
    <3>1. IsFiniteSet(T) /\ Cardinality(T) \in Nat /\ Cardinality(T) <= 0
      BY FS_Subset, FS_CardinalityType DEF UpTo
    <3> QED
      BY <3>1, FS_EmptySet
  <2>2. g = [T \in UpTo(S, 0) |-> SumStep(f, g, T)]
    BY <2>1 DEF SumStep
  <2> QED
    BY <2>2 DEF SumsUpTo
<1>2. ASSUME NEW k \in Nat, Good(k) PROVE Good(k + 1)
  <2>1. PICK g : g = [T \in UpTo(S, k) |-> SumStep(f, g, T)]
    BY <1>2 DEF SumsUpTo
  <2> DEFINE h == [T \in UpTo(S, k + 1) |-> SumStep(f, g, T)]
  <2>2. \A T \in UpTo(S, k) : h[T] = g[T]
    <3>1. \A T \in UpTo(S, k) : g[T] = SumStep(f, g, T)
      BY <2>1, Zenon
    <3> QED
      BY <3>1, UpToGrows
  <2>3. ASSUME NEW T \in UpTo(S, k + 1) PROVE SumStep(f, g, T) = SumStep(f, h, T)
    <3>1. CASE T = {}
      BY <3>1 DEF SumStep
    <3>2. CASE T # {}
      <4>1. h[T \ {Chosen(T)}] = g[T \ {Chosen(T)}]
        BY <2>2, <3>2, UpToGrows
      <4> HIDE DEF h
      <4> QED
        BY <4>1 DEF SumStep
    <3> QED
      BY <3>1, <3>2
  <2>4. h = [T \in UpTo(S, k + 1) |-> SumStep(f, h, T)]
    BY <2>3, Zenon
  <2> QED
    BY <2>4 DEF SumsUpTo
<1>3. CASE Bad = {}
  BY <1>3
<1>4. CASE Bad # {}
  <2>1. PICK k \in Bad : \A j \in Bad : ~ (<<j, k>> \in OpToRel(<, Nat))
    BY <1>4, NatLessThanWellFounded, WFMin
  <2>2. k \in Nat /\ k # 0 /\ k - 1 \in Nat
    BY <1>1
  <2> DEFINE j == k - 1
  <2>3. j \notin Bad
    <3>1. \A i \in Bad : ~ (i < k)
      BY <2>1, <2>2 DEF OpToRel
    <3> QED
      BY <2>2, <3>1
  <2>4. Good(k - 1)
    BY <2>2, <2>3
  <2>5. Good((k - 1) + 1)
    BY <1>2, <2>2, <2>4
  <2>6. (k - 1) + 1 = k
    BY <2>2
  <2> HIDE DEF Good
  <2> QED
    BY <2>5, <2>6
<1> QED
  BY <1>3, <1>4

\* There is one over all subsets of a finite set.
LEMMA SumExists ==
  ASSUME NEW S, IsFiniteSet(S), NEW f
  PROVE  \E g : Sums(f, S, g)
<1>1. Cardinality(S) \in Nat
  BY FS_CardinalityType
<1>2. UpTo(S, Cardinality(S)) = SUBSET S
  BY FS_Subset DEF UpTo
<1>3. \E g : SumsUpTo(f, S, Cardinality(S), g)
  BY <1>1, SumUpTo
<1> QED
  BY <1>2, <1>3 DEF Sums, SumsUpTo

\* A sum of naturals is one, and no smaller than any of its terms; when every
\* term is e it is a multiple of e.
LEMMA SumCovers ==
  ASSUME NEW S, IsFiniteSet(S), NEW f, \A x \in S : f[x] \in Nat, NEW g, Sums(f, S, g)
  PROVE  /\ g[S] \in Nat
         /\ \A x \in S : f[x] <= g[S]
         /\ \A e \in Nat : (\A x \in S : f[x] = e) => g[S] = e * Cardinality(S)
<1> DEFINE
  Good(T) ==
    /\ g[T] \in Nat
    /\ \A x \in T : f[x] <= g[T]
    /\ \A e \in Nat : (\A x \in S : f[x] = e) => g[T] = e * Cardinality(T)
  Bad == {T \in SUBSET S : ~Good(T)}
<1>0. \A T \in SUBSET S : g[T] = SumStep(f, g, T)
  BY Zenon DEF Sums
<1>1. CASE Bad = {}
  BY <1>1
<1>2. CASE Bad # {}
  <2>1. Bad \subseteq FiniteSubsetsOf(S)
    BY FS_Subset DEF FiniteSubsetsOf
  <2>2. PICK T \in Bad : \A U \in Bad : ~ (<<U, T>> \in StrictSubsetOrdering(S))
    BY <1>2, <2>1, FS_StrictSubsetOrderingWellFounded, WFMin
  <2>3. T \in SUBSET S /\ IsFiniteSet(T)
    BY FS_Subset
  <2>4. Good({})
    <3>1. g[{}] = 0
      BY <1>0 DEF SumStep
    <3> QED
      BY <3>1, FS_EmptySet
  <2>5. T # {}
    BY <2>2, <2>4
  <2> DEFINE x == Chosen(T)
             U == T \ {x}
  <2>6. x \in T
    BY <2>5 DEF Chosen
  <2>7. U \in SUBSET S /\ <<U, T>> \in StrictSubsetOrdering(S)
    BY <2>3, <2>6 DEF StrictSubsetOrdering
  <2>8. Good(U)
    BY <2>2, <2>7
  <2>9. g[T] = f[x] + g[U]
    BY <1>0, <2>3, <2>5, Zenon DEF SumStep
  <2>10. Cardinality(U) \in Nat /\ Cardinality(T) = Cardinality(U) + 1
    <3>1. Cardinality(T) \in Nat /\ IsFiniteSet(U)
      BY <2>3, FS_RemoveElement, FS_CardinalityType
    <3>2. Cardinality(U) \in Nat
      BY <3>1, FS_CardinalityType
    <3>3. Cardinality(U) = Cardinality(T) - 1
      BY <2>3, <2>6, FS_RemoveElement
    <3> QED
      BY <3>1, <3>2, <3>3
  <2>11. f[x] \in Nat /\ x \in S
    BY <2>3, <2>6
  <2>12. \A y \in T : f[y] \in Nat /\ (y = x \/ y \in U)
    BY <2>3
  <2> HIDE DEF x, U
  <2>13. g[T] \in Nat /\ \A y \in T : f[y] <= g[T]
    BY <2>8, <2>9, <2>11, <2>12
  <2>14. ASSUME NEW e \in Nat, \A y \in S : f[y] = e PROVE g[T] = e * Cardinality(T)
    <3>1. g[T] = e + e * Cardinality(U)
      BY <2>8, <2>9, <2>11, <2>14
    <3>2. e * (Cardinality(U) + 1) = e + e * Cardinality(U)
      BY <2>10
    <3> QED
      BY <3>1, <3>2, <2>10
  <2>15. Good(T)
    BY <2>13, <2>14
  <2> QED
    BY <2>2, <2>15
<1> QED
  BY <1>1, <1>2

\* Sums that agree on the terms of a set agree on the set.
LEMMA SumsAgree ==
  ASSUME NEW S, IsFiniteSet(S), NEW R, NEW f, NEW h, NEW g, NEW k,
         Sums(f, S, g), Sums(h, R, k),
         NEW V \in SUBSET S, V \in SUBSET R, \A x \in V : f[x] = h[x]
  PROVE  g[V] = k[V]
<1> DEFINE Bad == {T \in SUBSET V : g[T] # k[T]}
<1>0. /\ \A T \in SUBSET S : g[T] = SumStep(f, g, T)
      /\ \A T \in SUBSET R : k[T] = SumStep(h, k, T)
  BY Zenon DEF Sums
<1>1. CASE Bad = {}
  BY <1>1
<1>2. CASE Bad # {}
  <2>1. Bad \subseteq FiniteSubsetsOf(S)
    BY FS_Subset DEF FiniteSubsetsOf
  <2>2. PICK T \in Bad : \A U \in Bad : ~ (<<U, T>> \in StrictSubsetOrdering(S))
    BY <1>2, <2>1, FS_StrictSubsetOrderingWellFounded, WFMin
  <2>3. T \in SUBSET V /\ T \in SUBSET S /\ T \in SUBSET R
    OBVIOUS
  <2>4. T # {}
    BY <1>0, <2>2, <2>3 DEF SumStep
  <2> DEFINE x == Chosen(T)
             U == T \ {x}
  <2>5. x \in T
    BY <2>4 DEF Chosen
  <2>6. U \in SUBSET V /\ <<U, T>> \in StrictSubsetOrdering(S)
    BY <2>3, <2>5 DEF StrictSubsetOrdering
  <2>7. g[U] = k[U]
    BY <2>2, <2>6
  <2>8. g[T] = f[x] + g[U] /\ k[T] = h[x] + k[U]
    BY <1>0, <2>3, <2>4, Zenon DEF SumStep
  <2>9. f[x] = h[x]
    BY <2>3, <2>5
  <2> HIDE DEF x, U
  <2> QED
    BY <2>2, <2>7, <2>8, <2>9
<1> QED
  BY <1>1, <1>2

\* Any element may be taken out first.
LEMMA SumsRemove ==
  ASSUME NEW S, IsFiniteSet(S), NEW f, \A x \in S : f[x] \in Nat, NEW g, Sums(f, S, g)
  PROVE  \A T \in SUBSET S : g[T] \in Nat /\ \A x \in T : g[T] = f[x] + g[T \ {x}]
<1> DEFINE
  Good(T) == g[T] \in Nat /\ \A x \in T : g[T] = f[x] + g[T \ {x}]
  Bad == {T \in SUBSET S : ~Good(T)}
<1>0. \A T \in SUBSET S : g[T] = SumStep(f, g, T)
  BY Zenon DEF Sums
<1>1. CASE Bad = {}
  BY <1>1
<1>2. CASE Bad # {}
  <2>1. Bad \subseteq FiniteSubsetsOf(S)
    BY FS_Subset DEF FiniteSubsetsOf
  <2>2. PICK T \in Bad : \A U \in Bad : ~ (<<U, T>> \in StrictSubsetOrdering(S))
    BY <1>2, <2>1, FS_StrictSubsetOrderingWellFounded, WFMin
  <2>3. T \in SUBSET S
    OBVIOUS
  <2>4. T # {}
    <3>1. g[{}] = 0
      BY <1>0 DEF SumStep
    <3>2. Good({})
      BY <3>1
    <3>3. ~Good(T)
      BY <2>2
    <3> HIDE DEF Good
    <3> QED
      BY <3>2, <3>3
  <2> DEFINE c == Chosen(T)
             U == T \ {c}
  <2>5. c \in T /\ c \in S
    BY <2>3, <2>4 DEF Chosen
  <2>6. \A x \in T : /\ T \ {x} \in SUBSET S
                     /\ <<T \ {x}, T>> \in StrictSubsetOrdering(S)
    BY <2>3 DEF StrictSubsetOrdering
  <2>7. \A x \in T : Good(T \ {x})
    BY <2>2, <2>6
  <2>8. g[T] = f[c] + g[U]
    BY <1>0, <2>3, <2>4, Zenon DEF SumStep
  <2>9. f[c] \in Nat /\ g[U] \in Nat
    BY <2>5, <2>7
  <2>10. ASSUME NEW x \in T PROVE g[T] = f[x] + g[T \ {x}]
    <3>1. CASE x = c
      BY <2>8, <3>1
    <3>2. CASE x # c
      <4>1. x \in U /\ c \in T \ {x}
        BY <2>5, <3>2
      <4>2. g[U] = f[x] + g[U \ {x}]
        BY <2>5, <2>7, <4>1
      <4>3. g[T \ {x}] = f[c] + g[(T \ {x}) \ {c}]
        BY <2>7, <4>1
      <4>4. (T \ {x}) \ {c} = U \ {x}
        OBVIOUS
      <4>5. U \ {x} \in SUBSET S /\ <<U \ {x}, T>> \in StrictSubsetOrdering(S)
        BY <2>3, <2>5 DEF StrictSubsetOrdering
      <4>6. g[U \ {x}] \in Nat
        BY <2>2, <4>5
      <4>7. f[x] \in Nat
        BY <2>3
      <4>8. g[T \ {x}] = f[c] + g[U \ {x}]
        BY <4>3, <4>4
      <4>9. f[c] \in Nat
        BY <2>5
      <4> DEFINE gT == g[T]
                 gU == g[U]
                 gX == g[T \ {x}]
                 gUX == g[U \ {x}]
                 fc == f[c]
                 fx == f[x]
      <4> HIDE DEF gT, gU, gX, gUX, fc, fx
      <4>10. gT = fx + gX
        <5>1. gT = fc + gU /\ gU = fx + gUX /\ gX = fc + gUX
          BY <2>8, <4>2, <4>8 DEF gT, gU, gX, gUX, fc, fx
        <5>2. fc \in Nat /\ fx \in Nat /\ gUX \in Nat
          BY <4>6, <4>7, <4>9 DEF gUX, fc, fx
        <5> QED
          BY <5>1, <5>2
      <4> QED
        BY <4>10 DEF gT, gX, fx
    <3> QED
      BY <3>1, <3>2
  <2> HIDE DEF c, U
  <2>11. g[T] \in Nat
    BY <2>8, <2>9
  <2>12. Good(T)
    BY <2>10, <2>11
  <2> QED
    BY <2>2, <2>12
<1> QED
  BY <1>1, <1>2

\* The sum of a function over a set.
SumOf(f, S) == MapThenSumSet(LAMBDA x : f[x], S)

\* It is a sum.
LEMMA SumOfSums ==
  ASSUME NEW S, IsFiniteSet(S), NEW f
  PROVE  \E g : Sums(f, S, g) /\ SumOf(f, S) = g[S]
<1> DEFINE
  Rec(g) == g = [T \in SUBSET S |-> IF T = {} THEN 0
                  ELSE f[CHOOSE x \in T : TRUE] + g[T \ {CHOOSE x \in T : TRUE}]]
<1>1. ASSUME NEW g PROVE Rec(g) <=> Sums(f, S, g)
  BY Zenon DEF Sums, SumStep, Chosen
<1>2. SumOf(f, S) = (CHOOSE g : Rec(g))[S]
  BY Zenon DEF SumOf, MapThenSumSet, MapThenFoldSet
<1> HIDE DEF Rec
<1>3. \E g : Rec(g)
  BY <1>1, SumExists
<1>4. Rec(CHOOSE g : Rec(g))
  BY <1>3
<1> QED
  BY <1>1, <1>2, <1>4

\* What a sum of naturals is: one of them, no smaller than any of its terms, a
\* multiple of terms that are equal, and zero over no terms.
LEMMA SumOfFacts ==
  ASSUME NEW S, IsFiniteSet(S), NEW f, \A x \in S : f[x] \in Nat
  PROVE  /\ SumOf(f, S) \in Nat
         /\ \A x \in S : f[x] <= SumOf(f, S)
         /\ \A e \in Nat : (\A x \in S : f[x] = e) => SumOf(f, S) = e * Cardinality(S)
         /\ S = {} => SumOf(f, S) = 0
<1>1. PICK g : Sums(f, S, g) /\ SumOf(f, S) = g[S]
  BY SumOfSums
<1>2. S = {} => g[S] = 0
  BY <1>1 DEF Sums, SumStep
<1> QED
  BY <1>1, <1>2, SumCovers

\* A term may be taken out of a sum.
LEMMA SumOfRemove ==
  ASSUME NEW S, IsFiniteSet(S), NEW f, \A x \in S : f[x] \in Nat, NEW x \in S
  PROVE  SumOf(f, S) = f[x] + SumOf(f, S \ {x})
<1>1. IsFiniteSet(S \ {x})
  BY FS_RemoveElement
<1>2. PICK g : Sums(f, S, g) /\ SumOf(f, S) = g[S]
  BY SumOfSums
<1>3. PICK k : Sums(f, S \ {x}, k) /\ SumOf(f, S \ {x}) = k[S \ {x}]
  BY <1>1, SumOfSums
<1>4. g[S] = f[x] + g[S \ {x}]
  BY <1>2, SumsRemove
<1>5. g[S \ {x}] = k[S \ {x}]
  BY <1>2, <1>3, SumsAgree
<1> QED
  BY <1>2, <1>3, <1>4, <1>5

\* Functions that agree on a set have the same sum over it.
LEMMA SumOfAgree ==
  ASSUME NEW S, IsFiniteSet(S), NEW f, NEW h, \A x \in S : f[x] = h[x]
  PROVE  SumOf(f, S) = SumOf(h, S)
<1>1. PICK g : Sums(f, S, g) /\ SumOf(f, S) = g[S]
  BY SumOfSums
<1>2. PICK k : Sums(h, S, k) /\ SumOf(h, S) = k[S]
  BY SumOfSums
<1> QED
  BY <1>1, <1>2, SumsAgree

\* The sum over a subset is no larger.
LEMMA SumOfSubset ==
  ASSUME NEW S, IsFiniteSet(S), NEW f, \A x \in S : f[x] \in Nat, NEW V \in SUBSET S
  PROVE  SumOf(f, V) <= SumOf(f, S)
<1>1. PICK g : Sums(f, S, g) /\ SumOf(f, S) = g[S]
  BY SumOfSums
<1>2. IsFiniteSet(V)
  BY FS_Subset
<1>3. PICK k : Sums(f, V, k) /\ SumOf(f, V) = k[V]
  BY <1>2, SumOfSums
<1>4. g[V] = k[V]
  BY <1>1, <1>2, <1>3, SumsAgree
<1>5. \A T \in SUBSET S : g[T] \in Nat /\ \A x \in T : g[T] = f[x] + g[T \ {x}]
  <2>1. Sums(f, S, g)
    BY <1>1
  <2> QED
    BY <2>1, SumsRemove
<1> DEFINE Bad == {T \in SUBSET S : V \subseteq T /\ ~(g[V] <= g[T])}
<1>6. CASE Bad = {}
  BY <1>1, <1>3, <1>4, <1>6
<1>7. CASE Bad # {}
  <2>1. Bad \subseteq FiniteSubsetsOf(S)
    BY FS_Subset DEF FiniteSubsetsOf
  <2>2. PICK T \in Bad : \A U \in Bad : ~ (<<U, T>> \in StrictSubsetOrdering(S))
    <3> HIDE DEF Bad
    <3> QED
      BY <1>7, <2>1, FS_StrictSubsetOrderingWellFounded, WFMin
  <2>3. T \in SUBSET S /\ V \subseteq T /\ g[V] \in Nat /\ g[T] \in Nat /\ ~(g[V] <= g[T])
    BY <1>5
  <2>4. PICK x \in T : x \notin V
    BY <2>3
  <2>5. T \ {x} \in SUBSET S /\ V \subseteq T \ {x} /\ <<T \ {x}, T>> \in StrictSubsetOrdering(S)
    BY <2>3, <2>4 DEF StrictSubsetOrdering
  <2>6. g[V] <= g[T \ {x}]
    BY <2>2, <2>5
  <2>7. g[T] = f[x] + g[T \ {x}] /\ f[x] \in Nat /\ g[T \ {x}] \in Nat
    BY <1>5, <2>3, <2>5
  <2> QED
    BY <2>3, <2>6, <2>7
<1> QED
  BY <1>6, <1>7

\* The sum of a smaller function is no larger.
LEMMA SumOfLess ==
  ASSUME NEW S, IsFiniteSet(S), NEW f, NEW h, \A x \in S : f[x] \in Nat /\ h[x] \in Nat /\ h[x] <= f[x]
  PROVE  SumOf(h, S) <= SumOf(f, S)
<1>1. PICK g : Sums(f, S, g) /\ SumOf(f, S) = g[S]
  BY SumOfSums
<1>2. PICK k : Sums(h, S, k) /\ SumOf(h, S) = k[S]
  BY SumOfSums
<1>3. Sums(f, S, g) /\ Sums(h, S, k)
  BY <1>1, <1>2
<1>4. \A T \in SUBSET S : g[T] \in Nat /\ \A x \in T : g[T] = f[x] + g[T \ {x}]
  BY <1>3, SumsRemove
<1>5. \A T \in SUBSET S : k[T] \in Nat /\ \A x \in T : k[T] = h[x] + k[T \ {x}]
  BY <1>3, SumsRemove
<1>6. g[{}] = 0 /\ k[{}] = 0
  <2>1. g[{}] = SumStep(f, g, {}) /\ k[{}] = SumStep(h, k, {})
    BY <1>3, Zenon DEF Sums
  <2> QED
    BY <2>1 DEF SumStep
<1> DEFINE Bad == {T \in SUBSET S : ~(k[T] <= g[T])}
<1>7. CASE Bad = {}
  BY <1>1, <1>2, <1>7
<1>8. CASE Bad # {}
  <2>1. Bad \subseteq FiniteSubsetsOf(S)
    BY FS_Subset DEF FiniteSubsetsOf
  <2>2. PICK T \in Bad : \A U \in Bad : ~ (<<U, T>> \in StrictSubsetOrdering(S))
    <3> HIDE DEF Bad
    <3> QED
      BY <1>8, <2>1, FS_StrictSubsetOrderingWellFounded, WFMin
  <2>3. T \in SUBSET S /\ ~(k[T] <= g[T]) /\ T # {}
    BY <1>6
  <2>4. PICK x \in T : TRUE
    BY <2>3
  <2>5. T \ {x} \in SUBSET S /\ <<T \ {x}, T>> \in StrictSubsetOrdering(S)
    BY <2>3, <2>4 DEF StrictSubsetOrdering
  <2>6. k[T \ {x}] <= g[T \ {x}]
    BY <2>2, <2>5
  <2>7. g[T] = f[x] + g[T \ {x}] /\ g[T \ {x}] \in Nat
    BY <1>4, <2>3, <2>5
  <2>8. k[T] = h[x] + k[T \ {x}] /\ k[T \ {x}] \in Nat
    BY <1>5, <2>3, <2>5
  <2>9. f[x] \in Nat /\ h[x] \in Nat /\ h[x] <= f[x]
    BY <2>3, <2>4
  <2> HIDE DEF Bad
  <2> QED
    BY <2>3, <2>6, <2>7, <2>8, <2>9
<1> QED
  BY <1>7, <1>8
=============================================================================
