---------------------------- MODULE InductionLemmas ----------------------------
(***************************************************************************)
(* Induction, and what it gives for the sums that the modules of this      *)
(* project write with MapThenSumSet: the sum of nothing is zero, an        *)
(* element can be added or taken away, larger sets have larger sums, and   *)
(* only the values over the set matter.                                    *)
(*                                                                         *)
(* Induction is stated for a set of numbers or of sets instead of for an   *)
(* operator: a collection that has the empty set and, with a set, the set  *)
(* with one element more.  MapThenSumSet is a recursive function over the  *)
(* subsets of its argument, a CHOOSE for the provers; that such a function *)
(* exists and is unique comes before the sums.                             *)
(***************************************************************************)
EXTENDS Integers, FiniteSets, FiniteSetsExt, Folds, FiniteSetTheorems,
        WellFoundedInduction, TLAPS

-----------------------------------------------------------------------------
(* Induction *)

\* Some natural number of a set is the least.
LEMMA LeastNumber ==
    ASSUME NEW B \in SUBSET Nat, B # {}
    PROVE  \E n \in B : \A k \in B : n <= k
<1>1. PICK n \in B : \A k \in B : ~(<<k, n>> \in OpToRel(<, Nat))
  BY NatLessThanWellFounded, WFMin
<1>2. \A k \in B : ~(k < n)
  BY <1>1 DEF OpToRel
<1> QED
  BY <1>2

\* A set that has 0, and n + 1 with n, has all natural numbers up to N.
LEMMA NumberInduction ==
    ASSUME NEW N \in Nat, NEW G, 0 \in G,
           \A n \in 0 .. N : n \in G /\ n < N => n + 1 \in G
    PROVE  0 .. N \subseteq G
<1> DEFINE B == {n \in 0 .. N : n \notin G}
<1> SUFFICES ASSUME B # {} PROVE FALSE
  OBVIOUS
<1>1. PICK n \in B : \A k \in B : n <= k
  <2>1. B \in SUBSET Nat
    OBVIOUS
  <2> HIDE DEF B
  <2> QED
    BY <2>1, LeastNumber
<1>2. n \in 1 .. N /\ n \notin G
  BY <1>1
<1>3. n - 1 \in 0 .. N /\ n - 1 < N /\ ~(n <= n - 1)
  BY <1>2
<1>4. n - 1 \in G
  BY <1>1, <1>3
<1>5. (n - 1) + 1 \in G
  BY <1>3, <1>4
<1>6. (n - 1) + 1 = n
  BY <1>2
<1> QED
  BY <1>2, <1>5, <1>6

\* A function over 0 .. N whose value at k is given by the one at k - 1.
Stepwise(g, v, h, N) == g[0] = v /\ \A k \in 1 .. N : g[k] = h[k][g[k - 1]]

\* There always is one.
LEMMA NumberRecursion ==
    ASSUME NEW N \in Nat, NEW V, NEW v \in V, NEW h \in [1 .. N -> [V -> V]]
    PROVE  \E g \in [0 .. N -> V] : Stepwise(g, v, h, N)
<1> DEFINE Fits(g, n) == \A k \in 0 .. n : g[k] = IF k = 0 THEN v ELSE h[k][g[k - 1]]
           G == {n \in 0 .. N : \E g \in [0 .. n -> V] : Fits(g, n)}
<1>1. 0 \in G
  <2> DEFINE g == [k \in 0 .. 0 |-> v]
  <2>1. g \in [0 .. 0 -> V]
    OBVIOUS
  <2>2. Fits(g, 0) /\ 0 \in 0 .. N
    OBVIOUS
  <2> HIDE DEF g
  <2> QED
    BY <2>1, <2>2
<1>2. ASSUME NEW n \in 0 .. N, n \in G, n < N PROVE n + 1 \in G
  <2>1. PICK g \in [0 .. n -> V] : Fits(g, n)
    BY <1>2
  <2> DEFINE top == h[n + 1][g[n]]
             f == [k \in 0 .. n + 1 |-> IF k <= n THEN g[k] ELSE top]
  <2>2. n + 1 \in 1 .. N /\ g[n] \in V
    BY <1>2
  <2>3. top \in V
    BY <2>2
  <2>4. f \in [0 .. n + 1 -> V]
    BY <2>3
  <2>5. ASSUME NEW k \in 0 .. n + 1
        PROVE  f[k] = IF k = 0 THEN v ELSE h[k][f[k - 1]]
    <3>1. CASE k = n + 1
      <4>1. k # 0 /\ k - 1 = n /\ f[k] = top /\ f[n] = g[n]
        BY <3>1
      <4> QED
        BY <3>1, <4>1
    <3>2. CASE k # n + 1
      <4>1. k \in 0 .. n /\ f[k] = g[k]
        BY <3>2
      <4>2. k # 0 => f[k - 1] = g[k - 1]
        BY <4>1
      <4> QED
        BY <2>1, <4>1, <4>2
    <3> QED
      BY <3>1, <3>2
  <2> HIDE DEF f, top
  <2>6. Fits(f, n + 1)
    BY <2>5, Zenon
  <2>7. n + 1 \in 0 .. N
    BY <2>2
  <2> QED
    BY <2>4, <2>6, <2>7
<1>3. N \in G
  <2> HIDE DEF G
  <2>1. 0 .. N \subseteq G
    BY <1>1, <1>2, NumberInduction
  <2> QED
    BY <2>1
<1>4. PICK g \in [0 .. N -> V] : Fits(g, N)
  BY <1>3
<1>5. g[0] = v
  BY <1>4
<1>6. \A k \in 1 .. N : k \in 0 .. N /\ k # 0
  OBVIOUS
<1>7. \A k \in 1 .. N : g[k] = h[k][g[k - 1]]
  BY <1>4, <1>6
<1> QED
  BY <1>5, <1>7 DEF Stepwise

\* Some member of a collection of subsets of a finite set contains no other.
LEMMA MinimalSubset ==
    ASSUME NEW S, IsFiniteSet(S), NEW B \in SUBSET SUBSET S, B # {}
    PROVE  \E T \in B : \A U \in B : U \subseteq T => U = T
<1>1. IsWellFoundedOn(StrictSubsetOrdering(S), SUBSET S)
  BY FS_StrictSubsetOrderingWellFounded, FS_FiniteSubsetsOfFinite
<1>2. PICK T \in B : \A U \in B : ~(<<U, T>> \in StrictSubsetOrdering(S))
  BY <1>1, WFMin
<1> QED
  BY <1>2 DEF StrictSubsetOrdering

\* A collection that has the empty set, and every subset with one element more
\* than a member, has S.
LEMMA FiniteSetInduction ==
    ASSUME NEW S, IsFiniteSet(S), NEW G, {} \in G,
           \A T \in SUBSET S : \A x \in S \ T : T \in G => T \cup {x} \in G
    PROVE  S \in G
<1> DEFINE B == {T \in SUBSET S : T \notin G}
<1> SUFFICES ASSUME S \notin G PROVE FALSE
  OBVIOUS
<1>1. PICK T \in B : \A U \in B : U \subseteq T => U = T
  <2>1. B \in SUBSET SUBSET S /\ B # {}
    OBVIOUS
  <2> HIDE DEF B
  <2> QED
    BY <2>1, MinimalSubset
<1>2. PICK x \in T : TRUE
  BY <1>1
<1>3. T \ {x} \in G
  BY <1>1, <1>2
<1>4. (T \ {x}) \cup {x} = T /\ x \in S \ (T \ {x}) /\ T \ {x} \in SUBSET S
  BY <1>1, <1>2
<1> QED
  BY <1>1, <1>3, <1>4

-----------------------------------------------------------------------------
(* The recursive function behind a sum *)

Total(f, S) == MapThenSumSet(LAMBDA x : f[x], S)

\* The element the sum takes next, and the equation of the recursive function.
First(T) == CHOOSE x \in T : TRUE
Recursion(g, f, S) ==
    g = [T \in SUBSET S |-> IF T = {} THEN 0 ELSE f[First(T)] + g[T \ {First(T)}]]

LEMMA FirstIn == ASSUME NEW T, T # {} PROVE First(T) \in T
  BY DEF First

\* Its value at a subset does not depend on the set it is defined over.
LEMMA RecursionUnique ==
    ASSUME NEW S, IsFiniteSet(S), NEW T \in SUBSET S, NEW f, NEW g, NEW h,
           Recursion(g, f, T), Recursion(h, f, S)
    PROVE  \A U \in SUBSET T : g[U] = h[U]
<1> DEFINE B == {U \in SUBSET T : g[U] # h[U]}
<1> SUFFICES ASSUME B # {} PROVE FALSE
  OBVIOUS
<1>1. PICK U \in B : \A V \in B : V \subseteq U => V = U
  <2>1. B \in SUBSET SUBSET S
    OBVIOUS
  <2> HIDE DEF B
  <2> QED
    BY <2>1, MinimalSubset
<1>2. U \in SUBSET T /\ U \in SUBSET S /\ g[U] # h[U]
  BY <1>1
<1>3. /\ g[U] = IF U = {} THEN 0 ELSE f[First(U)] + g[U \ {First(U)}]
      /\ h[U] = IF U = {} THEN 0 ELSE f[First(U)] + h[U \ {First(U)}]
  BY <1>2 DEF Recursion
<1>4. CASE U = {}
  BY <1>2, <1>3, <1>4
<1>5. CASE U # {}
  <2>1. First(U) \in U
    BY <1>5, FirstIn
  <2>2. U \ {First(U)} \in SUBSET T /\ U \ {First(U)} \subseteq U /\ U \ {First(U)} # U
    BY <1>2, <2>1
  <2>3. g[U \ {First(U)}] = h[U \ {First(U)}]
    BY <1>1, <2>2
  <2> QED
    BY <1>2, <1>3, <1>5, <2>3
<1> QED
  BY <1>4, <1>5

LEMMA RecursionExists ==
    ASSUME NEW S, IsFiniteSet(S), NEW f
    PROVE  \E g : Recursion(g, f, S)
<1> DEFINE B == {T \in SUBSET S : ~\E g : Recursion(g, f, T)}
           at(T) == (CHOOSE g : Recursion(g, f, T))[T]
<1> SUFFICES ASSUME B # {} PROVE FALSE
  OBVIOUS
<1>1. PICK T \in B : \A U \in B : U \subseteq T => U = T
  <2>1. B \in SUBSET SUBSET S
    OBVIOUS
  <2> HIDE DEF B
  <2> QED
    BY <2>1, MinimalSubset
<1>2. T \in SUBSET S /\ ~\E g : Recursion(g, f, T)
  BY <1>1
<1>3. \A U \in SUBSET T : U # T => Recursion(CHOOSE g : Recursion(g, f, U), f, U)
  BY <1>1, <1>2
<1> DEFINE top == IF T = {} THEN 0 ELSE f[First(T)] + at(T \ {First(T)})
           h == [U \in SUBSET T |-> IF U = T THEN top ELSE at(U)]
<1>4. ASSUME NEW U \in SUBSET T
      PROVE  h[U] = IF U = {} THEN 0 ELSE f[First(U)] + h[U \ {First(U)}]
  <2>1. CASE U = T
    <3>1. CASE U = {}
      BY <2>1, <3>1
    <3>2. CASE U # {}
      <4>1. T \ {First(T)} \in SUBSET T /\ T \ {First(T)} # T
        BY <2>1, <3>2, FirstIn
      <4>2. h[T \ {First(T)}] = at(T \ {First(T)})
        BY <4>1
      <4>3. h[T] = f[First(T)] + at(T \ {First(T)})
        BY <2>1, <3>2
      <4> QED
        BY <2>1, <3>2, <4>2, <4>3
    <3> QED
      BY <3>1, <3>2
  <2>2. CASE U # T
    <3> DEFINE g == CHOOSE g : Recursion(g, f, U)
    <3>1. Recursion(g, f, U)
      BY <1>3, <2>2
    <3>2. h[U] = g[U]
      BY <2>2
    <3>3. g[U] = IF U = {} THEN 0 ELSE f[First(U)] + g[U \ {First(U)}]
      <4> HIDE DEF g
      <4> QED
        BY <3>1 DEF Recursion
    <3>4. CASE U = {}
      BY <3>2, <3>3, <3>4
    <3>5. CASE U # {}
      <4> DEFINE V == U \ {First(U)}
                 k == CHOOSE k : Recursion(k, f, V)
      <4>1. V \in SUBSET T /\ V \in SUBSET U /\ V # T /\ V \in SUBSET V
        BY <3>5, FirstIn
      <4>2. Recursion(k, f, V)
        BY <1>3, <4>1
      <4>3. h[V] = k[V]
        BY <4>1
      <4>4. IsFiniteSet(U)
        BY <1>2, FS_Subset
      <4>5. k[V] = g[V]
        <5> HIDE DEF g, k, V
        <5> QED
          BY <3>1, <4>1, <4>2, <4>4, RecursionUnique
      <4> QED
        BY <3>2, <3>3, <3>5, <4>3, <4>5
    <3> QED
      BY <3>4, <3>5
  <2> QED
    BY <2>1, <2>2
<1>5. Recursion(h, f, T)
  <2>1. h = [U \in SUBSET T |-> h[U]]
    OBVIOUS
  <2> HIDE DEF h
  <2> QED
    BY <1>4, <2>1 DEF Recursion
<1> QED
  BY <1>2, <1>5

LEMMA SumIsRecursion ==
    ASSUME NEW f, NEW S
    PROVE  Total(f, S) = (CHOOSE g : Recursion(g, f, S))[S]
  BY DEF Total, MapThenSumSet, MapThenFoldSet, Recursion, First

-----------------------------------------------------------------------------
(* Sums *)

LEMMA SumEmpty == ASSUME NEW f PROVE Total(f, {}) = 0
<1> DEFINE g == CHOOSE g : Recursion(g, f, {})
<1>1. Recursion(g, f, {})
  BY FS_EmptySet, RecursionExists
<1>2. Total(f, {}) = g[{}]
  BY SumIsRecursion
<1> HIDE DEF g
<1> QED
  BY <1>1, <1>2 DEF Recursion

LEMMA SumStep ==
    ASSUME NEW f, NEW S, IsFiniteSet(S), S # {}
    PROVE  Total(f, S) = f[First(S)] + Total(f, S \ {First(S)})
<1> DEFINE T == S \ {First(S)}
           g == CHOOSE g : Recursion(g, f, S)
           h == CHOOSE h : Recursion(h, f, T)
<1>1. T \in SUBSET S /\ T \in SUBSET T /\ IsFiniteSet(T)
  BY FS_Subset
<1>2. Total(f, S) = g[S] /\ Total(f, T) = h[T]
  BY SumIsRecursion
<1>3. Recursion(g, f, S)
  BY RecursionExists
<1>4. Recursion(h, f, T)
  <2> HIDE DEF T
  <2> QED
    BY <1>1, RecursionExists
<1> HIDE DEF g, h
<1>5. h[T] = g[T]
  <2> HIDE DEF T
  <2> QED
    BY <1>1, <1>3, <1>4, RecursionUnique
<1>6. g[S] = f[First(S)] + g[T]
  BY <1>3 DEF Recursion
<1> QED
  BY <1>2, <1>5, <1>6

\* A sum of integers is an integer, one of natural numbers a natural number.
LEMMA SumType ==
    ASSUME NEW f, NEW S, IsFiniteSet(S)
    PROVE  /\ (\A x \in S : f[x] \in Int) => Total(f, S) \in Int
           /\ (\A x \in S : f[x] \in Nat) => Total(f, S) \in Nat
<1>1. ASSUME NEW R, R \in {Int, Nat}, \A x \in S : f[x] \in R
      PROVE  Total(f, S) \in R
  <2> DEFINE B == {T \in SUBSET S : Total(f, T) \notin R}
  <2> SUFFICES ASSUME B # {} PROVE FALSE
    OBVIOUS
  <2>1. PICK T \in B : \A U \in B : U \subseteq T => U = T
    <3>1. B \in SUBSET SUBSET S
      OBVIOUS
    <3> HIDE DEF B
    <3> QED
      BY <3>1, MinimalSubset
  <2>2. T \in SUBSET S /\ Total(f, T) \notin R /\ IsFiniteSet(T)
    BY <2>1, FS_Subset
  <2>3. T # {}
    BY <1>1, <2>2, SumEmpty
  <2>4. First(T) \in T
    BY <2>3, FirstIn
  <2>5. Total(f, T \ {First(T)}) \in R /\ f[First(T)] \in R
    BY <1>1, <2>1, <2>2, <2>4
  <2>6. Total(f, T) = f[First(T)] + Total(f, T \ {First(T)})
    BY <2>2, <2>3, SumStep
  <2> QED
    BY <1>1, <2>2, <2>5, <2>6
<1> QED
  BY <1>1

\* Any element can be taken out first.
LEMMA SumTake ==
    ASSUME NEW f, NEW S, IsFiniteSet(S), \A x \in S : f[x] \in Int, NEW x \in S
    PROVE  Total(f, S) = f[x] + Total(f, S \ {x})
<1> DEFINE B == {T \in SUBSET S : \E y \in T : Total(f, T) # f[y] + Total(f, T \ {y})}
<1> SUFFICES ASSUME B # {} PROVE FALSE
  OBVIOUS
<1>1. PICK T \in B : \A U \in B : U \subseteq T => U = T
  <2>1. B \in SUBSET SUBSET S
    OBVIOUS
  <2> HIDE DEF B
  <2> QED
    BY <2>1, MinimalSubset
<1>2. PICK y \in T : Total(f, T) # f[y] + Total(f, T \ {y})
  BY <1>1
<1> DEFINE z == First(T)
<1>3. T \in SUBSET S /\ IsFiniteSet(T) /\ z \in T
  BY <1>1, <1>2, FS_Subset, FirstIn
<1>4. Total(f, T) = f[z] + Total(f, T \ {z})
  BY <1>3, SumStep
<1> HIDE DEF z
<1>5. y # z
  BY <1>2, <1>4
\* What is smaller than T is no counterexample.
<1>6. \A u, v \in T : u # v => Total(f, T \ {u}) = f[v] + Total(f, (T \ {u}) \ {v})
  <2> SUFFICES ASSUME NEW u \in T, NEW v \in T, u # v
               PROVE  Total(f, T \ {u}) = f[v] + Total(f, (T \ {u}) \ {v})
    OBVIOUS
  <2> DEFINE U == T \ {u}
  <2>1. U \in SUBSET S /\ U \subseteq T /\ U # T /\ v \in U
    BY <1>3
  <2> HIDE DEF U
  <2>2. U \notin B
    BY <1>1, <2>1
  <2>3. Total(f, U) = f[v] + Total(f, U \ {v})
    BY <2>1, <2>2
  <2> QED
    BY <2>3 DEF U
<1> DEFINE R == (T \ {z}) \ {y}
<1>7. Total(f, T \ {z}) = f[y] + Total(f, R)
  BY <1>3, <1>5, <1>6
<1>8. Total(f, T \ {y}) = f[z] + Total(f, R)
  <2>1. (T \ {y}) \ {z} = R
    OBVIOUS
  <2>2. Total(f, T \ {y}) = f[z] + Total(f, (T \ {y}) \ {z})
    BY <1>3, <1>5, <1>6
  <2> QED
    BY <2>1, <2>2, Zenon
<1>9. Total(f, R) \in Int /\ f[y] \in Int /\ f[z] \in Int
  <2>1. R \in SUBSET S /\ IsFiniteSet(R)
    BY <1>3, FS_Subset
  <2> HIDE DEF B, R
  <2> QED
    BY <1>3, <2>1, SumType
<1> HIDE DEF R, B
<1> QED
  BY <1>2, <1>4, <1>7, <1>8, <1>9

LEMMA SumAdd ==
    ASSUME NEW f, NEW S, IsFiniteSet(S), NEW x, x \notin S,
           \A y \in S \cup {x} : f[y] \in Int
    PROVE  Total(f, S \cup {x}) = Total(f, S) + f[x]
<1> DEFINE U == S \cup {x}
<1>1. IsFiniteSet(U) /\ U \ {x} = S /\ x \in U
  BY FS_AddElement
<1>2. Total(f, U) = f[x] + Total(f, U \ {x})
  <2>1. \A y \in U : f[y] \in Int
    OBVIOUS
  <2> HIDE DEF U
  <2> QED
    BY <1>1, <2>1, SumTake
<1>3. Total(f, U \ {x}) = Total(f, S)
  BY <1>1, Zenon
<1>4. Total(f, S) \in Int /\ f[x] \in Int
  BY SumType
<1> HIDE DEF U
<1>5. Total(f, U) = Total(f, S) + f[x]
  BY <1>2, <1>3, <1>4
<1> QED
  BY <1>5 DEF U

\* Only the values over the set matter.
LEMMA SumEqual ==
    ASSUME NEW f, NEW h, NEW S, IsFiniteSet(S),
           \A x \in S : f[x] \in Int /\ f[x] = h[x]
    PROVE  Total(f, S) = Total(h, S)
<1> DEFINE G == {T \in SUBSET S : Total(f, T) = Total(h, T)}
<1>1. {} \in G
  BY SumEmpty
<1>2. ASSUME NEW T \in SUBSET S, NEW x \in S \ T, T \in G
      PROVE  T \cup {x} \in G
  <2>1. IsFiniteSet(T)
    BY FS_Subset
  <2>2. Total(f, T \cup {x}) = Total(f, T) + f[x]
    BY <2>1, SumAdd
  <2>3. Total(h, T \cup {x}) = Total(h, T) + h[x]
    BY <2>1, SumAdd
  <2> QED
    BY <1>2, <2>2, <2>3
<1>3. S \in G
  <2> HIDE DEF G
  <2> QED
    BY <1>1, <1>2, FiniteSetInduction
<1> QED
  BY <1>3

\* The sum over two sets without a common element.
LEMMA SumDisjoint ==
    ASSUME NEW f, NEW S, NEW T, IsFiniteSet(S), IsFiniteSet(T), S \cap T = {},
           \A x \in S \cup T : f[x] \in Int
    PROVE  Total(f, S \cup T) = Total(f, S) + Total(f, T)
<1> DEFINE G == {U \in SUBSET T : Total(f, S \cup U) = Total(f, S) + Total(f, U)}
<1>0. Total(f, S) \in Int
  BY SumType
<1>1. {} \in G
  BY <1>0, SumEmpty
<1>2. ASSUME NEW U \in SUBSET T, NEW x \in T \ U, U \in G
      PROVE  U \cup {x} \in G
  <2>1. IsFiniteSet(U) /\ IsFiniteSet(S \cup U)
    BY FS_Subset, FS_Union
  <2>2. Total(f, U \cup {x}) = Total(f, U) + f[x]
    BY <2>1, SumAdd
  <2>3. Total(f, (S \cup U) \cup {x}) = Total(f, S \cup U) + f[x]
    BY <2>1, SumAdd
  <2>4. (S \cup U) \cup {x} = S \cup (U \cup {x})
    OBVIOUS
  <2>5. Total(f, U) \in Int /\ f[x] \in Int
    BY <2>1, SumType
  <2>6. Total(f, S \cup (U \cup {x})) = Total(f, (S \cup U) \cup {x})
    BY <2>4, Zenon
  <2>7. Total(f, S \cup U) = Total(f, S) + Total(f, U)
    BY <1>2
  <2>8. Total(f, S \cup (U \cup {x})) = Total(f, S) + Total(f, U \cup {x})
    <3> HIDE DEF G
    <3> QED
      BY <1>0, <2>2, <2>3, <2>5, <2>6, <2>7
  <2> QED
    BY <2>8
<1>3. T \in G
  <2> HIDE DEF G
  <2> QED
    BY <1>1, <1>2, FiniteSetInduction
<1> QED
  BY <1>3

\* A subset has no larger sum.
LEMMA SumSubset ==
    ASSUME NEW f, NEW S, IsFiniteSet(S), NEW T \in SUBSET S,
           \A x \in S : f[x] \in Nat
    PROVE  Total(f, T) <= Total(f, S)
<1>1. IsFiniteSet(T) /\ IsFiniteSet(S \ T) /\ T \cap (S \ T) = {} /\ T \cup (S \ T) = S
  BY FS_Subset
<1>2. Total(f, T) \in Nat /\ Total(f, S \ T) \in Nat
  BY <1>1, SumType
<1>3. Total(f, T \cup (S \ T)) = Total(f, T) + Total(f, S \ T)
  <2>1. \A x \in T \cup (S \ T) : f[x] \in Int
    OBVIOUS
  <2> QED
    BY <1>1, <2>1, SumDisjoint
<1>4. Total(f, T \cup (S \ T)) = Total(f, S)
  BY <1>1, Zenon
<1> QED
  BY <1>2, <1>3, <1>4

\* A larger function has a larger sum.
LEMMA SumMonotone ==
    ASSUME NEW f, NEW h, NEW S, IsFiniteSet(S),
           \A x \in S : f[x] \in Int /\ h[x] \in Int /\ f[x] <= h[x]
    PROVE  Total(f, S) <= Total(h, S)
<1> DEFINE G == {T \in SUBSET S : Total(f, T) <= Total(h, T)}
<1>1. {} \in G
  BY SumEmpty
<1>2. ASSUME NEW T \in SUBSET S, NEW x \in S \ T, T \in G
      PROVE  T \cup {x} \in G
  <2>1. IsFiniteSet(T)
    BY FS_Subset
  <2>2. Total(f, T \cup {x}) = Total(f, T) + f[x]
    BY <2>1, SumAdd
  <2>3. Total(h, T \cup {x}) = Total(h, T) + h[x]
    BY <2>1, SumAdd
  <2>4. Total(f, T) \in Int /\ Total(h, T) \in Int
    BY <2>1, SumType
  <2> QED
    BY <1>2, <2>2, <2>3, <2>4
<1>3. S \in G
  <2> HIDE DEF G
  <2> QED
    BY <1>1, <1>2, FiniteSetInduction
<1> QED
  BY <1>3

-----------------------------------------------------------------------------
(* Products and quotients *)

\* A division that leaves nothing over gives back the factor.
LEMMA DivExact == ASSUME NEW n \in Nat, NEW q \in Nat \ {0}
                  PROVE  (n * q) \div q = n
  BY Z3

\* A quotient of naturals is a natural.
LEMMA DivNat == ASSUME NEW a \in Nat, NEW q \in Nat \ {0}
                PROVE  a \div q \in Nat
  BY Z3

\* A number is at most a quotient if its multiple is at most the dividend.
LEMMA DivAtLeast ==
    ASSUME NEW a \in Int, NEW b \in Int, NEW q \in Nat \ {0}, a * q <= b
    PROVE  a <= b \div q
  BY Z3

LEMMA TimesNat == ASSUME NEW a \in Nat, NEW b \in Nat
                  PROVE  a * b \in Nat
  BY Z3

LEMMA TimesMonotone == ASSUME NEW a \in Int, NEW b \in Int, NEW c \in Nat, a <= b
                       PROVE  a * c <= b * c
  BY Z3

LEMMA TimesCancel == ASSUME NEW a \in Int, NEW b \in Int, NEW c \in Nat \ {0}
                     PROVE  /\ a * c <= b * c => a <= b
                            /\ a * c < b * c => a < b
                            /\ a * c = b * c => a = b
  BY Z3

\* The remainder of what is at most one turn of the ring away.
LEMMA OneTurn ==
    ASSUME NEW n \in Nat \ {0}, NEW x \in Int, 0 <= x + n, x < n + n
    PROVE  x % n = IF x < 0 THEN x + n ELSE IF x < n THEN x ELSE x - n
  BY Z3

=============================================================================
