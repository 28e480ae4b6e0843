----------------------------- MODULE FoldLemmas -----------------------------
(***************************************************************************)
(* Induction and folds for the proofs about data.  The induction theorems  *)
(* of the library have an operator as their parameter; here a set of       *)
(* numbers takes its place, and the least-number principle comes from the  *)
(* well-foundedness of <.  A fold of the community modules chooses a       *)
(* function that satisfies its recursive equation; FoldsExist says that    *)
(* there is one.                                                           *)
(***************************************************************************)
EXTENDS Integers, Sequences, FiniteSets, Functions, FiniteSetsExt, FiniteSetTheorems,
        SequenceTheorems, WellFoundedInduction, TLAPS

-----------------------------------------------------------------------------
(* Induction.                                                               *)

\* A set of natural numbers has a least one.
LEMMA LeastNumber ==
    ASSUME NEW T \in SUBSET Nat, T # {}
    PROVE  \E m \in T : \A k \in T : m <= k
<1>1. \A a, b \in Nat : a < b => <<a, b>> \in OpToRel(<, Nat)
  BY DEF OpToRel
<1>2. \E m \in T : \A k \in T : <<k, m>> \notin OpToRel(<, Nat)
  BY NatLessThanWellFounded, WFMin
<1>3. PICK m \in T : \A k \in T : <<k, m>> \notin OpToRel(<, Nat)
  BY <1>2
<1>4. ASSUME NEW k \in T PROVE m <= k
  <2>1. ~(k < m)
    BY <1>1, <1>3
  <2>. QED  BY <2>1
<1>. QED  BY <1>4

\* A set of numbers with 0 and with each one's successor has them all.
LEMMA NumbersByInduction ==
    ASSUME NEW P \in SUBSET Nat, 0 \in P, \A n \in P : n + 1 \in P
    PROVE  P = Nat
<1>1. SUFFICES ASSUME Nat \ P # {} PROVE FALSE
  OBVIOUS
<1>2. PICK m \in Nat \ P : \A k \in Nat \ P : m <= k
  BY <1>1, LeastNumber
<1>3. m # 0 /\ m - 1 \in Nat /\ m - 1 \in P
  BY <1>2
<1>. QED  BY <1>2, <1>3

\* What holds at 0 and goes from each number to the next holds up to n.
LEMMA PrefixesByInduction ==
    ASSUME NEW n \in Nat, NEW P \in SUBSET (0..n), 0 \in P, \A k \in 1..n : k - 1 \in P => k \in P
    PROVE  P = 0..n
<1> DEFINE N == {k \in Nat : k <= n => k \in P}
<1>1. 0 \in N
  OBVIOUS
<1>2. ASSUME NEW k \in N PROVE k + 1 \in N
  <2>1. ASSUME k + 1 <= n PROVE k + 1 \in P
    <3>1. k \in P /\ k + 1 \in 1..n /\ (k + 1) - 1 = k
      BY <2>1
    <3>. QED  BY <3>1
  <2>. QED  BY <2>1
<1>3. N \in SUBSET Nat
  OBVIOUS
<1> HIDE DEF N
<1>4. N = Nat
  BY <1>1, <1>2, <1>3, NumbersByInduction
<1>5. \A k \in 0..n : k \in P
  BY <1>4 DEF N
<1>. QED  BY <1>5

-----------------------------------------------------------------------------
(* Folds.                                                                   *)

\* g folds step over the subsets of S, in the order in which pick takes elements.
IsFold(g, S, base, pick, step) ==
    \A T \in SUBSET S : g[T] = IF T = {} THEN base ELSE step[pick[T]][g[T \ {pick[T]}]]

\* There is such a function for a finite set.
LEMMA FoldsExist ==
    ASSUME NEW S, IsFiniteSet(S), NEW V, NEW base \in V,
           NEW pick, \A T \in SUBSET S : T # {} => pick[T] \in T,
           NEW step, \A x \in S, v \in V : step[x][v] \in V
    PROVE  \E g \in [SUBSET S -> V] : IsFold(g, S, base, pick, step)
<1> DEFINE Small(n) == {T \in SUBSET S : Cardinality(T) <= n}
           Folds(g, n) == \A T \in Small(n) :
              g[T] = IF T = {} THEN base ELSE step[pick[T]][g[T \ {pick[T]}]]
           N == {n \in Nat : \E g \in [Small(n) -> V] : Folds(g, n)}
<1>0. \A T \in SUBSET S : /\ IsFiniteSet(T) /\ Cardinality(T) \in Nat
                          /\ Cardinality(T) = 0 <=> T = {}
  BY FS_Subset, FS_CardinalityType, FS_EmptySet
<1>1. 0 \in N
  <2>1. \A T \in Small(0) : T = {}
    BY <1>0
  <2>2. [T \in Small(0) |-> base] \in [Small(0) -> V]
    OBVIOUS
  <2>3. Folds([T \in Small(0) |-> base], 0)
    BY <2>1
  <2>. QED  BY <2>2, <2>3
<1>2. ASSUME NEW n \in N PROVE n + 1 \in N
  <2>1. n \in Nat
    OBVIOUS
  <2>2. PICK g \in [Small(n) -> V] : Folds(g, n)
    OBVIOUS
  <2> DEFINE h == [T \in Small(n + 1) |->
                     IF T = {} THEN base ELSE step[pick[T]][g[T \ {pick[T]}]]]
  <2>3. Small(n) \subseteq Small(n + 1)
    BY <1>0, <2>1
  <2>4. ASSUME NEW T \in Small(n + 1), T # {}
        PROVE  pick[T] \in S /\ T \ {pick[T]} \in Small(n)
    <3>1. IsFiniteSet(T) /\ Cardinality(T) \in Nat /\ pick[T] \in T
      BY <1>0, <2>4
    <3>2. Cardinality(T \ {pick[T]}) = Cardinality(T) - 1
      BY <3>1, FS_RemoveElement, ZenonT(30)
    <3>. QED  BY <2>1, <3>1, <3>2
  <2>5. \A T \in Small(n) : h[T] = g[T]
    BY <2>2, <2>3
  <2>6. ASSUME NEW T \in Small(n + 1) PROVE h[T] \in V
    BY <2>2, <2>4, <2>6
  <2>7. h \in [Small(n + 1) -> V]
    BY <2>6
  <2> HIDE DEF Small
  <2>8. ASSUME NEW T \in Small(n + 1)
        PROVE  h[T] = IF T = {} THEN base ELSE step[pick[T]][h[T \ {pick[T]}]]
    BY <2>4, <2>5, <2>8
  <2>9. Folds(h, n + 1)
    BY <2>8
  <2> HIDE DEF h, Folds
  <2>10. n + 1 \in Nat /\ \E k \in [Small(n + 1) -> V] : Folds(k, n + 1)
    BY <2>1, <2>7, <2>9
  <2>. QED  BY <2>10
<1> HIDE DEF N
<1>3. Cardinality(S) \in N
  <2>1. N \in SUBSET Nat
    BY DEF N
  <2>2. N = Nat
    BY <1>1, <1>2, <2>1, NumbersByInduction
  <2>. QED  BY <1>0, <2>2
<1>4. Small(Cardinality(S)) = SUBSET S
  BY FS_Subset
<1>. QED  BY <1>3, <1>4 DEF N, IsFold

\* A measure of the subsets of K grows by f[x] with every element x.
IsMeasure(h, f, K) ==
    /\ h \in [SUBSET K -> Int] /\ h[{}] = 0
    /\ \A x \in K : f[x] \in Int
    /\ \A T \in SUBSET K : \A x \in T : h[T] = f[x] + h[T \ {x}]

\* It is the sum of f.
LEMMA SumsAreMeasures ==
    ASSUME NEW f, NEW K, IsFiniteSet(K), NEW h, IsMeasure(h, f, K)
    PROVE  SumFunctionOnSet(f, K) = h[K]
<1>0. /\ h \in [SUBSET K -> Int] /\ h[{}] = 0 /\ \A x \in K : f[x] \in Int
      /\ \A T \in SUBSET K : \A x \in T : h[T] = f[x] + h[T \ {x}]
  BY DEF IsMeasure
<1> DEFINE pick == [T \in SUBSET K |-> CHOOSE x \in T : TRUE]
           step == [x \in K |-> [v \in Int |-> f[x] + v]]
           Sum(g) == g = [T \in SUBSET K |->
                            IF T = {} THEN 0
                            ELSE f[CHOOSE x \in T : TRUE] + g[T \ {CHOOSE x \in T : TRUE}]]
<1>1. \A T \in SUBSET K : T # {} => pick[T] \in T
  OBVIOUS
<1>2. \A x \in K, v \in Int : step[x][v] = f[x] + v /\ step[x][v] \in Int
  BY <1>0
<1>3. PICK g \in [SUBSET K -> Int] : IsFold(g, K, 0, pick, step)
  <2>1. 0 \in Int /\ \A x \in K, v \in Int : step[x][v] \in Int
    BY <1>2
  <2> HIDE DEF pick, step
  <2>. QED  BY <1>1, <2>1, FoldsExist
<1>4. ASSUME NEW T \in SUBSET K
      PROVE  g[T] = IF T = {} THEN 0
                    ELSE f[CHOOSE x \in T : TRUE] + g[T \ {CHOOSE x \in T : TRUE}]
  <2>1. CASE T = {}
    BY <1>3, <2>1 DEF IsFold
  <2>2. CASE T # {}
    <3>1. pick[T] \in K /\ T \ {pick[T]} \in SUBSET K
      BY <1>1, <2>2
    <3>2. g[T] = step[pick[T]][g[T \ {pick[T]}]]
      BY <1>3, <2>2 DEF IsFold
    <3>3. g[T] = f[pick[T]] + g[T \ {pick[T]}]
      BY <1>2, <3>1, <3>2
    <3>. QED  BY <2>2, <3>3
  <2>. QED  BY <2>1, <2>2
<1>5. Sum(g)
  BY <1>4
<1> DEFINE i == CHOOSE s : Sum(s)
<1>6. SumFunctionOnSet(f, K) = i[K]
  BY DEF SumFunctionOnSet, FoldFunctionOnSet, MapThenFoldSet
<1>7. Sum(i)
  <2> HIDE DEF Sum
  <2>. QED  BY <1>5
<1> DEFINE P == {T \in SUBSET K : i[T] = h[T]}
<1> HIDE DEF i
<1>8. {} \in P
  BY <1>0, <1>7
<1>9. ASSUME NEW n \in Nat, \A T \in SUBSET K : Cardinality(T) = n => T \in P
      PROVE  \A T \in SUBSET K : Cardinality(T) = n + 1 => T \in P
  <2> SUFFICES ASSUME NEW T \in SUBSET K, Cardinality(T) = n + 1 PROVE i[T] = h[T]
    OBVIOUS
  <2> DEFINE x == CHOOSE x \in T : TRUE
  <2>1. IsFiniteSet(T) /\ T # {}
    BY FS_Subset, FS_EmptySet
  <2>2. x \in T
    BY <2>1
  <2>3. i[T] = f[x] + i[T \ {x}]
    BY <1>7, <2>1
  <2>4. T \ {x} \in SUBSET K /\ Cardinality(T \ {x}) = n
    <3>1. Cardinality(T \ {x}) = Cardinality(T) - 1
      BY <2>1, <2>2, FS_RemoveElement
    <3>. QED  BY <3>1
  <2>5. i[T \ {x}] = h[T \ {x}]
    BY <1>9, <2>4
  <2>6. h[T] = f[x] + h[T \ {x}]
    BY <1>0, <2>2
  <2>. QED  BY <2>3, <2>5, <2>6
<1> DEFINE N == {n \in Nat : \A T \in SUBSET K : Cardinality(T) = n => T \in P}
<1>10. 0 \in N
  BY <1>8, FS_Subset, FS_EmptySet
<1>11. \A n \in N : n + 1 \in N
  BY <1>9
<1> HIDE DEF N, P
<1>12. N = Nat
  BY <1>10, <1>11, NumbersByInduction DEF N
<1>13. K \in P
  BY <1>12, FS_CardinalityType DEF N
<1>. QED  BY <1>6, <1>13 DEF P

-----------------------------------------------------------------------------
(* Counts.                                                                  *)

\* The first n numbers.
LEMMA FirstNumbers ==
    ASSUME NEW n \in Nat
    PROVE  IsFiniteSet(1..n) /\ Cardinality(1..n) = n
BY FS_Interval

\* The positions in D where v has the value x, and a value of T.
At(D, v, x) == {i \in D : v[i] = x}
Within(D, v, T) == {i \in D : v[i] \in T}

\* The positions of the values of T are those of x and of the other values.
LEMMA PositionsAddUp ==
    ASSUME NEW D, IsFiniteSet(D), NEW v
    PROVE  /\ \A T : /\ IsFiniteSet(Within(D, v, T))
                     /\ Cardinality(Within(D, v, T)) \in Nat
           /\ \A x : /\ IsFiniteSet(At(D, v, x))
                     /\ Cardinality(At(D, v, x)) \in Nat
           /\ \A T : \A x \in T :
                 Cardinality(Within(D, v, T))
                   = Cardinality(At(D, v, x)) + Cardinality(Within(D, v, T \ {x}))
<1>1. \A T : Within(D, v, T) \in SUBSET D
  BY DEF Within
<1>2. \A x : At(D, v, x) \in SUBSET D
  BY DEF At
<1>3. \A T : \A x \in T : /\ Within(D, v, T) \ At(D, v, x) = Within(D, v, T \ {x})
                          /\ Within(D, v, T) \cap At(D, v, x) = At(D, v, x)
  BY DEF Within, At
<1>4. \A T : IsFiniteSet(Within(D, v, T)) /\ Cardinality(Within(D, v, T)) \in Nat
  BY <1>1, FS_Subset, FS_CardinalityType
<1>5. \A x : IsFiniteSet(At(D, v, x)) /\ Cardinality(At(D, v, x)) \in Nat
  BY <1>2, FS_Subset, FS_CardinalityType
<1>6. ASSUME NEW T, NEW x \in T
      PROVE  Cardinality(Within(D, v, T)) = Cardinality(At(D, v, x)) + Cardinality(Within(D, v, T \ {x}))
  <2>1. IsFiniteSet(Within(D, v, T))
    BY <1>4
  <2>2. Cardinality(Within(D, v, T) \ At(D, v, x))
          = Cardinality(Within(D, v, T)) - Cardinality(Within(D, v, T) \cap At(D, v, x))
    BY <2>1, FS_Difference
  <2>3. /\ Cardinality(Within(D, v, T \ {x})) \in Nat /\ Cardinality(Within(D, v, T)) \in Nat
        /\ Cardinality(At(D, v, x)) \in Nat
    BY <1>4, <1>5
  <2>4. /\ Within(D, v, T) \ At(D, v, x) = Within(D, v, T \ {x})
        /\ Within(D, v, T) \cap At(D, v, x) = At(D, v, x)
    BY <1>3
  <2>5. Cardinality(Within(D, v, T \ {x})) = Cardinality(Within(D, v, T)) - Cardinality(At(D, v, x))
    BY <2>2, <2>4, Zenon
  <2>. QED  BY <2>3, <2>5
<1>. QED  BY <1>4, <1>5, <1>6

LEMMA NothingWithin == \A D, v : Within(D, v, {}) = {}
BY DEF Within

\* Counting values one by one is counting them together.
LEMMA CountsAddUp ==
    ASSUME NEW D, IsFiniteSet(D), NEW v, NEW K, IsFiniteSet(K),
           NEW f, \A x \in K : f[x] = Cardinality(At(D, v, x))
    PROVE  SumFunctionOnSet(f, K) = Cardinality(Within(D, v, K))
<1> DEFINE h == [T \in SUBSET K |-> Cardinality(Within(D, v, T))]
<1>1. h \in [SUBSET K -> Int]
  BY PositionsAddUp
<1>2. h[{}] = 0
  BY NothingWithin, FS_EmptySet
<1>3. \A x \in K : f[x] \in Int
  BY PositionsAddUp
<1>4. ASSUME NEW T \in SUBSET K, NEW x \in T PROVE h[T] = f[x] + h[T \ {x}]
  <2>1. T \ {x} \in SUBSET K /\ x \in K
    OBVIOUS
  <2>. QED  BY <2>1, PositionsAddUp
<1>5. h[K] = Cardinality(Within(D, v, K))
  OBVIOUS
<1> HIDE DEF h
<1>6. SumFunctionOnSet(f, K) = h[K]
  <2>1. IsMeasure(h, f, K)
    BY <1>1, <1>2, <1>3, <1>4 DEF IsMeasure
  <2>. QED  BY <2>1, SumsAreMeasures
<1>. QED  BY <1>5, <1>6

\* The same for one less of each value.
LEMMA ExcessAddsUp ==
    ASSUME NEW D, IsFiniteSet(D), NEW v, NEW K, IsFiniteSet(K),
           NEW f, \A x \in K : f[x] = Cardinality(At(D, v, x)) - 1
    PROVE  SumFunctionOnSet(f, K) = Cardinality(Within(D, v, K)) - Cardinality(K)
<1> DEFINE h == [T \in SUBSET K |-> Cardinality(Within(D, v, T)) - Cardinality(T)]
<1>0. \A T \in SUBSET K : IsFiniteSet(T) /\ Cardinality(T) \in Nat
  BY FS_Subset, FS_CardinalityType
<1>1. h \in [SUBSET K -> Int]
  BY <1>0, PositionsAddUp
<1>2. h[{}] = 0
  BY NothingWithin, FS_EmptySet
<1>3. \A x \in K : f[x] \in Int
  <2>1. \A x \in K : Cardinality(At(D, v, x)) \in Int
    BY PositionsAddUp
  <2>. QED  BY <2>1
<1>4. ASSUME NEW T \in SUBSET K, NEW x \in T PROVE h[T] = f[x] + h[T \ {x}]
  <2>1. T \ {x} \in SUBSET K /\ x \in K
    OBVIOUS
  <2>2. Cardinality(T \ {x}) = Cardinality(T) - 1
    BY <1>0, FS_RemoveElement
  <2>3. Cardinality(Within(D, v, T)) = Cardinality(At(D, v, x)) + Cardinality(Within(D, v, T \ {x}))
    BY PositionsAddUp
  <2>4. /\ Cardinality(Within(D, v, T \ {x})) \in Nat /\ Cardinality(At(D, v, x)) \in Nat
        /\ Cardinality(T) \in Nat
    BY <1>0, PositionsAddUp
  <2>. QED  BY <2>1, <2>2, <2>3, <2>4
<1>5. h[K] = Cardinality(Within(D, v, K)) - Cardinality(K)
  OBVIOUS
<1> HIDE DEF h
<1>6. SumFunctionOnSet(f, K) = h[K]
  <2>1. IsMeasure(h, f, K)
    BY <1>1, <1>2, <1>3, <1>4 DEF IsMeasure
  <2>. QED  BY <2>1, SumsAreMeasures
<1>. QED  BY <1>5, <1>6

-----------------------------------------------------------------------------
(* Folds of sequences.                                                      *)

\* The largest of the first k numbers, and those before it.
LEMMA LastOfPrefix ==
    ASSUME NEW k \in Nat \ {0}
    PROVE  Max(1..k) = k /\ (1..k) \ {k} = 1..(k - 1) /\ 1..k # {}
BY DEF Max

\* Some of the first n numbers have a largest one.
LEMMA LargestOfSome ==
    ASSUME NEW n \in Nat, NEW T \in SUBSET (1..n), T # {}
    PROVE  Max(T) \in T
<1> DEFINE M == {n - x : x \in T}
<1>1. M \in SUBSET Nat /\ M # {}
  <2>1. \A x \in T : n - x \in Nat
    OBVIOUS
  <2>. QED  BY <2>1
<1>2. PICK m \in M : \A k \in M : m <= k
  BY <1>1, LeastNumber
<1>3. PICK x \in T : m = n - x
  BY <1>2
<1>4. ASSUME NEW y \in T PROVE x >= y
  <2>1. x \in Int /\ y \in Int /\ n - y \in M
    OBVIOUS
  <2>2. n - x <= n - y
    BY <1>2, <1>3, <2>1
  <2>. QED  BY <2>1, <2>2
<1>. QED  BY <1>4 DEF Max

\* g folds step over the numbers up to n, the largest one last.
IsLeftFold(g, n, base, step) ==
    \A T \in SUBSET (1..n) :
        IF T = {} THEN g[T] = base
        ELSE /\ Max(T) \in T /\ T \ {Max(T)} \in SUBSET (1..n)
             /\ g[T] = step[Max(T)][g[T \ {Max(T)}]]

\* A sequence of n elements can be folded from the left.
LEMMA LeftFoldsExist ==
    ASSUME NEW n \in Nat, NEW V, NEW base \in V,
           NEW step, \A k \in 1..n, v \in V : step[k][v] \in V
    PROVE  \E g \in [SUBSET (1..n) -> V] : IsLeftFold(g, n, base, step)
<1> DEFINE S == 1..n
           pick == [T \in SUBSET S |-> Max(T)]
<1>1. IsFiniteSet(S)
  BY FS_Interval
<1>2. \A T \in SUBSET S : T # {} => Max(T) \in T
  BY LargestOfSome
<1>3. \A T \in SUBSET S : T # {} => pick[T] \in T
  BY <1>2
<1>4. \A T \in SUBSET S : pick[T] = Max(T)
  OBVIOUS
<1> HIDE DEF S, pick
<1>5. PICK g \in [SUBSET S -> V] : IsFold(g, S, base, pick, step)
  BY <1>1, <1>3, FoldsExist DEF S
<1>6. ASSUME NEW T \in SUBSET S, T # {}
      PROVE  T \ {Max(T)} \in SUBSET S /\ g[T] = step[Max(T)][g[T \ {Max(T)}]]
  BY <1>4, <1>5, <1>6 DEF IsFold
<1>7. g[{}] = base
  BY <1>5 DEF IsFold
<1>8. IsLeftFold(g, n, base, step)
  BY <1>2, <1>6, <1>7 DEF S, IsLeftFold
<1>. QED  BY <1>5, <1>8 DEF S

-----------------------------------------------------------------------------
(* Sequences.                                                              *)

\* A sequence with one element more.
LEMMA Extended ==
    ASSUME NEW k \in Nat, NEW S, NEW s \in [1..k -> S], NEW x \in S,
           NEW t \in [1..(k + 1) -> S], \A b \in 1..k : t[b] = s[b], t[k + 1] = x
    PROVE  Append(s, x) = t
<1>1. s \in Seq(S) /\ Len(s) = k
  OBVIOUS
<1>2. t \in Seq(S) /\ Len(t) = k + 1
  OBVIOUS
<1>3. /\ Append(s, x) \in Seq(S) /\ Len(Append(s, x)) = k + 1
      /\ \A b \in 1..(k + 1) : Append(s, x)[b] = t[b]
  BY <1>1, AppendProperties
<1>. QED  BY <1>2, <1>3, SeqEqual

\* The first x numbers, and those that follow up to y.
LEMMA NumbersJoined ==
    ASSUME NEW x \in Nat, NEW y \in Nat, x <= y,
           NEW s \in Seq(Nat), Len(s) = y - x, \A j \in 1..(y - x) : s[j] = x + j
    PROVE  [i \in 1..x |-> i] \o s = [i \in 1..y |-> i]
<1> DEFINE to(k) == [i \in 1..k |-> i]
<1>1. \A k \in Nat : to(k) \in [1..k -> Nat] /\ \A j \in 1..k : to(k)[j] = j
  OBVIOUS
<1>2. \A k \in Nat : to(k) \in Seq(Nat) /\ Len(to(k)) = k
  <2> HIDE DEF to
  <2>. QED  BY <1>1
<1> HIDE DEF to
<1> DEFINE u == to(x) \o s
<1>3. /\ u \in Seq(Nat) /\ Len(u) = y
      /\ \A i \in 1..y : u[i] = IF i <= x THEN to(x)[i] ELSE s[i - x]
  <2>1. to(x) \in Seq(Nat) /\ Len(to(x)) = x
    BY <1>2
  <2>2. x + (y - x) = y
    OBVIOUS
  <2>3. Len(to(x)) + Len(s) = y
    BY <2>1, <2>2
  <2>4. /\ u \in Seq(Nat) /\ Len(u) = Len(to(x)) + Len(s)
        /\ \A i \in 1..(Len(to(x)) + Len(s)) :
              u[i] = IF i <= Len(to(x)) THEN to(x)[i] ELSE s[i - Len(to(x))]
    BY <2>1, ConcatProperties
  <2> HIDE DEF u
  <2>. QED  BY <2>1, <2>3, <2>4
<1> HIDE DEF u
<1>4. ASSUME NEW i \in 1..y PROVE u[i] = to(y)[i]
  <2>1. CASE i <= x
    <3>1. i \in 1..x
      BY <2>1
    <3>. QED  BY <1>1, <1>3, <2>1, <3>1
  <2>2. CASE i > x
    <3>1. i - x \in 1..(y - x) /\ x + (i - x) = i
      BY <2>2
    <3>2. s[i - x] = i
      BY <3>1
    <3>3. ~(i <= x)
      BY <2>2
    <3>4. u[i] = s[i - x]
      BY <1>3, <3>3
    <3>5. to(y)[i] = i
      BY <1>1
    <3>. QED  BY <3>2, <3>4, <3>5
  <2>. QED  BY <2>1, <2>2
<1>5. u = to(y)
  BY <1>2, <1>3, <1>4, SeqEqual
<1>. QED  BY <1>5 DEF u, to
=============================================================================
