------------------------------ MODULE SumTheorems ------------------------------
(***************************************************************************)
(* Facts about SumFunctionOnSet(): what a sum over a finite set is when an *)
(* element joins it, when the summands change, and when they are shifted.  *)
(* The library's induction theorems take the formula as a parameter; here  *)
(* a set stands for it, the set of all that satisfy the formula.           *)
(***************************************************************************)
EXTENDS Functions, Integers, FiniteSets, FiniteSetTheorems, WellFoundedInduction,
        TLAPS

(* What holds of zero and goes on to the successor holds of all numbers.   *)
LEMMA NatsReached ==
    ASSUME NEW G, 0 \in G, \A n \in Nat : n \in G => n + 1 \in G
    PROVE  Nat \subseteq G
<1> DEFINE R == OpToRel(<, Nat)
           N == Nat \ G
<1> SUFFICES ASSUME N # {} PROVE FALSE
  OBVIOUS
<1>1. \A x, y \in Nat : <<x, y>> \in R <=> x < y
  BY DEF OpToRel
<1>2. IsWellFoundedOn(R, Nat)
  BY NatLessThanWellFounded
<1>3. N \subseteq Nat
  OBVIOUS
<1> HIDE DEF R
<1>4. PICK x \in N : \A y \in N : <<y, x>> \notin R
  BY <1>2, <1>3, WFMin
<1>5. x \in Nat /\ x # 0
  BY <1>4
<1>6. x - 1 \in Nat /\ x - 1 < x /\ (x - 1) + 1 = x
  BY <1>5
<1>7. x - 1 \in G
  BY <1>1, <1>4, <1>5, <1>6
<1> QED
  BY <1>4, <1>6, <1>7

(* What holds of the empty set and goes on when an element joins holds of  *)
(* every subset of a finite set.                                           *)
LEMMA SetsReached ==
    ASSUME NEW S, IsFiniteSet(S), NEW G, {} \in G,
           \A T \in SUBSET S : T \in G => \A x \in S \ T : T \cup {x} \in G
    PROVE  SUBSET S \subseteq G
<1> DEFINE N == {n \in Nat : \A T \in SUBSET S : Cardinality(T) = n => T \in G}
<1>1. \A T \in SUBSET S : IsFiniteSet(T) /\ Cardinality(T) \in Nat
  BY FS_Subset, FS_CardinalityType
<1>2. 0 \in N
  <2>1. \A T \in SUBSET S : Cardinality(T) = 0 => T = {}
    BY <1>1, FS_EmptySet
  <2> QED
    BY <2>1
<1>3. ASSUME NEW n \in Nat, n \in N PROVE n + 1 \in N
  <2>1. SUFFICES ASSUME NEW T \in SUBSET S, Cardinality(T) = n + 1 PROVE T \in G
    OBVIOUS
  <2>2. PICK x \in T : TRUE
    <3>1. T # {}
      BY <2>1, FS_EmptySet
    <3> QED
      BY <3>1
  <2>3. Cardinality(T \ {x}) = n
    <3>1. Cardinality(T \ {x}) = Cardinality(T) - 1
      BY <1>1, <2>2, FS_RemoveElement
    <3> QED
      BY <2>1, <3>1
  <2>4. T \ {x} \in G /\ T \ {x} \in SUBSET S /\ x \in S \ (T \ {x})
    BY <1>3, <2>3
  <2>5. (T \ {x}) \cup {x} = T
    OBVIOUS
  <2> QED
    BY <2>4, <2>5
<1> HIDE DEF N
<1>4. Nat \subseteq N
  BY <1>2, <1>3, NatsReached
<1> QED
  BY <1>1, <1>4 DEF N

-----------------------------------------------------------------------------
(* The recursive function behind the sum                                   *)

Pick(s) == CHOOSE x \in s : TRUE
Adds(f, S, g) ==
    g = [s \in SUBSET S |-> IF s = {} THEN 0 ELSE f[Pick(s)] + g[s \ {Pick(s)}]]

(* The sum is what the recursion over the subsets gives for the whole set. *)
LEMMA SumDefined ==
    ASSUME NEW S, NEW f
    PROVE  SumFunctionOnSet(f, S) = (CHOOSE g : Adds(f, S, g))[S]
  BY DEF SumFunctionOnSet, FoldFunctionOnSet, MapThenFoldSet, Adds, Pick

(* A finite set has such a function.                                       *)
LEMMA SumExists ==
    ASSUME NEW S, IsFiniteSet(S), NEW f
    PROVE  \E g : Adds(f, S, g)
<1> DEFINE D(n) == {T \in SUBSET S : Cardinality(T) <= n}
           Upto(n, g) == g = [s \in D(n) |-> IF s = {} THEN 0
                                             ELSE f[Pick(s)] + g[s \ {Pick(s)}]]
           N == {n \in Nat : \E g : Upto(n, g)}
<1>1. \A T \in SUBSET S : IsFiniteSet(T) /\ Cardinality(T) \in Nat
  BY FS_Subset, FS_CardinalityType
<1>2. 0 \in N
  <2>1. \A T \in D(0) : T = {}
    BY <1>1, FS_EmptySet
  <2>2. Upto(0, [s \in D(0) |-> 0])
    BY <2>1
  <2> QED
    BY <2>2
<1>3. ASSUME NEW n \in Nat, n \in N PROVE n + 1 \in N
  <2>1. PICK g : Upto(n, g)
    BY <1>3
  <2> DEFINE h == [s \in D(n + 1) |-> IF s \in D(n) THEN g[s]
                                      ELSE f[Pick(s)] + g[s \ {Pick(s)}]]
  <2>2. ASSUME NEW s \in D(n + 1), s # {}
        PROVE  s \ {Pick(s)} \in D(n) /\ s \ {Pick(s)} \in D(n + 1)
    <3>1. Pick(s) \in s
      BY <2>2 DEF Pick
    <3>2. Cardinality(s \ {Pick(s)}) = Cardinality(s) - 1
      BY <1>1, <3>1, FS_RemoveElement
    <3> QED
      BY <1>1, <3>2
  <2>3. ASSUME NEW s \in D(n + 1)
        PROVE  h[s] = IF s = {} THEN 0 ELSE f[Pick(s)] + h[s \ {Pick(s)}]
    <3>1. CASE s = {}
      <4>1. s \in D(n)
        BY <3>1, FS_EmptySet
      <4> QED
        BY <2>1, <3>1, <4>1
    <3>2. CASE s # {}
      <4>1. h[s \ {Pick(s)}] = g[s \ {Pick(s)}]
        BY <2>2, <3>2
      <4>2. h[s] = f[Pick(s)] + g[s \ {Pick(s)}]
        BY <2>1, <3>2
      <4> QED
        BY <3>2, <4>1, <4>2
    <3> QED
      BY <3>1, <3>2
  <2> HIDE DEF D
  <2>4. Upto(n + 1, h)
    BY <2>3
  <2> HIDE DEF Upto, h
  <2>5. n + 1 \in Nat
    OBVIOUS
  <2> QED
    BY <2>4, <2>5, Zenon
<1> HIDE DEF N
<1>4. Nat \subseteq N
  BY <1>2, <1>3, NatsReached
<1>5. PICK g : Upto(Cardinality(S), g)
  BY <1>1, <1>4 DEF N
<1>6. D(Cardinality(S)) = SUBSET S
  BY FS_Subset, <1>1
<1> HIDE DEF D
<1> QED
  BY <1>5, <1>6 DEF Adds

(* Whichever element is taken away first, the rest is the same.            *)
Splits(f, S, g) ==
    /\ g[{}] = 0
    /\ \A T \in SUBSET S : g[T] \in Int
    /\ \A T \in SUBSET S : \A y \in T : g[T] = f[y] + g[T \ {y}]
LEMMA SumSplits ==
    ASSUME NEW S, IsFiniteSet(S), NEW f, \A x \in S : f[x] \in Int,
           NEW g, Adds(f, S, g)
    PROVE  Splits(f, S, g)
<1> DEFINE Fine(s) == g[s] \in Int /\ \A y \in s : g[s] = f[y] + g[s \ {y}]
           N == {n \in Nat : \A s \in SUBSET S : Cardinality(s) <= n => Fine(s)}
<1>1. \A s \in SUBSET S : IsFiniteSet(s) /\ Cardinality(s) \in Nat
  BY FS_Subset, FS_CardinalityType
<1>2. g[{}] = 0
  BY DEF Adds
<1>3. \A s \in SUBSET S : s # {} => g[s] = f[Pick(s)] + g[s \ {Pick(s)}] /\ Pick(s) \in s
  BY DEF Adds, Pick
<1>4. 0 \in N
  <2>1. \A s \in SUBSET S : Cardinality(s) <= 0 => s = {}
    <3>1. \A s \in SUBSET S : Cardinality(s) <= 0 => Cardinality(s) = 0
      BY <1>1
    <3> QED
      BY <1>1, <3>1, FS_EmptySet
  <2>2. Fine({})
    BY <1>2
  <2> HIDE DEF Fine
  <2> QED
    BY <2>1, <2>2
<1>5. ASSUME NEW n \in Nat, n \in N PROVE n + 1 \in N
  <2>1. ASSUME NEW s \in SUBSET S, Cardinality(s) <= n + 1, s # {}
        PROVE  Fine(s)
    <3> DEFINE x == Pick(s)
    <3>1. g[s] = f[x] + g[s \ {x}] /\ x \in s
      BY <1>3, <2>1
    <3> HIDE DEF x
    <3>2. \A y \in s : \A t \in SUBSET (s \ {y}) : Fine(t)
      <4>1. TAKE y \in s
      <4>2. Cardinality(s \ {y}) <= n
        BY <1>1, <2>1, FS_RemoveElement
      <4>3. TAKE t \in SUBSET (s \ {y})
      <4>4. Cardinality(t) <= Cardinality(s \ {y})
        BY <1>1, FS_Subset
      <4>5. t \in SUBSET S /\ Cardinality(t) <= n
        BY <1>1, <4>2, <4>4
      <4> HIDE DEF Fine
      <4> QED
        BY <1>5, <4>5
    <3>3. f[x] \in Int /\ g[s \ {x}] \in Int
      BY <3>1, <3>2
    <3>4. ASSUME NEW y \in s, y # x PROVE g[s] = f[y] + g[s \ {y}]
      <4> DEFINE a == s \ {x}
                 b == s \ {y}
                 c == (s \ {x}) \ {y}
      <4>1. g[a] = f[y] + g[c]
        BY <3>1, <3>2, <3>4
      <4>2. c = b \ {x} /\ x \in b
        BY <3>1, <3>4
      <4>3. g[b] = f[x] + g[c]
        <5>1. g[b] = f[x] + g[b \ {x}]
          BY <3>1, <3>2, <4>2
        <5> QED
          BY <4>2, <5>1
      <4>4. g[c] \in Int
        BY <3>1, <3>2
      <4>5. f[y] \in Int /\ g[s] = f[x] + g[a]
        BY <3>1
      <4> HIDE DEF a, b, c
      <4>6. g[s] = f[y] + g[b]
        BY <3>3, <4>1, <4>3, <4>4, <4>5
      <4> QED
        BY <4>6 DEF b
    <3>5. g[s] \in Int
      <4> HIDE DEF x
      <4>1. f[x] \in Int /\ g[s] = f[x] + g[s \ {x}]
        BY <3>1
      <4> QED
        BY <3>3, <4>1
    <3> QED
      BY <3>1, <3>4, <3>5, Zenon
  <2>2. Fine({})
    BY <1>2
  <2> HIDE DEF Fine
  <2> QED
    BY <2>1, <2>2
<1> HIDE DEF N
<1>6. Nat \subseteq N
  BY <1>4, <1>5, NatsReached
<1>7. \A T \in SUBSET S : Fine(T)
  <2> HIDE DEF Fine
  <2> QED
    BY <1>1, <1>6 DEF N
<1> QED
  BY <1>2, <1>7 DEF Splits

(* Two recursions agree on a set where their summands do.                  *)
LEMMA SumAgrees ==
    ASSUME NEW S, IsFiniteSet(S), NEW f, \A x \in S : f[x] \in Int,
           NEW g, Adds(f, S, g),
           NEW R, IsFiniteSet(R), NEW h, \A x \in R : h[x] \in Int,
           NEW k, Adds(h, R, k),
           NEW U \in SUBSET S, U \in SUBSET R, \A x \in U : f[x] = h[x]
    PROVE  g[U] = k[U]
<1> DEFINE G == {T \in SUBSET U : g[T] = k[T]}
<1>0. Splits(f, S, g) /\ Splits(h, R, k)
  BY SumSplits
<1>1. {} \in G
  BY <1>0 DEF Splits
<1>2. ASSUME NEW T \in SUBSET U, T \in G, NEW x \in U \ T
      PROVE  T \cup {x} \in G
  <2> DEFINE V == T \cup {x}
  <2>1. V \in SUBSET S /\ V \in SUBSET R /\ x \in V /\ V \ {x} = T
    BY <1>2
  <2> HIDE DEF V
  <2>2. g[V] = f[x] + g[V \ {x}]
    BY <1>0, <2>1 DEF Splits
  <2>3. k[V] = h[x] + k[V \ {x}]
    BY <1>0, <2>1 DEF Splits
  <2>4. V \in SUBSET U
    BY DEF V
  <2> QED
    BY <1>2, <2>1, <2>2, <2>3, <2>4 DEF V
<1>3. IsFiniteSet(U)
  BY FS_Subset
<1> HIDE DEF G
<1>4. SUBSET U \subseteq G
  BY <1>1, <1>2, <1>3, SetsReached
<1> QED
  BY <1>4 DEF G

-----------------------------------------------------------------------------
(* The sum                                                                 *)

(* Its recursion.                                                          *)
LEMMA SumRecursion ==
    ASSUME NEW S, IsFiniteSet(S), NEW f
    PROVE  \E g : Adds(f, S, g) /\ SumFunctionOnSet(f, S) = g[S]
<1>1. \E g : Adds(f, S, g)
  BY SumExists
<1>2. Adds(f, S, CHOOSE g : Adds(f, S, g))
  BY <1>1, Zenon
<1> QED
  BY <1>2, SumDefined, Zenon

(* The sum over nothing is zero, and a sum of integers is an integer.      *)
LEMMA SumType ==
    ASSUME NEW S, IsFiniteSet(S), NEW f, \A x \in S : f[x] \in Int
    PROVE  SumFunctionOnSet(f, S) \in Int
<1>1. PICK g : Adds(f, S, g) /\ SumFunctionOnSet(f, S) = g[S]
  BY SumRecursion, Zenon
<1>2. Splits(f, S, g)
  BY <1>1, SumSplits
<1> QED
  BY <1>1, <1>2 DEF Splits

(* The sum over nothing is zero.                                           *)
LEMMA SumEmpty ==
    ASSUME NEW f
    PROVE  SumFunctionOnSet(f, {}) = 0
<1>1. IsFiniteSet({})
  BY FS_EmptySet
<1>2. PICK g : Adds(f, {}, g) /\ SumFunctionOnSet(f, {}) = g[{}]
  BY <1>1, SumRecursion, Zenon
<1> QED
  BY <1>2 DEF Adds

(* The sum depends on the summands of the set only.                        *)
LEMMA SumSame ==
    ASSUME NEW S, IsFiniteSet(S), NEW f, \A x \in S : f[x] \in Int,
           NEW h, \A x \in S : f[x] = h[x]
    PROVE  SumFunctionOnSet(f, S) = SumFunctionOnSet(h, S)
<1>1. PICK g : Adds(f, S, g) /\ SumFunctionOnSet(f, S) = g[S]
  BY SumRecursion, Zenon
<1>2. PICK k : Adds(h, S, k) /\ SumFunctionOnSet(h, S) = k[S]
  BY SumRecursion, Zenon
<1>3. S \in SUBSET S /\ \A x \in S : h[x] \in Int
  OBVIOUS
<1>4. g[S] = k[S]
  BY <1>1, <1>2, <1>3, SumAgrees
<1> QED
  BY <1>1, <1>2, <1>4

(* An element that joins adds its summand.                                 *)
LEMMA SumJoin ==
    ASSUME NEW S, IsFiniteSet(S), NEW x, x \notin S,
           NEW f, \A y \in S \cup {x} : f[y] \in Int
    PROVE  SumFunctionOnSet(f, S \cup {x}) = SumFunctionOnSet(f, S) + f[x]
<1> DEFINE R == S \cup {x}
<1>1. IsFiniteSet(R)
  BY FS_AddElement
<1>2. /\ S \in SUBSET S /\ S \in SUBSET R /\ R \in SUBSET R /\ x \in R /\ R \ {x} = S
      /\ \A y \in R : f[y] \in Int
      /\ \A y \in S : f[y] \in Int
  OBVIOUS
<1> HIDE DEF R
<1>3. PICK g : Adds(f, R, g) /\ SumFunctionOnSet(f, R) = g[R]
  BY <1>1, SumRecursion, Zenon
<1>4. PICK k : Adds(f, S, k) /\ SumFunctionOnSet(f, S) = k[S]
  BY SumRecursion, Zenon
<1>5. g[S] = k[S]
  BY <1>1, <1>2, <1>3, <1>4, SumAgrees
<1>6. g[R] = f[x] + g[R \ {x}] /\ g[R \ {x}] \in Int
  <2>1. Splits(f, R, g)
    BY <1>1, <1>2, <1>3, SumSplits
  <2> QED
    BY <1>2, <2>1 DEF Splits
<1>7. f[x] \in Int
  BY <1>2
<1>8. SumFunctionOnSet(f, R) = SumFunctionOnSet(f, S) + f[x]
  <2>1. SumFunctionOnSet(f, R) = f[x] + g[S] /\ SumFunctionOnSet(f, S) = g[S]
    BY <1>2, <1>3, <1>4, <1>5, <1>6, Zenon
  <2>2. g[S] \in Int
    BY <1>2, <1>6, Zenon
  <2> QED
    BY <1>7, <2>1, <2>2
<1> QED
  BY <1>8 DEF R

(* An element that leaves takes its summand away.                          *)
LEMMA SumLeave ==
    ASSUME NEW S, IsFiniteSet(S), NEW x \in S, NEW f, \A y \in S : f[y] \in Int
    PROVE  SumFunctionOnSet(f, S \ {x}) = SumFunctionOnSet(f, S) - f[x]
<1> DEFINE R == S \ {x}
<1>1. IsFiniteSet(R) /\ x \notin R /\ S = R \cup {x} /\ \A y \in R : f[y] \in Int
  BY FS_Subset
<1> HIDE DEF R
<1>2. SumFunctionOnSet(f, R \cup {x}) = SumFunctionOnSet(f, R) + f[x]
  BY <1>1, SumJoin
<1>3. SumFunctionOnSet(f, R) \in Int /\ f[x] \in Int
  BY <1>1, SumType
<1>4. SumFunctionOnSet(f, R) = SumFunctionOnSet(f, S) - f[x]
  <2> DEFINE a == SumFunctionOnSet(f, R)
             b == SumFunctionOnSet(f, S)
  <2>1. b = a + f[x] /\ a \in Int /\ f[x] \in Int
    BY <1>1, <1>2, <1>3
  <2> HIDE DEF a, b
  <2>2. a = b - f[x]
    BY <2>1
  <2> QED
    BY <2>2 DEF a, b
<1> QED
  BY <1>4 DEF R

(* Shifting every summand by d of a second one shifts the sum by d of the  *)
(* second sum.                                                             *)
LEMMA SumShift ==
    ASSUME NEW S, IsFiniteSet(S), NEW d \in Int,
           NEW f, \A x \in S : f[x] \in Int,
           NEW w, \A x \in S : w[x] \in Int,
           NEW h, \A x \in S : h[x] = f[x] - d * w[x]
    PROVE  SumFunctionOnSet(h, S) = SumFunctionOnSet(f, S) - d * SumFunctionOnSet(w, S)
<1> DEFINE F(T) == SumFunctionOnSet(f, T)
           W(T) == SumFunctionOnSet(w, T)
           H(T) == SumFunctionOnSet(h, T)
           G == {T \in SUBSET S : H(T) = F(T) - d * W(T)}
<1>1. {} \in G
  <2>1. F({}) = 0 /\ W({}) = 0 /\ H({}) = 0
    BY SumEmpty
  <2>2. 0 - d * 0 = 0
    OBVIOUS
  <2> QED
    BY <2>1, <2>2
<1>2. ASSUME NEW T \in SUBSET S, T \in G, NEW x \in S \ T
      PROVE  T \cup {x} \in G
  <2>1. /\ IsFiniteSet(T) /\ x \notin T
        /\ \A y \in T : f[y] \in Int /\ w[y] \in Int /\ h[y] \in Int
        /\ \A y \in T \cup {x} : f[y] \in Int /\ w[y] \in Int /\ h[y] \in Int
    BY FS_Subset
  <2>2. F(T) \in Int /\ W(T) \in Int
    BY <2>1, SumType
  <2>3. /\ F(T \cup {x}) = F(T) + f[x]
        /\ W(T \cup {x}) = W(T) + w[x]
        /\ H(T \cup {x}) = H(T) + h[x]
    BY <2>1, SumJoin
  <2>4. H(T) = F(T) - d * W(T) /\ h[x] = f[x] - d * w[x] /\ f[x] \in Int /\ w[x] \in Int
    BY <1>2
  <2>5. T \cup {x} \in SUBSET S
    OBVIOUS
  <2>6. \A a, b, c, e \in Int : (a - d * b) + (c - d * e) = (a + c) - d * (b + e)
    OBVIOUS
  <2> HIDE DEF F, W, H
  <2>7. H(T \cup {x}) = F(T \cup {x}) - d * W(T \cup {x})
    BY <2>2, <2>3, <2>4, <2>6
  <2> QED
    BY <2>5, <2>7
<1> HIDE DEF G
<1>3. SUBSET S \subseteq G
  BY <1>1, <1>2, SetsReached
<1> QED
  BY <1>3 DEF G

(* A sum of numbers that are not negative is none of its summands' less.   *)
LEMMA SumBounds ==
    ASSUME NEW S, IsFiniteSet(S), NEW f, \A x \in S : f[x] \in Nat
    PROVE  /\ SumFunctionOnSet(f, S) \in Nat
           /\ \A x \in S : f[x] <= SumFunctionOnSet(f, S)
<1> DEFINE F(T) == SumFunctionOnSet(f, T)
           G == {T \in SUBSET S : F(T) \in Nat}
<1>1. {} \in G
  BY SumEmpty
<1>2. ASSUME NEW T \in SUBSET S, T \in G, NEW x \in S \ T
      PROVE  T \cup {x} \in G
  <2>1. /\ IsFiniteSet(T) /\ x \notin T
        /\ \A y \in T \cup {x} : f[y] \in Int
    BY FS_Subset
  <2>2. F(T \cup {x}) = F(T) + f[x]
    BY <2>1, SumJoin
  <2> HIDE DEF F
  <2>3. F(T \cup {x}) \in Nat
    BY <1>2, <2>2
  <2> QED
    BY <2>3
<1> HIDE DEF G
<1>3. SUBSET S \subseteq G
  BY <1>1, <1>2, SetsReached
<1>4. ASSUME NEW x \in S PROVE f[x] <= F(S)
  <2>1. F(S \ {x}) = F(S) - f[x]
    <3>1. \A y \in S : f[y] \in Int
      OBVIOUS
    <3> QED
      BY <3>1, SumLeave
  <2>2. F(S \ {x}) \in Nat /\ F(S) \in Nat
    BY <1>3 DEF G
  <2> HIDE DEF F
  <2> QED
    BY <2>1, <2>2
<1> QED
  BY <1>3, <1>4 DEF G
=============================================================================
