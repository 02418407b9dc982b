---------------------------- MODULE FiniteFacts ----------------------------
(***************************************************************************)
(* What the proofs need of finite sets and numbers: induction in the form  *)
(* of a family of sets, least and greatest elements, the sum of a function *)
(* over a set, the order Ranked puts a set in, which of a set comes first, *)
(* sequences strung together, and the clusters of a quantity.              *)
(***************************************************************************)
EXTENDS NumericClusters, FiniteSetsExt, Functions,
        FiniteSetTheorems, SequenceTheorems, TLAPS

(***************************************************************************)
(* Induction                                                               *)
(***************************************************************************)

\* A finite set belongs to every family that has the empty set and is closed
\* under adding one of its elements.
THEOREM SetInduction ==
  ASSUME NEW S, IsFiniteSet(S), NEW F,
         {} \in F, \A T \in SUBSET S : \A x \in S \ T : T \in F => T \cup {x} \in F
  PROVE  S \in F
<1> DEFINE R == StrictSubsetOrdering(S)
           B == (SUBSET S) \ F
<1>1. IsWellFoundedOn(R, FiniteSubsetsOf(S))
  BY FS_StrictSubsetOrderingWellFounded
<1>2. FiniteSubsetsOf(S) = SUBSET S
  BY FS_FiniteSubsetsOfFinite
<1>3. \A U, T \in SUBSET S : U \subseteq T /\ U # T => <<U, T>> \in R
  BY DEF StrictSubsetOrdering
<1> HIDE DEF R
<1> SUFFICES ASSUME B # {} PROVE FALSE
  OBVIOUS
<1>4. PICK T \in B : \A U \in B : ~(<<U, T>> \in R)
  <2>1. IsWellFoundedOn(R, SUBSET S)
    BY <1>1, <1>2
  <2>2. B \subseteq SUBSET S /\ B # {}
    OBVIOUS
  <2> HIDE DEF B
  <2> QED BY <2>1, <2>2, WFMin
<1>5. PICK x \in T : TRUE
  OBVIOUS
<1>6. T \ {x} \in SUBSET S /\ T \ {x} \subseteq T /\ T \ {x} # T
  BY <1>5
<1>7. T \ {x} \in F
  BY <1>3, <1>4, <1>6
<1>8. (T \ {x}) \cup {x} = T
  BY <1>5
<1> QED BY <1>5, <1>6, <1>7, <1>8

\* Every set of naturals with an element has a least one.
THEOREM LeastNumber ==
  ASSUME NEW T \in SUBSET Nat, T # {}
  PROVE  \E n \in T : \A m \in T : n <= m
<1>1. PICK k \in T : TRUE
  OBVIOUS
<1> DEFINE F == {A \in SUBSET (0..k) : A = {} \/ \E n \in A : \A m \in A : n <= m}
<1>2. IsFiniteSet((0..k) \cap T)
  <2>1. IsFiniteSet(0..k)
    BY FS_Interval
  <2> QED BY <2>1, FS_Subset
<1>3. {} \in F
  OBVIOUS
<1>4. \A A \in SUBSET ((0..k) \cap T) : \A x \in ((0..k) \cap T) \ A : A \in F => A \cup {x} \in F
  <2> SUFFICES ASSUME NEW A \in F, NEW x \in (0..k) PROVE A \cup {x} \in F
    OBVIOUS
  <2>1. A \cup {x} \in SUBSET (0..k)
    OBVIOUS
  <2>2. CASE A = {}
    BY <2>1, <2>2
  <2>3. CASE A # {}
    <3>1. PICK n \in A : \A m \in A : n <= m
      BY <2>3
    <3>2. CASE n <= x
      BY <3>1, <3>2, <2>1
    <3>3. CASE x < n
      <4>1. \A m \in A \cup {x} : x <= m
        BY <3>1, <3>3
      <4> QED BY <4>1, <2>1
    <3> QED BY <3>2, <3>3
  <2> QED BY <2>2, <2>3
<1>5. (0..k) \cap T \in F
  <2> HIDE DEF F
  <2> QED BY <1>2, <1>3, <1>4, SetInduction
<1>6. k \in (0..k) \cap T
  OBVIOUS
<1> QED BY <1>5, <1>6

\* Induction over the naturals.
THEOREM NumberInduction ==
  ASSUME NEW T, 0 \in T, \A n \in Nat : n \in T => n + 1 \in T
  PROVE  Nat \subseteq T
<1> SUFFICES ASSUME Nat \ T # {} PROVE FALSE
  OBVIOUS
<1>1. PICK n \in Nat \ T : \A m \in Nat \ T : n <= m
  BY LeastNumber
<1>2. n - 1 \in Nat /\ n = (n - 1) + 1
  OBVIOUS
<1> QED BY <1>1, <1>2

\* A finite set of integers with an element has a least and a greatest.
THEOREM FiniteExtremes ==
  ASSUME NEW S, IsFiniteSet(S), S \subseteq Int, S # {}
  PROVE  (\E n \in S : \A m \in S : n <= m) /\ (\E n \in S : \A m \in S : m <= n)
<1> DEFINE F == {A \in SUBSET S : A # {} => /\ \E n \in A : \A m \in A : n <= m
                                            /\ \E n \in A : \A m \in A : m <= n}
<1>1. {} \in F
  OBVIOUS
<1>2. \A A \in SUBSET S : \A x \in S \ A : A \in F => A \cup {x} \in F
  <2> SUFFICES ASSUME NEW A \in F, NEW x \in S PROVE A \cup {x} \in F
    OBVIOUS
  <2>1. A \cup {x} \in SUBSET S
    OBVIOUS
  <2>2. CASE A = {}
    BY <2>1, <2>2
  <2>3. CASE A # {}
    <3>1. PICK n \in A : \A m \in A : n <= m
      BY <2>3
    <3>2. PICK p \in A : \A m \in A : m <= p
      BY <2>3
    <3>3. \E q \in A \cup {x} : \A m \in A \cup {x} : q <= m
      <4>1. CASE n <= x
        BY <3>1, <4>1
      <4>2. CASE x < n
        <5>1. \A m \in A \cup {x} : x <= m
          BY <3>1, <4>2
        <5> QED BY <5>1
      <4> QED BY <4>1, <4>2
    <3>4. \E q \in A \cup {x} : \A m \in A \cup {x} : m <= q
      <4>1. CASE x <= p
        BY <3>2, <4>1
      <4>2. CASE p < x
        <5>1. \A m \in A \cup {x} : m <= x
          BY <3>2, <4>2
        <5> QED BY <5>1
      <4> QED BY <4>1, <4>2
    <3> QED BY <3>3, <3>4, <2>1
  <2> QED BY <2>2, <2>3
<1>3. S \in F
  <2> HIDE DEF F
  <2> QED BY <1>1, <1>2, SetInduction
<1> QED BY <1>3

\* Max and Min of the community modules are what they say.
THEOREM MaxMinFacts ==
  ASSUME NEW S, IsFiniteSet(S), S \subseteq Int, S # {}
  PROVE  /\ Max(S) \in S /\ \A m \in S : m <= Max(S)
         /\ Min(S) \in S /\ \A m \in S : Min(S) <= m
BY FiniteExtremes DEF Max, Min

(***************************************************************************)
(* Sums                                                                    *)
(***************************************************************************)

\* The sum of a function over some of its arguments, as a function of them.
IsSumOver(g, f, S) ==
  g = [s \in SUBSET S |->
         IF s = {} THEN 0 ELSE f[CHOOSE x \in s : TRUE] + g[s \ {CHOOSE x \in s : TRUE}]]

LEMMA SumUnfolds ==
  ASSUME NEW f, NEW S
  PROVE  SumFunctionOnSet(f, S) = (CHOOSE g : IsSumOver(g, f, S))[S]
BY DEF SumFunctionOnSet, FoldFunctionOnSet, MapThenFoldSet, IsSumOver

LEMMA SumExists ==
  ASSUME NEW f, NEW S, IsFiniteSet(S), \A x \in S : f[x] \in Int
  PROVE  \E g \in [SUBSET S -> Int] : IsSumOver(g, f, S)
<1> DEFINE c(s) == CHOOSE x \in s : TRUE
           Small(n) == {s \in SUBSET S : Cardinality(s) <= n}
           Holds(g, n) == \A s \in Small(n) :
                            g[s] = IF s = {} THEN 0 ELSE f[c(s)] + g[s \ {c(s)}]
           T == {n \in Nat : \E g \in [Small(n) -> Int] : Holds(g, n)}
<1>1. \A s \in SUBSET S : IsFiniteSet(s) /\ Cardinality(s) \in Nat
  BY FS_Subset, FS_CardinalityType
<1>2. \A s \in SUBSET S : s # {} =>
        /\ c(s) \in s /\ f[c(s)] \in Int /\ s \ {c(s)} \in SUBSET S
        /\ Cardinality(s \ {c(s)}) = Cardinality(s) - 1
  <2> SUFFICES ASSUME NEW s \in SUBSET S, s # {}
               PROVE  c(s) \in s /\ f[c(s)] \in Int /\ s \ {c(s)} \in SUBSET S
                      /\ Cardinality(s \ {c(s)}) = Cardinality(s) - 1
    OBVIOUS
  <2>1. c(s) \in s
    OBVIOUS
  <2>2. Cardinality(s \ {c(s)}) = Cardinality(s) - 1
    <3> HIDE DEF c
    <3> QED BY <1>1, <2>1, FS_RemoveElement
  <2> QED BY <2>1, <2>2
<1>3. \A s \in SUBSET S : Cardinality(s) <= 0 => s = {}
  BY <1>1, FS_EmptySet
<1> HIDE DEF c
<1>4. 0 \in T
  <2>1. [s \in Small(0) |-> 0] \in [Small(0) -> Int]
    OBVIOUS
  <2>2. Holds([s \in Small(0) |-> 0], 0)
    BY <1>3
  <2> QED BY <2>1, <2>2
<1>5. ASSUME NEW n \in Nat, n \in T PROVE n + 1 \in T
  <2>1. PICK g \in [Small(n) -> Int] : Holds(g, n)
    BY <1>5
  <2> DEFINE h == [s \in Small(n + 1) |-> IF s \in Small(n) THEN g[s]
                                         ELSE f[c(s)] + g[s \ {c(s)}]]
  <2>2. \A s \in Small(n + 1) : s # {} => s \ {c(s)} \in Small(n)
    BY <1>1, <1>2
  <2>3. \A s \in Small(n) : s \in Small(n + 1)
    BY <1>1
  <2>4. \A s \in Small(n) : s # {} => s \ {c(s)} \in Small(n)
    BY <1>1, <1>2
  <2>5. {} \in Small(n)
    BY FS_EmptySet
  <2>6. h \in [Small(n + 1) -> Int]
    <3> SUFFICES ASSUME NEW s \in Small(n + 1), s \notin Small(n)
                 PROVE  f[c(s)] + g[s \ {c(s)}] \in Int
      OBVIOUS
    <3>1. s # {}
      BY <2>5
    <3>2. g[s \ {c(s)}] \in Int
      BY <2>1, <2>2, <3>1
    <3> QED BY <1>2, <3>1, <3>2
  <2>7. Holds(h, n + 1)
    <3> SUFFICES ASSUME NEW s \in Small(n + 1)
                 PROVE  h[s] = IF s = {} THEN 0 ELSE f[c(s)] + h[s \ {c(s)}]
      OBVIOUS
    <3>1. CASE s \in Small(n)
      BY <2>1, <2>3, <2>4, <3>1
    <3>2. CASE s \notin Small(n)
      BY <2>2, <2>3, <2>5, <3>2
    <3> QED BY <3>1, <3>2
  <2>8. \E k \in [Small(n + 1) -> Int] : Holds(k, n + 1)
    <3> HIDE DEF h, Holds, Small
    <3> QED BY <2>6, <2>7
  <2> HIDE DEF h, Holds, Small
  <2> QED BY <2>8
<1>6. Nat \subseteq T
  <2> HIDE DEF T
  <2> QED BY <1>4, <1>5, NumberInduction
<1>7. PICK g \in [Small(Cardinality(S)) -> Int] : Holds(g, Cardinality(S))
  BY <1>1, <1>6
<1>8. Small(Cardinality(S)) = SUBSET S
  BY FS_Subset
<1>9. g = [s \in SUBSET S |-> IF s = {} THEN 0 ELSE f[c(s)] + g[s \ {c(s)}]]
  BY <1>7, <1>8
<1> QED BY <1>7, <1>8, <1>9 DEF c, IsSumOver

LEMMA SumUnique ==
  ASSUME NEW f, NEW S, IsFiniteSet(S), NEW U \in SUBSET S, NEW g, NEW h,
         IsSumOver(g, f, S), IsSumOver(h, f, U)
  PROVE  \A s \in SUBSET U : g[s] = h[s]
<1> DEFINE c(s) == CHOOSE x \in s : TRUE
           T == {n \in Nat : \A s \in SUBSET U : Cardinality(s) <= n => g[s] = h[s]}
<1>1. \A s \in SUBSET S : IsFiniteSet(s) /\ Cardinality(s) \in Nat
  BY FS_Subset, FS_CardinalityType
<1>2. \A s \in SUBSET U : s # {} =>
        s \ {c(s)} \in SUBSET U /\ Cardinality(s \ {c(s)}) = Cardinality(s) - 1
  <2> SUFFICES ASSUME NEW s \in SUBSET U, s # {}
               PROVE  Cardinality(s \ {c(s)}) = Cardinality(s) - 1
    OBVIOUS
  <2>1. c(s) \in s
    OBVIOUS
  <2> HIDE DEF c
  <2> QED BY <1>1, <2>1, FS_RemoveElement
<1>3. /\ \A s \in SUBSET U : g[s] = IF s = {} THEN 0 ELSE f[c(s)] + g[s \ {c(s)}]
      /\ \A s \in SUBSET U : h[s] = IF s = {} THEN 0 ELSE f[c(s)] + h[s \ {c(s)}]
  BY DEF IsSumOver
<1> HIDE DEF c
<1>4. 0 \in T
  <2> SUFFICES ASSUME NEW s \in SUBSET U, Cardinality(s) <= 0 PROVE g[s] = h[s]
    OBVIOUS
  <2>1. s = {}
    BY <1>1, FS_EmptySet
  <2> QED BY <1>3, <2>1
<1>5. ASSUME NEW n \in Nat, n \in T PROVE n + 1 \in T
  <2> SUFFICES ASSUME NEW s \in SUBSET U, Cardinality(s) <= n + 1 PROVE g[s] = h[s]
    OBVIOUS
  <2>1. CASE s = {}
    BY <1>3, <2>1
  <2>2. CASE s # {}
    <3>1. g[s \ {c(s)}] = h[s \ {c(s)}]
      BY <1>1, <1>2, <1>5, <2>2
    <3>2. g[s] = f[c(s)] + g[s \ {c(s)}] /\ h[s] = f[c(s)] + h[s \ {c(s)}]
      BY <1>3, <2>2
    <3> QED BY <3>1, <3>2
  <2> QED BY <2>1, <2>2
<1>6. Nat \subseteq T
  <2> HIDE DEF T
  <2> QED BY <1>4, <1>5, NumberInduction
<1> QED BY <1>1, <1>6

\* The empty sum, and the element taken first.
LEMMA SumFirst ==
  ASSUME NEW f, NEW S, IsFiniteSet(S), \A x \in S : f[x] \in Int
  PROVE  /\ SumFunctionOnSet(f, S) \in Int
         /\ S = {} => SumFunctionOnSet(f, S) = 0
         /\ S # {} => LET x == CHOOSE x \in S : TRUE
                      IN SumFunctionOnSet(f, S) = f[x] + SumFunctionOnSet(f, S \ {x})
<1> DEFINE iter(U) == CHOOSE g : IsSumOver(g, f, U)
           x == CHOOSE x \in S : TRUE
<1>1. \A U \in SUBSET S : IsSumOver(iter(U), f, U) /\ SumFunctionOnSet(f, U) = iter(U)[U]
  <2> TAKE U \in SUBSET S
  <2>1. \E g : IsSumOver(g, f, U)
    BY SumExists, FS_Subset
  <2> QED BY <2>1, SumUnfolds
<1>2. PICK g \in [SUBSET S -> Int] : IsSumOver(g, f, S)
  BY SumExists
<1> HIDE DEF iter
<1>3. \A U \in SUBSET S : SumFunctionOnSet(f, U) = g[U]
  BY <1>1, <1>2, SumUnique
<1>4. g[S] = IF S = {} THEN 0 ELSE f[x] + g[S \ {x}]
  BY <1>2 DEF IsSumOver
<1> QED BY <1>2, <1>3, <1>4

\* Any element may be taken out of a sum.
THEOREM SumAdds ==
  ASSUME NEW f, NEW S, IsFiniteSet(S), \A x \in S : f[x] \in Int, NEW e \in S
  PROVE  SumFunctionOnSet(f, S) = f[e] + SumFunctionOnSet(f, S \ {e})
<1> DEFINE Sum(s) == SumFunctionOnSet(f, s)
           c(s) == CHOOSE x \in s : TRUE
           T == {n \in Nat : \A s \in SUBSET S : Cardinality(s) <= n =>
                                \A x \in s : Sum(s) = f[x] + Sum(s \ {x})}
<1>1. \A s \in SUBSET S : IsFiniteSet(s) /\ Cardinality(s) \in Nat /\ Sum(s) \in Int
  BY FS_Subset, FS_CardinalityType, SumFirst
<1>2. \A s \in SUBSET S : s # {} => c(s) \in s /\ Sum(s) = f[c(s)] + Sum(s \ {c(s)})
  <2> TAKE s \in SUBSET S
  <2>1. IsFiniteSet(s) /\ \A x \in s : f[x] \in Int
    BY <1>1
  <2> QED BY <2>1, SumFirst
<1>3. \A s \in SUBSET S : \A x \in s : Cardinality(s \ {x}) = Cardinality(s) - 1
  BY <1>1, FS_RemoveElement
<1> HIDE DEF c, Sum
<1>4. 0 \in T
  BY <1>1, FS_EmptySet
<1>5. ASSUME NEW n \in Nat, n \in T PROVE n + 1 \in T
  <2> SUFFICES ASSUME NEW s \in SUBSET S, Cardinality(s) <= n + 1, NEW x \in s
               PROVE  Sum(s) = f[x] + Sum(s \ {x})
    OBVIOUS
  <2>1. CASE x = c(s)
    BY <1>2, <2>1
  <2>2. CASE x # c(s)
    <3> DEFINE y == c(s)
               u == s \ {x, y}
    <3>1. y \in s /\ Sum(s) = f[y] + Sum(s \ {y})
      BY <1>2
    <3>2. /\ s \ {y} \in SUBSET S /\ Cardinality(s \ {y}) <= n /\ x \in s \ {y}
          /\ s \ {x} \in SUBSET S /\ Cardinality(s \ {x}) <= n /\ y \in s \ {x}
      BY <1>1, <1>3, <2>2, <3>1
    <3>3. (s \ {y}) \ {x} = u /\ (s \ {x}) \ {y} = u
      OBVIOUS
    <3>4. Sum(s \ {y}) = f[x] + Sum(u)
      BY <1>5, <3>2, <3>3
    <3>5. Sum(s \ {x}) = f[y] + Sum(u)
      BY <1>5, <3>2, <3>3
    <3>6. f[x] \in Int /\ f[y] \in Int /\ Sum(u) \in Int
      BY <1>1, <3>1
    <3> QED BY <3>1, <3>4, <3>5, <3>6
  <2> QED BY <2>1, <2>2
<1>6. Nat \subseteq T
  <2> HIDE DEF T
  <2> QED BY <1>4, <1>5, NumberInduction
<1>7. Cardinality(S) \in T
  BY <1>1, <1>6
<1> QED BY <1>7, <1>1 DEF Sum

\* A sum reads nothing of a function but its values on the set.
THEOREM SumReads ==
  ASSUME NEW f, NEW g, NEW S, IsFiniteSet(S), \A x \in S : f[x] \in Int /\ f[x] = g[x]
  PROVE  SumFunctionOnSet(f, S) = SumFunctionOnSet(g, S)
<1> DEFINE F == {T \in SUBSET S : SumFunctionOnSet(f, T) = SumFunctionOnSet(g, T)}
<1>1. {} \in F
  <2>1. IsFiniteSet({})
    BY FS_EmptySet
  <2> QED BY <2>1, SumFirst
<1>2. \A T \in SUBSET S : \A x \in S \ T : T \in F => T \cup {x} \in F
  <2> SUFFICES ASSUME NEW T \in F, NEW x \in S \ T PROVE T \cup {x} \in F
    OBVIOUS
  <2> DEFINE U == T \cup {x}
  <2>1. IsFiniteSet(U) /\ x \in U /\ U \ {x} = T /\ U \in SUBSET S
    BY FS_Subset
  <2> HIDE DEF U
  <2>2. SumFunctionOnSet(f, U) = f[x] + SumFunctionOnSet(f, T)
    BY <2>1, SumAdds
  <2>3. SumFunctionOnSet(g, U) = g[x] + SumFunctionOnSet(g, T)
    BY <2>1, SumAdds
  <2>4. U \in F
    BY <2>1, <2>2, <2>3
  <2> QED BY <2>4 DEF U
<1>3. S \in F
  <2> HIDE DEF F
  <2> QED BY <1>1, <1>2, SetInduction
<1> QED BY <1>3

\* What one more element adds to the sum of a function over its whole domain.
THEOREM SumFunctionAdds ==
  ASSUME NEW f, NEW S, IsFiniteSet(S), NEW e, e \notin S,
         DOMAIN f = S \cup {e}, \A x \in S \cup {e} : f[x] \in Int,
         NEW g, DOMAIN g = S, \A x \in S : g[x] = f[x]
  PROVE  SumFunction(f) = f[e] + SumFunction(g) /\ SumFunction(g) \in Int
<1> DEFINE U == S \cup {e}
<1>1. IsFiniteSet(U) /\ e \in U /\ U \ {e} = S
  BY FS_AddElement
<1>2. SumFunctionOnSet(f, U) = f[e] + SumFunctionOnSet(f, S)
  <2> HIDE DEF U
  <2>1. \A x \in U : f[x] \in Int
    BY DEF U
  <2> QED BY <1>1, <2>1, SumAdds
<1>3. SumFunctionOnSet(f, S) = SumFunctionOnSet(g, S)
  BY SumReads
<1>4. SumFunctionOnSet(g, S) \in Int
  BY SumFirst
<1> QED BY <1>2, <1>3, <1>4 DEF SumFunction

(***************************************************************************)
(* Orders                                                                  *)
(***************************************************************************)

\* R is a strict total order of S.
Orders(R, S) ==
  /\ \A x \in S : <<x, x>> \notin R
  /\ \A x, y, z \in S : <<x, y>> \in R /\ <<y, z>> \in R => <<x, z>> \in R
  /\ \A x, y \in S : x # y => <<x, y>> \in R \/ <<y, x>> \in R

\* How many of S come before x.
Rank(x, R, S) == Cardinality({y \in S : <<y, x>> \in R})

\* Counting what comes before an element numbers the set from 0 on.
THEOREM Ranking ==
  ASSUME NEW S, IsFiniteSet(S), NEW R, Orders(R, S)
  PROVE  /\ Cardinality(S) \in Nat
         /\ \A x \in S : Rank(x, R, S) \in Nat /\ Rank(x, R, S) < Cardinality(S)
         /\ \A x, z \in S : <<x, z>> \in R => Rank(x, R, S) < Rank(z, R, S)
         /\ \A x, z \in S : Rank(x, R, S) = Rank(z, R, S) => x = z
         /\ \A i \in 1..Cardinality(S) : \E x \in S : Rank(x, R, S) = i - 1
<1> DEFINE Before(x) == {y \in S : <<y, x>> \in R}
           n == Cardinality(S)
           rank == [x \in S |-> Cardinality(Before(x))]
<1>1. \A x \in S : IsFiniteSet(Before(x)) /\ Cardinality(Before(x)) \in Nat
  BY FS_Subset, FS_CardinalityType
<1>2. n \in Nat
  BY FS_CardinalityType
<1>3. \A x \in S : Cardinality(Before(x)) < n
  <2> TAKE x \in S
  <2>1. Before(x) \in SUBSET S /\ Before(x) # S
    BY DEF Orders
  <2> HIDE DEF Before
  <2> QED BY <1>1, <1>2, <2>1, FS_Subset
<1>4. \A x, z \in S : <<x, z>> \in R => Cardinality(Before(x)) < Cardinality(Before(z))
  <2> SUFFICES ASSUME NEW x \in S, NEW z \in S, <<x, z>> \in R
               PROVE  Cardinality(Before(x)) < Cardinality(Before(z))
    OBVIOUS
  <2>1. Before(x) \in SUBSET Before(z)
    BY DEF Orders
  <2>2. Before(x) # Before(z)
    BY DEF Orders
  <2> HIDE DEF Before
  <2> QED BY <1>1, <2>1, <2>2, FS_Subset
<1>5. \A x, z \in S : Cardinality(Before(x)) = Cardinality(Before(z)) => x = z
  <2> SUFFICES ASSUME NEW x \in S, NEW z \in S, x # z
               PROVE  Cardinality(Before(x)) # Cardinality(Before(z))
    OBVIOUS
  <2>1. Cardinality(Before(x)) \in Nat /\ Cardinality(Before(z)) \in Nat
    BY <1>1
  <2>2. <<x, z>> \in R \/ <<z, x>> \in R
    BY DEF Orders
  <2>3. Cardinality(Before(x)) < Cardinality(Before(z)) \/ Cardinality(Before(z)) < Cardinality(Before(x))
    <3> HIDE DEF Before
    <3> QED BY <1>4, <2>2
  <2> HIDE DEF Before
  <2> QED BY <2>1, <2>3
<1> HIDE DEF Before
<1>6. rank \in [S -> 0..(n - 1)]
  BY <1>1, <1>2, <1>3
<1>7. rank \in Injection(S, 0..(n - 1))
  BY <1>5, <1>6 DEF Injection, IsInjective
<1>8. IsFiniteSet(0..(n - 1)) /\ Cardinality(0..(n - 1)) = n
  BY <1>2, FS_Interval
<1>9. rank \in Surjection(S, 0..(n - 1))
  <2> HIDE DEF rank
  <2> QED BY <1>7, <1>8, FS_Injection
<1>10. ASSUME NEW i \in 1..n PROVE \E x \in S : rank[x] = i - 1
  <2>1. i - 1 \in 0..(n - 1)
    BY <1>2
  <2> QED BY <1>9, <2>1 DEF Surjection
<1>11. \A x \in S : rank[x] = Rank(x, R, S)
  BY DEF Rank, Before
<1>12. \A x \in S : Rank(x, R, S) \in Nat /\ Rank(x, R, S) < n
  BY <1>1, <1>3, <1>11
<1>13. \A x, z \in S : <<x, z>> \in R => Rank(x, R, S) < Rank(z, R, S)
  BY <1>4, <1>11
<1>14. \A x, z \in S : Rank(x, R, S) = Rank(z, R, S) => x = z
  BY <1>5, <1>11
<1> HIDE DEF rank
<1> QED BY <1>2, <1>10, <1>11, <1>12, <1>13, <1>14

\* What Ranked makes of a set and an order of it.
IsRanked(r, R, S) ==
  r = [i \in 1..Cardinality(S) |-> CHOOSE x \in S : Rank(x, R, S) = i - 1]

\* Ranked numbers the elements of a set in their order.
THEOREM InOrder ==
  ASSUME NEW S, IsFiniteSet(S), NEW R, Orders(R, S), NEW r, IsRanked(r, R, S)
  PROVE  /\ Cardinality(S) \in Nat /\ r \in [1..Cardinality(S) -> S]
         /\ \A i, j \in 1..Cardinality(S) : i < j => <<r[i], r[j]>> \in R
         /\ \A x \in S : \E i \in 1..Cardinality(S) : r[i] = x
<1> DEFINE n == Cardinality(S)
           rank == [x \in S |-> Rank(x, R, S)]
<1>1. /\ n \in Nat /\ \A x \in S : rank[x] \in Nat /\ rank[x] < n
      /\ \A x, z \in S : <<x, z>> \in R => rank[x] < rank[z]
      /\ \A x, z \in S : rank[x] = rank[z] => x = z
      /\ \A i \in 1..n : \E x \in S : rank[x] = i - 1
  BY Ranking
<1>2. ASSUME NEW i \in 1..n PROVE r[i] \in S /\ rank[r[i]] = i - 1
  <2>1. \E x \in S : Rank(x, R, S) = i - 1
    BY <1>1
  <2>2. r[i] = CHOOSE x \in S : Rank(x, R, S) = i - 1
    BY DEF IsRanked
  <2> QED BY <2>1, <2>2
<1>3. r \in [1..n -> S]
  BY <1>2 DEF IsRanked
<1> HIDE DEF rank, n
<1>a. n \in Nat /\ \A x \in S : rank[x] \in Nat /\ rank[x] < n
  BY <1>1
<1>b. \A x, z \in S : <<x, z>> \in R => rank[x] < rank[z]
  BY <1>1
<1>c. \A x, z \in S : rank[x] = rank[z] => x = z
  BY <1>1
<1>4. ASSUME NEW i \in 1..n, NEW j \in 1..n, i < j PROVE <<r[i], r[j]>> \in R
  <2> DEFINE x == r[i]
             z == r[j]
  <2>1. x \in S /\ z \in S /\ rank[x] = i - 1 /\ rank[z] = j - 1
    BY <1>2
  <2> HIDE DEF x, z
  <2>2. i \in Nat /\ j \in Nat
    BY <1>a
  <2>3. rank[x] < rank[z] /\ ~(rank[z] < rank[x]) /\ rank[x] # rank[z]
    BY <1>4, <2>1, <2>2
  <2>4. x # z /\ <<z, x>> \notin R
    BY <1>b, <2>1, <2>3
  <2>5. <<x, z>> \in R
    BY <2>1, <2>4 DEF Orders
  <2> QED BY <2>5 DEF x, z
<1>5. ASSUME NEW x \in S PROVE \E i \in 1..n : r[i] = x
  <2> DEFINE i == rank[x] + 1
  <2>1. i \in 1..n /\ i - 1 = rank[x]
    BY <1>a
  <2> HIDE DEF i
  <2>2. r[i] \in S /\ rank[r[i]] = rank[x]
    BY <1>2, <2>1
  <2>3. r[i] = x
    BY <1>c, <2>2
  <2> QED BY <2>1, <2>3
<1> QED BY <1>1, <1>3, <1>4, <1>5 DEF n

\* Ascending numbers its arguments by their values.
THEOREM AscendingFacts ==
  ASSUME NEW S \in SUBSET Int, IsFiniteSet(S), NEW at \in [S -> Int]
  PROVE  /\ Cardinality(S) \in Nat /\ Ascending(at) \in [1..Cardinality(S) -> S]
         /\ \A i, j \in 1..Cardinality(S) : i <= j => at[Ascending(at)[i]] <= at[Ascending(at)[j]]
         /\ \A x \in S : \E i \in 1..Cardinality(S) : Ascending(at)[i] = x
<1> DEFINE Lower(i, j) == at[i] < at[j] \/ (at[i] = at[j] /\ i < j)
           R == {p \in S \X S : Lower(p[1], p[2])}
           order == Ascending(at)
           f(i) == CHOOSE x \in S : Cardinality({y \in S : Lower(y, x)}) = i - 1
<1>1. order = [i \in 1..Cardinality(S) |-> f(i)]
  <2>1. DOMAIN at = S
    OBVIOUS
  <2> QED BY <2>1 DEF Ascending, Ranked
<1>2. \A i, j \in S : <<i, j>> \in R <=> Lower(i, j)
  <2> HIDE DEF Lower
  <2> QED OBVIOUS
<1>3. \A i \in S : at[i] \in Int /\ i \in Int
  OBVIOUS
<1>4. Orders(R, S)
  <2>1. \A i \in S : ~Lower(i, i)
    BY <1>3
  <2>2. \A i, j, k \in S : Lower(i, j) /\ Lower(j, k) => Lower(i, k)
    BY <1>3
  <2>3. \A i, j \in S : i # j => Lower(i, j) \/ Lower(j, i)
    BY <1>3
  <2> HIDE DEF R, Lower
  <2> QED BY <1>2, <2>1, <2>2, <2>3 DEF Orders
<1> HIDE DEF R, Lower, order
<1>5. \A i : f(i) = CHOOSE x \in S : Rank(x, R, S) = i - 1
  <2>1. \A x \in S : {y \in S : Lower(y, x)} = {y \in S : <<y, x>> \in R}
    BY <1>2
  <2>2. \A x \in S : Cardinality({y \in S : Lower(y, x)}) = Rank(x, R, S)
    BY <2>1 DEF Rank
  <2> QED BY <2>2
<1> HIDE DEF f
<1>6. IsRanked(order, R, S)
  <2>1. \A i \in 1..Cardinality(S) : order[i] = f(i)
    BY <1>1
  <2>2. \A i \in 1..Cardinality(S) : order[i] = CHOOSE x \in S : Rank(x, R, S) = i - 1
    BY <1>5, <2>1
  <2>3. order = [i \in 1..Cardinality(S) |-> order[i]]
    BY <1>1
  <2> QED BY <2>2, <2>3 DEF IsRanked
<1>7. /\ Cardinality(S) \in Nat /\ order \in [1..Cardinality(S) -> S]
      /\ \A i, j \in 1..Cardinality(S) : i < j => <<order[i], order[j]>> \in R
      /\ \A x \in S : \E i \in 1..Cardinality(S) : order[i] = x
  BY <1>4, <1>6, InOrder
<1>8. ASSUME NEW i \in 1..Cardinality(S), NEW j \in 1..Cardinality(S), i <= j
      PROVE  at[order[i]] <= at[order[j]]
  <2> DEFINE x == order[i]
             z == order[j]
  <2>1. x \in S /\ z \in S /\ (i = j => x = z) /\ (i < j => <<x, z>> \in R)
    BY <1>7
  <2> HIDE DEF x, z
  <2>2. at[x] \in Int /\ at[z] \in Int
    BY <1>3, <2>1
  <2>3. i < j => Lower(x, z)
    BY <1>2, <2>1
  <2>4. i = j \/ i < j
    BY <1>7, <1>8
  <2>5. at[x] <= at[z]
    BY <2>1, <2>2, <2>3, <2>4 DEF Lower
  <2> QED BY <2>5 DEF x, z
<1> QED BY <1>7, <1>8 DEF order

\* What a function takes a finite set to is finite.
THEOREM FiniteImage ==
  ASSUME NEW S, IsFiniteSet(S), NEW f, DOMAIN f = S
  PROVE  IsFiniteSet({f[x] : x \in S})
<1> DEFINE T == {f[x] : x \in S}
           g == [x \in S |-> f[x]]
<1>1. g \in Surjection(S, T)
  BY DEF Surjection
<1> HIDE DEF g, T
<1>2. IsFiniteSet(T)
  BY <1>1, FS_Surjection
<1> QED BY <1>2 DEF T

\* A set of which no three elements differ has at most two.
LEMMA AtMostTwo ==
  ASSUME NEW T, \A x, y, z \in T : x = y \/ y = z \/ x = z
  PROVE  IsFiniteSet(T) /\ Cardinality(T) <= 2
<1>1. IsFiniteSet({}) /\ Cardinality({}) = 0
  BY FS_EmptySet
<1>2. CASE T = {}
  BY <1>1, <1>2
<1>3. CASE T # {}
  <2>1. PICK x \in T : TRUE
    BY <1>3
  <2>2. IsFiniteSet({x}) /\ Cardinality({x}) = 1
    BY FS_Singleton
  <2>3. CASE T \ {x} = {}
    <3>1. T = {x}
      BY <2>1, <2>3
    <3> QED BY <2>2, <3>1
  <2>4. CASE T \ {x} # {}
    <3>1. PICK y \in T \ {x} : TRUE
      BY <2>4
    <3>2. T = {x} \cup {y}
      BY <2>1, <3>1
    <3>3. IsFiniteSet({x} \cup {y}) /\ Cardinality({x} \cup {y}) = 2
      BY <2>2, <3>1, FS_AddElement
    <3> QED BY <3>2, <3>3
  <2> QED BY <2>3, <2>4
<1> QED BY <1>2, <1>3

(***************************************************************************)
(* First among finitely many                                               *)
(***************************************************************************)

\* By numbers that are compared one after the other, the least first.
AheadByThree(f, g, h, x, y) ==
  \/ f[x] < f[y]
  \/ f[x] = f[y] /\ g[x] < g[y]
  \/ f[x] = f[y] /\ g[x] = g[y] /\ h[x] <= h[y]
AheadByTwo(f, g, x, y) == f[x] < f[y] \/ (f[x] = f[y] /\ g[x] <= g[y])

\* Of finitely many things measured by three numbers, one comes first.
THEOREM FirstOfThree ==
  ASSUME NEW S, IsFiniteSet(S), S # {},
         NEW f \in [S -> Int], NEW g \in [S -> Int], NEW h \in [S -> Int]
  PROVE  \E x \in S : \A y \in S : AheadByThree(f, g, h, x, y)
<1>1. ASSUME NEW T, T \subseteq S, T # {}, NEW m \in [S -> Int]
      PROVE  \E x \in T : \A y \in T : m[x] <= m[y]
  <2> DEFINE n == [x \in T |-> m[x]]
             V == {n[x] : x \in T}
  <2>1. IsFiniteSet(T)
    BY <1>1, FS_Subset
  <2>2. DOMAIN n = T /\ \A x \in T : n[x] = m[x] /\ n[x] \in Int
    BY <1>1
  <2> HIDE DEF n
  <2>3. IsFiniteSet(V) /\ V \subseteq Int /\ V # {}
    BY <1>1, <2>1, <2>2, FiniteImage
  <2>4. PICK v \in V : \A w \in V : v <= w
    BY <2>3, FiniteExtremes
  <2> QED BY <2>2, <2>4
<1>2. PICK a \in S : \A y \in S : f[a] <= f[y]
  BY <1>1
<1> DEFINE A == {x \in S : f[x] = f[a]}
<1>3. PICK b \in A : \A y \in A : g[b] <= g[y]
  BY <1>1
<1> DEFINE B == {x \in A : g[x] = g[b]}
<1>4. PICK c \in B : \A y \in B : h[c] <= h[y]
  BY <1>1
<1>5. ASSUME NEW y \in S
      PROVE  AheadByThree(f, g, h, c, y)
  <2>1. f[c] = f[a] /\ g[c] = g[b] /\ f[a] <= f[y]
    BY <1>2
  <2>2. f[y] = f[a] => g[b] <= g[y]
    BY <1>3
  <2>3. f[y] = f[a] /\ g[y] = g[b] => h[c] <= h[y]
    BY <1>4
  <2>4. f[c] \in Int /\ f[y] \in Int /\ g[c] \in Int /\ g[y] \in Int
    OBVIOUS
  <2> QED BY <2>1, <2>2, <2>3, <2>4 DEF AheadByThree
<1> QED BY <1>5

\* The same of two numbers.
THEOREM FirstOfTwo ==
  ASSUME NEW S, IsFiniteSet(S), S # {}, NEW f \in [S -> Int], NEW g \in [S -> Int]
  PROVE  \E x \in S : \A y \in S : AheadByTwo(f, g, x, y)
<1>1. PICK x \in S : \A y \in S : AheadByThree(f, g, g, x, y)
  BY FirstOfThree, Zenon
<1>2. \A y \in S : AheadByTwo(f, g, x, y)
  <2>1. \A y \in S : g[x] \in Int /\ g[y] \in Int
    OBVIOUS
  <2> QED BY <1>1, <2>1 DEF AheadByThree, AheadByTwo
<1> QED BY <1>2

(***************************************************************************)
(* Sequences strung together                                               *)
(***************************************************************************)

IsFlattening(g, seqs, n) ==
  g = [i \in 1..n |-> IF i = 1 THEN seqs[i] ELSE g[i - 1] \o seqs[i]]

LEMMA FlattenUnfolds ==
  ASSUME NEW seqs, Len(seqs) # 0
  PROVE  FlattenSeq(seqs) = (CHOOSE g : IsFlattening(g, seqs, Len(seqs)))[Len(seqs)]
BY DEF FlattenSeq, IsFlattening

LEMMA FlattenExists ==
  ASSUME NEW seqs, NEW N \in Nat
  PROVE  \E g : IsFlattening(g, seqs, N)
<1> DEFINE T == {n \in Nat : \E g : IsFlattening(g, seqs, n)}
<1>1. 0 \in T
  <2> DEFINE g == [i \in 1..0 |-> {}]
  <2>1. IsFlattening(g, seqs, 0)
    BY DEF IsFlattening
  <2> HIDE DEF g
  <2> QED BY <2>1
<1>2. \A n \in Nat : n \in T => n + 1 \in T
  <2> SUFFICES ASSUME NEW n \in Nat, n \in T PROVE n + 1 \in T
    OBVIOUS
  <2>1. PICK g : IsFlattening(g, seqs, n)
    OBVIOUS
  <2>2. \A i \in 1..n : g[i] = IF i = 1 THEN seqs[i] ELSE g[i - 1] \o seqs[i]
    BY <2>1 DEF IsFlattening
  <2> DEFINE h == [i \in 1..(n + 1) |->
                     IF i <= n THEN g[i] ELSE IF i = 1 THEN seqs[i] ELSE g[i - 1] \o seqs[i]]
  <2>3. ASSUME NEW i \in 1..(n + 1)
        PROVE  h[i] = IF i = 1 THEN seqs[i] ELSE h[i - 1] \o seqs[i]
    <3>1. i # 1 => i - 1 \in 1..n /\ h[i - 1] = g[i - 1]
      OBVIOUS
    <3>2. i <= n => g[i] = IF i = 1 THEN seqs[i] ELSE g[i - 1] \o seqs[i]
      <4>1. i <= n => i \in 1..n
        OBVIOUS
      <4> HIDE DEF h
      <4> QED BY <2>2, <4>1
    <3>3. h[i] = IF i <= n THEN g[i] ELSE IF i = 1 THEN seqs[i] ELSE g[i - 1] \o seqs[i]
      OBVIOUS
    <3> HIDE DEF h
    <3> QED BY <3>1, <3>2, <3>3
  <2>4. IsFlattening(h, seqs, n + 1)
    <3>1. h = [i \in 1..(n + 1) |-> h[i]]
      OBVIOUS
    <3> HIDE DEF h
    <3> QED BY <2>3, <3>1 DEF IsFlattening
  <2> HIDE DEF h
  <2> QED BY <2>4
<1> HIDE DEF T
<1>3. N \in T
  BY <1>1, <1>2, NumberInduction
<1> QED BY <1>3 DEF T

\* The k-th member of s comes from an earlier one of the first n sequences of
\* seqs than the l-th, or from an earlier place of the same one.
InStringOrder(s, seqs, n, k, l) ==
  \E a, c \in 1..n : \E b \in DOMAIN seqs[a] : \E d \in DOMAIN seqs[c] :
    /\ s[k] = seqs[a][b] /\ s[l] = seqs[c][d]
    /\ a < c \/ (a = c /\ b < d)

\* s holds the members of the first n sequences of seqs, in their order.
Strings(s, seqs, n) ==
  /\ \A k \in DOMAIN s : \E a \in 1..n : \E b \in DOMAIN seqs[a] : s[k] = seqs[a][b]
  /\ \A a \in 1..n : \A b \in DOMAIN seqs[a] : \E k \in DOMAIN s : s[k] = seqs[a][b]
  /\ \A k, l \in DOMAIN s : k < l => InStringOrder(s, seqs, n, k, l)

LEMMA StringOneMore ==
  ASSUME NEW T, NEW seqs, NEW n \in Nat, NEW s \in Seq(T), Strings(s, seqs, n),
         seqs[n + 1] \in Seq(T)
  PROVE  s \o seqs[n + 1] \in Seq(T) /\ Strings(s \o seqs[n + 1], seqs, n + 1)
<1> DEFINE t == seqs[n + 1]
           u == s \o t
<1>1. /\ u \in Seq(T) /\ DOMAIN u = 1..(Len(s) + Len(t))
      /\ DOMAIN s = 1..Len(s) /\ DOMAIN t = 1..Len(t) /\ Len(s) \in Nat /\ Len(t) \in Nat
      /\ \A i \in 1..(Len(s) + Len(t)) : u[i] = IF i <= Len(s) THEN s[i] ELSE t[i - Len(s)]
  BY ConcatProperties, LenProperties
<1>2. \A k \in DOMAIN u :
        \/ k \in DOMAIN s /\ u[k] = s[k]
        \/ k > Len(s) /\ k - Len(s) \in DOMAIN t /\ u[k] = t[k - Len(s)]
  <2> HIDE DEF u, t
  <2> QED BY <1>1
<1>3. /\ \A k \in DOMAIN s : k \in DOMAIN u /\ u[k] = s[k]
      /\ \A b \in DOMAIN t : Len(s) + b \in DOMAIN u /\ u[Len(s) + b] = t[b]
  <2> HIDE DEF u, t
  <2> QED BY <1>1
<1>4. n + 1 \in 1..(n + 1) /\ \A a \in 1..n : a \in 1..(n + 1) /\ a < n + 1
  OBVIOUS
<1> HIDE DEF u
<1>5. \A k \in DOMAIN u : \E a \in 1..(n + 1) : \E b \in DOMAIN seqs[a] : u[k] = seqs[a][b]
  <2> SUFFICES ASSUME NEW k \in DOMAIN u
               PROVE  \E a \in 1..(n + 1) : \E b \in DOMAIN seqs[a] : u[k] = seqs[a][b]
    OBVIOUS
  <2>1. CASE k \in DOMAIN s /\ u[k] = s[k]
    <3>1. PICK a \in 1..n : \E b \in DOMAIN seqs[a] : s[k] = seqs[a][b]
      BY <2>1 DEF Strings
    <3> QED BY <1>4, <2>1, <3>1
  <2>2. CASE k - Len(s) \in DOMAIN t /\ u[k] = t[k - Len(s)]
    BY <1>4, <2>2
  <2> QED BY <1>2, <2>1, <2>2
<1>6. \A a \in 1..(n + 1) : \A b \in DOMAIN seqs[a] : \E k \in DOMAIN u : u[k] = seqs[a][b]
  <2> SUFFICES ASSUME NEW a \in 1..(n + 1), NEW b \in DOMAIN seqs[a]
               PROVE  \E k \in DOMAIN u : u[k] = seqs[a][b]
    OBVIOUS
  <2>1. CASE a = n + 1
    BY <1>3, <2>1
  <2>2. CASE a \in 1..n
    BY <1>3, <2>2 DEF Strings
  <2> QED BY <2>1, <2>2
<1>7. ASSUME NEW k \in DOMAIN u, NEW l \in DOMAIN u, k < l
      PROVE  InStringOrder(u, seqs, n + 1, k, l)
  <2>1. CASE k \in DOMAIN s /\ u[k] = s[k] /\ l \in DOMAIN s /\ u[l] = s[l]
    <3>1. InStringOrder(s, seqs, n, k, l)
      BY <1>7, <2>1 DEF Strings
    <3>2. \A a \in 1..n : a \in 1..(n + 1)
      BY <1>4
    <3> QED BY <2>1, <3>1, <3>2 DEF InStringOrder
  <2>2. CASE k \in DOMAIN s /\ u[k] = s[k] /\ l - Len(s) \in DOMAIN t /\ u[l] = t[l - Len(s)]
    <3>1. PICK a \in 1..n : \E b \in DOMAIN seqs[a] : s[k] = seqs[a][b]
      BY <2>2 DEF Strings
    <3> QED BY <1>4, <2>2, <3>1 DEF InStringOrder
  <2>3. CASE /\ k > Len(s) /\ k - Len(s) \in DOMAIN t /\ u[k] = t[k - Len(s)]
             /\ l - Len(s) \in DOMAIN t /\ u[l] = t[l - Len(s)]
    <3>1. k - Len(s) < l - Len(s)
      BY <1>1, <1>7, <2>3
    <3> QED BY <1>4, <2>3, <3>1 DEF InStringOrder
  <2>4. ~(k > Len(s) /\ l \in DOMAIN s)
    BY <1>1, <1>7
  <2> QED BY <1>2, <2>1, <2>2, <2>3, <2>4
<1> QED BY <1>1, <1>5, <1>6, <1>7 DEF Strings, u

\* What FlattenSeq makes of finitely many sequences.
THEOREM FlattenFacts ==
  ASSUME NEW T, NEW N \in Nat, NEW seqs, seqs \in [1..N -> Seq(T)]
  PROVE  FlattenSeq(seqs) \in Seq(T) /\ Strings(FlattenSeq(seqs), seqs, N)
<1>1. seqs \in Seq(Seq(T)) /\ Len(seqs) = N
  OBVIOUS
<1>2. CASE N = 0
  <2>1. seqs = <<>> /\ FlattenSeq(seqs) = <<>>
    BY <1>1, <1>2 DEF FlattenSeq
  <2>2. <<>> \in Seq(T) /\ DOMAIN <<>> = {}
    OBVIOUS
  <2> QED BY <1>2, <2>1, <2>2 DEF Strings
<1>3. CASE N # 0
  <2> DEFINE g == CHOOSE g : IsFlattening(g, seqs, N)
             Good == {n \in Nat : n \in 1..N => g[n] \in Seq(T) /\ Strings(g[n], seqs, n)}
  <2>1. IsFlattening(g, seqs, N) /\ FlattenSeq(seqs) = g[N]
    <3>1. \E h : IsFlattening(h, seqs, N)
      BY FlattenExists
    <3> QED BY <1>1, <1>3, <3>1, FlattenUnfolds
  <2> HIDE DEF g
  <2>2. 0 \in Good
    OBVIOUS
  <2>3. \A n \in Nat : n \in Good => n + 1 \in Good
    <3> SUFFICES ASSUME NEW n \in Nat, n \in Good, n + 1 \in 1..N
                 PROVE  g[n + 1] \in Seq(T) /\ Strings(g[n + 1], seqs, n + 1)
      OBVIOUS
    <3>1. g[n + 1] = IF n + 1 = 1 THEN seqs[n + 1] ELSE g[(n + 1) - 1] \o seqs[n + 1]
      BY <2>1 DEF IsFlattening
    <3>2. seqs[n + 1] \in Seq(T)
      OBVIOUS
    <3>3. CASE n = 0
      <4>1. g[1] = seqs[1] /\ n + 1 = 1 /\ DOMAIN seqs[1] = 1..Len(seqs[1]) /\ Len(seqs[1]) \in Nat
        BY <3>1, <3>2, <3>3, LenProperties
      <4>2. Strings(seqs[1], seqs, 1)
        <5>1. 1 \in 1..1 /\ \A a \in 1..1 : a = 1
          OBVIOUS
        <5> QED BY <5>1 DEF Strings, InStringOrder
      <4> QED BY <3>2, <4>1, <4>2
    <3>4. CASE n # 0
      <4>1. n \in 1..N /\ (n + 1) - 1 = n /\ n + 1 # 1
        BY <3>4
      <4>2. g[n] \in Seq(T) /\ Strings(g[n], seqs, n)
        BY <4>1
      <4> QED BY <3>1, <3>2, <4>1, <4>2, StringOneMore
    <3> QED BY <3>3, <3>4
  <2> HIDE DEF Good
  <2>4. N \in Good
    BY <2>2, <2>3, NumberInduction
  <2> QED BY <1>3, <2>1, <2>4 DEF Good
<1> QED BY <1>2, <1>3

\* Sequences of one element at most, strung together, have no more than there
\* are of them.
LEMMA FlattenLength ==
  ASSUME NEW T, NEW N \in Nat, NEW seqs \in [1..N -> Seq(T)],
         \A i \in 1..N : Len(seqs[i]) <= 1
  PROVE  Len(FlattenSeq(seqs)) <= N
<1>1. seqs \in Seq(Seq(T)) /\ Len(seqs) = N
  OBVIOUS
<1>2. CASE N = 0
  <2>1. seqs = <<>> /\ FlattenSeq(seqs) = <<>>
    BY <1>1, <1>2 DEF FlattenSeq
  <2> QED BY <1>2, <2>1
<1>3. CASE N # 0
  <2> DEFINE g == CHOOSE g : IsFlattening(g, seqs, N)
             Good == {n \in Nat : n \in 1..N => g[n] \in Seq(T) /\ Len(g[n]) <= n}
  <2>1. IsFlattening(g, seqs, N) /\ FlattenSeq(seqs) = g[N]
    <3>1. \E h : IsFlattening(h, seqs, N)
      BY FlattenExists
    <3> QED BY <1>1, <1>3, <3>1, FlattenUnfolds
  <2> HIDE DEF g
  <2>2. 0 \in Good
    OBVIOUS
  <2>3. \A n \in Nat : n \in Good => n + 1 \in Good
    <3> SUFFICES ASSUME NEW n \in Nat, n \in Good, n + 1 \in 1..N
                 PROVE  g[n + 1] \in Seq(T) /\ Len(g[n + 1]) <= n + 1
      OBVIOUS
    <3>1. g[n + 1] = IF n + 1 = 1 THEN seqs[n + 1] ELSE g[(n + 1) - 1] \o seqs[n + 1]
      BY <2>1 DEF IsFlattening
    <3>2. seqs[n + 1] \in Seq(T) /\ Len(seqs[n + 1]) <= 1
      OBVIOUS
    <3>3. CASE n = 0
      BY <3>1, <3>2, <3>3
    <3>4. CASE n # 0
      <4>1. n \in 1..N /\ (n + 1) - 1 = n /\ n + 1 # 1
        BY <3>4
      <4>2. g[n] \in Seq(T) /\ Len(g[n]) <= n
        BY <4>1
      <4>3. g[n] \o seqs[n + 1] \in Seq(T) /\ Len(g[n] \o seqs[n + 1]) = Len(g[n]) + Len(seqs[n + 1])
        BY <3>2, <4>2
      <4>4. Len(g[n]) \in Nat /\ Len(seqs[n + 1]) \in Nat
        BY <3>2, <4>2
      <4>5. g[n + 1] = g[n] \o seqs[n + 1]
        BY <3>1, <4>1
      <4>6. Len(g[n]) + Len(seqs[n + 1]) <= n + 1
        <5> DEFINE a == Len(g[n])
                   b == Len(seqs[n + 1])
        <5>1. a \in Nat /\ b \in Nat /\ a <= n /\ b <= 1
          BY <3>2, <4>2, <4>4
        <5> HIDE DEF a, b, Good
        <5>2. a + b <= n + 1
          BY <5>1
        <5> QED BY <5>2 DEF a, b
      <4> QED BY <4>3, <4>5, <4>6
    <3> QED BY <3>3, <3>4
  <2> HIDE DEF Good
  <2>4. N \in Good
    BY <2>2, <2>3, NumberInduction
  <2> QED BY <1>3, <2>1, <2>4 DEF Good
<1> QED BY <1>2, <1>3

(***************************************************************************)
(* Folds over sequences                                                    *)
(***************************************************************************)

\* One value more in a sweep.
Joined(groups, x, at, t) ==
  IF groups # <<>> /\ Near(at[Head(Last(groups))], at[x], t)
  THEN Append(Front(groups), Append(Last(groups), x))
  ELSE Append(groups, <<x>>)

\* The folds that occur, each by a name: what is made of one element more.  The
\* numbers p[x] are summed; the objects p[x] are listed once, 0 being none.
Step(kind, made, x, p, q) ==
  CASE kind = "sweep" -> Joined(made, x, p, q)
    [] kind = "sum"   -> made + x[p]
    [] kind = "list"  -> IF p[x] = 0 \/ Contains(made, p[x]) THEN made ELSE Append(made, p[x])

IsFold(h, kind, first, order, p, q, N) ==
  h = [s \in SUBSET (1..N) |->
         IF s = {} THEN first ELSE Step(kind, h[s \ {Max(s)}], order[Max(s)], p, q)]

LEMMA FoldExists ==
  ASSUME NEW kind, NEW first, NEW order, NEW p, NEW q, NEW N \in Nat
  PROVE  \E h : IsFold(h, kind, first, order, p, q, N)
<1> DEFINE T == {n \in Nat : \E h : IsFold(h, kind, first, order, p, q, n)}
<1>1. 0 \in T
  <2> DEFINE h == [s \in SUBSET (1..0) |-> first]
  <2>1. \A s \in SUBSET (1..0) : s = {}
    OBVIOUS
  <2>2. IsFold(h, kind, first, order, p, q, 0)
    BY <2>1 DEF IsFold
  <2> HIDE DEF h
  <2> QED BY <2>2
<1>2. \A n \in Nat : n \in T => n + 1 \in T
  <2> SUFFICES ASSUME NEW n \in Nat, n \in T PROVE n + 1 \in T
    OBVIOUS
  <2>1. PICK h : IsFold(h, kind, first, order, p, q, n)
    OBVIOUS
  <2> DEFINE k == [s \in SUBSET (1..(n + 1)) |->
                     IF n + 1 \in s THEN Step(kind, h[s \ {n + 1}], order[n + 1], p, q) ELSE h[s]]
  <2>2. k = [s \in SUBSET (1..(n + 1)) |->
               IF s = {} THEN first ELSE Step(kind, k[s \ {Max(s)}], order[Max(s)], p, q)]
    <3> SUFFICES ASSUME NEW s \in SUBSET (1..(n + 1))
                 PROVE  k[s] = IF s = {} THEN first
                               ELSE Step(kind, k[s \ {Max(s)}], order[Max(s)], p, q)
      OBVIOUS
    <3>1. IsFiniteSet(s) /\ s \subseteq Int
      <4>1. IsFiniteSet(1..(n + 1))
        BY FS_Interval
      <4>2. IsFiniteSet(s)
        BY <4>1, FS_Subset
      <4>3. s \subseteq Int
        OBVIOUS
      <4> QED BY <4>2, <4>3
    <3>2. CASE n + 1 \in s
      <4>1. Max(s) = n + 1
        <5>1. Max(s) \in s /\ \A m \in s : m <= Max(s)
          BY <3>1, <3>2, MaxMinFacts
        <5>2. Max(s) \in 1..(n + 1)
          BY <5>1
        <5> HIDE DEF k
        <5> QED BY <3>2, <5>1, <5>2
      <4>2. s \ {n + 1} \in SUBSET (1..n) /\ s \ {n + 1} \in SUBSET (1..(n + 1))
        OBVIOUS
      <4>3. k[s \ {n + 1}] = h[s \ {n + 1}]
        BY <4>2
      <4> QED BY <3>2, <4>1, <4>3
    <3>3. CASE n + 1 \notin s
      <4>1. s \in SUBSET (1..n)
        BY <3>3
      <4>2. k[s] = h[s]
        BY <3>3
      <4>3. h[s] = IF s = {} THEN first ELSE Step(kind, h[s \ {Max(s)}], order[Max(s)], p, q)
        BY <2>1, <4>1 DEF IsFold
      <4>4. s \ {Max(s)} \in SUBSET (1..(n + 1)) /\ n + 1 \notin s \ {Max(s)}
        BY <3>3
      <4>5. k[s \ {Max(s)}] = h[s \ {Max(s)}]
        BY <4>4
      <4> QED BY <4>2, <4>3, <4>5
    <3> QED BY <3>2, <3>3
  <2>3. IsFold(k, kind, first, order, p, q, n + 1)
    BY <2>2 DEF IsFold
  <2> HIDE DEF k
  <2> QED BY <2>3
<1> HIDE DEF T
<1>3. N \in T
  BY <1>1, <1>2, NumberInduction
<1> QED BY <1>3 DEF T

\* g[k] is what a fold has made of the first k elements.
Runs(g, kind, first, order, p, q, N) ==
  /\ g[0] = first
  /\ \A k \in 0..(N - 1) : g[k + 1] = Step(kind, g[k], order[k + 1], p, q)

Folded(kind, first, order, p, q, N) ==
  (CHOOSE h : IsFold(h, kind, first, order, p, q, N))[1..N]

\* A fold takes the elements one by one.
LEMMA FoldRuns ==
  ASSUME NEW kind, NEW first, NEW order, NEW p, NEW q, NEW N \in Nat
  PROVE  \E g : /\ Runs(g, kind, first, order, p, q, N)
                /\ g[N] = Folded(kind, first, order, p, q, N)
<1> DEFINE h == CHOOSE h : IsFold(h, kind, first, order, p, q, N)
           g == [k \in 0..N |-> h[1..k]]
<1>1. IsFold(h, kind, first, order, p, q, N)
  BY FoldExists
<1> HIDE DEF h
<1>3. g[N] = h[1..N]
  OBVIOUS
<1>4. g[0] = first
  <2>1. 1..0 = {} /\ {} \in SUBSET (1..N)
    OBVIOUS
  <2> QED BY <1>1, <2>1 DEF IsFold
<1>5. ASSUME NEW k \in 0..(N - 1) PROVE g[k + 1] = Step(kind, g[k], order[k + 1], p, q)
  <2> DEFINE s == 1..(k + 1)
  <2>1. s \in SUBSET (1..N) /\ s # {} /\ k + 1 \in s /\ s \ {k + 1} = 1..k
    <3>1. k \in Nat /\ k + 1 <= N
      OBVIOUS
    <3>2. k + 1 \in s /\ s \in SUBSET (1..N)
      BY <3>1
    <3>3. s \ {k + 1} = 1..k
      BY <3>1
    <3> QED BY <3>2, <3>3
  <2>2. Max(s) = k + 1
    <3>1. IsFiniteSet(s) /\ s \subseteq Int
      BY FS_Interval
    <3>2. Max(s) \in s /\ \A m \in s : m <= Max(s)
      BY <2>1, <3>1, MaxMinFacts
    <3> QED BY <2>1, <3>2
  <2>3. h[s] = Step(kind, h[s \ {Max(s)}], order[Max(s)], p, q)
    <3> HIDE DEF s
    <3> QED BY <1>1, <2>1 DEF IsFold
  <2>4. h[s] = Step(kind, h[1..k], order[k + 1], p, q)
    BY <2>1, <2>2, <2>3
  <2> QED BY <2>4
<1> HIDE DEF g
<1>6. Runs(g, kind, first, order, p, q, N)
  BY <1>4, <1>5 DEF Runs
<1>7. h[1..N] = Folded(kind, first, order, p, q, N)
  BY DEF h, Folded
<1> QED BY <1>3, <1>6, <1>7

(***************************************************************************)
(* The clusters of a quantity                                              *)
(***************************************************************************)

LEMMA NearOfNaturals ==
  ASSUME NEW a \in Nat, NEW b \in Nat, NEW t \in Nat
  PROVE  Near(a, b, t) <=> 1000 * Distance(a, b) <= t * (IF a > b THEN a ELSE b)
<1>1. Magnitude(a) = a /\ Magnitude(b) = b
  BY DEF Magnitude
<1> QED BY <1>1 DEF Near

\* What lies between two values that are near each other is near both.
LEMMA NearBetween ==
  ASSUME NEW a \in Nat, NEW b \in Nat, NEW c \in Nat, NEW d \in Nat, NEW t \in Nat,
         a <= b, b <= c, c <= d, Near(a, d, t)
  PROVE  Near(b, c, t) /\ Near(c, b, t)
<1>1. 1000 * (d - a) <= t * d
  BY NearOfNaturals DEF Distance
<1> DEFINE x == c - b
           y == d - c
           z == b - a
<1>2. x \in Nat /\ y \in Nat /\ z \in Nat /\ d = c + y /\ d - a = x + y + z
  OBVIOUS
<1>3. t * d = t * c + t * y
  BY <1>2
<1> DEFINE p == t * c
           q == t * y
<1>4. 1000 * x <= p
  <2>1. p \in Nat /\ q \in Nat
    BY <1>2
  <2>2. 1000 * (x + y + z) <= p + q
    BY <1>1, <1>2, <1>3
  <2>3. CASE t <= 1000
    <3>1. q <= 1000 * y
      BY <1>2, <2>3
    <3> HIDE DEF p, q, x, y, z
    <3> QED BY <1>2, <2>1, <2>2, <3>1
  <2>4. CASE t > 1000
    <3>1. p >= 1000 * c
      BY <2>4
    <3>2. x <= c
      OBVIOUS
    <3> HIDE DEF p, q, x, y, z
    <3> QED BY <1>2, <2>1, <3>1, <3>2
  <2> QED BY <2>3, <2>4
<1>5. Near(b, c, t)
  BY <1>4, NearOfNaturals DEF Distance
<1>6. Near(c, b, t)
  BY <1>4, NearOfNaturals DEF Distance
<1> QED BY <1>5, <1>6

LEMMA NearTwice ==
  ASSUME NEW a \in Nat, NEW b \in Nat, NEW t \in Nat, Near(a, b, t)
  PROVE  Near(2 * a, 2 * b, t)
<1> DEFINE m == IF a > b THEN a ELSE b
           e == Distance(a, b)
<1>1. m \in Nat /\ e \in Nat
  BY DEF Distance
<1>2. Distance(2 * a, 2 * b) = 2 * e /\ (IF 2 * a > 2 * b THEN 2 * a ELSE 2 * b) = 2 * m
  BY DEF Distance
<1>3. 1000 * e <= t * m
  BY NearOfNaturals
<1> HIDE DEF m, e
<1>4. 1000 * (2 * e) <= t * (2 * m)
  <2> DEFINE p == t * m
  <2>1. t * (2 * m) = 2 * p /\ p \in Nat
    BY <1>1
  <2> HIDE DEF p
  <2>2. 1000 * e <= p
    BY <1>3 DEF p
  <2> QED BY <1>1, <2>1, <2>2
<1> DEFINE u == 2 * a
           w == 2 * b
<1>5. u \in Nat /\ w \in Nat
  OBVIOUS
<1>6. 1000 * Distance(u, w) <= t * (IF u > w THEN u ELSE w)
  BY <1>2, <1>4
<1> HIDE DEF u, w
<1>7. Near(u, w, t)
  BY <1>5, <1>6, NearOfNaturals
<1> QED BY <1>7 DEF u, w

\* A sweep takes the values one by one.
Sweeps(g, order, at, t, N) == Runs(g, "sweep", <<>>, order, at, t, N)

LEMMA SweepRuns ==
  ASSUME NEW order, NEW N \in Nat, DOMAIN order = 1..N, NEW at, NEW t
  PROVE  \E g : Sweeps(g, order, at, t, N) /\ g[N] = Swept(order, at, t)
<1>1. Swept(order, at, t) = Folded("sweep", <<>>, order, at, t, N)
  BY DEF Swept, FoldLeft, MapThenFoldSet, Folded, IsFold, Step, Joined
<1> QED BY <1>1, FoldRuns DEF Sweeps

LEMMA Appended ==
  ASSUME NEW T, NEW s \in Seq(T), NEW e \in T
  PROVE  /\ Append(s, e) \in Seq(T) /\ Append(s, e) # <<>>
         /\ Len(Append(s, e)) = Len(s) + 1 /\ DOMAIN Append(s, e) = 1..(Len(s) + 1)
         /\ Append(s, e)[Len(s) + 1] = e
         /\ \A p \in 1..Len(s) : Append(s, e)[p] = s[p]
OBVIOUS

LEMMA WithoutLast ==
  ASSUME NEW T, NEW s \in Seq(T), s # <<>>
  PROVE  /\ Front(s) \in Seq(T) /\ Len(Front(s)) = Len(s) - 1
         /\ \A p \in 1..(Len(s) - 1) : Front(s)[p] = s[p]
<1>1. Len(s) \in Nat \ {0}
  OBVIOUS
<1>2. \A i \in 1..(Len(s) - 1) : s[i] \in T
  OBVIOUS
<1>3. SubSeq(s, 1, Len(s) - 1) = [i \in 1..(Len(s) - 1) |-> s[1 + i - 1]]
  BY <1>1
<1>4. Front(s) = [i \in 1..(Len(s) - 1) |-> s[i]]
  BY <1>1, <1>3 DEF Front
<1> QED BY <1>1, <1>2, <1>4

\* x joins the last group, or begins one.
Extended(G, H, x, at, t, S) ==
  LET n == Len(G)
  IN /\ n > 0 /\ Near(at[G[n][1]], at[x], t)
     /\ H \in Seq(Seq(S)) /\ Len(H) = n
     /\ \A m \in 1..(n - 1) : H[m] = G[m]
     /\ H[n] = Append(G[n], x)

Opened(G, H, x, at, t, S) ==
  LET n == Len(G)
  IN /\ n > 0 => ~Near(at[G[n][1]], at[x], t)
     /\ H \in Seq(Seq(S)) /\ Len(H) = n + 1
     /\ \A m \in 1..n : H[m] = G[m]
     /\ H[n + 1] = <<x>>

LEMMA JoinedFacts ==
  ASSUME NEW S, NEW G \in Seq(Seq(S)), NEW x \in S, NEW at, NEW t
  PROVE  \/ Extended(G, Joined(G, x, at, t), x, at, t, S)
         \/ Opened(G, Joined(G, x, at, t), x, at, t, S)
<1> DEFINE n == Len(G)
           H == Joined(G, x, at, t)
           F == Front(G)
           L == Append(G[n], x)
<1>1. n \in Nat /\ (G # <<>> <=> n > 0)
  OBVIOUS
<1>2. CASE n > 0 /\ Near(at[G[n][1]], at[x], t)
  <2>1. G[n] \in Seq(S) /\ Head(Last(G)) = G[n][1]
    BY <1>1, <1>2 DEF Last
  <2>2. H = Append(F, L)
    BY <1>1, <1>2, <2>1 DEF Joined, Last
  <2>3. L \in Seq(S)
    BY <2>1
  <2>4. F \in Seq(Seq(S)) /\ Len(F) = n - 1 /\ \A m \in 1..(n - 1) : F[m] = G[m]
    BY <1>1, <1>2, WithoutLast
  <2> HIDE DEF F, L, H
  <2>5. /\ H \in Seq(Seq(S)) /\ Len(H) = (n - 1) + 1 /\ H[(n - 1) + 1] = L
        /\ \A m \in 1..(n - 1) : H[m] = F[m]
    BY <2>2, <2>3, <2>4, Appended
  <2>6. (n - 1) + 1 = n
    BY <1>1
  <2> QED BY <1>2, <2>4, <2>5, <2>6 DEF H, L, Extended
<1>3. CASE ~(n > 0 /\ Near(at[G[n][1]], at[x], t))
  <2>1. H = Append(G, <<x>>)
    <3>1. n > 0 => Head(Last(G)) = G[n][1]
      BY <1>1 DEF Last
    <3> QED BY <1>1, <1>3, <3>1 DEF Joined
  <2>2. <<x>> \in Seq(S)
    OBVIOUS
  <2>3. /\ Append(G, <<x>>) \in Seq(Seq(S)) /\ Len(Append(G, <<x>>)) = n + 1
        /\ \A m \in 1..n : Append(G, <<x>>)[m] = G[m]
        /\ Append(G, <<x>>)[n + 1] = <<x>>
    BY <1>1, <2>2
  <2> HIDE DEF H
  <2> QED BY <1>3, <2>1, <2>3 DEF H, Opened
<1> QED BY <1>2, <1>3

\* What the groups of a sweep over the first k of order are like: they are in
\* order, each is near its own first value, and the first value of the next is
\* not.
AreGroups(G, order, k, S, at, t) ==
  /\ G \in Seq(Seq(S))
  /\ \A m \in DOMAIN G : G[m] # <<>>
  /\ \A m \in DOMAIN G : \A p \in DOMAIN G[m] : \E i \in 1..k : G[m][p] = order[i]
  /\ \A i \in 1..k : \E m \in DOMAIN G : \E p \in DOMAIN G[m] : G[m][p] = order[i]
  /\ \A m \in DOMAIN G : \A p, q \in DOMAIN G[m] : p <= q => at[G[m][p]] <= at[G[m][q]]
  /\ \A m \in DOMAIN G : \A p \in DOMAIN G[m] : Near(at[G[m][1]], at[G[m][p]], t)
  /\ \A m, n \in DOMAIN G : m < n =>
       \A p \in DOMAIN G[m] : \A q \in DOMAIN G[n] : at[G[m][p]] <= at[G[n][q]]
  /\ \A m \in DOMAIN G : m + 1 \in DOMAIN G => ~Near(at[G[m][1]], at[G[m + 1][1]], t)

\* Values are whole, of any sign.
IntegerValued(at, S) == \A x \in S : at[x] \in Int

LEMMA NearItself ==
  ASSUME NEW a \in Int, NEW t \in Nat
  PROVE  Near(a, a, t)
<1>1. Magnitude(a) \in Nat
  BY DEF Magnitude
<1>2. t * Magnitude(a) \in Nat
  BY <1>1
<1> QED BY <1>2 DEF Near, Distance

LEMMA GroupsGrow ==
  ASSUME NEW S, NEW at, IntegerValued(at, S), NEW t \in Nat,
         NEW N \in Nat, NEW order \in [1..N -> S],
         \A i, j \in 1..N : i <= j => at[order[i]] <= at[order[j]],
         NEW k \in 0..(N - 1), NEW G, AreGroups(G, order, k, S, at, t)
  PROVE  AreGroups(Joined(G, order[k + 1], at, t), order, k + 1, S, at, t)
<1> USE DEF IntegerValued
<1> DEFINE x == order[k + 1]
           H == Joined(G, x, at, t)
           n == Len(G)
<1>1. /\ x \in S /\ at[x] \in Int /\ k + 1 \in 1..N /\ n \in Nat /\ DOMAIN G = 1..n
      /\ G \in Seq(Seq(S))
      /\ \A m \in DOMAIN G : G[m] \in Seq(S) /\ Len(G[m]) \in Nat \ {0} /\ DOMAIN G[m] = 1..Len(G[m])
      /\ \A m \in DOMAIN G : \A p \in DOMAIN G[m] : G[m][p] \in S /\ at[G[m][p]] \in Int
  <2>1. G \in Seq(Seq(S)) /\ x \in S /\ k + 1 \in 1..N
    BY DEF AreGroups
  <2>2. \A m \in DOMAIN G : G[m] \in Seq(S) /\ G[m] # <<>>
    BY <2>1 DEF AreGroups
  <2>3. \A m \in DOMAIN G : Len(G[m]) \in Nat \ {0} /\ DOMAIN G[m] = 1..Len(G[m])
    BY <2>2
  <2>4. \A m \in DOMAIN G : \A p \in DOMAIN G[m] : G[m][p] \in S
    BY <2>2
  <2> QED BY <2>1, <2>2, <2>3, <2>4
<1>2. \A m \in DOMAIN G : \A p \in DOMAIN G[m] : at[G[m][p]] <= at[x]
  <2> SUFFICES ASSUME NEW m \in DOMAIN G, NEW p \in DOMAIN G[m]
               PROVE  at[G[m][p]] <= at[x]
    OBVIOUS
  <2>1. PICK i \in 1..k : G[m][p] = order[i]
    BY DEF AreGroups
  <2>2. i \in 1..N /\ k + 1 \in 1..N /\ i <= k + 1
    OBVIOUS
  <2> QED BY <2>1, <2>2
<1>3. Near(at[x], at[x], t)
  BY <1>1, NearItself
<1> HIDE DEF x, H
<1>4. CASE /\ n > 0 /\ Near(at[G[n][1]], at[x], t)
           /\ H \in Seq(Seq(S)) /\ Len(H) = n
           /\ \A m \in 1..(n - 1) : H[m] = G[m]
           /\ H[n] = Append(G[n], x)
  <2> DEFINE l == Len(G[n])
  <2>1. /\ n \in DOMAIN G /\ DOMAIN H = 1..n /\ l \in Nat \ {0} /\ DOMAIN G[n] = 1..l
        /\ H[n] # <<>> /\ DOMAIN H[n] = 1..(l + 1) /\ H[n][l + 1] = x
        /\ \A p \in 1..l : H[n][p] = G[n][p]
    <3>1. n \in DOMAIN G /\ DOMAIN H = 1..n
      BY <1>1, <1>4
    <3>2. G[n] \in Seq(S) /\ l \in Nat \ {0} /\ DOMAIN G[n] = 1..l
      BY <1>1, <3>1
    <3>a. x \in S
      BY <1>1
    <3>3. /\ Append(G[n], x) # <<>> /\ DOMAIN Append(G[n], x) = 1..(l + 1)
          /\ Append(G[n], x)[l + 1] = x /\ \A p \in 1..l : Append(G[n], x)[p] = G[n][p]
      <4> DEFINE g == G[n]
      <4>1. g \in Seq(S)
        BY <3>2
      <4> HIDE DEF g
      <4>2. /\ Append(g, x) # <<>> /\ DOMAIN Append(g, x) = 1..(Len(g) + 1)
            /\ Append(g, x)[Len(g) + 1] = x /\ \A p \in 1..Len(g) : Append(g, x)[p] = g[p]
        <5> HIDE DEF l, n, H
        <5> QED BY ONLY <3>a, <4>1, Appended
      <4> QED BY <4>2 DEF g
    <3> QED BY <1>4, <3>1, <3>2, <3>3
  <2>a. \A m \in DOMAIN H : m \in DOMAIN G /\ (m = n \/ H[m] = G[m])
    BY <1>1, <1>4, <2>1
  <2> HIDE DEF l, n
  <2>2. \A m \in DOMAIN H : H[m] # <<>> /\ 1 \in DOMAIN G[m] /\ H[m][1] = G[m][1]
    <3> SUFFICES ASSUME NEW m \in DOMAIN H
                 PROVE  H[m] # <<>> /\ 1 \in DOMAIN G[m] /\ H[m][1] = G[m][1]
      OBVIOUS
    <3>1. 1 \in DOMAIN G[m] /\ G[m] # <<>>
      BY <1>1, <2>a DEF AreGroups
    <3>2. 1 \in 1..l
      BY <2>1
    <3> QED BY <2>a, <2>1, <3>1, <3>2
  <2>3. \A m \in DOMAIN H : \A p \in DOMAIN H[m] :
          \/ p \in DOMAIN G[m] /\ H[m][p] = G[m][p]
          \/ m = n /\ p = l + 1 /\ H[m][p] = x
    <3> SUFFICES ASSUME NEW p \in 1..(l + 1) PROVE p \in 1..l \/ p = l + 1
      BY <2>a, <2>1
    <3> QED BY <2>1
  <2>4. \A m \in DOMAIN G : \A p \in DOMAIN G[m] : p \in DOMAIN H[m] /\ H[m][p] = G[m][p]
    <3> SUFFICES ASSUME NEW p \in 1..l PROVE p \in 1..(l + 1)
      BY <1>1, <2>a, <2>1
    <3> QED BY <2>1
  <2>5. \A m \in DOMAIN H : \A p \in DOMAIN H[m] : \E i \in 1..(k + 1) : H[m][p] = order[i]
    BY <1>1, <2>1, <2>3 DEF AreGroups, x
  <2>6. \A i \in 1..(k + 1) : \E m \in DOMAIN H : \E p \in DOMAIN H[m] : H[m][p] = order[i]
    <3> SUFFICES ASSUME NEW i \in 1..(k + 1)
                 PROVE  \E m \in DOMAIN H : \E p \in DOMAIN H[m] : H[m][p] = order[i]
      OBVIOUS
    <3>1. CASE i = k + 1
      <4>1. n \in DOMAIN H /\ l + 1 \in DOMAIN H[n] /\ H[n][l + 1] = order[i]
        BY <1>1, <2>1, <3>1 DEF x
      <4> QED BY <4>1
    <3>2. CASE i # k + 1
      <4>1. i \in 1..k
        BY <3>2
      <4>2. PICK m \in DOMAIN G : \E p \in DOMAIN G[m] : G[m][p] = order[i]
        BY <4>1 DEF AreGroups
      <4> QED BY <1>1, <2>1, <2>4, <4>2
    <3> QED BY <3>1, <3>2
  <2>7. \A m \in DOMAIN H : \A p, q \in DOMAIN H[m] : p <= q => at[H[m][p]] <= at[H[m][q]]
    <3> SUFFICES ASSUME NEW m \in DOMAIN H, NEW p \in DOMAIN H[m], NEW q \in DOMAIN H[m], p <= q
                 PROVE  at[H[m][p]] <= at[H[m][q]]
      OBVIOUS
    <3>1. m \in DOMAIN G
      BY <1>1, <2>1
    <3>2. CASE q \in DOMAIN G[m] /\ H[m][q] = G[m][q]
      <4>1. p \in DOMAIN G[m] /\ H[m][p] = G[m][p]
        BY <1>1, <2>1, <2>3, <3>1, <3>2
      <4> QED BY <3>1, <3>2, <4>1 DEF AreGroups
    <3>3. CASE m = n /\ q = l + 1 /\ H[m][q] = x
      <4>1. at[x] <= at[x]
        BY <1>1
      <4> QED BY <1>2, <2>3, <3>1, <3>3, <4>1
    <3> QED BY <2>3, <3>2, <3>3
  <2>8. \A m \in DOMAIN H : \A p \in DOMAIN H[m] : Near(at[H[m][1]], at[H[m][p]], t)
    <3> SUFFICES ASSUME NEW m \in DOMAIN H, NEW p \in DOMAIN H[m]
                 PROVE  Near(at[G[m][1]], at[H[m][p]], t)
      BY <2>2
    <3>1. m \in DOMAIN G
      BY <1>1, <2>1
    <3>2. CASE p \in DOMAIN G[m] /\ H[m][p] = G[m][p]
      BY <3>1, <3>2 DEF AreGroups
    <3>3. CASE m = n /\ H[m][p] = x
      BY <1>4, <3>3
    <3> QED BY <2>3, <3>2, <3>3
  <2>9. \A m, j \in DOMAIN H : m < j =>
          \A p \in DOMAIN H[m] : \A q \in DOMAIN H[j] : at[H[m][p]] <= at[H[j][q]]
    <3> SUFFICES ASSUME NEW m \in DOMAIN H, NEW j \in DOMAIN H, m < j,
                        NEW p \in DOMAIN H[m], NEW q \in DOMAIN H[j]
                 PROVE  at[H[m][p]] <= at[H[j][q]]
      OBVIOUS
    <3>1. m \in DOMAIN G /\ j \in DOMAIN G /\ m # n
      BY <1>1, <2>1, <2>a
    <3>2. p \in DOMAIN G[m] /\ H[m][p] = G[m][p]
      BY <2>3, <3>1
    <3>3. CASE q \in DOMAIN G[j] /\ H[j][q] = G[j][q]
      BY <3>1, <3>2, <3>3 DEF AreGroups
    <3>4. CASE j = n /\ q = l + 1 /\ H[j][q] = x
      BY <1>2, <3>1, <3>2, <3>4
    <3> QED BY <2>3, <3>3, <3>4
  <2>10. \A m \in DOMAIN H : m + 1 \in DOMAIN H => ~Near(at[H[m][1]], at[H[m + 1][1]], t)
    BY <1>1, <2>1, <2>2 DEF AreGroups
  <2> QED BY <1>4, <2>2, <2>5, <2>6, <2>7, <2>8, <2>9, <2>10 DEF AreGroups, H, x
<1>5. CASE /\ n > 0 => ~Near(at[G[n][1]], at[x], t)
           /\ H \in Seq(Seq(S)) /\ Len(H) = n + 1
           /\ \A m \in 1..n : H[m] = G[m]
           /\ H[n + 1] = <<x>>
  <2>1. /\ DOMAIN H = 1..(n + 1) /\ H[n + 1] # <<>> /\ DOMAIN H[n + 1] = {1} /\ H[n + 1][1] = x
        /\ \A m \in 1..n : H[m] = G[m] /\ 1 \in DOMAIN G[m]
    <3>1. <<x>> # <<>> /\ DOMAIN <<x>> = {1} /\ <<x>>[1] = x
      OBVIOUS
    <3>2. \A m \in 1..n : 1 \in DOMAIN G[m]
      <4>1. \A m \in 1..n : Len(G[m]) \in Nat \ {0} /\ DOMAIN G[m] = 1..Len(G[m])
        BY <1>1
      <4> QED BY <4>1
    <3>3. DOMAIN H = 1..(n + 1)
      BY <1>1, <1>5
    <3> QED BY <1>5, <3>1, <3>2, <3>3
  <2>2. \A m \in DOMAIN H : (m \in DOMAIN G /\ H[m] = G[m]) \/ (m = n + 1 /\ H[m] = <<x>>)
    <3>1. \A m \in 1..(n + 1) : m \in 1..n \/ m = n + 1
      BY <1>1
    <3> HIDE DEF n
    <3> QED BY <1>1, <1>5, <2>1, <3>1
  <2>3. \A m \in DOMAIN G : m \in DOMAIN H /\ H[m] = G[m] /\ m <= n
    BY <1>1, <2>1
  <2>4. \A m \in DOMAIN H : H[m] # <<>>
    BY <2>1, <2>2 DEF AreGroups
  <2>5. \A m \in DOMAIN H : \A p \in DOMAIN H[m] : \E i \in 1..(k + 1) : H[m][p] = order[i]
    <3> SUFFICES ASSUME NEW m \in DOMAIN H, NEW p \in DOMAIN H[m]
                 PROVE  \E i \in 1..(k + 1) : H[m][p] = order[i]
      OBVIOUS
    <3>1. CASE m \in DOMAIN G /\ H[m] = G[m]
      <4>1. \E i \in 1..k : H[m][p] = order[i]
        BY <3>1 DEF AreGroups
      <4> QED BY <4>1
    <3>2. CASE m = n + 1
      BY <2>1, <3>2 DEF x
    <3> QED BY <2>2, <3>1, <3>2
  <2>6. \A i \in 1..(k + 1) : \E m \in DOMAIN H : \E p \in DOMAIN H[m] : H[m][p] = order[i]
    <3> SUFFICES ASSUME NEW i \in 1..(k + 1)
                 PROVE  \E m \in DOMAIN H : \E p \in DOMAIN H[m] : H[m][p] = order[i]
      OBVIOUS
    <3>1. CASE i = k + 1
      <4>1. n + 1 \in DOMAIN H /\ 1 \in DOMAIN H[n + 1] /\ H[n + 1][1] = order[i]
        BY <1>1, <2>1, <3>1 DEF x
      <4> QED BY <4>1
    <3>2. CASE i # k + 1
      <4>1. i \in 1..k
        BY <3>2
      <4>2. PICK m \in DOMAIN G : \E p \in DOMAIN G[m] : G[m][p] = order[i]
        BY <4>1 DEF AreGroups
      <4> QED BY <2>3, <4>2
    <3> QED BY <3>1, <3>2
  <2>7. \A m \in DOMAIN H : \A p, q \in DOMAIN H[m] : p <= q => at[H[m][p]] <= at[H[m][q]]
    <3> SUFFICES ASSUME NEW m \in DOMAIN H, NEW p \in DOMAIN H[m], NEW q \in DOMAIN H[m], p <= q
                 PROVE  at[H[m][p]] <= at[H[m][q]]
      OBVIOUS
    <3>1. at[x] <= at[x]
      BY <1>1
    <3>2. CASE m \in DOMAIN G /\ H[m] = G[m]
      BY <3>2 DEF AreGroups
    <3>3. CASE m = n + 1
      <4>1. H[m][p] = x /\ H[m][q] = x
        BY <2>1, <3>3
      <4> QED BY <3>1, <4>1
    <3> QED BY <2>2, <3>2, <3>3
  <2>8. \A m \in DOMAIN H : \A p \in DOMAIN H[m] : Near(at[H[m][1]], at[H[m][p]], t)
    <3> SUFFICES ASSUME NEW m \in DOMAIN H, NEW p \in DOMAIN H[m]
                 PROVE  Near(at[H[m][1]], at[H[m][p]], t)
      OBVIOUS
    <3>1. CASE m \in DOMAIN G /\ H[m] = G[m]
      BY <3>1 DEF AreGroups
    <3>2. CASE m = n + 1
      <4>1. H[m][p] = x /\ H[m][1] = x
        BY <2>1, <3>2
      <4> QED BY <1>3, <4>1
    <3> QED BY <2>2, <3>1, <3>2
  <2>9. \A m, j \in DOMAIN H : m < j =>
          \A p \in DOMAIN H[m] : \A q \in DOMAIN H[j] : at[H[m][p]] <= at[H[j][q]]
    <3> SUFFICES ASSUME NEW m \in DOMAIN H, NEW j \in DOMAIN H, m < j,
                        NEW p \in DOMAIN H[m], NEW q \in DOMAIN H[j]
                 PROVE  at[H[m][p]] <= at[H[j][q]]
      OBVIOUS
    <3>1. m \in DOMAIN G /\ H[m] = G[m]
      BY <1>1, <2>1, <2>2
    <3>2. CASE j \in DOMAIN G /\ H[j] = G[j]
      BY <3>1, <3>2 DEF AreGroups
    <3>3. CASE j = n + 1
      BY <1>2, <2>1, <3>1, <3>3
    <3> QED BY <2>2, <3>2, <3>3
  <2>10. \A m \in DOMAIN H : m + 1 \in DOMAIN H => ~Near(at[H[m][1]], at[H[m + 1][1]], t)
    <3> SUFFICES ASSUME NEW m \in DOMAIN H, m + 1 \in DOMAIN H
                 PROVE  ~Near(at[H[m][1]], at[H[m + 1][1]], t)
      OBVIOUS
    <3>1. m \in DOMAIN G /\ H[m] = G[m]
      BY <1>1, <2>1
    <3>2. CASE m + 1 \in DOMAIN G
      BY <2>3, <3>1, <3>2 DEF AreGroups
    <3>3. CASE m = n
      BY <1>1, <1>5, <2>1, <3>1, <3>3
    <3> QED BY <1>1, <2>1, <3>2, <3>3
  <2> QED BY <1>5, <2>4, <2>5, <2>6, <2>7, <2>8, <2>9, <2>10 DEF AreGroups, H, x
<1> HIDE DEF n
<1>6. Extended(G, H, x, at, t, S) \/ Opened(G, H, x, at, t, S)
  BY <1>1, JoinedFacts DEF H
<1> QED BY <1>4, <1>5, <1>6 DEF Extended, Opened, n

\* cluster_values: every value is in a group; each group is within the
\* threshold of its first value, and the next begins where it ends.
THEOREM SweepFacts ==
  ASSUME NEW S, NEW at, IntegerValued(at, S), NEW t \in Nat,
         NEW N \in Nat, NEW order \in [1..N -> S],
         \A i, j \in 1..N : i <= j => at[order[i]] <= at[order[j]]
  PROVE  AreGroups(Swept(order, at, t), order, N, S, at, t)
<1>0. DOMAIN order = 1..N
  OBVIOUS
<1>1. PICK g : Sweeps(g, order, at, t, N) /\ g[N] = Swept(order, at, t)
  BY <1>0, SweepRuns
<1> DEFINE T == {k \in Nat : k <= N => AreGroups(g[k], order, k, S, at, t)}
<1>2. 0 \in T
  <2>1. <<>> \in Seq(Seq(S)) /\ DOMAIN <<>> = {} /\ 1..0 = {}
    OBVIOUS
  <2> QED BY <1>1, <2>1 DEF AreGroups, Sweeps, Runs
<1>3. \A k \in Nat : k \in T => k + 1 \in T
  <2> SUFFICES ASSUME NEW k \in Nat, k \in T, k + 1 <= N
               PROVE  AreGroups(g[k + 1], order, k + 1, S, at, t)
    OBVIOUS
  <2>1. k \in 0..(N - 1) /\ AreGroups(g[k], order, k, S, at, t)
    OBVIOUS
  <2>2. AreGroups(Joined(g[k], order[k + 1], at, t), order, k + 1, S, at, t)
    BY <2>1, GroupsGrow
  <2>3. g[k + 1] = Joined(g[k], order[k + 1], at, t)
    BY <1>1, <2>1 DEF Sweeps, Runs, Step
  <2> QED BY <2>2, <2>3
<1> HIDE DEF T
<1>4. N \in T
  BY <1>2, <1>3, NumberInduction
<1> QED BY <1>1, <1>4 DEF T

\* The median lies between the first and the last.
LEMMA MedianBetween ==
  ASSUME NEW n \in Nat \ {0}, NEW s \in [1..n -> Int],
         \A i, j \in 1..n : i <= j => s[i] <= s[j]
  PROVE  Median(s) \in Int /\ 2 * s[1] <= Median(s) /\ Median(s) <= 2 * s[n]
<1> DEFINE i == (n + 1) \div 2
           j == n \div 2 + 1
<1>1. Len(s) = n
  OBVIOUS
<1>2. i \in 1..n /\ j \in 1..n
  OBVIOUS
<1>3. Median(s) = s[i] + s[j]
  BY <1>1 DEF Median
<1> HIDE DEF i, j
<1>4. /\ 1 \in 1..n /\ n \in 1..n /\ s[1] \in Int /\ s[n] \in Int /\ s[i] \in Int /\ s[j] \in Int
      /\ s[1] <= s[i] /\ s[1] <= s[j] /\ s[i] <= s[n] /\ s[j] <= s[n]
  <2>1. 1 <= i /\ 1 <= j /\ i <= n /\ j <= n /\ 1 \in 1..n /\ n \in 1..n
    BY <1>2
  <2> QED BY <1>2, <2>1
<1> QED BY <1>3, <1>4

LEMMA MedianIsANumber ==
  ASSUME NEW n \in Nat \ {0}, NEW s \in [1..n -> Int]
  PROVE  Median(s) \in Int
<1>1. Len(s) = n
  OBVIOUS
<1>2. (n + 1) \div 2 \in 1..n /\ n \div 2 + 1 \in 1..n
  OBVIOUS
<1> QED BY <1>1, <1>2 DEF Median

LEMMA DeviationIsANumber ==
  ASSUME NEW n \in Nat \ {0}, NEW s \in [1..n -> Int]
  PROVE  Deviation(s) \in Int
<1> DEFINE gaps == [i \in DOMAIN s |-> Distance(2 * s[i], Median(s))]
           order == Ascending(gaps)
           sorted == [k \in DOMAIN order |-> gaps[order[k]]]
<1>1. IsFiniteSet(1..n) /\ Cardinality(1..n) = n /\ 1..n \in SUBSET Int
  BY FS_Interval
<1>2. gaps \in [1..n -> Int]
  BY MedianIsANumber DEF Distance
<1>3. Deviation(s) = IF Len(s) < 2 THEN 0 ELSE Median(sorted)
  BY DEF Deviation
<1> HIDE DEF gaps
<1>4. order \in [1..n -> 1..n]
  <2> DEFINE S == 1..n
  <2>1. S \in SUBSET Int /\ IsFiniteSet(S) /\ gaps \in [S -> Int] /\ Cardinality(S) = n
    BY <1>1, <1>2
  <2> HIDE DEF S
  <2>2. order \in [1..n -> S]
    BY <2>1, AscendingFacts
  <2> QED BY <2>2 DEF S
<1> HIDE DEF order
<1>5. sorted \in [1..n -> Int]
  BY <1>2, <1>4
<1> HIDE DEF sorted
<1> QED BY <1>3, <1>5, MedianIsANumber

LEMMA GroupsShape ==
  ASSUME NEW S, NEW at, IntegerValued(at, S), NEW t, NEW order, NEW N, NEW G,
         AreGroups(G, order, N, S, at, t)
  PROVE  /\ DOMAIN G = 1..Len(G) /\ Len(G) \in Nat
         /\ \A j \in DOMAIN G : j \in Int /\ 1 \in DOMAIN G[j]
         /\ \A j \in DOMAIN G : Len(G[j]) \in Nat \ {0} /\ DOMAIN G[j] = 1..Len(G[j])
         /\ \A j \in DOMAIN G : \A i \in DOMAIN G[j] :
              i >= 1 /\ G[j][i] \in S /\ at[G[j][i]] \in Int
<1> USE DEF IntegerValued
<1>1. G \in Seq(Seq(S)) /\ \A j \in DOMAIN G : G[j] # <<>>
  BY DEF AreGroups
<1>2. DOMAIN G = 1..Len(G) /\ Len(G) \in Nat /\ \A j \in 1..Len(G) : G[j] \in Seq(S)
  BY <1>1
<1>3. ASSUME NEW j \in DOMAIN G
      PROVE  /\ 1 \in DOMAIN G[j] /\ Len(G[j]) \in Nat \ {0} /\ DOMAIN G[j] = 1..Len(G[j])
             /\ \A i \in DOMAIN G[j] : i >= 1 /\ G[j][i] \in S /\ at[G[j][i]] \in Int
  <2> DEFINE g == G[j]
  <2>1. g \in Seq(S) /\ g # <<>>
    BY <1>1, <1>2
  <2> HIDE DEF g
  <2>2. Len(g) \in Nat \ {0} /\ DOMAIN g = 1..Len(g) /\ \A i \in 1..Len(g) : g[i] \in S
    BY <2>1
  <2>3. 1 \in DOMAIN g /\ \A i \in DOMAIN g : i >= 1 /\ g[i] \in S /\ at[g[i]] \in Int
    BY <2>2
  <2> QED BY <2>2, <2>3 DEF g
<1> QED BY <1>2, <1>3

\* The median of a group is within the threshold of every member.
LEMMA MedianNear ==
  ASSUME NEW S, NEW at, \A x \in S : at[x] \in Nat, NEW t \in Nat, NEW order, NEW N, NEW G,
         AreGroups(G, order, N, S, at, t), NEW m \in DOMAIN G, NEW p \in DOMAIN G[m]
  PROVE  Near(Median([i \in DOMAIN G[m] |-> at[G[m][i]]]), 2 * at[G[m][p]], t)
<1> DEFINE n == Len(G[m])
           s == [i \in DOMAIN G[m] |-> at[G[m][i]]]
<1>1. G[m] \in Seq(S) /\ G[m] # <<>>
  BY DEF AreGroups
<1>2. n \in Nat \ {0} /\ DOMAIN G[m] = 1..n /\ \A i \in 1..n : G[m][i] \in S
  BY <1>1
<1>3. s \in [1..n -> Nat] /\ \A i \in 1..n : s[i] = at[G[m][i]]
  BY <1>2
<1>4. \A i, j \in 1..n : i <= j => s[i] <= s[j]
  BY <1>2, <1>3 DEF AreGroups
<1>5. \A i \in 1..n : Near(s[1], s[i], t)
  <2>1. \A i \in DOMAIN G[m] : Near(at[G[m][1]], at[G[m][i]], t)
    BY DEF AreGroups
  <2>2. s[1] = at[G[m][1]]
    BY <1>2, <1>3
  <2> HIDE DEF s
  <2> QED BY <1>2, <1>3, <2>1, <2>2
<1> HIDE DEF s, n
<1>6. Median(s) \in Int /\ 2 * s[1] <= Median(s) /\ Median(s) <= 2 * s[n]
  <2>1. n \in Nat \ {0} /\ s \in [1..n -> Int]
    BY <1>2, <1>3
  <2> QED BY ONLY <1>4, <2>1, MedianBetween
<1>7. 1 \in 1..n /\ n \in 1..n /\ p \in 1..n
  BY <1>2
<1> DEFINE a == 2 * s[1]
           d == 2 * s[n]
           b == 2 * s[p]
           c == Median(s)
<1>8. a \in Nat /\ b \in Nat /\ c \in Nat /\ d \in Nat /\ a <= b /\ b <= d /\ a <= c /\ c <= d
  <2>1. s[1] \in Nat /\ s[n] \in Nat /\ s[p] \in Nat /\ s[1] <= s[p] /\ s[p] <= s[n]
    BY <1>3, <1>4, <1>7
  <2> QED BY <1>6, <2>1
<1>9. Near(a, d, t)
  BY <1>3, <1>5, <1>7, NearTwice
<1> HIDE DEF a, b, c, d
<1>10. b <= c => Near(c, b, t)
  BY <1>8, <1>9, NearBetween
<1>11. c <= b => Near(c, b, t)
  BY <1>8, <1>9, NearBetween
<1>12. Near(c, b, t)
  BY <1>8, <1>10, <1>11
<1> QED BY <1>2, <1>3, <1>7, <1>12 DEF b, c, s

\* Values within the threshold of a lower one fall into two groups at most.
LEMMA NotScattered ==
  ASSUME NEW S, NEW at, \A x \in S : at[x] \in Nat, NEW t \in Nat, NEW order, NEW N, NEW G,
         AreGroups(G, order, N, S, at, t), NEW v \in Nat,
         NEW k \in DOMAIN G, NEW l \in DOMAIN G, NEW m \in DOMAIN G, k < l, l < m,
         NEW p \in DOMAIN G[k], v <= at[G[k][p]],
         NEW q \in DOMAIN G[m], Near(v, at[G[m][q]], t)
  PROVE  FALSE
<1>1. /\ \A j \in DOMAIN G : j \in Int /\ 1 \in DOMAIN G[j]
      /\ \A j \in DOMAIN G : \A i \in DOMAIN G[j] : i >= 1 /\ at[G[j][i]] \in Nat
  <2>1. IntegerValued(at, S)
    BY DEF IntegerValued
  <2>2. /\ \A j \in DOMAIN G : j \in Int /\ 1 \in DOMAIN G[j]
        /\ \A j \in DOMAIN G : \A i \in DOMAIN G[j] : i >= 1 /\ G[j][i] \in S
    BY <2>1, GroupsShape
  <2> QED BY <2>2
<1>2. l + 1 \in DOMAIN G /\ l + 1 <= m
  <2>1. DOMAIN G = 1..Len(G) /\ Len(G) \in Nat
    BY GroupsShape
  <2> QED BY <2>1
<1> DEFINE a == at[G[k][p]]
           b == at[G[l][1]]
           c == at[G[l + 1][1]]
           d == at[G[m][q]]
<1>3. ~Near(b, c, t)
  BY <1>2 DEF AreGroups
<1>4. a <= b
  BY <1>1 DEF AreGroups
<1>5. b <= c
  <2>1. l < l + 1
    BY <1>1
  <2> QED BY <1>1, <1>2, <2>1 DEF AreGroups
<1>6. c <= d
  <2>1. CASE l + 1 = m
    <3>1. 1 <= q
      BY <1>1
    <3> QED BY <1>1, <2>1, <3>1 DEF AreGroups
  <2>2. CASE l + 1 # m
    <3>1. l + 1 < m
      BY <1>1, <1>2, <2>2
    <3> QED BY <1>1, <1>2, <3>1 DEF AreGroups
  <2> QED BY <2>1, <2>2
<1>7. a \in Nat /\ b \in Nat /\ c \in Nat /\ d \in Nat
  BY <1>1, <1>2
<1>8. v <= a /\ Near(v, d, t)
  OBVIOUS
<1> HIDE DEF a, b, c, d
<1>9. v <= b
  BY <1>4, <1>7, <1>8
<1> QED BY <1>3, <1>5, <1>6, <1>7, <1>8, <1>9, NearBetween

\* The median of a group lies between its first value and its last.
LEMMA GroupMedian ==
  ASSUME NEW S, NEW at, IntegerValued(at, S), NEW t, NEW order, NEW N, NEW G,
         AreGroups(G, order, N, S, at, t), NEW m \in DOMAIN G
  PROVE  LET mid == Median([i \in DOMAIN G[m] |-> at[G[m][i]]])
         IN mid \in Int /\ 2 * at[G[m][1]] <= mid /\ mid <= 2 * at[G[m][Len(G[m])]]
<1>0. /\ DOMAIN G = 1..Len(G) /\ Len(G) \in Nat
      /\ \A j \in DOMAIN G : j \in Int /\ 1 \in DOMAIN G[j]
      /\ \A j \in DOMAIN G : Len(G[j]) \in Nat \ {0} /\ DOMAIN G[j] = 1..Len(G[j])
      /\ \A j \in DOMAIN G : \A i \in DOMAIN G[j] :
           i >= 1 /\ G[j][i] \in S /\ at[G[j][i]] \in Int
  BY GroupsShape
<1> DEFINE n == Len(G[m])
           s == [i \in DOMAIN G[m] |-> at[G[m][i]]]
<1>1. n \in Nat \ {0} /\ DOMAIN G[m] = 1..n /\ \A i \in 1..n : at[G[m][i]] \in Int
  BY <1>0
<1>2. s \in [1..n -> Int] /\ \A i \in 1..n : s[i] = at[G[m][i]]
  BY <1>1
<1>3. \A i, j \in 1..n : i <= j => s[i] <= s[j]
  BY <1>1, <1>2 DEF AreGroups
<1>4. 1 \in 1..n /\ n \in 1..n
  BY <1>1
<1>5. s[1] = at[G[m][1]] /\ s[n] = at[G[m][n]]
  BY <1>2, <1>4
<1> HIDE DEF s, n
<1>6. Median(s) \in Int /\ 2 * s[1] <= Median(s) /\ Median(s) <= 2 * s[n]
  BY ONLY <1>1, <1>2, <1>3, MedianBetween
<1> QED BY <1>5, <1>6 DEF s, n

\* A number below zero is far from one that is not, and zero from all others.
LEMMA FarAcrossZero ==
  ASSUME NEW a \in Int, NEW b \in Int, NEW t \in Nat, t < 1000, a <= 0, 0 <= b, Near(a, b, t)
  PROVE  a = 0 /\ b = 0
<1> DEFINE x == 0 - a
           d == x + b
           m == IF x > b THEN x ELSE b
           y == d - m
<1>1. x \in Nat /\ d \in Nat /\ m \in Nat /\ y \in Nat
  OBVIOUS
<1>2. Magnitude(a) = x /\ Magnitude(b) = b /\ Distance(a, b) = d
  BY DEF Magnitude, Distance
<1>3. 1000 * d <= t * m
  BY <1>2 DEF Near
<1>4. t * d = t * m + t * y /\ t * y \in Nat
  BY <1>1
<1>5. t * d \in Nat /\ t * d <= 999 * d
  <2>1. t \in Nat /\ 999 - t \in Nat
    OBVIOUS
  <2>2. (999 - t) * d \in Nat /\ (999 - t) * d = 999 * d - t * d
    BY <1>1, <2>1
  <2> QED BY <1>1, <2>1, <2>2
<1>6. d = 0
  <2> DEFINE p == t * m
             q == t * y
             r == t * d
  <2>1. p \in Int /\ q \in Nat /\ r \in Nat /\ r = p + q /\ r <= 999 * d /\ 1000 * d <= p
    BY <1>1, <1>3, <1>4, <1>5
  <2> HIDE DEF p, q, r, d, m, y
  <2> QED BY <1>1, <2>1
<1> QED BY <1>1, <1>6

GroupValues(at, g) == [i \in DOMAIN g |-> at[g[i]]]

\* A group around zero has only zeros.
LEMMA GroupAtZero ==
  ASSUME NEW S, NEW at, IntegerValued(at, S), NEW t \in Nat, t < 1000, NEW order, NEW N, NEW G,
         AreGroups(G, order, N, S, at, t)
  PROVE  \A m \in DOMAIN G : Median(GroupValues(at, G[m])) = 0 =>
           \A p \in DOMAIN G[m] : at[G[m][p]] \in {0}
<1>0. ASSUME NEW m \in DOMAIN G
      PROVE  LET mid == Median([i \in DOMAIN G[m] |-> at[G[m][i]]])
             IN mid \in Int /\ 2 * at[G[m][1]] <= mid /\ mid <= 2 * at[G[m][Len(G[m])]]
  BY GroupMedian
<1> SUFFICES ASSUME NEW m \in DOMAIN G, Median(GroupValues(at, G[m])) = 0, NEW p \in DOMAIN G[m]
             PROVE  at[G[m][p]] \in {0}
  OBVIOUS
<1> DEFINE n == Len(G[m])
           a == at[G[m][1]]
           b == at[G[m][n]]
           v == at[G[m][p]]
<1>1. n \in Nat \ {0} /\ DOMAIN G[m] = 1..n /\ \A i \in DOMAIN G[m] : at[G[m][i]] \in Int
  BY GroupsShape
<1>2. 1 \in DOMAIN G[m] /\ n \in DOMAIN G[m] /\ 1 <= p /\ p <= n
  <2> HIDE DEF n
  <2> QED BY <1>1
<1>3. a \in Int /\ b \in Int /\ v \in Int
  BY <1>1, <1>2
<1>4. 2 * a <= 0 /\ 0 <= 2 * b
  BY <1>0 DEF GroupValues
<1>5. Near(a, b, t) /\ a <= v /\ v <= b
  <2> HIDE DEF n
  <2>1. \A q \in DOMAIN G[m] : Near(at[G[m][1]], at[G[m][q]], t)
    BY DEF AreGroups
  <2>2. \A q, s \in DOMAIN G[m] : q <= s => at[G[m][q]] <= at[G[m][s]]
    BY DEF AreGroups
  <2> QED BY <1>2, <2>1, <2>2
<1> HIDE DEF a, b, n, v
<1>6. a = 0 /\ b = 0
  BY <1>3, <1>4, <1>5, FarAcrossZero
<1>7. v = 0
  BY <1>3, <1>5, <1>6
<1> QED BY <1>7 DEF v

\* Of two groups the later has the higher median.
LEMMA MediansAscend ==
  ASSUME NEW S, NEW at, IntegerValued(at, S), NEW t \in Nat, NEW order, NEW N, NEW G,
         AreGroups(G, order, N, S, at, t), NEW k \in DOMAIN G, NEW l \in DOMAIN G, k < l
  PROVE  Median([i \in DOMAIN G[k] |-> at[G[k][i]]]) < Median([i \in DOMAIN G[l] |-> at[G[l][i]]])
<1>0. /\ DOMAIN G = 1..Len(G) /\ Len(G) \in Nat
      /\ \A j \in DOMAIN G : j \in Int /\ 1 \in DOMAIN G[j]
      /\ \A j \in DOMAIN G : Len(G[j]) \in Nat \ {0} /\ DOMAIN G[j] = 1..Len(G[j])
      /\ \A j \in DOMAIN G : \A i \in DOMAIN G[j] :
           i >= 1 /\ G[j][i] \in S /\ at[G[j][i]] \in Int
  BY GroupsShape
<1> DEFINE n == Len(G[k])
           a == at[G[k][1]]
           b == at[G[k][n]]
           c == at[G[k + 1][1]]
           d == at[G[l][1]]
           x == Median([i \in DOMAIN G[k] |-> at[G[k][i]]])
           y == Median([i \in DOMAIN G[l] |-> at[G[l][i]]])
<1>1. k + 1 \in DOMAIN G /\ k \in Int /\ l \in Int /\ 1 \in DOMAIN G[k] /\ 1 \in DOMAIN G[l] /\ 1 \in DOMAIN G[k + 1]
      /\ n \in DOMAIN G[k]
  <2>1. DOMAIN G = 1..Len(G) /\ Len(G) \in Nat /\ \A j \in DOMAIN G : j \in Int /\ 1 \in DOMAIN G[j]
    BY <1>0
  <2>2. n \in Nat \ {0} /\ DOMAIN G[k] = 1..n
    BY <1>0
  <2> HIDE DEF n
  <2>3. k + 1 \in DOMAIN G
    BY <2>1
  <2> QED BY <2>1, <2>2, <2>3
<1>2. a \in Int /\ b \in Int /\ c \in Int /\ d \in Int
  <2>1. \A j \in DOMAIN G : \A i \in DOMAIN G[j] : at[G[j][i]] \in Int
    BY <1>0
  <2> HIDE DEF n
  <2> QED BY <1>1, <2>1
<1>3. x \in Int /\ x <= 2 * b
  BY GroupMedian
<1>4. y \in Int /\ 2 * d <= y
  BY GroupMedian
<1>5. Near(a, b, t) /\ ~Near(a, c, t)
  BY <1>1 DEF AreGroups
<1>6. b <= c
  <2>1. k < k + 1
    BY <1>1
  <2> HIDE DEF n
  <2> QED BY <1>1, <2>1 DEF AreGroups
<1>7. c <= d
  <2>1. CASE k + 1 = l
    BY <1>2, <2>1
  <2>2. CASE k + 1 < l
    BY <1>1, <2>2 DEF AreGroups
  <2> HIDE DEF c, d
  <2> QED BY <1>1, <2>1, <2>2
<1> HIDE DEF a, b, c, d, x, y, n
<1>8. b < c
  BY <1>2, <1>5, <1>6
<1> QED BY <1>2, <1>3, <1>4, <1>7, <1>8 DEF x, y

\* A factor that is positive keeps an order, both ways.
LEMMA PositiveFactor ==
  ASSUME NEW x \in Int, NEW y \in Int, NEW k \in Nat \ {0}
  PROVE  (x <= y) <=> (x * k <= y * k)
<1>1. CASE x <= y
  <2> DEFINE d == y - x
  <2>1. d \in Nat /\ d * k \in Nat /\ y = x + d
    BY <1>1
  <2>2. y * k = x * k + d * k
    BY <2>1
  <2> QED BY <1>1, <2>1, <2>2
<1>2. CASE y < x
  <2> DEFINE d == x - y
  <2>1. d \in Nat /\ d >= 1 /\ x = y + d
    BY <1>2
  <2>2. x * k = y * k + d * k
    BY <2>1
  <2>3. d * k \in Nat /\ d * k >= 1
    BY <2>1
  <2> HIDE DEF d
  <2> QED BY <1>2, <2>2, <2>3
<1> QED BY <1>1, <1>2

\* Fractions are ordered: a/p <= b/q <= c/r.
LEMMA FractionsOrdered ==
  ASSUME NEW a \in Int, NEW b \in Int, NEW c \in Int,
         NEW p \in Nat \ {0}, NEW q \in Nat \ {0}, NEW r \in Nat \ {0},
         a * q <= b * p, b * r <= c * q
  PROVE  a * r <= c * p
<1>1. (a * q) * r <= (b * p) * r
  <2>1. a * q \in Int /\ b * p \in Int
    OBVIOUS
  <2> QED BY <2>1, PositiveFactor
<1>2. (b * r) * p <= (c * q) * p
  <2>1. b * r \in Int /\ c * q \in Int
    OBVIOUS
  <2> QED BY <2>1, PositiveFactor
<1>3. (a * q) * r = (a * r) * q /\ (b * p) * r = (b * r) * p /\ (c * q) * p = (c * p) * q
  OBVIOUS
<1> DEFINE x == a * r
           y == c * p
<1>4. x \in Int /\ y \in Int /\ (a * q) * r \in Int /\ (b * p) * r \in Int /\ (c * q) * p \in Int
  OBVIOUS
<1>5. x * q <= y * q
  <2> DEFINE u == (a * q) * r
             v == (b * p) * r
             w == (c * q) * p
  <2>1. u \in Int /\ v \in Int /\ w \in Int /\ u <= v /\ v <= w /\ u = x * q /\ w = y * q
    BY <1>1, <1>2, <1>3, <1>4
  <2> HIDE DEF u, v, w, x, y
  <2> QED BY <2>1
<1> HIDE DEF x, y
<1>6. x <= y
  BY <1>4, <1>5, PositiveFactor
<1> QED BY <1>6 DEF x, y

Summaries == [size : Nat \ {0}, centre : Int, spread : Int]

\* What is said of a cluster.
LEMMA SummaryFacts ==
  ASSUME NEW n \in Nat \ {0}, NEW s \in [1..n -> Int]
  PROVE  Summary(s) \in Summaries
<1>1. Len(s) = n
  OBVIOUS
<1>2. Deviation(s) \in Int /\ Median(s) \in Int
  BY DeviationIsANumber, MedianIsANumber
<1> QED BY <1>1, <1>2 DEF Summary, Summaries

LEMMA SpanIsPositive ==
  ASSUME NEW c, c.centre \in Int
  PROVE  Span(c) \in Nat \ {0}
BY DEF Span, Magnitude

\* Values that are all zero do not spread: nothing is lost by not dividing.
LEMMA ZerosDoNotSpread ==
  ASSUME NEW n \in Nat \ {0}, NEW s \in [1..n -> {0}]
  PROVE  Deviation(s) = 0
<1> DEFINE gaps == [i \in DOMAIN s |-> Distance(2 * s[i], Median(s))]
           order == Ascending(gaps)
           sorted == [k \in DOMAIN order |-> gaps[order[k]]]
<1>1. Len(s) = n /\ (n + 1) \div 2 \in 1..n /\ n \div 2 + 1 \in 1..n
  OBVIOUS
<1>2. Median(s) = 0
  BY <1>1 DEF Median
<1>3. gaps \in [1..n -> {0}]
  BY <1>2 DEF Distance
<1>4. Deviation(s) = IF Len(s) < 2 THEN 0 ELSE Median(sorted)
  BY DEF Deviation
<1> HIDE DEF gaps
<1>5. order \in [1..n -> 1..n]
  <2> DEFINE S == 1..n
  <2>1. S \in SUBSET Int /\ IsFiniteSet(S) /\ Cardinality(S) = n /\ gaps \in [S -> Int]
    BY <1>3, FS_Interval
  <2> HIDE DEF S
  <2>2. order \in [1..n -> S]
    BY <2>1, AscendingFacts
  <2> QED BY <2>2 DEF S
<1> HIDE DEF order
<1>6. sorted \in [1..n -> {0}] /\ Len(sorted) = n
  BY <1>3, <1>5
<1> HIDE DEF sorted
<1>7. Median(sorted) = 0
  BY <1>1, <1>6 DEF Median
<1> QED BY <1>4, <1>7

\* Which cluster dominates is a weak order.
LEMMA DominatesFacts ==
  ASSUME NEW a \in Summaries, NEW b \in Summaries, NEW c \in Summaries
  PROVE  /\ ~Dominates(a, a) /\ (Dominates(a, b) => ~Dominates(b, a))
         /\ ~Dominates(a, b) /\ ~Dominates(b, c) => ~Dominates(a, c)
<1> DEFINE ab == a.spread * Span(b)
           ba == b.spread * Span(a)
           bc == b.spread * Span(c)
           cb == c.spread * Span(b)
           ac == a.spread * Span(c)
           ca == c.spread * Span(a)
<1>1. /\ a.size \in Int /\ b.size \in Int /\ c.size \in Int
      /\ a.spread \in Int /\ b.spread \in Int /\ c.spread \in Int
      /\ a.centre \in Int /\ b.centre \in Int /\ c.centre \in Int
      /\ Span(a) \in Nat \ {0} /\ Span(b) \in Nat \ {0} /\ Span(c) \in Nat \ {0}
  BY SpanIsPositive DEF Summaries
<1>2. ab \in Int /\ ba \in Int /\ bc \in Int /\ cb \in Int /\ ac \in Int /\ ca \in Int
  BY <1>1
<1>3. /\ Dominates(a, b) <=> \/ a.size > b.size
                             \/ a.size = b.size /\ ab < ba
                             \/ a.size = b.size /\ ab = ba /\ a.centre < b.centre
      /\ Dominates(b, a) <=> \/ b.size > a.size
                             \/ b.size = a.size /\ ba < ab
                             \/ b.size = a.size /\ ba = ab /\ b.centre < a.centre
      /\ Dominates(b, c) <=> \/ b.size > c.size
                             \/ b.size = c.size /\ bc < cb
                             \/ b.size = c.size /\ bc = cb /\ b.centre < c.centre
      /\ Dominates(a, c) <=> \/ a.size > c.size
                             \/ a.size = c.size /\ ac < ca
                             \/ a.size = c.size /\ ac = ca /\ a.centre < c.centre
  BY DEF Dominates
<1>4. ~Dominates(a, a)
  <2> DEFINE aa == a.spread * Span(a)
  <2>1. Dominates(a, a) <=> \/ a.size > a.size
                            \/ a.size = a.size /\ aa < aa
                            \/ a.size = a.size /\ aa = aa /\ a.centre < a.centre
    BY DEF Dominates
  <2>2. aa \in Int
    BY <1>1
  <2> HIDE DEF aa
  <2> QED BY <1>1, <2>1, <2>2
<1>5. cb <= bc /\ ba <= ab => ca <= ac
  BY <1>1, FractionsOrdered
<1>6. bc <= cb /\ ca <= ac => ba <= ab
  BY <1>1, FractionsOrdered
<1>7. ac <= ca /\ cb <= bc => ab <= ba
  BY <1>1, FractionsOrdered
<1>8. ca <= ac /\ ab <= ba => cb <= bc
  BY <1>1, FractionsOrdered
<1>9. ba <= ab /\ ac <= ca => bc <= cb
  BY <1>1, FractionsOrdered
<1> HIDE DEF ab, ba, bc, cb, ac, ca
<1>10. Dominates(a, b) => ~Dominates(b, a)
  BY <1>1, <1>2, <1>3
<1>11. ~Dominates(a, b) /\ ~Dominates(b, c) => ~Dominates(a, c)
  BY <1>1, <1>2, <1>3, <1>5, <1>6, <1>7, <1>8, <1>9
<1> QED BY <1>4, <1>10, <1>11

\* ByDominance reorders the clusters: ties go to the one that was found first.
LEMMA DominanceFacts ==
  ASSUME NEW n \in Nat, NEW s \in [1..n -> Summaries]
  PROVE  /\ ByDominance(s) \in [1..n -> 1..n]
         /\ \A i, j \in 1..n : i < j => ~Dominates(s[ByDominance(s)[j]], s[ByDominance(s)[i]])
         /\ \A m \in 1..n : \E i \in 1..n : ByDominance(s)[i] = m
<1> DEFINE S == 1..n
           D(i, j) == Dominates(s[i], s[j])
           First(i, j) == D(i, j) \/ (~D(j, i) /\ i < j)
           R == {p \in S \X S : First(p[1], p[2])}
           order == ByDominance(s)
           f(i) == CHOOSE x \in S : Cardinality({y \in S : First(y, x)}) = i - 1
<1>1. \A i, j, k \in S :
        ~D(i, i) /\ (D(i, j) => ~D(j, i)) /\ (~D(i, j) /\ ~D(j, k) => ~D(i, k))
  BY DominatesFacts
<1>2. order = [i \in 1..Cardinality(S) |-> f(i)]
  <2>1. DOMAIN s = S
    OBVIOUS
  <2> QED BY <2>1 DEF ByDominance, Ranked
<1>3. \A i, j \in S : <<i, j>> \in R <=> First(i, j)
  <2> HIDE DEF First
  <2> QED OBVIOUS
<1>4. S \in SUBSET Int /\ IsFiniteSet(S) /\ Cardinality(S) = n
  BY FS_Interval
<1> HIDE DEF S, D, R, order
<1>5. \A i \in S : ~First(i, i)
  BY <1>1, <1>4
<1>6. \A i, j \in S : i # j => First(i, j) \/ First(j, i)
  BY <1>1, <1>4
<1>7. ASSUME NEW i \in S, NEW j \in S, NEW k \in S, First(i, j), First(j, k)
      PROVE  First(i, k)
  <2>1. ~D(j, i) /\ ~D(k, j)
    BY <1>1, <1>7
  <2>2. ~D(k, i)
    BY <1>1, <2>1
  <2>3. CASE i < k
    BY <2>2, <2>3
  <2>4. CASE ~(i < k)
    <3>1. D(i, j) \/ D(j, k)
      BY <1>4, <1>7, <2>4
    <3>2. D(i, k)
      BY <1>1, <2>1, <3>1
    <3> QED BY <3>2
  <2> QED BY <2>3, <2>4
<1>8. \A i, j \in S : First(i, j) => ~D(j, i)
  BY <1>1
<1> HIDE DEF First
<1>9. Orders(R, S)
  BY <1>3, <1>5, <1>6, <1>7 DEF Orders
<1>10. \A i : f(i) = CHOOSE x \in S : Rank(x, R, S) = i - 1
  <2>1. \A x \in S : {y \in S : First(y, x)} = {y \in S : <<y, x>> \in R}
    BY <1>3
  <2>2. \A x \in S : Cardinality({y \in S : First(y, x)}) = Rank(x, R, S)
    BY <2>1 DEF Rank
  <2> QED BY <2>2
<1> HIDE DEF f
<1>11. IsRanked(order, R, S)
  <2>1. \A i \in 1..Cardinality(S) : order[i] = f(i)
    BY <1>2
  <2>2. \A i \in 1..Cardinality(S) : order[i] = CHOOSE x \in S : Rank(x, R, S) = i - 1
    BY <1>10, <2>1
  <2>3. order = [i \in 1..Cardinality(S) |-> order[i]]
    BY <1>2
  <2> QED BY <2>2, <2>3 DEF IsRanked
<1>12. /\ order \in [1..n -> S]
       /\ \A i, j \in 1..n : i < j => <<order[i], order[j]>> \in R
       /\ \A m \in S : \E i \in 1..n : order[i] = m
  BY <1>4, <1>9, <1>11, InOrder
<1>13. \A i, j \in 1..n : i < j => ~D(order[j], order[i])
  BY <1>3, <1>8, <1>12
<1> QED BY <1>12, <1>13 DEF order, S, D

\* Arguments ascend by their values, each as often as it counts.
LEMMA RepeatedFacts ==
  ASSUME NEW S \in SUBSET Int, IsFiniteSet(S), NEW at \in [S -> Int], NEW times \in [S -> Nat]
  PROVE  LET w == Repeated(at, times)
         IN \E N \in Nat : /\ w \in [1..N -> S]
                           /\ \A i, j \in 1..N : i <= j => at[w[i]] <= at[w[j]]
<1> DEFINE order == Ascending(at)
           n == Cardinality(S)
           part(i) == [m \in 1..times[order[i]] |-> order[i]]
           parts == [i \in DOMAIN order |-> part(i)]
           w == Repeated(at, times)
<1>1. w = FlattenSeq(parts)
  BY DEF Repeated
<1>2. /\ n \in Nat /\ order \in [1..n -> S]
      /\ \A i, j \in 1..n : i <= j => at[order[i]] <= at[order[j]]
  BY AscendingFacts
<1> HIDE DEF order, n, w
<1>3. \A i \in 1..n : part(i) \in Seq(S) /\ \A m \in DOMAIN part(i) : part(i)[m] = order[i]
  <2> TAKE i \in 1..n
  <2>2. order[i] \in S
    BY <1>2
  <2>1. times[order[i]] \in Nat
    BY <2>2
  <2> QED BY <2>1, <2>2
<1>4. DOMAIN order = 1..n
  BY <1>2
<1>5. parts \in [1..n -> Seq(S)] /\ \A a \in 1..n : \A b \in DOMAIN parts[a] : parts[a][b] = order[a]
  <2> HIDE DEF part
  <2> QED BY <1>3, <1>4
<1> HIDE DEF parts
<1>6. w \in Seq(S) /\ Strings(w, parts, n)
  BY <1>1, <1>2, <1>5, FlattenFacts
<1>7. w \in [1..Len(w) -> S] /\ Len(w) \in Nat /\ DOMAIN w = 1..Len(w)
  BY <1>6
<1>8. ASSUME NEW i \in 1..Len(w), NEW j \in 1..Len(w), i < j
       PROVE  at[w[i]] <= at[w[j]]
  <2>1. i \in DOMAIN w /\ j \in DOMAIN w
    BY <1>7
  <2>2. \E a, c \in 1..n : \E b \in DOMAIN parts[a] : \E d \in DOMAIN parts[c] :
          /\ w[i] = parts[a][b] /\ w[j] = parts[c][d]
          /\ a < c \/ (a = c /\ b < d)
    <3>1. \A k, l \in DOMAIN w : k < l =>
            InStringOrder(w, parts, n, k, l)
      BY <1>6 DEF Strings
    <3>2. InStringOrder(w, parts, n, i, j)
      BY <1>8, <2>1, <3>1
    <3> QED BY <3>2 DEF InStringOrder
  <2>3. PICK a \in 1..n, c \in 1..n : \E b \in DOMAIN parts[a] : \E d \in DOMAIN parts[c] :
          /\ w[i] = parts[a][b] /\ w[j] = parts[c][d]
          /\ a < c \/ a = c
    BY <2>2, Zenon
  <2>4. w[i] = order[a] /\ w[j] = order[c] /\ (a < c \/ a = c)
    BY <1>5, <2>3, Zenon
  <2>5. a <= c
    BY <1>2, <2>4
  <2> QED BY <1>2, <2>4, <2>5
<1>9. ASSUME NEW i \in 1..Len(w), NEW j \in 1..Len(w), i <= j
       PROVE  at[w[i]] <= at[w[j]]
  <2>1. w[i] \in S /\ w[j] \in S
    BY <1>7
  <2>2. at[w[i]] \in Int
    BY <2>1
  <2>3. CASE i < j
    BY <1>8, <2>3
  <2>4. CASE i = j
    BY <2>2, <2>4
  <2>5. i < j \/ i = j
    BY <1>7, <1>9
  <2> QED BY <2>3, <2>4, <2>5
<1> QED BY <1>7, <1>9 DEF w

\* What a cluster is told apart by.
SummaryOf(c) == [size |-> c.size, centre |-> c.centre, spread |-> c.spread]

\* The clusters of a quantity have summaries, and no two have the same centre.
\* One around zero has only zeros; of positive values, every member is within
\* the threshold of the centre.
LEMMA ClustersInFacts ==
  ASSUME NEW S, NEW at, IntegerValued(at, S), NEW t \in Nat,
         NEW N \in Nat, NEW order \in [1..N -> S],
         \A i, j \in 1..N : i <= j => at[order[i]] <= at[order[j]]
  PROVE  LET C == ClustersIn(order, at, t)
         IN /\ IsFiniteSet(C)
            /\ \A c \in C : SummaryOf(c) \in Summaries /\ c.keys \subseteq S
            /\ \A c, d \in C : c.centre = d.centre => c = d
            /\ t < 1000 => \A c \in C : c.centre = 0 => \A k \in c.keys : at[k] = 0
            /\ (\A x \in S : at[x] \in Nat) =>
                 \A c \in C : c.centre \in Nat /\ \A k \in c.keys : Near(c.centre, 2 * at[k], t)
<1> DEFINE G == Swept(order, at, t)
           C == ClustersIn(order, at, t)
           values(i) == [p \in DOMAIN G[i] |-> at[G[i][p]]]
           Cluster(i) == [keys |-> Range(G[i]), size |-> Summary(values(i)).size,
                          centre |-> Summary(values(i)).centre,
                          spread |-> Summary(values(i)).spread]
<1>1. C = {Cluster(i) : i \in DOMAIN G}
  BY DEF ClustersIn
<1>2. AreGroups(G, order, N, S, at, t)
  BY SweepFacts
<1> HIDE DEF G, C
<1>3. /\ DOMAIN G = 1..Len(G) /\ Len(G) \in Nat
      /\ \A j \in DOMAIN G : Len(G[j]) \in Nat \ {0} /\ DOMAIN G[j] = 1..Len(G[j])
      /\ \A j \in DOMAIN G : 1 \in DOMAIN G[j]
      /\ \A j \in DOMAIN G : \A p \in DOMAIN G[j] : G[j][p] \in S /\ at[G[j][p]] \in Int
  <2> HIDE DEF values, Cluster
  <2> QED BY <1>2, GroupsShape
<1>a. ASSUME t < 1000
      PROVE  \A m \in DOMAIN G : Median(GroupValues(at, G[m])) = 0 =>
               \A p \in DOMAIN G[m] : at[G[m][p]] \in {0}
  <2> HIDE DEF values, Cluster
  <2> QED BY <1>2, <1>a, GroupAtZero
<1>4. ASSUME NEW i \in DOMAIN G
      PROVE  LET c == Cluster(i)
             IN /\ c.keys = Range(G[i]) /\ c.centre = Median(values(i))
                /\ SummaryOf(c) = Summary(values(i))
  BY DEF SummaryOf, Summary
<1> HIDE DEF Cluster
<1>5. ASSUME NEW i \in DOMAIN G
      PROVE  SummaryOf(Cluster(i)) \in Summaries
  <2>1. Len(G[i]) \in Nat \ {0} /\ values(i) \in [1..Len(G[i]) -> Int]
    BY <1>3
  <2> HIDE DEF values
  <2> QED BY <1>4, <2>1, SummaryFacts
<1>6. ASSUME NEW i \in DOMAIN G, NEW k \in Cluster(i).keys
      PROVE  /\ k \in S
             /\ t < 1000 /\ Cluster(i).centre = 0 => at[k] = 0
             /\ (\A x \in S : at[x] \in Nat) => Near(Cluster(i).centre, 2 * at[k], t)
  <2>1. PICK p \in DOMAIN G[i] : k = G[i][p]
    <3>1. k \in Range(G[i])
      BY <1>4, <1>6
    <3> QED BY <3>1 DEF Range
  <2>2. ASSUME t < 1000, Median(values(i)) = 0 PROVE at[G[i][p]] = 0
    <3>1. values(i) = GroupValues(at, G[i])
      BY DEF GroupValues
    <3> HIDE DEF values
    <3>2. Median(GroupValues(at, G[i])) = 0
      BY <2>2, <3>1
    <3> QED BY <1>a, <2>1, <2>2, <3>2
  <2>3. ASSUME \A x \in S : at[x] \in Nat PROVE Near(Median(values(i)), 2 * at[G[i][p]], t)
    BY <1>2, <2>3, MedianNear
  <2> HIDE DEF values
  <2> QED BY <1>3, <1>4, <2>1, <2>2, <2>3
<1>7. ASSUME NEW i \in DOMAIN G, NEW j \in DOMAIN G, Cluster(i).centre = Cluster(j).centre
      PROVE  i = j
  <2>1. \A k, l \in DOMAIN G : k < l => Median(values(k)) < Median(values(l))
    BY <1>2, MediansAscend
  <2>2. \A k \in DOMAIN G : Median(values(k)) \in Int
    BY <1>2, GroupMedian
  <2>3. Median(values(i)) = Median(values(j)) /\ i \in Int /\ j \in Int
    <3> HIDE DEF values
    <3> QED BY <1>3, <1>4, <1>7
  <2> HIDE DEF values
  <2>4. ~(i < j) /\ ~(j < i)
    BY <2>1, <2>2, <2>3
  <2> QED BY <2>3, <2>4
<1>8. IsFiniteSet(C)
  <2> DEFINE f == [i \in DOMAIN G |-> Cluster(i)]
  <2>1. DOMAIN f = 1..Len(G) /\ C = {f[i] : i \in 1..Len(G)}
    BY <1>1, <1>3
  <2>2. IsFiniteSet(1..Len(G))
    BY <1>3, FS_Interval
  <2> HIDE DEF f
  <2> QED BY <2>1, <2>2, FiniteImage
<1>9. \A c \in C : \E i \in DOMAIN G : c = Cluster(i)
  BY <1>1
<1>10. ASSUME \A x \in S : at[x] \in Nat, NEW i \in DOMAIN G
       PROVE  Cluster(i).centre \in Nat
  <2>1. Median(values(i)) \in Int /\ 2 * at[G[i][1]] <= Median(values(i))
    BY <1>2, GroupMedian
  <2>2. at[G[i][1]] \in Nat
    BY <1>3, <1>10, <2>1
  <2> HIDE DEF values
  <2> QED BY <1>4, <2>1, <2>2
<1>11. \A c \in C : SummaryOf(c) \in Summaries /\ c.keys \subseteq S
  BY <1>5, <1>6, <1>9
<1>12. \A c, d \in C : c.centre = d.centre => c = d
  BY <1>7, <1>9
<1>13. t < 1000 => \A c \in C : c.centre = 0 => \A k \in c.keys : at[k] = 0
  BY <1>6, <1>9
<1>14. (\A x \in S : at[x] \in Nat) =>
         \A c \in C : c.centre \in Nat /\ \A k \in c.keys : Near(c.centre, 2 * at[k], t)
  BY <1>6, <1>9, <1>10
<1> QED BY <1>8, <1>11, <1>12, <1>13, <1>14 DEF C

\* Of clusters that all have a centre of their own, one dominates the others.
LEMMA OneDominates ==
  ASSUME NEW F, IsFiniteSet(F), F # {}, \A c \in F : SummaryOf(c) \in Summaries,
         \A c, d \in F : c.centre = d.centre => c = d
  PROVE  \E c \in F : \A d \in F \ {c} : Dominates(c, d)
<1> DEFINE R == {p \in F \X F : Dominates(p[1], p[2])}
<1>1. \A c, d \in F : <<c, d>> \in R <=> Dominates(c, d)
  OBVIOUS
<1>2. \A c, d \in F : Dominates(c, d) <=> Dominates(SummaryOf(c), SummaryOf(d))
  BY DEF Dominates, Span, SummaryOf
<1> HIDE DEF R
<1>3. \A c, d \in F : c # d => <<c, d>> \in R \/ <<d, c>> \in R
  <2> SUFFICES ASSUME NEW c \in F, NEW d \in F, c # d PROVE Dominates(c, d) \/ Dominates(d, c)
    BY <1>1
  <2>1. c.centre # d.centre
    OBVIOUS
  <2>2. c.size \in Int /\ d.size \in Int /\ c.centre \in Int /\ d.centre \in Int
        /\ c.spread \in Int /\ d.spread \in Int
        /\ Span(c) \in Int /\ Span(d) \in Int
    BY SpanIsPositive DEF SummaryOf, Summaries
  <2> DEFINE x == c.spread * Span(d)
             y == d.spread * Span(c)
  <2>3. x \in Int /\ y \in Int
    BY <2>2
  <2>4. /\ Dominates(c, d) <=> \/ c.size > d.size
                               \/ c.size = d.size /\ x < y
                               \/ c.size = d.size /\ x = y /\ c.centre < d.centre
        /\ Dominates(d, c) <=> \/ d.size > c.size
                               \/ d.size = c.size /\ y < x
                               \/ d.size = c.size /\ y = x /\ d.centre < c.centre
    BY DEF Dominates
  <2> HIDE DEF x, y
  <2> QED BY <2>1, <2>2, <2>3, <2>4
<1>4. \A c \in F : <<c, c>> \notin R
  BY <1>1, <1>2, DominatesFacts
<1>5. \A a, b, c \in F : <<a, b>> \in R /\ <<b, c>> \in R => <<a, c>> \in R
  <2> SUFFICES ASSUME NEW a \in F, NEW b \in F, NEW c \in F, <<a, b>> \in R, <<b, c>> \in R
               PROVE  <<a, c>> \in R
    OBVIOUS
  <2>1. Dominates(a, b) /\ Dominates(b, c)
    BY <1>1
  <2>2. ~Dominates(b, a) /\ ~Dominates(c, b)
    BY <1>2, <2>1, DominatesFacts
  <2>3. ~Dominates(c, a)
    BY <1>2, <2>2, DominatesFacts
  <2>4. a # c
    BY <2>1, <2>2
  <2> QED BY <1>1, <1>3, <2>3, <2>4
<1>6. Orders(R, F)
  BY <1>3, <1>4, <1>5 DEF Orders
<1>7. Cardinality(F) \in Nat /\ Cardinality(F) # 0
  BY FS_CardinalityType, FS_EmptySet
<1>8. PICK c \in F : Rank(c, R, F) = 0
  <2>1. \A i \in 1..Cardinality(F) : \E x \in F : Rank(x, R, F) = i - 1
    BY <1>6, Ranking
  <2>2. 1 \in 1..Cardinality(F) /\ 1 - 1 = 0
    BY <1>7
  <2> QED BY <2>1, <2>2
<1>9. {y \in F : <<y, c>> \in R} = {}
  <2>1. IsFiniteSet({y \in F : <<y, c>> \in R})
    BY FS_Subset
  <2> QED BY <1>8, <2>1, FS_EmptySet DEF Rank
<1> QED BY <1>1, <1>3, <1>9

=============================================================================
