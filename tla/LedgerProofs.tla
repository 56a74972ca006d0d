---------------------------- MODULE LedgerProofs ----------------------------
(***************************************************************************)
(* Proofs about Ledger: no BLURT appears or disappears, the shares add up, *)
(* and no step lowers what a share is worth.                               *)
(***************************************************************************)
EXTENDS Ledger, FiniteSetTheorems, WellFoundedInduction, TLAPS

----------------------------------------------------------------------------
(***************************************************************************)
(* Folds over finite sets.  All folds of Ledger go through a set in the    *)
(* order of Chosen; Step lists what they do with an element.               *)
(***************************************************************************)
Chosen(S) == CHOOSE x \in S : TRUE

Step(k, c, x, acc) ==
  CASE k = "sum" -> c[x] + acc
    [] k = "fee" -> Move(acc, x, Null, Fee)
    [] k = "curator" -> create_vesting2(acc, x, c[x], TRUE)
    [] k = "beneficiary" -> PayBeneficiary(acc, x, c[x])
    [] k = "vest" -> HandVests(acc, x, c[x])
    [] k = "redeem" -> RedeemVests(acc, x, c[x])

Iter(f, S, base, k, c) ==
  f = [s \in SUBSET S |-> IF s = {} THEN base
                          ELSE Step(k, c, Chosen(s), f[s \ {Chosen(s)}])]

Fold(k, c, base, S) == (CHOOSE f : Iter(f, S, base, k, c))[S]

\* A nonempty set of naturals has a least element.
LEMMA Least ==
  ASSUME NEW S, S \subseteq Nat, S # {}
  PROVE  \E m \in S : \A n \in S : m <= n
<1>1. PICK m \in S : \A n \in S : <<n, m>> \notin OpToRel(<, Nat)
  BY NatLessThanWellFounded, WFMin, Zenon
<1>2. \A n \in S : ~(n < m)
  BY <1>1 DEF OpToRel
<1> QED BY <1>2

\* A family that has a subset of U whenever it has all the sets that lack one
\* element of it has every subset of U.
LEMMA SubsetInduction ==
  ASSUME NEW U, IsFiniteSet(U), NEW Q,
         \A S \in SUBSET U : (\A x \in S : S \ {x} \in Q) => S \in Q
  PROVE  SUBSET U \subseteq Q
<1> SUFFICES ASSUME NEW T \in SUBSET U, T \notin Q PROVE FALSE
  OBVIOUS
<1> DEFINE N == {n \in Nat : \E S \in SUBSET U : S \notin Q /\ Cardinality(S) = n}
<1>1. \A S \in SUBSET U : IsFiniteSet(S) /\ Cardinality(S) \in Nat
  BY FS_Subset, FS_CardinalityType
<1>2. N # {} /\ N \subseteq Nat
  BY <1>1
<1>3. PICK m \in N : \A n \in N : m <= n
  <2> HIDE DEF N
  <2> QED BY <1>2, Least
<1>4. PICK S \in SUBSET U : S \notin Q /\ Cardinality(S) = m
  BY <1>3
<1>5. PICK x \in S : S \ {x} \notin Q
  BY <1>4
<1>6. Cardinality(S \ {x}) = m - 1 /\ S \ {x} \in SUBSET U
  BY <1>1, <1>4, <1>5, FS_RemoveElement
<1>7. m - 1 \in N
  BY <1>1, <1>5, <1>6
<1> QED BY <1>3, <1>7

\* What Chosen takes from a set is one of its elements.
LEMMA ChosenIn == ASSUME NEW S, S # {} PROVE Chosen(S) \in S
BY DEF Chosen

\* Subsets of a finite set with one element less.
LEMMA OneLess ==
  ASSUME NEW S, IsFiniteSet(S), NEW s \in SUBSET S
  PROVE  /\ IsFiniteSet(s) /\ Cardinality(s) \in Nat
         /\ Cardinality(s) = 0 <=> s = {}
         /\ Cardinality(s) <= Cardinality(S)
         /\ s # {} => /\ s \ {Chosen(s)} \in SUBSET S
                      /\ Cardinality(s \ {Chosen(s)}) = Cardinality(s) - 1
<1>1. IsFiniteSet(s) /\ Cardinality(s) \in Nat /\ Cardinality(s) <= Cardinality(S)
  BY FS_Subset, FS_CardinalityType
<1>2. Cardinality(s) = 0 <=> s = {}
  BY <1>1, FS_EmptySet
<1>3. ASSUME s # {} PROVE Cardinality(s \ {Chosen(s)}) = Cardinality(s) - 1
  <2>1. Chosen(s) \in s
    BY <1>3, ChosenIn
  <2> QED BY <1>1, <2>1, FS_RemoveElement, Zenon
<1> QED BY <1>1, <1>2, <1>3

\* The recursion of a fold has a solution on every finite set.
LEMMA IterExists ==
  ASSUME NEW S, IsFiniteSet(S), NEW base, NEW k, NEW c
  PROVE  \E f : Iter(f, S, base, k, c)
<1> DEFINE Small(n) == {s \in SUBSET S : Cardinality(s) <= n}
           Rec(f, s) == IF s = {} THEN base ELSE Step(k, c, Chosen(s), f[s \ {Chosen(s)}])
           Solves(f, n) == f = [s \in Small(n) |-> Rec(f, s)]
           N == {n \in Nat : ~ \E f : Solves(f, n)}
           M == Cardinality(S)
<1>1. M \in Nat /\ Small(M) = SUBSET S
  BY OneLess
<1>2. SUFFICES N = {}
  <2>1. PICK f : Solves(f, M)
    BY <1>1, <1>2
  <2>2. Iter(f, S, base, k, c)
    BY <1>1, <2>1 DEF Iter
  <2> QED BY <2>2
<1>3. SUFFICES ASSUME NEW n \in N, \A j \in N : n <= j PROVE FALSE
  <2> HIDE DEF N
  <2> N \subseteq Nat BY DEF N
  <2> QED BY Least
<1>4. CASE n = 0
  <2>1. Small(0) = {{}}
    <3>1. ASSUME NEW s \in SUBSET S PROVE Cardinality(s) <= 0 <=> s = {}
      <4>1. Cardinality(s) \in Nat /\ (Cardinality(s) = 0 <=> s = {})
        BY OneLess
      <4> QED BY <4>1
    <3> QED BY <3>1
  <2>2. Solves([s \in Small(0) |-> base], 0)
    BY <2>1
  <2> QED BY <1>4, <2>2
<1>5. CASE n # 0
  <2>1. PICK f : Solves(f, n - 1)
    <3>1. n \in Nat
      OBVIOUS
    <3>2. n - 1 \in Nat /\ n - 1 \notin N
      <4> HIDE DEF N
      <4> QED BY <1>3, <1>5, <3>1
    <3> QED BY <3>2
  <2> DEFINE g == [s \in Small(n) |-> IF s \in Small(n - 1) THEN f[s] ELSE Rec(f, s)]
  <2>2. ASSUME NEW s \in Small(n), s # {}
        PROVE  s \ {Chosen(s)} \in Small(n - 1) /\ s \ {Chosen(s)} \in Small(n)
    BY <2>2, OneLess
  <2>3. ASSUME NEW s \in Small(n) PROVE g[s] = Rec(g, s)
    <3>1. g[s] = Rec(f, s)
      <4>1. CASE s \in Small(n - 1)
        <5> HIDE DEF Rec, Small
        <5> QED BY <2>1, <4>1
      <4> QED BY <4>1
    <3>2. CASE s = {}
      BY <3>1, <3>2
    <3>3. CASE s # {}
      <4>1. g[s \ {Chosen(s)}] = f[s \ {Chosen(s)}]
        BY <2>2, <3>3
      <4> HIDE DEF g
      <4> QED BY <3>1, <3>3, <4>1
    <3> QED BY <3>2, <3>3
  <2>4. Solves(g, n)
    <3>1. DOMAIN g = Small(n) /\ g = [s \in Small(n) |-> g[s]]
      BY DEF g
    <3> HIDE DEF g, Small, Rec
    <3> QED BY <2>3, <3>1
  <2> HIDE DEF Solves, g
  <2> QED BY <1>3, <2>4
<1> QED BY <1>4, <1>5

\* Two solutions agree where both are defined.
LEMMA IterUnique ==
  ASSUME NEW S, IsFiniteSet(S), NEW T \in SUBSET S, NEW base, NEW k, NEW c,
         NEW f, Iter(f, S, base, k, c), NEW g, Iter(g, T, base, k, c)
  PROVE  f[T] = g[T]
<1> DEFINE Q == {s \in SUBSET T : f[s] = g[s]}
<1>1. IsFiniteSet(T)
  BY FS_Subset
<1>2. ASSUME NEW s \in SUBSET T, \A x \in s : s \ {x} \in Q PROVE s \in Q
  <2>1. s \in SUBSET S
    OBVIOUS
  <2>2. CASE s = {}
    BY <2>1, <2>2 DEF Iter
  <2>3. CASE s # {}
    <3>1. f[s \ {Chosen(s)}] = g[s \ {Chosen(s)}]
      BY <1>2, <2>3, ChosenIn
    <3> QED BY <2>1, <2>3, <3>1 DEF Iter
  <2> QED BY <2>2, <2>3
<1>3. SUBSET T \subseteq Q
  <2> HIDE DEF Q
  <2> QED BY <1>1, <1>2, SubsetInduction
<1> QED BY <1>3

\* What a fold is computed from.
LEMMA FoldIs ==
  ASSUME NEW S, IsFiniteSet(S), NEW base, NEW k, NEW c, NEW f, Iter(f, S, base, k, c)
  PROVE  Fold(k, c, base, S) = f[S]
<1> DEFINE g == CHOOSE h : Iter(h, S, base, k, c)
<1>1. Iter(g, S, base, k, c)
  OBVIOUS
<1> HIDE DEF g
<1>2. f[S] = g[S]
  BY <1>1, IterUnique
<1> QED BY <1>2 DEF Fold, g

\* The recursion of a fold.
LEMMA FoldStep ==
  ASSUME NEW S, IsFiniteSet(S), NEW base, NEW k, NEW c
  PROVE  /\ S = {} => Fold(k, c, base, S) = base
         /\ S # {} => Fold(k, c, base, S)
                        = Step(k, c, Chosen(S), Fold(k, c, base, S \ {Chosen(S)}))
<1>1. PICK f : Iter(f, S, base, k, c)
  BY IterExists
<1>2. Fold(k, c, base, S) = f[S]
  BY <1>1, FoldIs
<1>3. CASE S = {}
  BY <1>1, <1>2, <1>3 DEF Iter
<1>4. CASE S # {}
  <2> DEFINE T == S \ {Chosen(S)}
  <2>1. T \in SUBSET S /\ IsFiniteSet(T)
    BY FS_Subset
  <2> HIDE DEF T
  <2>2. PICK g : Iter(g, T, base, k, c)
    BY <2>1, IterExists
  <2>3. Fold(k, c, base, T) = f[T]
    BY <1>1, <2>1, <2>2, FoldIs, IterUnique
  <2>4. f[S] = Step(k, c, Chosen(S), f[T])
    BY <1>1, <1>4 DEF Iter, T
  <2> QED BY <1>2, <1>4, <2>3, <2>4 DEF T
<1> QED BY <1>3, <1>4

----------------------------------------------------------------------------
(***************************************************************************)
(* Sums.                                                                   *)
(***************************************************************************)
Sum(d, S) == Fold("sum", d, 0, S)

\* Total adds up a function over its domain.
LEMMA TotalIsSum ==
  ASSUME NEW d, IsFiniteSet(DOMAIN d)
  PROVE  Total(d) = Sum(d, DOMAIN d)
<1> DEFINE S == DOMAIN d
           Rec(f) == f = [s \in SUBSET S |-> IF s = {} THEN 0
                                             ELSE d[Chosen(s)] + f[s \ {Chosen(s)}]]
<1>1. \A f : Iter(f, S, 0, "sum", d) <=> Rec(f)
  BY DEF Iter, Step
<1>2. PICK f : Rec(f)
  BY <1>1, IterExists
<1>3. \E g : Rec(g) /\ Total(d) = g[S]
  BY <1>2 DEF Total, MapThenSumSet, MapThenFoldSet, Chosen
<1> HIDE DEF Rec, S
<1> QED BY <1>1, <1>3, FoldIs DEF Sum, S

\* The recursion of a sum.
LEMMA SumStep ==
  ASSUME NEW S, IsFiniteSet(S), NEW d
  PROVE  /\ S = {} => Sum(d, S) = 0
         /\ S # {} => Sum(d, S) = d[Chosen(S)] + Sum(d, S \ {Chosen(S)})
<1>1. \A x, acc : Step("sum", d, x, acc) = d[x] + acc
  BY DEF Step
<1> QED BY <1>1, FoldStep DEF Sum

\* Sums of integers are integers.
LEMMA SumInt ==
  ASSUME NEW S, IsFiniteSet(S), NEW d, \A x \in S : d[x] \in Int
  PROVE  Sum(d, S) \in Int
<1> DEFINE Q == {s \in SUBSET S : Sum(d, s) \in Int}
<1>1. ASSUME NEW s \in SUBSET S, \A x \in s : s \ {x} \in Q PROVE s \in Q
  <2>1. IsFiniteSet(s)
    BY FS_Subset
  <2>2. s # {} => d[Chosen(s)] \in Int /\ Sum(d, s \ {Chosen(s)}) \in Int
    BY <1>1, ChosenIn
  <2>3. Sum(d, s) \in Int
    <3>1. CASE s = {}
      <4>1. Sum(d, s) = 0
        BY <2>1, <3>1, SumStep
      <4> QED BY <4>1
    <3>2. CASE s # {}
      <4>1. Sum(d, s) = d[Chosen(s)] + Sum(d, s \ {Chosen(s)})
        BY <2>1, <3>2, SumStep
      <4> QED BY <2>2, <3>2, <4>1
    <3> QED BY <3>1, <3>2
  <2> QED BY <2>3
<1>2. SUBSET S \subseteq Q
  <2> HIDE DEF Q
  <2> QED BY <1>1, SubsetInduction
<1> QED BY <1>2

\* An element can be taken out of a sum, whichever it is.
LEMMA SumRemove ==
  ASSUME NEW S, IsFiniteSet(S), NEW d, \A x \in S : d[x] \in Int, NEW y \in S
  PROVE  Sum(d, S) = d[y] + Sum(d, S \ {y})
<1> DEFINE Q == {s \in SUBSET S : \A x \in s : Sum(d, s) = d[x] + Sum(d, s \ {x})}
<1>1. ASSUME NEW s \in SUBSET S, \A x \in s : s \ {x} \in Q PROVE s \in Q
  <2> SUFFICES ASSUME NEW x \in s PROVE Sum(d, s) = d[x] + Sum(d, s \ {x})
    OBVIOUS
  <2> DEFINE z == Chosen(s)
  <2>1. z \in s /\ IsFiniteSet(s)
    BY ChosenIn, FS_Subset
  <2>2. Sum(d, s) = d[z] + Sum(d, s \ {z})
    BY <2>1, SumStep
  <2> HIDE DEF z
  <2>3. CASE x = z
    BY <2>2, <2>3
  <2>4. CASE x # z
    <3> DEFINE r == (s \ {z}) \ {x}
    <3>1. r = (s \ {x}) \ {z} /\ r \in SUBSET S /\ IsFiniteSet(r)
      BY FS_Subset
    <3>2. Sum(d, s \ {z}) = d[x] + Sum(d, r)
      BY <1>1, <2>1, <2>4
    <3>3. Sum(d, s \ {x}) = d[z] + Sum(d, r)
      BY <1>1, <2>1, <2>4, <3>1
    <3>4. d[x] \in Int /\ d[z] \in Int /\ Sum(d, r) \in Int
      BY <2>1, <3>1, SumInt
    <3> HIDE DEF r
    <3> QED BY <2>2, <3>2, <3>3, <3>4
  <2> QED BY <2>3, <2>4
<1>2. SUBSET S \subseteq Q
  <2> HIDE DEF Q
  <2> QED BY <1>1, SubsetInduction
<1> QED BY <1>2

\* A sum depends on the values at its set only.
LEMMA SumCong ==
  ASSUME NEW S, IsFiniteSet(S), NEW d, NEW e, \A x \in S : d[x] = e[x]
  PROVE  Sum(d, S) = Sum(e, S)
<1> DEFINE Q == {s \in SUBSET S : Sum(d, s) = Sum(e, s)}
<1>1. ASSUME NEW s \in SUBSET S, \A x \in s : s \ {x} \in Q PROVE s \in Q
  <2>1. IsFiniteSet(s)
    BY FS_Subset
  <2>2. CASE s = {}
    BY <2>1, <2>2, SumStep
  <2>3. CASE s # {}
    <3>1. Chosen(s) \in s /\ d[Chosen(s)] = e[Chosen(s)]
      BY <2>3, ChosenIn
    <3>2. Sum(d, s \ {Chosen(s)}) = Sum(e, s \ {Chosen(s)})
      BY <1>1, <3>1
    <3> QED BY <2>1, <2>3, <3>1, <3>2, SumStep
  <2> QED BY <2>2, <2>3
<1>2. SUBSET S \subseteq Q
  <2> HIDE DEF Q
  <2> QED BY <1>1, SubsetInduction
<1> QED BY <1>2

\* Sums of naturals are naturals, and no part is more than the whole.
LEMMA SumNat ==
  ASSUME NEW S, IsFiniteSet(S), NEW d, \A x \in S : d[x] \in Nat
  PROVE  Sum(d, S) \in Nat /\ \A x \in S : d[x] <= Sum(d, S)
<1> DEFINE Q == {s \in SUBSET S : Sum(d, s) \in Nat}
<1>1. ASSUME NEW s \in SUBSET S, \A x \in s : s \ {x} \in Q PROVE s \in Q
  <2>1. IsFiniteSet(s)
    BY FS_Subset
  <2>2. s # {} => d[Chosen(s)] \in Nat /\ Sum(d, s \ {Chosen(s)}) \in Nat
    BY <1>1, ChosenIn
  <2>3. Sum(d, s) \in Nat
    <3>1. CASE s = {}
      <4>1. Sum(d, s) = 0
        BY <2>1, <3>1, SumStep
      <4> QED BY <4>1
    <3>2. CASE s # {}
      <4>1. Sum(d, s) = d[Chosen(s)] + Sum(d, s \ {Chosen(s)})
        BY <2>1, <3>2, SumStep
      <4> QED BY <2>2, <3>2, <4>1
    <3> QED BY <3>1, <3>2
  <2> QED BY <2>3
<1>2. SUBSET S \subseteq Q
  <2> HIDE DEF Q
  <2> QED BY <1>1, SubsetInduction
<1>3. ASSUME NEW x \in S PROVE d[x] <= Sum(d, S)
  <2>1. Sum(d, S) = d[x] + Sum(d, S \ {x})
    BY SumRemove
  <2>2. Sum(d, S \ {x}) \in Nat
    BY <1>2
  <2> QED BY <2>1, <2>2
<1> QED BY <1>2, <1>3

\* The sums over two disjoint sets.
LEMMA SumUnion ==
  ASSUME NEW S, IsFiniteSet(S), NEW d, \A x \in S : d[x] \in Int, NEW A \in SUBSET S
  PROVE  Sum(d, S) = Sum(d, A) + Sum(d, S \ A)
<1> DEFINE B == S \ A
           Q == {s \in SUBSET A : Sum(d, s \union B) = Sum(d, s) + Sum(d, B)}
<1>1. IsFiniteSet(A) /\ IsFiniteSet(B) /\ Sum(d, B) \in Int
  BY FS_Subset, SumInt
<1>2. ASSUME NEW s \in SUBSET A, \A x \in s : s \ {x} \in Q PROVE s \in Q
  <2>1. CASE s = {}
    <3>1. Sum(d, s) = 0 /\ s \union B = B
      BY <2>1, FS_EmptySet, SumStep
    <3>2. Sum(d, s \union B) = Sum(d, s) + Sum(d, B)
      <4> HIDE DEF B
      <4> QED BY <1>1, <3>1
    <3> QED BY <3>2
  <2>2. CASE s # {}
    <3> DEFINE x == Chosen(s)
               r == s \ {x}
    <3>1. x \in s /\ IsFiniteSet(s) /\ IsFiniteSet(s \union B) /\ IsFiniteSet(r)
      BY <1>1, <2>2, ChosenIn, FS_Subset
    <3>2. (s \union B) \ {x} = r \union B
      BY <3>1
    <3>3. Sum(d, r \union B) = Sum(d, r) + Sum(d, B)
      BY <1>2, <3>1
    <3> HIDE DEF x, B
    <3>4. Sum(d, s) = d[x] + Sum(d, r)
      BY <3>1, SumRemove
    <3>5. Sum(d, s \union B) = d[x] + Sum(d, r \union B)
      <4>1. \A y \in s \union B : d[y] \in Int
        BY DEF B
      <4> QED BY <3>1, <3>2, <4>1, SumRemove
    <3>6. d[x] \in Int /\ Sum(d, r) \in Int
      BY <3>1, SumInt
    <3> QED BY <1>1, <3>3, <3>4, <3>5, <3>6
  <2> QED BY <2>1, <2>2
<1>3. SUBSET A \subseteq Q
  <2> HIDE DEF Q
  <2> QED BY <1>1, <1>2, SubsetInduction
<1>4. A \union B = S
  OBVIOUS
<1> QED BY <1>3, <1>4

\* The total of a function to Nat.
LEMMA TotalNat ==
  ASSUME NEW S, IsFiniteSet(S), NEW d \in [S -> Nat]
  PROVE  /\ Total(d) \in Nat /\ Total(d) = Sum(d, S)
         /\ \A x \in S : d[x] <= Total(d)
<1>1. DOMAIN d = S /\ \A x \in S : d[x] \in Nat
  OBVIOUS
<1> QED BY <1>1, TotalIsSum, SumNat

\* One value of a function is changed.
LEMMA TotalUpdate ==
  ASSUME NEW S, IsFiniteSet(S), NEW d, d \in [S -> Nat], NEW e, e \in [S -> Nat],
         NEW a \in S, \A x \in S \ {a} : e[x] = d[x]
  PROVE  Total(e) = Total(d) + (e[a] - d[a])
<1> DEFINE R == S \ {a}
<1>1. Total(d) = Sum(d, S) /\ Total(e) = Sum(e, S)
  BY TotalNat
<1>2. /\ IsFiniteSet(R) /\ (\A x \in S : d[x] \in Int) /\ (\A x \in S : e[x] \in Int)
      /\ \A x \in R : e[x] = d[x]
  BY FS_Subset
<1> HIDE DEF R
<1>3. Sum(d, R) = Sum(e, R)
  BY <1>2, SumCong
<1>4. Sum(d, S) = d[a] + Sum(d, R) /\ Sum(e, S) = e[a] + Sum(e, R)
  BY <1>2, SumRemove DEF R
<1>5. Sum(d, R) \in Int
  BY <1>2, SumInt DEF R
<1>6. d[a] \in Int /\ e[a] \in Int
  BY <1>2
<1> QED BY <1>1, <1>3, <1>4, <1>5, <1>6

\* An element is added to the domain of a function.
LEMMA TotalExtend ==
  ASSUME NEW S, IsFiniteSet(S), NEW x, x \notin S,
         NEW e, DOMAIN e = S \union {x}, \A y \in DOMAIN e : e[y] \in Nat
  PROVE  Total(e) = Total([y \in S |-> e[y]]) + e[x]
<1> DEFINE T == S \union {x}
           d == [y \in S |-> e[y]]
<1>1. IsFiniteSet(T) /\ T \ {x} = S /\ d \in [S -> Nat] /\ \A y \in S : d[y] = e[y]
  BY FS_AddElement
<1>2. Total(e) = Sum(e, T)
  BY <1>1, TotalIsSum
<1>3. Sum(e, T) = e[x] + Sum(e, S)
  <2> HIDE DEF d
  <2> QED BY <1>1, SumRemove
<1>4. Total(d) = Sum(d, S) /\ Total(d) \in Nat
  <2> HIDE DEF d
  <2> QED BY <1>1, TotalNat
<1>5. Sum(d, S) = Sum(e, S)
  <2> HIDE DEF d
  <2> QED BY <1>1, SumCong
<1> HIDE DEF d, T
<1>6. e[x] \in Nat
  BY DEF T
<1> QED BY <1>2, <1>3, <1>4, <1>5, <1>6 DEF d

\* Division rounds down.
LEMMA Floor ==
  ASSUME NEW a \in Nat, NEW b \in Nat \ {0}
  PROVE  a \div b \in Nat /\ b * (a \div b) <= a /\ a < b * (a \div b) + b
OBVIOUS

\* Parts of t in proportion to weights, each rounded down, are together no
\* more than t if the weights are together no more than the divisor.
LEMMA PartsFit ==
  ASSUME NEW S, IsFiniteSet(S), NEW w \in [S -> Nat], NEW t \in Nat, NEW D \in Nat \ {0},
         Total(w) <= D,
         NEW e, e = [x \in S |-> (t * w[x]) \div D]
  PROVE  e \in [S -> Nat] /\ Total(e) \in Nat /\ Total(e) <= t
<1>1. ASSUME NEW x \in S PROVE e[x] \in Nat /\ w[x] \in Nat /\ D * e[x] <= t * w[x]
  <2>1. w[x] \in Nat /\ t * w[x] \in Nat
    OBVIOUS
  <2> QED BY <2>1, Floor
<1>11. e \in [S -> Nat]
  BY <1>1
<1> DEFINE Q == {s \in SUBSET S : D * Sum(e, s) <= t * Sum(w, s)}
<1>2. ASSUME NEW s \in SUBSET S, \A x \in s : s \ {x} \in Q PROVE s \in Q
  <2>1. IsFiniteSet(s)
    BY FS_Subset
  <2>2. CASE s = {}
    <3>1. Sum(e, s) = 0 /\ Sum(w, s) = 0
      BY <2>1, <2>2, SumStep
    <3> QED BY <3>1
  <2>3. CASE s # {}
    <3> DEFINE x == Chosen(s)
               r == s \ {x}
    <3>1. x \in S /\ r \in Q /\ r \in SUBSET S /\ IsFiniteSet(r)
      BY <1>2, <2>1, <2>3, ChosenIn, FS_Subset
    <3>2. Sum(e, s) = e[x] + Sum(e, r) /\ Sum(w, s) = w[x] + Sum(w, r)
      BY <2>1, <2>3, SumStep
    <3>3. D * Sum(e, r) <= t * Sum(w, r)
      BY <3>1
    <3> HIDE DEF x, r
    <3>4. Sum(e, r) \in Nat /\ Sum(w, r) \in Nat
      BY <1>1, <3>1, SumNat
    <3>5. e[x] \in Nat /\ w[x] \in Nat /\ D * e[x] <= t * w[x]
      BY <1>1, <3>1
    <3>6. D * (e[x] + Sum(e, r)) <= t * (w[x] + Sum(w, r))
      <4>1. ASSUME NEW p \in Nat, NEW q \in Nat, NEW u \in Nat, NEW v \in Nat,
                   D * p <= t * u, D * q <= t * v
            PROVE  D * (p + q) <= t * (u + v)
        BY <4>1
      <4> QED BY <3>3, <3>4, <3>5, <4>1
    <3> QED BY <3>2, <3>6
  <2> QED BY <2>2, <2>3
<1>3. SUBSET S \subseteq Q
  <2> HIDE DEF Q
  <2> QED BY <1>2, SubsetInduction, Zenon
<1>4. Total(w) = Sum(w, S) /\ Total(w) \in Nat
  BY TotalNat
<1>5. Total(e) = Sum(e, S) /\ Total(e) \in Nat
  BY <1>1, TotalIsSum, SumNat
<1>6. D * Total(e) <= t * Total(w)
  BY <1>3, <1>4, <1>5
<1>7. ASSUME NEW p \in Nat, NEW q \in Nat, D * p <= t * q, q <= D PROVE p <= t
  <2>1. t * q <= t * D
    BY <1>7
  <2>2. D * p <= D * t
    BY <1>7, <2>1
  <2> QED BY <2>2
<1> QED BY <1>4, <1>5, <1>6, <1>7, <1>11

----------------------------------------------------------------------------
(***************************************************************************)
(* What the helpers do to a ledger.  Owned is the BLURT a ledger has more  *)
(* than its supply says, Gap the shares of accounts it has not counted.    *)
(***************************************************************************)
Owned(l) ==
  Total(l.balance) + Total(l.savings_balance) + Total(l.reward_blurt_balance)
  + l.reward_balance + l.total_vesting_fund_blurt
  + l.pending_rewarded_vesting_blurt - l.unbacked - l.current_supply

Gap(l) == Total(l.vesting_shares) - l.total_vesting_shares

\* l becomes m, with n more BLURT and v more shares that are not counted.
Becomes(l, m, n, v) ==
  Sound(m) /\ Owned(m) = Owned(l) + n /\ Gap(m) = Gap(l) + v

\* A share is not worth less in m than in l.
Keeps(l, m) ==
  l.total_vesting_shares > 0 /\ m.total_vesting_shares > 0 =>
    m.total_vesting_fund_blurt * l.total_vesting_shares
      >= l.total_vesting_fund_blurt * m.total_vesting_shares

\* Shares, the fund and the shares still to be claimed are the same.
SameFund(l, m) ==
  /\ m.total_vesting_shares = l.total_vesting_shares
  /\ m.total_vesting_fund_blurt = l.total_vesting_fund_blurt
  /\ m.pending_rewarded_vesting_shares = l.pending_rewarded_vesting_shares

\* The reward fund is the same.
SamePool(l, m) == m.reward_balance = l.reward_balance

\* Accounts are finitely many.
LEMMA AccountsFinite == IsFiniteSet(Accounts)
<1>1. IsFiniteSet(Users \union {Null}) /\ IsFiniteSet((Users \union {Null}) \union {Treasury})
  BY LedgerAssumption, FS_AddElement
<1>2. Accounts = (Users \union {Null}) \union {Treasury}
  BY DEF Accounts
<1> QED BY <1>1, <1>2

\* One account's entry is changed.
LEMMA TotalChange ==
  ASSUME NEW d, d \in [Accounts -> Nat], NEW e, e \in [Accounts -> Nat],
         NEW a \in Accounts, \A x \in Accounts \ {a} : e[x] = d[x]
  PROVE  Total(e) = Total(d) + (e[a] - d[a]) /\ Total(d) \in Nat
BY AccountsFinite, TotalUpdate, TotalNat

\* A sum changes by what one of its values is raised.
LEMMA TotalRaise ==
  ASSUME NEW d, d \in [Accounts -> Nat], NEW a \in Accounts, NEW n \in Int, d[a] + n >= 0
  PROVE  /\ [d EXCEPT ![a] = @ + n] \in [Accounts -> Nat]
         /\ Total([d EXCEPT ![a] = @ + n]) = Total(d) + n
<1> DEFINE e == [d EXCEPT ![a] = @ + n]
<1>1. /\ d[a] \in Nat /\ e[a] = d[a] + n /\ e \in [Accounts -> Nat]
      /\ \A x \in Accounts \ {a} : e[x] = d[x]
  OBVIOUS
<1> HIDE DEF e
<1>2. Total(e) = Total(d) + (e[a] - d[a]) /\ Total(d) \in Nat
  BY <1>1, TotalChange
<1>3. Total(e) = Total(d) + n
  BY <1>1, <1>2
<1> QED BY <1>1, <1>3 DEF e

\* The types of what a ledger holds.
LEMMA SoundTypes ==
  ASSUME NEW l, Sound(l)
  PROVE  /\ l.balance \in [Accounts -> Nat] /\ l.savings_balance \in [Accounts -> Nat]
         /\ l.reward_blurt_balance \in [Accounts -> Nat]
         /\ l.reward_vesting_blurt \in [Accounts -> Nat]
         /\ l.reward_vesting_balance \in [Accounts -> Nat]
         /\ l.vesting_shares \in [Accounts -> Nat]
         /\ l.total_vesting_fund_blurt \in Nat /\ l.total_vesting_shares \in Nat
         /\ l.pending_rewarded_vesting_shares \in Nat
         /\ l.pending_rewarded_vesting_blurt \in Nat
         /\ l.reward_balance \in Nat /\ l.current_supply \in Nat /\ l.unbacked \in Nat
BY DEF Sound, LedgerRecords, PerAccount

\* The types of the sums over it.
LEMMA SoundTotals ==
  ASSUME NEW l, Sound(l)
  PROVE  /\ Total(l.balance) \in Nat /\ Total(l.savings_balance) \in Nat
         /\ Total(l.reward_blurt_balance) \in Nat /\ Total(l.vesting_shares) \in Nat
         /\ Total(l.reward_vesting_blurt) \in Nat /\ Total(l.reward_vesting_balance) \in Nat
         /\ Owned(l) \in Int /\ Gap(l) \in Int
         /\ \A a \in Accounts : l.vesting_shares[a] <= Total(l.vesting_shares)
<1>1. /\ Total(l.balance) \in Nat /\ Total(l.savings_balance) \in Nat
      /\ Total(l.reward_blurt_balance) \in Nat /\ Total(l.vesting_shares) \in Nat
      /\ Total(l.reward_vesting_blurt) \in Nat /\ Total(l.reward_vesting_balance) \in Nat
      /\ \A a \in Accounts : l.vesting_shares[a] <= Total(l.vesting_shares)
  BY SoundTypes, AccountsFinite, TotalNat
<1>2. Owned(l) \in Int
  BY <1>1, SoundTypes DEF Owned
<1>3. Gap(l) \in Int
  BY <1>1, SoundTypes DEF Gap
<1> QED BY <1>1, <1>2, <1>3

\* adjust_balance moves delta into a's balance, if there is enough.
LEMMA AdjustBalance ==
  ASSUME NEW l, Sound(l), NEW a \in Accounts, NEW delta \in Int,
         l.balance[a] + delta >= 0,
         NEW m, m = adjust_balance(l, a, delta)
  PROVE  /\ Becomes(l, m, delta, 0) /\ Keeps(l, m)
         /\ m.balance = [l.balance EXCEPT ![a] = @ + delta]
         /\ m.vesting_shares = l.vesting_shares /\ SamePool(l, m)
         /\ SameFund(l, m)
<1>1. l.balance \in [Accounts -> Nat]
  BY SoundTypes
<1> DEFINE b == [l.balance EXCEPT ![a] = @ + delta]
<1>2. b \in [Accounts -> Nat] /\ Total(b) = Total(l.balance) + delta
  BY <1>1, TotalRaise
<1> HIDE DEF b
<1>3. /\ m \in LedgerRecords /\ m.balance = b
      /\ m.savings_balance = l.savings_balance
      /\ m.reward_blurt_balance = l.reward_blurt_balance
      /\ m.reward_vesting_blurt = l.reward_vesting_blurt
      /\ m.reward_vesting_balance = l.reward_vesting_balance
      /\ m.vesting_shares = l.vesting_shares
      /\ m.total_vesting_fund_blurt = l.total_vesting_fund_blurt
      /\ m.total_vesting_shares = l.total_vesting_shares
      /\ m.pending_rewarded_vesting_shares = l.pending_rewarded_vesting_shares
      /\ m.pending_rewarded_vesting_blurt = l.pending_rewarded_vesting_blurt
      /\ m.reward_balance = l.reward_balance /\ m.current_supply = l.current_supply
      /\ m.unbacked = l.unbacked
  <2>1. m = [l EXCEPT !.balance = b]
    BY DEF adjust_balance, b
  <2> QED BY <1>2, <2>1 DEF Sound, LedgerRecords, PerAccount
<1>4. Sound(m)
  BY <1>3 DEF Sound
<1>5. Owned(m) = Owned(l) + delta
  BY <1>2, <1>3, SoundTotals, SoundTypes DEF Owned
<1>6. Gap(m) = Gap(l) + 0
  BY <1>3, SoundTotals DEF Gap
<1>7. Keeps(l, m)
  BY <1>3, SoundTypes DEF Keeps
<1> QED BY <1>3, <1>4, <1>5, <1>6, <1>7 DEF Becomes, b, SameFund, SamePool

\* adjust_savings_balance moves delta into a's savings, if there is enough.
LEMMA AdjustSavings ==
  ASSUME NEW l, Sound(l), NEW a \in Accounts, NEW delta \in Int,
         l.savings_balance[a] + delta >= 0,
         NEW m, m = adjust_savings_balance(l, a, delta)
  PROVE  /\ Becomes(l, m, delta, 0) /\ Keeps(l, m)
<1>1. l.savings_balance \in [Accounts -> Nat]
  BY SoundTypes
<1> DEFINE b == [l.savings_balance EXCEPT ![a] = @ + delta]
<1>2. b \in [Accounts -> Nat] /\ Total(b) = Total(l.savings_balance) + delta
  BY <1>1, TotalRaise
<1> HIDE DEF b
<1>3. /\ m \in LedgerRecords /\ m.savings_balance = b
      /\ m.balance = l.balance
      /\ m.reward_blurt_balance = l.reward_blurt_balance
      /\ m.reward_vesting_blurt = l.reward_vesting_blurt
      /\ m.reward_vesting_balance = l.reward_vesting_balance
      /\ m.vesting_shares = l.vesting_shares
      /\ m.total_vesting_fund_blurt = l.total_vesting_fund_blurt
      /\ m.total_vesting_shares = l.total_vesting_shares
      /\ m.pending_rewarded_vesting_shares = l.pending_rewarded_vesting_shares
      /\ m.pending_rewarded_vesting_blurt = l.pending_rewarded_vesting_blurt
      /\ m.reward_balance = l.reward_balance /\ m.current_supply = l.current_supply
      /\ m.unbacked = l.unbacked
  <2>1. m = [l EXCEPT !.savings_balance = b]
    BY DEF adjust_savings_balance, b
  <2> QED BY <1>2, <2>1 DEF Sound, LedgerRecords, PerAccount
<1>4. Sound(m)
  BY <1>3 DEF Sound
<1>5. Owned(m) = Owned(l) + delta
  BY <1>2, <1>3, SoundTotals, SoundTypes DEF Owned
<1>6. Gap(m) = Gap(l) + 0
  BY <1>3, SoundTotals DEF Gap
<1>7. Keeps(l, m)
  BY <1>3, SoundTypes DEF Keeps
<1> QED BY <1>4, <1>5, <1>6, <1>7 DEF Becomes

\* Shares handed to an account and not counted.
LEMMA HandShares ==
  ASSUME NEW l, Sound(l), NEW a \in Accounts, NEW n \in Int, l.vesting_shares[a] + n >= 0,
         NEW m, m = HandVests(l, a, n)
  PROVE  /\ Becomes(l, m, 0, n) /\ Keeps(l, m)
         /\ m.vesting_shares = [l.vesting_shares EXCEPT ![a] = @ + n]
         /\ SameFund(l, m)
<1>1. l.vesting_shares \in [Accounts -> Nat]
  BY SoundTypes
<1> DEFINE b == [l.vesting_shares EXCEPT ![a] = @ + n]
<1>2. b \in [Accounts -> Nat] /\ Total(b) = Total(l.vesting_shares) + n
  BY <1>1, TotalRaise
<1> HIDE DEF b
<1>3. /\ m \in LedgerRecords /\ m.vesting_shares = b
      /\ m.balance = l.balance /\ m.savings_balance = l.savings_balance
      /\ m.reward_blurt_balance = l.reward_blurt_balance
      /\ m.reward_vesting_blurt = l.reward_vesting_blurt
      /\ m.reward_vesting_balance = l.reward_vesting_balance
      /\ m.total_vesting_fund_blurt = l.total_vesting_fund_blurt
      /\ m.total_vesting_shares = l.total_vesting_shares
      /\ m.pending_rewarded_vesting_shares = l.pending_rewarded_vesting_shares
      /\ m.pending_rewarded_vesting_blurt = l.pending_rewarded_vesting_blurt
      /\ m.reward_balance = l.reward_balance /\ m.current_supply = l.current_supply
      /\ m.unbacked = l.unbacked
  <2>1. m = [l EXCEPT !.vesting_shares = b]
    BY DEF HandVests, b
  <2> QED BY <1>2, <2>1 DEF Sound, LedgerRecords, PerAccount
<1>4. Sound(m)
  BY <1>3 DEF Sound
<1>5. Owned(m) = Owned(l) + 0
  BY <1>3, SoundTotals DEF Owned
<1>6. Gap(m) = Gap(l) + n
  BY <1>2, <1>3, SoundTotals, SoundTypes DEF Gap
<1>7. Keeps(l, m)
  BY <1>3, SoundTypes DEF Keeps
<1> QED BY <1>3, <1>4, <1>5, <1>6, <1>7 DEF Becomes, b, SameFund

\* The price of a share: positive, and that of the fund if it has any shares.
LEMMA SharePrice ==
  ASSUME NEW l, Sound(l)
  PROVE  LET p == get_vesting_share_price(l) IN
         /\ p.vests \in Nat \ {0} /\ p.blurt \in Nat \ {0}
         /\ l.total_vesting_shares # 0 =>
              p.vests = l.total_vesting_shares /\ p.blurt = l.total_vesting_fund_blurt
<1>1. l.total_vesting_fund_blurt \in Nat /\ l.total_vesting_shares \in Nat
  BY SoundTypes
<1> QED BY <1>1, LedgerAssumption DEF get_vesting_share_price, Sound

\* The price at which rewards become shares is positive, too.
LEMMA RewardPrice ==
  ASSUME NEW l, Sound(l)
  PROVE  LET p == get_reward_vesting_share_price(l) IN
         p.vests \in Nat \ {0} /\ p.blurt \in Nat \ {0}
<1>1. /\ l.total_vesting_fund_blurt \in Nat /\ l.total_vesting_shares \in Nat
      /\ l.pending_rewarded_vesting_shares \in Nat
      /\ l.pending_rewarded_vesting_blurt \in Nat
  BY SoundTypes
<1> QED BY <1>1, SharePrice DEF get_reward_vesting_share_price

\* What goes into the fund buys shares at no less than their worth.
LEMMA Bought ==
  ASSUME NEW F \in Nat, NEW S \in Nat, NEW n \in Nat, F # 0, NEW c, c = (n * S) \div F
  PROVE  (F + n) * S >= F * (S + c)
<1>1. n * S \in Nat /\ c \in Nat /\ F * c <= n * S
  BY Floor
<1>2. (F + n) * S = F * S + n * S /\ F * (S + c) = F * S + F * c
  BY <1>1
<1>3. F * S \in Nat /\ F * c \in Nat
  BY <1>1
<1> QED BY <1>1, <1>2, <1>3

\* What is taken out of the fund is paid at no more than its worth, so the fund
\* is not emptied before the last share leaves.
LEMMA Redeemed ==
  ASSUME NEW F \in Nat, NEW S \in Nat, NEW n \in Nat, n <= S, S # 0, F # 0,
         NEW c, c = (n * F) \div S
  PROVE  /\ c \in Nat /\ c <= F /\ (n < S => c < F)
         /\ (F - c) * S >= F * (S - n)
<1>1. n * F \in Nat /\ c \in Nat /\ S * c <= n * F
  BY Floor
<1>2. n * F <= S * F
  BY <1>1
<1>3. c <= F
  BY <1>1, <1>2
<1>4. ASSUME n < S PROVE c < F
  <2>1. n * F < S * F
    BY <1>4
  <2> QED BY <1>1, <2>1
<1>5. (F - c) * S = F * S - S * c /\ F * (S - n) = F * S - n * F
  BY <1>1
<1>6. F * S \in Nat /\ S * c \in Nat
  BY <1>1
<1> QED BY <1>1, <1>3, <1>4, <1>5, <1>6

\* The two ways of create_vesting2.
AtOnce(l, a, n) == create_vesting2(l, a, n, FALSE)
AsReward(l, a, n) == create_vesting2(l, a, n, TRUE)

\* create_vesting2, where the shares are a's at once.
LEMMA CreateVesting ==
  ASSUME NEW l, Sound(l), NEW a \in Accounts, NEW n \in Nat,
         NEW m, m = AtOnce(l, a, n)
  PROVE  /\ Becomes(l, m, n, 0) /\ Keeps(l, m)
         /\ m.pending_rewarded_vesting_shares = l.pending_rewarded_vesting_shares
<1> DEFINE p == get_vesting_share_price(l)
           c == ToVests(n, p)
           b == [l.vesting_shares EXCEPT ![a] = @ + c]
           S == l.total_vesting_shares
           F == l.total_vesting_fund_blurt
<1>1. p.vests \in Nat \ {0} /\ p.blurt \in Nat \ {0} /\ (S # 0 => p.vests = S /\ p.blurt = F)
  BY SharePrice
<1>2. S \in Nat /\ F \in Nat /\ l.vesting_shares \in [Accounts -> Nat]
  BY SoundTypes
<1>3. c \in Nat /\ c = (n * p.vests) \div p.blurt
  <2>1. n * p.vests \in Nat
    BY <1>1
  <2> HIDE DEF p
  <2> QED BY <1>1, <2>1, Floor DEF ToVests
<1>4. n = 0 => c = 0
  <2> HIDE DEF p
  <2>1. ASSUME n = 0 PROVE n * p.vests = 0
    BY <1>1, <2>1
  <2>2. ASSUME n = 0 PROVE 0 \div p.blurt = 0
    BY <1>1
  <2> QED BY <1>3, <2>1, <2>2
<1> HIDE DEF c, p
<1>5. b \in [Accounts -> Nat] /\ Total(b) = Total(l.vesting_shares) + c
  <2>1. l.vesting_shares[a] + c >= 0
    BY <1>2, <1>3
  <2> QED BY <1>2, <1>3, <2>1, TotalRaise
<1> HIDE DEF b
<1>6. /\ m \in LedgerRecords /\ m.vesting_shares = b
      /\ m.balance = l.balance /\ m.savings_balance = l.savings_balance
      /\ m.reward_blurt_balance = l.reward_blurt_balance
      /\ m.reward_vesting_blurt = l.reward_vesting_blurt
      /\ m.reward_vesting_balance = l.reward_vesting_balance
      /\ m.total_vesting_fund_blurt = F + n
      /\ m.total_vesting_shares = S + c
      /\ m.pending_rewarded_vesting_shares = l.pending_rewarded_vesting_shares
      /\ m.pending_rewarded_vesting_blurt = l.pending_rewarded_vesting_blurt
      /\ m.reward_balance = l.reward_balance /\ m.current_supply = l.current_supply
      /\ m.unbacked = l.unbacked
  <2>1. m = [l EXCEPT !.vesting_shares = b, !.total_vesting_fund_blurt = F + n,
                      !.total_vesting_shares = S + c]
    BY DEF AtOnce, create_vesting2, b, c, p
  <2>2. F + n \in Nat /\ S + c \in Nat
    BY <1>2, <1>3
  <2>3. l \in LedgerRecords /\ b \in PerAccount
    BY <1>5 DEF Sound, PerAccount
  <2> HIDE DEF F, S, b
  <2> QED BY ZenonT(60), <2>1, <2>2, <2>3 DEF LedgerRecords
<1>7. Sound(m)
  <2>1. S + c # 0 => F + n # 0
    BY <1>2, <1>3, <1>4 DEF Sound
  <2> QED BY <1>6, <2>1 DEF Sound
<1>8. Owned(m) = Owned(l) + n
  BY <1>6, SoundTotals, SoundTypes DEF Owned
<1>9. Gap(m) = Gap(l) + 0
  BY <1>2, <1>3, <1>5, <1>6, SoundTotals DEF Gap
<1>10. Keeps(l, m)
  <2> SUFFICES ASSUME S > 0 PROVE (F + n) * S >= F * (S + c)
    BY <1>6 DEF Keeps
  <2>1. F # 0 /\ c = (n * S) \div F
    BY <1>1, <1>2, <1>3 DEF Sound
  <2> HIDE DEF S, F
  <2> QED BY <1>2, <2>1, Bought
<1> QED BY <1>6, <1>7, <1>8, <1>9, <1>10 DEF Becomes

\* create_vesting2, where the shares are a reward to be claimed.
LEMMA CreateReward ==
  ASSUME NEW l, Sound(l), NEW a \in Accounts, NEW n \in Nat,
         NEW m, m = AsReward(l, a, n)
  PROVE  /\ Becomes(l, m, n, 0) /\ Keeps(l, m)
         /\ SamePool(l, m)
         /\ m.total_vesting_shares = l.total_vesting_shares
         /\ m.total_vesting_fund_blurt = l.total_vesting_fund_blurt
         /\ m.pending_rewarded_vesting_shares >= l.pending_rewarded_vesting_shares
<1> DEFINE p == get_reward_vesting_share_price(l)
           c == ToVests(n, p)
           x == [l.reward_blurt_balance EXCEPT ![a] = @ + n]
           y == [l.reward_vesting_blurt EXCEPT ![a] = @ + n]
           z == [l.reward_vesting_balance EXCEPT ![a] = @ + c]
           P == l.pending_rewarded_vesting_shares
           B == l.pending_rewarded_vesting_blurt
<1>1. p.vests \in Nat \ {0} /\ p.blurt \in Nat \ {0}
  BY RewardPrice
<1>2. /\ P \in Nat /\ B \in Nat /\ l.unbacked \in Nat
      /\ l.reward_blurt_balance \in [Accounts -> Nat]
      /\ l.reward_vesting_blurt \in [Accounts -> Nat]
      /\ l.reward_vesting_balance \in [Accounts -> Nat]
  BY SoundTypes
<1>3. c \in Nat
  <2>1. n * p.vests \in Nat
    BY <1>1
  <2> HIDE DEF p
  <2> QED BY <1>1, <2>1, Floor DEF ToVests
<1> HIDE DEF c, p
<1>4. /\ x \in [Accounts -> Nat] /\ Total(x) = Total(l.reward_blurt_balance) + n
      /\ y \in [Accounts -> Nat] /\ Total(y) = Total(l.reward_vesting_blurt) + n
      /\ z \in [Accounts -> Nat] /\ Total(z) = Total(l.reward_vesting_balance) + c
  <2>1. /\ l.reward_blurt_balance[a] + n >= 0 /\ l.reward_vesting_blurt[a] + n >= 0
        /\ l.reward_vesting_balance[a] + c >= 0
    BY <1>2, <1>3
  <2>2. x \in [Accounts -> Nat] /\ Total(x) = Total(l.reward_blurt_balance) + n
    BY <1>2, <2>1, TotalRaise
  <2>3. y \in [Accounts -> Nat] /\ Total(y) = Total(l.reward_vesting_blurt) + n
    BY <1>2, <2>1, TotalRaise
  <2>4. z \in [Accounts -> Nat] /\ Total(z) = Total(l.reward_vesting_balance) + c
    BY <1>2, <1>3, <2>1, TotalRaise
  <2> QED BY <2>2, <2>3, <2>4
<1>5. \A e \in Accounts : c # 0 /\ z[e] = 0 => y[e] = 0
  BY <1>2, <1>3 DEF Sound
<1>6. CASE c = 0
  <2> HIDE DEF x, y, z, P, B
  <2>1. m = [l EXCEPT !.reward_blurt_balance = x,
                      !.pending_rewarded_vesting_shares = P + 0,
                      !.pending_rewarded_vesting_blurt = B + n, !.unbacked = @ + n]
    BY <1>6 DEF AsReward, create_vesting2, modify_reward_balance, x, c, p, P, B
  <2>2. /\ m \in LedgerRecords /\ m.vesting_shares = l.vesting_shares
        /\ m.balance = l.balance /\ m.savings_balance = l.savings_balance
        /\ m.reward_blurt_balance = x
        /\ m.reward_vesting_blurt = l.reward_vesting_blurt
        /\ m.reward_vesting_balance = l.reward_vesting_balance
        /\ m.total_vesting_fund_blurt = l.total_vesting_fund_blurt
        /\ m.total_vesting_shares = l.total_vesting_shares
        /\ m.pending_rewarded_vesting_shares = P
        /\ m.pending_rewarded_vesting_blurt = B + n
        /\ m.reward_balance = l.reward_balance /\ m.current_supply = l.current_supply
        /\ m.unbacked = l.unbacked + n
    <3>1. P + 0 = P /\ P \in Nat /\ B + n \in Nat /\ l.unbacked + n \in Nat
      BY <1>2
    <3>2. l \in LedgerRecords /\ x \in PerAccount
      BY <1>4 DEF Sound, PerAccount
    <3> QED BY ZenonT(90), <2>1, <3>1, <3>2 DEF LedgerRecords
  <2>3. Sound(m)
    <3>1. B + n = Total(l.reward_vesting_blurt) + (l.unbacked + n)
      BY <1>2, SoundTotals DEF Sound, B
    <3> QED BY <2>2, <3>1 DEF Sound, P
  <2>4. Owned(m) = Owned(l) + n
    BY <1>2, <1>4, <2>2, SoundTotals, SoundTypes DEF Owned, B
  <2>5. Gap(m) = Gap(l) + 0
    BY <2>2, SoundTotals DEF Gap
  <2>6. Keeps(l, m)
    BY <2>2, SoundTypes DEF Keeps
  <2> QED BY <1>2, <2>2, <2>3, <2>4, <2>5, <2>6 DEF Becomes, P, SamePool
<1>7. CASE c # 0
  <2> HIDE DEF x, y, z, P, B
  <2>1. m = [l EXCEPT !.reward_vesting_blurt = y, !.reward_vesting_balance = z,
                      !.pending_rewarded_vesting_shares = P + c,
                      !.pending_rewarded_vesting_blurt = B + n]
    BY <1>7 DEF AsReward, create_vesting2, modify_reward_balance, y, z, c, p, P, B
  <2>2. /\ m \in LedgerRecords /\ m.vesting_shares = l.vesting_shares
        /\ m.balance = l.balance /\ m.savings_balance = l.savings_balance
        /\ m.reward_blurt_balance = l.reward_blurt_balance
        /\ m.reward_vesting_blurt = y
        /\ m.reward_vesting_balance = z
        /\ m.total_vesting_fund_blurt = l.total_vesting_fund_blurt
        /\ m.total_vesting_shares = l.total_vesting_shares
        /\ m.pending_rewarded_vesting_shares = P + c
        /\ m.pending_rewarded_vesting_blurt = B + n
        /\ m.reward_balance = l.reward_balance /\ m.current_supply = l.current_supply
        /\ m.unbacked = l.unbacked
    <3>1. P + c \in Nat /\ B + n \in Nat
      BY <1>2, <1>3
    <3>2. /\ l \in LedgerRecords /\ y \in PerAccount /\ z \in PerAccount
      BY <1>4 DEF Sound, PerAccount
    <3> QED BY ZenonT(90), <2>1, <3>1, <3>2 DEF LedgerRecords
  <2>3. Sound(m)
    <3>1. B + n = Total(y) + l.unbacked /\ P + c = Total(z)
      BY <1>2, <1>3, <1>4, SoundTotals DEF Sound, B, P
    <3> QED BY <1>5, <1>7, <2>2, <3>1 DEF Sound
  <2>4. Owned(m) = Owned(l) + n
    BY <1>2, <1>4, <2>2, SoundTotals, SoundTypes DEF Owned, B
  <2>5. Gap(m) = Gap(l) + 0
    BY <2>2, SoundTotals DEF Gap
  <2>6. Keeps(l, m)
    BY <2>2, SoundTypes DEF Keeps
  <2> QED BY <1>2, <1>3, <2>2, <2>3, <2>4, <2>5, <2>6 DEF Becomes, P, SamePool
<1> QED BY <1>6, <1>7

\* What n of the shares are worth, rounded down: no more than the fund holds,
\* and less while other shares are left.
LEMMA ShareValue ==
  ASSUME NEW l, Sound(l), NEW n \in Nat, n <= l.total_vesting_shares
  PROVE  LET c == ToBlurt(n, get_vesting_share_price(l))
             S == l.total_vesting_shares
             F == l.total_vesting_fund_blurt
         IN  /\ c \in Nat /\ c <= F /\ (n < S => c < F)
             /\ S > 0 => (F - c) * S >= F * (S - n)
<1> DEFINE p == get_vesting_share_price(l)
           c == ToBlurt(n, p)
           S == l.total_vesting_shares
           F == l.total_vesting_fund_blurt
<1>1. S \in Nat /\ F \in Nat /\ (S # 0 => F # 0)
  BY SoundTypes DEF Sound
<1>2. /\ c \in Nat /\ c <= F /\ (n < S => c < F)
      /\ S > 0 => (F - c) * S >= F * (S - n)
  <2>1. p.vests \in Nat \ {0} /\ p.blurt \in Nat \ {0} /\ (S # 0 => p.vests = S /\ p.blurt = F)
    BY SharePrice
  <2>2. CASE S = 0
    <3>1. n = 0
      BY <2>2
    <3> HIDE DEF p
    <3>2. n * p.blurt = 0 /\ 0 \div p.vests = 0
      BY <2>1, <3>1
    <3>3. c = 0
      BY <3>2 DEF ToBlurt
    <3> QED BY <1>1, <2>2, <3>1, <3>3
  <2>3. CASE S # 0
    <3>1. c = (n * F) \div S
      BY <2>1, <2>3 DEF ToBlurt
    <3> HIDE DEF c, S, F
    <3>2. n <= S
      BY DEF S
    <3> QED BY <1>1, <2>3, <3>1, <3>2, Redeemed
  <2> QED BY <2>2, <2>3
<1> QED BY <1>2

\* n shares leave the fund for BLURT, if there are so many.
LEMMA Redeem ==
  ASSUME NEW l, Sound(l), NEW a \in Accounts, NEW n \in Nat, n <= l.total_vesting_shares,
         NEW m, m = RedeemVests(l, a, n)
  PROVE  /\ Becomes(l, m, 0, n) /\ Keeps(l, m)
         /\ m.vesting_shares = l.vesting_shares
         /\ m.total_vesting_shares = l.total_vesting_shares - n
         /\ m.pending_rewarded_vesting_shares = l.pending_rewarded_vesting_shares
<1> DEFINE p == get_vesting_share_price(l)
           c == ToBlurt(n, p)
           S == l.total_vesting_shares
           F == l.total_vesting_fund_blurt
           b == [l.balance EXCEPT ![a] = @ + c]
<1>1. S \in Nat /\ F \in Nat /\ l.balance \in [Accounts -> Nat] /\ (S # 0 => F # 0)
  BY SoundTypes DEF Sound
<1>2. /\ c \in Nat /\ c <= F /\ (n < S => c < F)
      /\ S > 0 => (F - c) * S >= F * (S - n)
  BY ShareValue
<1> HIDE DEF c, p
<1>3. b \in [Accounts -> Nat] /\ Total(b) = Total(l.balance) + c
  <2>1. l.balance[a] + c >= 0
    BY <1>1, <1>2
  <2> QED BY <1>1, <1>2, <2>1, TotalRaise
<1> HIDE DEF b
<1>4. /\ m \in LedgerRecords /\ m.balance = b
      /\ m.vesting_shares = l.vesting_shares /\ m.savings_balance = l.savings_balance
      /\ m.reward_blurt_balance = l.reward_blurt_balance
      /\ m.reward_vesting_blurt = l.reward_vesting_blurt
      /\ m.reward_vesting_balance = l.reward_vesting_balance
      /\ m.total_vesting_fund_blurt = F - c
      /\ m.total_vesting_shares = S - n
      /\ m.pending_rewarded_vesting_shares = l.pending_rewarded_vesting_shares
      /\ m.pending_rewarded_vesting_blurt = l.pending_rewarded_vesting_blurt
      /\ m.reward_balance = l.reward_balance /\ m.current_supply = l.current_supply
      /\ m.unbacked = l.unbacked
  <2>1. m = [l EXCEPT !.balance = b, !.total_vesting_fund_blurt = F - c,
                      !.total_vesting_shares = S - n]
    BY DEF RedeemVests, adjust_balance, b, c, p, Sound, LedgerRecords
  <2>2. F - c \in Nat /\ S - n \in Nat
    BY <1>1, <1>2
  <2> QED BY ZenonT(60), <1>3, <2>1, <2>2 DEF Sound, LedgerRecords, PerAccount
<1>5. Sound(m)
  <2>1. S - n # 0 => F - c # 0
    BY SMTT(30), <1>1, <1>2
  <2> QED BY <1>4, <2>1 DEF Sound
<1>6. Owned(m) = Owned(l) + 0
  BY <1>1, <1>2, <1>3, <1>4, SoundTotals, SoundTypes DEF Owned
<1>7. Gap(m) = Gap(l) + n
  BY <1>1, <1>4, SoundTotals DEF Gap
<1>8. Keeps(l, m)
  BY <1>2, <1>4 DEF Keeps
<1> QED BY <1>4, <1>5, <1>6, <1>7, <1>8 DEF Becomes

----------------------------------------------------------------------------
(***************************************************************************)
(* Several changes in turn.                                                *)
(***************************************************************************)

\* What two changes do together.
LEMMA BecomesTrans ==
  ASSUME NEW l, Sound(l), NEW m, NEW k, NEW n \in Int, NEW v \in Int,
         NEW n2 \in Int, NEW v2 \in Int, Becomes(l, m, n, v), Becomes(m, k, n2, v2)
  PROVE  Becomes(l, k, n + n2, v + v2)
<1>1. Owned(l) \in Int /\ Gap(l) \in Int
  BY SoundTotals
<1> QED BY <1>1 DEF Becomes

\* The worth of a share is kept by two changes if it is by each.
LEMMA KeepsTrans ==
  ASSUME NEW l, Sound(l), NEW m, Sound(m), NEW k, Sound(k), Keeps(l, m), Keeps(m, k),
         l.total_vesting_shares > 0 /\ k.total_vesting_shares > 0
           => m.total_vesting_shares > 0
  PROVE  Keeps(l, k)
<1>1. ASSUME NEW F \in Nat, NEW S \in Nat, NEW G \in Nat, NEW T \in Nat, NEW H \in Nat,
             NEW U \in Nat, T > 0, G * S >= F * T, H * T >= G * U
      PROVE  H * S >= F * U
  <2>1. (H * T) * S >= (G * U) * S
    BY <1>1
  <2>2. (G * S) * U >= (F * T) * U
    BY <1>1
  <2>3. (G * U) * S = (G * S) * U /\ (H * T) * S = T * (H * S) /\ (F * T) * U = T * (F * U)
    OBVIOUS
  <2>4. /\ (G * U) * S \in Nat /\ (H * T) * S \in Nat /\ (F * T) * U \in Nat
        /\ H * S \in Nat /\ F * U \in Nat
    OBVIOUS
  <2>5. T * (H * S) >= T * (F * U)
    BY <2>1, <2>2, <2>3, <2>4
  <2>6. ASSUME NEW x \in Nat, NEW y \in Nat, T * x >= T * y PROVE x >= y
    BY <1>1, <2>6
  <2> QED BY <2>4, <2>5, <2>6
<1>2. /\ l.total_vesting_fund_blurt \in Nat /\ l.total_vesting_shares \in Nat
      /\ m.total_vesting_fund_blurt \in Nat /\ m.total_vesting_shares \in Nat
      /\ k.total_vesting_fund_blurt \in Nat /\ k.total_vesting_shares \in Nat
  BY SoundTypes
<1> SUFFICES ASSUME l.total_vesting_shares > 0, k.total_vesting_shares > 0
    PROVE k.total_vesting_fund_blurt * l.total_vesting_shares
            >= l.total_vesting_fund_blurt * k.total_vesting_shares
  BY DEF Keeps
<1>3. /\ m.total_vesting_fund_blurt * l.total_vesting_shares
           >= l.total_vesting_fund_blurt * m.total_vesting_shares
      /\ k.total_vesting_fund_blurt * m.total_vesting_shares
           >= m.total_vesting_fund_blurt * k.total_vesting_shares
      /\ m.total_vesting_shares > 0
  BY DEF Keeps
<1> QED BY <1>1, <1>2, <1>3

\* BLURT moves from one balance to another.
LEMMA Moved ==
  ASSUME NEW l, Sound(l), NEW from \in Accounts, NEW to \in Accounts, NEW n \in Nat,
         l.balance[from] >= n, NEW m, m = Move(l, from, to, n)
  PROVE  /\ Becomes(l, m, 0, 0)
         /\ SameFund(l, m)
         /\ \A x \in Accounts \ {from, to} : m.balance[x] = l.balance[x]
<1> DEFINE j == adjust_balance(l, from, -n)
<1>1. l.balance \in [Accounts -> Nat]
  BY SoundTypes
<1>2. l.balance[from] + (-n) >= 0 /\ -n \in Int
  BY <1>1
<1> HIDE DEF j
<1>3. /\ Becomes(l, j, -n, 0) /\ j.balance = [l.balance EXCEPT ![from] = @ + (-n)]
      /\ SameFund(l, j)
  BY <1>2, AdjustBalance DEF j
<1>4. Sound(j) /\ m = adjust_balance(j, to, n)
  BY <1>3 DEF Becomes, Move, j
<1>5. j.balance \in [Accounts -> Nat] /\ j.balance[to] + n >= 0
  BY <1>4, SoundTypes
<1>6. /\ Becomes(j, m, n, 0) /\ m.balance = [j.balance EXCEPT ![to] = @ + n]
      /\ SameFund(j, m)
  BY <1>4, <1>5, AdjustBalance
<1>7. Becomes(l, m, (-n) + n, 0 + 0)
  BY <1>2, <1>3, <1>6, BecomesTrans
<1>8. (-n) + n = 0 /\ 0 + 0 = 0
  OBVIOUS
<1>9. \A x \in Accounts \ {from, to} : m.balance[x] = l.balance[x]
  BY <1>1, <1>3, <1>5, <1>6
<1> QED BY <1>3, <1>6, <1>7, <1>8, <1>9 DEF SameFund

\* A sum of zeros.
LEMMA SumZero ==
  ASSUME NEW S, IsFiniteSet(S), NEW d, \A x \in S : d[x] = 0
  PROVE  Sum(d, S) = 0
<1> DEFINE Q == {s \in SUBSET S : Sum(d, s) = 0}
<1>1. ASSUME NEW s \in SUBSET S, \A x \in s : s \ {x} \in Q PROVE s \in Q
  <2>1. IsFiniteSet(s)
    BY FS_Subset
  <2>2. CASE s = {}
    BY <2>1, <2>2, SumStep
  <2>3. CASE s # {}
    <3>1. Sum(d, s) = d[Chosen(s)] + Sum(d, s \ {Chosen(s)})
      BY <2>1, <2>3, SumStep
    <3>2. d[Chosen(s)] = 0 /\ Sum(d, s \ {Chosen(s)}) = 0
      BY <1>1, <2>3, ChosenIn
    <3> QED BY <3>1, <3>2
  <2> QED BY <2>2, <2>3
<1>2. SUBSET S \subseteq Q
  <2> HIDE DEF Q
  <2> QED BY <1>1, SubsetInduction
<1> QED BY <1>2

\* The fees of a transaction.
LEMMA FeesPaid ==
  ASSUME NEW l, Sound(l), NEW R \in SUBSET Users, \A a \in R : l.balance[a] >= Fee,
         NEW m, m = Fold("fee", <<>>, l, R)
  PROVE  /\ Becomes(l, m, 0, 0)
         /\ SameFund(l, m)
<1> DEFINE G(s) == Fold("fee", <<>>, l, s)
           Good(s, g) == /\ Becomes(l, g, 0, 0)
                         /\ SameFund(l, g)
                         /\ \A a \in R \ s : g.balance[a] = l.balance[a]
           Q == {s \in SUBSET R : Good(s, G(s))}
<1>1. IsFiniteSet(R) /\ R \subseteq Accounts /\ Null \in Accounts /\ Null \notin R /\ Fee \in Nat
  BY FS_Subset, LedgerAssumption DEF Accounts
<1>2. ASSUME NEW s \in SUBSET R, \A x \in s : s \ {x} \in Q PROVE s \in Q
  <2>1. IsFiniteSet(s)
    BY <1>1, FS_Subset
  <2>2. CASE s = {}
    <3>1. G(s) = l
      BY <2>1, <2>2, FoldStep
    <3>2. Becomes(l, l, 0, 0)
      BY SoundTotals DEF Becomes
    <3> QED BY <3>1, <3>2 DEF SameFund
  <2>3. CASE s # {}
    <3> DEFINE x == Chosen(s)
               h == G(s \ {x})
    <3>1. x \in s /\ s \ {x} \in Q
      BY <1>2, <2>3, ChosenIn
    <3>2. G(s) = Move(h, x, Null, Fee)
      <4>1. G(s) = Step("fee", <<>>, x, h)
        BY <2>1, <2>3, FoldStep
      <4> QED BY <4>1 DEF Step
    <3>3. Good(s \ {x}, h)
      BY <3>1
    <3> HIDE DEF x, h, G
    <3>4. Sound(h) /\ h.balance[x] >= Fee /\ x \in Accounts
      BY <1>1, <3>1, <3>3 DEF Becomes
    <3>5. /\ Becomes(h, G(s), 0, 0)
          /\ SameFund(h, G(s))
          /\ \A y \in Accounts \ {x, Null} : G(s).balance[y] = h.balance[y]
      BY <1>1, <3>2, <3>4, Moved
    <3>6. Becomes(l, G(s), 0 + 0, 0 + 0)
      BY <3>3, <3>5, BecomesTrans
    <3>7. \A a \in R \ s : G(s).balance[a] = l.balance[a]
      BY <1>1, <3>1, <3>3, <3>5
    <3>8. Good(s, G(s))
      BY <3>3, <3>5, <3>6, <3>7 DEF SameFund
    <3> QED BY <3>8
  <2> QED BY <2>2, <2>3
<1>3. SUBSET R \subseteq Q
  <2> HIDE DEF Q
  <2> QED BY <1>1, <1>2, SubsetInduction
<1> QED BY <1>3

\* Rewards to several accounts: all to be claimed, or one of them as balance.
Pays(k, l, x, n, m) ==
  \/ k = "curator" /\ m = AsReward(l, x, n)
  \/ k = "beneficiary" /\ m = PayBeneficiary(l, x, n)

\* One of the rewards.
LEMMA Paid ==
  ASSUME NEW l, Sound(l), NEW x \in Accounts, NEW n \in Nat, NEW k, NEW m, Pays(k, l, x, n, m)
  PROVE  /\ Becomes(l, m, n, 0)
         /\ SamePool(l, m)
         /\ m.total_vesting_shares = l.total_vesting_shares
         /\ m.total_vesting_fund_blurt = l.total_vesting_fund_blurt
         /\ m.pending_rewarded_vesting_shares >= l.pending_rewarded_vesting_shares
<1>1. CASE m = AsReward(l, x, n)
  BY <1>1, CreateReward
<1>2. CASE k = "beneficiary" /\ m = PayBeneficiary(l, x, n)
  <2>1. CASE x = Treasury
    <3>1. m = adjust_balance(l, x, n)
      BY <1>2, <2>1 DEF PayBeneficiary
    <3>2. /\ l.balance \in [Accounts -> Nat] /\ l.balance[x] + n >= 0
          /\ l.pending_rewarded_vesting_shares \in Nat
      BY SoundTypes
    <3>3. /\ Becomes(l, m, n, 0) /\ SamePool(l, m)
          /\ SameFund(l, m)
      <4>1. n \in Int
        OBVIOUS
      <4>2. ASSUME NEW j, j = adjust_balance(l, x, n)
            PROVE  /\ Becomes(l, j, n, 0) /\ SamePool(l, j)
                   /\ SameFund(l, j)
        BY <3>2, <4>1, <4>2, AdjustBalance
      <4> QED BY <3>1, <4>2
    <3> QED BY <3>2, <3>3 DEF SameFund
  <2>2. CASE x # Treasury
    <3>1. m = AsReward(l, x, n)
      BY <1>2, <2>2 DEF PayBeneficiary, AsReward
    <3> QED BY <3>1, CreateReward
  <2> QED BY <2>1, <2>2
<1> QED BY <1>1, <1>2 DEF Pays

\* All of the rewards.
LEMMA AllPaid ==
  ASSUME NEW l, Sound(l), NEW R \in SUBSET Accounts, NEW d, \A x \in R : d[x] \in Nat,
         NEW k \in {"curator", "beneficiary"}, NEW m, m = Fold(k, d, l, R)
  PROVE  /\ Becomes(l, m, Sum(d, R), 0)
         /\ SamePool(l, m)
         /\ m.total_vesting_shares = l.total_vesting_shares
         /\ m.total_vesting_fund_blurt = l.total_vesting_fund_blurt
         /\ m.pending_rewarded_vesting_shares >= l.pending_rewarded_vesting_shares
<1> DEFINE G(s) == Fold(k, d, l, s)
           Good(s, g) == /\ Becomes(l, g, Sum(d, s), 0)
                         /\ SamePool(l, g)
                         /\ g.total_vesting_shares = l.total_vesting_shares
                         /\ g.total_vesting_fund_blurt = l.total_vesting_fund_blurt
                         /\ g.pending_rewarded_vesting_shares
                              >= l.pending_rewarded_vesting_shares
           Q == {s \in SUBSET R : Good(s, G(s))}
<1>1. IsFiniteSet(R)
  BY FS_Subset, AccountsFinite
<1>2. ASSUME NEW s \in SUBSET R, \A x \in s : s \ {x} \in Q PROVE s \in Q
  <2>1. IsFiniteSet(s)
    BY <1>1, FS_Subset
  <2>2. CASE s = {}
    <3>1. G(s) = l /\ Sum(d, s) = 0
      BY <2>1, <2>2, FoldStep, SumStep
    <3>2. Becomes(l, l, 0, 0) /\ l.pending_rewarded_vesting_shares \in Nat
      BY SoundTotals, SoundTypes DEF Becomes
    <3> QED BY <3>1, <3>2 DEF SamePool
  <2>3. CASE s # {}
    <3> DEFINE x == Chosen(s)
               h == G(s \ {x})
               t == Sum(d, s \ {x})
    <3>1. x \in s /\ s \ {x} \in Q
      BY <1>2, <2>3, ChosenIn
    <3>2. Pays(k, h, x, d[x], G(s))
      <4>1. G(s) = Step(k, d, x, h)
        BY <2>1, <2>3, FoldStep
      <4>2. "curator" # "beneficiary" /\ "curator" # "fee" /\ "beneficiary" # "fee"
              /\ "curator" # "sum" /\ "beneficiary" # "sum"
        OBVIOUS
      <4>3. CASE k = "curator"
        BY <4>1, <4>2, <4>3 DEF Step, Pays, AsReward
      <4>4. CASE k = "beneficiary"
        BY <4>1, <4>2, <4>4 DEF Step, Pays
      <4> QED BY <4>3, <4>4
    <3>3. Good(s \ {x}, h)
      BY <3>1
    <3>4. Sum(d, s) = d[x] + t
      BY <2>1, <2>3, SumStep
    <3>5. t \in Nat /\ d[x] \in Nat /\ x \in Accounts
      <4>1. IsFiniteSet(s \ {x}) /\ \A y \in s \ {x} : d[y] \in Nat
        BY <2>1, FS_Subset
      <4>2. t \in Nat
        <5> HIDE DEF x
        <5> QED BY <4>1, SumNat
      <4> QED BY <3>1, <4>2
    <3> HIDE DEF x, h, G, t
    <3>6. Sound(h) /\ Becomes(l, h, t, 0)
      BY <3>3 DEF Becomes, t
    <3>7. /\ Becomes(h, G(s), d[x], 0)
          /\ SamePool(h, G(s))
          /\ G(s).total_vesting_shares = h.total_vesting_shares
          /\ G(s).total_vesting_fund_blurt = h.total_vesting_fund_blurt
          /\ G(s).pending_rewarded_vesting_shares >= h.pending_rewarded_vesting_shares
      BY <3>2, <3>5, <3>6, Paid
    <3>8. Becomes(l, G(s), t + d[x], 0 + 0)
      BY <3>5, <3>6, <3>7, BecomesTrans
    <3>9. t + d[x] = d[x] + t /\ 0 + 0 = 0
      BY <3>5
    <3>10. Sound(G(s)) /\ l.pending_rewarded_vesting_shares \in Nat
           /\ h.pending_rewarded_vesting_shares \in Nat
      BY <3>6, <3>7, SoundTypes DEF Becomes
    <3>11. G(s).pending_rewarded_vesting_shares \in Nat
      BY <3>10, SoundTypes
    <3>12. Good(s, G(s))
      BY <3>3, <3>4, <3>7, <3>8, <3>9, <3>10, <3>11 DEF SamePool
    <3> QED BY <3>12
  <2> QED BY <2>2, <2>3
<1>3. SUBSET R \subseteq Q
  <2> HIDE DEF Q
  <2> QED BY <1>1, <1>2, SubsetInduction
<1> QED BY <1>3

\* The routes of a withdrawal that hand on shares.
LEMMA AllHanded ==
  ASSUME NEW l, Sound(l), NEW R \in SUBSET Accounts, NEW d, \A x \in R : d[x] \in Nat,
         NEW m, m = Fold("vest", d, l, R)
  PROVE  /\ Becomes(l, m, 0, Sum(d, R))
         /\ SameFund(l, m)
         /\ \A a \in Accounts : m.vesting_shares[a] >= l.vesting_shares[a]
<1> DEFINE G(s) == Fold("vest", d, l, s)
           Good(s, g) == /\ Becomes(l, g, 0, Sum(d, s))
                         /\ SameFund(l, g)
                         /\ \A a \in Accounts : g.vesting_shares[a] >= l.vesting_shares[a]
           Q == {s \in SUBSET R : Good(s, G(s))}
<1>1. IsFiniteSet(R) /\ l.vesting_shares \in [Accounts -> Nat]
  BY FS_Subset, AccountsFinite, SoundTypes
<1>2. ASSUME NEW s \in SUBSET R, \A x \in s : s \ {x} \in Q PROVE s \in Q
  <2>1. IsFiniteSet(s)
    BY <1>1, FS_Subset
  <2>2. CASE s = {}
    <3>1. G(s) = l /\ Sum(d, s) = 0
      BY <2>1, <2>2, FoldStep, SumStep
    <3>2. Becomes(l, l, 0, 0)
      BY SoundTotals DEF Becomes
    <3> QED BY <1>1, <3>1, <3>2 DEF SameFund
  <2>3. CASE s # {}
    <3> DEFINE x == Chosen(s)
               h == G(s \ {x})
               t == Sum(d, s \ {x})
    <3>1. x \in s /\ s \ {x} \in Q
      BY <1>2, <2>3, ChosenIn
    <3>2. G(s) = HandVests(h, x, d[x])
      <4>1. G(s) = Step("vest", d, x, h)
        BY <2>1, <2>3, FoldStep
      <4> QED BY <4>1 DEF Step
    <3>3. Good(s \ {x}, h)
      BY <3>1
    <3>4. Sum(d, s) = d[x] + t
      BY <2>1, <2>3, SumStep
    <3>5. t \in Nat /\ d[x] \in Nat /\ x \in Accounts
      <4>1. IsFiniteSet(s \ {x}) /\ \A y \in s \ {x} : d[y] \in Nat
        BY <2>1, FS_Subset
      <4>2. t \in Nat
        <5> HIDE DEF x
        <5> QED BY <4>1, SumNat
      <4> QED BY <3>1, <4>2
    <3> HIDE DEF x, h, G, t
    <3>6. Sound(h) /\ Becomes(l, h, 0, t)
      BY <3>3 DEF Becomes, t
    <3>7. /\ h.vesting_shares \in [Accounts -> Nat] /\ h.vesting_shares[x] + d[x] >= 0
          /\ d[x] \in Int
      BY <3>5, <3>6, SoundTypes
    <3>8. /\ Becomes(h, G(s), 0, d[x])
          /\ G(s).vesting_shares = [h.vesting_shares EXCEPT ![x] = @ + d[x]]
          /\ SameFund(h, G(s))
      BY <3>2, <3>5, <3>6, <3>7, HandShares
    <3>9. Becomes(l, G(s), 0 + 0, t + d[x])
      BY <3>5, <3>6, <3>8, BecomesTrans
    <3>10. t + d[x] = d[x] + t /\ 0 + 0 = 0
      BY <3>5
    <3>11. \A a \in Accounts : G(s).vesting_shares[a] >= l.vesting_shares[a]
      BY <1>1, <3>3, <3>5, <3>7, <3>8
    <3>12. Good(s, G(s))
      BY <3>3, <3>4, <3>8, <3>9, <3>10, <3>11 DEF SameFund
    <3> QED BY <3>12
  <2> QED BY <2>2, <2>3
<1>3. SUBSET R \subseteq Q
  <2> HIDE DEF Q
  <2> QED BY <1>1, <1>2, SubsetInduction
<1> QED BY <1>3

\* The routes of a withdrawal that pay BLURT.
LEMMA AllRedeemed ==
  ASSUME NEW l, Sound(l), NEW R \in SUBSET Accounts, NEW d, \A x \in R : d[x] \in Nat,
         Sum(d, R) <= l.total_vesting_shares, NEW m, m = Fold("redeem", d, l, R)
  PROVE  /\ Becomes(l, m, 0, Sum(d, R)) /\ Keeps(l, m)
         /\ m.vesting_shares = l.vesting_shares
         /\ m.total_vesting_shares = l.total_vesting_shares - Sum(d, R)
         /\ m.pending_rewarded_vesting_shares = l.pending_rewarded_vesting_shares
<1> DEFINE G(s) == Fold("redeem", d, l, s)
           Good(s, g) == /\ Becomes(l, g, 0, Sum(d, s)) /\ Keeps(l, g)
                         /\ g.vesting_shares = l.vesting_shares
                         /\ g.total_vesting_shares = l.total_vesting_shares - Sum(d, s)
                         /\ g.pending_rewarded_vesting_shares = l.pending_rewarded_vesting_shares
           Q == {s \in SUBSET R : Good(s, G(s))}
<1>1. IsFiniteSet(R) /\ l.total_vesting_shares \in Nat
  BY FS_Subset, AccountsFinite, SoundTypes
<1>2. ASSUME NEW s \in SUBSET R PROVE Sum(d, s) \in Nat /\ Sum(d, s) <= Sum(d, R)
  <2>1. IsFiniteSet(s) /\ IsFiniteSet(R \ s)
    BY <1>1, FS_Subset
  <2>2. Sum(d, s) \in Nat /\ Sum(d, R \ s) \in Nat
    BY <2>1, SumNat
  <2>3. Sum(d, R) = Sum(d, s) + Sum(d, R \ s)
    BY <1>1, SumUnion
  <2> QED BY <2>2, <2>3
<1>3. ASSUME NEW s \in SUBSET R, \A x \in s : s \ {x} \in Q PROVE s \in Q
  <2>1. IsFiniteSet(s)
    BY <1>1, FS_Subset
  <2>2. CASE s = {}
    <3>1. G(s) = l /\ Sum(d, s) = 0
      BY <2>1, <2>2, FoldStep, SumStep
    <3>2. Becomes(l, l, 0, 0) /\ Keeps(l, l) /\ l.total_vesting_shares - 0 = l.total_vesting_shares
      BY SoundTotals, SoundTypes DEF Becomes, Keeps
    <3> QED BY <3>1, <3>2
  <2>3. CASE s # {}
    <3> DEFINE x == Chosen(s)
               h == G(s \ {x})
               t == Sum(d, s \ {x})
    <3>1. x \in s /\ s \ {x} \in Q
      BY <1>3, <2>3, ChosenIn
    <3>2. G(s) = RedeemVests(h, x, d[x])
      <4>1. G(s) = Step("redeem", d, x, h)
        BY <2>1, <2>3, FoldStep
      <4> QED BY <4>1 DEF Step
    <3>3. Good(s \ {x}, h)
      BY <3>1
    <3>4. Sum(d, s) = d[x] + t
      BY <2>1, <2>3, SumStep
    <3>5. t \in Nat /\ d[x] \in Nat /\ x \in Accounts
      <4>1. s \ {x} \in SUBSET R
        OBVIOUS
      <4> QED BY <1>2, <3>1, <4>1
    <3>6. Sum(d, s) <= Sum(d, R) /\ Sum(d, R) \in Nat
      BY <1>2
    <3> HIDE DEF x, h, G, t
    <3>7. Sound(h) /\ Becomes(l, h, 0, t) /\ h.total_vesting_shares = l.total_vesting_shares - t
      BY <3>3 DEF Becomes, t
    <3>8. d[x] <= h.total_vesting_shares
      BY <1>1, <3>4, <3>5, <3>6, <3>7
    <3>9. /\ Becomes(h, G(s), 0, d[x]) /\ Keeps(h, G(s))
          /\ G(s).vesting_shares = h.vesting_shares
          /\ G(s).total_vesting_shares = h.total_vesting_shares - d[x]
          /\ G(s).pending_rewarded_vesting_shares = h.pending_rewarded_vesting_shares
      BY <3>2, <3>5, <3>7, <3>8, Redeem
    <3>10. Becomes(l, G(s), 0 + 0, t + d[x])
      BY <3>5, <3>7, <3>9, BecomesTrans
    <3>11. t + d[x] = d[x] + t /\ 0 + 0 = 0
      BY <3>5
    <3>12. G(s).total_vesting_shares = l.total_vesting_shares - Sum(d, s)
      BY <1>1, <3>4, <3>5, <3>7, <3>9
    <3>13. Keeps(l, G(s))
      <4>1. Sound(G(s))
        BY <3>10 DEF Becomes
      <4>2. G(s).total_vesting_shares > 0 => h.total_vesting_shares > 0
        BY <1>1, <3>5, <3>7, <3>9
      <4> QED BY <3>3, <3>7, <3>9, <4>1, <4>2, KeepsTrans
    <3>14. Good(s, G(s))
      BY <3>3, <3>4, <3>9, <3>10, <3>11, <3>12, <3>13
    <3> QED BY <3>14
  <2> QED BY <2>2, <2>3
<1>4. SUBSET R \subseteq Q
  <2> HIDE DEF Q
  <2> QED BY <1>1, <1>3, SubsetInduction
<1> QED BY <1>4

----------------------------------------------------------------------------
(***************************************************************************)
(* The folds of Ledger, in the form the lemmas are about.                  *)
(***************************************************************************)

\* process_tx_fee's.
LEMMA FeeFold ==
  ASSUME NEW R, IsFiniteSet(R), NEW base
  PROVE  FoldSet(LAMBDA a, l : Move(l, a, Null, Fee), base, R) = Fold("fee", <<>>, base, R)
<1> DEFINE Rec(f) == f = [s \in SUBSET R |-> IF s = {} THEN base
                            ELSE Move(f[s \ {Chosen(s)}], Chosen(s), Null, Fee)]
<1>1. \A f : Iter(f, R, base, "fee", <<>>) <=> Rec(f)
  BY DEF Iter, Step
<1>2. PICK f : Rec(f)
  BY <1>1, IterExists
<1>3. \E g : Rec(g) /\ FoldSet(LAMBDA a, l : Move(l, a, Null, Fee), base, R) = g[R]
  BY <1>2 DEF FoldSet, MapThenFoldSet, Chosen
<1> HIDE DEF Rec
<1> QED BY <1>1, <1>3, FoldIs

\* pay_curators'.
LEMMA CuratorFold ==
  ASSUME NEW R, IsFiniteSet(R), NEW base, NEW c, NEW t, NEW d, \A v \in R : d[v] = Claim(c, t, v)
  PROVE  FoldSet(LAMBDA v, m : create_vesting2(m, v, Claim(c, t, v), TRUE), base, R)
           = Fold("curator", d, base, R)
<1> DEFINE Rec(f) == f = [s \in SUBSET R |-> IF s = {} THEN base
                            ELSE AsReward(f[s \ {Chosen(s)}], Chosen(s), Claim(c, t, Chosen(s)))]
<1>1. ASSUME NEW f PROVE Iter(f, R, base, "curator", d) <=> Rec(f)
  <2>1. ASSUME NEW x, NEW acc, x \in R
        PROVE  Step("curator", d, x, acc) = AsReward(acc, x, Claim(c, t, x))
    BY <2>1 DEF Step, AsReward
  <2>2. \A s \in SUBSET R : s # {} => Chosen(s) \in R
    BY ChosenIn
  <2> QED BY <2>1, <2>2 DEF Iter
<1>2. PICK f : Rec(f)
  BY <1>1, IterExists
<1>3. \E g : Rec(g) /\ FoldSet(LAMBDA v, m : create_vesting2(m, v, Claim(c, t, v), TRUE), base, R) = g[R]
  BY ZenonT(60), <1>2 DEF FoldSet, MapThenFoldSet, Chosen, AsReward
<1> HIDE DEF Rec
<1> QED BY <1>1, <1>3, FoldIs

\* cashout_comment_helper's, over the beneficiaries, with what they get of at.
Benefits(c, at) ==
  [b \in DOMAIN c.beneficiaries |-> (at * c.beneficiaries[b]) \div Full]
Shared(base, c, at) ==
  FoldSet(LAMBDA b, m : PayBeneficiary(m, b, (at * c.beneficiaries[b]) \div Full),
          base, DOMAIN c.beneficiaries)

\* It is one of the folds.
LEMMA BeneficiaryFold ==
  ASSUME NEW c, IsFiniteSet(DOMAIN c.beneficiaries), NEW at, NEW base
  PROVE  Shared(base, c, at)
           = Fold("beneficiary", Benefits(c, at), base, DOMAIN c.beneficiaries)
<1> DEFINE R == DOMAIN c.beneficiaries
           d == Benefits(c, at)
           Rec(f) == f = [s \in SUBSET R |-> IF s = {} THEN base
                            ELSE PayBeneficiary(f[s \ {Chosen(s)}], Chosen(s),
                                                (at * c.beneficiaries[Chosen(s)]) \div Full)]
<1>1. ASSUME NEW f PROVE Iter(f, R, base, "beneficiary", d) <=> Rec(f)
  <2>1. ASSUME NEW x, NEW acc, x \in R
        PROVE  Step("beneficiary", d, x, acc)
                 = PayBeneficiary(acc, x, (at * c.beneficiaries[x]) \div Full)
    BY <2>1 DEF Step, Benefits
  <2>2. \A s \in SUBSET R : s # {} => Chosen(s) \in R
    BY ChosenIn
  <2> HIDE DEF d, R
  <2> QED BY <2>1, <2>2 DEF Iter
<1>2. PICK f : Rec(f)
  BY <1>1, IterExists
<1>3. \E g : Rec(g) /\ Shared(base, c, at) = g[R]
  BY <1>2 DEF Shared, FoldSet, MapThenFoldSet, Chosen
<1> HIDE DEF Rec, d
<1>4. Shared(base, c, at) = Fold("beneficiary", d, base, R)
  <2> HIDE DEF R
  <2>1. IsFiniteSet(R)
    BY DEF R
  <2> QED BY <1>1, <1>3, <2>1, FoldIs
<1> QED BY <1>4 DEF d

\* process_vesting_withdrawals', over the routes that hand on shares.
Deposits(t, r) == [a \in DOMAIN r |-> (t * r[a].percent) \div Full]
HandedOn(base, t, r, R) ==
  FoldSet(LAMBDA a, m : HandVests(m, a, (t * r[a].percent) \div Full), base, R)

\* It is one of the folds.
LEMMA VestFold ==
  ASSUME NEW r, NEW R \in SUBSET DOMAIN r, IsFiniteSet(R), NEW t, NEW base
  PROVE  HandedOn(base, t, r, R) = Fold("vest", Deposits(t, r), base, R)
<1> DEFINE d == Deposits(t, r)
           Rec(f) == f = [s \in SUBSET R |-> IF s = {} THEN base
                            ELSE HandVests(f[s \ {Chosen(s)}], Chosen(s),
                                           (t * r[Chosen(s)].percent) \div Full)]
<1>1. ASSUME NEW f PROVE Iter(f, R, base, "vest", d) <=> Rec(f)
  <2>1. ASSUME NEW x, NEW acc, x \in R
        PROVE  Step("vest", d, x, acc) = HandVests(acc, x, (t * r[x].percent) \div Full)
    BY <2>1 DEF Step, Deposits
  <2>2. \A s \in SUBSET R : s # {} => Chosen(s) \in R
    BY ChosenIn
  <2> HIDE DEF d
  <2> QED BY <2>1, <2>2 DEF Iter
<1>2. PICK f : Rec(f)
  BY <1>1, IterExists
<1> HIDE DEF d
<1>3. \E g : Rec(g) /\ HandedOn(base, t, r, R) = g[R]
  <2>1. HandedOn(base, t, r, R) = (CHOOSE g : Rec(g))[R]
    BY DEF HandedOn, FoldSet, MapThenFoldSet, Chosen
  <2> HIDE DEF Rec
  <2> QED BY <1>2, <2>1
<1> HIDE DEF Rec, d
<1>4. HandedOn(base, t, r, R) = Fold("vest", d, base, R)
  BY <1>1, <1>3, FoldIs
<1> QED BY <1>4 DEF d

\* process_vesting_withdrawals', over the routes that pay BLURT.
PaidOn(base, t, r, R) ==
  FoldSet(LAMBDA a, m : RedeemVests(m, a, (t * r[a].percent) \div Full), base, R)

\* It is one of the folds.
LEMMA RedeemFold ==
  ASSUME NEW r, NEW R \in SUBSET DOMAIN r, IsFiniteSet(R), NEW t, NEW base
  PROVE  PaidOn(base, t, r, R) = Fold("redeem", Deposits(t, r), base, R)
<1> DEFINE d == Deposits(t, r)
           Rec(f) == f = [s \in SUBSET R |-> IF s = {} THEN base
                            ELSE RedeemVests(f[s \ {Chosen(s)}], Chosen(s),
                                             (t * r[Chosen(s)].percent) \div Full)]
<1>1. ASSUME NEW f PROVE Iter(f, R, base, "redeem", d) <=> Rec(f)
  <2>1. ASSUME NEW x, NEW acc, x \in R
        PROVE  Step("redeem", d, x, acc) = RedeemVests(acc, x, (t * r[x].percent) \div Full)
    BY <2>1 DEF Step, Deposits
  <2>2. \A s \in SUBSET R : s # {} => Chosen(s) \in R
    BY ChosenIn
  <2> HIDE DEF d
  <2> QED BY <2>1, <2>2 DEF Iter
<1>2. PICK f : Rec(f)
  BY <1>1, IterExists
<1> HIDE DEF d
<1>3. \E g : Rec(g) /\ PaidOn(base, t, r, R) = g[R]
  <2>1. PaidOn(base, t, r, R) = (CHOOSE g : Rec(g))[R]
    BY DEF PaidOn, FoldSet, MapThenFoldSet, Chosen
  <2> HIDE DEF Rec
  <2> QED BY <1>2, <2>1
<1> HIDE DEF Rec, d
<1>4. PaidOn(base, t, r, R) = Fold("redeem", d, base, R)
  BY <1>1, <1>3, FoldIs
<1> QED BY <1>4 DEF d

----------------------------------------------------------------------------
(***************************************************************************)
(* The inductive invariant, written with Owned and Gap.                    *)
(***************************************************************************)
Held(e) == IF e = NoEscrow THEN 0 ELSE e.blurt_balance + e.pending_fee
Asked(rs) == Total([r \in rs |-> r.amount])

RoutesTyped ==
  /\ DOMAIN routes = Users
  /\ \A a \in Users : /\ DOMAIN routes[a] \subseteq Accounts
                      /\ \A b \in DOMAIN routes[a] : routes[a][b] \in Routes

Good ==
  /\ Sound(ledger) /\ Gap(ledger) = 0
  /\ escrow \in Escrows \union {NoEscrow} /\ FeePaid(escrow)
  /\ requests \subseteq Requests /\ IsFiniteSet(requests)
  /\ RoutesTyped /\ RoutesFit
  /\ uncredited \in Nat
  /\ Owned(ledger) + Held(escrow) + Asked(requests) + uncredited = 0

\* A step does not lower what a share is worth unless rewards are claimed.
Worth ==
  ledger'.pending_rewarded_vesting_shares >= ledger.pending_rewarded_vesting_shares
    => Keeps(ledger, ledger')

\* What is in escrow is a natural number.
LEMMA HeldNat ==
  ASSUME NEW e, e \in Escrows \union {NoEscrow}
  PROVE  Held(e) \in Nat
BY DEF Held, Escrows

\* What is asked for in requests is a natural number.
LEMMA AskedNat ==
  ASSUME NEW rs, rs \subseteq Requests, IsFiniteSet(rs)
  PROVE  Asked(rs) \in Nat
<1> DEFINE d == [r \in rs |-> r.amount]
<1>1. d \in [rs -> Nat]
  BY DEF Requests
<1> HIDE DEF d
<1>2. Total(d) \in Nat
  BY <1>1, TotalNat
<1> QED BY <1>2 DEF Asked, d

\* A request is added.
LEMMA AskedMore ==
  ASSUME NEW rs, rs \subseteq Requests, IsFiniteSet(rs), NEW r \in Requests, r \notin rs
  PROVE  Asked(rs \union {r}) = Asked(rs) + r.amount
<1> DEFINE e == [q \in rs \union {r} |-> q.amount]
           d == [q \in rs |-> e[q]]
<1>1. DOMAIN e = rs \union {r} /\ \A q \in DOMAIN e : e[q] \in Nat
  BY DEF Requests
<1>2. e[r] = r.amount /\ d = [q \in rs |-> q.amount]
  OBVIOUS
<1> HIDE DEF e
<1>3. Total(e) = Total([q \in rs |-> e[q]]) + e[r]
  BY <1>1, TotalExtend
<1> QED BY <1>2, <1>3 DEF Asked, e

\* A request is taken away.
LEMMA AskedLess ==
  ASSUME NEW rs, rs \subseteq Requests, IsFiniteSet(rs), NEW r \in rs
  PROVE  Asked(rs) = Asked(rs \ {r}) + r.amount
<1> DEFINE q == rs \ {r}
<1>1. q \subseteq Requests /\ IsFiniteSet(q) /\ r \in Requests /\ r \notin q /\ q \union {r} = rs
  BY FS_Subset
<1> HIDE DEF q
<1>2. Asked(q \union {r}) = Asked(q) + r.amount
  BY <1>1, AskedMore
<1> QED BY <1>1, <1>2 DEF q

\* Good is the inductive invariant.
LEMMA GoodIs == IInv <=> Good /\ ops \in 0..MaxOps
<1>1. total_supply = Total(ledger.balance) + Total(ledger.savings_balance)
        + Total(ledger.reward_blurt_balance) + Held(escrow) + Asked(requests)
        + ledger.reward_balance + ledger.total_vesting_fund_blurt
        + ledger.pending_rewarded_vesting_blurt
  BY DEF total_supply, Held, Asked
<1>2. ASSUME Sound(ledger), escrow \in Escrows \union {NoEscrow},
             requests \subseteq Requests, IsFiniteSet(requests), uncredited \in Nat
      PROVE  /\ SupplyAccounted
                  <=> Owned(ledger) + Held(escrow) + Asked(requests) + uncredited = 0
             /\ Gap(ledger) = 0 <=> ledger.total_vesting_shares = Total(ledger.vesting_shares)
  <2>1. Held(escrow) \in Nat /\ Asked(requests) \in Nat
    BY <1>2, HeldNat, AskedNat
  <2>2. SupplyAccounted
          <=> Owned(ledger) + Held(escrow) + Asked(requests) + uncredited = 0
    <3>1. ASSUME NEW b \in Nat, NEW s \in Nat, NEW r \in Nat, NEW h \in Nat, NEW k \in Nat,
                 NEW f \in Nat, NEW v \in Nat, NEW p \in Nat, NEW c \in Nat, NEW u \in Nat,
                 NEW z \in Nat
          PROVE  c + u = (b + s + r + h + k + f + v + p) + z
                   <=> (b + s + r + f + v + p - u - c) + h + k + z = 0
      OBVIOUS
    <3>2. /\ Total(ledger.balance) \in Nat /\ Total(ledger.savings_balance) \in Nat
          /\ Total(ledger.reward_blurt_balance) \in Nat
          /\ ledger.reward_balance \in Nat /\ ledger.total_vesting_fund_blurt \in Nat
          /\ ledger.pending_rewarded_vesting_blurt \in Nat
          /\ ledger.current_supply \in Nat /\ ledger.unbacked \in Nat
      BY <1>2, SoundTotals, SoundTypes
    <3> QED BY <1>1, <1>2, <2>1, <3>1, <3>2 DEF SupplyAccounted, Owned
  <2>3. Gap(ledger) = 0 <=> ledger.total_vesting_shares = Total(ledger.vesting_shares)
    BY <1>2, SoundTotals, SoundTypes DEF Gap
  <2> QED BY <2>2, <2>3
<1>3. ASSUME IInv PROVE Good /\ ops \in 0..MaxOps
  <2>1. /\ Sound(ledger) /\ escrow \in Escrows \union {NoEscrow} /\ requests \subseteq Requests
        /\ IsFiniteSet(requests) /\ uncredited \in Nat /\ RoutesTyped /\ RoutesFit
        /\ ops \in 0..MaxOps /\ FeePaid(escrow)
    BY <1>3 DEF IInv, TypeOK, RoutesTyped
  <2>2. Gap(ledger) = 0 /\ Owned(ledger) + Held(escrow) + Asked(requests) + uncredited = 0
    BY <1>2, <1>3, <2>1 DEF IInv
  <2> QED BY <2>1, <2>2 DEF Good
<1>4. ASSUME Good, ops \in 0..MaxOps PROVE IInv
  <2>1. TypeOK
    BY <1>4 DEF Good, Sound, TypeOK, RoutesTyped
  <2>2. SupplyAccounted /\ ledger.total_vesting_shares = Total(ledger.vesting_shares)
    BY <1>2, <1>4 DEF Good
  <2> QED BY <1>4, <2>1, <2>2 DEF Good, IInv
<1> QED BY <1>3, <1>4

\* Good after a step that moves n BLURT into the ledger from elsewhere.
LEMMA GoodStep ==
  ASSUME Good, NEW n \in Int, Becomes(ledger, ledger', n, 0),
         escrow' \in Escrows \union {NoEscrow}, FeePaid(escrow'),
         requests' \subseteq Requests, IsFiniteSet(requests'), UNCHANGED routes, uncredited' \in Nat,
         Held(escrow') + Asked(requests') + uncredited' + n
           = Held(escrow) + Asked(requests) + uncredited
  PROVE  Good'
<1>1. Owned(ledger) \in Int /\ Gap(ledger) = 0
  BY SoundTotals DEF Good
<1>2. /\ Held(escrow) \in Nat /\ Asked(requests) \in Nat
      /\ Held(escrow') \in Nat /\ Asked(requests') \in Nat /\ uncredited \in Nat
  BY HeldNat, AskedNat DEF Good
<1>3. Owned(ledger') = Owned(ledger) + n /\ Gap(ledger') = 0 /\ Sound(ledger')
  BY <1>1 DEF Becomes
<1>4. Owned(ledger') + Held(escrow') + Asked(requests') + uncredited' = 0
  <2>1. Owned(ledger) + Held(escrow) + Asked(requests) + uncredited = 0
    BY DEF Good
  <2> DEFINE o == Owned(ledger)
             h == Held(escrow)
             k == Asked(requests)
             h2 == Held(escrow')
             k2 == Asked(requests')
             u2 == uncredited'
             o2 == Owned(ledger')
  <2>2. /\ o \in Int /\ h \in Nat /\ k \in Nat /\ h2 \in Nat /\ k2 \in Nat
        /\ u2 \in Nat /\ uncredited \in Nat /\ o2 = o + n /\ o + h + k + uncredited = 0
        /\ h2 + k2 + u2 + n = h + k + uncredited
    BY <1>1, <1>2, <1>3, <2>1
  <2> HIDE DEF o, h, k, h2, k2, u2, o2
  <2>3. o2 + h2 + k2 + u2 = 0
    BY <2>2
  <2> QED BY <2>3 DEF o2, h2, k2, u2
<1>5. RoutesTyped' /\ RoutesFit'
  BY DEF Good, RoutesTyped, RoutesFit
<1> QED BY <1>3, <1>4, <1>5 DEF Good, Sound, Gap, Owned, Held, Asked, FeePaid

\* Good after a step that moves BLURT and shares within the ledger.
LEMMA GoodLedger ==
  ASSUME Good, Becomes(ledger, ledger', 0, 0), UNCHANGED <<objectVars, uncredited>>
  PROVE  Good'
<1>1. Held(escrow) \in Nat /\ Asked(requests) \in Nat /\ uncredited \in Nat
  BY HeldNat, AskedNat DEF Good
<1>2. /\ escrow' = escrow /\ requests' = requests /\ routes' = routes
      /\ uncredited' = uncredited
  BY DEF objectVars
<1> QED BY <1>1, <1>2, GoodStep DEF Good

----------------------------------------------------------------------------
(***************************************************************************)
(* The operations of users.                                                *)
(***************************************************************************)

\* The worth of a share does not change if fund and shares do not.
LEMMA KeepsSame ==
  ASSUME NEW l, Sound(l), NEW m, SameFund(l, m)
  PROVE  Keeps(l, m)
<1>1. l.total_vesting_shares \in Nat /\ l.total_vesting_fund_blurt \in Nat
  BY SoundTypes
<1> QED BY <1>1 DEF SameFund, Keeps

\* transfer, account_create, create_proposal and transfer_payments.
LEMMA MoveStep ==
  ASSUME Good, NEW from \in Accounts, NEW to \in Accounts, NEW n \in Nat, Has(from, n),
         ledger' = Move(ledger, from, to, n), UNCHANGED <<objectVars, uncredited>>
  PROVE  Good' /\ Worth
<1>1. Sound(ledger) /\ ledger.balance[from] >= n
  BY DEF Good, Has
<1>2. Becomes(ledger, ledger', 0, 0) /\ SameFund(ledger, ledger')
  BY <1>1, Moved
<1>3. Good'
  BY <1>2, GoodLedger
<1>4. Worth
  BY <1>1, <1>2, KeepsSame DEF Worth
<1> QED BY <1>3, <1>4

\* BLURT becomes shares of an account.
LEMMA VestingStep ==
  ASSUME Good, NEW from \in Users, NEW to \in Accounts, NEW n \in Nat,
         transfer_to_vesting(from, to, n)
  PROVE  Good' /\ Worth
<1> DEFINE j == adjust_balance(ledger, from, -n)
<1>1. /\ Sound(ledger) /\ ledger.balance[from] >= n /\ from \in Accounts
      /\ UNCHANGED <<objectVars, uncredited>>
  BY DEF Good, Has, transfer_to_vesting, Accounts
<1>2. ledger' = AtOnce(j, to, n)
  BY DEF transfer_to_vesting, AtOnce
<1> HIDE DEF j
<1>3. ledger.balance \in [Accounts -> Nat]
  BY <1>1, SoundTypes
<1>4. ledger.balance[from] + (-n) >= 0 /\ -n \in Int
  BY <1>1, <1>3
<1>5. Becomes(ledger, j, -n, 0) /\ SameFund(ledger, j)
  BY <1>1, <1>4, AdjustBalance DEF j
<1>6. Sound(j) /\ Keeps(ledger, j)
  BY <1>1, <1>5, KeepsSame DEF Becomes
<1>7. Becomes(j, ledger', n, 0) /\ Keeps(j, ledger')
  BY <1>2, <1>6, CreateVesting
<1>8. Becomes(ledger, ledger', (-n) + n, 0 + 0)
  BY <1>1, <1>4, <1>5, <1>7, BecomesTrans
<1>9. Becomes(ledger, ledger', 0, 0)
  <2>1. (-n) + n = 0 /\ 0 + 0 = 0
    OBVIOUS
  <2> QED BY <1>8, <2>1
<1>10. Worth
  <2>1. Sound(ledger')
    BY <1>9 DEF Becomes
  <2>2. j.total_vesting_shares = ledger.total_vesting_shares
    BY <1>5 DEF SameFund
  <2> QED BY <1>1, <1>6, <1>7, <2>1, <2>2, KeepsTrans DEF Worth
<1> QED BY <1>1, <1>9, <1>10, GoodLedger

\* The fees of a transaction are burned.
LEMMA FeeStep ==
  ASSUME Good, NEW required \in SUBSET Users, process_tx_fee(required)
  PROVE  Good' /\ Worth
<1>1. /\ Sound(ledger) /\ UNCHANGED <<objectVars, uncredited>> /\ IsFiniteSet(required)
      /\ \A a \in required : ledger.balance[a] >= Fee
  BY LedgerAssumption, FS_Subset DEF Good, process_tx_fee, Has
<1>2. ledger' = Fold("fee", <<>>, ledger, required)
  BY <1>1, FeeFold DEF process_tx_fee
<1>3. Becomes(ledger, ledger', 0, 0) /\ SameFund(ledger, ledger')
  BY <1>1, <1>2, FeesPaid
<1> QED BY <1>1, <1>3, GoodLedger, KeepsSame DEF Worth

\* Balance becomes savings.
LEMMA SaveStep ==
  ASSUME Good, NEW from \in Users, NEW to \in Accounts, NEW n \in Nat,
         transfer_to_savings(from, to, n)
  PROVE  Good' /\ Worth
<1> DEFINE j == adjust_balance(ledger, from, -n)
<1>1. /\ Sound(ledger) /\ ledger.balance[from] >= n /\ from \in Accounts
      /\ UNCHANGED <<objectVars, uncredited>>
      /\ ledger' = adjust_savings_balance(j, to, n)
  BY DEF Good, Has, transfer_to_savings, Accounts
<1> HIDE DEF j
<1>2. ledger.balance \in [Accounts -> Nat]
  BY <1>1, SoundTypes
<1>3. ledger.balance[from] + (-n) >= 0 /\ -n \in Int
  BY <1>1, <1>2
<1>4. Becomes(ledger, j, -n, 0) /\ SameFund(ledger, j)
  BY <1>1, <1>3, AdjustBalance DEF j
<1>5. Sound(j) /\ Keeps(ledger, j)
  BY <1>1, <1>4, KeepsSame DEF Becomes
<1>6. j.savings_balance \in [Accounts -> Nat] /\ j.savings_balance[to] + n >= 0
  BY <1>5, SoundTypes
<1>7. Becomes(j, ledger', n, 0) /\ Keeps(j, ledger')
  BY <1>1, <1>5, <1>6, AdjustSavings
<1>8. Becomes(ledger, ledger', (-n) + n, 0 + 0)
  BY <1>1, <1>3, <1>4, <1>7, BecomesTrans
<1>9. Becomes(ledger, ledger', 0, 0)
  <2>1. (-n) + n = 0 /\ 0 + 0 = 0
    OBVIOUS
  <2> QED BY <1>8, <2>1
<1>10. Worth
  <2>1. Sound(ledger')
    BY <1>9 DEF Becomes
  <2>2. j.total_vesting_shares = ledger.total_vesting_shares
    BY <1>4 DEF SameFund
  <2> QED BY <1>1, <1>5, <1>7, <2>1, <2>2, KeepsTrans DEF Worth
<1> QED BY <1>1, <1>9, <1>10, GoodLedger

\* Savings go into a request.
LEMMA RequestStep ==
  ASSUME Good, NEW from \in Users, NEW to \in Accounts, NEW n \in Nat \ {0},
         NEW id \in 1..MaxRequests, transfer_from_savings(from, to, n, id)
  PROVE  Good' /\ Worth
<1> DEFINE r == [from |-> from, to |-> to, amount |-> n, request_id |-> id]
<1>1. /\ Sound(ledger) /\ ledger.savings_balance[from] >= n /\ from \in Accounts
      /\ UNCHANGED <<escrow, routes, uncredited>>
      /\ ledger' = adjust_savings_balance(ledger, from, -n)
      /\ requests' = requests \union {r}
  BY DEF Good, transfer_from_savings, Accounts
<1>2. r \in Requests /\ r \notin requests /\ r.amount = n
  BY DEF transfer_from_savings, RequestsOf, Requests
<1>3. ledger.savings_balance \in [Accounts -> Nat]
  BY <1>1, SoundTypes
<1>4. ledger.savings_balance[from] + (-n) >= 0 /\ -n \in Int
  BY <1>1, <1>3
<1>5. Becomes(ledger, ledger', -n, 0) /\ Keeps(ledger, ledger')
  BY <1>1, <1>4, AdjustSavings
<1> HIDE DEF r
<1>6. /\ requests' \subseteq Requests /\ IsFiniteSet(requests')
      /\ Asked(requests') = Asked(requests) + n
  BY <1>1, <1>2, AskedMore, FS_AddElement DEF Good
<1>7. Held(escrow) \in Nat /\ Asked(requests) \in Nat /\ uncredited \in Nat
  BY HeldNat, AskedNat DEF Good
<1>8. Held(escrow') + Asked(requests') + uncredited' + (-n)
        = Held(escrow) + Asked(requests) + uncredited
  BY <1>1, <1>6, <1>7
<1>9. Good'
  BY <1>1, <1>4, <1>5, <1>6, <1>7, <1>8, GoodStep DEF Good
<1> QED BY <1>5, <1>9 DEF Worth

\* A request is taken back or paid.
LEMMA RequestEnds ==
  ASSUME Good, NEW r \in requests,
         cancel_transfer_from_savings(r) \/ process_savings_withdraws(r)
  PROVE  Good' /\ Worth
<1>1. /\ Sound(ledger) /\ r \in Requests /\ r.amount \in Nat /\ r.from \in Accounts
      /\ r.to \in Accounts
  BY DEF Good, Requests, Accounts
<1>2. /\ UNCHANGED <<escrow, routes, uncredited>> /\ requests' = requests \ {r}
      /\ \/ ledger' = adjust_savings_balance(ledger, r.from, r.amount)
         \/ ledger' = adjust_balance(ledger, r.to, r.amount)
  BY DEF cancel_transfer_from_savings, process_savings_withdraws
<1> DEFINE n == r.amount
<1>3. n \in Int /\ n \in Nat
  BY <1>1
<1>4. Becomes(ledger, ledger', n, 0) /\ Keeps(ledger, ledger')
  <2>1. /\ ledger.savings_balance \in [Accounts -> Nat]
        /\ ledger.balance \in [Accounts -> Nat]
    BY <1>1, SoundTypes
  <2>2. ledger.savings_balance[r.from] + n >= 0 /\ ledger.balance[r.to] + n >= 0
    BY <1>1, <2>1
  <2> HIDE DEF n
  <2>3. CASE ledger' = adjust_savings_balance(ledger, r.from, n)
    BY <1>1, <1>3, <2>1, <2>2, <2>3, AdjustSavings
  <2>4. CASE ledger' = adjust_balance(ledger, r.to, n)
    BY <1>1, <1>3, <2>1, <2>2, <2>4, AdjustBalance
  <2> QED BY <1>2, <2>3, <2>4 DEF n
<1>5. /\ requests' \subseteq Requests /\ IsFiniteSet(requests')
      /\ Asked(requests) = Asked(requests') + n
  BY <1>2, AskedLess, FS_Subset DEF Good
<1>6. Held(escrow) \in Nat /\ Asked(requests') \in Nat /\ uncredited \in Nat
  BY <1>5, HeldNat, AskedNat DEF Good
<1>7. Held(escrow') + Asked(requests') + uncredited' + n
        = Held(escrow) + Asked(requests) + uncredited
  BY <1>2, <1>3, <1>5, <1>6
<1> HIDE DEF n
<1>8. Good'
  BY <1>2, <1>3, <1>4, <1>5, <1>6, <1>7, GoodStep DEF Good
<1> QED BY <1>4, <1>8 DEF Worth

\* Good after a step that moves n BLURT into the ledger from the escrow.
LEMMA EscrowMoves ==
  ASSUME Good, NEW n \in Int, Becomes(ledger, ledger', n, 0),
         escrow' \in Escrows \union {NoEscrow}, FeePaid(escrow'),
         Held(escrow') + n = Held(escrow),
         UNCHANGED <<requests, routes, uncredited>>
  PROVE  Good'
<1>1. /\ Held(escrow) \in Nat /\ Asked(requests) \in Nat /\ uncredited \in Nat
      /\ Held(escrow') \in Nat
  BY HeldNat, AskedNat DEF Good
<1>2. Held(escrow') + Asked(requests') + uncredited' + n
        = Held(escrow) + Asked(requests) + uncredited
  <2> DEFINE h == Held(escrow)
             h2 == Held(escrow')
             k == Asked(requests)
  <2>1. h \in Nat /\ h2 \in Nat /\ k \in Nat /\ uncredited \in Nat /\ h2 + n = h
    BY <1>1
  <2> HIDE DEF h, h2, k
  <2>2. h2 + k + uncredited + n = h + k + uncredited
    BY <2>1
  <2> QED BY <2>2 DEF h, h2, k
<1> QED BY <1>1, <1>2, GoodStep DEF Good

\* What an escrow is, and what it holds.
LEMMA EscrowTypes ==
  ASSUME Good, escrow # NoEscrow
  PROVE  /\ escrow \in Escrows /\ escrow.from \in Accounts /\ escrow.to \in Accounts
         /\ escrow.agent \in Accounts /\ escrow.blurt_balance \in Nat \ {0}
         /\ escrow.pending_fee \in Nat
         /\ Held(escrow) = escrow.blurt_balance + escrow.pending_fee
BY DEF Good, Escrows, Held, Accounts

\* An escrow is a record the marker for no escrow is not.
LEMMA EscrowIsSome ==
  ASSUME NEW e \in Escrows
  PROVE  e # NoEscrow /\ Held(e) = e.blurt_balance + e.pending_fee
<1>1. e \in [from : Users, to : Users, agent : Users, blurt_balance : Nat,
             pending_fee : Nat, to_approved : BOOLEAN,
             agent_approved : BOOLEAN, disputed : BOOLEAN]
  BY DEF Escrows
<1>2. e # NoEscrow
  BY <1>1, InputAssumption
<1> QED BY <1>2 DEF Held

\* Balance goes into escrow.
LEMMA EscrowBegins ==
  ASSUME Good, NEW from \in Users, NEW to \in Users, NEW agent \in Users,
         NEW n \in Nat \ {0}, NEW fee \in Nat, escrow_transfer(from, to, agent, n, fee)
  PROVE  Good' /\ Worth
<1>1. /\ Sound(ledger) /\ ledger.balance[from] >= n + fee /\ from \in Accounts
      /\ escrow = NoEscrow /\ UNCHANGED <<requests, routes, uncredited>>
      /\ ledger' = adjust_balance(ledger, from, -(n + fee))
  BY DEF Good, Has, escrow_transfer, Accounts
<1>2. /\ escrow' \in Escrows /\ escrow'.blurt_balance = n /\ escrow'.pending_fee = fee
      /\ FeePaid(escrow')
  BY DEF escrow_transfer, Escrows, FeePaid
<1> DEFINE d == -(n + fee)
<1>3. ledger.balance \in [Accounts -> Nat]
  BY <1>1, SoundTypes
<1>4. d \in Int /\ ledger.balance[from] + d >= 0
  BY <1>1, <1>3
<1>5. Held(escrow') = n + fee /\ Held(escrow) = 0
  BY <1>1, <1>2, EscrowIsSome DEF Held
<1>6. Held(escrow') + d = Held(escrow)
  BY <1>5
<1> HIDE DEF d
<1>7. Becomes(ledger, ledger', d, 0) /\ Keeps(ledger, ledger')
  <2>1. ledger' = adjust_balance(ledger, from, d)
    BY <1>1 DEF d
  <2> QED BY <1>1, <1>4, <2>1, AdjustBalance
<1> QED BY <1>1, <1>2, <1>4, <1>6, <1>7, EscrowMoves DEF Worth

\* The escrow goes back to its sender.
LEMMA EscrowRefunded ==
  ASSUME Good, escrow # NoEscrow, RefundEscrow
  PROVE  Good' /\ Worth
<1> DEFINE b == escrow.blurt_balance
           f == escrow.pending_fee
           a == escrow.from
           j == adjust_balance(ledger, a, b)
<1>1. /\ Sound(ledger) /\ escrow' = NoEscrow /\ UNCHANGED <<requests, routes, uncredited>>
      /\ ledger' = adjust_balance(j, a, f) /\ FeePaid(escrow')
  BY DEF Good, RefundEscrow, FeePaid
<1>2. b \in Nat /\ f \in Nat /\ a \in Accounts /\ Held(escrow) = b + f
  BY EscrowTypes
<1> HIDE DEF b, f, a, j
<1>3. ledger.balance \in [Accounts -> Nat] /\ ledger.balance[a] + b >= 0 /\ b \in Int
  BY <1>1, <1>2, SoundTypes
<1>4. Becomes(ledger, j, b, 0) /\ SameFund(ledger, j)
  BY <1>1, <1>2, <1>3, AdjustBalance DEF j
<1>5. Sound(j)
  BY <1>4 DEF Becomes
<1>6. j.balance \in [Accounts -> Nat] /\ j.balance[a] + f >= 0 /\ f \in Int
  BY <1>2, <1>5, SoundTypes
<1>7. Becomes(j, ledger', f, 0) /\ SameFund(j, ledger')
  BY <1>1, <1>2, <1>5, <1>6, AdjustBalance
<1>8. Becomes(ledger, ledger', b + f, 0 + 0)
  BY <1>1, <1>3, <1>4, <1>6, <1>7, BecomesTrans
<1>9. Becomes(ledger, ledger', b + f, 0)
  <2>1. 0 + 0 = 0
    OBVIOUS
  <2> QED BY <1>8, <2>1
<1>10. Held(escrow') + (b + f) = Held(escrow) /\ b + f \in Int
  BY <1>1, <1>2 DEF Held
<1>11. Keeps(ledger, ledger')
  <2>1. SameFund(ledger, ledger')
    BY <1>4, <1>7 DEF SameFund
  <2> QED BY <1>1, <2>1, KeepsSame
<1> QED BY <1>1, <1>9, <1>10, <1>11, EscrowMoves DEF Worth

\* One of the two approves the escrow or rejects it.
LEMMA EscrowApproved ==
  ASSUME Good, NEW who \in Users, NEW approve \in BOOLEAN, escrow_approve(who, approve)
  PROVE  Good' /\ Worth
<1>1. escrow # NoEscrow
  BY DEF escrow_approve
<1>2. CASE RefundEscrow
  BY <1>1, <1>2, EscrowRefunded
<1>3. CASE ~RefundEscrow
  <2> DEFINE ta == escrow.to_approved \/ who = escrow.to
             aa == escrow.agent_approved \/ who = escrow.agent
             fee == IF ta /\ aa THEN escrow.pending_fee ELSE 0
             e == [escrow EXCEPT !.to_approved = ta, !.agent_approved = aa,
                                 !.pending_fee = @ - fee]
  <2>1. /\ ledger' = adjust_balance(ledger, escrow.agent, fee) /\ escrow' = e
        /\ UNCHANGED <<requests, routes, uncredited>>
    BY <1>3 DEF escrow_approve
  <2>2. fee \in Nat /\ escrow.pending_fee - fee \in Nat /\ ta \in BOOLEAN /\ aa \in BOOLEAN
    BY <1>1, EscrowTypes
  <2> HIDE DEF ta, aa, fee
  <2>3. /\ e \in Escrows /\ e.blurt_balance = escrow.blurt_balance
        /\ e.pending_fee = escrow.pending_fee - fee
        /\ e.to_approved = ta /\ e.agent_approved = aa
    <3>1. escrow \in Escrows
      BY <1>1, EscrowTypes
    <3> QED BY <2>2, <3>1 DEF Escrows
  <2> HIDE DEF e
  <2>4. Held(escrow') + fee = Held(escrow)
    <3>1. Held(e) = e.blurt_balance + e.pending_fee
      BY <2>3, EscrowIsSome
    <3>2. Held(escrow) = escrow.blurt_balance + escrow.pending_fee
          /\ escrow.blurt_balance \in Nat /\ escrow.pending_fee \in Nat
      BY <1>1, EscrowTypes
    <3> QED BY <2>1, <2>2, <2>3, <3>1, <3>2
  <2>8. FeePaid(escrow')
    <3>1. ta /\ aa => escrow.pending_fee - fee = 0
      BY <1>1, EscrowTypes DEF fee
    <3> QED BY <2>1, <2>3, <3>1 DEF FeePaid
  <2>5. Sound(ledger) /\ escrow.agent \in Accounts /\ fee \in Int
    BY <1>1, <2>2, EscrowTypes DEF Good
  <2>6. ledger.balance \in [Accounts -> Nat] /\ ledger.balance[escrow.agent] + fee >= 0
    BY <2>2, <2>5, SoundTypes
  <2>7. Becomes(ledger, ledger', fee, 0) /\ Keeps(ledger, ledger')
    BY <2>1, <2>5, <2>6, AdjustBalance
  <2> QED BY <2>1, <2>3, <2>4, <2>5, <2>7, <2>8, EscrowMoves DEF Worth
<1> QED BY <1>2, <1>3

\* A party disputes the escrow.
LEMMA EscrowDisputed ==
  ASSUME Good, escrow_dispute
  PROVE  Good' /\ Worth
<1>1. /\ escrow # NoEscrow /\ UNCHANGED <<ledger, requests, routes, uncredited>>
      /\ escrow' = [escrow EXCEPT !.disputed = TRUE] /\ Sound(ledger)
  BY DEF escrow_dispute, Good
<1>2. escrow \in Escrows /\ Held(escrow) = escrow.blurt_balance + escrow.pending_fee
      /\ escrow.blurt_balance \in Nat /\ escrow.pending_fee \in Nat
  BY <1>1, EscrowTypes
<1>3. /\ escrow' \in Escrows /\ escrow'.blurt_balance = escrow.blurt_balance
      /\ escrow'.pending_fee = escrow.pending_fee /\ FeePaid(escrow')
  BY <1>1, <1>2 DEF Escrows, Good, FeePaid
<1>4. Held(escrow') + 0 = Held(escrow)
  BY <1>2, <1>3, EscrowIsSome
<1>5. Becomes(ledger, ledger', 0, 0) /\ Keeps(ledger, ledger')
  <2>1. Owned(ledger) \in Int /\ Gap(ledger) \in Int
    BY <1>1, SoundTotals
  <2>2. Becomes(ledger, ledger, 0, 0) /\ SameFund(ledger, ledger)
    BY <1>1, <2>1 DEF Becomes, SameFund
  <2> QED BY <1>1, <2>2, KeepsSame
<1> DEFINE z == 0
<1>6. z \in Int /\ Becomes(ledger, ledger', z, 0) /\ Held(escrow') + z = Held(escrow)
  BY <1>4, <1>5
<1> HIDE DEF z
<1>7. Good'
  BY <1>1, <1>3, <1>6, EscrowMoves
<1> QED BY <1>5, <1>7 DEF Worth

\* Part of the escrow, or all of it, is released.
LEMMA EscrowReleased ==
  ASSUME Good, NEW who, NEW receiver, NEW n \in Nat, NEW expired,
         escrow_release(who, receiver, n, expired)
  PROVE  Good' /\ Worth
<1>1. /\ escrow # NoEscrow /\ UNCHANGED <<requests, routes, uncredited>>
      /\ receiver \in {escrow.from, escrow.to} /\ n <= escrow.blurt_balance
      /\ ledger' = adjust_balance(ledger, receiver, n) /\ Sound(ledger)
      /\ escrow' = IF n = escrow.blurt_balance THEN NoEscrow
                   ELSE [escrow EXCEPT !.blurt_balance = @ - n]
  BY DEF escrow_release, Good
<1>2. /\ escrow \in Escrows /\ Held(escrow) = escrow.blurt_balance + escrow.pending_fee
      /\ escrow.blurt_balance \in Nat /\ escrow.pending_fee \in Nat /\ receiver \in Accounts
  BY <1>1, EscrowTypes
<1>3. ledger.balance \in [Accounts -> Nat] /\ ledger.balance[receiver] + n >= 0 /\ n \in Int
  BY <1>1, <1>2, SoundTypes
<1>4. Becomes(ledger, ledger', n, 0) /\ Keeps(ledger, ledger')
  BY <1>1, <1>2, <1>3, AdjustBalance
<1>5. escrow.pending_fee = 0
  BY <1>1 DEF Good, FeePaid, escrow_release, Ratified
<1>6. /\ escrow' \in Escrows \union {NoEscrow} /\ FeePaid(escrow')
      /\ Held(escrow') + n = Held(escrow)
  <2>1. CASE n = escrow.blurt_balance
    BY <1>1, <1>2, <1>5, <2>1 DEF Held, FeePaid
  <2>2. CASE n # escrow.blurt_balance
    <3> DEFINE b == escrow.blurt_balance - n
    <3>1. b \in Nat \ {0} /\ b + n = escrow.blurt_balance
      BY <1>1, <1>2, <2>2
    <3>2. escrow' = [escrow EXCEPT !.blurt_balance = b]
      BY <1>1, <2>2
    <3> HIDE DEF b
    <3>3. escrow' \in Escrows /\ escrow'.blurt_balance = b /\ escrow'.pending_fee = 0
      BY <1>2, <1>5, <3>1, <3>2 DEF Escrows
    <3>4. Held(escrow') = b + 0
      BY <3>3, EscrowIsSome
    <3> QED BY <1>2, <1>5, <3>1, <3>3, <3>4 DEF FeePaid
  <2> QED BY <2>1, <2>2
<1> QED BY <1>1, <1>3, <1>4, <1>6, EscrowMoves DEF Worth

\* A route is set, changed or removed.
LEMMA RouteStep ==
  ASSUME Good, NEW from \in Users, NEW to \in Accounts, NEW percent \in 0..Full,
         NEW auto \in BOOLEAN, set_withdraw_vesting_route(from, to, percent, auto)
  PROVE  Good' /\ Worth
<1> DEFINE others == DOMAIN routes[from] \ {to}
           new == [percent |-> percent, auto_vest |-> auto]
           r == [a \in IF percent = 0 THEN others ELSE others \union {to} |->
                   IF a = to THEN new ELSE routes[from][a]]
<1>1. /\ UNCHANGED <<ledger, escrow, requests, uncredited>>
      /\ routes' = [routes EXCEPT ![from] = r] /\ Routed(routes'[from]) <= Full
  BY DEF set_withdraw_vesting_route
<1>2. RoutesTyped /\ RoutesFit
  BY DEF Good
<1>3. /\ DOMAIN r \subseteq Accounts
      /\ \A b \in DOMAIN r : r[b] \in Routes
  <2>1. percent # 0 => new \in Routes
    BY LedgerAssumption DEF Routes
  <2> HIDE DEF new
  <2>2. /\ DOMAIN routes[from] \subseteq Accounts
        /\ \A b \in DOMAIN routes[from] : routes[from][b] \in Routes
    BY <1>2 DEF RoutesTyped
  <2> QED BY <2>1, <2>2
<1> HIDE DEF r
<1>4. /\ DOMAIN routes' = Users /\ routes'[from] = r
      /\ \A a \in Users \ {from} : routes'[a] = routes[a]
  <2>1. DOMAIN routes = Users
    BY <1>2 DEF RoutesTyped
  <2> QED BY <1>1, <2>1
<1>5. RoutesTyped'
  BY <1>2, <1>3, <1>4 DEF RoutesTyped
<1>6. RoutesFit'
  BY <1>1, <1>2, <1>4 DEF RoutesFit
<1>7. Good'
  BY <1>1, <1>5, <1>6 DEF Good, Sound, Gap, Owned, Held, Asked, FeePaid
<1>8. Worth
  <2>1. Sound(ledger) /\ SameFund(ledger, ledger')
    BY <1>1 DEF Good, SameFund
  <2> QED BY <2>1, KeepsSame DEF Worth
<1> QED BY <1>7, <1>8

\* What moves with v of s shares behind which there are b BLURT.
Part(v, b, s) == IF v = s THEN b ELSE (v * b) \div s

\* Part of a reward of b BLURT behind s shares is claimed: what moves is no
\* more than there is, and all of it when nothing is left to be claimed.
LEMMA ClaimedPart ==
  ASSUME NEW b \in Nat, NEW s \in Nat, NEW v \in Nat, v <= s, s = 0 => b = 0
  PROVE  /\ Part(v, b, s) \in Nat /\ Part(v, b, s) <= b
         /\ s - v = 0 => b - Part(v, b, s) = 0
         /\ v = 0 => Part(v, b, s) = 0
<1> DEFINE c == Part(v, b, s)
<1>1. CASE v = s
  BY <1>1 DEF Part
<1>2. CASE v # s
  <2>1. s \in Nat \ {0} /\ v * b \in Nat /\ c = (v * b) \div s
    BY <1>2 DEF Part
  <2> HIDE DEF c
  <2>2. c \in Nat /\ s * c <= v * b
    BY <2>1, Floor
  <2>3. v * b <= s * b
    <3>1. ASSUME NEW d \in Nat, s = v + d PROVE v * b <= s * b
      <4>1. s * b = v * b + d * b /\ d * b \in Nat
        BY <3>1
      <4> QED BY <2>1, <4>1
    <3>2. s - v \in Nat /\ s = v + (s - v)
      OBVIOUS
    <3> QED BY <3>1, <3>2
  <2>4. c <= b
    <3>1. s * c <= s * b
      BY <2>1, <2>2, <2>3
    <3> QED BY <2>1, <2>2, <3>1
  <2>5. v = 0 => c = 0
    <3>1. v = 0 => v * b = 0
      OBVIOUS
    <3>2. ASSUME s * c <= 0 PROVE c = 0
      BY <2>1, <2>2, <3>2
    <3> QED BY <2>2, <3>1, <3>2
  <2> QED BY <1>2, <2>2, <2>4, <2>5 DEF c
<1> QED BY <1>1, <1>2

\* Subtracting is adding the opposite.
LEMMA Lowered ==
  ASSUME NEW f, f \in [Accounts -> Nat], NEW a \in Accounts, NEW n \in Nat
  PROVE  [f EXCEPT ![a] = @ + (-n)] = [f EXCEPT ![a] = @ - n]
<1>1. f[a] \in Nat /\ f[a] + (-n) = f[a] - n
  OBVIOUS
<1> QED BY <1>1

\* A ledger after a has claimed rb BLURT and v shares, with c BLURT behind them.
WithClaim(l, a, rb, v, c) ==
  [adjust_balance(l, a, rb) EXCEPT
     !.reward_blurt_balance[a] = @ - rb,
     !.vesting_shares[a] = @ + v,
     !.reward_vesting_balance[a] = @ - v,
     !.reward_vesting_blurt[a] = @ - c,
     !.total_vesting_shares = @ + v,
     !.total_vesting_fund_blurt = @ + c,
     !.pending_rewarded_vesting_shares = @ - v,
     !.pending_rewarded_vesting_blurt = @ - c]

\* A ledger with other contents.
Contents(l, b1, b2, b3, b4, b5, b6, n1, n2, n3, n4, n5) ==
  [l EXCEPT !.balance = b1, !.reward_blurt_balance = b2,
     !.vesting_shares = b3, !.reward_vesting_balance = b4,
     !.reward_vesting_blurt = b5, !.savings_balance = b6,
     !.total_vesting_shares = n1, !.total_vesting_fund_blurt = n2,
     !.pending_rewarded_vesting_shares = n3,
     !.pending_rewarded_vesting_blurt = n4, !.current_supply = n5]

HasContents(m, l, b1, b2, b3, b4, b5, b6, n1, n2, n3, n4, n5) ==
  /\ m \in LedgerRecords /\ m.balance = b1 /\ m.savings_balance = b6
  /\ m.reward_blurt_balance = b2 /\ m.vesting_shares = b3
  /\ m.reward_vesting_blurt = b5 /\ m.reward_vesting_balance = b4
  /\ m.total_vesting_fund_blurt = n2 /\ m.total_vesting_shares = n1
  /\ m.pending_rewarded_vesting_shares = n3
  /\ m.pending_rewarded_vesting_blurt = n4
  /\ m.reward_balance = l.reward_balance /\ m.current_supply = n5
  /\ m.unbacked = l.unbacked

\* What it contains.
LEMMA Updated ==
  ASSUME NEW l, l \in LedgerRecords, NEW b1 \in PerAccount, NEW b2 \in PerAccount,
         NEW b3 \in PerAccount, NEW b4 \in PerAccount, NEW b5 \in PerAccount,
         NEW b6 \in PerAccount, NEW n1 \in Nat, NEW n2 \in Nat, NEW n3 \in Nat,
         NEW n4 \in Nat, NEW n5 \in Nat
  PROVE  HasContents(Contents(l, b1, b2, b3, b4, b5, b6, n1, n2, n3, n4, n5),
                     l, b1, b2, b3, b4, b5, b6, n1, n2, n3, n4, n5)
BY DEF LedgerRecords, Contents, HasContents

\* What claiming does to the ledger.
LEMMA Claimed ==
  ASSUME NEW l, Sound(l), NEW a \in Accounts, NEW rb \in Nat, NEW v \in Nat,
         rb <= l.reward_blurt_balance[a], v <= l.reward_vesting_balance[a],
         l.total_vesting_shares = 0 => l.pending_rewarded_vesting_shares = 0,
         NEW c, c = Part(v, l.reward_vesting_blurt[a], l.reward_vesting_balance[a]),
         NEW m, m = WithClaim(l, a, rb, v, c)
  PROVE  /\ Becomes(l, m, 0, 0)
         /\ m.pending_rewarded_vesting_shares >= l.pending_rewarded_vesting_shares
              => Keeps(l, m)
<1> DEFINE S == l.total_vesting_shares
           F == l.total_vesting_fund_blurt
           P == l.pending_rewarded_vesting_shares
           B == l.pending_rewarded_vesting_blurt
           b1 == [l.balance EXCEPT ![a] = @ + rb]
           b2 == [l.reward_blurt_balance EXCEPT ![a] = @ + (-rb)]
           b3 == [l.vesting_shares EXCEPT ![a] = @ + v]
           b4 == [l.reward_vesting_balance EXCEPT ![a] = @ + (-v)]
           b5 == [l.reward_vesting_blurt EXCEPT ![a] = @ + (-c)]
<1>1. /\ l.balance \in [Accounts -> Nat] /\ l.reward_blurt_balance \in [Accounts -> Nat]
      /\ l.vesting_shares \in [Accounts -> Nat] /\ l.reward_vesting_balance \in [Accounts -> Nat]
      /\ l.reward_vesting_blurt \in [Accounts -> Nat]
      /\ S \in Nat /\ F \in Nat /\ P \in Nat /\ B \in Nat /\ (S # 0 => F # 0)
      /\ l.unbacked \in Nat
  BY SoundTypes DEF Sound
<1>2. /\ l.reward_vesting_balance[a] \in Nat /\ l.reward_vesting_blurt[a] \in Nat
      /\ l.reward_vesting_balance[a] = 0 => l.reward_vesting_blurt[a] = 0
  BY <1>1 DEF Sound
<1>3. /\ c \in Nat /\ c <= l.reward_vesting_blurt[a] /\ (v = 0 => c = 0)
      /\ l.reward_vesting_balance[a] - v = 0 => l.reward_vesting_blurt[a] - c = 0
  <2> DEFINE s == l.reward_vesting_balance[a]
             b == l.reward_vesting_blurt[a]
  <2>1. /\ s \in Nat /\ b \in Nat /\ v <= s /\ (s = 0 => b = 0)
        /\ c = Part(v, b, s)
    BY <1>2
  <2> HIDE DEF s, b
  <2>2. /\ Part(v, b, s) \in Nat /\ Part(v, b, s) <= b
        /\ s - v = 0 => b - Part(v, b, s) = 0
        /\ v = 0 => Part(v, b, s) = 0
    BY <2>1, ClaimedPart, Zenon
  <2> QED BY <2>1, <2>2 DEF s, b
<1>4. /\ l.reward_vesting_balance[a] <= P
      /\ B = Total(l.reward_vesting_blurt) + l.unbacked /\ l.reward_vesting_blurt[a] <= B
  <2>1. /\ l.reward_vesting_balance[a] <= Total(l.reward_vesting_balance)
        /\ l.reward_vesting_blurt[a] <= Total(l.reward_vesting_blurt)
        /\ Total(l.reward_vesting_blurt) \in Nat
    BY <1>1, AccountsFinite, TotalNat
  <2>2. P = Total(l.reward_vesting_balance) /\ B = Total(l.reward_vesting_blurt) + l.unbacked
    BY DEF Sound
  <2> QED BY <1>1, <1>2, <2>1, <2>2
<1>5. P - v \in Nat /\ B - c \in Nat /\ S + v \in Nat /\ F + c \in Nat
  BY <1>1, <1>2, <1>3, <1>4
<1>6. b1 \in [Accounts -> Nat] /\ Total(b1) = Total(l.balance) + rb
  <2>1. l.balance[a] + rb >= 0 /\ rb \in Int
    BY <1>1
  <2> QED BY <1>1, <2>1, TotalRaise
<1>7. b2 \in [Accounts -> Nat] /\ Total(b2) = Total(l.reward_blurt_balance) + (-rb)
  <2>1. l.reward_blurt_balance[a] + (-rb) >= 0 /\ -rb \in Int
    BY <1>1
  <2> QED BY <1>1, <2>1, TotalRaise
<1>8. b3 \in [Accounts -> Nat] /\ Total(b3) = Total(l.vesting_shares) + v
  <2>1. l.vesting_shares[a] + v >= 0 /\ v \in Int
    BY <1>1
  <2> QED BY <1>1, <2>1, TotalRaise
<1>9. b4 \in [Accounts -> Nat] /\ Total(b4) = Total(l.reward_vesting_balance) + (-v)
  <2>1. l.reward_vesting_balance[a] + (-v) >= 0 /\ -v \in Int
    BY <1>2
  <2> QED BY <1>1, <2>1, TotalRaise
<1>10. b5 \in [Accounts -> Nat] /\ Total(b5) = Total(l.reward_vesting_blurt) + (-c)
  <2>1. l.reward_vesting_blurt[a] + (-c) >= 0 /\ -c \in Int
    BY <1>2, <1>3
  <2>2. l.reward_vesting_blurt \in [Accounts -> Nat]
    BY <1>1
  <2> QED BY <2>1, <2>2, TotalRaise
<1>11. \A x \in Accounts : b4[x] = 0 => b5[x] = 0
  <2>1. ASSUME NEW x \in Accounts, x # a PROVE b4[x] = 0 => b5[x] = 0
    BY <1>1, <2>1 DEF Sound
  <2>2. b4[a] = 0 => b5[a] = 0
    BY <1>1, <1>2, <1>3
  <2> QED BY <2>1, <2>2
<1>12. m = [l EXCEPT !.balance = b1, !.reward_blurt_balance = b2, !.vesting_shares = b3,
                     !.reward_vesting_balance = b4, !.reward_vesting_blurt = b5,
                     !.savings_balance = l.savings_balance,
                     !.total_vesting_shares = S + v, !.total_vesting_fund_blurt = F + c,
                     !.pending_rewarded_vesting_shares = P - v,
                     !.pending_rewarded_vesting_blurt = B - c,
                     !.current_supply = l.current_supply]
  <2>1. /\ b2 = [l.reward_blurt_balance EXCEPT ![a] = @ - rb]
        /\ b4 = [l.reward_vesting_balance EXCEPT ![a] = @ - v]
        /\ b5 = [l.reward_vesting_blurt EXCEPT ![a] = @ - c]
    BY <1>1, <1>3, Lowered
  <2>2. /\ l.balance[a] + rb = b1[a] /\ [l.balance EXCEPT ![a] = b1[a]] = b1
        /\ l \in LedgerRecords
    BY <1>1 DEF Sound
  <2>3. /\ [l EXCEPT !.balance = b1].balance = b1
        /\ adjust_balance(l, a, rb) = [l EXCEPT !.balance = b1]
    BY <2>2 DEF adjust_balance, LedgerRecords
  <2>4. m = [l EXCEPT !.balance = b1, !.reward_blurt_balance = b2, !.vesting_shares = b3,
                      !.reward_vesting_balance = b4, !.reward_vesting_blurt = b5,
                      !.total_vesting_shares = S + v, !.total_vesting_fund_blurt = F + c,
                      !.pending_rewarded_vesting_shares = P - v,
                      !.pending_rewarded_vesting_blurt = B - c]
    <3> HIDE DEF b1, b2, b4, b5
    <3> QED BY <2>1, <2>2, <2>3 DEF WithClaim, LedgerRecords
  <2> HIDE DEF b1, b2, b3, b4, b5, S, F, P, B
  <2> QED BY ZenonT(90), <2>2, <2>4 DEF LedgerRecords
<1> HIDE DEF b1, b2, b3, b4, b5, S, F, P, B
<1>13. /\ m \in LedgerRecords /\ m.balance = b1 /\ m.savings_balance = l.savings_balance
       /\ m.reward_blurt_balance = b2 /\ m.vesting_shares = b3
       /\ m.reward_vesting_blurt = b5 /\ m.reward_vesting_balance = b4
       /\ m.total_vesting_fund_blurt = F + c /\ m.total_vesting_shares = S + v
       /\ m.pending_rewarded_vesting_shares = P - v
       /\ m.pending_rewarded_vesting_blurt = B - c
       /\ m.reward_balance = l.reward_balance /\ m.current_supply = l.current_supply
       /\ m.unbacked = l.unbacked
  <2>1. /\ l \in LedgerRecords /\ l.savings_balance \in PerAccount
        /\ l.current_supply \in Nat
    BY SoundTypes DEF Sound, PerAccount
  <2>2. /\ b1 \in PerAccount /\ b2 \in PerAccount /\ b3 \in PerAccount
        /\ b4 \in PerAccount /\ b5 \in PerAccount
    BY <1>6, <1>7, <1>8, <1>9, <1>10 DEF PerAccount
  <2> DEFINE n1 == S + v
             n2 == F + c
             n3 == P - v
             n4 == B - c
             b6 == l.savings_balance
             n5 == l.current_supply
  <2>3. /\ n1 \in Nat /\ n2 \in Nat /\ n3 \in Nat /\ n4 \in Nat /\ n5 \in Nat
        /\ b6 \in PerAccount
    BY <1>5, <2>1
  <2>4. m = Contents(l, b1, b2, b3, b4, b5, b6, n1, n2, n3, n4, n5)
    BY <1>12 DEF Contents
  <2> HIDE DEF n1, n2, n3, n4, n5, b6
  <2>5. HasContents(m, l, b1, b2, b3, b4, b5, b6, n1, n2, n3, n4, n5)
    <3>1. HasContents(Contents(l, b1, b2, b3, b4, b5, b6, n1, n2, n3, n4, n5),
                      l, b1, b2, b3, b4, b5, b6, n1, n2, n3, n4, n5)
      BY <2>1, <2>2, <2>3, Updated
    <3> QED BY <2>4, <3>1
  <2> QED BY <2>5 DEF HasContents, n1, n2, n3, n4, n5, b6
<1>14. Sound(m)
  <2>1. S + v # 0 => F + c # 0
    <3>1. S = 0 => v = 0
      BY <1>1, <1>2, <1>4 DEF S, P
    <3> QED BY <1>1, <1>3, <3>1
  <2>2. P - v = Total(b4) /\ B - c = Total(b5) + l.unbacked
    <3>1. P = Total(l.reward_vesting_balance) /\ Total(l.reward_vesting_blurt) \in Nat
      BY SoundTotals DEF Sound, P
    <3> QED BY <1>1, <1>3, <1>4, <1>9, <1>10, <3>1
  <2> QED BY <1>11, <1>13, <2>1, <2>2 DEF Sound
<1>15. Owned(m) = Owned(l) + 0
  <2>1. /\ Total(l.balance) \in Nat /\ Total(l.savings_balance) \in Nat
        /\ Total(l.reward_blurt_balance) \in Nat /\ l.reward_balance \in Nat
        /\ l.current_supply \in Nat
    BY SoundTotals, SoundTypes
  <2> QED BY <1>1, <1>3, <1>6, <1>7, <1>13, <2>1 DEF Owned, F, B
<1>16. Gap(m) = Gap(l) + 0
  BY <1>1, <1>8, <1>13, SoundTotals DEF Gap, S
<1>17. ASSUME m.pending_rewarded_vesting_shares >= P PROVE Keeps(l, m)
  <2>1. v = 0 /\ c = 0
    BY <1>1, <1>3, <1>13, <1>17
  <2> QED BY <1>1, <1>13, <2>1 DEF Keeps, S, F
<1> QED BY <1>14, <1>15, <1>16, <1>17 DEF Becomes, P

\* Rewards become balance and shares, while somebody else has shares or nobody
\* has a reward.
LEMMA ClaimStep ==
  ASSUME Good, NeverAbandoned, NEW a \in Users, NEW rb \in Nat, NEW v \in Nat,
         claim_reward_balance(a, rb, v)
  PROVE  Good' /\ Worth
<1>1. /\ Sound(ledger) /\ a \in Accounts /\ UNCHANGED <<objectVars, uncredited>>
      /\ rb <= ledger.reward_blurt_balance[a] /\ v <= ledger.reward_vesting_balance[a]
      /\ ledger.total_vesting_shares = 0 => ledger.pending_rewarded_vesting_shares = 0
  BY DEF Good, claim_reward_balance, Accounts, NeverAbandoned
<1> DEFINE c == Part(v, ledger.reward_vesting_blurt[a], ledger.reward_vesting_balance[a])
<1>2. ledger' = WithClaim(ledger, a, rb, v, c)
  BY DEF claim_reward_balance, Part, WithClaim
<1> HIDE DEF c
<1>3. /\ Becomes(ledger, ledger', 0, 0)
      /\ ledger'.pending_rewarded_vesting_shares >= ledger.pending_rewarded_vesting_shares
           => Keeps(ledger, ledger')
  BY <1>1, <1>2, Claimed, Zenon DEF c
<1> QED BY <1>1, <1>3, GoodLedger DEF Worth

----------------------------------------------------------------------------
(***************************************************************************)
(* What every block does.                                                  *)
(***************************************************************************)

\* One account's entry becomes zero.
LEMMA Emptied ==
  ASSUME NEW d, d \in [Accounts -> Nat], NEW a \in Accounts
  PROVE  /\ [d EXCEPT ![a] = 0] \in [Accounts -> Nat] /\ d[a] \in Nat /\ Total(d) \in Nat
         /\ Total([d EXCEPT ![a] = 0]) = Total(d) - d[a] /\ d[a] <= Total(d)
<1> DEFINE e == [d EXCEPT ![a] = 0]
<1>1. /\ e \in [Accounts -> Nat] /\ e[a] = 0 /\ d[a] \in Nat
      /\ \A x \in Accounts \ {a} : e[x] = d[x]
  OBVIOUS
<1> HIDE DEF e
<1>2. Total(e) = Total(d) + (e[a] - d[a]) /\ Total(d) \in Nat /\ d[a] <= Total(d)
  BY <1>1, TotalChange, TotalNat, AccountsFinite
<1>3. Total(e) = Total(d) - d[a]
  BY <1>1, <1>2
<1> QED BY <1>1, <1>2, <1>3 DEF e

\* A ledger without what the null account holds, its shares being worth value.
Cleared(l, value, total) ==
  Contents(l, [l.balance EXCEPT ![Null] = 0], [l.reward_blurt_balance EXCEPT ![Null] = 0],
           [l.vesting_shares EXCEPT ![Null] = 0], [l.reward_vesting_balance EXCEPT ![Null] = 0],
           [l.reward_vesting_blurt EXCEPT ![Null] = 0], [l.savings_balance EXCEPT ![Null] = 0],
           l.total_vesting_shares - l.vesting_shares[Null],
           l.total_vesting_fund_blurt - value,
           l.pending_rewarded_vesting_shares - l.reward_vesting_balance[Null],
           l.pending_rewarded_vesting_blurt - l.reward_vesting_blurt[Null],
           l.current_supply - total)

\* What burning does to the ledger, as far as the supply counts all there is.
LEMMA Burned ==
  ASSUME NEW l, Sound(l), Gap(l) = 0, Owned(l) <= 0,
         NEW value, value = ToBlurt(l.vesting_shares[Null], get_vesting_share_price(l)),
         NEW total, total = l.balance[Null] + l.savings_balance[Null] + value
                            + l.reward_blurt_balance[Null] + l.reward_vesting_blurt[Null],
         NEW m, m = Cleared(l, value, total)
  PROVE  Becomes(l, m, 0, 0) /\ Keeps(l, m)
<1> DEFINE S == l.total_vesting_shares
           F == l.total_vesting_fund_blurt
           P == l.pending_rewarded_vesting_shares
           B == l.pending_rewarded_vesting_blurt
           sh == l.vesting_shares[Null]
           b1 == [l.balance EXCEPT ![Null] = 0]
           b2 == [l.reward_blurt_balance EXCEPT ![Null] = 0]
           b3 == [l.vesting_shares EXCEPT ![Null] = 0]
           b4 == [l.reward_vesting_balance EXCEPT ![Null] = 0]
           b5 == [l.reward_vesting_blurt EXCEPT ![Null] = 0]
           b6 == [l.savings_balance EXCEPT ![Null] = 0]
           n1 == S - sh
           n2 == F - value
           n3 == P - l.reward_vesting_balance[Null]
           n4 == B - l.reward_vesting_blurt[Null]
           n5 == l.current_supply - total
<1>1. /\ l.balance \in [Accounts -> Nat] /\ l.reward_blurt_balance \in [Accounts -> Nat]
      /\ l.vesting_shares \in [Accounts -> Nat] /\ l.reward_vesting_balance \in [Accounts -> Nat]
      /\ l.reward_vesting_blurt \in [Accounts -> Nat] /\ l.savings_balance \in [Accounts -> Nat]
      /\ S \in Nat /\ F \in Nat /\ P \in Nat /\ B \in Nat /\ (S # 0 => F # 0)
      /\ l.unbacked \in Nat /\ l.current_supply \in Nat /\ l.reward_balance \in Nat
      /\ Null \in Accounts /\ l \in LedgerRecords
      /\ P = Total(l.reward_vesting_balance)
      /\ B = Total(l.reward_vesting_blurt) + l.unbacked
  BY SoundTypes DEF Sound, Accounts
<1>2. /\ b1 \in PerAccount /\ l.balance[Null] \in Nat /\ Total(l.balance) \in Nat
      /\ Total(b1) = Total(l.balance) - l.balance[Null] /\ l.balance[Null] <= Total(l.balance)
  BY <1>1, Emptied DEF PerAccount
<1>3. /\ b2 \in PerAccount /\ l.reward_blurt_balance[Null] \in Nat
      /\ Total(l.reward_blurt_balance) \in Nat
      /\ Total(b2) = Total(l.reward_blurt_balance) - l.reward_blurt_balance[Null]
      /\ l.reward_blurt_balance[Null] <= Total(l.reward_blurt_balance)
  BY <1>1, Emptied DEF PerAccount
<1>4. /\ b3 \in PerAccount /\ sh \in Nat /\ Total(l.vesting_shares) \in Nat
      /\ Total(b3) = Total(l.vesting_shares) - sh /\ sh <= Total(l.vesting_shares)
  BY <1>1, Emptied DEF PerAccount
<1>5. /\ b4 \in PerAccount /\ l.reward_vesting_balance[Null] \in Nat
      /\ Total(b4) = P - l.reward_vesting_balance[Null] /\ l.reward_vesting_balance[Null] <= P
  BY <1>1, Emptied DEF PerAccount
<1>6. /\ b5 \in PerAccount /\ l.reward_vesting_blurt[Null] \in Nat
      /\ Total(l.reward_vesting_blurt) \in Nat
      /\ Total(b5) = Total(l.reward_vesting_blurt) - l.reward_vesting_blurt[Null]
      /\ l.reward_vesting_blurt[Null] <= Total(l.reward_vesting_blurt)
  BY <1>1, Emptied DEF PerAccount
<1>7. /\ b6 \in PerAccount /\ l.savings_balance[Null] \in Nat
      /\ Total(l.savings_balance) \in Nat
      /\ Total(b6) = Total(l.savings_balance) - l.savings_balance[Null]
      /\ l.savings_balance[Null] <= Total(l.savings_balance)
  BY <1>1, Emptied DEF PerAccount
<1>8. S = Total(l.vesting_shares) /\ sh <= S
  BY <1>1, <1>4 DEF Gap
<1>9. /\ value \in Nat /\ value <= F /\ (sh < S => value < F)
      /\ S > 0 => (F - value) * S >= F * (S - sh)
  <2> HIDE DEF sh
  <2>1. LET c == ToBlurt(sh, get_vesting_share_price(l))
        IN  /\ c \in Nat /\ c <= F /\ (sh < S => c < F)
            /\ S > 0 => (F - c) * S >= F * (S - sh)
    BY <1>4, <1>8, ShareValue
  <2> QED BY <2>1 DEF sh
<1>10. total \in Nat /\ total <= l.current_supply
  <2> DEFINE y1 == l.balance[Null]
             y2 == l.savings_balance[Null]
             y3 == l.reward_blurt_balance[Null]
             y4 == l.reward_vesting_blurt[Null]
             t1 == Total(l.balance)
             t2 == Total(l.savings_balance)
             t3 == Total(l.reward_blurt_balance)
             t4 == Total(l.reward_vesting_blurt)
             r == l.reward_balance
             u == l.unbacked
             c == l.current_supply
  <2>1. /\ y1 \in Nat /\ y2 \in Nat /\ y3 \in Nat /\ y4 \in Nat
        /\ t1 \in Nat /\ t2 \in Nat /\ t3 \in Nat /\ t4 \in Nat
        /\ y1 <= t1 /\ y2 <= t2 /\ y3 <= t3 /\ y4 <= t4
        /\ r \in Nat /\ u \in Nat /\ c \in Nat /\ B = t4 + u /\ F \in Nat /\ B \in Nat
        /\ value \in Nat /\ value <= F
        /\ total = y1 + y2 + value + y3 + y4
    BY <1>1, <1>2, <1>3, <1>6, <1>7, <1>9
  <2>2. t1 + t2 + t3 + r + F + B - u - c <= 0
    BY DEF Owned
  <2> HIDE DEF y1, y2, y3, y4, t1, t2, t3, t4, r, u, c, F, B
  <2>3. total \in Nat /\ total <= c
    BY <2>1, <2>2
  <2> QED BY <2>3 DEF c
<1>11. n1 \in Nat /\ n2 \in Nat /\ n3 \in Nat /\ n4 \in Nat /\ n5 \in Nat
  BY <1>1, <1>4, <1>5, <1>6, <1>8, <1>9, <1>10
<1>12. m = Contents(l, b1, b2, b3, b4, b5, b6, n1, n2, n3, n4, n5)
  BY DEF Cleared
<1>13. \A x \in Accounts : b4[x] = 0 => b5[x] = 0
  BY <1>1 DEF Sound
<1> HIDE DEF b1, b2, b3, b4, b5, b6, n1, n2, n3, n4, n5
<1>14. HasContents(m, l, b1, b2, b3, b4, b5, b6, n1, n2, n3, n4, n5)
  <2>1. HasContents(Contents(l, b1, b2, b3, b4, b5, b6, n1, n2, n3, n4, n5),
                    l, b1, b2, b3, b4, b5, b6, n1, n2, n3, n4, n5)
    BY <1>1, <1>2, <1>3, <1>4, <1>5, <1>6, <1>7, <1>11, Updated
  <2> QED BY <1>12, <2>1
<1>15. Sound(m)
  <2>1. n1 # 0 => n2 # 0
    BY <1>1, <1>4, <1>8, <1>9 DEF n1, n2
  <2>2. n3 = Total(b4) /\ n4 = Total(b5) + l.unbacked
    BY <1>1, <1>5, <1>6 DEF n3, n4
  <2> QED BY <1>13, <1>14, <2>1, <2>2 DEF Sound, HasContents
<1>16. Owned(m) = Owned(l) + 0
  <2>1. Owned(m) = Total(b1) + Total(b6) + Total(b2) + l.reward_balance + n2 + n4
                   - l.unbacked - n5
    BY <1>14 DEF Owned, HasContents
  <2>2. Owned(l) = Total(l.balance) + Total(l.savings_balance) + Total(l.reward_blurt_balance)
                   + l.reward_balance + F + B - l.unbacked - l.current_supply
    BY DEF Owned
  <2> QED BY <1>1, <1>2, <1>3, <1>6, <1>7, <1>9, <1>10, <2>1, <2>2 DEF n2, n4, n5
<1>17. Gap(m) = Gap(l) + 0
  <2>1. Gap(m) = Total(b3) - n1
    BY <1>14 DEF Gap, HasContents
  <2> QED BY <1>1, <1>4, <1>8, <2>1 DEF n1
<1>18. Keeps(l, m)
  <2>1. m.total_vesting_shares = S - sh /\ m.total_vesting_fund_blurt = F - value
    BY <1>14 DEF HasContents, n1, n2
  <2> QED BY <1>9, <2>1 DEF Keeps
<1> QED BY <1>15, <1>16, <1>17, <1>18 DEF Becomes

\* All that the null account holds is burned.
LEMMA BurnStep ==
  ASSUME Good, clear_null_account_balance
  PROVE  Good' /\ Worth
<1> DEFINE l == ledger
           value == ToBlurt(l.vesting_shares[Null], get_vesting_share_price(l))
           total == l.balance[Null] + l.savings_balance[Null] + value
                    + l.reward_blurt_balance[Null] + l.reward_vesting_blurt[Null]
<1>1. /\ Sound(l) /\ Gap(l) = 0 /\ Null \in Accounts /\ UNCHANGED <<objectVars, uncredited>>
  BY DEF Good, Accounts, clear_null_account_balance
<1>2. Owned(l) <= 0
  <2>1. /\ Owned(l) \in Int /\ Held(escrow) \in Nat /\ Asked(requests) \in Nat
        /\ uncredited \in Nat /\ Owned(l) + Held(escrow) + Asked(requests) + uncredited = 0
    BY <1>1, SoundTotals, HeldNat, AskedNat DEF Good
  <2> DEFINE o == Owned(l)
             h == Held(escrow)
             k == Asked(requests)
  <2>2. o \in Int /\ h \in Nat /\ k \in Nat /\ uncredited \in Nat /\ o + h + k + uncredited = 0
    BY <2>1
  <2> HIDE DEF o, h, k, l
  <2>3. o <= 0
    BY <2>2
  <2> QED BY <2>3 DEF o
<1>3. ledger' = Cleared(l, value, total)
  <2> DEFINE backing == IF l.reward_vesting_balance[Null] > 0
                        THEN l.reward_vesting_blurt[Null] ELSE 0
             all == l.balance[Null] + l.savings_balance[Null] + value
                    + l.reward_blurt_balance[Null] + backing
  <2>1. /\ l.reward_vesting_balance \in [Accounts -> Nat]
        /\ l.reward_vesting_blurt \in [Accounts -> Nat] /\ l \in LedgerRecords
    BY <1>1, SoundTypes DEF Sound
  <2>2. backing = l.reward_vesting_blurt[Null]
    BY <1>1, <2>1 DEF Sound
  <2>3. [l.reward_vesting_blurt EXCEPT ![Null] = @ - backing]
          = [l.reward_vesting_blurt EXCEPT ![Null] = 0]
    <3>1. l.reward_vesting_blurt[Null] - backing = 0
      BY <1>1, <2>1, <2>2
    <3> HIDE DEF backing
    <3> QED BY <3>1
  <2>4. ledger' = [l EXCEPT
          !.balance[Null] = 0,
          !.savings_balance[Null] = 0,
          !.vesting_shares[Null] = 0,
          !.reward_blurt_balance[Null] = 0,
          !.reward_vesting_balance[Null] = 0,
          !.reward_vesting_blurt[Null] = @ - backing,
          !.total_vesting_shares = @ - l.vesting_shares[Null],
          !.total_vesting_fund_blurt = @ - value,
          !.pending_rewarded_vesting_shares = @ - l.reward_vesting_balance[Null],
          !.pending_rewarded_vesting_blurt = @ - backing,
          !.current_supply = @ - all]
    BY DEF clear_null_account_balance
  <2>5. all = total
    BY <2>2
  <2>6. l \in LedgerRecords
    BY <2>1
  <2> HIDE DEF backing, all, total, value, l
  <2> QED BY ZenonT(90), <2>2, <2>3, <2>4, <2>5, <2>6 DEF Cleared, Contents, LedgerRecords
<1> HIDE DEF total, value, l
<1>4. Becomes(l, ledger', 0, 0) /\ Keeps(l, ledger')
  BY <1>1, <1>2, <1>3, Burned DEF total, value
<1> QED BY <1>1, <1>4, GoodLedger DEF Worth, l

\* Three parts of t, each rounded down, that are together no more than t.
LEMMA ThreeParts ==
  ASSUME NEW t \in Nat, NEW D \in Nat \ {0}, NEW p1 \in Nat, NEW p2 \in Nat, NEW p3 \in Nat,
         p1 + p2 + p3 <= D
  PROVE  /\ (t * p1) \div D \in Nat /\ (t * p2) \div D \in Nat /\ (t * p3) \div D \in Nat
         /\ t - (t * p1) \div D - (t * p2) \div D - (t * p3) \div D \in Nat
<1> DEFINE e1 == (t * p1) \div D
           e2 == (t * p2) \div D
           e3 == (t * p3) \div D
<1>1. t * p1 \in Nat /\ t * p2 \in Nat /\ t * p3 \in Nat
  OBVIOUS
<1>2. /\ e1 \in Nat /\ D * e1 <= t * p1 /\ e2 \in Nat /\ D * e2 <= t * p2
      /\ e3 \in Nat /\ D * e3 <= t * p3
  BY <1>1, Floor
<1> HIDE DEF e1, e2, e3
<1>3. D * (e1 + e2 + e3) <= t * (p1 + p2 + p3)
  <2>1. D * (e1 + e2 + e3) = D * e1 + D * e2 + D * e3
    BY <1>2
  <2>2. t * (p1 + p2 + p3) = t * p1 + t * p2 + t * p3
    OBVIOUS
  <2>3. D * e1 \in Nat /\ D * e2 \in Nat /\ D * e3 \in Nat
    BY <1>2
  <2> QED BY <1>1, <1>2, <2>1, <2>2, <2>3
<1>4. t * (p1 + p2 + p3) <= t * D
  <2>1. ASSUME NEW x \in Nat, x <= D PROVE t * x <= t * D
    <3>1. D - x \in Nat /\ t * D = t * x + t * (D - x)
      BY <2>1
    <3>2. t * (D - x) \in Nat /\ t * x \in Nat
      BY <3>1
    <3> QED BY <3>1, <3>2
  <2>2. p1 + p2 + p3 \in Nat
    OBVIOUS
  <2> QED BY <2>1, <2>2
<1>5. e1 + e2 + e3 <= t
  <2>1. ASSUME NEW x \in Nat, D * x <= t * D PROVE x <= t
    BY <2>1
  <2>2. e1 + e2 + e3 \in Nat /\ D * (e1 + e2 + e3) \in Nat /\ t * (p1 + p2 + p3) \in Nat
        /\ t * D \in Nat
    BY <1>2
  <2>3. D * (e1 + e2 + e3) <= t * D
    BY <1>3, <1>4, <2>2
  <2> QED BY <2>1, <2>2, <2>3
<1>6. t - e1 - e2 - e3 \in Nat
  BY <1>2, <1>5
<1> QED BY <1>2, <1>6 DEF e1, e2, e3

\* New BLURT for the reward fund and the vesting fund, and s of it altogether.
Funded(l, c, v, s) ==
  [l EXCEPT !.reward_balance = @ + c, !.total_vesting_fund_blurt = @ + v,
            !.current_supply = @ + s]

\* What that does to the ledger.
LEMMA FundsAdded ==
  ASSUME NEW l, Sound(l), NEW c \in Nat, NEW v \in Nat, NEW s \in Nat
  PROVE  LET m == Funded(l, c, v, s)
         IN  /\ Becomes(l, m, c + v - s, 0) /\ Keeps(l, m)
             /\ m.total_vesting_shares = l.total_vesting_shares
<1> DEFINE m == Funded(l, c, v, s)
<1> DEFINE R == l.reward_balance
           F == l.total_vesting_fund_blurt
           C == l.current_supply
           S == l.total_vesting_shares
<1>1. R \in Nat /\ F \in Nat /\ C \in Nat /\ S \in Nat /\ (S # 0 => F # 0)
  BY SoundTypes DEF Sound
<1>2. /\ m \in LedgerRecords /\ m.balance = l.balance
      /\ m.vesting_shares = l.vesting_shares /\ m.savings_balance = l.savings_balance
      /\ m.reward_blurt_balance = l.reward_blurt_balance
      /\ m.reward_vesting_blurt = l.reward_vesting_blurt
      /\ m.reward_vesting_balance = l.reward_vesting_balance
      /\ m.total_vesting_fund_blurt = F + v
      /\ m.total_vesting_shares = S
      /\ m.pending_rewarded_vesting_shares = l.pending_rewarded_vesting_shares
      /\ m.pending_rewarded_vesting_blurt = l.pending_rewarded_vesting_blurt
      /\ m.reward_balance = R + c /\ m.current_supply = C + s
      /\ m.unbacked = l.unbacked
  <2> DEFINE r2 == R + c
             f2 == F + v
             c2 == C + s
  <2>1. r2 \in Nat /\ f2 \in Nat /\ c2 \in Nat
    BY <1>1
  <2>2. m = [l EXCEPT !.reward_balance = r2, !.total_vesting_fund_blurt = f2,
                      !.current_supply = c2]
    BY DEF Funded, Sound, LedgerRecords
  <2> HIDE DEF r2, f2, c2
  <2>3. /\ m \in LedgerRecords /\ m.balance = l.balance
        /\ m.vesting_shares = l.vesting_shares /\ m.savings_balance = l.savings_balance
        /\ m.reward_blurt_balance = l.reward_blurt_balance
        /\ m.reward_vesting_blurt = l.reward_vesting_blurt
        /\ m.reward_vesting_balance = l.reward_vesting_balance
        /\ m.total_vesting_fund_blurt = f2
        /\ m.total_vesting_shares = S
        /\ m.pending_rewarded_vesting_shares = l.pending_rewarded_vesting_shares
        /\ m.pending_rewarded_vesting_blurt = l.pending_rewarded_vesting_blurt
        /\ m.reward_balance = r2 /\ m.current_supply = c2
        /\ m.unbacked = l.unbacked
    BY ZenonT(60), <2>1, <2>2 DEF Sound, LedgerRecords
  <2> QED BY <2>3 DEF r2, f2, c2
<1>3. Sound(m)
  <2>1. S # 0 => F + v # 0
    BY <1>1
  <2> QED BY <1>2, <2>1 DEF Sound
<1>4. Owned(m) = Owned(l) + (c + v - s)
  BY <1>1, <1>2, SoundTotals, SoundTypes DEF Owned
<1>5. Gap(m) = Gap(l) + 0
  BY <1>2, SoundTotals DEF Gap
<1>6. Keeps(l, m)
  <2>1. (F + v) * S >= F * S
    <3>1. (F + v) * S = F * S + v * S /\ v * S \in Nat /\ F * S \in Nat
      BY <1>1
    <3> QED BY <3>1
  <2> QED BY <1>2, <2>1 DEF Keeps
<1> QED BY <1>2, <1>3, <1>4, <1>5, <1>6 DEF Becomes

\* Inflation.
LEMMA FundsStep ==
  ASSUME Good, NEW new \in Nat, NEW producer \in Users, NEW weight \in Nat,
         process_funds(new, producer, weight)
  PROVE  Good' /\ Worth
<1> DEFINE content == (new * ContentPercent) \div Full
           vesting == (new * VestingPercent) \div Full
           sps == (new * SpsPercent) \div Full
           rest == new - content - vesting - sps
           pay == (rest * MaxWitnesses * weight) \div Normalization
           j == adjust_balance(ledger, Treasury, sps)
           minted == content + vesting + pay + sps
           k == Funded(j, content, vesting, minted)
<1>1. content \in Nat /\ vesting \in Nat /\ sps \in Nat /\ rest \in Nat
  BY LedgerAssumption, ThreeParts
<1>2. pay \in Nat
  <2> HIDE DEF rest
  <2>1. rest * MaxWitnesses \in Nat
    BY <1>1, LedgerAssumption
  <2>2. rest * MaxWitnesses * weight \in Nat
    <3>1. ASSUME NEW x \in Nat PROVE x * weight \in Nat
      OBVIOUS
    <3> QED BY <2>1, <3>1
  <2> QED BY <2>2, LedgerAssumption, Floor
<1>3. /\ Sound(ledger) /\ Treasury \in Accounts /\ producer \in Accounts
      /\ UNCHANGED <<objectVars, uncredited>>
  BY DEF Good, Accounts, process_funds
<1>4. ledger' = AtOnce([j EXCEPT !.reward_balance = @ + content,
                                 !.total_vesting_fund_blurt = @ + vesting,
                                 !.current_supply = @ + content + vesting + pay + sps],
                       producer, pay)
  BY DEF process_funds, AtOnce
<1> HIDE DEF content, vesting, sps, rest, pay, j
<1>5. ledger.balance \in [Accounts -> Nat] /\ ledger.balance[Treasury] + sps >= 0 /\ sps \in Int
  BY <1>1, <1>3, SoundTypes
<1>6. Becomes(ledger, j, sps, 0) /\ SameFund(ledger, j)
  BY <1>3, <1>5, AdjustBalance DEF j
<1>7. Sound(j)
  BY <1>6 DEF Becomes
<1>8. minted \in Nat /\ content + vesting - minted \in Int
  BY <1>1, <1>2
<1>9. ledger' = AtOnce(k, producer, pay)
  <2>1. j.current_supply \in Nat
    BY <1>7, SoundTypes
  <2>2. j.current_supply + content + vesting + pay + sps = j.current_supply + minted
    BY <1>1, <1>2, <2>1
  <2>3. [j EXCEPT !.reward_balance = @ + content,
                  !.total_vesting_fund_blurt = @ + vesting,
                  !.current_supply = @ + content + vesting + pay + sps] = k
    <3> HIDE DEF minted
    <3> QED BY <1>7, <2>2 DEF Funded, Sound, LedgerRecords
  <2> QED BY <1>4, <2>3
<1> HIDE DEF minted, k
<1> DEFINE more == content + vesting - minted
<1>16. more = content + vesting - minted /\ more \in Int
  BY <1>8
<1> HIDE DEF more
<1>10. /\ Becomes(j, k, more, 0) /\ Keeps(j, k)
       /\ k.total_vesting_shares = j.total_vesting_shares
  <2>1. content \in Nat /\ vesting \in Nat /\ minted \in Nat
    BY <1>1, <1>8
  <2>2. Keeps(j, Funded(j, content, vesting, minted))
    BY <1>7, <2>1, FundsAdded
  <2>3. Becomes(j, Funded(j, content, vesting, minted), content + vesting - minted, 0)
    BY <1>7, <2>1, FundsAdded, Zenon
  <2>4. Funded(j, content, vesting, minted).total_vesting_shares = j.total_vesting_shares
    BY <1>7, <2>1, FundsAdded
  <2> QED BY <1>16, <2>2, <2>3, <2>4 DEF k
<1>11. Sound(k)
  BY <1>10 DEF Becomes
<1>12. Becomes(k, ledger', pay, 0) /\ Keeps(k, ledger')
  BY <1>2, <1>3, <1>9, <1>11, CreateVesting
<1>13. Sound(ledger')
  BY <1>12 DEF Becomes
<1>14. Becomes(ledger, ledger', 0, 0)
  <2>1. more \in Int /\ pay \in Int /\ sps + more \in Int /\ 0 + 0 = 0 /\ sps + more + pay = 0
    BY <1>1, <1>2, <1>5, <1>16 DEF minted
  <2>3. Becomes(ledger, k, sps + more, 0 + 0)
    BY <1>3, <1>5, <1>6, <1>10, <2>1, BecomesTrans
  <2>4. Becomes(ledger, k, sps + more, 0)
    BY <2>1, <2>3
  <2> DEFINE q == sps + more
  <2>5. q \in Int /\ q + pay = 0 /\ Becomes(ledger, k, q, 0)
    BY <2>1, <2>4
  <2> HIDE DEF q
  <2>6. Becomes(ledger, ledger', q + pay, 0 + 0)
    BY <1>3, <1>12, <2>1, <2>5, BecomesTrans
  <2> QED BY <2>1, <2>5, <2>6
<1>15. Keeps(ledger, ledger')
  <2>1. Keeps(ledger, j)
    BY <1>3, <1>6, KeepsSame
  <2>2. j.total_vesting_shares = ledger.total_vesting_shares
    BY <1>6 DEF SameFund
  <2>3. Keeps(ledger, k)
    BY <1>3, <1>7, <1>10, <1>11, <2>1, <2>2, KeepsTrans
  <2> QED BY <1>3, <1>10, <1>11, <1>12, <1>13, <2>2, <2>3, KeepsTrans
<1> QED BY <1>3, <1>14, <1>15, GoodLedger DEF Worth

\* BLURT leaves the reward fund.
Drawn(l, n) == [l EXCEPT !.reward_balance = @ - n]

\* What that does to the ledger.
LEMMA PoolDrawn ==
  ASSUME NEW l, Sound(l), NEW n \in Nat, n <= l.reward_balance, NEW m, m = Drawn(l, n)
  PROVE  Becomes(l, m, -n, 0) /\ SameFund(l, m)
<1> DEFINE r == l.reward_balance - n
<1>1. r \in Nat /\ l.reward_balance \in Nat
  BY SoundTypes
<1>2. m = [l EXCEPT !.reward_balance = r]
  BY DEF Drawn, Sound, LedgerRecords
<1> HIDE DEF r
<1>3. /\ m \in LedgerRecords /\ m.balance = l.balance
      /\ m.vesting_shares = l.vesting_shares /\ m.savings_balance = l.savings_balance
      /\ m.reward_blurt_balance = l.reward_blurt_balance
      /\ m.reward_vesting_blurt = l.reward_vesting_blurt
      /\ m.reward_vesting_balance = l.reward_vesting_balance
      /\ m.total_vesting_fund_blurt = l.total_vesting_fund_blurt
      /\ m.total_vesting_shares = l.total_vesting_shares
      /\ m.pending_rewarded_vesting_shares = l.pending_rewarded_vesting_shares
      /\ m.pending_rewarded_vesting_blurt = l.pending_rewarded_vesting_blurt
      /\ m.reward_balance = r /\ m.current_supply = l.current_supply
      /\ m.unbacked = l.unbacked
  BY <1>1, <1>2 DEF Sound, LedgerRecords
<1>4. Sound(m)
  BY <1>3 DEF Sound
<1>5. Owned(m) = Owned(l) + (-n)
  BY <1>1, <1>3, SoundTotals, SoundTypes DEF Owned, r
<1>6. Gap(m) = Gap(l) + 0
  BY <1>3, SoundTotals DEF Gap
<1> QED BY <1>3, <1>4, <1>5, <1>6 DEF Becomes, SameFund

\* A part of t, rounded down.
LEMMA OnePart ==
  ASSUME NEW t \in Nat, NEW p \in Nat, NEW D \in Nat \ {0}, p <= D
  PROVE  (t * p) \div D \in Nat /\ (t * p) \div D <= t /\ t - (t * p) \div D \in Nat
<1> DEFINE e == (t * p) \div D
<1>1. t * p \in Nat
  OBVIOUS
<1>2. e \in Nat /\ D * e <= t * p
  BY <1>1, Floor
<1> HIDE DEF e
<1>3. t * p <= t * D
  <2>1. D - p \in Nat /\ t * D = t * p + t * (D - p)
    OBVIOUS
  <2>2. t * (D - p) \in Nat
    BY <2>1
  <2> QED BY <1>1, <2>1, <2>2
<1>4. e <= t
  <2>1. D * e <= t * D
    BY <1>1, <1>2, <1>3
  <2> QED BY <1>2, <2>1
<1> QED BY <1>2, <1>4 DEF e

\* What the voters of a comment claim is no more than max_rewards, and nothing
\* but what those get whose claim is positive.
LEMMA ClaimsFit ==
  ASSUME NEW c \in Comments, NEW t \in Nat, NEW d, d = [v \in Users |-> Claim(c, t, v)],
         NEW V, V = {v \in Users : Claim(c, t, v) > 0}
  PROVE  /\ d \in [Users -> Nat] /\ Total(d) \in Nat /\ Total(d) <= t
         /\ Sum(d, V) = Total(d)
<1>1. /\ IsFiniteSet(Users) /\ c.weights \in [Users -> Nat] /\ c.total_vote_weight \in Nat
      /\ Total(c.weights) <= c.total_vote_weight
  BY LedgerAssumption, CommentAssumption
<1>2. d \in [Users -> Nat] /\ Total(d) \in Nat /\ Total(d) <= t
  <2>1. CASE c.total_vote_weight = 0
    <3>1. d \in [Users -> Nat] /\ \A v \in Users : d[v] = 0
      BY <2>1 DEF Claim
    <3>2. Sum(d, Users) = 0 /\ Total(d) = Sum(d, Users)
      BY <1>1, <3>1, SumZero, TotalNat
    <3> QED BY <3>1, <3>2
  <2>2. CASE c.total_vote_weight # 0
    <3> DEFINE w == c.weights
               D == c.total_vote_weight
    <3>1. d = [v \in Users |-> (t * w[v]) \div D]
      BY <2>2 DEF Claim
    <3>2. w \in [Users -> Nat] /\ D \in Nat \ {0} /\ Total(w) <= D
      BY <1>1, <2>2
    <3> HIDE DEF w, D
    <3> QED BY <1>1, <3>1, <3>2, PartsFit
  <2> QED BY <2>1, <2>2
<1>3. Sum(d, V) = Total(d)
  <2>1. V \in SUBSET Users /\ \A v \in Users : d[v] \in Int
    BY <1>2
  <2>2. Sum(d, Users) = Sum(d, V) + Sum(d, Users \ V)
    BY <1>1, <2>1, SumUnion
  <2>3. Sum(d, Users \ V) = 0
    <3>1. \A v \in Users \ V : d[v] = 0
      <4>1. ASSUME NEW v \in Users, v \notin V PROVE d[v] = 0
        <5>1. d[v] \in Nat /\ d[v] = Claim(c, t, v) /\ ~(Claim(c, t, v) > 0)
          BY <1>2, <4>1
        <5> QED BY <5>1
      <4> QED BY <4>1
    <3>2. IsFiniteSet(Users \ V)
      BY <1>1, FS_Subset
    <3> QED BY <3>1, <3>2, SumZero
  <2>4. IsFiniteSet(V) /\ Total(d) = Sum(d, Users)
    BY <1>1, <1>2, <2>1, TotalNat, FS_Subset
  <2>5. Sum(d, V) \in Int
    BY <2>1, <2>4, SumInt
  <2> QED BY <2>2, <2>3, <2>4, <2>5
<1> QED BY <1>2, <1>3

\* l becomes m by paying out n BLURT in rewards.
PaysOut(l, m, n) ==
  /\ Becomes(l, m, n, 0) /\ SamePool(l, m)
  /\ m.total_vesting_shares = l.total_vesting_shares
  /\ m.total_vesting_fund_blurt = l.total_vesting_fund_blurt

\* Two payouts.
LEMMA PaysOutTrans ==
  ASSUME NEW l, Sound(l), NEW m, NEW k, NEW n \in Nat, NEW n2 \in Nat,
         PaysOut(l, m, n), PaysOut(m, k, n2)
  PROVE  PaysOut(l, k, n + n2)
<1>1. Becomes(l, m, n, 0) /\ Becomes(m, k, n2, 0) /\ n \in Int /\ n2 \in Int /\ 0 \in Int
  BY DEF PaysOut
<1>2. Becomes(l, k, n + n2, 0 + 0)
  BY <1>1, BecomesTrans
<1>3. Becomes(l, k, n + n2, 0)
  <2>1. 0 + 0 = 0
    OBVIOUS
  <2> QED BY <1>2, <2>1
<1> QED BY <1>3 DEF PaysOut, SamePool

\* The payouts to curators and beneficiaries.
LEMMA CommentPaid ==
  ASSUME NEW l, Sound(l), NEW c \in Comments, NEW t \in Nat, NEW at \in Nat,
         NEW curation, curation = Total([v \in Users |-> Claim(c, t, v)]),
         NEW e, e = Benefits(c, at), NEW k, k = Shared(pay_curators(l, c, t), c, at)
  PROVE  /\ curation \in Nat /\ curation <= t /\ Total(e) \in Nat /\ Total(e) <= at
         /\ PaysOut(l, k, curation + Total(e))
<1> DEFINE d == [v \in Users |-> Claim(c, t, v)]
           V == {v \in Users : Claim(c, t, v) > 0}
           j == pay_curators(l, c, t)
           w == c.beneficiaries
           D == DOMAIN c.beneficiaries
<1>1. /\ d \in [Users -> Nat] /\ Total(d) \in Nat /\ Total(d) <= t
      /\ Sum(d, V) = Total(d)
  <2> HIDE DEF d, V
  <2>1. d = [v \in Users |-> Claim(c, t, v)] /\ V = {v \in Users : Claim(c, t, v) > 0}
    BY DEF d, V
  <2> QED BY <2>1, ClaimsFit
<1>2. /\ V \in SUBSET Accounts /\ IsFiniteSet(V) /\ \A v \in V : d[v] \in Nat
      /\ \A v \in V : d[v] = Claim(c, t, v)
  <2>1. V \subseteq Users /\ Users \subseteq Accounts /\ IsFiniteSet(V)
    BY LedgerAssumption, FS_Subset DEF Accounts
  <2> QED BY <1>1, <2>1
<1>3. j = Fold("curator", d, l, V)
  <2> HIDE DEF d
  <2> QED BY <1>2, CuratorFold DEF pay_curators
<1> HIDE DEF d, V, j
<1>4. PaysOut(l, j, Total(d))
  <2>1. /\ Becomes(l, j, Sum(d, V), 0) /\ SamePool(l, j)
        /\ j.total_vesting_shares = l.total_vesting_shares
        /\ j.total_vesting_fund_blurt = l.total_vesting_fund_blurt
    BY <1>2, <1>3, AllPaid
  <2> QED BY <1>1, <2>1 DEF PaysOut
<1>5. /\ w \in [D -> Nat] /\ Total(w) <= Full /\ D \in SUBSET Accounts /\ IsFiniteSet(D)
      /\ Full \in Nat \ {0}
  BY CommentAssumption, LedgerAssumption, AccountsFinite, FS_Subset
<1>6. e \in [D -> Nat] /\ Total(e) \in Nat /\ Total(e) <= at
  <2>1. e = [b \in D |-> (at * w[b]) \div Full]
    BY DEF Benefits
  <2> HIDE DEF w, D
  <2> QED BY <1>5, <2>1, PartsFit
<1>7. Total(e) = Sum(e, D)
  <2> HIDE DEF D, w
  <2> QED BY <1>5, <1>6, TotalNat
<1>8. k = Fold("beneficiary", e, j, D)
  <2>1. k = Shared(j, c, at)
    BY DEF j
  <2>2. Shared(j, c, at) = Fold("beneficiary", Benefits(c, at), j, DOMAIN c.beneficiaries)
    BY <1>5, BeneficiaryFold
  <2> QED BY <2>1, <2>2
<1> HIDE DEF w, D
<1>9. Sound(j)
  BY <1>4 DEF PaysOut, Becomes
<1>10. PaysOut(j, k, Total(e))
  <2>1. \A x \in D : e[x] \in Nat
    BY <1>6
  <2>2. /\ Becomes(j, k, Sum(e, D), 0) /\ SamePool(j, k)
        /\ k.total_vesting_shares = j.total_vesting_shares
        /\ k.total_vesting_fund_blurt = j.total_vesting_fund_blurt
    BY <1>5, <1>8, <1>9, <2>1, AllPaid
  <2> QED BY <1>7, <2>2 DEF PaysOut
<1>11. curation = Total(d)
  BY DEF d
<1>12. PaysOut(l, k, Total(d) + Total(e))
  BY <1>1, <1>4, <1>6, <1>10, PaysOutTrans
<1> QED BY <1>1, <1>6, <1>11, <1>12

\* A comment is paid out.
LEMMA CashoutStep ==
  ASSUME Good, NEW c \in Comments, cashout_comment_helper(c)
  PROVE  Good' /\ Worth
<1> DEFINE t == (c.reward * CurationPercent) \div Full
           curation == Total([v \in Users |-> Claim(c, t, v)])
           at == c.reward - t
           e == Benefits(c, at)
           rest == at - Total(e)
           ab == (rest * c.percent_blurt) \div (4 * Full)
           k == Shared(pay_curators(ledger, c, t), c, at)
           r == AsReward(k, c.author, rest - ab)
<1>1. /\ Sound(ledger) /\ c.reward <= ledger.reward_balance /\ UNCHANGED objectVars
      /\ uncredited' = uncredited + ab
      /\ ledger' = Drawn(r, at + curation)
  BY DEF Good, cashout_comment_helper, AsReward, Drawn, Benefits, Shared
<1>2. /\ c.reward \in Nat /\ c.author \in Accounts /\ c.percent_blurt \in 0..Full
      /\ Full \in Nat \ {0} /\ CurationPercent \in 0..Full
  BY CommentAssumption, LedgerAssumption DEF Accounts
<1>3. t \in Nat /\ t <= c.reward /\ at \in Nat
  <2>1. CurationPercent \in Nat /\ CurationPercent <= Full
    BY <1>2
  <2> QED BY <1>2, <2>1, OnePart
<1>4. at + t = c.reward
  BY <1>2, <1>3
<1> HIDE DEF t, at
<1>5. /\ curation \in Nat /\ curation <= t /\ Total(e) \in Nat /\ Total(e) <= at
      /\ PaysOut(ledger, k, curation + Total(e))
  BY <1>1, <1>3, CommentPaid
<1> HIDE DEF curation, e, k
<1>6. rest \in Nat
  BY <1>3, <1>5
<1> HIDE DEF rest
<1>7. ab \in Nat /\ ab <= rest /\ rest - ab \in Nat
  <2>1. c.percent_blurt \in Nat /\ 4 * Full \in Nat \ {0} /\ c.percent_blurt <= 4 * Full
    BY <1>2
  <2> QED BY <1>6, <2>1, OnePart
<1> HIDE DEF ab
<1>8. Sound(k)
  BY <1>5 DEF PaysOut, Becomes
<1>9. PaysOut(k, r, rest - ab)
  BY <1>2, <1>7, <1>8, CreateReward DEF PaysOut
<1> DEFINE p == curation + Total(e)
           q == rest - ab
           n == at + curation
<1>10. p \in Nat /\ q \in Nat /\ n \in Nat /\ n <= c.reward
  BY <1>2, <1>3, <1>4, <1>5, <1>7
<1>11. p + q + (-n) = -ab /\ p + q \in Int /\ -n \in Int /\ -ab \in Int
  BY <1>3, <1>5, <1>6, <1>7 DEF rest
<1>12. PaysOut(ledger, k, p) /\ PaysOut(k, r, q) /\ ledger' = Drawn(r, n)
  BY <1>1, <1>5, <1>9
<1> HIDE DEF p, q, n, r
<1>13. PaysOut(ledger, r, p + q)
  BY <1>1, <1>10, <1>12, PaysOutTrans
<1>14. Sound(r) /\ n <= r.reward_balance
  <2>1. ledger.reward_balance \in Nat /\ r.reward_balance = ledger.reward_balance
    BY <1>1, <1>13, SoundTypes DEF PaysOut, SamePool
  <2> QED BY <1>1, <1>2, <1>10, <1>13, <2>1 DEF PaysOut, Becomes
<1>15. Becomes(r, ledger', -n, 0) /\ SameFund(r, ledger')
  BY <1>10, <1>12, <1>14, PoolDrawn
<1>16. Becomes(ledger, ledger', -ab, 0)
  <2> DEFINE z == p + q
             y == -n
  <2>1. /\ z \in Int /\ y \in Int /\ z + y = -ab /\ Becomes(ledger, r, z, 0)
        /\ Becomes(r, ledger', y, 0)
    BY <1>11, <1>13, <1>15 DEF PaysOut
  <2> HIDE DEF z, y
  <2>2. Becomes(ledger, ledger', z + y, 0 + 0)
    BY <1>1, <2>1, BecomesTrans
  <2>3. 0 + 0 = 0
    OBVIOUS
  <2> QED BY <2>1, <2>2, <2>3
<1>17. Good'
  <2> DEFINE o == -ab
  <2>1. o \in Int /\ o + ab = 0 /\ Becomes(ledger, ledger', o, 0)
    BY <1>7, <1>11, <1>16
  <2>2. /\ escrow' = escrow /\ requests' = requests /\ routes' = routes
        /\ uncredited \in Nat /\ uncredited' \in Nat
        /\ Held(escrow) \in Nat /\ Asked(requests) \in Nat
    BY <1>1, <1>7, HeldNat, AskedNat DEF objectVars, Good
  <2>3. Held(escrow') + Asked(requests') + uncredited' + o
          = Held(escrow) + Asked(requests) + uncredited
    BY <1>1, <1>7, <2>1, <2>2
  <2> HIDE DEF o
  <2> QED BY <2>1, <2>2, <2>3, GoodStep DEF Good
<1>18. Worth
  <2>1. SameFund(r, ledger') /\ Sound(ledger)
    BY <1>1, <1>15
  <2>2. /\ ledger'.total_vesting_shares = ledger.total_vesting_shares
        /\ ledger'.total_vesting_fund_blurt = ledger.total_vesting_fund_blurt
        /\ ledger.total_vesting_shares \in Nat /\ ledger.total_vesting_fund_blurt \in Nat
    BY <1>13, <2>1, SoundTypes DEF PaysOut, SameFund
  <2> QED BY <2>2 DEF Worth, Keeps
<1> QED BY <1>17, <1>18

\* What the routes of an account take of t is no more than t.
LEMMA DepositsFit ==
  ASSUME NEW r, DOMAIN r \subseteq Accounts, \A b \in DOMAIN r : r[b] \in Routes,
         Routed(r) <= Full, NEW t \in Nat, NEW A \in SUBSET DOMAIN r
  PROVE  LET d == Deposits(t, r)
             L == DOMAIN r \ A
         IN  /\ \A x \in DOMAIN r : d[x] \in Nat
             /\ IsFiniteSet(A) /\ IsFiniteSet(L)
             /\ Sum(d, A) \in Nat /\ Sum(d, L) \in Nat
             /\ Total(d) = Sum(d, A) + Sum(d, L) /\ Total(d) <= t
<1> DEFINE d == Deposits(t, r)
           D == DOMAIN r
           L == D \ A
           w == [a \in D |-> r[a].percent]
<1>1. IsFiniteSet(D) /\ IsFiniteSet(A) /\ IsFiniteSet(L)
  BY AccountsFinite, FS_Subset
<1>2. w \in [D -> Nat] /\ Total(w) <= Full /\ Full \in Nat \ {0}
  <2>1. w \in [D -> Nat]
    BY DEF Routes
  <2>2. Total(w) <= Full
    BY DEF Routed
  <2> QED BY <2>1, <2>2, LedgerAssumption
<1>3. d = [x \in D |-> (t * w[x]) \div Full]
  BY DEF Deposits
<1> HIDE DEF d, w, D, L
<1>4. d \in [D -> Nat] /\ Total(d) \in Nat /\ Total(d) <= t
  BY <1>1, <1>2, <1>3, PartsFit
<1>5. /\ A \in SUBSET D /\ L = D \ A /\ (\A x \in D : d[x] \in Int)
      /\ (\A x \in A : d[x] \in Nat) /\ (\A x \in L : d[x] \in Nat)
  BY <1>4 DEF D, L
<1>6. Total(d) = Sum(d, D)
  BY <1>1, <1>4, TotalNat
<1>7. Sum(d, D) = Sum(d, A) + Sum(d, L)
  BY <1>1, <1>5, SumUnion
<1>8. Sum(d, A) \in Nat /\ Sum(d, L) \in Nat
  BY <1>1, <1>5, SumNat
<1>9. /\ \A x \in D : d[x] \in Nat
      /\ IsFiniteSet(A) /\ IsFiniteSet(L)
      /\ Sum(d, A) \in Nat /\ Sum(d, L) \in Nat
      /\ Total(d) = Sum(d, A) + Sum(d, L) /\ Total(d) <= t
  BY <1>1, <1>4, <1>6, <1>7, <1>8
<1> QED BY <1>9 DEF d, D, L

\* A payment of a power-down.
LEMMA WithdrawStep ==
  ASSUME Good, NEW from \in Users, NEW t \in Nat, process_vesting_withdrawals(from, t)
  PROVE  Good' /\ Worth
<1> DEFINE r == routes[from]
           d == Deposits(t, r)
           A == {a \in DOMAIN r : r[a].auto_vest}
           L == DOMAIN r \ A
           j == HandedOn(ledger, t, r, A)
           k == PaidOn(j, t, r, L)
           tc == t - Total(d)
           m == RedeemVests(k, from, tc)
           sA == Sum(d, A)
           sL == Sum(d, L)
           S == ledger.total_vesting_shares
<1>1. /\ t <= ledger.vesting_shares[from] /\ UNCHANGED <<objectVars, uncredited>>
      /\ ledger' = [m EXCEPT !.vesting_shares[from] = @ - t]
  BY DEF process_vesting_withdrawals, HandedOn, PaidOn, Deposits
<1>2. /\ Sound(ledger) /\ Gap(ledger) = 0 /\ from \in Accounts
      /\ DOMAIN r \subseteq Accounts /\ (\A b \in DOMAIN r : r[b] \in Routes)
      /\ Routed(r) <= Full
  BY DEF Good, RoutesTyped, RoutesFit, Accounts
<1>3. A \in SUBSET DOMAIN r
  OBVIOUS
<1>4. /\ \A x \in DOMAIN r : d[x] \in Nat
      /\ IsFiniteSet(A) /\ IsFiniteSet(L) /\ sA \in Nat /\ sL \in Nat
      /\ Total(d) = sA + sL /\ Total(d) <= t
  <2> HIDE DEF A, r
  <2> QED BY <1>2, <1>3, DepositsFit
<1>5. L \in SUBSET DOMAIN r
  OBVIOUS
<1>6. j = Fold("vest", d, ledger, A) /\ k = Fold("redeem", d, j, L)
  <2> HIDE DEF A, L, r
  <2>1. HandedOn(ledger, t, r, A) = Fold("vest", Deposits(t, r), ledger, A)
    BY <1>3, <1>4, VestFold
  <2> HIDE DEF j
  <2>2. PaidOn(j, t, r, L) = Fold("redeem", Deposits(t, r), j, L)
    BY <1>4, <1>5, RedeemFold
  <2> QED BY <2>1, <2>2 DEF j
<1>7. A \in SUBSET Accounts /\ L \in SUBSET Accounts
      /\ (\A x \in A : d[x] \in Nat) /\ (\A x \in L : d[x] \in Nat)
  BY <1>2, <1>4
<1> HIDE DEF A, L, r, d, j, k
<1>8. tc \in Nat /\ sA + sL + tc = t /\ sA \in Nat /\ sL \in Nat
  BY <1>4
<1> HIDE DEF tc, m
<1>9. /\ Becomes(ledger, j, 0, sA) /\ SameFund(ledger, j)
      /\ \A a \in Accounts : j.vesting_shares[a] >= ledger.vesting_shares[a]
  BY <1>2, <1>6, <1>7, AllHanded
<1> HIDE DEF sA, sL
<1>10. /\ S \in Nat /\ t <= S /\ ledger.vesting_shares \in [Accounts -> Nat]
  <2>1. /\ Total(ledger.vesting_shares) \in Nat
        /\ ledger.vesting_shares[from] <= Total(ledger.vesting_shares)
        /\ ledger.vesting_shares \in [Accounts -> Nat] /\ S \in Nat
    BY <1>2, SoundTotals, SoundTypes
  <2>2. S = Total(ledger.vesting_shares)
    BY <1>2, <2>1 DEF Gap
  <2>3. ledger.vesting_shares[from] \in Nat
    BY <1>2, <2>1
  <2> QED BY <1>1, <2>1, <2>2, <2>3
<1>11. /\ Sound(j) /\ j.total_vesting_shares = S /\ sL <= j.total_vesting_shares
  BY <1>8, <1>9, <1>10 DEF Becomes, SameFund
<1>12. /\ Becomes(j, k, 0, sL) /\ Keeps(j, k)
       /\ k.vesting_shares = j.vesting_shares
       /\ k.total_vesting_shares = S - sL
       /\ k.pending_rewarded_vesting_shares = j.pending_rewarded_vesting_shares
  BY <1>6, <1>7, <1>11, AllRedeemed DEF sL
<1>13. Sound(k) /\ tc <= k.total_vesting_shares
  BY <1>8, <1>10, <1>12 DEF Becomes
<1>14. /\ Becomes(k, m, 0, tc) /\ Keeps(k, m)
       /\ m.vesting_shares = k.vesting_shares
       /\ m.total_vesting_shares = k.total_vesting_shares - tc
       /\ m.pending_rewarded_vesting_shares = k.pending_rewarded_vesting_shares
  BY <1>2, <1>8, <1>13, Redeem DEF m
<1>15. Sound(m)
  BY <1>14 DEF Becomes
<1>16. /\ m.vesting_shares \in [Accounts -> Nat] /\ m.vesting_shares[from] + (-t) >= 0
       /\ -t \in Int
  <2>1. m.vesting_shares \in [Accounts -> Nat] /\ j.vesting_shares \in [Accounts -> Nat]
    BY <1>11, <1>15, SoundTypes
  <2>2. /\ m.vesting_shares[from] = j.vesting_shares[from]
        /\ j.vesting_shares[from] >= ledger.vesting_shares[from]
        /\ j.vesting_shares[from] \in Nat /\ ledger.vesting_shares[from] \in Nat
    BY <1>2, <1>9, <1>10, <1>12, <1>14, <2>1
  <2> QED BY <1>1, <2>1, <2>2
<1>17. ledger' = HandVests(m, from, -t)
  <2>1. [m.vesting_shares EXCEPT ![from] = @ + (-t)] = [m.vesting_shares EXCEPT ![from] = @ - t]
    BY <1>2, <1>16, Lowered
  <2> QED BY <1>1, <2>1 DEF HandVests
<1>18. Becomes(m, ledger', 0, -t) /\ SameFund(m, ledger')
  BY <1>2, <1>15, <1>16, <1>17, HandShares
<1>19. Becomes(ledger, ledger', 0, 0)
  <2>1. Becomes(ledger, k, 0 + 0, sA + sL)
    BY <1>2, <1>8, <1>9, <1>12, BecomesTrans
  <2> DEFINE u == sA + sL
             v == u + tc
             y == -t
  <2>2. /\ u \in Int /\ v \in Int /\ y \in Int /\ v + y = 0 /\ tc \in Int /\ 0 + 0 = 0
        /\ v = u + tc /\ Becomes(m, ledger', 0, y)
    BY <1>8, <1>16, <1>18
  <2>3. Becomes(ledger, k, 0, u)
    BY <2>1, <2>2
  <2> HIDE DEF u, v, y
  <2>4. Becomes(ledger, m, 0 + 0, u + tc)
    BY <1>2, <1>14, <2>2, <2>3, BecomesTrans
  <2>5. Becomes(ledger, m, 0, v)
    BY <2>2, <2>4
  <2>6. Becomes(ledger, ledger', 0 + 0, v + y)
    BY <1>2, <2>2, <2>5, BecomesTrans
  <2> QED BY <2>2, <2>6
<1>20. Keeps(ledger, ledger')
  <2>1. Keeps(ledger, j) /\ Sound(ledger')
    BY <1>2, <1>9, <1>19, KeepsSame DEF Becomes
  <2>2. Keeps(ledger, k)
    BY <1>2, <1>11, <1>12, <1>13, <2>1, KeepsTrans
  <2>3. k.total_vesting_shares \in Nat /\ m.total_vesting_shares \in Nat
    BY <1>13, <1>15, SoundTypes
  <2>4. Keeps(ledger, m)
    <3>1. m.total_vesting_shares > 0 => k.total_vesting_shares > 0
      BY <1>8, <1>14, <2>3
    <3> QED BY <1>2, <1>13, <1>14, <1>15, <2>2, <3>1, KeepsTrans
  <2>5. Keeps(m, ledger') /\ ledger'.total_vesting_shares = m.total_vesting_shares
    BY <1>15, <1>18, KeepsSame DEF SameFund
  <2> QED BY <1>2, <1>15, <2>1, <2>4, <2>5, KeepsTrans
<1> QED BY <1>1, <1>19, <1>20, GoodLedger DEF Worth

----------------------------------------------------------------------------
(***************************************************************************)
(* The genesis snapshot.                                                   *)
(***************************************************************************)

\* The same for every rich user.
LEMMA TotalRich ==
  ASSUME NEW n \in Nat, NEW d, d = [a \in Accounts |-> IF a \in Rich THEN n ELSE 0]
  PROVE  /\ d \in [Accounts -> Nat] /\ Total(d) = Cardinality(Rich) * n
         /\ Cardinality(Rich) \in Nat
<1>1. Rich \subseteq Accounts /\ IsFiniteSet(Rich) /\ d \in [Accounts -> Nat]
  BY LedgerAssumption, FS_Subset DEF Accounts
<1> DEFINE Q == {s \in SUBSET Rich : Sum(d, s) = Cardinality(s) * n}
<1>2. ASSUME NEW s \in SUBSET Rich, \A x \in s : s \ {x} \in Q PROVE s \in Q
  <2>1. IsFiniteSet(s)
    BY <1>1, FS_Subset
  <2>2. CASE s = {}
    BY <2>1, <2>2, SumStep, FS_EmptySet
  <2>3. CASE s # {}
    <3> DEFINE x == Chosen(s)
               q == s \ {x}
    <3>1. x \in s /\ d[x] = n /\ q \in Q
      BY <1>1, <1>2, <2>3, ChosenIn
    <3>2. Sum(d, s) = d[x] + Sum(d, q)
      BY <2>1, <2>3, SumStep
    <3> HIDE DEF x
    <3>3. IsFiniteSet(q) /\ Cardinality(q) = Cardinality(s) - 1
      BY <2>1, <3>1, FS_RemoveElement
    <3>4. Cardinality(s) \in Nat /\ Cardinality(q) \in Nat
      BY <2>1, <3>3, FS_CardinalityType
    <3>5. Sum(d, q) = Cardinality(q) * n
      BY <3>1
    <3> HIDE DEF q
    <3>6. Sum(d, s) = Cardinality(s) * n
      <4>1. ASSUME NEW k \in Nat, NEW c \in Nat, k = c - 1 PROVE n + k * n = c * n
        BY <4>1
      <4> QED BY <3>1, <3>2, <3>3, <3>4, <3>5, <4>1
    <3> QED BY <3>6
  <2> QED BY <2>2, <2>3
<1>3. SUBSET Rich \subseteq Q
  <2> HIDE DEF Q
  <2> QED BY <1>1, <1>2, SubsetInduction
<1>4. Sum(d, Rich) = Cardinality(Rich) * n
  BY <1>3
<1>5. Sum(d, Accounts \ Rich) = 0
  <2>1. IsFiniteSet(Accounts \ Rich) /\ \A a \in Accounts \ Rich : d[a] = 0
    BY AccountsFinite, FS_Subset
  <2> HIDE DEF Q
  <2> QED BY <2>1, SumZero
<1>6. Sum(d, Accounts) = Sum(d, Rich) + Sum(d, Accounts \ Rich) /\ Total(d) = Sum(d, Accounts)
  <2>1. \A a \in Accounts : d[a] \in Int
    BY <1>1
  <2> HIDE DEF Q
  <2> QED BY <1>1, <2>1, AccountsFinite, SumUnion, TotalNat
<1>7. Cardinality(Rich) \in Nat
  BY <1>1, FS_CardinalityType
<1>8. Cardinality(Rich) * n \in Nat
  BY <1>7
<1> QED BY <1>1, <1>4, <1>5, <1>6, <1>7, <1>8

\* Nothing for anybody.
LEMMA TotalNone ==
  ASSUME NEW d, d = [a \in Accounts |-> 0]
  PROVE  d \in [Accounts -> Nat] /\ Total(d) = 0
<1>1. d \in [Accounts -> Nat] /\ \A a \in Accounts : d[a] = 0
  OBVIOUS
<1> QED BY <1>1, AccountsFinite, SumZero, TotalNat

\* The sum over nothing.
LEMMA TotalEmpty ==
  ASSUME NEW d, DOMAIN d = {}
  PROVE  Total(d) = 0
BY FS_EmptySet, TotalIsSum, SumStep

\* The supply of the genesis snapshot is what it gives out, and its shares are
\* backed.
LEMMA Genesis == Sound(init_genesis) /\ Owned(init_genesis) = 0 /\ Gap(init_genesis) = 0
<1> DEFINE g == init_genesis
           none == [a \in Accounts |-> 0]
           b == [a \in Accounts |-> IF a \in Rich THEN Balance0 ELSE 0]
           v == [a \in Accounts |-> (IF a \in Rich THEN Power0 ELSE 0) * GenesisVests]
           n == Cardinality(Rich)
           PG == Power0 * GenesisVests
<1>1. Balance0 \in Nat /\ Power0 \in Nat \ {0} /\ GenesisVests \in Nat \ {0} /\ Fund0 \in Nat
  BY LedgerAssumption
<1>2. PG \in Nat \ {0}
  BY <1>1
<1>3. none \in [Accounts -> Nat] /\ Total(none) = 0
  BY TotalNone
<1>4. b \in [Accounts -> Nat] /\ Total(b) = n * Balance0 /\ n \in Nat
  <2> HIDE DEF b, n
  <2>1. b = [a \in Accounts |-> IF a \in Rich THEN Balance0 ELSE 0]
    BY DEF b
  <2> QED BY <1>1, <2>1, TotalRich DEF n
<1>5. v \in [Accounts -> Nat] /\ Total(v) = n * PG
  <2>1. v = [a \in Accounts |-> IF a \in Rich THEN PG ELSE 0]
    <3>1. 0 * GenesisVests = 0
      BY <1>1
    <3>2. \A a \in Accounts : (IF a \in Rich THEN Power0 ELSE 0) * GenesisVests
                                = IF a \in Rich THEN PG ELSE 0
      BY <3>1
    <3> HIDE DEF PG
    <3> QED BY <3>2
  <2> HIDE DEF v, PG
  <2> QED BY <1>2, <2>1, TotalRich
<1>6. n # 0
  BY LedgerAssumption, FS_Subset, FS_EmptySet
<1>7. /\ n * Power0 \in Nat \ {0} /\ n * Power0 * GenesisVests = n * PG /\ n * PG \in Nat
      /\ n * (Balance0 + Power0) = n * Balance0 + n * Power0 /\ n * Balance0 \in Nat
  <2> HIDE DEF n
  <2>1. n * Power0 \in Nat \ {0}
    BY <1>1, <1>4, <1>6
  <2>2. n * Power0 * GenesisVests = n * PG
    BY <1>1, <1>4
  <2>3. n * PG \in Nat
    <3> HIDE DEF PG
    <3> QED BY <1>2, <1>4
  <2>4. n * (Balance0 + Power0) = n * Balance0 + n * Power0 /\ n * Balance0 \in Nat
    BY <1>1, <1>4
  <2> QED BY <2>1, <2>2, <2>3, <2>4
<1>8. /\ g.balance = b /\ g.savings_balance = none /\ g.reward_blurt_balance = none
      /\ g.reward_vesting_blurt = none /\ g.reward_vesting_balance = none
      /\ g.vesting_shares = v /\ g.total_vesting_fund_blurt = n * Power0
      /\ g.total_vesting_shares = n * Power0 * GenesisVests
      /\ g.pending_rewarded_vesting_shares = 0 /\ g.pending_rewarded_vesting_blurt = 0
      /\ g.reward_balance = Fund0
      /\ g.current_supply = n * (Balance0 + Power0) + Fund0 /\ g.unbacked = 0
  <2>1. v = [a \in Accounts |-> [x \in Accounts |-> IF x \in Rich THEN Power0 ELSE 0][a]
                                  * GenesisVests]
    OBVIOUS
  <2> HIDE DEF v, n
  <2> QED BY <2>1 DEF init_genesis, n
<1>9. g \in LedgerRecords
  <2>1. /\ b \in PerAccount /\ none \in PerAccount /\ v \in PerAccount
        /\ n * Power0 \in Nat /\ n * Power0 * GenesisVests \in Nat
        /\ n * (Balance0 + Power0) + Fund0 \in Nat /\ 0 \in Nat /\ Fund0 \in Nat
    BY <1>1, <1>3, <1>4, <1>5, <1>7 DEF PerAccount
  <2>2. g = [balance |-> g.balance, savings_balance |-> g.savings_balance,
             reward_blurt_balance |-> g.reward_blurt_balance,
             reward_vesting_blurt |-> g.reward_vesting_blurt,
             reward_vesting_balance |-> g.reward_vesting_balance,
             vesting_shares |-> g.vesting_shares,
             total_vesting_fund_blurt |-> g.total_vesting_fund_blurt,
             total_vesting_shares |-> g.total_vesting_shares,
             pending_rewarded_vesting_shares |-> g.pending_rewarded_vesting_shares,
             pending_rewarded_vesting_blurt |-> g.pending_rewarded_vesting_blurt,
             reward_balance |-> g.reward_balance, current_supply |-> g.current_supply,
             unbacked |-> g.unbacked]
    BY DEF init_genesis
  <2> HIDE DEF g, b, none, v, n
  <2> QED BY <1>8, <2>1, <2>2 DEF LedgerRecords
<1> HIDE DEF g, b, none, v, n, PG
<1>10. Sound(g)
  <2>1. \A a \in Accounts : g.reward_vesting_balance[a] = 0 => g.reward_vesting_blurt[a] = 0
    BY <1>8
  <2>2. 0 = Total(none) + 0
    BY <1>3
  <2>3. g.total_vesting_fund_blurt # 0
    BY <1>7, <1>8
  <2> QED BY <1>3, <1>8, <1>9, <2>1, <2>2, <2>3 DEF Sound
<1>11. Owned(g) = 0
  <2>1. Owned(g) = n * Balance0 + 0 + 0 + Fund0 + n * Power0 + 0 - 0
                   - (n * (Balance0 + Power0) + Fund0)
    BY <1>3, <1>4, <1>8 DEF Owned
  <2>2. ASSUME NEW x \in Nat, NEW y \in Nat, NEW z \in Nat, NEW w, w = x + y
        PROVE  x + 0 + 0 + z + y + 0 - 0 - (w + z) = 0
    BY <2>2
  <2> QED BY <1>1, <1>7, <2>1, <2>2
<1>12. Gap(g) = 0
  <2>1. Gap(g) = n * PG - n * PG
    BY <1>5, <1>7, <1>8 DEF Gap
  <2> QED BY <1>7, <2>1
<1> QED BY <1>10, <1>11, <1>12 DEF g

\* The initial state is good.
LEMMA InitGood == Init => IInv
<1> SUFFICES ASSUME Init PROVE Good /\ ops \in 0..MaxOps
  BY GoodIs
<1>1. /\ ledger = init_genesis /\ escrow = NoEscrow /\ requests = {}
      /\ routes = [a \in Users |-> <<>>] /\ uncredited = 0 /\ ops = 0
  BY DEF Init
<1>2. Sound(ledger) /\ Owned(ledger) = 0 /\ Gap(ledger) = 0
  BY <1>1, Genesis
<1>3. Held(escrow) = 0 /\ FeePaid(escrow)
  BY <1>1 DEF Held, FeePaid
<1>4. Asked(requests) = 0 /\ IsFiniteSet(requests) /\ requests \subseteq Requests
  <2>1. DOMAIN [q \in {} |-> q.amount] = {}
    OBVIOUS
  <2>2. Total([q \in {} |-> q.amount]) = 0
    BY <2>1, TotalEmpty
  <2> QED BY <1>1, <2>2, FS_EmptySet DEF Asked
<1>5. RoutesTyped
  BY <1>1 DEF RoutesTyped
<1>6. RoutesFit
  <2>1. DOMAIN [a \in DOMAIN <<>> |-> <<>>[a].percent] = {}
    OBVIOUS
  <2>2. Routed(<<>>) = 0
    BY <2>1, TotalEmpty DEF Routed
  <2> QED BY <1>1, <2>2, LedgerAssumption DEF RoutesFit
<1>7. ops \in 0..MaxOps
  BY <1>1, InputAssumption
<1>8. Owned(ledger) + Held(escrow) + Asked(requests) + uncredited = 0
  BY <1>1, <1>2, <1>3, <1>4
<1> QED BY <1>1, <1>2, <1>3, <1>4, <1>5, <1>6, <1>7, <1>8 DEF Good

----------------------------------------------------------------------------
(***************************************************************************)
(* The theorems.                                                           *)
(***************************************************************************)

\* An operation or a payout keeps what is good.
LEMMA OperationGood ==
  ASSUME Good, NeverAbandoned, Operation
  PROVE  Good' /\ Worth
<1>1. /\ Sound(ledger) /\ Users \subseteq Accounts /\ Amounts \subseteq Nat \ {0}
      /\ Shares \subseteq Nat /\ Percents \subseteq 0..Full /\ NewBlurt \subseteq Nat
      /\ ElectedWeight \in Nat /\ TimeshareWeight \in Nat /\ Fee \in Nat
      /\ Null \in Accounts /\ Treasury \in Accounts
  BY LedgerAssumption, InputAssumption DEF Good, Accounts
<1>2. /\ ledger.vesting_shares \in [Accounts -> Nat]
      /\ ledger.reward_vesting_balance \in [Accounts -> Nat]
      /\ ledger.reward_blurt_balance \in [Accounts -> Nat]
  BY <1>1, SoundTypes
<1>3. ASSUME NEW from \in Users, NEW to \in Accounts, NEW n \in Amounts,
             transfer(from, to, n)
      PROVE  Good' /\ Worth
  BY <1>1, <1>3, MoveStep DEF transfer
<1>4. ASSUME NEW from \in Users, NEW to \in Accounts, NEW n \in Amounts,
             transfer_to_vesting(from, to, n)
      PROVE  Good' /\ Worth
  BY <1>1, <1>4, VestingStep
<1>5. ASSUME NEW from \in Users, NEW to \in Accounts, NEW n \in Amounts,
             transfer_to_savings(from, to, n)
      PROVE  Good' /\ Worth
  BY <1>1, <1>5, SaveStep
<1>6. ASSUME NEW from \in Users, NEW to \in Accounts, NEW n \in Amounts,
             NEW id \in 1..MaxRequests, transfer_from_savings(from, to, n, id)
      PROVE  Good' /\ Worth
  BY <1>1, <1>6, RequestStep
<1>7. ASSUME NEW required \in SUBSET Users, process_tx_fee(required) PROVE Good' /\ Worth
  BY <1>7, FeeStep
<1>8. ASSUME NEW creator \in Users, account_create(creator) PROVE Good' /\ Worth
  BY <1>1, <1>8, MoveStep DEF account_create
<1>9. ASSUME NEW creator \in Users, create_proposal(creator) PROVE Good' /\ Worth
  BY <1>1, <1>9, MoveStep DEF create_proposal
<1>10. ASSUME NEW from \in Users, NEW to \in Users, NEW agent \in Users, NEW n \in Amounts,
              NEW fee \in 0..1, escrow_transfer(from, to, agent, n, fee)
       PROVE  Good' /\ Worth
  <2>1. fee \in Nat /\ n \in Nat \ {0}
    BY <1>1
  <2> QED BY <1>10, <2>1, EscrowBegins
<1>11. ASSUME NEW from \in Users, NEW to \in Accounts, NEW percent \in Percents,
              NEW auto \in BOOLEAN, set_withdraw_vesting_route(from, to, percent, auto)
       PROVE  Good' /\ Worth
  BY <1>1, <1>11, RouteStep
<1>12. ASSUME NEW from \in Users, NEW n \in Shares \union {ledger.vesting_shares[from]},
              process_vesting_withdrawals(from, n)
       PROVE  Good' /\ Worth
  <2>1. n \in Nat
    BY <1>1, <1>2
  <2> QED BY <1>12, <2>1, WithdrawStep
<1>13. ASSUME NEW new \in NewBlurt, NEW producer \in Users,
              NEW weight \in {ElectedWeight, TimeshareWeight},
              process_funds(new, producer, weight)
       PROVE  Good' /\ Worth
  <2>1. new \in Nat /\ weight \in Nat
    BY <1>1
  <2> QED BY <1>13, <2>1, FundsStep
<1>14. ASSUME NEW c \in Comments, cashout_comment_helper(c) PROVE Good' /\ Worth
  BY <1>14, CashoutStep
<1>15. ASSUME NEW a \in Users, NEW v \in Shares \union {ledger.reward_vesting_balance[a]},
              claim_reward_balance(a, ledger.reward_blurt_balance[a], v)
       PROVE  Good' /\ Worth
  <2>1. v \in Nat /\ ledger.reward_blurt_balance[a] \in Nat
    BY <1>1, <1>2
  <2> QED BY <1>15, <2>1, ClaimStep
<1> QED BY <1>3, <1>4, <1>5, <1>6, <1>7, <1>8, <1>9, <1>10, <1>11, <1>12, <1>13, <1>14,
           <1>15 DEF Operation

\* So does what follows from these.
LEMMA ConsequenceGood ==
  ASSUME Good, Consequence
  PROVE  Good' /\ Worth
<1>1. /\ Amounts \subseteq Nat \ {0} /\ Treasury \in Accounts
  BY InputAssumption DEF Accounts
<1>2. ASSUME NEW r \in requests, cancel_transfer_from_savings(r) PROVE Good' /\ Worth
  BY <1>2, RequestEnds
<1>3. ASSUME NEW r \in requests, process_savings_withdraws(r) PROVE Good' /\ Worth
  BY <1>3, RequestEnds
<1>4. ASSUME NEW who \in Users, NEW approve \in BOOLEAN, escrow_approve(who, approve)
      PROVE  Good' /\ Worth
  BY <1>4, EscrowApproved
<1>5. ASSUME escrow_dispute PROVE Good' /\ Worth
  BY <1>5, EscrowDisputed
<1>6. ASSUME NEW who \in Users, NEW receiver \in Users, NEW n \in {1} \union Amounts,
             NEW expired \in BOOLEAN, escrow_release(who, receiver, n, expired)
      PROVE  Good' /\ Worth
  <2>1. n \in Nat
    BY <1>1
  <2> QED BY <1>6, <2>1, EscrowReleased
<1>7. ASSUME expire_escrow_ratification PROVE Good' /\ Worth
  BY <1>7, EscrowRefunded DEF expire_escrow_ratification
<1>8. ASSUME NEW receiver \in Accounts, NEW n \in Amounts, transfer_payments(receiver, n)
      PROVE  Good' /\ Worth
  BY <1>1, <1>8, MoveStep DEF transfer_payments
<1>9. ASSUME clear_null_account_balance PROVE Good' /\ Worth
  BY <1>9, BurnStep
<1> QED BY <1>2, <1>3, <1>4, <1>5, <1>6, <1>7, <1>8, <1>9 DEF Consequence

\* Good is the inductive invariant after a step, too.
LEMMA GoodNext == (Good /\ ops \in 0..MaxOps)' => IInv'
<1>1. Good /\ ops \in 0..MaxOps => IInv
  BY GoodIs
<1> QED BY <1>1, PTL

\* A step keeps the invariant, and what a share is worth.
LEMMA StepGood ==
  ASSUME IInv, NeverAbandoned, [Next]_vars
  PROVE  IInv' /\ (vars' = vars \/ Worth)
<1>1. Good /\ ops \in 0..MaxOps
  BY GoodIs
<1>2. CASE UNCHANGED vars
  <2>1. /\ UNCHANGED <<ledger, escrow, requests, routes, uncredited, ops>>
    BY <1>2 DEF vars
  <2>2. IInv'
    BY <2>1 DEF IInv, TypeOK, Sound, SupplyAccounted, total_supply, FeePaid, RoutesFit
  <2> QED BY <1>2, <2>2
<1>3. ASSUME Good', ops' \in 0..MaxOps PROVE IInv'
  BY <1>3, GoodNext
<1>4. CASE ops < MaxOps /\ Operation /\ ops' = ops + 1
  <2>1. Good' /\ Worth
    BY <1>1, <1>4, OperationGood
  <2>2. ops' \in 0..MaxOps
    BY <1>1, <1>4, InputAssumption
  <2> QED BY <1>3, <2>1, <2>2
<1>5. CASE Consequence /\ UNCHANGED ops
  <2>1. Good' /\ Worth
    BY <1>1, <1>5, ConsequenceGood
  <2> QED BY <1>1, <1>3, <1>5, <2>1
<1> QED BY <1>2, <1>4, <1>5 DEF Next

\* The ledger's invariant holds as long as the vesting fund is never abandoned
\* while rewards wait to be claimed.
THEOREM Invariant == Spec /\ []NeverAbandoned => []IInv
<1>1. Init => IInv
  BY InitGood
<1>2. IInv /\ NeverAbandoned /\ [Next]_vars => IInv'
  BY StepGood
<1> QED BY <1>1, <1>2, PTL DEF Spec

\* TypeOK: no account, fund, escrow or counter ever goes below zero, however
\* the operations of users and the work of blocks follow each other.
THEOREM TypeCorrect == Spec /\ []NeverAbandoned => []TypeOK
<1>1. IInv => TypeOK
  BY DEF IInv
<1> QED BY <1>1, Invariant, PTL

\* SupplyAccounted: current_supply is all the BLURT there is, but for what a
\* payout gives to nobody and for rewards worth no shares.
THEOREM SupplyCorrect == Spec /\ []NeverAbandoned => []SupplyAccounted
<1>1. IInv => SupplyAccounted
  BY DEF IInv
<1> QED BY <1>1, Invariant, PTL

\* SharesBacked: the counters of shares are the shares of all accounts, and
\* no BLURT is left behind a reward that has been claimed.
THEOREM SharesCorrect == Spec /\ []NeverAbandoned => []SharesBacked
<1>1. IInv => SharesBacked
  <2> SUFFICES ASSUME IInv PROVE SharesBacked
    OBVIOUS
  <2>1. /\ Sound(ledger) /\ ledger.total_vesting_shares = Total(ledger.vesting_shares)
    BY DEF IInv
  <2> QED BY <2>1 DEF Sound, SharesBacked, SharesAccounted, NothingStranded
<1> QED BY <1>1, Invariant, PTL

\* SharesKeepValue: no step lowers what a share is worth, unless rewards are
\* claimed or burned.
THEOREM ValueKept == Spec /\ []NeverAbandoned => SharesKeepValue
<1> DEFINE A == /\ ledger'.pending_rewarded_vesting_shares >= ledger.pending_rewarded_vesting_shares
                /\ ledger.total_vesting_shares > 0 /\ ledger'.total_vesting_shares > 0
                => ledger'.total_vesting_fund_blurt * ledger.total_vesting_shares
                     >= ledger.total_vesting_fund_blurt * ledger'.total_vesting_shares
<1>1. IInv /\ NeverAbandoned /\ [Next]_vars => [A]_vars
  <2> SUFFICES ASSUME IInv, NeverAbandoned, [Next]_vars PROVE A \/ vars' = vars
    OBVIOUS
  <2>1. vars' = vars \/ Worth
    BY StepGood
  <2> QED BY <2>1 DEF Worth, Keeps
<1> HIDE DEF A
<1>2. Spec /\ []NeverAbandoned => [][A]_vars
  BY <1>1, Invariant, PTL DEF Spec
<1> QED BY <1>2 DEF SharesKeepValue, A
=============================================================================
