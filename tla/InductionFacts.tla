---------------------------- MODULE InductionFacts ----------------------------
(***************************************************************************)
(* What the proofs need of recursive functions: that they exist, and what  *)
(* a sum over a finite set is.                                             *)
(*                                                                         *)
(* The provers cannot use an induction theorem that takes a predicate.     *)
(* Here the predicate is a set, that of all its instances.                 *)
(***************************************************************************)
EXTENDS Functions, FiniteSetTheorems, TLAPS

\* A set of natural numbers has a least element.
LEMMA LeastNumber ==
  ASSUME NEW T \in SUBSET Nat, T # {}
  PROVE  \E n \in T : \A m \in T : n <= m
<1> DEFINE Less == OpToRel(<, Nat)
<1>1. PICK n \in T : \A m \in T : <<m, n>> \notin Less
  <2>1. IsWellFoundedOn(Less, Nat)
    BY NatLessThanWellFounded
  <2> HIDE DEF Less
  <2> QED BY <2>1, WFMin
<1>2. \A m \in T : ~(m < n)
  BY <1>1 DEF OpToRel
<1> QED BY <1>2

\* Induction on natural numbers.
LEMMA EveryNumber ==
  ASSUME NEW T, 0 \in T, \A n \in Nat : n \in T => n + 1 \in T
  PROVE  Nat \subseteq T
<1> DEFINE Bad == Nat \ T
<1>1. SUFFICES ASSUME Bad # {} PROVE FALSE
  OBVIOUS
<1>2. PICK n \in Bad : \A m \in Bad : n <= m
  <2>1. Bad \in SUBSET Nat
    OBVIOUS
  <2> HIDE DEF Bad
  <2> QED BY <1>1, <2>1, LeastNumber
<1>3. n - 1 \in Nat /\ n - 1 \in T
  BY <1>2
<1> QED BY <1>3

\* Induction on finite sets: from a set with one element less.
LEMMA EverySubset ==
  ASSUME NEW S, IsFiniteSet(S), NEW T,
         \A s \in SUBSET S : (\A x \in s : s \ {x} \in T) => s \in T
  PROVE  SUBSET S \subseteq T
<1> DEFINE Sized == {n \in Nat : \A s \in SUBSET S : Cardinality(s) = n => s \in T}
<1>1. \A s \in SUBSET S : IsFiniteSet(s) /\ Cardinality(s) \in Nat
  BY FS_Subset, FS_CardinalityType
<1>2. 0 \in Sized
  BY <1>1, FS_EmptySet
<1>3. ASSUME NEW n \in Nat, n \in Sized PROVE n + 1 \in Sized
  <2> SUFFICES ASSUME NEW s \in SUBSET S, Cardinality(s) = n + 1 PROVE s \in T
    OBVIOUS
  <2>1. ASSUME NEW x \in s PROVE s \ {x} \in T
    <3>1. Cardinality(s \ {x}) = n
      BY <1>1, FS_RemoveElement
    <3> QED BY <1>3, <3>1
  <2> QED BY <2>1
<1>4. Nat \subseteq Sized
  <2> HIDE DEF Sized
  <2> QED BY <1>2, <1>3, EveryNumber
<1> QED BY <1>1, <1>4

----------------------------------------------------------------------------
(* A function defined by recursion on the positions of a sequence.         *)

\* What is computed from a start by steps, up to a last one.
Runs(Values, start, last, Step) ==
  {g \in [0..last -> Values] :
     g[0] = start /\ \A i \in 1..last : g[i] = Step[<<i, g[i - 1]>>]}

LEMMA StepsExist ==
  ASSUME NEW Values, NEW start \in Values, NEW last \in Nat,
         NEW Step \in [(1..last) \X Values -> Values]
  PROVE  Runs(Values, start, last, Step) # {}
<1> DEFINE Upto(m, g) == g[0] = start /\ \A i \in 1..m : g[i] = Step[<<i, g[i - 1]>>]
           Can(m) == \E g \in [0..last -> Values] : Upto(m, g)
           T == {m \in Nat : m <= last => Can(m)}
<1>1. Can(0)
  <2> DEFINE g == [i \in 0..last |-> start]
  <2>1. g \in [0..last -> Values] /\ g[0] = start
    OBVIOUS
  <2>2. 1..0 = {}
    OBVIOUS
  <2> HIDE DEF g
  <2> QED BY <2>1, <2>2
<1>2. ASSUME NEW k \in Nat, k + 1 <= last, Can(k) PROVE Can(k + 1)
  <2>1. k \in 0..last /\ k + 1 \in 1..last
    BY <1>2
  <2>2. PICK g \in [0..last -> Values] : Upto(k, g)
    BY <1>2
  <2> DEFINE h == [g EXCEPT ![k + 1] = Step[<<k + 1, g[k]>>]]
  <2>3. h \in [0..last -> Values]
    BY <2>1, <2>2
  <2>4. h[0] = start
    BY <2>1, <2>2
  <2>5. ASSUME NEW i \in 1..(k + 1) PROVE h[i] = Step[<<i, h[i - 1]>>]
    <3>1. CASE i = k + 1
      <4>1. h[k + 1] = Step[<<k + 1, g[k]>>] /\ h[k] = g[k] /\ i - 1 = k
        BY <2>1, <2>2, <3>1
      <4> HIDE DEF h
      <4> QED BY <3>1, <4>1
    <3>2. CASE i # k + 1
      <4>1. i \in 1..k /\ h[i] = g[i] /\ h[i - 1] = g[i - 1]
        BY <2>1, <3>2
      <4> QED BY <2>2, <4>1
    <3> QED BY <3>1, <3>2
  <2> HIDE DEF h
  <2> QED BY <2>3, <2>4, <2>5
<1>3. Can(last)
  <2> HIDE DEF Can
  <2>1. 0 \in T
    BY <1>1
  <2>2. ASSUME NEW k \in Nat, k \in T PROVE k + 1 \in T
    BY <1>2, <2>2
  <2>3. Nat \subseteq T
    <3> HIDE DEF T
    <3> QED BY <2>1, <2>2, EveryNumber
  <2> QED BY <2>3
<1> QED BY <1>3 DEF Runs

----------------------------------------------------------------------------
(* The sum of the values of a function f, over a finite set S.             *)

Any(s) == CHOOSE x \in s : TRUE
\* The sum over every subset of S, as the fold computes it.
Sums(f, S) ==
  LET iter[s \in SUBSET S] == IF s = {} THEN 0 ELSE f[Any(s)] + iter[s \ {Any(s)}]
  IN  iter

LEMMA SumIsFold ==
  ASSUME NEW f, NEW S, DOMAIN f = S
  PROVE  SumFunction(f) = Sums(f, S)[S]
BY DEF SumFunction, SumFunctionOnSet, FoldFunctionOnSet, MapThenFoldSet, Sums, Any

LEMMA AnyIsElement == ASSUME NEW s, s # {} PROVE Any(s) \in s
BY DEF Any

\* The sums exist, and are natural numbers.
LEMMA SumsEquation ==
  ASSUME NEW S, IsFiniteSet(S), NEW f \in [S -> Nat]
  PROVE  Sums(f, S) = [s \in SUBSET S |->
           IF s = {} THEN 0 ELSE f[Any(s)] + Sums(f, S)[s \ {Any(s)}]]
<1> DEFINE One(g) == [s \in SUBSET S |->
                        IF s = {} THEN 0 ELSE f[Any(s)] + g[s \ {Any(s)}]]
           Can(n) == \E g \in [SUBSET S -> Nat] :
                       \A s \in SUBSET S : Cardinality(s) <= n => g[s] = One(g)[s]
           T == {n \in Nat : Can(n)}
<1>1. \A s \in SUBSET S : IsFiniteSet(s) /\ Cardinality(s) \in Nat
  BY FS_Subset, FS_CardinalityType
<1>2. Can(0)
  <2> DEFINE g == [s \in SUBSET S |-> 0]
  <2>1. g \in [SUBSET S -> Nat]
    OBVIOUS
  <2>2. ASSUME NEW s \in SUBSET S, Cardinality(s) <= 0 PROVE g[s] = One(g)[s]
    <3>1. s = {}
      BY <1>1, <2>2, FS_EmptySet
    <3> QED BY <3>1
  <2> HIDE DEF g
  <2> QED BY <2>1, <2>2
<1>3. ASSUME NEW n \in Nat, Can(n) PROVE Can(n + 1)
  <2>1. PICK g \in [SUBSET S -> Nat] :
               \A s \in SUBSET S : Cardinality(s) <= n => g[s] = One(g)[s]
    BY <1>3
  <2> DEFINE h == One(g)
  <2>2. ASSUME NEW s \in SUBSET S, s # {}
        PROVE  Any(s) \in S /\ s \ {Any(s)} \in SUBSET S
    BY <2>2, AnyIsElement
  <2>3. h \in [SUBSET S -> Nat]
    BY <2>2
  <2>4. ASSUME NEW s \in SUBSET S, Cardinality(s) <= n + 1, s # {} PROVE h[s] = One(h)[s]
    <3> DEFINE r == s \ {Any(s)}
    <3>1. r \in SUBSET S /\ Cardinality(r) <= n
      <4>1. Cardinality(r) = Cardinality(s) - 1
        BY <1>1, <2>4, AnyIsElement, FS_RemoveElement
      <4> QED BY <1>1, <2>2, <2>4, <4>1
    <3>2. h[r] = g[r]
      BY <2>1, <3>1
    <3>3. h[s] = f[Any(s)] + g[r] /\ One(h)[s] = f[Any(s)] + h[r]
      BY <2>4
    <3> QED BY <3>2, <3>3
  <2>5. ASSUME NEW s \in SUBSET S, s = {} PROVE h[s] = One(h)[s]
    BY <2>5
  <2> HIDE DEF h
  <2> QED BY <2>3, <2>4, <2>5
<1>4. Can(Cardinality(S))
  <2> HIDE DEF Can
  <2>1. Nat \subseteq T
    <3>1. 0 \in T /\ \A n \in Nat : n \in T => n + 1 \in T
      BY <1>2, <1>3
    <3> HIDE DEF T
    <3> QED BY <3>1, EveryNumber
  <2> QED BY <1>1, <2>1
<1>5. \E g : g = One(g)
  <2>1. PICK g \in [SUBSET S -> Nat] :
               \A s \in SUBSET S : Cardinality(s) <= Cardinality(S) => g[s] = One(g)[s]
    BY <1>4
  <2>2. \A s \in SUBSET S : g[s] = One(g)[s]
    BY <2>1, FS_Subset
  <2>3. DOMAIN One(g) = SUBSET S
    OBVIOUS
  <2> HIDE DEF One
  <2>4. g = [s \in SUBSET S |-> g[s]] /\ One(g) = [s \in SUBSET S |-> One(g)[s]]
    BY <2>1, <2>3 DEF One
  <2> QED BY <2>2, <2>4
<1>6. Sums(f, S) = CHOOSE g : g = One(g)
  BY DEF Sums
<1> QED BY <1>5, <1>6

LEMMA SumsNat ==
  ASSUME NEW S, IsFiniteSet(S), NEW f \in [S -> Nat]
  PROVE  /\ Sums(f, S)[{}] = 0
         /\ \A s \in SUBSET S : Sums(f, S)[s] \in Nat
<1> DEFINE sum == Sums(f, S)
           T == {s \in SUBSET S : sum[s] \in Nat}
<1>1. \A s \in SUBSET S :
        sum[s] = IF s = {} THEN 0 ELSE f[Any(s)] + sum[s \ {Any(s)}]
  <2>1. sum = [s \in SUBSET S |->
                 IF s = {} THEN 0 ELSE f[Any(s)] + sum[s \ {Any(s)}]]
    BY SumsEquation
  <2> HIDE DEF sum
  <2> QED BY <2>1
<1> HIDE DEF sum
<1>2. ASSUME NEW s \in SUBSET S, \A x \in s : s \ {x} \in T PROVE s \in T
  <2>1. CASE s = {}
    <3>1. sum[s] = 0
      BY <1>1, <2>1
    <3> QED BY <3>1
  <2>2. CASE s # {}
    <3>1. Any(s) \in s
      BY <2>2, AnyIsElement
    <3>2. sum[s \ {Any(s)}] \in Nat /\ f[Any(s)] \in Nat
      BY <1>2, <3>1
    <3>3. sum[s] = f[Any(s)] + sum[s \ {Any(s)}]
      BY <1>1, <2>2
    <3> QED BY <3>2, <3>3
  <2> QED BY <2>1, <2>2
<1>3. SUBSET S \subseteq T
  <2> HIDE DEF T
  <2> QED BY <1>2, EverySubset
<1>4. sum[{}] = 0
  BY <1>1
<1> QED BY <1>3, <1>4 DEF sum

\* The sum does not depend on the order: any element may be taken first.
LEMMA SumsTake ==
  ASSUME NEW S, IsFiniteSet(S), NEW f \in [S -> Nat], NEW part \in SUBSET S, NEW e \in part
  PROVE  Sums(f, S)[part] = f[e] + Sums(f, S)[part \ {e}]
<1> DEFINE sum == Sums(f, S)
           T == {s \in SUBSET S : \A x \in s : sum[s] = f[x] + sum[s \ {x}]}
<1>1. \A s \in SUBSET S :
        sum[s] = IF s = {} THEN 0 ELSE f[Any(s)] + sum[s \ {Any(s)}]
  <2>1. sum = [s \in SUBSET S |->
                 IF s = {} THEN 0 ELSE f[Any(s)] + sum[s \ {Any(s)}]]
    BY SumsEquation
  <2> HIDE DEF sum
  <2> QED BY <2>1
<1>2. \A s \in SUBSET S : sum[s] \in Nat
  BY SumsNat
<1> HIDE DEF sum
<1>3. ASSUME NEW s \in SUBSET S, \A x \in s : s \ {x} \in T PROVE s \in T
  <2> SUFFICES ASSUME NEW x \in s PROVE sum[s] = f[x] + sum[s \ {x}]
    OBVIOUS
  <2> DEFINE y == Any(s)
  <2>1. y \in s /\ sum[s] = f[y] + sum[s \ {y}]
    BY <1>1, AnyIsElement
  <2> HIDE DEF y
  <2>2. CASE x = y
    BY <2>1, <2>2
  <2>3. CASE x # y
    <3>1. (s \ {y}) \ {x} = (s \ {x}) \ {y}
      OBVIOUS
    <3>2. sum[s \ {y}] = f[x] + sum[(s \ {y}) \ {x}]
      BY <1>3, <2>1, <2>3
    <3>3. sum[s \ {x}] = f[y] + sum[(s \ {x}) \ {y}]
      BY <1>3, <2>1, <2>3
    <3>4. f[x] \in Nat /\ f[y] \in Nat /\ sum[(s \ {y}) \ {x}] \in Nat
      BY <1>2, <2>1
    <3> DEFINE rest == sum[(s \ {y}) \ {x}]
    <3>5. sum[s] = f[y] + (f[x] + rest) /\ sum[s \ {x}] = f[y] + rest
      BY <2>1, <3>1, <3>2, <3>3
    <3> HIDE DEF rest
    <3>6. f[y] + (f[x] + rest) = f[x] + (f[y] + rest)
      BY <3>4 DEF rest
    <3> QED BY <3>5, <3>6
  <2> QED BY <2>2, <2>3
<1>4. SUBSET S \subseteq T
  <2> HIDE DEF T
  <2> QED BY <1>3, EverySubset
<1>5. sum[part] = f[e] + sum[part \ {e}]
  BY <1>4
<1> QED BY <1>5 DEF sum
=============================================================================
