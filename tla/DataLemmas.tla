----------------------------- MODULE DataLemmas -----------------------------
(***************************************************************************)
(* Facts about data that the proofs of several components use: least       *)
(* elements, the length of a sequence without repetitions, and sums over a *)
(* finite set, as the folds of the community modules define them: a        *)
(* function on the subsets of S that takes one element at a time.          *)
(***************************************************************************)
EXTENDS Integers, Sequences, FiniteSets, FiniteSetTheorems, SequenceTheorems,
        WellFoundedInduction, TLAPS

(* A set of natural numbers that is not empty has a least element.         *)
LEMMA LeastNat ==
    ASSUME NEW T, T \subseteq Nat, T # {}
    PROVE  \E x \in T : \A y \in T : x <= y
<1>1. PICK x \in T : \A y \in T : ~(<<y, x>> \in OpToRel(<, Nat))
  BY NatLessThanWellFounded, WFMin
<1>2. \A y \in T : y < x => <<y, x>> \in OpToRel(<, Nat)
  BY DEF OpToRel
<1>3. \A y \in T : ~(y < x)
  BY <1>1, <1>2, Zenon
<1>4. \A y \in T : x <= y
  <2> HIDE <1>1
  <2> QED BY <1>3
<1> QED BY <1>4

(* A sequence whose members differ is not longer than the set they are in. *)
LEMMA DistinctLen ==
    ASSUME NEW S, IsFiniteSet(S), NEW r \in Seq(S),
           \A i, j \in 1 .. Len(r) : r[i] = r[j] => i = j
    PROVE  Len(r) <= Cardinality(S) /\ Cardinality(S) \in Nat
<1>1. Len(r) \in Nat /\ r \in [1 .. Len(r) -> S]
  OBVIOUS
<1>2. r \in Injection(1 .. Len(r), S)
  BY <1>1 DEF Injection, IsInjective
<1>3. IsFiniteSet(1 .. Len(r)) /\ Cardinality(1 .. Len(r)) = Len(r)
  BY <1>1, FS_Interval
<1>4. Cardinality(1 .. Len(r)) <= Cardinality(S)
  BY <1>2, FS_Injection
<1> QED BY <1>3, <1>4, FS_CardinalityType

-----------------------------------------------------------------------------
(* g adds up f over every subset of S.                                     *)
IsSum(g, f, S) ==
    g = [T \in SUBSET S |->
            IF T = {} THEN 0
            ELSE LET x == CHOOSE x \in T : TRUE IN f[x] + g[T \ {x}]]

(* Among sets of subsets of a finite set there is one with none below it:  *)
(* what induction over finite sets comes to.                               *)
LEMMA LeastSubset ==
    ASSUME NEW S, IsFiniteSet(S), NEW B, B \subseteq SUBSET S, B # {}
    PROVE  \E T \in B : \A x \in T : T \ {x} \notin B
<1> DEFINE N == {n \in Nat : \E T \in B : Cardinality(T) = n}
<1>1. \A T \in SUBSET S : IsFiniteSet(T) /\ Cardinality(T) \in Nat
  BY FS_Subset, FS_CardinalityType
<1>2. N \subseteq Nat /\ N # {}
  BY <1>1
<1>3. PICK n \in N : \A m \in N : n <= m
  BY <1>2, LeastNat
<1>4. PICK T \in B : Cardinality(T) = n
  BY <1>3
<1>5. ASSUME NEW x \in T, T \ {x} \in B PROVE FALSE
  <2>1. Cardinality(T \ {x}) = Cardinality(T) - 1
    BY <1>1, FS_RemoveElement
  <2>2. T \ {x} \in SUBSET S /\ Cardinality(T \ {x}) \in Nat
    BY <1>1
  <2>3. Cardinality(T \ {x}) \in N
    BY <1>5, <2>2
  <2>4. n <= n - 1 /\ n \in Nat
    BY <1>3, <1>4, <2>1, <2>3
  <2> QED BY <2>4
<1> QED BY <1>4, <1>5

(* Such a function exists: it is built from the small subsets upwards.     *)
LEMMA SumExists ==
    ASSUME NEW S, IsFiniteSet(S), NEW f
    PROVE  \E g : IsSum(g, f, S)
<1> DEFINE Small(m) == {T \in SUBSET S : Cardinality(T) <= m}
           Step(g, T) == IF T = {} THEN 0
                         ELSE LET x == CHOOSE x \in T : TRUE IN f[x] + g[T \ {x}]
           Part(g, m) == g = [T \in Small(m) |-> Step(g, T)]
           Missing == {m \in Nat : ~ \E g : Part(g, m)}
<1>1. \A T \in SUBSET S : IsFiniteSet(T) /\ Cardinality(T) \in Nat /\ Cardinality(T) <= Cardinality(S)
  BY FS_Subset, FS_CardinalityType
<1>2. \A T \in SUBSET S : T # {} =>
         LET x == CHOOSE x \in T : TRUE
         IN  x \in T /\ T \ {x} \in SUBSET S /\ Cardinality(T \ {x}) = Cardinality(T) - 1
  BY <1>1, FS_RemoveElement
<1>3. Missing = {}
  <2> SUFFICES ASSUME Missing # {} PROVE FALSE
    OBVIOUS
  <2>1. PICK m \in Missing : \A k \in Missing : m <= k
    BY LeastNat
  <2>2. CASE m = 0
    <3> DEFINE g == [T \in Small(0) |-> 0]
    <3>1. \A T \in Small(0) : T = {}
      BY <1>1, FS_EmptySet
    <3>2. Part(g, 0)
      BY <3>1
    <3> QED BY <2>2, <3>2
  <2>3. CASE m > 0
    <3>1. m - 1 \in Nat /\ ~(m <= m - 1)
      BY <2>3
    <3>2. PICK k : Part(k, m - 1)
      BY <2>1, <3>1
    <3> DEFINE g == [T \in Small(m) |-> IF T \in Small(m - 1) THEN k[T] ELSE Step(k, T)]
    <3>3. \A T \in Small(m - 1) : g[T] = k[T] /\ k[T] = Step(k, T)
      <4>1. \A T \in Small(m - 1) : T \in Small(m)
        BY <1>1, <3>1
      <4> QED BY <3>2, <4>1
    <3>4. \A T \in Small(m) : T # {} => T \ {CHOOSE x \in T : TRUE} \in Small(m - 1)
      BY <1>1, <1>2
    <3>5. \A T \in Small(m) : g[T] = Step(k, T)
      BY <3>3
    <3>6. \A T \in Small(m) : Step(k, T) = Step(g, T)
      <4> HIDE DEF g, Small
      <4> SUFFICES ASSUME NEW T \in Small(m), T # {} PROVE Step(k, T) = Step(g, T)
        OBVIOUS
      <4> DEFINE c == CHOOSE x \in T : TRUE
      <4>1. g[T \ {c}] = k[T \ {c}]
        BY <3>3, <3>4
      <4> QED BY <4>1
    <3>7. g = [T \in Small(m) |-> g[T]]
      OBVIOUS
    <3>8. Part(g, m)
      <4> HIDE DEF g, Step, Small
      <4>1. \A T \in Small(m) : g[T] = Step(g, T)
        BY <3>5, <3>6
      <4>2. [T \in Small(m) |-> g[T]] = [T \in Small(m) |-> Step(g, T)]
        BY <4>1
      <4> QED BY <3>7, <4>2
    <3> QED BY <3>8
  <2> QED BY <2>2, <2>3
<1>4. Cardinality(S) \in Nat /\ Small(Cardinality(S)) = SUBSET S
  BY <1>1
<1>5. PICK g : Part(g, Cardinality(S))
  BY <1>3, <1>4
<1>6. g = [T \in SUBSET S |-> Step(g, T)]
  <2> HIDE DEF Small, Step
  <2> QED BY <1>4, <1>5
<1> QED BY <1>6 DEF IsSum

(* One step of two sums over the same set, and the sum of an empty set.    *)
LEMMA SumPair ==
    ASSUME NEW S, NEW f, NEW e, NEW g, NEW k, IsSum(g, f, S), IsSum(k, e, S),
           NEW T \in SUBSET S, T # {}
    PROVE  \E x \in T : g[T] = f[x] + g[T \ {x}] /\ k[T] = e[x] + k[T \ {x}]
<1> DEFINE x == CHOOSE x \in T : TRUE
<1>1. x \in T
  OBVIOUS
<1>2. g[T] = f[x] + g[T \ {x}]
  BY DEF IsSum
<1>3. k[T] = e[x] + k[T \ {x}]
  BY DEF IsSum
<1> HIDE DEF x
<1> QED BY <1>1, <1>2, <1>3

LEMMA SumStep ==
    ASSUME NEW S, NEW f, NEW g, IsSum(g, f, S)
    PROVE  /\ g[{}] = 0
           /\ \A T \in SUBSET S : T # {} => \E x \in T : g[T] = f[x] + g[T \ {x}]
<1>1. g[{}] = 0
  <2>1. {} \in SUBSET S
    OBVIOUS
  <2> QED BY <2>1 DEF IsSum
<1> QED BY <1>1, SumPair

(* Changing one summand changes the sum by the difference.                 *)
LEMMA SumChange ==
    ASSUME NEW S, IsFiniteSet(S), NEW f, NEW e, NEW g, NEW k,
           IsSum(g, f, S), IsSum(k, e, S), NEW s \in S,
           \A x \in S : f[x] \in Int /\ e[x] \in Int,
           \A x \in S \ {s} : e[x] = f[x]
    PROVE  g[S] \in Int /\ k[S] = g[S] - f[s] + e[s]
<1> DEFINE Good(T) == g[T] \in Int /\ k[T] = IF s \in T THEN g[T] - f[s] + e[s] ELSE g[T]
           B == {T \in SUBSET S : ~Good(T)}
<1>1. B = {}
  <2> SUFFICES ASSUME B # {} PROVE FALSE
    OBVIOUS
  <2>1. PICK T \in B : \A x \in T : T \ {x} \notin B
    BY LeastSubset
  <2>2. CASE T = {}
    <3>1. g[T] = 0 /\ k[T] = 0
      BY <2>2, SumStep
    <3> QED BY <2>1, <2>2, <3>1
  <2>3. CASE T # {}
    <3>0. T \in SUBSET S
      BY <2>1
    <3>1. PICK x \in T : g[T] = f[x] + g[T \ {x}] /\ k[T] = e[x] + k[T \ {x}]
      BY <2>3, <3>0, SumPair
    <3>2. T \ {x} \in SUBSET S /\ Good(T \ {x}) /\ x \in S
      <4> HIDE DEF Good
      <4> QED BY <2>1, <3>1
    <3>3. CASE x = s
      <4>1. s \in T /\ s \notin T \ {x}
        BY <3>1, <3>3
      <4>2. /\ g[T \ {s}] \in Int /\ k[T \ {s}] = g[T \ {s}]
            /\ g[T] = f[s] + g[T \ {s}] /\ k[T] = e[s] + k[T \ {s}]
            /\ f[s] \in Int /\ e[s] \in Int
        BY <3>1, <3>2, <3>3, <4>1
      <4>3. PICK a \in Int, b \in Int, c \in Int :
               a = g[T \ {s}] /\ b = f[s] /\ c = e[s]
        BY <4>2
      <4>4. c + a = (b + a) - b + c
        OBVIOUS
      <4>5. g[T] = b + a /\ k[T] = c + a
        BY <4>2, <4>3
      <4>6. g[T] \in Int /\ k[T] = g[T] - f[s] + e[s]
        BY <4>3, <4>4, <4>5
      <4> QED BY <2>1, <4>1, <4>6
    <3>4. CASE x # s
      <4>1. s \in T <=> s \in T \ {x}
        BY <3>4
      <4> QED BY <2>1, <3>1, <3>2, <3>4, <4>1
    <3> QED BY <3>3, <3>4
  <2> QED BY <2>2, <2>3
<1>2. S \notin B
  BY <1>1
<1> QED BY <1>2

(* A sum of zeros, of natural numbers, and sums of the same summands.      *)
LEMMA SumZero ==
    ASSUME NEW S, IsFiniteSet(S), NEW f, NEW g, IsSum(g, f, S), \A x \in S : f[x] = 0
    PROVE  g[S] = 0
<1> DEFINE B == {T \in SUBSET S : g[T] # 0}
<1>1. B = {}
  <2> SUFFICES ASSUME B # {} PROVE FALSE
    OBVIOUS
  <2>1. PICK T \in B : \A x \in T : T \ {x} \notin B
    BY LeastSubset
  <2>2. CASE T = {}
    BY <2>1, <2>2, SumStep
  <2>3. CASE T # {}
    <3>1. PICK x \in T : g[T] = f[x] + g[T \ {x}]
      BY <2>3, SumStep
    <3> QED BY <2>1, <3>1
  <2> QED BY <2>2, <2>3
<1> QED BY <1>1

LEMMA SumNat ==
    ASSUME NEW S, IsFiniteSet(S), NEW f, NEW g, IsSum(g, f, S), \A x \in S : f[x] \in Nat
    PROVE  g[S] \in Nat
<1> DEFINE B == {T \in SUBSET S : g[T] \notin Nat}
<1>1. B = {}
  <2> SUFFICES ASSUME B # {} PROVE FALSE
    OBVIOUS
  <2>1. PICK T \in B : \A x \in T : T \ {x} \notin B
    BY LeastSubset
  <2>2. CASE T = {}
    BY <2>1, <2>2, SumStep
  <2>3. CASE T # {}
    <3>1. PICK x \in T : g[T] = f[x] + g[T \ {x}]
      BY <2>3, SumStep
    <3> QED BY <2>1, <3>1
  <2> QED BY <2>2, <2>3
<1> QED BY <1>1

LEMMA SumSame ==
    ASSUME NEW S, IsFiniteSet(S), NEW f, NEW e, NEW g, NEW k,
           IsSum(g, f, S), IsSum(k, e, S), \A x \in S : e[x] = f[x]
    PROVE  k[S] = g[S]
<1> DEFINE B == {T \in SUBSET S : k[T] # g[T]}
<1>1. B = {}
  <2> SUFFICES ASSUME B # {} PROVE FALSE
    OBVIOUS
  <2>1. PICK T \in B : \A x \in T : T \ {x} \notin B
    BY LeastSubset
  <2>2. CASE T = {}
    BY <2>1, <2>2, SumStep
  <2>3. CASE T # {}
    <3>1. PICK x \in T : g[T] = f[x] + g[T \ {x}] /\ k[T] = e[x] + k[T \ {x}]
      BY <2>3, SumPair
    <3> QED BY <2>1, <3>1
  <2> QED BY <2>2, <2>3
<1> QED BY <1>1
=============================================================================
