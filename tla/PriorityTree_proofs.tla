------------------------ MODULE PriorityTree_proofs ------------------------
(***************************************************************************)
(* Proofs about PriorityTree, for any streams and any sizes of the lists.  *)
(***************************************************************************)
EXTENDS PriorityTree, DataLemmas, TLAPS

(* A tree of the nodes D below Root, without ancestors: parents are in the *)
(* tree, and no set of nodes has all its parents in the set.               *)
Rooted(par, D) == \A s \in D : par[s] \in D \cup {Root}

Grounded(par, D) == \A C \in SUBSET D : C # {} => \E s \in C : par[s] \notin C

Tree(par, D) ==
    /\ par \in [Streams -> Streams \cup {Root}]
    /\ D \subseteq Streams
    /\ Rooted(par, D)
    /\ Grounded(par, D)

-----------------------------------------------------------------------------
(* The chain of ancestors is what its recursive definition says.           *)
IsChain(f, par, s, n) == f = [k \in 0 .. n |-> IF k = 0 THEN s ELSE Above(par, f[k - 1])]

LEMMA ChainExists ==
    ASSUME NEW par, NEW s, NEW n \in Nat
    PROVE  \E f : IsChain(f, par, s, n)
<1> DEFINE Chain(f, m) == f = [k \in 0 .. m |-> IF k = 0 THEN s ELSE Above(par, f[k - 1])]
           T == {m \in Nat : ~ \E f : Chain(f, m)}
<1>1. T = {}
  <2> SUFFICES ASSUME T # {} PROVE FALSE
    OBVIOUS
  <2>1. PICK m \in T : \A k \in T : m <= k
    BY LeastNat
  <2>2. CASE m = 0
    <3> DEFINE f == [k \in 0 .. 0 |-> s]
    <3>1. Chain(f, 0)
      OBVIOUS
    <3> QED BY <2>2, <3>1
  <2>3. CASE m > 0
    <3>1. m - 1 \in Nat /\ ~(m <= m - 1)
      BY <2>3
    <3>2. PICK g : Chain(g, m - 1)
      BY <2>1, <3>1
    <3> DEFINE f == [k \in 0 .. m |-> IF k = m THEN Above(par, g[m - 1]) ELSE g[k]]
    <3>3. \A k \in 0 .. m : f[k] = IF k = 0 THEN s ELSE Above(par, f[k - 1])
      <4> SUFFICES ASSUME NEW k \in 0 .. m PROVE f[k] = IF k = 0 THEN s ELSE Above(par, f[k - 1])
        OBVIOUS
      <4>1. CASE k = m
        <5>1. m - 1 \in 0 .. m /\ m - 1 # m /\ k # 0
          BY <2>3, <4>1
        <5>2. f[m - 1] = g[m - 1]
          BY <5>1
        <5>3. f[k] = Above(par, g[m - 1])
          BY <4>1
        <5> QED BY <4>1, <5>1, <5>2, <5>3
      <4>2. CASE k # m
        <5>1. k \in 0 .. m - 1 /\ f[k] = g[k]
          BY <4>2
        <5>2. g[k] = IF k = 0 THEN s ELSE Above(par, g[k - 1])
          BY <3>2, <5>1
        <5>3. CASE k = 0
          BY <5>1, <5>2, <5>3
        <5>4. CASE k # 0
          <6>1. k - 1 \in 0 .. m /\ k - 1 # m
            BY <5>4
          <6>2. f[k - 1] = g[k - 1]
            BY <6>1
          <6> QED BY <5>1, <5>2, <5>4, <6>2
        <5> QED BY <5>3, <5>4
      <4> QED BY <4>1, <4>2
    <3>4. Chain(f, m)
      <4>1. f = [k \in 0 .. m |-> f[k]]
        OBVIOUS
      <4> HIDE DEF f
      <4> QED BY <3>3, <4>1
    <3> QED BY <3>4
  <2> QED BY <2>2, <2>3
<1> QED BY <1>1 DEF IsChain

LEMMA UpFacts ==
    ASSUME NEW par, NEW s
    PROVE  /\ Cardinality(Streams) \in Nat
           /\ Up(par, s)[0] = s
           /\ \A k \in 0 .. Cardinality(Streams) : Up(par, s)[k + 1] = Above(par, Up(par, s)[k])
<1> DEFINE N == Cardinality(Streams)
           F(f) == f = [k \in 0 .. N + 1 |-> IF k = 0 THEN s ELSE Above(par, f[k - 1])]
<1>1. N \in Nat /\ N + 1 \in Nat
  BY StreamsAssumption, FS_CardinalityType
<1> HIDE DEF N
<1>2. \E f : F(f)
  <2>1. PICK n \in Nat : n = N + 1
    BY <1>1
  <2>2. PICK f : IsChain(f, par, s, n)
    BY ChainExists
  <2>3. F(f)
    BY <2>1, <2>2 DEF IsChain
  <2> QED BY <2>3
<1>3. Up(par, s) = CHOOSE f : F(f)
  BY DEF Up, N
<1> DEFINE u == Up(par, s)
<1>4. F(u)
  BY <1>2, <1>3
<1> HIDE DEF u
<1>5. u[0] = s
  BY <1>1, <1>4
<1>6. ASSUME NEW k \in 0 .. N PROVE u[k + 1] = Above(par, u[k])
  <2>1. k + 1 \in 0 .. N + 1 /\ k + 1 # 0 /\ (k + 1) - 1 = k
    BY <1>1
  <2>2. u[k + 1] = IF k + 1 = 0 THEN s ELSE Above(par, u[(k + 1) - 1])
    BY <1>4, <2>1
  <2> QED BY <2>1, <2>2
<1> QED BY <1>1, <1>5, <1>6 DEF u, N

LEMMA RootOutside == Root \notin Streams
BY StreamsAssumption DEF Root

(* The chain of a node stays in the tree, and stays at Root.               *)
LEMMA ChainStays ==
    ASSUME NEW par, NEW D, Tree(par, D), NEW s \in D \cup {Root}
    PROVE  \A k \in 0 .. Cardinality(Streams) + 1 : Up(par, s)[k] \in D \cup {Root}
<1> DEFINE N == Cardinality(Streams)
           u == Up(par, s)
           T == {k \in 0 .. N + 1 : u[k] \notin D \cup {Root}}
<1>1. N \in Nat /\ u[0] = s /\ \A k \in 0 .. N : u[k + 1] = Above(par, u[k])
  BY UpFacts
<1> HIDE DEF u, N
<1> SUFFICES ASSUME T # {} PROVE FALSE
  BY DEF u, N
<1>2. T \subseteq Nat
  BY <1>1
<1>3. PICK m \in T : \A k \in T : m <= k
  BY <1>2, LeastNat
<1>4. m # 0
  BY <1>1
<1>5. m - 1 \in 0 .. N /\ m - 1 \in 0 .. N + 1 /\ ~(m <= m - 1) /\ (m - 1) + 1 = m
  BY <1>1, <1>4
<1>6. u[m - 1] \in D \cup {Root}
  BY <1>3, <1>5
<1>7. u[(m - 1) + 1] = Above(par, u[m - 1])
  BY <1>1, <1>5
<1>8. Above(par, u[m - 1]) \in D \cup {Root}
  BY <1>6 DEF Above, Tree, Rooted
<1> QED BY <1>5, <1>7, <1>8

LEMMA RootStays ==
    ASSUME NEW par, NEW s, NEW i \in 0 .. Cardinality(Streams) + 1, Up(par, s)[i] = Root
    PROVE  \A k \in i .. Cardinality(Streams) + 1 : Up(par, s)[k] = Root
<1> DEFINE N == Cardinality(Streams)
           u == Up(par, s)
           T == {k \in i .. N + 1 : u[k] # Root}
<1>1. N \in Nat /\ \A k \in 0 .. N : u[k + 1] = Above(par, u[k])
  BY UpFacts
<1>1a. i \in 0 .. N + 1 /\ u[i] = Root
  OBVIOUS
<1> HIDE DEF u, N
<1> SUFFICES ASSUME T # {} PROVE FALSE
  BY DEF u, N
<1>2. T \subseteq Nat
  BY <1>1, <1>1a
<1>3. PICK m \in T : \A k \in T : m <= k
  BY <1>2, LeastNat
<1>4. m # i
  BY <1>1a
<1>5. m - 1 \in i .. N + 1 /\ m - 1 \in 0 .. N /\ ~(m <= m - 1) /\ (m - 1) + 1 = m
  BY <1>1, <1>1a, <1>4
<1>6. u[m - 1] = Root
  BY <1>3, <1>5
<1>7. u[(m - 1) + 1] = Above(par, u[m - 1])
  BY <1>1, <1>5
<1> QED BY <1>5, <1>6, <1>7 DEF Above

(* Among one more node than there are, one comes twice: the chain of a     *)
(* node of the tree ends at Root.                                          *)
LEMMA ChainEnds ==
    ASSUME NEW par, NEW D, Tree(par, D), NEW s \in D
    PROVE  Up(par, s)[Cardinality(Streams) + 1] = Root
<1> DEFINE N == Cardinality(Streams)
           u == Up(par, s)
<1>1. N \in Nat /\ \A k \in 0 .. N : u[k + 1] = Above(par, u[k])
  BY UpFacts
<1>2. \A k \in 0 .. N + 1 : u[k] \in D \cup {Root}
  BY ChainStays
<1>3. \A i \in 0 .. N + 1 : u[i] = Root => \A k \in i .. N + 1 : u[k] = Root
  BY RootStays
<1> SUFFICES ASSUME u[N + 1] # Root PROVE FALSE
  OBVIOUS
<1> HIDE DEF u
<1>4. \A k \in 0 .. N + 1 : u[k] # Root /\ u[k] \in D /\ u[k] \in Streams
  <2>1. \A k \in 0 .. N + 1 : N + 1 \in k .. N + 1
    BY <1>1
  <2> QED BY <1>2, <1>3, <2>1 DEF Tree
<1> DEFINE r == [k \in 1 .. N + 1 |-> u[k]]
<1>5. r \in Seq(Streams) /\ Len(r) = N + 1
  <2>1. N + 1 \in Nat /\ \A k \in 1 .. N + 1 : u[k] \in Streams
    BY <1>1, <1>4
  <2> HIDE DEF N
  <2> QED BY <2>1
<1>6. \A k \in 1 .. N + 1 : r[k] = u[k]
  OBVIOUS
<1> HIDE DEF r
<1>7. \E i, j \in 1 .. N + 1 : u[i] = u[j] /\ i # j
  <2> SUFFICES ASSUME \A i, j \in 1 .. N + 1 : u[i] = u[j] => i = j PROVE FALSE
    OBVIOUS
  <2>1. \A i, j \in 1 .. Len(r) : r[i] = r[j] => i = j
    BY <1>5, <1>6
  <2>2. Len(r) <= N
    BY <1>5, <2>1, DistinctLen, StreamsAssumption
  <2> QED BY <1>1, <1>5, <2>2
<1>8. \E i, j \in 1 .. N + 1 : u[i] = u[j] /\ i < j
  BY <1>1, <1>7
<1>9. PICK i \in 1 .. N + 1, j \in 1 .. N + 1 : u[i] = u[j] /\ i < j
  BY <1>8
<1> HIDE DEF N
<1> DEFINE C == {u[k] : k \in i .. j - 1}
<1>10. C \in SUBSET D
  BY <1>1, <1>4
<1>11. C # {}
  <2>1. i \in i .. j - 1
    BY <1>1, <1>9
  <2> QED BY <2>1
<1>12. ASSUME NEW k \in i .. j - 1 PROVE par[u[k]] \in C
  <2>1. k \in 0 .. N + 1 /\ k \in 0 .. N
    BY <1>1
  <2>2. u[k + 1] = par[u[k]]
    BY <1>1, <1>4, <2>1 DEF Above
  <2>3. CASE k + 1 = j
    <3>1. i \in i .. j - 1
      BY <1>1, <1>9
    <3> QED BY <1>9, <2>2, <2>3, <3>1
  <2>4. CASE k + 1 # j
    <3>1. k + 1 \in i .. j - 1
      BY <1>1, <2>4
    <3> QED BY <2>2, <3>1
  <2> QED BY <2>3, <2>4
<1> QED BY <1>10, <1>11, <1>12 DEF Tree, Grounded

(* Of two nodes at most one is above the other, and none above itself.     *)
LEMMA NoCycle ==
    ASSUME NEW par, NEW D, Tree(par, D), NEW s \in D, NEW d \in D,
           NEW k \in 1 .. Cardinality(Streams) + 1, Up(par, d)[k] = s,
           NEW m \in 1 .. Cardinality(Streams) + 1, Up(par, s)[m] = d
    PROVE  FALSE
<1> DEFINE N == Cardinality(Streams)
           u == Up(par, d)
           v == Up(par, s)
<1>1. /\ N \in Nat /\ u[0] = d /\ v[0] = s
      /\ \A i \in 0 .. N : u[i + 1] = Above(par, u[i])
      /\ \A i \in 0 .. N : v[i + 1] = Above(par, v[i])
  BY UpFacts
<1>2. \A i \in 0 .. N + 1 : u[i] \in D \cup {Root} /\ v[i] \in D \cup {Root}
  BY ChainStays
<1>3. /\ \A i \in 0 .. N + 1 : u[i] = Root => \A j \in i .. N + 1 : u[j] = Root
      /\ \A i \in 0 .. N + 1 : v[i] = Root => \A j \in i .. N + 1 : v[j] = Root
  BY RootStays
<1>4. k \in 1 .. N + 1 /\ m \in 1 .. N + 1 /\ u[k] = s /\ v[m] = d /\ s # Root /\ d # Root
  BY RootOutside DEF Tree
<1> HIDE DEF N, u, v
<1>5. \A i \in 0 .. k - 1 : u[i] # Root /\ u[i] \in D
  <2>1. \A i \in 0 .. k - 1 : i \in 0 .. N + 1 /\ k \in i .. N + 1
    BY <1>1, <1>4
  <2> QED BY <1>2, <1>3, <1>4, <2>1
<1>6. \A i \in 0 .. m - 1 : v[i] # Root /\ v[i] \in D
  <2>1. \A i \in 0 .. m - 1 : i \in 0 .. N + 1 /\ m \in i .. N + 1
    BY <1>1, <1>4
  <2> QED BY <1>2, <1>3, <1>4, <2>1
<1> DEFINE C == {u[i] : i \in 0 .. k - 1} \cup {v[i] : i \in 0 .. m - 1}
<1>7. C \in SUBSET D
  BY <1>5, <1>6
<1>8. d \in C /\ s \in C
  <2>1. 0 \in 0 .. k - 1 /\ 0 \in 0 .. m - 1
    BY <1>1, <1>4
  <2> QED BY <1>1, <2>1
<1>9. ASSUME NEW i \in 0 .. k - 1 PROVE par[u[i]] \in C
  <2>1. i \in 0 .. N /\ (i + 1 = k \/ i + 1 \in 0 .. k - 1)
    BY <1>1, <1>4
  <2>2. u[i + 1] = par[u[i]]
    BY <1>1, <1>5, <2>1 DEF Above
  <2> QED BY <1>4, <1>8, <2>1, <2>2
<1>10. ASSUME NEW i \in 0 .. m - 1 PROVE par[v[i]] \in C
  <2>1. i \in 0 .. N /\ (i + 1 = m \/ i + 1 \in 0 .. m - 1)
    BY <1>1, <1>4
  <2>2. v[i + 1] = par[v[i]]
    BY <1>1, <1>6, <2>1 DEF Above
  <2> QED BY <1>4, <1>8, <2>1, <2>2
<1>11. \A x \in C : par[x] \in C
  BY <1>9, <1>10
<1> QED BY <1>7, <1>8, <1>11 DEF Tree, Grounded

(* The ancestors of a node, Root aside, are a path of the tree.            *)
LEMMA AncestorsFacts ==
    ASSUME NEW par, NEW D, Tree(par, D), NEW s \in D
    PROVE  /\ Ancestors(par, s) \subseteq D \cup {Root}
           /\ s \notin Ancestors(par, s)
           /\ par[s] \in Ancestors(par, s)
           /\ \A a \in Ancestors(par, s) \ {Root} : par[a] \in Ancestors(par, s)
<1> DEFINE N == Cardinality(Streams)
           u == Up(par, s)
           A == Ancestors(par, s)
<1>1. /\ N \in Nat /\ u[0] = s /\ u[N + 1] = Root
      /\ \A k \in 0 .. N : u[k + 1] = Above(par, u[k])
  BY UpFacts, ChainEnds
<1>2. \A k \in 0 .. N + 1 : u[k] \in D \cup {Root}
  BY ChainStays
<1>3. \A k \in 1 .. N + 1 : u[k] # s
  BY NoCycle
<1>4. A = {u[k] : k \in 1 .. N + 1} \ {s}
  BY DEF Ancestors
<1>5. s # Root
  BY RootOutside DEF Tree
<1> HIDE DEF u, A, N
<1>6. A = {u[k] : k \in 1 .. N + 1}
  BY <1>3, <1>4
<1>7. A \subseteq D \cup {Root} /\ s \notin A
  BY <1>1, <1>2, <1>4, <1>6
<1>8. par[s] \in A
  <2>1. 0 \in 0 .. N /\ 0 + 1 = 1 /\ 1 \in 1 .. N + 1
    BY <1>1
  <2>2. u[1] = par[s]
    <3>1. u[0 + 1] = Above(par, u[0])
      BY <1>1, <2>1
    <3> QED BY <1>1, <1>5, <2>1, <3>1 DEF Above
  <2> QED BY <1>6, <2>1, <2>2
<1>9. ASSUME NEW a \in A \ {Root} PROVE par[a] \in A
  <2>1. PICK k \in 1 .. N + 1 : a = u[k]
    BY <1>6
  <2>2. k # N + 1
    BY <1>1, <2>1
  <2>3. k \in 0 .. N /\ k + 1 \in 1 .. N + 1
    BY <1>1, <2>2
  <2>4. u[k + 1] = par[a]
    BY <1>1, <2>1, <2>3 DEF Above
  <2> QED BY <1>6, <2>3, <2>4
<1> QED BY <1>7, <1>8, <1>9 DEF A

LEMMA NotBoth ==
    ASSUME NEW par, NEW D, Tree(par, D), NEW s \in D, NEW d \in D, s \in Ancestors(par, d)
    PROVE  d \notin Ancestors(par, s)
BY NoCycle DEF Ancestors

LEMMA RootHasNone ==
    ASSUME NEW par, NEW s, s \in Ancestors(par, Root)
    PROVE  FALSE
<1>1. Cardinality(Streams) \in Nat /\ Up(par, Root)[0] = Root
  BY UpFacts
<1>2. 0 \in 0 .. Cardinality(Streams) + 1
  BY <1>1
<1>3. \A k \in 0 .. Cardinality(Streams) + 1 : Up(par, Root)[k] = Root
  BY <1>1, <1>2, RootStays
<1> QED BY <1>1, <1>3 DEF Ancestors

-----------------------------------------------------------------------------
(* What the operations on nodes do to a tree.                              *)
LEMMA AddTree ==
    ASSUME NEW par, NEW D, Tree(par, D), NEW s \in Streams \ D, NEW p \in D \cup {Root}
    PROVE  Tree([par EXCEPT ![s] = p], D \cup {s})
<1> DEFINE b == [par EXCEPT ![s] = p]
           E == D \cup {s}
<1>1. par \in [Streams -> Streams \cup {Root}] /\ D \subseteq Streams /\ Rooted(par, D) /\ Grounded(par, D)
  BY DEF Tree
<1>2. /\ b \in [Streams -> Streams \cup {Root}] /\ E \subseteq Streams
      /\ b[s] = p /\ \A t \in D : b[t] = par[t]
  BY <1>1
<1> HIDE DEF b
<1>3. Rooted(b, E)
  BY <1>1, <1>2 DEF Rooted
<1>4. ASSUME NEW C \in SUBSET E, C # {}, \A t \in C : b[t] \in C PROVE FALSE
  <2>1. p # s /\ s # Root
    BY <1>1, RootOutside
  <2>2. C \ {s} \in SUBSET D
    OBVIOUS
  <2>3. C \ {s} # {}
    <3>1. s \in C => p \in C
      BY <1>2, <1>4
    <3> QED BY <1>4, <2>1, <3>1
  <2>4. PICK t \in C \ {s} : par[t] \notin C \ {s}
    BY <1>1, <2>2, <2>3 DEF Grounded
  <2>5. t \in D /\ par[t] \in C /\ par[t] = s
    BY <1>2, <1>4, <2>2, <2>4
  <2> QED BY <1>1, <2>1, <2>5 DEF Rooted
<1> QED BY <1>2, <1>3, <1>4 DEF Tree, Grounded, b

LEMMA RemoveTree ==
    ASSUME NEW par, NEW D, Tree(par, D), NEW g \in Streams
    PROVE  Tree(removeNode(par, {g}), D \ {g})
<1> DEFINE b == removeNode(par, {g})
           E == D \ {g}
<1>1. par \in [Streams -> Streams \cup {Root}] /\ D \subseteq Streams /\ Rooted(par, D) /\ Grounded(par, D)
  BY DEF Tree
<1>2. /\ E \subseteq Streams /\ DOMAIN b = Streams
      /\ \A t \in Streams : b[t] = IF t # g /\ par[t] = g THEN par[g] ELSE par[t]
  BY <1>1 DEF removeNode
<1>3. b \in [Streams -> Streams \cup {Root}]
  <2>1. b = [t \in Streams |-> IF t # g /\ par[t] = g THEN par[g] ELSE par[t]]
    BY DEF removeNode
  <2> HIDE DEF b
  <2> QED BY <1>1, <2>1
<1> HIDE DEF b
<1>4. g \in D => par[g] # g
  <2> SUFFICES ASSUME g \in D, par[g] = g PROVE FALSE
    OBVIOUS
  <2>1. {g} \in SUBSET D /\ {g} # {}
    OBVIOUS
  <2>2. PICK t \in {g} : par[t] \notin {g}
    BY <1>1, <2>1 DEF Grounded
  <2> QED BY <2>2
<1>5. \A t \in D : par[t] = g => g \in D
  BY <1>1, RootOutside DEF Rooted
<1>6. Rooted(b, E)
  BY <1>1, <1>2, <1>4, <1>5 DEF Rooted
<1>7. ASSUME NEW C \in SUBSET E, C # {}, \A t \in C : b[t] \in C PROVE FALSE
  <2>1. CASE \E t \in C : par[t] = g
    <3>1. PICK t \in C : par[t] = g
      BY <2>1
    <3>2. g \in D /\ par[g] \in C
      BY <1>1, <1>2, <1>5, <1>7, <3>1
    <3> DEFINE K == C \cup {g}
    <3>3. K \in SUBSET D /\ K # {}
      BY <3>2
    <3>4. \A x \in K : par[x] \in K
      BY <1>1, <1>2, <1>7, <3>2
    <3> QED BY <1>1, <3>3, <3>4 DEF Grounded
  <2>2. CASE ~ \E t \in C : par[t] = g
    <3>1. C \in SUBSET D /\ \A t \in C : par[t] \in C
      BY <1>1, <1>2, <1>7, <2>2
    <3> QED BY <1>1, <1>7, <3>1 DEF Grounded
  <2> QED BY <2>1, <2>2
<1> QED BY <1>2, <1>3, <1>6, <1>7 DEF Tree, Grounded, b

LEMMA RemoveNone ==
    ASSUME NEW par \in [Streams -> Streams \cup {Root}]
    PROVE  removeNode(par, {}) = par
BY DEF removeNode

LEMMA SetParentFacts ==
    ASSUME NEW par \in [Streams -> Streams \cup {Root}], NEW ns, NEW p \in Streams \cup {Root}
    PROVE  /\ setParent(par, ns, p) \in [Streams -> Streams \cup {Root}]
           /\ \A t \in Streams : setParent(par, ns, p)[t] = IF t \in ns THEN p ELSE par[t]
BY DEF setParent

LEMMA UnderRoot ==
    ASSUME NEW par, NEW D, Tree(par, D), NEW s \in D
    PROVE  Tree(setParent(par, {s}, Root), D)
<1> DEFINE b == setParent(par, {s}, Root)
<1>1. par \in [Streams -> Streams \cup {Root}] /\ D \subseteq Streams /\ Rooted(par, D) /\ Grounded(par, D)
  BY DEF Tree
<1>2. /\ b \in [Streams -> Streams \cup {Root}]
      /\ \A t \in Streams : b[t] = IF t \in {s} THEN Root ELSE par[t]
  BY <1>1, SetParentFacts
<1> HIDE DEF b
<1>3. Rooted(b, D)
  BY <1>1, <1>2 DEF Rooted
<1>4. ASSUME NEW C \in SUBSET D, C # {}, \A t \in C : b[t] \in C PROVE FALSE
  <2>1. s \notin C
    BY <1>1, <1>2, <1>4, RootOutside
  <2>2. \A t \in C : par[t] \in C
    BY <1>1, <1>2, <1>4, <2>1
  <2> QED BY <1>1, <1>4, <2>2 DEF Grounded
<1> QED BY <1>1, <1>2, <1>3, <1>4 DEF Tree, Grounded, b

(* A node comes under d, whose path A to the root it is not on, and takes  *)
(* over kids of d.                                                         *)
LEMMA AdoptTree ==
    ASSUME NEW par, NEW D, Tree(par, D), NEW s \in D, NEW A, A \subseteq D, s \notin A,
           \A a \in A : par[a] \in A \cup {Root},
           NEW d \in A \cup {Root},
           NEW K, s \notin K, \A x \in K \cap D : par[x] = d
    PROVE  Tree(setParent(setParent(par, K, s), {s}, d), D)
<1> DEFINE m == setParent(par, K, s)
           b == setParent(m, {s}, d)
<1>1. par \in [Streams -> Streams \cup {Root}] /\ D \subseteq Streams /\ Rooted(par, D) /\ Grounded(par, D)
  BY DEF Tree
<1>2. s \in Streams /\ d \in Streams \cup {Root} /\ d \in D \cup {Root} /\ Root \notin D
  BY <1>1, RootOutside
<1>3. /\ m \in [Streams -> Streams \cup {Root}]
      /\ \A t \in Streams : m[t] = IF t \in K THEN s ELSE par[t]
  BY <1>1, <1>2, SetParentFacts
<1> HIDE DEF m
<1>4. /\ b \in [Streams -> Streams \cup {Root}]
      /\ \A t \in Streams : b[t] = IF t \in {s} THEN d ELSE m[t]
  BY <1>2, <1>3, SetParentFacts
<1> HIDE DEF b
<1>5. /\ b[s] = d
      /\ \A t \in D \cap K : b[t] = s
      /\ \A t \in D \ K : t # s => b[t] = par[t]
  BY <1>1, <1>2, <1>3, <1>4
<1>6. Rooted(b, D)
  BY <1>1, <1>2, <1>5 DEF Rooted
<1>7. ASSUME NEW C \in SUBSET D, C # {}, \A t \in C : b[t] \in C PROVE FALSE
  <2>1. CASE s \notin C
    <3>1. \A t \in C : par[t] \in C
      BY <1>5, <1>7, <2>1
    <3> QED BY <1>1, <1>7, <3>1 DEF Grounded
  <2>2. CASE s \in C
    <3>1. d \in C /\ d \in A
      BY <1>2, <1>5, <1>7, <2>2
    <3> DEFINE B == A \cap C
    <3>2. B \in SUBSET D /\ B # {}
      BY <3>1
    <3>3. ASSUME NEW a \in B PROVE par[a] \in B
      <4>1. CASE a \in K
        BY <3>1, <4>1
      <4>2. CASE a \notin K
        <5>1. par[a] \in C
          BY <1>5, <1>7, <4>2
        <5> QED BY <1>2, <5>1
      <4> QED BY <4>1, <4>2
    <3> QED BY <1>1, <3>2, <3>3 DEF Grounded
  <2> QED BY <2>1, <2>2
<1> QED BY <1>1, <1>4, <1>6, <1>7 DEF Tree, Grounded, b, m

(* A node that depends on s takes the place of s.                          *)
LEMMA MovedTree ==
    ASSUME NEW par, NEW D, Tree(par, D), NEW s \in D, NEW d \in D, s # d, s \in Ancestors(par, d)
    PROVE  \E m, A : /\ m = setParent(par, {d}, par[s]) /\ Tree(m, D)
                     /\ A \subseteq D /\ s \notin A /\ d \in A
                     /\ \A a \in A : m[a] \in A \cup {Root}
<1> DEFINE m == setParent(par, {d}, par[s])
           B == Ancestors(par, s) \ {Root}
           A == {d} \cup B
<1>1. par \in [Streams -> Streams \cup {Root}] /\ D \subseteq Streams /\ Rooted(par, D) /\ Grounded(par, D)
  BY DEF Tree
<1>2. /\ B \subseteq D /\ s \notin B /\ d \notin B
      /\ par[s] \in B \cup {Root}
      /\ \A a \in B : par[a] \in B \cup {Root}
  BY AncestorsFacts, NotBoth
<1>3. Root \notin D
  BY <1>1, RootOutside
<1> HIDE DEF B
<1>4. /\ m \in [Streams -> Streams \cup {Root}]
      /\ \A t \in Streams : m[t] = IF t \in {d} THEN par[s] ELSE par[t]
  <2>1. par[s] \in Streams \cup {Root}
    BY <1>1
  <2> QED BY <1>1, <2>1, SetParentFacts
<1> HIDE DEF m
<1>5. m[d] = par[s] /\ \A t \in D \ {d} : m[t] = par[t]
  BY <1>1, <1>4
<1>6. Rooted(m, D)
  BY <1>1, <1>5 DEF Rooted
<1>7. ASSUME NEW C \in SUBSET D, C # {}, \A t \in C : m[t] \in C PROVE FALSE
  <2>1. CASE d \notin C
    <3>1. \A t \in C : par[t] \in C
      BY <1>5, <1>7, <2>1
    <3> QED BY <1>1, <1>7, <3>1 DEF Grounded
  <2>2. CASE d \in C
    <3>1. par[s] \in C /\ par[s] \in B
      BY <1>2, <1>3, <1>5, <1>7, <2>2
    <3> DEFINE G == B \cap C
    <3>2. G \in SUBSET D /\ G # {}
      BY <3>1
    <3>3. \A a \in G : par[a] \in G
      BY <1>2, <1>3, <1>5, <1>7
    <3> QED BY <1>1, <3>2, <3>3 DEF Grounded
  <2> QED BY <2>1, <2>2
<1>8. Tree(m, D)
  BY <1>1, <1>4, <1>6, <1>7 DEF Tree, Grounded
<1>9. A \subseteq D /\ s \notin A /\ d \in A /\ \A a \in A : m[a] \in A \cup {Root}
  BY <1>2, <1>5
<1> QED BY <1>8, <1>9 DEF m

(* AdjustStream moves nodes, and leaves a tree.                            *)
LEMMA ReparentTree ==
    ASSUME NEW par, NEW D, Tree(par, D), NEW s \in D, NEW d \in D \cup {Root}, d # s,
           NEW x \in BOOLEAN
    PROVE  Tree(Reparent(par, s, d, x), D)
<1> DEFINE m == IF s \in Ancestors(par, d) THEN setParent(par, {d}, par[s]) ELSE par
           K == IF x THEN Kids(m, d) \ {s} ELSE {}
<1>1. \E A : /\ Tree(m, D) /\ A \subseteq D /\ s \notin A /\ d \in A \cup {Root}
             /\ \A a \in A : m[a] \in A \cup {Root}
  <2>1. CASE d = Root
    <3>1. m = par
      BY <2>1, RootHasNone
    <3> HIDE DEF m
    <3> DEFINE A == {}
    <3>2. /\ Tree(m, D) /\ A \subseteq D /\ s \notin A /\ d \in A \cup {Root}
          /\ \A a \in A : m[a] \in A \cup {Root}
      BY <2>1, <3>1
    <3> HIDE DEF A
    <3> QED BY <3>2
  <2>2. CASE d \in D /\ s \in Ancestors(par, d)
    <3>1. PICK n, A : /\ n = setParent(par, {d}, par[s]) /\ Tree(n, D)
                      /\ A \subseteq D /\ s \notin A /\ d \in A
                      /\ \A a \in A : n[a] \in A \cup {Root}
      BY <2>2, MovedTree
    <3>2. m = n
      BY <2>2, <3>1
    <3> HIDE DEF m
    <3> WITNESS A
    <3> QED BY <3>1, <3>2
  <2>3. CASE d \in D /\ s \notin Ancestors(par, d)
    <3> DEFINE B == Ancestors(par, d) \ {Root}
               A == {d} \cup B
    <3>1. /\ B \subseteq D /\ par[d] \in B \cup {Root}
          /\ \A a \in B : par[a] \in B \cup {Root}
      BY <2>3, AncestorsFacts
    <3>2. m = par /\ s \notin B
      BY <2>3
    <3> HIDE DEF m, B
    <3>3. A \subseteq D /\ s \notin A /\ d \in A /\ \A a \in A : m[a] \in A \cup {Root}
      BY <2>3, <3>1, <3>2
    <3> HIDE DEF A
    <3> WITNESS A
    <3> QED BY <3>2, <3>3
  <2> QED BY <2>1, <2>2, <2>3
<1>2. s \notin K /\ \A y \in K \cap D : m[y] = d
  <2> HIDE DEF m
  <2> QED BY DEF Kids
<1>3. Reparent(par, s, d, x) = setParent(setParent(m, K, s), {s}, d)
  <2>1. m \in [Streams -> Streams \cup {Root}]
    BY <1>1 DEF Tree
  <2>2. Reparent(par, s, d, x)
          = setParent(IF x THEN setParent(m, Kids(m, d) \ {s}, s) ELSE m, {s}, d)
    BY DEF Reparent
  <2> HIDE DEF m
  <2>3. ~x => setParent(m, K, s) = m
    BY <2>1 DEF setParent
  <2> QED BY <2>2, <2>3
<1> HIDE DEF m, K
<1>4. Tree(setParent(setParent(m, K, s), {s}, d), D)
  <2>1. PICK A : /\ Tree(m, D) /\ A \subseteq D /\ s \notin A /\ d \in A \cup {Root}
                 /\ \A a \in A : m[a] \in A \cup {Root}
    BY <1>1
  <2> QED BY <1>2, <2>1, AdoptTree
<1> QED BY <1>3, <1>4

-----------------------------------------------------------------------------
(* The nodes that are no streams of the server's any more, or not yet, are *)
(* on the lists, and the lists are bounded.                                *)
Members(list) == {list[i] : i \in 1 .. Len(list)}

Types ==
    /\ state \in [Streams -> {"absent", "open", "closed", "idle"}]
    /\ closedNodes \in Seq(Streams) /\ idleNodes \in Seq(Streams)
    /\ maxID \in Nat

Kept ==
    /\ Len(closedNodes) <= MaxClosedNodesInTree /\ Len(idleNodes) <= MaxIdleNodesInTree
    /\ \A s \in Streams : state[s] = "closed" => s \in Members(closedNodes)
    /\ \A s \in Streams : state[s] = "idle" => s \in Members(idleNodes)

(* A new node, above maxID, is not the one its creation evicts.            *)
Below == \A s \in Members(idleNodes) : s <= maxID

Present == {s \in Streams : state[s] # "absent"}

TreeInv == Types /\ Tree(parent, Present) /\ Kept /\ Below

LEMMA MembersBound ==
    ASSUME NEW list \in Seq(Streams), NEW P, P \subseteq Members(list)
    PROVE  Cardinality(P) <= Len(list)
<1>1. Len(list) \in Nat
  OBVIOUS
<1>2. IsFiniteSet(1 .. Len(list)) /\ Cardinality(1 .. Len(list)) = Len(list)
  BY <1>1, FS_Interval, SMTT(30)
<1> DEFINE f == [i \in 1 .. Len(list) |-> list[i]]
<1>3. f \in Surjection(1 .. Len(list), Members(list))
  BY DEF Surjection, Members
<1>4. IsFiniteSet(Members(list)) /\ Cardinality(Members(list)) <= Cardinality(1 .. Len(list))
  BY <1>2, <1>3, FS_Surjection
<1>5. IsFiniteSet(P) /\ Cardinality(P) <= Cardinality(Members(list))
  BY <1>4, FS_Subset
<1> QED BY <1>1, <1>2, <1>4, <1>5, FS_CardinalityType

(* addClosedOrIdleNode: what leaves the list leaves the tree.              *)
LEMMA ListFacts ==
    ASSUME NEW list \in Seq(Streams), NEW max \in Nat \ {0}, Len(list) <= max, NEW s \in Streams
    PROVE  /\ Added(list, max, s) \in Seq(Streams)
           /\ Len(Added(list, max, s)) <= max
           /\ \A t \in Members(list) : t \in Evicted(list, max) \/ t \in Members(Added(list, max, s))
           /\ s \in Members(Added(list, max, s))
           /\ Members(Added(list, max, s)) \subseteq Members(list) \cup {s}
           /\ Evicted(list, max) = {} \/ \E g \in Members(list) : Evicted(list, max) = {g}
<1> DEFINE r == IF Len(list) = max THEN Tail(list) ELSE list
           a == Append(r, s)
<1>1. Len(list) \in Nat
  OBVIOUS
<1>2. /\ r \in Seq(Streams) /\ Len(r) \in Nat /\ Len(r) < max
      /\ Members(r) \subseteq Members(list)
      /\ \A t \in Members(list) : t \in Evicted(list, max) \/ t \in Members(r)
      /\ Evicted(list, max) = {} \/ \E g \in Members(list) : Evicted(list, max) = {g}
  <2>1. CASE Len(list) = max
    <3>0. r = Tail(list) /\ list # <<>> /\ 1 \in 1 .. Len(list) /\ Evicted(list, max) = {list[1]}
      BY <1>1, <2>1 DEF Evicted
    <3>1. /\ r \in Seq(Streams) /\ Len(r) = Len(list) - 1
          /\ \A i \in 1 .. Len(list) - 1 : r[i] = list[i + 1]
      BY <3>0
    <3> HIDE DEF r
    <3>2. \A i \in 1 .. Len(r) : i + 1 \in 1 .. Len(list) /\ r[i] = list[i + 1]
      BY <1>1, <3>1
    <3>3. \A i \in 1 .. Len(list) : i = 1 \/ (i - 1 \in 1 .. Len(r) /\ (i - 1) + 1 = i)
      BY <1>1, <3>1
    <3>4. Members(r) \subseteq Members(list)
      BY <3>2 DEF Members
    <3>5. ASSUME NEW t \in Members(list) PROVE t \in Evicted(list, max) \/ t \in Members(r)
      <4>1. PICK i \in 1 .. Len(list) : t = list[i]
        BY DEF Members
      <4>2. CASE i = 1
        BY <3>0, <4>1, <4>2
      <4>3. CASE i # 1
        <5>1. i - 1 \in 1 .. Len(r) /\ r[i - 1] = list[i]
          BY <3>2, <3>3, <4>3
        <5> QED BY <4>1, <5>1 DEF Members
      <4> QED BY <4>2, <4>3
    <3>6. list[1] \in Members(list)
      BY <3>0 DEF Members
    <3> QED BY <1>1, <2>1, <3>0, <3>1, <3>4, <3>5, <3>6
  <2>2. CASE Len(list) # max
    BY <1>1, <2>2 DEF Evicted
  <2> QED BY <2>1, <2>2
<1>3. Added(list, max, s) = a
  BY DEF Added
<1> HIDE DEF r
<1>4. /\ a \in Seq(Streams) /\ Len(a) = Len(r) + 1 /\ a[Len(r) + 1] = s
      /\ \A i \in 1 .. Len(r) : a[i] = r[i]
  BY <1>2
<1> HIDE DEF a
<1>5. Members(a) = Members(r) \cup {s}
  <2>1. ASSUME NEW t \in Members(a) PROVE t \in Members(r) \cup {s}
    <3>1. PICK i \in 1 .. Len(a) : t = a[i]
      BY DEF Members
    <3>2. i = Len(r) + 1 \/ i \in 1 .. Len(r)
      BY <1>2, <1>4
    <3> QED BY <1>4, <3>1, <3>2 DEF Members
  <2>2. s \in Members(a)
    <3>1. Len(r) + 1 \in 1 .. Len(a)
      BY <1>2, <1>4
    <3> QED BY <1>4, <3>1 DEF Members
  <2>3. Members(r) \subseteq Members(a)
    <3>1. \A i \in 1 .. Len(r) : i \in 1 .. Len(a) /\ a[i] = r[i]
      BY <1>2, <1>4
    <3> QED BY <3>1 DEF Members
  <2> QED BY <2>1, <2>2, <2>3
<1>6. Len(a) <= max
  BY <1>2, <1>4
<1> QED BY <1>2, <1>3, <1>4, <1>5, <1>6

LEMMA RemoveFacts ==
    ASSUME NEW st \in [Streams -> {"absent", "open", "closed", "idle"}], NEW gone
    PROVE  /\ Remove(st, gone) \in [Streams -> {"absent", "open", "closed", "idle"}]
           /\ \A t \in Streams : Remove(st, gone)[t] = IF t \in gone THEN "absent" ELSE st[t]
BY DEF Remove

-----------------------------------------------------------------------------
(* TreeInv holds at the start, and every action keeps it.                  *)
LEMMA InitHolds == ASSUME Init PROVE TreeInv
<1>1. /\ state = [s \in Streams |-> "absent"] /\ parent = [s \in Streams |-> Root]
      /\ closedNodes = <<>> /\ idleNodes = <<>> /\ maxID = 0
  BY DEF Init
<1>2. Types
  BY <1>1 DEF Types
<1>3. Present = {}
  BY <1>1 DEF Present
<1>4. Tree(parent, Present)
  BY <1>1, <1>3 DEF Tree, Rooted, Grounded
<1>5. Kept /\ Below
  <2>1. Len(closedNodes) = 0 /\ Len(idleNodes) = 0
    BY <1>1
  <2>2. 1 .. Len(idleNodes) = {}
    BY <2>1
  <2>3. Below
    BY <2>2 DEF Below, Members
  <2>4. Kept
    BY <1>1, <2>1, ListsAssumption DEF Kept
  <2> QED BY <2>3, <2>4
<1> QED BY <1>2, <1>4, <1>5 DEF TreeInv

(* What only moves frames leaves the nodes alone.                          *)
LEMMA NodesKept ==
    ASSUME TreeInv, UNCHANGED <<state, parent, closedNodes, idleNodes, maxID>>
    PROVE  TreeInv'
<1>1. Present' = Present
  BY DEF Present
<1>2. Tree(parent, Present)'
  BY <1>1 DEF TreeInv, Tree, Rooted, Grounded
<1>3. Types' /\ Kept' /\ Below'
  BY DEF TreeInv, Types, Kept, Below, Members
<1> QED BY <1>2, <1>3 DEF TreeInv

LEMMA OpenStreamKeeps ==
    ASSUME TreeInv, NEW s \in Streams, NEW pusher \in Streams \cup {Root}, OpenStream(s, pusher)
    PROVE  TreeInv'
<1>1. /\ Types /\ Tree(parent, Present) /\ Kept /\ Below
      /\ parent \in [Streams -> Streams \cup {Root}]
  BY DEF TreeInv, Tree
<1>2. /\ state' = [state EXCEPT ![s] = "open"] /\ UNCHANGED <<closedNodes, idleNodes>>
      /\ IF state[s] # "absent" THEN UNCHANGED <<parent, maxID>>
         ELSE /\ parent' = [parent EXCEPT ![s] = IF pusher \in Nodes THEN pusher ELSE Root]
              /\ maxID' = IF s > maxID THEN s ELSE maxID
  BY DEF OpenStream
<1>3. maxID' \in Nat /\ maxID' >= maxID /\ maxID \in Nat
  BY <1>1, <1>2, StreamsAssumption DEF Types
<1>4. Types'
  BY <1>1, <1>2, <1>3 DEF Types
<1>5. Kept'
  BY <1>1, <1>2 DEF Kept, Types, Members
<1>6. Below'
  <2>1. idleNodes' = idleNodes
    BY <1>2
  <2>2. Members(idleNodes) \subseteq Nat
    <3>1. Members(idleNodes) \subseteq Streams
      BY <1>1 DEF Types, Members
    <3> QED BY <3>1, StreamsAssumption
  <2>3. \A t \in Members(idleNodes) : t <= maxID'
    BY <1>1, <1>3, <2>2 DEF Below
  <2> QED BY <2>1, <2>3 DEF Below
<1>7. Present' = Present \cup {s}
  BY <1>1, <1>2 DEF Present, Types
<1>8. Tree(parent', Present')
  <2>1. CASE state[s] # "absent"
    <3>1. Present' = Present /\ parent' = parent
      BY <1>2, <1>7, <2>1 DEF Present
    <3> QED BY <1>1, <3>1
  <2>2. CASE state[s] = "absent"
    <3>1. s \in Streams \ Present
      BY <2>2 DEF Present
    <3>2. PICK p \in Present \cup {Root} : p = IF pusher \in Nodes THEN pusher ELSE Root
      BY DEF Nodes, Present
    <3>3. parent' = [parent EXCEPT ![s] = p]
      BY <1>2, <2>2, <3>2
    <3> QED BY <1>1, <1>7, <3>1, <3>3, AddTree
  <2> QED BY <2>1, <2>2
<1> QED BY <1>4, <1>5, <1>6, <1>8 DEF TreeInv

LEMMA CloseStreamKeeps ==
    ASSUME TreeInv, NEW s \in Streams, CloseStream(s)
    PROVE  TreeInv'
<1>1. /\ Types /\ Tree(parent, Present) /\ Kept /\ Below
      /\ parent \in [Streams -> Streams \cup {Root}]
  BY DEF TreeInv, Tree
<1>2. UNCHANGED <<idleNodes, maxID>>
  BY DEF CloseStream
<1>3. CASE panicked'
  <2>1. UNCHANGED <<state, parent, closedNodes>>
    BY <1>3 DEF CloseStream
  <2> QED BY <1>2, <2>1, NodesKept
<1>4. CASE ~panicked'
  <2> DEFINE gone == IF MaxClosedNodesInTree > 0 THEN Evicted(closedNodes, MaxClosedNodesInTree) ELSE {s}
             st == [state EXCEPT ![s] = "closed"]
  <2>1. /\ state[s] = "open" /\ state' = Remove(st, gone) /\ parent' = removeNode(parent, gone)
        /\ closedNodes' = IF MaxClosedNodesInTree > 0
                          THEN Added(closedNodes, MaxClosedNodesInTree, s) ELSE closedNodes
    BY <1>4 DEF CloseStream
  <2>2. st \in [Streams -> {"absent", "open", "closed", "idle"}]
    BY <1>1 DEF Types
  <2>3. /\ state' \in [Streams -> {"absent", "open", "closed", "idle"}]
        /\ \A t \in Streams : state'[t] = IF t \in gone THEN "absent" ELSE st[t]
    <3> HIDE DEF gone, st
    <3>1. /\ Remove(st, gone) \in [Streams -> {"absent", "open", "closed", "idle"}]
          /\ \A t \in Streams : Remove(st, gone)[t] = IF t \in gone THEN "absent" ELSE st[t]
      BY <2>2, RemoveFacts
    <3> QED BY <2>1, <3>1
  <2>4. \A t \in Streams : st[t] = IF t = s THEN "closed" ELSE state[t]
    BY <1>1 DEF Types
  <2>5. /\ closedNodes' \in Seq(Streams) /\ Len(closedNodes') <= MaxClosedNodesInTree
        /\ \A t \in Members(closedNodes) : t \in gone \/ t \in Members(closedNodes')
        /\ s \in gone \/ s \in Members(closedNodes')
        /\ gone = {} \/ \E g \in Streams : gone = {g}
    <3>1. CASE MaxClosedNodesInTree > 0
      <4>1. MaxClosedNodesInTree \in Nat \ {0}
        BY <3>1, ListsAssumption
      <4>2. closedNodes \in Seq(Streams) /\ Len(closedNodes) <= MaxClosedNodesInTree
        BY <1>1 DEF Types, Kept
      <4>3. closedNodes' = Added(closedNodes, MaxClosedNodesInTree, s)
            /\ gone = Evicted(closedNodes, MaxClosedNodesInTree)
        BY <2>1, <3>1
      <4>4. Members(closedNodes) \subseteq Streams
        BY <4>2 DEF Members
      <4>5. /\ Added(closedNodes, MaxClosedNodesInTree, s) \in Seq(Streams)
            /\ Len(Added(closedNodes, MaxClosedNodesInTree, s)) <= MaxClosedNodesInTree
            /\ \A t \in Members(closedNodes) :
                  \/ t \in Evicted(closedNodes, MaxClosedNodesInTree)
                  \/ t \in Members(Added(closedNodes, MaxClosedNodesInTree, s))
            /\ s \in Members(Added(closedNodes, MaxClosedNodesInTree, s))
            /\ \/ Evicted(closedNodes, MaxClosedNodesInTree) = {}
               \/ \E g \in Members(closedNodes) : Evicted(closedNodes, MaxClosedNodesInTree) = {g}
        BY <4>1, <4>2, ListFacts
      <4> HIDE DEF gone
      <4>6. gone = {} \/ \E g \in Streams : gone = {g}
        BY <4>3, <4>4, <4>5
      <4> QED BY <4>3, <4>5, <4>6
    <3>2. CASE ~(MaxClosedNodesInTree > 0)
      <4>1. closedNodes' = closedNodes /\ gone = {s}
        BY <2>1, <3>2
      <4> HIDE DEF gone
      <4> QED BY <1>1, <4>1 DEF Types, Kept
    <3> QED BY <3>1, <3>2
  <2> HIDE DEF gone, st
  <2>6. Types'
    BY <1>1, <1>2, <2>3, <2>5 DEF Types
  <2>7. Kept'
    <3>1. \A t \in Streams : state'[t] = "closed" => t \in Members(closedNodes')
      BY <1>1, <2>3, <2>4, <2>5 DEF Kept
    <3>2. \A t \in Streams : state'[t] = "idle" => t \in Members(idleNodes)
      BY <1>1, <2>3, <2>4 DEF Kept
    <3> QED BY <1>1, <1>2, <2>5, <3>1, <3>2 DEF Kept, Members
  <2>8. Below'
    BY <1>1, <1>2 DEF Below, Members
  <2>9. Present' = Present \ gone
    BY <2>1, <2>3, <2>4 DEF Present
  <2>10. Tree(parent', Present')
    <3>1. CASE gone = {}
      BY <1>1, <2>1, <2>9, <3>1, RemoveNone
    <3>2. CASE \E g \in Streams : gone = {g}
      <4>1. PICK g \in Streams : gone = {g}
        BY <3>2
      <4> QED BY <1>1, <2>1, <2>9, <4>1, RemoveTree
    <3> QED BY <2>5, <3>1, <3>2
  <2> QED BY <2>6, <2>7, <2>8, <2>10 DEF TreeInv
<1> QED BY <1>3, <1>4

LEMMA AdjustStreamKeeps ==
    ASSUME TreeInv, NEW s \in Streams, NEW dep \in Streams \cup {Root}, NEW x \in BOOLEAN,
           AdjustStream(s, dep, x)
    PROVE  TreeInv'
<1> DEFINE new == state[s] = "absent"
           gone == IF new THEN Evicted(idleNodes, MaxIdleNodesInTree) ELSE {}
           start == IF new THEN setParent(parent, {s}, Root) ELSE parent
           base == removeNode(start, gone)
           known == dep = Root \/ (dep \in Nodes \cup {s} /\ dep \notin gone)
           st == [state EXCEPT ![s] = IF new THEN "idle" ELSE state[s]]
<1>1. /\ Types /\ Tree(parent, Present) /\ Kept /\ Below
      /\ parent \in [Streams -> Streams \cup {Root}]
  BY DEF TreeInv, Tree
<1>2. /\ new => s > maxID /\ MaxIdleNodesInTree > 0
      /\ state' = Remove(st, gone) /\ closedNodes' = closedNodes
      /\ maxID' = IF new THEN s ELSE maxID
      /\ idleNodes' = IF new THEN Added(idleNodes, MaxIdleNodesInTree, s) ELSE idleNodes
      /\ parent' = IF ~known THEN setParent(base, {s}, Root)
                   ELSE IF dep = s THEN base ELSE Reparent(base, s, dep, x)
  BY DEF AdjustStream
<1>3. st \in [Streams -> {"absent", "open", "closed", "idle"}]
      /\ \A t \in Streams : st[t] = IF t = s /\ new THEN "idle" ELSE state[t]
  <2>1. CASE new
    BY <1>1, <2>1 DEF Types
  <2>2. CASE ~new
    BY <1>1, <2>2 DEF Types
  <2> QED BY <2>1, <2>2
<1>4. /\ state' \in [Streams -> {"absent", "open", "closed", "idle"}]
      /\ \A t \in Streams : state'[t] = IF t \in gone THEN "absent" ELSE st[t]
  <2> HIDE DEF gone, st
  <2>1. /\ Remove(st, gone) \in [Streams -> {"absent", "open", "closed", "idle"}]
        /\ \A t \in Streams : Remove(st, gone)[t] = IF t \in gone THEN "absent" ELSE st[t]
    BY <1>3, RemoveFacts
  <2> QED BY <1>2, <2>1
<1>5. /\ idleNodes' \in Seq(Streams) /\ Len(idleNodes') <= MaxIdleNodesInTree
      /\ \A t \in Members(idleNodes) : t \in gone \/ t \in Members(idleNodes')
      /\ new => s \in Members(idleNodes')
      /\ Members(idleNodes') \subseteq Members(idleNodes) \cup {s}
      /\ ~new => idleNodes' = idleNodes
      /\ gone = {} \/ \E g \in Members(idleNodes) : gone = {g}
  <2>1. CASE new
    <3>1. MaxIdleNodesInTree \in Nat \ {0}
      BY <1>2, <2>1, ListsAssumption
    <3>2. idleNodes \in Seq(Streams) /\ Len(idleNodes) <= MaxIdleNodesInTree
      BY <1>1 DEF Types, Kept
    <3>3. idleNodes' = Added(idleNodes, MaxIdleNodesInTree, s)
          /\ gone = Evicted(idleNodes, MaxIdleNodesInTree)
      BY <1>2, <2>1
    <3>4. /\ Added(idleNodes, MaxIdleNodesInTree, s) \in Seq(Streams)
          /\ Len(Added(idleNodes, MaxIdleNodesInTree, s)) <= MaxIdleNodesInTree
          /\ \A t \in Members(idleNodes) :
                \/ t \in Evicted(idleNodes, MaxIdleNodesInTree)
                \/ t \in Members(Added(idleNodes, MaxIdleNodesInTree, s))
          /\ s \in Members(Added(idleNodes, MaxIdleNodesInTree, s))
          /\ Members(Added(idleNodes, MaxIdleNodesInTree, s)) \subseteq Members(idleNodes) \cup {s}
          /\ \/ Evicted(idleNodes, MaxIdleNodesInTree) = {}
             \/ \E g \in Members(idleNodes) : Evicted(idleNodes, MaxIdleNodesInTree) = {g}
      <4> HIDE DEF gone, new, st, base, known
      <4>1. PICK list \in Seq(Streams), max \in Nat \ {0} : list = idleNodes /\ max = MaxIdleNodesInTree
        BY <3>1, <3>2
      <4>2. Len(list) <= max
        BY <3>2, <4>1
      <4>3. /\ Added(list, max, s) \in Seq(Streams)
            /\ Len(Added(list, max, s)) <= max
            /\ \A t \in Members(list) : t \in Evicted(list, max) \/ t \in Members(Added(list, max, s))
            /\ s \in Members(Added(list, max, s))
            /\ Members(Added(list, max, s)) \subseteq Members(list) \cup {s}
            /\ Evicted(list, max) = {} \/ \E g \in Members(list) : Evicted(list, max) = {g}
        BY <4>2, ListFacts
      <4> QED BY <4>1, <4>3
    <3> HIDE DEF gone, new, st
    <3> QED BY <2>1, <3>3, <3>4
  <2>2. CASE ~new
    <3>1. idleNodes' = idleNodes /\ gone = {}
      BY <1>2, <2>2
    <3> HIDE DEF gone
    <3> QED BY <1>1, <2>2, <3>1 DEF Types, Kept
  <2> QED BY <2>1, <2>2
<1>6. Members(idleNodes) \subseteq Streams /\ maxID \in Nat /\ Streams \subseteq Nat
  BY <1>1, StreamsAssumption DEF Members, Types
<1>7. s \notin gone
  <2>1. CASE new
    <3>1. s \notin Members(idleNodes)
      BY <1>1, <1>2, <1>6, <2>1 DEF Below
    <3> QED BY <1>5, <3>1
  <2>2. CASE ~new
    BY <2>2
  <2> QED BY <2>1, <2>2
<1>8. Present' = (Present \cup {s}) \ gone
  <2> HIDE DEF gone, st
  <2>1. \A t \in Streams : state'[t] # "absent" <=> (t \in Present \cup {s} /\ t \notin gone)
    BY <1>3, <1>4 DEF Present
  <2>2. Present \cup {s} \subseteq Streams
    BY DEF Present
  <2> QED BY <2>1, <2>2 DEF Present
<1>9. Tree(start, Present \cup {s}) /\ start \in [Streams -> Streams \cup {Root}]
  <2>1. CASE new
    <3>1. s \in Streams \ Present
      BY <2>1 DEF Present
    <3>2. setParent(parent, {s}, Root) = [parent EXCEPT ![s] = Root]
      BY <1>1 DEF setParent
    <3>3. Tree([parent EXCEPT ![s] = Root], Present \cup {s})
      BY <1>1, <3>1, AddTree
    <3> QED BY <2>1, <3>2, <3>3 DEF Tree
  <2>2. CASE ~new
    <3>1. Present \cup {s} = Present
      BY <2>2 DEF Present
    <3> QED BY <1>1, <2>2, <3>1
  <2> QED BY <2>1, <2>2
<1>10. Tree(base, Present')
  <2> HIDE DEF gone, start
  <2>1. CASE gone = {}
    <3>1. base = start /\ Present' = Present \cup {s}
      BY <1>8, <1>9, <2>1, RemoveNone
    <3> HIDE DEF base
    <3> QED BY <1>9, <3>1
  <2>2. CASE \E g \in Members(idleNodes) : gone = {g}
    <3>1. PICK g \in Streams : gone = {g}
      BY <1>6, <2>2
    <3> QED BY <1>8, <1>9, <3>1, RemoveTree
  <2> QED BY <1>5, <2>1, <2>2
<1>11. s \in Present'
  BY <1>7, <1>8
<1>12. Tree(parent', Present')
  <2>1. CASE ~known
    <3> HIDE DEF known, gone, st, base, new
    <3>1. parent' = setParent(base, {s}, Root)
      BY <1>2, <2>1
    <3> HIDE DEF base
    <3> QED BY <1>10, <1>11, <3>1, UnderRoot
  <2>2. CASE known /\ dep = s
    <3>1. parent' = base
      BY <1>2, <2>2
    <3> QED BY <1>10, <3>1
  <2>3. CASE known /\ dep # s
    <3>1. parent' = Reparent(base, s, dep, x)
      BY <1>2, <2>3
    <3>2. dep \in Present' \cup {Root}
      BY <1>8, <2>3 DEF Nodes, Present
    <3> HIDE DEF base
    <3> QED BY <1>10, <1>11, <2>3, <3>1, <3>2, ReparentTree
  <2> QED BY <2>1, <2>2, <2>3
<1> HIDE DEF gone, st
<1>13. Types'
  BY <1>1, <1>2, <1>4, <1>5, <1>6 DEF Types
<1>14. Kept'
  <2>1. \A t \in Streams : state'[t] = "closed" => t \in Members(closedNodes)
    BY <1>1, <1>3, <1>4 DEF Kept
  <2>2. \A t \in Streams : state'[t] = "idle" => t \in Members(idleNodes')
    BY <1>1, <1>3, <1>4, <1>5 DEF Kept
  <2> QED BY <1>1, <1>2, <1>5, <2>1, <2>2 DEF Kept, Members
<1>15. Below'
  <2>1. maxID <= maxID' /\ maxID' \in Nat /\ (new => maxID' = s)
    BY <1>2, <1>6
  <2>2. ASSUME NEW t \in Members(idleNodes') PROVE t <= maxID'
    <3>1. CASE t \in Members(idleNodes)
      <4>1. t \in Nat /\ t <= maxID
        BY <1>1, <1>6, <3>1 DEF Below
      <4> HIDE DEF new
      <4> QED BY <1>6, <2>1, <4>1
    <3>2. CASE t \notin Members(idleNodes)
      <4>1. t = s /\ new
        BY <1>5, <3>2
      <4> QED BY <1>6, <2>1, <4>1
    <3> QED BY <3>1, <3>2
  <2> QED BY <2>2 DEF Below, Members
<1> QED BY <1>12, <1>13, <1>14, <1>15 DEF TreeInv

LEMMA NextKeeps == ASSUME TreeInv, [Next]_vars PROVE TreeInv'
<1>1. ASSUME NEW s \in Streams, CloseStream(s) PROVE TreeInv'
  BY <1>1, CloseStreamKeeps
<1>2. ASSUME NEW s \in Streams, NEW p \in Streams \cup {Root}, OpenStream(s, p) PROVE TreeInv'
  BY <1>2, OpenStreamKeeps
<1>3. ASSUME NEW s \in Streams, NEW dep \in Streams \cup {Root}, NEW x \in BOOLEAN,
             AdjustStream(s, dep, x)
      PROVE  TreeInv'
  BY <1>3, AdjustStreamKeeps
<1>4. ASSUME NEW s \in Streams \cup {Root}, NEW data \in BOOLEAN, Push(s, data) PROVE TreeInv'
  BY <1>4, NodesKept DEF Push
<1>5. ASSUME NEW n \in Nodes, Pop(n) PROVE TreeInv'
  BY <1>5, NodesKept DEF Pop
<1>6. CASE UNCHANGED vars
  BY <1>6, NodesKept DEF vars
<1> QED BY <1>1, <1>2, <1>3, <1>4, <1>5, <1>6 DEF Next

LEMMA Inductive == Spec => []TreeInv
<1>1. Init => TreeInv
  BY InitHolds
<1>2. TreeInv /\ [Next]_vars => TreeInv'
  BY NextKeeps
<1> QED BY <1>1, <1>2, PTL DEF Spec

-----------------------------------------------------------------------------
(* Whatever dependencies a client declares, in whatever order streams are  *)
(* opened, closed and evicted, the nodes form a tree (AdjustStream,        *)
(* removeNode), for any number of streams and any sizes of the lists.      *)
THEOREM TreeSoundAlways == Spec => []TreeSound
<1>1. ASSUME TreeInv PROVE TreeSound
  <2>1. Nodes = Present \cup {Root} /\ Nodes \ {Root} = Present
    BY RootOutside DEF Nodes, Present
  <2>2. Tree(parent, Present)
    BY <1>1 DEF TreeInv
  <2> QED BY <2>1, <2>2, ChainEnds, AncestorsFacts DEF TreeSound
<1> QED BY <1>1, Inductive, PTL

(* The tree never holds more closed or idle nodes than it is configured    *)
(* for (addClosedOrIdleNode), for any sizes of the lists.                  *)
THEOREM KeptBoundedAlways == Spec => []KeptBounded
<1>1. ASSUME TreeInv PROVE KeptBounded
  <2>1. /\ closedNodes \in Seq(Streams) /\ idleNodes \in Seq(Streams)
        /\ Len(closedNodes) <= MaxClosedNodesInTree /\ Len(idleNodes) <= MaxIdleNodesInTree
    BY <1>1 DEF TreeInv, Types, Kept
  <2> DEFINE P == {s \in Streams : state[s] = "closed"}
             Q == {s \in Streams : state[s] = "idle"}
  <2>2. P \subseteq Members(closedNodes) /\ Q \subseteq Members(idleNodes)
    BY <1>1 DEF TreeInv, Kept
  <2>3. IsFiniteSet(P) /\ IsFiniteSet(Q)
    BY StreamsAssumption, FS_Subset
  <2>4. Cardinality(P) \in Nat /\ Cardinality(Q) \in Nat
    BY <2>3, FS_CardinalityType
  <2>5. Cardinality(P) <= Len(closedNodes) /\ Cardinality(Q) <= Len(idleNodes)
    BY <2>1, <2>2, MembersBound
  <2>6. Len(closedNodes) \in Nat /\ Len(idleNodes) \in Nat
    BY <2>1
  <2> QED BY <2>1, <2>4, <2>5, <2>6, ListsAssumption DEF KeptBounded
<1> QED BY <1>1, Inductive, PTL
=============================================================================
