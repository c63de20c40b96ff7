-------------------------- MODULE WriteSched_proofs --------------------------
(***************************************************************************)
(* Proofs about WriteSched, for any streams, classes, windows, payloads    *)
(* and number of frames.                                                   *)
(***************************************************************************)
EXTENDS WriteSched, DataLemmas, TLAPS

(* A writeQueue of frames of F.                                            *)
QueueOf(F) == [curr : Seq(F), next : Seq(F)]

FramesOf(s) == [id : 1 .. MaxPush, s : {s}, n : Nat, end : BOOLEAN]

(* The queue of a stream holds frames of this stream.                      *)
Owned == \A s \in Streams : q[s] \in QueueOf(FramesOf(s))

(* Only the random scheduler has queues for streams that are not open.     *)
Strays == kind # "random" => \A s \in Streams : life[s] # "open" => q[s] = EmptyQueue

(* RingsSound, by the members of the rings.                                *)
Distinct(r) == \A i, j \in 1 .. Len(r) : r[i] = r[j] => i = j

Among(s, r) == \E i \in 1 .. Len(r) : r[i] = s

Ringed ==
    /\ \A c \in Classes : Distinct(rings[c])
    /\ kind # "random" =>
          \A s \in Streams, c \in Classes :
              Among(s, rings[c]) <=> (life[s] = "open" /\ prio[s] = c)

(* Every turn that passes a stream over brings it nearer to the head.      *)
Turns ==
    \A s \in Streams :
        /\ kind = "random" \/ life[s] # "open" => wait[s] = 0
        /\ kind # "random" /\ prio[s][2] = 1 =>
              \A i \in 1 .. Len(rings[prio[s]]) :
                  rings[prio[s]][i] = s => wait[s] + i <= Cardinality(Streams)

SchedInv == TypeOK /\ Owned /\ Strays /\ Ringed /\ Turns

-----------------------------------------------------------------------------
(* The queue operations, by what they do to the frames in order.           *)
LEMMA QueueEmpty ==
    ASSUME NEW F, NEW w \in QueueOf(F)
    PROVE  /\ contents(w) \in Seq(F)
           /\ empty(w) <=> contents(w) = <<>>
           /\ contents(EmptyQueue) = <<>> /\ EmptyQueue \in QueueOf(F)
BY DEF QueueOf, contents, empty, EmptyQueue

LEMMA QueuePush ==
    ASSUME NEW F, NEW w \in QueueOf(F), NEW f \in F
    PROVE  /\ push(w, f) \in QueueOf(F)
           /\ contents(push(w, f)) = Append(contents(w), f)
<1> DEFINE a == w.curr  b == w.next
<1>1. a \in Seq(F) /\ b \in Seq(F)
  BY DEF QueueOf
<1>0. w = [curr |-> a, next |-> b]
  BY DEF QueueOf
<1> HIDE DEF a, b
<1>2. push(w, f) = [curr |-> a, next |-> Append(b, f)]
  <2> DEFINE x == Append(b, f)
  <2>1. push(w, f) = [w EXCEPT !.next = x]
    BY Zenon DEF push, x, b
  <2> HIDE DEF x
  <2>2. [w EXCEPT !.next = x] = [curr |-> a, next |-> x]
    BY <1>0
  <2> QED BY <2>1, <2>2 DEF x
<1>3. push(w, f) \in QueueOf(F)
  BY <1>1, <1>2 DEF QueueOf
<1>4. contents(push(w, f)) = a \o Append(b, f) /\ contents(w) = a \o b
  <2>1. contents(push(w, f)) = a \o Append(b, f)
    BY <1>1, <1>2 DEF contents
  <2>2. contents(w) = a \o b
    BY DEF contents, a, b
  <2> QED BY <2>1, <2>2
<1>5. a \o Append(b, f) = Append(a \o b, f)
  BY <1>1
<1> QED BY <1>3, <1>4, <1>5

LEMMA QueuePeek ==
    ASSUME NEW F, NEW w \in QueueOf(F), ~empty(w)
    PROVE  /\ contents(w) # <<>>
           /\ peek(w) \in F /\ peek(w) = Head(contents(w))
           /\ shift(w) \in QueueOf(F) /\ contents(shift(w)) = Tail(contents(w))
<1> DEFINE a == w.curr  b == w.next
<1>1. a \in Seq(F) /\ b \in Seq(F)
  BY DEF QueueOf
<1>2. contents(w) = a \o b
  BY DEF contents
<1>3. CASE a # <<>>
  <2>1. peek(w) = Head(a) /\ shift(w) = [curr |-> Tail(a), next |-> b]
    BY <1>3 DEF peek, shift, QueueOf
  <2>2. contents(shift(w)) = Tail(a) \o b
    <3> HIDE DEF a, b
    <3> QED BY <1>1, <1>3, <2>1 DEF contents
  <2>3. shift(w) \in QueueOf(F)
    BY <1>1, <1>3, <2>1 DEF QueueOf
  <2> HIDE DEF a, b
  <2>4. Tail(a) \o b = Tail(a \o b) /\ Head(a) = Head(a \o b) /\ Head(a) \in F /\ a \o b # <<>>
    BY <1>1, <1>3
  <2> QED BY <1>2, <2>1, <2>2, <2>3, <2>4
<1>4. CASE a = <<>>
  <2>0. b # <<>>
    BY <1>4 DEF empty
  <2>1. peek(w) = Head(b) /\ shift(w) = [curr |-> Tail(b), next |-> <<>>]
    BY <1>4 DEF peek, shift, QueueOf
  <2>2. contents(shift(w)) = Tail(b) \o <<>>
    BY <2>1 DEF contents
  <2>3. shift(w) \in QueueOf(F)
    BY <1>1, <2>0, <2>1 DEF QueueOf
  <2> HIDE DEF a, b
  <2>4. Tail(b) \o <<>> = Tail(a \o b) /\ Head(b) = Head(a \o b) /\ Head(b) \in F /\ a \o b # <<>>
    BY <1>1, <1>4, <2>0
  <2> QED BY <1>2, <2>1, <2>2, <2>3, <2>4
<1> QED BY <1>3, <1>4

LEMMA QueueReplace ==
    ASSUME NEW F, NEW w \in QueueOf(F), ~empty(w), NEW f \in F
    PROVE  /\ replaceHead(w, f) \in QueueOf(F)
           /\ contents(replaceHead(w, f)) = <<f>> \o Tail(contents(w))
<1> DEFINE a == w.curr  b == w.next
<1>1. a \in Seq(F) /\ b \in Seq(F)
  BY DEF QueueOf
<1>2. contents(w) = a \o b
  BY DEF contents
<1>3. CASE a # <<>>
  <2>1. replaceHead(w, f) = [curr |-> [a EXCEPT ![1] = f], next |-> b]
    BY <1>3 DEF replaceHead, QueueOf
  <2>2. contents(replaceHead(w, f)) = [a EXCEPT ![1] = f] \o b
    <3> HIDE DEF a, b
    <3> QED BY <1>1, <1>3, <2>1 DEF contents
  <2> HIDE DEF a, b
  <2>3. [a EXCEPT ![1] = f] \in Seq(F) /\ Len([a EXCEPT ![1] = f]) = Len(a)
    BY <1>1, <1>3
  <2>4. [a EXCEPT ![1] = f] = <<f>> \o Tail(a)
    BY <1>1, <1>3
  <2>5. (<<f>> \o Tail(a)) \o b = <<f>> \o Tail(a \o b)
    BY <1>1, <1>3
  <2>6. replaceHead(w, f) \in QueueOf(F)
    BY <1>1, <2>1, <2>3 DEF QueueOf
  <2> QED BY <1>2, <2>2, <2>4, <2>5, <2>6
<1>4. CASE a = <<>>
  <2>0. b # <<>>
    BY <1>4 DEF empty
  <2>1. replaceHead(w, f) = [curr |-> <<>>, next |-> [b EXCEPT ![1] = f]]
    BY <1>4 DEF replaceHead, QueueOf
  <2>2. contents(replaceHead(w, f)) = <<>> \o [b EXCEPT ![1] = f]
    BY <2>1 DEF contents
  <2> HIDE DEF a, b
  <2>3. [b EXCEPT ![1] = f] \in Seq(F) /\ Len([b EXCEPT ![1] = f]) = Len(b)
    BY <1>1, <2>0
  <2>4. [b EXCEPT ![1] = f] = <<f>> \o Tail(b)
    BY <1>1, <2>0
  <2>5. <<>> \o (<<f>> \o Tail(b)) = <<f>> \o Tail(a \o b)
    BY <1>1, <1>4, <2>0
  <2>6. replaceHead(w, f) \in QueueOf(F)
    BY <1>1, <2>1, <2>3 DEF QueueOf
  <2> QED BY <1>2, <2>2, <2>4, <2>5, <2>6
<1> QED BY <1>3, <1>4

(* How much of a frame may leave.                                          *)
LEMMA ConsumeFacts ==
    ASSUME TypeOK, NEW s \in Streams, NEW f \in FramesOf(s)
    PROVE  /\ Consume(f) \in Int
           /\ Consume(f) >= 0 <=> (f.n = 0 \/ available(s) > 0)
           /\ f.n = 0 => Consume(f) = 0
           /\ f.n > 0 /\ Consume(f) >= 0 =>
                 Consume(f) \in 1 .. f.n /\ Consume(f) <= available(s)
<1>1. f.n \in Nat /\ f.s = s
  BY DEF FramesOf
<1>2. available(s) \in Int
  BY DEF TypeOK, available, Least
<1>3. /\ Allowed(s) \in Int /\ Allowed(s) <= available(s)
      /\ Allowed(s) > 0 <=> available(s) > 0
  BY <1>2, SizesAssumption DEF Allowed, Least
<1>4. CASE f.n = 0
  <2>1. Consume(f) = 0
    BY <1>4 DEF Consume
  <2> QED BY <1>4, <2>1
<1>5. CASE f.n > 0 /\ Allowed(s) <= 0
  <2>1. Consume(f) = -1
    <3>1. f.n # 0
      BY <1>1, <1>5
    <3> QED BY <1>1, <1>5, <3>1 DEF Consume
  <2> QED BY <1>1, <1>2, <1>3, <1>5, <2>1
<1>6. CASE f.n > 0 /\ Allowed(s) > 0
  <2>1. Consume(f) = Least(f.n, Allowed(s))
    <3>1. f.n # 0 /\ ~(Allowed(f.s) <= 0)
      BY <1>1, <1>3, <1>6
    <3> QED BY <1>1, <3>1 DEF Consume
  <2>2. /\ Consume(f) \in Int /\ Consume(f) >= 1 /\ Consume(f) <= f.n
        /\ Consume(f) <= Allowed(s)
    BY <1>1, <1>3, <1>6, <2>1 DEF Least
  <2> QED BY <1>1, <1>2, <1>3, <1>6, <2>2
<1> QED BY <1>1, <1>3, <1>4, <1>5, <1>6

-----------------------------------------------------------------------------
(* The ring operations, member by member.                                  *)
LEMMA PlaceFacts ==
    ASSUME NEW r \in Seq(Streams), Distinct(r), NEW i \in 1 .. Len(r)
    PROVE  Place(r, r[i]) = i
<1>1. Place(r, r[i]) \in 1 .. Len(r) /\ r[Place(r, r[i])] = r[i]
  BY DEF Place
<1> QED BY <1>1 DEF Distinct

LEMMA CutFacts ==
    ASSUME NEW r \in Seq(Streams), NEW i \in 1 .. Len(r)
    PROVE  /\ Cut(r, i) \in Seq(Streams) /\ Len(Cut(r, i)) = Len(r) - 1
           /\ \A j \in 1 .. i - 1 : Cut(r, i)[j] = r[j]
           /\ \A j \in i .. Len(r) - 1 : Cut(r, i)[j] = r[j + 1]
<1> DEFINE a == SubSeq(r, 1, i - 1)
           b == SubSeq(r, i + 1, Len(r))
           c == Cut(r, i)
<1>1. Len(r) \in Nat
  OBVIOUS
<1>2. a \in Seq(Streams) /\ Len(a) = i - 1 /\ \A j \in 1 .. i - 1 : a[j] = r[j]
  BY SubSeqProperties
<1>3. b \in Seq(Streams) /\ Len(b) = Len(r) - i /\ \A j \in 1 .. Len(r) - i : b[j] = r[i + j]
  BY SubSeqProperties
<1>4. c = a \o b
  BY DEF Cut
<1> HIDE DEF a, b, c
<1>5. /\ c \in Seq(Streams) /\ Len(c) = Len(a) + Len(b)
      /\ \A k \in 1 .. Len(a) : c[k] = a[k]
      /\ \A k \in 1 .. Len(b) : c[Len(a) + k] = b[k]
  <2>1. a \in Seq(Streams) /\ b \in Seq(Streams)
    BY <1>2, <1>3
  <2> QED BY ONLY <1>4, <2>1
<1>6. ASSUME NEW j \in i .. Len(r) - 1 PROVE c[j] = r[j + 1]
  <2>1. j - i + 1 \in 1 .. Len(r) - i /\ Len(a) + (j - i + 1) = j /\ i + (j - i + 1) = j + 1
    BY <1>1, <1>2
  <2>2. c[Len(a) + (j - i + 1)] = b[j - i + 1]
    BY <1>3, <1>5, <2>1
  <2>3. b[j - i + 1] = r[i + (j - i + 1)]
    BY <1>3, <2>1
  <2> QED BY <2>1, <2>2, <2>3
<1>7. c \in Seq(Streams) /\ Len(c) = Len(r) - 1 /\ \A j \in 1 .. i - 1 : c[j] = r[j]
  BY <1>1, <1>2, <1>3, <1>5
<1> QED BY <1>6, <1>7 DEF c

(* Unlinking takes out one member and moves none back.                     *)
LEMMA WithoutFacts ==
    ASSUME NEW r \in Seq(Streams), Distinct(r), NEW s
    PROVE  /\ Without(r, s) \in Seq(Streams)
           /\ Distinct(Without(r, s))
           /\ \A t : Among(t, Without(r, s)) <=> Among(t, r) /\ t # s
           /\ \A k \in 1 .. Len(Without(r, s)) :
                 \E j \in 1 .. Len(r) : r[j] = Without(r, s)[k] /\ k <= j
<1>1. CASE ~Among(s, r)
  <2>1. Without(r, s) = r
    BY <1>1 DEF Without, Among
  <2> QED BY <1>1, <2>1 DEF Among
<1>2. CASE Among(s, r)
  <2>1. PICK i \in 1 .. Len(r) : r[i] = s
    BY <1>2 DEF Among
  <2>2. Without(r, s) = Cut(r, i)
    BY <2>1, PlaceFacts DEF Without
  <2> DEFINE c == Cut(r, i)
  <2>3. /\ c \in Seq(Streams) /\ Len(c) = Len(r) - 1
        /\ \A j \in 1 .. i - 1 : c[j] = r[j]
        /\ \A j \in i .. Len(r) - 1 : c[j] = r[j + 1]
    BY CutFacts
  <2> HIDE DEF c
  <2>4. Len(r) \in Nat
    OBVIOUS
  <2>5. \A k \in 1 .. Len(c) : \E j \in 1 .. Len(r) :
            /\ r[j] = c[k] /\ k <= j /\ j # i
            /\ j = IF k < i THEN k ELSE k + 1
    BY <2>3, <2>4
  <2>6. Distinct(c)
    BY <2>4, <2>5 DEF Distinct
  <2>7. ASSUME NEW t PROVE Among(t, c) <=> Among(t, r) /\ t # s
    <3>1. ASSUME Among(t, c) PROVE Among(t, r) /\ t # s
      BY <2>1, <2>5, <3>1 DEF Among, Distinct
    <3>2. ASSUME Among(t, r), t # s PROVE Among(t, c)
      <4>1. PICK j \in 1 .. Len(r) : r[j] = t
        BY <3>2 DEF Among
      <4>2. CASE j < i
        BY <2>3, <2>4, <4>1, <4>2 DEF Among
      <4>3. CASE j > i
        <5>1. j - 1 \in i .. Len(r) - 1 /\ (j - 1) + 1 = j
          BY <2>4, <4>3
        <5>2. c[j - 1] = r[j]
          BY <2>3, <5>1
        <5> QED BY <2>3, <2>4, <4>1, <5>1, <5>2 DEF Among
      <4>4. j # i
        BY <2>1, <3>2, <4>1
      <4> QED BY <2>4, <4>2, <4>3, <4>4
    <3> QED BY <3>1, <3>2
  <2> QED BY <2>2, <2>3, <2>5, <2>6, <2>7 DEF c
<1> QED BY <1>1, <1>2

(* Linking adds a last member.                                             *)
LEMMA AppendFacts ==
    ASSUME NEW r \in Seq(Streams), Distinct(r), NEW s \in Streams, ~Among(s, r)
    PROVE  /\ Append(r, s) \in Seq(Streams) /\ Len(Append(r, s)) = Len(r) + 1
           /\ Distinct(Append(r, s))
           /\ \A t : Among(t, Append(r, s)) <=> Among(t, r) \/ t = s
           /\ \A k \in 1 .. Len(r) : Append(r, s)[k] = r[k]
           /\ Append(r, s)[Len(r) + 1] = s
<1> DEFINE a == Append(r, s)
<1>1. /\ a \in Seq(Streams) /\ Len(a) = Len(r) + 1 /\ Len(r) \in Nat
      /\ \A k \in 1 .. Len(r) : a[k] = r[k]
      /\ a[Len(r) + 1] = s
  OBVIOUS
<1> HIDE DEF a
<1>2. Distinct(a)
  BY <1>1 DEF Distinct, Among
<1>3. \A t : Among(t, a) <=> Among(t, r) \/ t = s
  BY <1>1 DEF Among
<1> QED BY <1>1, <1>2, <1>3 DEF a

(* A rotated ring.                                                         *)
LEMMA RotateFacts ==
    ASSUME NEW r \in Seq(Streams), NEW i \in 1 .. Len(r)
    PROVE  /\ RotateTo(r, i) \in Seq(Streams) /\ Len(RotateTo(r, i)) = Len(r)
           /\ \A j \in i .. Len(r) : RotateTo(r, i)[j - i + 1] = r[j]
           /\ \A j \in 1 .. i - 1 : RotateTo(r, i)[Len(r) - i + 1 + j] = r[j]
<1> DEFINE a == SubSeq(r, i, Len(r))
           b == SubSeq(r, 1, i - 1)
           c == RotateTo(r, i)
<1>1. Len(r) \in Nat
  OBVIOUS
<1>2. /\ a \in Seq(Streams) /\ Len(a) = Len(r) - i + 1
      /\ \A j \in 1 .. Len(r) - i + 1 : a[j] = r[i + j - 1]
  BY SubSeqProperties
<1>3. b \in Seq(Streams) /\ Len(b) = i - 1 /\ \A j \in 1 .. i - 1 : b[j] = r[j]
  BY SubSeqProperties
<1>4. c = a \o b
  BY DEF RotateTo
<1> HIDE DEF a, b, c
<1>5. /\ c \in Seq(Streams) /\ Len(c) = Len(a) + Len(b)
      /\ \A k \in 1 .. Len(a) : c[k] = a[k]
      /\ \A k \in 1 .. Len(b) : c[Len(a) + k] = b[k]
  <2>1. a \in Seq(Streams) /\ b \in Seq(Streams)
    BY <1>2, <1>3
  <2> QED BY ONLY <1>4, <2>1
<1>6. ASSUME NEW j \in i .. Len(r) PROVE c[j - i + 1] = r[j]
  <2>1. j - i + 1 \in 1 .. Len(r) - i + 1 /\ i + (j - i + 1) - 1 = j
    BY <1>1
  <2>2. c[j - i + 1] = a[j - i + 1]
    BY <1>2, <1>5, <2>1
  <2>3. a[j - i + 1] = r[i + (j - i + 1) - 1]
    BY <1>2, <2>1
  <2> QED BY <2>1, <2>2, <2>3
<1>7. /\ c \in Seq(Streams) /\ Len(c) = Len(r)
      /\ \A j \in 1 .. i - 1 : c[Len(r) - i + 1 + j] = r[j]
  BY <1>1, <1>2, <1>3, <1>5
<1> QED BY <1>6, <1>7 DEF c

(* Serving the i-th member permutes the ring; in a class that takes turns  *)
(* the members behind it come nearer to the head.                          *)
LEMMA ServedFacts ==
    ASSUME NEW r \in Seq(Streams), Distinct(r), NEW i \in 1 .. Len(r), NEW c
    PROVE  /\ Served(r, c, r[i]) \in Seq(Streams)
           /\ Distinct(Served(r, c, r[i]))
           /\ \A t : Among(t, Served(r, c, r[i])) <=> Among(t, r)
           /\ c[2] = 1 => \A j \in i + 1 .. Len(r) : /\ j - i \in 1 .. Len(Served(r, c, r[i]))
                                                    /\ Served(r, c, r[i])[j - i] = r[j]
<1> DEFINE at == RotateTo(r, i)
           n == Len(r)
           w == Served(r, c, r[i])
<1>1. w = IF c[2] = 1 THEN Append(Tail(at), r[i]) ELSE at
  BY PlaceFacts DEF Served
<1>2. /\ at \in Seq(Streams) /\ Len(at) = n /\ n \in Nat /\ r[i] \in Streams /\ n >= 1
      /\ \A j \in i .. n : at[j - i + 1] = r[j]
      /\ \A j \in 1 .. i - 1 : at[n - i + 1 + j] = r[j]
  BY RotateFacts
<1> HIDE DEF at, w
<1>3. at # <<>> /\ at[1] = r[i]
  <2>1. i \in i .. n /\ i - i + 1 = 1
    BY <1>2
  <2>2. at[i - i + 1] = r[i]
    BY <1>2, <2>1
  <2> QED BY <1>2, <2>1, <2>2
<1>4. /\ Append(Tail(at), r[i]) \in Seq(Streams)
      /\ Len(Append(Tail(at), r[i])) = Len(at)
      /\ \A k \in 1 .. Len(at) - 1 : Append(Tail(at), r[i])[k] = at[k + 1]
      /\ Append(Tail(at), r[i])[Len(at)] = r[i]
  <2>1. r[i] \in Streams /\ at \in Seq(Streams) /\ at # <<>>
    BY <1>2, <1>3
  <2> QED BY ONLY <2>1
<1>5. ASSUME NEW k \in 1 .. n
      PROVE  \E j \in 1 .. n : at[k] = r[j] /\ (IF k <= n - i + 1 THEN j = k + i - 1
                                                                 ELSE j = k - (n - i + 1))
  <2>1. CASE k <= n - i + 1
    <3>1. k + i - 1 \in i .. n /\ (k + i - 1) - i + 1 = k /\ k + i - 1 \in 1 .. n
      BY <1>2, <2>1
    <3>2. at[(k + i - 1) - i + 1] = r[k + i - 1]
      BY <1>2, <3>1
    <3> QED BY <2>1, <3>1, <3>2
  <2>2. CASE k > n - i + 1
    <3>1. /\ k - (n - i + 1) \in 1 .. i - 1 /\ n - i + 1 + (k - (n - i + 1)) = k
          /\ k - (n - i + 1) \in 1 .. n
      BY <1>2, <2>2
    <3>2. at[n - i + 1 + (k - (n - i + 1))] = r[k - (n - i + 1)]
      BY <1>2, <3>1
    <3>3. at[k] = r[k - (n - i + 1)] /\ ~(k <= n - i + 1)
      BY <1>2, <2>2, <3>1, <3>2
    <3> QED BY <3>1, <3>3
  <2> QED BY <1>2, <2>1, <2>2
<1>6. Distinct(at)
  <2> SUFFICES ASSUME NEW k \in 1 .. n, NEW l \in 1 .. n, at[k] = at[l] PROVE k = l
    BY <1>2 DEF Distinct
  <2>1. PICK j \in 1 .. n : at[k] = r[j] /\ (IF k <= n - i + 1 THEN j = k + i - 1
                                                              ELSE j = k - (n - i + 1))
    BY <1>5
  <2>2. PICK m \in 1 .. n : at[l] = r[m] /\ (IF l <= n - i + 1 THEN m = l + i - 1
                                                              ELSE m = l - (n - i + 1))
    BY <1>5
  <2>3. j = m
    BY <2>1, <2>2 DEF Distinct
  <2> QED BY <1>2, <2>1, <2>2, <2>3
<1>7. \A t : Among(t, at) <=> Among(t, r)
  <2>1. ASSUME NEW t, Among(t, at) PROVE Among(t, r)
    BY <1>2, <1>5, <2>1, ZenonT(60) DEF Among
  <2>2. ASSUME NEW t, Among(t, r) PROVE Among(t, at)
    <3>1. PICK j \in 1 .. n : r[j] = t
      BY <2>2 DEF Among
    <3>2. CASE j >= i
      <4>1. j - i + 1 \in 1 .. Len(at) /\ at[j - i + 1] = r[j]
        BY <1>2, <3>2
      <4> QED BY <3>1, <4>1 DEF Among
    <3>3. CASE j < i
      <4>1. n - i + 1 + j \in 1 .. Len(at) /\ at[n - i + 1 + j] = r[j]
        BY <1>2, <3>3
      <4> QED BY <3>1, <4>1 DEF Among
    <3> QED BY <1>2, <3>2, <3>3
  <2> QED BY <2>1, <2>2
<1>8. CASE c[2] = 1
  <2>1. /\ w \in Seq(Streams) /\ Len(w) = n
        /\ \A k \in 1 .. n - 1 : w[k] = at[k + 1]
        /\ w[n] = at[1]
    BY <1>1, <1>2, <1>3, <1>4, <1>8
  <2>2. Distinct(w)
    BY <1>2, <1>6, <2>1, SMTT(30) DEF Distinct
  <2>3. ASSUME NEW t PROVE Among(t, w) <=> Among(t, at)
    <3>1. ASSUME Among(t, w) PROVE Among(t, at)
      <4>1. PICK k \in 1 .. n : w[k] = t
        BY <2>1, <3>1 DEF Among
      <4>2. k = n \/ k \in 1 .. n - 1
        BY <1>2
      <4>3. \E l \in 1 .. n : at[l] = t
        <5>1. CASE k = n
          BY <1>2, <2>1, <4>1, <5>1
        <5>2. CASE k \in 1 .. n - 1
          <6>1. k + 1 \in 1 .. n /\ at[k + 1] = t
            BY <1>2, <2>1, <4>1, <5>2
          <6> QED BY <6>1
        <5> QED BY <4>2, <5>1, <5>2
      <4> QED BY <1>2, <4>3 DEF Among
    <3>2. ASSUME Among(t, at) PROVE Among(t, w)
      <4>1. PICK k \in 1 .. n : at[k] = t
        BY <1>2, <3>2 DEF Among
      <4>2. CASE k = 1
        <5>1. n \in 1 .. Len(w) /\ w[n] = t
          BY <1>2, <2>1, <4>1, <4>2
        <5> QED BY <5>1 DEF Among
      <4>3. CASE k > 1
        <5>1. k - 1 \in 1 .. n - 1 /\ (k - 1) + 1 = k
          BY <1>2, <4>3
        <5>2. w[k - 1] = t /\ k - 1 \in 1 .. Len(w)
          BY <1>2, <2>1, <4>1, <5>1
        <5> QED BY <5>2 DEF Among
      <4> QED BY <1>2, <4>2, <4>3
    <3> QED BY <3>1, <3>2
  <2>4. ASSUME NEW j \in i + 1 .. n PROVE j - i \in 1 .. Len(w) /\ w[j - i] = r[j]
    <3>1. j - i \in 1 .. n - 1 /\ j \in i .. n
      BY <1>2
    <3>2. w[j - i] = at[j - i + 1]
      BY <2>1, <3>1
    <3>3. at[j - i + 1] = r[j]
      BY <1>2, <3>1
    <3> QED BY <1>2, <2>1, <3>1, <3>2, <3>3
  <2> QED BY <1>7, <2>1, <2>2, <2>3, <2>4 DEF w
<1>9. CASE c[2] # 1
  BY <1>1, <1>2, <1>6, <1>7, <1>9 DEF w
<1> QED BY <1>8, <1>9

-----------------------------------------------------------------------------
(* The rings after a stream is unlinked from the ring of its priority.     *)
LEMMA UnlinkFacts ==
    ASSUME SchedInv, NEW s \in Streams
    PROVE  /\ Unlink(rings, s) \in [Classes -> Seq(Streams)]
           /\ \A c \in Classes : Distinct(Unlink(rings, s)[c])
           /\ kind # "random" =>
                 \A c \in Classes : \A t \in Streams :
                     Among(t, Unlink(rings, s)[c]) <=> Among(t, rings[c]) /\ t # s
           /\ \A c \in Classes : \A k \in 1 .. Len(Unlink(rings, s)[c]) :
                 \E j \in 1 .. Len(rings[c]) : rings[c][j] = Unlink(rings, s)[c][k] /\ k <= j
<1> USE DEF SchedInv
<1> DEFINE rs == Unlink(rings, s)
<1>1. prio[s] \in Classes /\ rings \in [Classes -> Seq(Streams)]
  BY DEF TypeOK
<1>2. rs = [rings EXCEPT ![prio[s]] = Without(rings[prio[s]], s)]
  BY DEF Unlink
<1> HIDE DEF rs
<1>3. ASSUME NEW c \in Classes
      PROVE  /\ rs[c] \in Seq(Streams) /\ Distinct(rs[c])
             /\ kind # "random" =>
                   \A t \in Streams : Among(t, rs[c]) <=> Among(t, rings[c]) /\ t # s
             /\ \A k \in 1 .. Len(rs[c]) :
                   \E j \in 1 .. Len(rings[c]) : rings[c][j] = rs[c][k] /\ k <= j
  <2>1. rings[c] \in Seq(Streams) /\ Distinct(rings[c])
    BY <1>1 DEF Ringed
  <2>2. CASE c = prio[s]
    <3>1. rs[c] = Without(rings[c], s)
      BY <1>1, <1>2, <2>2
    <3> QED BY <2>1, <3>1, WithoutFacts
  <2>3. CASE c # prio[s]
    <3>1. rs[c] = rings[c]
      BY <1>1, <1>2, <2>3
    <3>2. kind # "random" => ~Among(s, rings[c])
      BY <2>3 DEF Ringed
    <3>3. \A k \in 1 .. Len(rings[c]) : k <= k
      BY <2>1
    <3> QED BY <2>1, <3>1, <3>2, <3>3
  <2> QED BY <2>2, <2>3
<1>4. rs \in [Classes -> Seq(Streams)]
  <2>1. DOMAIN rs = Classes /\ rs = [c \in Classes |-> rs[c]]
    BY <1>1, <1>2
  <2> QED BY <1>3, <2>1
<1> QED BY <1>3, <1>4 DEF rs

(* The rings after a stream is linked into one of them.                    *)
LEMMA LinkFacts ==
    ASSUME NEW rs \in [Classes -> Seq(Streams)], NEW s \in Streams, NEW c \in Classes,
           \A d \in Classes : Distinct(rs[d]) /\ ~Among(s, rs[d])
    PROVE  /\ Link(rs, c, s) \in [Classes -> Seq(Streams)]
           /\ \A d \in Classes : Distinct(Link(rs, c, s)[d])
           /\ \A d \in Classes : \A t \in Streams :
                 Among(t, Link(rs, c, s)[d]) <=> Among(t, rs[d]) \/ (t = s /\ d = c)
           /\ \A d \in Classes : \A k \in 1 .. Len(Link(rs, c, s)[d]) :
                 Link(rs, c, s)[d][k] # s => k \in 1 .. Len(rs[d]) /\ rs[d][k] = Link(rs, c, s)[d][k]
<1> DEFINE x == Append(rs[c], s)
           ls == Link(rs, c, s)
<1>1. ls = [rs EXCEPT ![c] = x]
  BY Zenon DEF Link
<1>2. /\ x \in Seq(Streams) /\ Distinct(x) /\ Len(x) = Len(rs[c]) + 1 /\ Len(rs[c]) \in Nat
      /\ \A t : Among(t, x) <=> Among(t, rs[c]) \/ t = s
      /\ \A k \in 1 .. Len(rs[c]) : x[k] = rs[c][k]
      /\ x[Len(rs[c]) + 1] = s
  <2>1. rs[c] \in Seq(Streams)
    OBVIOUS
  <2> QED BY <2>1, AppendFacts
<1> HIDE DEF x, ls
<1>3. ASSUME NEW d \in Classes
      PROVE  /\ ls[d] \in Seq(Streams) /\ Distinct(ls[d])
             /\ \A t \in Streams : Among(t, ls[d]) <=> Among(t, rs[d]) \/ (t = s /\ d = c)
             /\ \A k \in 1 .. Len(ls[d]) :
                   ls[d][k] # s => k \in 1 .. Len(rs[d]) /\ rs[d][k] = ls[d][k]
  <2>1. CASE d = c
    <3>1. ls[d] = x
      BY <1>1, <2>1
    <3>2. \A k \in 1 .. Len(x) : x[k] # s => k \in 1 .. Len(rs[c]) /\ rs[c][k] = x[k]
      BY <1>2
    <3> QED BY <1>2, <2>1, <3>1, <3>2
  <2>2. CASE d # c
    <3>1. ls[d] = rs[d]
      BY <1>1, <2>2
    <3> QED BY <2>2, <3>1
  <2> QED BY <2>1, <2>2
<1>4. ls \in [Classes -> Seq(Streams)]
  <2>1. DOMAIN ls = Classes /\ ls = [d \in Classes |-> ls[d]]
    BY <1>1
  <2> QED BY <1>3, <2>1
<1> QED BY <1>3, <1>4 DEF ls

(* A stream that is not moved back keeps its claim to a turn.              *)
LEMMA TurnsKept ==
    ASSUME SchedInv, kind' = kind, NEW s \in Streams, wait'[s] = 0,
           rings' \in [Classes -> Seq(Streams)], prio' \in [Streams -> Classes],
           \A c \in Classes : Distinct(rings'[c]),
           \A t \in Streams \ {s} :
              /\ life'[t] = life[t] /\ prio'[t] = prio[t] /\ wait'[t] = wait[t]
              /\ kind # "random" => \A k \in 1 .. Len(rings'[prio[t]]) : rings'[prio[t]][k] = t =>
                    \E j \in 1 .. Len(rings[prio[t]]) : rings[prio[t]][j] = t /\ k <= j
    PROVE  Turns'
<1> USE DEF SchedInv
<1>1. \A c \in Classes : Len(rings'[c]) \in Nat /\ Len(rings'[c]) <= Cardinality(Streams)
                         /\ Cardinality(Streams) \in Nat
  BY DistinctLen, StreamsAssumption DEF Distinct
<1>2. prio'[s] \in Classes
  OBVIOUS
<1>3. \A i \in 1 .. Len(rings'[prio'[s]]) : wait'[s] + i <= Cardinality(Streams)
  BY <1>1, <1>2
<1>4. ASSUME NEW t \in Streams \ {s}, kind # "random", prio[t][2] = 1,
             NEW k \in 1 .. Len(rings'[prio[t]]), rings'[prio[t]][k] = t
      PROVE  wait[t] + k <= Cardinality(Streams)
  <2>1. PICK j \in 1 .. Len(rings[prio[t]]) : rings[prio[t]][j] = t /\ k <= j
    BY <1>4
  <2>2. wait[t] + j <= Cardinality(Streams)
    BY <1>4, <2>1 DEF Turns
  <2>3. wait[t] \in Nat /\ prio[t] \in Classes /\ rings[prio[t]] \in Seq(Streams)
    BY DEF TypeOK
  <2>4. j \in Nat /\ k \in Nat /\ Cardinality(Streams) \in Nat
    BY <1>1, <2>3
  <2> QED BY <2>1, <2>2, <2>3, <2>4, SMTT(30)
<1>5. ASSUME NEW t \in Streams
      PROVE  /\ kind' = "random" \/ life'[t] # "open" => wait'[t] = 0
             /\ kind' # "random" /\ prio'[t][2] = 1 =>
                   \A i \in 1 .. Len(rings'[prio'[t]]) :
                       rings'[prio'[t]][i] = t => wait'[t] + i <= Cardinality(Streams)
  <2>1. CASE t = s
    BY <1>3, <2>1
  <2>2. CASE t # s
    <3>1. t \in Streams \ {s} /\ life'[t] = life[t] /\ prio'[t] = prio[t] /\ wait'[t] = wait[t]
      BY <2>2
    <3>2. kind' = "random" \/ life'[t] # "open" => wait'[t] = 0
      BY <3>1 DEF Turns
    <3>3. ASSUME kind' # "random", prio'[t][2] = 1, NEW i \in 1 .. Len(rings'[prio'[t]]),
                 rings'[prio'[t]][i] = t
          PROVE  wait'[t] + i <= Cardinality(Streams)
      <4>1. i \in 1 .. Len(rings'[prio[t]])
        BY <3>1
      <4>2. kind # "random" /\ prio[t][2] = 1 /\ rings'[prio[t]][i] = t
        BY <3>1, <3>3
      <4>3. wait[t] + i <= Cardinality(Streams)
        BY <1>4, <3>1, <4>1, <4>2
      <4> QED BY <3>1, <4>3
    <3> QED BY <3>2, <3>3
  <2> QED BY <2>1, <2>2
<1> QED BY <1>5 DEF Turns

-----------------------------------------------------------------------------
(* Taking bytes of the first frame of a queue.                             *)
LEMMA FrameOwned ==
    ASSUME NEW s \in Streams
    PROVE  FramesOf(s) \subseteq Frames /\ QueueOf(FramesOf(s)) \subseteq QueueOf(Frames)
<1>1. FramesOf(s) \subseteq Frames
  BY DEF FramesOf, Frames
<1>2. Seq(FramesOf(s)) \subseteq Seq(Frames)
  BY <1>1
<1> QED BY <1>1, <1>2 DEF QueueOf

LEMMA FirstFrame ==
    ASSUME SchedInv, NEW s \in Streams, Ready(s)
    PROVE  /\ peek(q[s]) \in FramesOf(s) /\ peek(q[s]).n \in Nat /\ peek(q[s]).s = s
           /\ Consume(peek(q[s])) \in 0 .. peek(q[s]).n
           /\ IF peek(q[s]).n = 0 THEN Consume(peek(q[s])) = 0
              ELSE Consume(peek(q[s])) \in 1 .. peek(q[s]).n /\ Consume(peek(q[s])) <= available(s)
<1> DEFINE f == peek(q[s])
<1>1. q[s] \in QueueOf(FramesOf(s)) /\ ~empty(q[s]) /\ Consume(f) >= 0 /\ TypeOK
  BY DEF SchedInv, Owned, Ready
<1>2. f \in FramesOf(s)
  BY <1>1, QueuePeek
<1> HIDE DEF f
<1>3. f.n \in Nat /\ f.s = s
  BY <1>2 DEF FramesOf
<1>4. /\ Consume(f) \in Int
      /\ f.n = 0 => Consume(f) = 0
      /\ f.n > 0 /\ Consume(f) >= 0 => Consume(f) \in 1 .. f.n /\ Consume(f) <= available(s)
  BY <1>1, <1>2, ConsumeFacts
<1>5. CASE f.n = 0
  BY <1>2, <1>3, <1>4, <1>5 DEF f
<1>6. CASE f.n > 0
  <2>1. Consume(f) \in 0 .. f.n /\ f.n # 0
    BY <1>1, <1>3, <1>4, <1>6
  <2> QED BY <1>1, <1>2, <1>3, <1>4, <1>6, <2>1 DEF f
<1> QED BY <1>3, <1>5, <1>6

LEMMA ConsumeStep ==
    ASSUME SchedInv, NEW s \in Streams, Ready(s), consume(s)
    PROVE  /\ q' \in [Streams -> QueueOf(Frames)] /\ Owned'
           /\ \A t \in Streams \ {s} : q'[t] = q[t]
           /\ popped' \in Frames /\ win' \in [Streams -> Int] /\ conn' \in Int
           /\ contents(q'[s]) =
                 (IF Consume(peek(q[s])) = peek(q[s]).n THEN <<>>
                  ELSE <<[peek(q[s]) EXCEPT !.n = peek(q[s]).n - Consume(peek(q[s]))]>>)
                 \o Tail(contents(q[s]))
<1> DEFINE f == peek(q[s])
           k == Consume(f)
           F == FramesOf(s)
           rest == [f EXCEPT !.n = f.n - k]
           w == IF k = f.n THEN shift(q[s]) ELSE replaceHead(q[s], rest)
<1>1. f \in F /\ f.n \in Nat /\ k \in 0 .. f.n
  BY FirstFrame
<1>2. q[s] \in QueueOf(F) /\ ~empty(q[s])
  BY DEF SchedInv, Owned, Ready
<1>3. q' = [q EXCEPT ![s] = w] /\ win' = [win EXCEPT ![s] = win[s] - k] /\ conn' = conn - k
      /\ popped' = [f EXCEPT !.n = k, !.end = f.end /\ k = f.n]
  BY Zenon DEF consume
<1>3a. /\ q \in [Streams -> QueueOf(Frames)] /\ win \in [Streams -> Int] /\ conn \in Int
       /\ \A t \in Streams : q[t] \in QueueOf(FramesOf(t))
  BY DEF SchedInv, TypeOK, Owned, QueueOf
<1> HIDE DEF f, k, F
<1>4. rest \in F
  <2>1. f.n - k \in Nat
    BY <1>1
  <2> QED BY <1>1, <2>1 DEF F, FramesOf
<1>5. popped' \in Frames
  <2>1. f.end \in BOOLEAN /\ k \in Nat
    BY <1>1 DEF F, FramesOf
  <2> DEFINE e == f.end /\ k = f.n
  <2>2. e \in BOOLEAN
    OBVIOUS
  <2>3. popped' = [f EXCEPT !.n = k, !.end = e]
    BY <1>3
  <2> HIDE DEF e
  <2> QED BY <1>1, <2>1, <2>2, <2>3 DEF F, FramesOf, Frames
<1>6. /\ w \in QueueOf(F)
      /\ contents(w) = (IF k = f.n THEN <<>> ELSE <<rest>>) \o Tail(contents(q[s]))
  <2>0. contents(q[s]) \in Seq(F) /\ contents(q[s]) # <<>>
    BY <1>2, QueueEmpty
  <2>0a. Tail(contents(q[s])) \in Seq(F)
    BY <2>0
  <2> HIDE DEF rest
  <2>1. CASE k = f.n
    <3>1. shift(q[s]) \in QueueOf(F) /\ contents(shift(q[s])) = Tail(contents(q[s]))
      BY <1>2, QueuePeek
    <3>2. <<>> \o Tail(contents(q[s])) = Tail(contents(q[s]))
      BY <2>0a
    <3> QED BY <2>1, <3>1, <3>2
  <2>2. CASE k # f.n
    <3>1. /\ replaceHead(q[s], rest) \in QueueOf(F)
          /\ contents(replaceHead(q[s], rest)) = <<rest>> \o Tail(contents(q[s]))
      BY <1>2, <1>4, QueueReplace
    <3> QED BY <2>2, <3>1
  <2> QED BY <2>1, <2>2
<1> HIDE DEF w
<1>7. q'[s] = w /\ \A t \in Streams \ {s} : q'[t] = q[t]
  BY <1>3, <1>3a
<1>8. \A t \in Streams : q'[t] \in QueueOf(FramesOf(t))
  BY <1>3a, <1>6, <1>7 DEF F
<1>9. Owned' /\ q' \in [Streams -> QueueOf(Frames)]
  <2>1. w \in QueueOf(Frames)
    BY <1>6, FrameOwned DEF F
  <2> QED BY <1>3, <1>3a, <1>8, <2>1 DEF Owned
<1>10. win' \in [Streams -> Int] /\ conn' \in Int
  <2>1. k \in Int
    BY <1>1
  <2> QED BY <1>3, <1>3a, <2>1
<1> QED BY <1>5, <1>6, <1>7, <1>9, <1>10 DEF f, k, rest

(* A Pop of a ring serves the first stream of the ring that is ready.      *)
LEMMA FirstReadyFacts ==
    ASSUME NEW r \in Seq(Streams), NEW m \in 1 .. Len(r), Ready(r[m])
    PROVE  \E i \in 1 .. Len(r) : /\ FirstReady(r) = r[i] /\ Ready(r[i])
                                  /\ \A j \in 1 .. i - 1 : ~Ready(r[j])
<1> DEFINE T == {i \in 1 .. Len(r) : Ready(r[i])}
           P(i) == Ready(r[i]) /\ \A j \in 1 .. i - 1 : ~Ready(r[j])
<1>1. Len(r) \in Nat /\ T \subseteq Nat /\ T # {}
  OBVIOUS
<1>2. PICK i \in T : \A j \in T : i <= j
  BY <1>1, LeastNat
<1>3. \A j \in 1 .. i - 1 : j \in 1 .. Len(r) /\ ~(i <= j)
  BY <1>1
<1>4. i \in 1 .. Len(r) /\ P(i)
  BY <1>2, <1>3
<1> DEFINE x == CHOOSE l \in 1 .. Len(r) : P(l)
<1>5. x \in 1 .. Len(r) /\ P(x)
  BY <1>4
<1>6. FirstReady(r) = r[x]
  BY DEF FirstReady
<1> QED BY <1>5, <1>6

LEMMA PreferredFacts ==
    ASSUME ReadyClasses # {}, NEW inc
    PROVE  Preferred(inc) \in ReadyClasses
<1> DEFINE T == {Rank(c, inc) : c \in ReadyClasses}
<1>1. \A c \in ReadyClasses : Rank(c, inc) \in Nat
  <2> SUFFICES ASSUME NEW c \in ReadyClasses PROVE Rank(c, inc) \in Nat
    OBVIOUS
  <2>1. c[1] \in Nat /\ (c[2] = 0 \/ c[2] = 1)
    BY ClassesAssumption DEF ReadyClasses
  <2> QED BY <2>1 DEF Rank
<1>2. T \subseteq Nat /\ T # {}
  BY <1>1
<1>3. PICK x \in T : \A y \in T : x <= y
  BY <1>2, LeastNat
<1>4. PICK c \in ReadyClasses : Rank(c, inc) = x
  OBVIOUS
<1>5. \A d \in ReadyClasses : Rank(c, inc) <= Rank(d, inc)
  BY <1>3, <1>4
<1> QED BY <1>5 DEF Preferred

-----------------------------------------------------------------------------
(* SchedInv holds at the start, and every action keeps it.                 *)
LEMMA InitHolds == ASSUME Init PROVE SchedInv
<1>1. /\ EmptyQueue \in QueueOf(Frames)
      /\ \A s \in Streams : EmptyQueue \in QueueOf(FramesOf(s))
  BY DEF EmptyQueue, QueueOf
<1>2. /\ rings = [c \in Classes |-> <<>>] /\ prio = [s \in Streams |-> <<0, 1>>]
      /\ life = [s \in Streams |-> "idle"] /\ q = [s \in Streams |-> EmptyQueue]
      /\ wait = [s \in Streams |-> 0] /\ control = EmptyQueue
  BY DEF Init
<1>3. TypeOK
  <2>1. control \in QueueOf(Frames) /\ q \in [Streams -> QueueOf(Frames)]
    BY <1>1, <1>2
  <2>2. rings \in [Classes -> Seq(Streams)] /\ prio \in [Streams -> Classes]
    BY <1>2, ClassesAssumption
  <2>3. win \in [Streams -> Int] /\ conn \in Int
    BY WindowsAssumption DEF Init
  <2>4. life \in [Streams -> {"idle", "open", "closed"}] /\ wait \in [Streams -> Nat]
    BY <1>2
  <2>5. kind \in Kinds /\ buf = <<>> /\ popped \in Frames \cup {NoFrame, Nothing} /\ incFirst \in BOOLEAN
    BY Zenon DEF Init
  <2>6. pushed \in 0 .. MaxPush
    BY PushAssumption DEF Init
  <2> QED BY <2>1, <2>2, <2>3, <2>4, <2>5, <2>6 DEF TypeOK, QueueOf
<1>4. Owned /\ Strays
  BY <1>1, <1>2 DEF Owned, Strays
<1>5. \A c \in Classes : Len(rings[c]) = 0
  BY <1>2
<1>6. \A c \in Classes : 1 .. Len(rings[c]) = {}
  BY <1>5
<1>7. Ringed
  BY <1>2, <1>6 DEF Ringed, Distinct, Among
<1>8. Turns
  <2>1. \A s \in Streams : prio[s] \in Classes /\ wait[s] = 0
    BY <1>2, ClassesAssumption
  <2> QED BY <1>6, <2>1 DEF Turns
<1> QED BY <1>3, <1>4, <1>7, <1>8 DEF SchedInv

(* What only moves frames leaves the rings alone.                          *)
LEMMA OrderKept ==
    ASSUME SchedInv, UNCHANGED <<kind, life, rings, prio, wait>>
    PROVE  Ringed' /\ Turns'
BY DEF SchedInv, Ringed, Turns, Distinct, Among

LEMMA StutterKeeps == ASSUME SchedInv, UNCHANGED vars PROVE SchedInv'
<1>1. Ringed' /\ Turns'
  BY OrderKept DEF vars
<1>2. TypeOK' /\ Owned' /\ Strays'
  BY DEF SchedInv, TypeOK, Owned, Strays, vars
<1> QED BY <1>1, <1>2 DEF SchedInv

LEMMA PushKeeps ==
    ASSUME SchedInv, NEW s \in Streams \cup {Conn}, NEW p \in Payloads, Push(s, p)
    PROVE  SchedInv'
<1> DEFINE f == [id |-> pushed + 1, s |-> s, n |-> p[1], end |-> p[2]]
<1> USE DEF SchedInv
<1>1. Ringed' /\ Turns'
  BY OrderKept DEF Push, order
<1>2. pushed \in 0 .. MaxPush /\ pushed < MaxPush /\ MaxPush \in Nat /\ pushed' = pushed + 1
  BY PushAssumption DEF Push, TypeOK
<1>3. /\ pushed' \in 0 .. MaxPush /\ f \in Frames
      /\ s \in Streams => f \in FramesOf(s)
  BY <1>2, SizesAssumption DEF Frames, FramesOf
<1>4. /\ popped' = NoFrame
      /\ UNCHANGED <<kind, life, rings, prio, buf, incFirst, win, conn, wait>>
  BY DEF Push, order
<1>5. CASE HasQueue(s)
  <2>1. /\ s \in Streams /\ control' = control
        /\ q' = [q EXCEPT ![s] = push(q[s], f)]
    BY <1>5 DEF Push, HasQueue
  <2>2. push(q[s], f) \in QueueOf(FramesOf(s))
    BY <1>3, <2>1, QueuePush DEF Owned
  <2>3. push(q[s], f) \in QueueOf(Frames)
    BY <2>1, <2>2, FrameOwned
  <2> DEFINE w == push(q[s], f)
  <2> HIDE DEF w, f
  <2>4. TypeOK'
    <3>1. q \in [Streams -> QueueOf(Frames)]
      BY DEF TypeOK, QueueOf
    <3>2. q' \in [Streams -> QueueOf(Frames)]
      BY <2>1, <2>3, <3>1 DEF w
    <3> QED BY <1>3, <1>4, <2>1, <3>2 DEF TypeOK, QueueOf
  <2>5. Owned'
    BY <2>1, <2>2 DEF Owned, TypeOK
  <2>6. Strays'
    <3>1. kind = "random" \/ life[s] = "open"
      BY <1>5 DEF HasQueue
    <3> QED BY <1>4, <2>1, <3>1 DEF Strays, TypeOK
  <2> QED BY <1>1, <2>4, <2>5, <2>6
<1>6. CASE ~HasQueue(s)
  <2>1. q' = q /\ control' = push(control, f)
    BY <1>6 DEF Push
  <2>2. control \in QueueOf(Frames)
    BY DEF TypeOK, QueueOf
  <2>3. push(control, f) \in QueueOf(Frames)
    BY <1>3, <2>2, QueuePush
  <2>4. TypeOK'
    BY <1>3, <1>4, <2>1, <2>3 DEF TypeOK, QueueOf
  <2>5. Owned' /\ Strays'
    BY <1>4, <2>1 DEF Owned, Strays
  <2> QED BY <1>1, <2>4, <2>5
<1> QED BY <1>5, <1>6

LEMMA PopControlKeeps == ASSUME SchedInv, PopControl PROVE SchedInv'
<1> USE DEF SchedInv
<1>1. Ringed' /\ Turns'
  BY OrderKept DEF PopControl, order
<1>2. control \in QueueOf(Frames)
  BY DEF TypeOK, QueueOf
<1>3. popped' \in Frames /\ control' \in QueueOf(Frames)
  BY <1>2, QueuePeek DEF PopControl
<1>4. TypeOK'
  BY <1>3 DEF PopControl, order, env, TypeOK, QueueOf
<1>5. Owned' /\ Strays'
  BY DEF PopControl, Owned, Strays
<1> QED BY <1>1, <1>4, <1>5

LEMMA PopNothingKeeps == ASSUME SchedInv, PopNothing PROVE SchedInv'
<1> USE DEF SchedInv
<1>1. Ringed' /\ Turns'
  BY OrderKept DEF PopNothing
<1>2. incFirst' \in BOOLEAN
  BY DEF PopNothing
<1>3. TypeOK'
  BY <1>2 DEF PopNothing, TypeOK, queues, env
<1>4. Owned' /\ Strays'
  BY DEF PopNothing, Owned, Strays, queues
<1> QED BY <1>1, <1>3, <1>4

LEMMA SetWindowKeeps == ASSUME SchedInv, SetWindow PROVE SchedInv'
<1> USE DEF SchedInv
<1>1. Ringed' /\ Turns'
  BY OrderKept DEF SetWindow, order
<1>2. win' \in [Streams -> Int] /\ conn' \in Int
  BY WindowsAssumption, ZenonT(60) DEF SetWindow, TypeOK
<1>3. TypeOK'
  BY <1>2 DEF SetWindow, TypeOK, queues, order
<1>4. Owned' /\ Strays'
  BY DEF SetWindow, Owned, Strays, queues
<1> QED BY <1>1, <1>3, <1>4

LEMMA PopRandomKeeps ==
    ASSUME SchedInv, NEW s \in Streams, PopRandom(s) PROVE SchedInv'
<1> USE DEF SchedInv
<1>0. /\ kind = "random" /\ Ready(s) /\ consume(s)
      /\ UNCHANGED <<kind, life, control, rings, prio, buf, incFirst, pushed, wait>>
  BY DEF PopRandom, consume
<1>1. Ringed' /\ Turns'
  BY <1>0, OrderKept
<1>2. /\ q' \in [Streams -> QueueOf(Frames)] /\ Owned'
      /\ popped' \in Frames /\ win' \in [Streams -> Int] /\ conn' \in Int
  BY <1>0, ConsumeStep
<1>3. TypeOK'
  BY <1>0, <1>2 DEF TypeOK, QueueOf
<1>4. Strays'
  BY <1>0 DEF Strays
<1> QED BY <1>1, <1>2, <1>3, <1>4

(* The rings when a stream that is in none of them is opened.              *)
LEMMA OpenedRings ==
    ASSUME rings \in [Classes -> Seq(Streams)], NEW s \in Streams, NEW d \in Classes,
           \A e \in Classes : Distinct(rings[e]) /\ ~Among(s, rings[e]),
           rings' = Link(rings, d, s)
    PROVE  /\ rings' \in [Classes -> Seq(Streams)]
           /\ \A e \in Classes : Distinct(rings'[e])
           /\ \A e \in Classes : \A t \in Streams :
                 Among(t, rings'[e]) <=> Among(t, rings[e]) \/ (t = s /\ e = d)
           /\ \A e \in Classes : \A k \in 1 .. Len(rings'[e]) :
                 rings'[e][k] # s => k \in 1 .. Len(rings[e]) /\ rings[e][k] = rings'[e][k]
BY LinkFacts

LEMMA OpenStreamKeeps ==
    ASSUME SchedInv, NEW s \in Streams, NEW c \in Classes, OpenStream(s, c)
    PROVE  SchedInv'
<1> USE DEF SchedInv
<1>0. /\ life[s] = "idle" /\ life' = [life EXCEPT ![s] = "open"]
      /\ wait' = [wait EXCEPT ![s] = 0] /\ popped' = NoFrame
      /\ UNCHANGED <<kind, control, q, win, conn, pushed>>
  BY DEF OpenStream, queues, env
<1>1. /\ life' \in [Streams -> {"idle", "open", "closed"}] /\ life'[s] = "open"
      /\ wait' \in [Streams -> Nat] /\ wait'[s] = 0
      /\ \A t \in Streams \ {s} : life'[t] = life[t] /\ wait'[t] = wait[t]
  BY <1>0 DEF TypeOK
<1>2. Owned'
  BY <1>0 DEF Owned
<1>3. Strays'
  BY <1>0, <1>1 DEF Strays
<1>4. CASE kind = "random"
  <2>1. UNCHANGED <<rings, prio, buf, incFirst>>
    BY <1>4 DEF OpenStream, order
  <2>2. TypeOK'
    BY <1>0, <1>1, <2>1 DEF TypeOK
  <2>3. Ringed'
    BY <1>0, <1>4, <2>1 DEF Ringed, Distinct
  <2>4. Turns'
    BY <1>0, <1>1, <1>4 DEF Turns
  <2> QED BY <1>2, <1>3, <2>2, <2>3, <2>4
<1>5. CASE kind # "random"
  <2>0. OpenClass(s, c) \in Classes
    <3>1. CASE kind = "roundRobin"
      BY <3>1, ClassesAssumption DEF OpenClass
    <3>2. CASE kind # "roundRobin" /\ kind = "rfc9218" /\ buf # <<>> /\ buf[1] = s
      <4>1. buf \in Streams \X Classes
        BY <3>2 DEF TypeOK
      <4>2. buf[2] \in Classes
        BY <4>1
      <4> QED BY <3>2, <4>2 DEF OpenClass
    <3>3. CASE kind # "roundRobin" /\ ~(kind = "rfc9218" /\ buf # <<>> /\ buf[1] = s)
      BY <3>3 DEF OpenClass
    <3> QED BY <3>1, <3>2, <3>3
  <2>1. PICK d \in Classes : d = OpenClass(s, c)
    BY <2>0
  <2>2. /\ prio' = [prio EXCEPT ![s] = d] /\ rings' = Link(rings, d, s)
        /\ buf' = (IF buf # <<>> /\ buf[1] = s THEN <<>> ELSE buf) /\ incFirst' = incFirst
    BY <1>5, <2>1 DEF OpenStream
  <2>3. /\ prio' \in [Streams -> Classes] /\ prio'[s] = d
        /\ \A t \in Streams \ {s} : prio'[t] = prio[t]
    BY <2>1, <2>2 DEF TypeOK
  <2>4. \A e \in Classes : Distinct(rings[e]) /\ ~Among(s, rings[e])
    BY <1>0, <1>5 DEF Ringed
  <2>5. /\ rings' \in [Classes -> Seq(Streams)]
        /\ \A e \in Classes : Distinct(rings'[e])
        /\ \A e \in Classes : \A t \in Streams :
              Among(t, rings'[e]) <=> Among(t, rings[e]) \/ (t = s /\ e = d)
        /\ \A e \in Classes : \A k \in 1 .. Len(rings'[e]) :
              rings'[e][k] # s => k \in 1 .. Len(rings[e]) /\ rings[e][k] = rings'[e][k]
    <3>1. rings \in [Classes -> Seq(Streams)]
      BY DEF TypeOK
    <3> QED BY <2>2, <2>4, <3>1, OpenedRings
  <2>6. TypeOK'
    BY <1>0, <1>1, <2>2, <2>3, <2>5 DEF TypeOK
  <2>7. Ringed'
    <3>1. \A t \in Streams, e \in Classes :
              Among(t, rings'[e]) <=> (life'[t] = "open" /\ prio'[t] = e)
      <4> SUFFICES ASSUME NEW t \in Streams, NEW e \in Classes
                   PROVE  Among(t, rings'[e]) <=> (life'[t] = "open" /\ prio'[t] = e)
        OBVIOUS
      <4>1. CASE t = s
        BY <1>1, <2>3, <2>4, <2>5, <4>1
      <4>2. CASE t # s
        <5>1. Among(t, rings[e]) <=> (life[t] = "open" /\ prio[t] = e)
          BY <1>5 DEF Ringed
        <5>2. Among(t, rings'[e]) <=> Among(t, rings[e])
          BY <2>5, <4>2
        <5>3. life'[t] = life[t] /\ prio'[t] = prio[t]
          BY <1>1, <2>3, <4>2
        <5> QED BY <5>1, <5>2, <5>3
      <4> QED BY <4>1, <4>2
    <3>2. \A e \in Classes : Distinct(rings'[e])
      BY <2>5
    <3> QED BY <3>1, <3>2 DEF Ringed, Among, Distinct
  <2>8. Turns'
    <3>1. ASSUME NEW t \in Streams \ {s}, NEW k \in 1 .. Len(rings'[prio[t]]),
                 rings'[prio[t]][k] = t
          PROVE  \E j \in 1 .. Len(rings[prio[t]]) : rings[prio[t]][j] = t /\ k <= j
      <4>1. prio[t] \in Classes /\ t # s
        BY DEF TypeOK
      <4>2. k \in 1 .. Len(rings[prio[t]]) /\ rings[prio[t]][k] = t
        BY <2>5, <3>1, <4>1
      <4>3. Len(rings[prio[t]]) \in Nat
        BY <4>1 DEF TypeOK
      <4>4. k <= k
        BY <4>2, <4>3
      <4> QED BY <4>2, <4>4
    <3> QED BY <1>0, <1>1, <2>3, <2>5, <3>1, TurnsKept
  <2> QED BY <1>2, <1>3, <2>6, <2>7, <2>8
<1> QED BY <1>4, <1>5

LEMMA CloseStreamKeeps ==
    ASSUME SchedInv, NEW s \in Streams, CloseStream(s)
    PROVE  SchedInv'
<1> USE DEF SchedInv
<1>0. /\ life[s] = "open" /\ life' = [life EXCEPT ![s] = "closed"]
      /\ wait' = [wait EXCEPT ![s] = 0] /\ popped' = NoFrame
      /\ q' = [q EXCEPT ![s] = EmptyQueue] /\ rings' = Unlink(rings, s)
      /\ UNCHANGED <<kind, control, prio, buf, incFirst, win, conn, pushed>>
  BY DEF CloseStream, env
<1>1. /\ life' \in [Streams -> {"idle", "open", "closed"}] /\ life'[s] = "closed"
      /\ wait' \in [Streams -> Nat] /\ wait'[s] = 0
      /\ q'[s] = EmptyQueue
      /\ \A t \in Streams \ {s} : life'[t] = life[t] /\ wait'[t] = wait[t] /\ q'[t] = q[t]
  BY <1>0 DEF TypeOK
<1>2. /\ EmptyQueue \in QueueOf(Frames)
      /\ \A t \in Streams : EmptyQueue \in QueueOf(FramesOf(t))
  BY DEF EmptyQueue, QueueOf
<1>3. Owned'
  BY <1>1, <1>2 DEF Owned
<1>4. Strays'
  BY <1>0, <1>1 DEF Strays
<1>5. /\ rings' \in [Classes -> Seq(Streams)]
      /\ \A c \in Classes : Distinct(rings'[c])
      /\ kind # "random" => \A c \in Classes : \A t \in Streams :
            Among(t, rings'[c]) <=> Among(t, rings[c]) /\ t # s
      /\ \A c \in Classes : \A k \in 1 .. Len(rings'[c]) :
            \E j \in 1 .. Len(rings[c]) : rings[c][j] = rings'[c][k] /\ k <= j
  BY <1>0, UnlinkFacts
<1>6. TypeOK'
  <2>1. q' \in [Streams -> QueueOf(Frames)]
    BY <1>0, <1>2 DEF TypeOK, QueueOf
  <2> QED BY <1>0, <1>1, <1>5, <2>1 DEF TypeOK, QueueOf
<1>7. Ringed'
  <2>1. ASSUME kind # "random", NEW t \in Streams, NEW c \in Classes
        PROVE  Among(t, rings'[c]) <=> (life'[t] = "open" /\ prio'[t] = c)
    BY <1>0, <1>1, <1>5, <2>1 DEF Ringed
  <2>2. \A c \in Classes : Distinct(rings'[c])
    BY <1>5
  <2> QED BY <1>0, <2>1, <2>2 DEF Ringed, Among, Distinct
<1>8. Turns'
  <2>1. ASSUME NEW t \in Streams \ {s}, NEW k \in 1 .. Len(rings'[prio[t]]),
               rings'[prio[t]][k] = t
        PROVE  \E j \in 1 .. Len(rings[prio[t]]) : rings[prio[t]][j] = t /\ k <= j
    <3>1. prio[t] \in Classes
      BY DEF TypeOK
    <3> QED BY <1>5, <2>1, <3>1
  <2>2. prio' \in [Streams -> Classes] /\ \A t \in Streams : prio'[t] = prio[t]
    BY <1>0 DEF TypeOK
  <2> QED BY <1>0, <1>1, <1>5, <2>1, <2>2, TurnsKept
<1> QED BY <1>3, <1>4, <1>6, <1>7, <1>8

LEMMA AdjustStreamKeeps ==
    ASSUME SchedInv, NEW s \in Streams, NEW d \in Classes, AdjustStream(s, d)
    PROVE  SchedInv'
<1> USE DEF SchedInv
<1>0. /\ kind = "rfc9218" /\ popped' = NoFrame /\ kind # "random"
      /\ UNCHANGED <<kind, life, control, q, incFirst, win, conn, pushed>>
  BY DEF AdjustStream, queues, env
<1>1. Owned' /\ Strays'
  BY <1>0 DEF Owned, Strays
<1>2. CASE life[s] # "open"
  <2>1. buf' = <<s, d>> /\ UNCHANGED <<rings, prio, wait>>
    BY <1>2 DEF AdjustStream
  <2>2. TypeOK'
    BY <1>0, <2>1 DEF TypeOK
  <2>3. Ringed' /\ Turns'
    BY <1>0, <2>1, OrderKept
  <2> QED BY <1>1, <2>2, <2>3
<1>3. CASE life[s] = "open"
  <2> DEFINE rs == Unlink(rings, s)
  <2>1. /\ rings' = Link(rs, d, s) /\ prio' = [prio EXCEPT ![s] = d]
        /\ wait' = [wait EXCEPT ![s] = 0] /\ buf' = buf
    BY <1>3 DEF AdjustStream
  <2>2. /\ rs \in [Classes -> Seq(Streams)]
        /\ \A c \in Classes : Distinct(rs[c])
        /\ \A c \in Classes : \A t \in Streams :
              Among(t, rs[c]) <=> Among(t, rings[c]) /\ t # s
        /\ \A c \in Classes : \A k \in 1 .. Len(rs[c]) :
              \E j \in 1 .. Len(rings[c]) : rings[c][j] = rs[c][k] /\ k <= j
    BY <1>0, UnlinkFacts
  <2> HIDE DEF rs
  <2>3. \A c \in Classes : Distinct(rs[c]) /\ ~Among(s, rs[c])
    BY <2>2
  <2>4. /\ rings' \in [Classes -> Seq(Streams)]
        /\ \A e \in Classes : Distinct(rings'[e])
        /\ \A e \in Classes : \A t \in Streams :
              Among(t, rings'[e]) <=> Among(t, rs[e]) \/ (t = s /\ e = d)
        /\ \A e \in Classes : \A k \in 1 .. Len(rings'[e]) :
              rings'[e][k] # s => k \in 1 .. Len(rs[e]) /\ rs[e][k] = rings'[e][k]
    <3> DEFINE ls == Link(rs, d, s)
    <3>1. rs \in [Classes -> Seq(Streams)]
      BY <2>2
    <3>2. /\ ls \in [Classes -> Seq(Streams)]
          /\ \A e \in Classes : Distinct(ls[e])
          /\ \A e \in Classes : \A t \in Streams :
                Among(t, ls[e]) <=> Among(t, rs[e]) \/ (t = s /\ e = d)
          /\ \A e \in Classes : \A k \in 1 .. Len(ls[e]) :
                ls[e][k] # s => k \in 1 .. Len(rs[e]) /\ rs[e][k] = ls[e][k]
      BY <2>3, <3>1, LinkFacts, SMTT(30)
    <3>3. rings' = ls
      BY <2>1
    <3> HIDE DEF ls
    <3> QED BY <3>2, <3>3, Zenon
  <2>5. /\ prio' \in [Streams -> Classes] /\ prio'[s] = d
        /\ wait' \in [Streams -> Nat] /\ wait'[s] = 0
        /\ \A t \in Streams \ {s} : prio'[t] = prio[t] /\ wait'[t] = wait[t]
    BY <2>1 DEF TypeOK
  <2>6. TypeOK'
    BY <1>0, <2>1, <2>4, <2>5 DEF TypeOK
  <2>7. Ringed'
    <3>1. ASSUME NEW t \in Streams, NEW e \in Classes
          PROVE  Among(t, rings'[e]) <=> (life'[t] = "open" /\ prio'[t] = e)
      <4>1. CASE t = s
        BY <1>0, <1>3, <2>2, <2>4, <2>5, <4>1
      <4>2. CASE t # s
        <5>1. Among(t, rings[e]) <=> (life[t] = "open" /\ prio[t] = e)
          BY <1>0 DEF Ringed
        <5>2. Among(t, rings'[e]) <=> Among(t, rings[e])
          BY <2>2, <2>4, <4>2
        <5>3. life'[t] = life[t] /\ prio'[t] = prio[t]
          BY <1>0, <2>5, <4>2
        <5> QED BY <5>1, <5>2, <5>3
      <4> QED BY <4>1, <4>2
    <3>2. \A e \in Classes : Distinct(rings'[e])
      BY <2>4
    <3> QED BY <3>1, <3>2 DEF Ringed, Among, Distinct
  <2>8. Turns'
    <3>1. ASSUME NEW t \in Streams \ {s}, NEW k \in 1 .. Len(rings'[prio[t]]),
                 rings'[prio[t]][k] = t
          PROVE  \E j \in 1 .. Len(rings[prio[t]]) : rings[prio[t]][j] = t /\ k <= j
      <4>1. prio[t] \in Classes /\ t # s
        BY DEF TypeOK
      <4>2. k \in 1 .. Len(rs[prio[t]]) /\ rs[prio[t]][k] = t
        BY <2>4, <3>1, <4>1
      <4> QED BY <2>2, <4>1, <4>2
    <3>2. \A t \in Streams : life'[t] = life[t]
      BY <1>0
    <3> QED BY <1>0, <2>4, <2>5, <3>1, <3>2, TurnsKept
  <2> QED BY <1>1, <2>6, <2>7, <2>8
<1> QED BY <1>2, <1>3

(* Which stream a Pop of the rings serves.                                 *)
LEMMA RingChoice ==
    ASSUME SchedInv, kind # "random", NEW inc, ReadyClasses # {}
    PROVE  /\ Preferred(inc) \in Classes
           /\ \E i \in 1 .. Len(rings[Preferred(inc)]) :
                 /\ FirstReady(rings[Preferred(inc)]) = rings[Preferred(inc)][i]
                 /\ Ready(rings[Preferred(inc)][i])
                 /\ \A j \in 1 .. i - 1 : ~Ready(rings[Preferred(inc)][j])
           /\ FirstReady(rings[Preferred(inc)]) \in Streams
           /\ Ready(FirstReady(rings[Preferred(inc)]))
           /\ life[FirstReady(rings[Preferred(inc)])] = "open"
           /\ prio[FirstReady(rings[Preferred(inc)])] = Preferred(inc)
<1> DEFINE c == Preferred(inc)
<1>1. c \in ReadyClasses
  BY PreferredFacts
<1> HIDE DEF c
<1>2. c \in Classes /\ \E m \in 1 .. Len(rings[c]) : Ready(rings[c][m])
  BY <1>1 DEF ReadyClasses
<1>3. rings[c] \in Seq(Streams)
  BY <1>2 DEF SchedInv, TypeOK
<1>4. PICK i \in 1 .. Len(rings[c]) : /\ FirstReady(rings[c]) = rings[c][i] /\ Ready(rings[c][i])
                                      /\ \A j \in 1 .. i - 1 : ~Ready(rings[c][j])
  BY <1>2, <1>3, FirstReadyFacts
<1>5. rings[c][i] \in Streams
  BY <1>3
<1>6. Among(rings[c][i], rings[c])
  BY DEF Among
<1>7. life[rings[c][i]] = "open" /\ prio[rings[c][i]] = c
  BY <1>2, <1>5, <1>6 DEF SchedInv, Ringed
<1> QED BY <1>2, <1>4, <1>5, <1>7 DEF c

LEMMA PopRingKeeps == ASSUME SchedInv, PopRing PROVE SchedInv'
<1> USE DEF SchedInv
<1> DEFINE inc == kind = "rfc9218" /\ ~incFirst
           c == Preferred(inc)
           s == FirstReady(rings[c])
           N == Cardinality(Streams)
<1>1. /\ kind # "random" /\ ReadyClasses # {} /\ consume(s)
      /\ rings' = [rings EXCEPT ![c] = Served(rings[c], c, s)]
      /\ incFirst' = inc
      /\ wait' = [t \in Streams |-> IF t = s \/ ~Ready(t) THEN 0
                                    ELSE IF prio[t] = c THEN wait[t] + 1 ELSE wait[t]]
  BY DEF PopRing
<1>2. /\ c \in Classes /\ s \in Streams /\ Ready(s) /\ life[s] = "open" /\ prio[s] = c
      /\ \E i \in 1 .. Len(rings[c]) : /\ s = rings[c][i]
                                       /\ \A j \in 1 .. i - 1 : ~Ready(rings[c][j])
  BY <1>1, RingChoice
<1>3. inc \in BOOLEAN
  OBVIOUS
<1> HIDE DEF inc, c, s
<1>4. PICK i \in 1 .. Len(rings[c]) : s = rings[c][i] /\ \A j \in 1 .. i - 1 : ~Ready(rings[c][j])
  BY <1>2
<1>5. /\ q' \in [Streams -> QueueOf(Frames)] /\ Owned'
      /\ \A t \in Streams \ {s} : q'[t] = q[t]
      /\ popped' \in Frames /\ win' \in [Streams -> Int] /\ conn' \in Int
  BY <1>1, <1>2, ConsumeStep
<1>6. UNCHANGED <<kind, life, control, prio, buf, pushed>>
  BY <1>1 DEF consume
<1>7. Strays'
  BY <1>2, <1>5, <1>6 DEF Strays
<1> DEFINE r == rings[c]
           v == Served(r, c, s)
<1>8. r \in Seq(Streams) /\ Distinct(r) /\ Len(r) \in Nat
  BY <1>2 DEF TypeOK, Ringed
<1>9. /\ v \in Seq(Streams) /\ Distinct(v)
      /\ \A t : Among(t, v) <=> Among(t, r)
      /\ c[2] = 1 => \A j \in i + 1 .. Len(r) : j - i \in 1 .. Len(v) /\ v[j - i] = r[j]
  <2> HIDE DEF r
  <2>1. i \in 1 .. Len(r) /\ s = r[i]
    BY <1>4 DEF r
  <2> QED BY <1>8, <2>1, ServedFacts, ZenonT(60)
<1>10. rings' = [rings EXCEPT ![c] = v]
  BY <1>1
<1> HIDE DEF v
<1>11. /\ rings' \in [Classes -> Seq(Streams)] /\ rings'[c] = v
       /\ \A d \in Classes \ {c} : rings'[d] = rings[d]
  BY <1>2, <1>9, <1>10 DEF TypeOK
<1>12. \A d \in Classes : Distinct(rings'[d])
  BY <1>9, <1>11 DEF Ringed
<1>13. Ringed'
  <2>1. ASSUME NEW t \in Streams, NEW d \in Classes
        PROVE  Among(t, rings'[d]) <=> (life'[t] = "open" /\ prio'[t] = d)
    <3>1. Among(t, rings[d]) <=> (life[t] = "open" /\ prio[t] = d)
      BY <1>1 DEF Ringed
    <3>2. Among(t, rings'[d]) <=> Among(t, rings[d])
      BY <1>9, <1>11
    <3> QED BY <1>6, <3>1, <3>2
  <2> QED BY <1>12, <2>1 DEF Ringed, Among, Distinct
<1>14. wait' \in [Streams -> Nat]
  <2> DEFINE x(t) == IF t = s \/ ~Ready(t) THEN 0 ELSE IF prio[t] = c THEN wait[t] + 1 ELSE wait[t]
  <2>1. \A t \in Streams : wait[t] \in Nat
    BY DEF TypeOK
  <2>2. ASSUME NEW t \in Streams PROVE x(t) \in Nat
    <3>1. wait[t] \in Nat /\ wait[t] + 1 \in Nat
      BY <2>1
    <3> QED BY <3>1
  <2>3. wait' = [t \in Streams |-> x(t)]
    BY <1>1
  <2> HIDE DEF x
  <2> QED BY <2>2, <2>3
<1>15. TypeOK'
  <2>1. incFirst' \in BOOLEAN
    BY <1>1, <1>3
  <2> QED BY <1>5, <1>6, <1>11, <1>14, <2>1 DEF TypeOK, QueueOf
<1>16. ASSUME NEW t \in Streams, life[t] # "open" PROVE wait'[t] = 0
  <2>1. q[t] = EmptyQueue
    BY <1>1, <1>16 DEF Strays
  <2>2. ~Ready(t)
    BY <2>1 DEF Ready, empty, EmptyQueue
  <2> QED BY <1>1, <2>2
<1>17. ASSUME NEW t \in Streams, prio[t][2] = 1,
              NEW k \in 1 .. Len(rings'[prio[t]]), rings'[prio[t]][k] = t
       PROVE  wait'[t] + k <= N
  <2>1. prio[t] \in Classes /\ wait[t] \in Nat
    BY DEF TypeOK
  <2>2. /\ Len(rings'[prio[t]]) <= N /\ N \in Nat
        /\ rings'[prio[t]] \in Seq(Streams) /\ Len(rings'[prio[t]]) \in Nat
    <3>1. rings'[prio[t]] \in Seq(Streams) /\ Distinct(rings'[prio[t]])
      BY <1>11, <1>12, <2>1
    <3> QED BY <3>1, DistinctLen, StreamsAssumption DEF Distinct
  <2>3. CASE t = s \/ ~Ready(t)
    <3>1. wait'[t] = 0
      BY <1>1, <2>3
    <3> QED BY <2>2, <3>1
  <2>4. CASE ~(t = s \/ ~Ready(t)) /\ prio[t] = c
    <3>1. wait'[t] = wait[t] + 1
      BY <1>1, <2>4
    <3>2. k \in 1 .. Len(v) /\ v[k] = t /\ c[2] = 1
      BY <1>11, <1>17, <2>4
    <3>3. Among(t, v)
      BY <3>2 DEF Among
    <3>4. PICK j \in 1 .. Len(r) : r[j] = t
      BY <1>9, <3>3 DEF Among
    <3>5. ~(j \in 1 .. i - 1)
      BY <1>4, <2>4, <3>4
    <3>6. j # i
      BY <1>4, <2>4, <3>4
    <3>7. j \in i + 1 .. Len(r) /\ i \in Nat /\ i >= 1 /\ j \in Nat
      <4> HIDE DEF r
      <4>1. i \in 1 .. Len(r)
        BY DEF r
      <4> QED BY <1>8, <3>5, <3>6, <4>1
    <3>8. j - i \in 1 .. Len(v) /\ v[j - i] = t
      BY <1>9, <3>2, <3>4, <3>7
    <3>9. k = j - i
      BY <1>9, <3>2, <3>8 DEF Distinct
    <3>10. wait[t] + j <= N
      BY <1>1, <1>17, <2>4, <3>4 DEF Turns
    <3> QED BY <2>1, <2>2, <3>1, <3>7, <3>9, <3>10
  <2>5. CASE ~(t = s \/ ~Ready(t)) /\ prio[t] # c
    <3>1. wait'[t] = wait[t]
      BY <1>1, <2>5
    <3>2. rings'[prio[t]] = rings[prio[t]]
      BY <1>11, <2>1, <2>5
    <3> QED BY <1>1, <1>17, <3>1, <3>2 DEF Turns
  <2> QED BY <2>3, <2>4, <2>5
<1>18. Turns'
  <2>1. ASSUME NEW t \in Streams
        PROVE  /\ kind' = "random" \/ life'[t] # "open" => wait'[t] = 0
               /\ kind' # "random" /\ prio'[t][2] = 1 =>
                     \A k \in 1 .. Len(rings'[prio'[t]]) :
                         rings'[prio'[t]][k] = t => wait'[t] + k <= N
    BY <1>1, <1>6, <1>16, <1>17
  <2> QED BY <2>1 DEF Turns
<1> QED BY <1>5, <1>7, <1>13, <1>15, <1>18

LEMMA NextKeeps == ASSUME SchedInv, [Next]_vars PROVE SchedInv'
<1>1. ASSUME NEW s \in Streams, NEW c \in Classes, OpenStream(s, c) \/ AdjustStream(s, c)
      PROVE  SchedInv'
  BY <1>1, OpenStreamKeeps, AdjustStreamKeeps
<1>2. ASSUME NEW s \in Streams, CloseStream(s) \/ PopRandom(s) PROVE SchedInv'
  BY <1>2, CloseStreamKeeps, PopRandomKeeps
<1>3. ASSUME NEW s \in Streams \cup {Conn}, NEW p \in Payloads, Push(s, p) PROVE SchedInv'
  BY <1>3, PushKeeps
<1>4. CASE PopControl
  BY <1>4, PopControlKeeps
<1>5. CASE PopRing
  BY <1>5, PopRingKeeps
<1>6. CASE PopNothing
  BY <1>6, PopNothingKeeps
<1>7. CASE SetWindow
  BY <1>7, SetWindowKeeps
<1>8. CASE UNCHANGED vars
  BY <1>8, StutterKeeps
<1> QED BY <1>1, <1>2, <1>3, <1>4, <1>5, <1>6, <1>7, <1>8 DEF Next

LEMMA Inductive == Spec => []SchedInv
<1>1. Init => SchedInv
  BY InitHolds
<1>2. SchedInv /\ [Next]_vars => SchedInv'
  BY NextKeeps
<1> QED BY <1>1, <1>2, PTL DEF Spec

-----------------------------------------------------------------------------
(* The schedulers implement StreamQueues: a step of a scheduler is a step  *)
(* on the frames in order, or leaves them alone.                           *)
LEMMA QueueView ==
    ASSUME SchedInv
    PROVE  /\ \A s \in Streams : /\ q[s] \in QueueOf(FramesOf(s))
                                 /\ contents(q[s]) \in Seq(FramesOf(s))
           /\ control \in QueueOf(Frames) /\ contents(control) \in Seq(Frames)
<1>1. \A s \in Streams : q[s] \in QueueOf(FramesOf(s))
  BY DEF SchedInv, Owned
<1>2. control \in QueueOf(Frames)
  BY DEF SchedInv, TypeOK, QueueOf
<1> QED BY <1>1, <1>2, QueueEmpty

LEMMA ReadyIsWritable ==
    ASSUME SchedInv, NEW s \in Streams
    PROVE  /\ Ready(s) <=> Queues!Writable(s)
           /\ available(s) = Queues!Room(s)
<1>1. q[s] \in QueueOf(FramesOf(s)) /\ TypeOK
  BY DEF SchedInv, Owned
<1>2. empty(q[s]) <=> contents(q[s]) = <<>>
  BY <1>1, QueueEmpty
<1>3. available(s) = Queues!Room(s)
  BY DEF available, Least, Queues!Room
<1>4. CASE empty(q[s])
  BY <1>2, <1>3, <1>4 DEF Ready, Queues!Writable
<1>5. CASE ~empty(q[s])
  <2>1. peek(q[s]) \in FramesOf(s) /\ peek(q[s]) = Head(contents(q[s]))
    BY <1>1, <1>5, QueuePeek
  <2>2. Consume(peek(q[s])) >= 0 <=> (peek(q[s]).n = 0 \/ available(s) > 0)
    BY <1>1, <2>1, ConsumeFacts
  <2> QED BY <1>2, <1>3, <1>5, <2>1, <2>2 DEF Ready, Queues!Writable
<1> QED BY <1>4, <1>5

LEMMA InitImplements == ASSUME Init PROVE Queues!Init
<1>1. contents(EmptyQueue) = <<>>
  BY DEF contents, EmptyQueue
<1>2. {s \in Streams : life[s] = "open"} = {}
  BY DEF Init
<1>3. contents(control) = <<>>
  BY <1>1 DEF Init
<1>4. [s \in Streams |-> contents(q[s])] = [s \in Streams |-> <<>>]
  BY <1>1 DEF Init
<1>5. win \in [Streams -> Int] /\ conn \in Int /\ popped = NoFrame
  BY WindowsAssumption DEF Init
<1> QED BY <1>2, <1>3, <1>4, <1>5 DEF Queues!Init

LEMMA OpenStreamImplements ==
    ASSUME SchedInv, NEW s \in Streams, NEW c \in Classes, OpenStream(s, c)
    PROVE  Queues!OpenStream(s)
<1>1. /\ life \in [Streams -> {"idle", "open", "closed"}]
      /\ life[s] = "idle" /\ life' = [life EXCEPT ![s] = "open"]
      /\ UNCHANGED <<control, q, win, conn>> /\ popped' = NoFrame
  BY DEF OpenStream, queues, env, SchedInv, TypeOK
<1>2. {t \in Streams : life'[t] = "open"} = {t \in Streams : life[t] = "open"} \cup {s}
  BY <1>1
<1>3. s \notin {t \in Streams : life[t] = "open"}
  BY <1>1
<1>4. [t \in Streams |-> contents(q'[t])] = [t \in Streams |-> contents(q[t])]
      /\ contents(control') = contents(control)
  BY <1>1
<1> QED BY <1>1, <1>2, <1>3, <1>4 DEF Queues!OpenStream

LEMMA CloseStreamImplements ==
    ASSUME SchedInv, NEW s \in Streams, CloseStream(s)
    PROVE  Queues!CloseStream(s)
<1>1. /\ life \in [Streams -> {"idle", "open", "closed"}] /\ DOMAIN q = Streams
      /\ life[s] = "open" /\ life' = [life EXCEPT ![s] = "closed"]
      /\ q' = [q EXCEPT ![s] = EmptyQueue]
      /\ UNCHANGED <<control, win, conn>> /\ popped' = NoFrame
  BY DEF CloseStream, env, SchedInv, TypeOK
<1>2. {t \in Streams : life'[t] = "open"} = {t \in Streams : life[t] = "open"} \ {s}
  BY <1>1
<1>3. s \in {t \in Streams : life[t] = "open"}
  BY <1>1
<1>4. contents(EmptyQueue) = <<>>
  BY DEF contents, EmptyQueue
<1>5. [t \in Streams |-> contents(q'[t])]
        = [[t \in Streams |-> contents(q[t])] EXCEPT ![s] = <<>>]
  <2>1. \A t \in Streams : contents(q'[t]) = IF t = s THEN <<>> ELSE contents(q[t])
    BY <1>1, <1>4
  <2> QED BY <2>1
<1>6. contents(control') = contents(control)
  BY <1>1
<1> QED BY <1>1, <1>2, <1>3, <1>5, <1>6 DEF Queues!CloseStream

LEMMA PushImplements ==
    ASSUME SchedInv, NEW s \in Streams \cup {Conn}, NEW p \in Payloads, Push(s, p)
    PROVE  Queues!Next
<1> DEFINE f == [id |-> pushed + 1, s |-> s, n |-> p[1], end |-> p[2]]
           open == {t \in Streams : life[t] = "open"}
           Q == [t \in Streams |-> contents(q[t])]
           P == [t \in Streams |-> contents(q'[t])]
<1>1. /\ f.n = 0 \/ s \in open
      /\ UNCHANGED <<life, win, conn, kind>> /\ popped' = NoFrame
      /\ IF HasQueue(s) THEN q' = [q EXCEPT ![s] = push(q[s], f)] /\ UNCHANGED control
                        ELSE control' = push(control, f) /\ UNCHANGED q
  BY DEF Push
<1>2. f \in Frames /\ (s \in Streams => f \in FramesOf(s))
  <2>1. pushed \in 0 .. MaxPush /\ pushed < MaxPush /\ MaxPush \in Nat
    BY PushAssumption DEF Push, SchedInv, TypeOK
  <2> QED BY <2>1, SizesAssumption DEF Frames, FramesOf
<1>3. {t \in Streams : life'[t] = "open"} = open
  BY <1>1
<1> HIDE DEF f
<1>4. CASE HasQueue(s)
  <2>1. s \in Streams /\ s # Conn /\ DOMAIN q = Streams
    BY <1>4, StreamsAssumption DEF HasQueue, SchedInv, TypeOK
  <2>2. q[s] \in QueueOf(FramesOf(s)) /\ contents(q[s]) \in Seq(FramesOf(s))
    BY <2>1, QueueView
  <2> DEFINE x == Append(contents(q[s]), f)
  <2>3. contents(push(q[s], f)) = x
    BY <1>2, <2>1, <2>2, QueuePush
  <2>4. Len(x) > Len(contents(q[s])) /\ x[Len(x)] = f
    BY <1>2, <2>1, <2>2
  <2> HIDE DEF x
  <2>5. \A t \in Streams : contents(q'[t]) = IF t = s THEN x ELSE contents(q[t])
    BY <1>1, <1>4, <2>1, <2>3
  <2>6. P = [Q EXCEPT ![s] = x] /\ P[s] = x /\ Q[s] = contents(q[s])
    BY <2>1, <2>5
  <2>7. P = [Q EXCEPT ![s] = Append(Q[s], f)]
    BY <2>6, Zenon DEF x
  <2>8. contents(control') = contents(control)
    BY <1>1, <1>4
  <2>9. Queues!Push(s, f)
    <3>1. s \in open \/ (s \in Streams \ open /\ f.n = 0)
      BY <1>1, <2>1
    <3> QED BY <1>1, <1>3, <2>1, <2>7, <2>8, <3>1, Zenon DEF Queues!Push
  <2>10. Len(P[s]) > Len(Q[s]) /\ P[s][Len(P[s])] = f
    BY <2>4, <2>6
  <2> QED BY <2>1, <2>9, <2>10, Zenon DEF Queues!Next
<1>5. CASE ~HasQueue(s)
  <2>1. s \notin open
    BY <1>5, StreamsAssumption DEF HasQueue
  <2>2. f.n = 0 /\ (s = Conn \/ s \in Streams \ open)
    BY <1>1, <2>1
  <2>3. control' = push(control, f) /\ q' = q
    BY <1>1, <1>5
  <2>4. control \in QueueOf(Frames) /\ contents(control) \in Seq(Frames)
    BY QueueView
  <2>5. contents(control') = Append(contents(control), f)
    BY <1>2, <2>3, <2>4, QueuePush
  <2>6. /\ Len(contents(control')) > Len(contents(control))
        /\ contents(control')[Len(contents(control'))] = f
    BY <1>2, <2>4, <2>5
  <2>7. P = Q
    BY <2>3
  <2>8. Queues!Push(s, f)
    BY <1>1, <1>3, <2>1, <2>2, <2>5, <2>7, Zenon DEF Queues!Push
  <2> QED BY <2>6, <2>8, Zenon DEF Queues!Next
<1> QED BY <1>4, <1>5

LEMMA PopControlImplements == ASSUME SchedInv, PopControl PROVE Queues!PopControl
<1>1. /\ ~empty(control) /\ popped' = peek(control) /\ control' = shift(control)
      /\ UNCHANGED <<life, q, win, conn>>
  BY DEF PopControl, env
<1>2. control \in QueueOf(Frames)
  BY QueueView
<1>3. /\ contents(control) # <<>> /\ popped' = Head(contents(control))
      /\ contents(control') = Tail(contents(control))
  BY <1>1, <1>2, QueuePeek
<1>4. /\ {s \in Streams : life'[s] = "open"} = {s \in Streams : life[s] = "open"}
      /\ [s \in Streams |-> contents(q'[s])] = [s \in Streams |-> contents(q[s])]
  BY <1>1
<1> QED BY <1>1, <1>3, <1>4 DEF Queues!PopControl

(* Both kinds of Pop that serve a stream.                                  *)
LEMMA ConsumeImplements ==
    ASSUME SchedInv, NEW s \in Streams, Ready(s), consume(s), empty(control)
    PROVE  Queues!Next
<1> DEFINE f == peek(q[s])
           k == Consume(f)
           Q == [t \in Streams |-> contents(q[t])]
           P == [t \in Streams |-> contents(q'[t])]
           first == IF k = f.n THEN <<>> ELSE <<[f EXCEPT !.n = f.n - k]>>
<1>1. /\ popped' = [f EXCEPT !.n = k, !.end = f.end /\ k = f.n]
      /\ win' = [win EXCEPT ![s] = win[s] - k] /\ conn' = conn - k
      /\ UNCHANGED <<life, control>>
  BY Zenon DEF consume
<1>2. contents(control) = <<>> /\ contents(control') = contents(control)
  <2>1. control \in QueueOf(Frames)
    BY QueueView
  <2> QED BY <1>1, <2>1, QueueEmpty
<1>3. /\ f = Head(contents(q[s])) /\ contents(q[s]) # <<>>
  <2>1. q[s] \in QueueOf(FramesOf(s)) /\ ~empty(q[s])
    BY QueueView DEF Ready
  <2> QED BY <2>1, QueuePeek
<1>4. Queues!Writable(s) /\ available(s) = Queues!Room(s)
  BY ReadyIsWritable
<1>5. /\ k \in 0 .. f.n
      /\ IF f.n = 0 THEN k = 0 ELSE k \in 1 .. f.n /\ k <= available(s)
  BY FirstFrame
<1>6. /\ contents(q'[s]) = first \o Tail(contents(q[s]))
      /\ \A t \in Streams \ {s} : q'[t] = q[t]
  BY ConsumeStep
<1> HIDE DEF f, k, first
<1> DEFINE x == first \o Tail(contents(q[s]))
<1>7. P = [Q EXCEPT ![s] = x] /\ Q[s] = contents(q[s])
  <2> HIDE DEF x
  <2>1. \A t \in Streams : contents(q'[t]) = IF t = s THEN x ELSE contents(q[t])
    BY <1>6 DEF x
  <2> QED BY <2>1
<1>8. P = [Q EXCEPT ![s] = first \o Tail(Q[s])]
  BY <1>7, Zenon
<1>9. {t \in Streams : life'[t] = "open"} = {t \in Streams : life[t] = "open"}
  BY <1>1
<1>10. f = Head(Q[s]) /\ Q[s] # <<>>
  BY <1>3, <1>7
<1> DEFINE g == Head(Q[s])
<1>11. P = [Q EXCEPT ![s] = (IF k = g.n THEN <<>> ELSE <<[g EXCEPT !.n = g.n - k]>>) \o Tail(Q[s])]
  BY <1>8, <1>10, Zenon DEF first
<1>12. /\ popped' = [g EXCEPT !.n = k, !.end = g.end /\ k = g.n]
       /\ k \in 0 .. g.n
       /\ IF g.n = 0 THEN k = 0 ELSE k \in 1 .. g.n /\ k <= Queues!Room(s)
  BY <1>1, <1>4, <1>5, <1>10, Zenon
<1>13. Queues!PopStream(s, k)
  BY <1>1, <1>2, <1>4, <1>9, <1>11, <1>12, Zenon DEF Queues!PopStream
<1> QED BY <1>10, <1>12, <1>13, Zenon DEF Queues!Next

LEMMA PopNothingImplements == ASSUME SchedInv, PopNothing PROVE Queues!PopNothing
<1>1. /\ empty(control) /\ UNCHANGED <<life, control, q, win, conn>> /\ popped' = Nothing
      /\ IF kind = "random" THEN \A s \in Streams : ~Ready(s) ELSE ReadyClasses = {}
  BY DEF PopNothing, queues, env
<1>2. contents(control) = <<>> /\ contents(control') = contents(control)
  <2>1. control \in QueueOf(Frames)
    BY QueueView
  <2> QED BY <1>1, <2>1, QueueEmpty
<1>3. ASSUME NEW s \in Streams PROVE ~Ready(s)
  <2>1. CASE kind = "random"
    BY <1>1, <2>1
  <2>3. CASE kind # "random" /\ life[s] = "open"
    <3>1. prio[s] \in Classes
      BY DEF SchedInv, TypeOK
    <3>2. PICK i \in 1 .. Len(rings[prio[s]]) : rings[prio[s]][i] = s
      BY <2>3, <3>1 DEF SchedInv, Ringed, Among
    <3> QED BY <1>1, <2>3, <3>1, <3>2 DEF ReadyClasses
  <2>2. CASE ~(kind = "random" \/ life[s] = "open")
    <3>1. q[s] = EmptyQueue
      BY <2>2 DEF SchedInv, Strays
    <3> QED BY <3>1 DEF Ready, empty, EmptyQueue
  <2> QED BY <2>1, <2>2, <2>3
<1>4. \A s \in Streams : ~Queues!Writable(s)
  BY <1>3, ReadyIsWritable
<1>5. /\ {s \in Streams : life'[s] = "open"} = {s \in Streams : life[s] = "open"}
      /\ [s \in Streams |-> contents(q'[s])] = [s \in Streams |-> contents(q[s])]
  BY <1>1
<1> QED BY <1>1, <1>2, <1>4, <1>5, Zenon DEF Queues!PopNothing

LEMMA AdjustStreamImplements ==
    ASSUME NEW s \in Streams, NEW c \in Classes, AdjustStream(s, c)
    PROVE  Queues!AdjustStream
<1>1. UNCHANGED <<life, control, q, win, conn>> /\ popped' = NoFrame
  BY DEF AdjustStream, queues, env
<1>2. /\ {t \in Streams : life'[t] = "open"} = {t \in Streams : life[t] = "open"}
      /\ [t \in Streams |-> contents(q'[t])] = [t \in Streams |-> contents(q[t])]
      /\ contents(control') = contents(control)
  BY <1>1
<1> QED BY <1>1, <1>2 DEF Queues!AdjustStream

LEMMA SetWindowImplements == ASSUME SchedInv, SetWindow PROVE Queues!SetWindow
<1>1. UNCHANGED <<life, control, q>> /\ popped' = NoFrame
  BY DEF SetWindow, queues
<1>2. /\ {t \in Streams : life'[t] = "open"} = {t \in Streams : life[t] = "open"}
      /\ [t \in Streams |-> contents(q'[t])] = [t \in Streams |-> contents(q[t])]
      /\ contents(control') = contents(control)
  BY <1>1
<1>3. win' \in [Streams -> Int] /\ conn' \in Int
  BY WindowsAssumption, ZenonT(60) DEF SetWindow, SchedInv, TypeOK
<1> QED BY <1>1, <1>2, <1>3 DEF Queues!SetWindow

LEMMA StutterImplements == ASSUME UNCHANGED vars PROVE UNCHANGED Queues!vars
<1>1. UNCHANGED <<life, control, q, win, conn, popped>>
  BY DEF vars
<1>2. /\ {t \in Streams : life'[t] = "open"} = {t \in Streams : life[t] = "open"}
      /\ [t \in Streams |-> contents(q'[t])] = [t \in Streams |-> contents(q[t])]
      /\ contents(control') = contents(control)
  BY <1>1
<1> QED BY <1>1, <1>2 DEF Queues!vars

LEMMA NextImplements == ASSUME SchedInv, [Next]_vars PROVE [Queues!Next]_Queues!vars
<1>1. ASSUME NEW s \in Streams, NEW c \in Classes, OpenStream(s, c) PROVE Queues!Next
  BY <1>1, OpenStreamImplements DEF Queues!Next
<1>2. ASSUME NEW s \in Streams, NEW c \in Classes, AdjustStream(s, c) PROVE Queues!Next
  BY <1>2, AdjustStreamImplements DEF Queues!Next
<1>3. ASSUME NEW s \in Streams, CloseStream(s) PROVE Queues!Next
  BY <1>3, CloseStreamImplements DEF Queues!Next
<1>4. ASSUME NEW s \in Streams, PopRandom(s) PROVE Queues!Next
  BY <1>4, ConsumeImplements DEF PopRandom
<1>5. ASSUME NEW s \in Streams \cup {Conn}, NEW p \in Payloads, Push(s, p) PROVE Queues!Next
  BY <1>5, PushImplements
<1>6. CASE PopControl
  BY <1>6, PopControlImplements DEF Queues!Next
<1>7. CASE PopRing
  <2> DEFINE inc == kind = "rfc9218" /\ ~incFirst
             s == FirstReady(rings[Preferred(inc)])
  <2>1. kind # "random" /\ ReadyClasses # {} /\ empty(control) /\ consume(s)
    BY <1>7 DEF PopRing
  <2>2. s \in Streams /\ Ready(s)
    BY <2>1, RingChoice
  <2> HIDE DEF s
  <2> QED BY <2>1, <2>2, ConsumeImplements
<1>8. CASE PopNothing
  BY <1>8, PopNothingImplements DEF Queues!Next
<1>9. CASE SetWindow
  BY <1>9, SetWindowImplements DEF Queues!Next
<1>10. CASE UNCHANGED vars
  BY <1>10, StutterImplements
<1> QED BY <1>1, <1>2, <1>3, <1>4, <1>5, <1>6, <1>7, <1>8, <1>9, <1>10 DEF Next

-----------------------------------------------------------------------------
LEMMA RingsFromMembers == ASSUME SchedInv PROVE RingsSound
<1> SUFFICES ASSUME kind # "random", NEW s \in Streams, NEW c \in Classes
             PROVE  Cardinality({i \in 1 .. Len(rings[c]) : rings[c][i] = s})
                      = (IF life[s] = "open" /\ prio[s] = c THEN 1 ELSE 0)
  BY DEF RingsSound
<1> DEFINE T == {i \in 1 .. Len(rings[c]) : rings[c][i] = s}
<1>1. Among(s, rings[c]) <=> (life[s] = "open" /\ prio[s] = c)
  BY DEF SchedInv, Ringed
<1>2. CASE Among(s, rings[c])
  <2>1. PICK i \in 1 .. Len(rings[c]) : rings[c][i] = s
    BY <1>2 DEF Among
  <2>2. T = {i}
    BY <2>1 DEF SchedInv, Ringed, Distinct
  <2>3. Cardinality(T) = 1
    BY <2>2, FS_Singleton
  <2> QED BY <1>1, <1>2, <2>3
<1>3. CASE ~Among(s, rings[c])
  <2>1. T = {}
    BY <1>3 DEF Among
  <2>2. Cardinality(T) = 0
    BY <2>1, FS_EmptySet
  <2> QED BY <1>1, <1>3, <2>2
<1> QED BY <1>2, <1>3

LEMMA TurnsBound == ASSUME SchedInv PROVE NoStarvation
<1> SUFFICES ASSUME NEW s \in Streams, prio[s][2] = 1
             PROVE  wait[s] < Cardinality(Streams)
  BY DEF NoStarvation
<1>1. Cardinality(Streams) \in Nat /\ Cardinality(Streams) > 0
  <2>1. Cardinality(Streams) \in Nat /\ Cardinality(Streams) # 0
    BY StreamsAssumption, FS_CardinalityType, FS_EmptySet
  <2> QED BY <2>1
<1>2. CASE kind = "random" \/ life[s] # "open"
  BY <1>1, <1>2 DEF SchedInv, Turns
<1>3. CASE kind # "random" /\ life[s] = "open"
  <2>1. prio[s] \in Classes /\ wait[s] \in Nat /\ rings[prio[s]] \in Seq(Streams)
    BY DEF SchedInv, TypeOK
  <2>2. PICK i \in 1 .. Len(rings[prio[s]]) : rings[prio[s]][i] = s
    BY <1>3, <2>1 DEF SchedInv, Ringed, Among
  <2>3. wait[s] + i <= Cardinality(Streams)
    BY <1>3, <2>2 DEF SchedInv, Turns
  <2>4. i \in Nat /\ i >= 1
    BY <2>1
  <2> QED BY <1>1, <2>1, <2>3, <2>4
<1> QED BY <1>2, <1>3

(* Every variable of the schedulers keeps its type, for any number of      *)
(* streams, classes and frames: in particular a queue holds only whole     *)
(* frames with a length that is not negative (FrameWriteRequest.Consume).  *)
THEOREM SchedTypeCorrect == Spec => []TypeOK
<1>1. SchedInv => TypeOK
  BY DEF SchedInv
<1> QED BY <1>1, Inductive, PTL

(* However streams are opened, closed, reprioritised and served, an open   *)
(* stream is in exactly the ring of its priority, once, and a closed one   *)
(* in none: the unlinking in CloseStream and AdjustStream never misses.    *)
THEOREM RingsSoundAlways == Spec => []RingsSound
<1>1. SchedInv => RingsSound
  BY RingsFromMembers
<1> QED BY <1>1, Inductive, PTL

(* A stream of a class that takes turns is passed over less often, in a    *)
(* row, than there are streams, for any number of streams (the rotation in *)
(* Pop of the round robin and of the RFC 9218 scheduler).                  *)
THEOREM NoStarvationAlways == Spec => []NoStarvation
<1>1. SchedInv => NoStarvation
  BY TurnsBound
<1> QED BY <1>1, Inductive, PTL

(* All three schedulers implement the WriteScheduler interface as          *)
(* StreamQueues states it: frames of a stream in order, none lost or made  *)
(* up, the connection's first, DATA within the windows, and Pop refuses    *)
(* only when nothing may be written.                                       *)
THEOREM QueuesImplemented == Spec => ImplementsQueues
<1>1. Init => Queues!Init
  BY InitImplements
<1>2. SchedInv /\ [Next]_vars => [Queues!Next]_Queues!vars
  BY NextImplements
<1> QED BY <1>1, <1>2, Inductive, PTL DEF Spec, ImplementsQueues, Queues!Spec
=============================================================================
