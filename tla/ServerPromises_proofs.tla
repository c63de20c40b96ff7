----------------------- MODULE ServerPromises_proofs -----------------------
(***************************************************************************)
(* What the serve loop owes: the bytes of the connection's receive window  *)
(* to the client, and an answer to every handler that waits for a frame.   *)
(* Both are promises that calls still on the stack have to keep.           *)
(***************************************************************************)
EXTENDS Server_proofs

(* The bytes of the connection's receive window.  Those that the loop is   *)
(* about to give back are the arguments of calls still to be made.         *)
Buffer == [s \in Ids |-> IF live(s) THEN str[s].len ELSE 0]
Reading == [s \in Ids |-> h[s].n]
HeldBytes == sc.avail + sc.unsent + Total(Buffer) + Total(Reading)

Given(c) == IF c[1] = "window" /\ c[2] = 0 THEN c[3] ELSE 0
Owes(q, n) ==
    \E p \in [0 .. Len(q) -> Int] :
        p[0] = n /\ p[Len(q)] = 0 /\ \A i \in 1 .. Len(q) : p[i - 1] = p[i] + Given(q[i])

BytesInv ==
    /\ \A s \in Ids : ~str[s].body => str[s].len = 0
    /\ \A s \in Ids : h[s].pc # "reading" => h[s].n = 0
    /\ phase = "serving" => \E n \in Int : Owes(todo, n) /\ HeldBytes + n >= ConnRecv

LEMMA TotalIs ==
    ASSUME NEW f, DOMAIN f = Ids
    PROVE  \E g : IsSum(g, f, Ids) /\ Total(f) = g[Ids]
<1> DEFINE F(iter) == iter = [T \in SUBSET Ids |->
              IF T = {} THEN 0 ELSE LET x == CHOOSE x \in T : TRUE IN f[x] + iter[T \ {x}]]
<1>1. Total(f) = (CHOOSE iter : F(iter))[Ids]
  BY DEF Total, FoldFunction, FoldFunctionOnSet, MapThenFoldSet
<1>2. \A iter : IsSum(iter, f, Ids) <=> F(iter)
  BY DEF IsSum
<1> HIDE DEF F
<1>3. PICK g : IsSum(g, f, Ids)
  BY SumExists, IdsAssumption
<1>4. F(CHOOSE iter : F(iter))
  BY <1>2, <1>3
<1> QED BY <1>1, <1>2, <1>4

LEMMA TotalChanged ==
    ASSUME NEW f \in [Ids -> Int], NEW e \in [Ids -> Int], NEW s \in Ids, \A x \in Ids \ {s} : e[x] = f[x]
    PROVE  Total(f) \in Int /\ Total(e) = Total(f) - f[s] + e[s]
<1>1. PICK g : IsSum(g, f, Ids) /\ Total(f) = g[Ids]
  BY TotalIs
<1>2. PICK k : IsSum(k, e, Ids) /\ Total(e) = k[Ids]
  BY TotalIs
<1>3. IsSum(g, f, Ids) /\ IsSum(k, e, Ids)
  BY <1>1, <1>2
<1>4. IsFiniteSet(Ids)
  BY IdsAssumption
<1>5. \A x \in Ids : f[x] \in Int /\ e[x] \in Int
  OBVIOUS
<1>6. \A x \in Ids \ {s} : e[x] = f[x]
  OBVIOUS
<1>7. k[Ids] = g[Ids] - f[s] + e[s]
  BY <1>3, <1>4, <1>5, <1>6, SumChange
<1>8. g[Ids] \in Int
  BY <1>3, <1>4, <1>5, <1>6, SumChange
<1> QED BY <1>1, <1>2, <1>7, <1>8

LEMMA TotalInt == ASSUME NEW f \in [Ids -> Int] PROVE Total(f) \in Int
<1>1. PICK g : IsSum(g, f, Ids) /\ Total(f) = g[Ids]
  BY TotalIs
<1>2. CASE Ids = {}
  <2>1. g[Ids] = 0
    BY <1>1, <1>2, SumStep
  <2> QED BY <1>1, <2>1
<1>3. ASSUME NEW s \in Ids PROVE Total(f) \in Int
  BY TotalChanged
<1> QED BY <1>2, <1>3

LEMMA TotalZero == ASSUME NEW f, DOMAIN f = Ids, \A x \in Ids : f[x] = 0 PROVE Total(f) = 0
<1>1. PICK g : IsSum(g, f, Ids) /\ Total(f) = g[Ids]
  BY TotalIs
<1>2. g[Ids] = 0
  BY <1>1, IdsAssumption, SumZero
<1> QED BY <1>1, <1>2

LEMMA HeldParts ==
    ASSUME ServerInv
    PROVE  /\ Buffer \in [Ids -> Int] /\ Reading \in [Ids -> Int] /\ sc.avail \in Int /\ sc.unsent \in Int
           /\ Total(Buffer) \in Int /\ Total(Reading) \in Int /\ HeldBytes \in Int
<1>1. str \in [Ids -> StreamRecs] /\ h \in [Ids -> HandlerRecs] /\ sc \in Conns
  BY DEF ServerInv, Types
<1>2. \A s \in Ids : str[s].len \in Int /\ h[s].n \in Int
  BY <1>1 DEF StreamRecs, HandlerRecs
<1>3. Buffer \in [Ids -> Int] /\ Reading \in [Ids -> Int]
  BY <1>2 DEF Buffer, Reading
<1>4. sc.avail \in Int /\ sc.unsent \in Int
  BY <1>1 DEF Conns
<1> QED BY <1>3, <1>4, TotalInt DEF HeldBytes

LEMMA HeldPartsNext ==
    ASSUME ServerInv'
    PROVE  /\ Buffer' \in [Ids -> Int] /\ Reading' \in [Ids -> Int] /\ sc'.avail \in Int /\ sc'.unsent \in Int
           /\ Total(Buffer') \in Int /\ Total(Reading') \in Int /\ HeldBytes' \in Int
           /\ HeldBytes' = sc'.avail + sc'.unsent + Total(Buffer') + Total(Reading')
<1>1. str' \in [Ids -> StreamRecs] /\ h' \in [Ids -> HandlerRecs] /\ sc' \in Conns
  BY DEF ServerInv, Types
<1>2. \A s \in Ids : str'[s].len \in Int /\ h'[s].n \in Int
  BY <1>1 DEF StreamRecs, HandlerRecs
<1>3. Buffer' \in [Ids -> Int] /\ Reading' \in [Ids -> Int]
  BY <1>2 DEF Buffer, Reading
<1>4. sc'.avail \in Int /\ sc'.unsent \in Int
  BY <1>1 DEF Conns
<1>5. HeldBytes' = sc'.avail + sc'.unsent + Total(Buffer') + Total(Reading')
  BY DEF HeldBytes
<1>6. Total(Buffer') \in Int /\ Total(Reading') \in Int
  BY <1>3, TotalInt
<1> QED BY <1>3, <1>4, <1>5, <1>6

(* What the calls left give back, as calls come and go.                    *)
LEMMA OwesNone ==
    ASSUME NEW q, IsSeq(q), \A i \in 1 .. Len(q) : Given(q[i]) = 0
    PROVE  Owes(q, 0)
<1> DEFINE p == [i \in 0 .. Len(q) |-> 0]
<1>1. Len(q) \in Nat
  BY DEF IsSeq
<1>2. p \in [0 .. Len(q) -> Int] /\ p[0] = 0 /\ p[Len(q)] = 0
  BY <1>1
<1>3. \A i \in 1 .. Len(q) : p[i - 1] = 0 /\ p[i] = 0
  BY <1>1
<1> HIDE DEF p
<1> QED BY <1>2, <1>3 DEF Owes

LEMMA OwesOne == ASSUME NEW c, Given(c) \in Int PROVE Owes(<<c>>, Given(c))
<1>1. PICK q : q = <<c>>
  OBVIOUS
<1>2. Len(q) = 1 /\ q[1] = c
  BY <1>1
<1>0. PICK d \in Int : d = Given(c)
  OBVIOUS
<1> DEFINE p == [i \in 0 .. 1 |-> IF i = 0 THEN d ELSE 0]
<1>3. p \in [0 .. 1 -> Int] /\ p[0] = d /\ p[1] = 0
  OBVIOUS
<1> HIDE DEF p
<1>4. \A i \in 1 .. Len(q) : p[i - 1] = p[i] + Given(q[i])
  <2>1. \A i \in 1 .. Len(q) : i = 1 /\ i - 1 = 0
    BY <1>2
  <2> QED BY <1>0, <1>2, <1>3, <2>1
<1>5. Owes(q, d)
  <2>1. p \in [0 .. Len(q) -> Int] /\ p[Len(q)] = 0
    BY <1>2, <1>3
  <2> QED BY <1>3, <1>4, <2>1 DEF Owes
<1> QED BY <1>0, <1>1, <1>5

LEMMA OwesConcat ==
    ASSUME NEW a, NEW b, IsSeq(a), IsSeq(b), NEW m, NEW n, Owes(a, m), Owes(b, n)
    PROVE  Owes(a \o b, m + n)
<1>1. PICK f \in [0 .. Len(a) -> Int] : f[0] = m /\ f[Len(a)] = 0 /\ \A i \in 1 .. Len(a) : f[i - 1] = f[i] + Given(a[i])
  BY DEF Owes
<1>2. PICK g \in [0 .. Len(b) -> Int] : g[0] = n /\ g[Len(b)] = 0 /\ \A i \in 1 .. Len(b) : g[i - 1] = g[i] + Given(b[i])
  BY DEF Owes
<1> DEFINE k == Len(a)
           l == Len(b)
           q == a \o b
           p == [i \in 0 .. k + l |-> IF i <= k THEN f[i] + n ELSE g[i - k]]
<1>3. /\ k \in Nat /\ l \in Nat /\ Len(q) = k + l
      /\ \A i \in 1 .. k : q[i] = a[i]
      /\ \A i \in 1 .. l : q[k + i] = b[i]
  BY ConcatSeq
<1>4. n \in Int /\ m \in Int
  BY <1>1, <1>2, <1>3
<1> HIDE DEF k, l, q
<1>5. \A i \in 0 .. k : f[i] \in Int
  BY <1>1 DEF k
<1>6. \A i \in 0 .. l : g[i] \in Int
  BY <1>2 DEF l
<1>7. \A i \in 0 .. k : p[i] = f[i] + n
  BY <1>3
<1>8. \A i \in 0 .. l : k + i \in 0 .. k + l /\ p[k + i] = g[i]
  <2> SUFFICES ASSUME NEW i \in 0 .. l PROVE k + i \in 0 .. k + l /\ p[k + i] = g[i]
    OBVIOUS
  <2>1. k + i \in 0 .. k + l /\ (k + i <= k => i = 0) /\ k + i - k = i
    BY <1>3
  <2>2. CASE i = 0
    <3>1. p[k + i] = f[k] + n /\ f[k] = 0 /\ g[0] = n
      BY <1>1, <1>2, <1>3, <2>2 DEF k
    <3> QED BY <1>4, <2>1, <2>2, <3>1
  <2>3. CASE i # 0
    <3>1. ~(k + i <= k)
      BY <2>1, <2>3
    <3>2. \A j \in 0 .. k + l : ~(j <= k) => p[j] = g[j - k]
      OBVIOUS
    <3> HIDE DEF p
    <3>3. PICK j \in 0 .. k + l : j = k + i
      BY <2>1
    <3>4. ~(j <= k) /\ j - k = i
      BY <2>1, <3>1, <3>3
    <3>5. p[j] = g[j - k]
      BY <3>2, <3>4
    <3> QED BY <2>1, <3>3, <3>4, <3>5
  <2> QED BY <2>2, <2>3
<1>9. p \in [0 .. k + l -> Int]
  <2> SUFFICES ASSUME NEW i \in 0 .. k + l PROVE (IF i <= k THEN f[i] + n ELSE g[i - k]) \in Int
    OBVIOUS
  <2>1. CASE i <= k
    BY <1>3, <1>4, <1>5, <2>1
  <2>2. CASE ~(i <= k)
    <3>1. i - k \in 0 .. l
      BY <1>3, <2>2
    <3> QED BY <1>6, <2>2, <3>1
  <2> QED BY <2>1, <2>2
<1> HIDE DEF p
<1>10. p[0] = m + n
  BY <1>1, <1>3, <1>7
<1>11. p[k + l] = 0
  BY <1>2, <1>3, <1>8 DEF l
<1>12. ASSUME NEW i \in 1 .. k + l PROVE p[i - 1] = p[i] + Given(q[i])
  <2>1. CASE i <= k
    <3>1. i \in 1 .. k /\ i - 1 \in 0 .. k /\ i \in 0 .. k
      BY <1>3, <2>1
    <3>2. f[i - 1] = f[i] + Given(a[i]) /\ q[i] = a[i]
      BY <1>1, <1>3, <3>1 DEF k
    <3>3. p[i - 1] = f[i - 1] + n /\ p[i] = f[i] + n /\ f[i] \in Int /\ f[i - 1] \in Int
      BY <1>5, <1>7, <3>1
    <3> DEFINE d == Given(a[i])
    <3>4. f[i - 1] = f[i] + d /\ Given(q[i]) = d
      BY <3>2
    <3> HIDE DEF d
    <3>5. CASE d \in Int
      BY <1>4, <3>3, <3>4, <3>5
    <3> QED BY <1>4, <3>3, <3>4
  <2>2. CASE ~(i <= k)
    <3>1. PICK j \in 1 .. l : j = i - k
      BY <1>3, <2>2
    <3>2. i = k + j /\ i - 1 = k + (j - 1) /\ j - 1 \in 0 .. l /\ j \in 0 .. l
      BY <1>3, <3>1
    <3>3. p[i] = g[j] /\ p[i - 1] = g[j - 1]
      BY <1>8, <3>2
    <3>4. g[j - 1] = g[j] + Given(b[j]) /\ q[i] = b[j]
      BY <1>2, <1>3, <3>1, <3>2 DEF l
    <3> QED BY <3>3, <3>4
  <2> QED BY <2>1, <2>2
<1>13. Owes(q, m + n)
  <2>1. p \in [0 .. Len(q) -> Int] /\ p[Len(q)] = 0 /\ \A i \in 1 .. Len(q) : p[i - 1] = p[i] + Given(q[i])
    BY <1>3, <1>9, <1>11, <1>12
  <2> QED BY <1>10, <2>1 DEF Owes
<1> QED BY <1>13 DEF q

LEMMA OwesTail ==
    ASSUME ServerInv, todo # <<>>, NEW n, Owes(todo, n), Given(Head(todo)) \in Int
    PROVE  n \in Int /\ Owes(Tail(todo), n - Given(Head(todo)))
<1> DEFINE l == Len(todo)
           t == Tail(todo)
           d == Given(Head(todo))
<1>1. PICK p \in [0 .. l -> Int] : p[0] = n /\ p[l] = 0 /\ \A i \in 1 .. l : p[i - 1] = p[i] + Given(todo[i])
  BY DEF Owes
<1>2. /\ l \in Nat /\ Len(t) = l - 1 /\ 1 \in 1 .. l /\ Head(todo) = todo[1]
      /\ \A i \in 1 .. Len(t) : i + 1 \in 1 .. l /\ t[i] = todo[i + 1]
  BY TailSeq
<1> HIDE DEF l, t
<1> DEFINE g == [i \in 0 .. l - 1 |-> p[i + 1]]
<1>3. \A i \in 0 .. l - 1 : i + 1 \in 0 .. l /\ g[i] = p[i + 1]
  BY <1>2
<1>4. g \in [0 .. l - 1 -> Int]
  BY <1>1, <1>3
<1> HIDE DEF g
<1>5. p[0] = p[1] + d /\ p[1] \in Int /\ p[0] \in Int
  <2>1. p[1 - 1] = p[1] + Given(todo[1])
    BY <1>1, <1>2
  <2> QED BY <1>1, <1>2, <2>1
<1> HIDE DEF d
<1>6. g[0] = n - d /\ n \in Int
  <2>1. g[0] = p[1] /\ n = p[1] + d /\ d \in Int
    BY <1>1, <1>2, <1>3, <1>5 DEF d
  <2> QED BY <1>5, <2>1
<1>7. g[l - 1] = 0
  <2>1. l - 1 \in 0 .. l - 1 /\ l - 1 + 1 = l
    BY <1>2
  <2> QED BY <1>1, <1>3, <2>1
<1>8. ASSUME NEW i \in 1 .. l - 1 PROVE g[i - 1] = g[i] + Given(t[i])
  <2>1. i + 1 \in 1 .. l /\ t[i] = todo[i + 1] /\ i - 1 \in 0 .. l - 1 /\ i \in 0 .. l - 1 /\ i - 1 + 1 = i /\ i + 1 - 1 = i
    BY <1>2
  <2>2. p[i + 1 - 1] = p[i + 1] + Given(todo[i + 1])
    BY <1>1, <2>1
  <2>3. g[i - 1] = p[i] /\ g[i] = p[i + 1]
    BY <1>3, <2>1
  <2> QED BY <2>1, <2>2, <2>3
<1>9. Owes(t, n - d)
  BY <1>2, <1>4, <1>6, <1>7, <1>8 DEF Owes
<1> QED BY <1>6, <1>9 DEF t, d

LEMMA Sums ==
    ASSUME NEW a \in Int, NEW b \in Int, NEW m \in Int, NEW n \in Int, NEW d \in Int, NEW r \in Int,
           b + m >= a + d, a + n >= r
    PROVE  b + (m + (n - d)) >= r /\ m + (n - d) \in Int /\ (n = 0 /\ d = 0 => b + m >= r)
OBVIOUS

(* A step loses no byte when what it takes from the windows and the        *)
(* buffers it leaves to calls.                                             *)
LEMMA BytesStep ==
    ASSUME ServerInv, ServerInv', BytesInv, NEW items, IsSeq(items), Grow(items), NEW m \in Int, Owes(items, m),
           \A s \in Ids : ~str'[s].body => str'[s].len = 0,
           \A s \in Ids : h'[s].pc # "reading" => h'[s].n = 0,
           NEW d \in Int, todo = <<>> => d = 0, todo # <<>> => d = Given(Head(todo)),
           phase' = "serving" => HeldBytes' + m >= HeldBytes + d
    PROVE  BytesInv'
<1> SUFFICES ASSUME phase' = "serving" PROVE \E n \in Int : Owes(todo', n) /\ HeldBytes' + n >= ConnRecv
  BY DEF BytesInv, Owes, Given
<1>1. phase = "serving" /\ HeldBytes \in Int /\ HeldBytes' \in Int /\ ConnRecv \in Int
  BY HeldParts, HeldPartsNext, WindowsAssumption DEF Grow
<1>2. PICK n \in Int : Owes(todo, n) /\ HeldBytes + n >= ConnRecv
  BY <1>1 DEF BytesInv
<1>5. HeldBytes' + m >= HeldBytes + d
  OBVIOUS
<1>3. CASE todo = <<>>
  <2>1. todo' = items /\ d = 0
    BY <1>3 DEF Grow
  <2>2. n = 0
    <3>1. Len(todo) = 0
      BY <1>3
    <3> QED BY <1>2, <3>1 DEF Owes
  <2>3. HeldBytes' + m >= ConnRecv
    BY <1>1, <1>2, <1>5, <2>1, <2>2, Sums
  <2> QED BY <2>1, <2>3
<1>4. CASE todo # <<>>
  <2>1. todo' = items \o Tail(todo) /\ d = Given(Head(todo))
    BY <1>1, <1>4 DEF Grow
  <2>2. Owes(Tail(todo), n - d)
    BY <1>2, <1>4, <2>1, OwesTail
  <2>3. IsSeq(Tail(todo))
    BY <1>4, TailSeq
  <2>4. Owes(todo', m + (n - d))
    BY <2>1, <2>2, <2>3, OwesConcat
  <2>5. HeldBytes' + (m + (n - d)) >= ConnRecv /\ m + (n - d) \in Int
    BY <1>1, <1>2, <1>5, Sums
  <2> QED BY <2>4, <2>5
<1> QED BY <1>3, <1>4

-----------------------------------------------------------------------------
(* A handler that waits for its frame.  The frame is on its way through    *)
(* one of these hands, or the stream is about to tell its handler that it  *)
(* is closed.                                                              *)
Asked(s) == \E i \in 1 .. Len(want) : want[i].s = s /\ want[i].wait
Pushing(s) == \E i \in 1 .. Len(msgs) : msgs[i] = <<"push", s>>
Queued(s) == \E i \in 1 .. Len(out.q[s]) : out.q[s][i].wait
Writing(s) == out.cur # None /\ out.cur.s = s /\ out.cur.wait
Carries(c, s) == c[1] \in {"write", "start", "reply"} /\ c[2].s = s /\ c[2].wait
Carried(s) == \E i \in 1 .. Len(todo) : Carries(todo[i], s)
Closing(s) == \E i \in 1 .. Len(todo) : todo[i][1] = "closeRest" /\ todo[i][2] = s
InHand(s) == Asked(s) \/ Pushing(s) \/ Queued(s) \/ Writing(s) \/ Carried(s) \/ Closing(s)

(* Handlers wait for frames of streams only, which are never dropped while *)
(* their stream is there; wroteFrame is called of the frame in hand, and   *)
(* nothing is called before it.                                            *)
Patient(f) == f.wait => f.t \in {"headers", "data", "push"}
Orderly ==
    /\ \A i \in 1 .. Len(todo) :
          /\ todo[i][1] = "wrote" => i = 1 /\ todo[i][2] = out.cur
          /\ todo[i][1] = "write" => Patient(todo[i][2])
    /\ \A i \in 1 .. Len(want) : Patient(want[i])

Answered(s) == h[s].pc = "wait" => h[s].done \/ str[s].cw \/ InHand(s)
Closed(s) == str[s].st = "closed" => str[s].cw \/ Closing(s)
Used(s) == h[s].pc # "none" => str[s].st # "idle"

AnswerInv ==
    /\ Orderly
    /\ phase = "serving" => \A s \in Ids : Answered(s) /\ Closed(s)
    /\ \A s \in Ids : Used(s)

PromiseInv == AnswerInv /\ BytesInv

(* Lists of calls in which no wroteFrame occurs and no control frame has a *)
(* waiting handler; and those that also give no bytes back.                *)
Neat(q) ==
    /\ IsSeq(q)
    /\ \A i \in 1 .. Len(q) : q[i][1] # "wrote" /\ (q[i][1] = "write" => Patient(q[i][2]))
Tidy(q) == Neat(q) /\ \A i \in 1 .. Len(q) : Given(q[i]) = 0

LEMMA NeatEmpty == Neat(<<>>)
<1>1. <<>> \in Seq({}) /\ Len(<<>>) = 0
  OBVIOUS
<1> QED BY <1>1 DEF Neat, IsSeq

LEMMA NeatOne ==
    ASSUME NEW c, c[1] # "wrote", c[1] = "write" => Patient(c[2])
    PROVE  Neat(<<c>>)
<1>1. PICK q : q = <<c>>
  OBVIOUS
<1>2. q \in Seq({c}) /\ Len(q) = 1 /\ q[1] = c
  BY <1>1
<1>3. Neat(q)
  BY <1>2 DEF Neat, IsSeq
<1> QED BY <1>1, <1>3

LEMMA NeatConcat == ASSUME NEW a, NEW b, Neat(a), Neat(b) PROVE Neat(a \o b)
<1>1. IsSeq(a) /\ IsSeq(b)
  BY DEF Neat
<1>2. IsSeq(a \o b)
  BY <1>1, ConcatSeq
<1>3. ASSUME NEW i \in 1 .. Len(a \o b)
      PROVE  (a \o b)[i][1] # "wrote" /\ ((a \o b)[i][1] = "write" => Patient((a \o b)[i][2]))
  BY <1>1, ConcatMembers DEF Neat
<1> QED BY <1>2, <1>3 DEF Neat

LEMMA TidyEmpty == Tidy(<<>>)
<1>1. Len(<<>>) = 0
  OBVIOUS
<1> QED BY <1>1, NeatEmpty DEF Tidy

LEMMA TidyOne ==
    ASSUME NEW c, c[1] # "wrote", c[1] = "write" => Patient(c[2]), c[1] = "window" => c[2] # 0
    PROVE  Tidy(<<c>>)
<1>1. PICK q : q = <<c>>
  OBVIOUS
<1>2. Len(q) = 1 /\ q[1] = c
  BY <1>1
<1>3. Given(c) = 0
  BY DEF Given
<1>4. Neat(q)
  BY <1>1, NeatOne
<1>5. Tidy(q)
  BY <1>2, <1>3, <1>4 DEF Tidy
<1> QED BY <1>1, <1>5

LEMMA TidyConcat == ASSUME NEW a, NEW b, Tidy(a), Tidy(b) PROVE Tidy(a \o b)
<1>1. IsSeq(a) /\ IsSeq(b) /\ Neat(a \o b)
  BY NeatConcat DEF Tidy, Neat
<1>2. ASSUME NEW i \in 1 .. Len(a \o b) PROVE Given((a \o b)[i]) = 0
  BY <1>1, ConcatMembers DEF Tidy
<1> QED BY <1>1, <1>2 DEF Tidy

LEMMA TidyTwo ==
    ASSUME NEW c, c[1] # "wrote", c[1] = "write" => Patient(c[2]), c[1] = "window" => c[2] # 0,
           NEW d, d[1] # "wrote", d[1] = "write" => Patient(d[2]), d[1] = "window" => d[2] # 0
    PROVE  Tidy(<<c, d>>)
<1>1. <<c, d>> = <<c>> \o <<d>>
  OBVIOUS
<1> QED BY <1>1, TidyOne, TidyConcat

LEMMA TidyParts == ASSUME NEW q, Tidy(q) PROVE Neat(q) /\ IsSeq(q) /\ Owes(q, 0)
BY OwesNone DEF Tidy, Neat

(* What stays on the stack.                                                *)
LEMMA OrderlyKept ==
    ASSUME ServerInv, Orderly, NEW items, IsSeq(items), Grow(items),
           \A i \in 1 .. Len(items) :
              /\ items[i][1] = "wrote" => i = 1 /\ items[i][2] = out'.cur
              /\ items[i][1] = "write" => Patient(items[i][2]),
           \A i \in 1 .. Len(want') : Patient(want'[i])
    PROVE  Orderly'
<1> SUFFICES ASSUME NEW i \in 1 .. Len(todo')
             PROVE  /\ todo'[i][1] = "wrote" => i = 1 /\ todo'[i][2] = out'.cur
                    /\ todo'[i][1] = "write" => Patient(todo'[i][2])
  BY DEF Orderly
<1>1. CASE i \in 1 .. Len(items) /\ todo'[i] = items[i]
  BY <1>1
<1>2. CASE /\ i > Len(items) /\ Len(items) \in Nat
           /\ i - Len(items) + 1 \in 1 .. Len(todo) /\ todo'[i] = todo[i - Len(items) + 1]
  <2>1. PICK j \in 1 .. Len(todo) : todo'[i] = todo[j] /\ j # 1
    BY <1>2
  <2> QED BY <2>1 DEF Orderly
<1> QED BY <1>1, <1>2, GrowMembers

LEMMA NeatKept ==
    ASSUME ServerInv, Orderly, NEW items, Neat(items), Grow(items), \A i \in 1 .. Len(want') : Patient(want'[i])
    PROVE  Orderly'
<1>1. IsSeq(items)
  BY DEF Neat
<1>2. \A i \in 1 .. Len(items) :
              /\ items[i][1] = "wrote" => i = 1 /\ items[i][2] = out'.cur
              /\ items[i][1] = "write" => Patient(items[i][2])
  BY DEF Neat
<1> QED BY <1>1, <1>2, OrderlyKept

LEMMA CallKept ==
    ASSUME ServerInv, NEW items, IsSeq(items), Grow(items), phase' = "serving", NEW s \in Ids
    PROVE  /\ Carried(s) => Carried(s)' \/ (todo # <<>> /\ Carries(Head(todo), s))
           /\ Closing(s) => Closing(s)' \/ (todo # <<>> /\ Head(todo)[1] = "closeRest" /\ Head(todo)[2] = s)
           /\ \A i \in 1 .. Len(items) :
                 /\ Carries(items[i], s) => Carried(s)'
                 /\ items[i][1] = "closeRest" /\ items[i][2] = s => Closing(s)'
<1>1. /\ \A i \in 1 .. Len(items) : \E j \in 1 .. Len(todo') : todo'[j] = items[i]
      /\ \A i \in 2 .. Len(todo) : \E j \in 1 .. Len(todo') : todo'[j] = todo[i]
  BY GrowKeeps
<1>2. ASSUME NEW i \in 1 .. Len(todo)
      PROVE  (todo # <<>> /\ todo[i] = Head(todo)) \/ \E j \in 1 .. Len(todo') : todo'[j] = todo[i]
  <2>1. IsSeq(todo) /\ Len(todo) \in Nat
    BY Channels DEF ServerInv, Frames, CallsOK, IsSeq
  <2>2. todo # <<>>
    BY <2>1
  <2>3. Head(todo) = todo[1]
    BY <2>2, TailSeq
  <2>4. CASE i = 1
    BY <2>2, <2>3, <2>4
  <2>5. CASE i # 1
    <3>1. i \in 2 .. Len(todo)
      BY <2>1, <2>5
    <3> QED BY <1>1, <3>1
  <2> QED BY <2>4, <2>5
<1>3. Carried(s) => Carried(s)' \/ (todo # <<>> /\ Carries(Head(todo), s))
  <2> SUFFICES ASSUME NEW i \in 1 .. Len(todo), Carries(todo[i], s)
               PROVE  Carried(s)' \/ (todo # <<>> /\ Carries(Head(todo), s))
    BY DEF Carried
  <2>1. CASE todo # <<>> /\ todo[i] = Head(todo)
    BY <2>1
  <2>2. CASE \E j \in 1 .. Len(todo') : todo'[j] = todo[i]
    BY <2>2 DEF Carried
  <2> QED BY <1>2, <2>1, <2>2
<1>4. Closing(s) => Closing(s)' \/ (todo # <<>> /\ Head(todo)[1] = "closeRest" /\ Head(todo)[2] = s)
  <2> SUFFICES ASSUME NEW i \in 1 .. Len(todo), todo[i][1] = "closeRest", todo[i][2] = s
               PROVE  Closing(s)' \/ (todo # <<>> /\ Head(todo)[1] = "closeRest" /\ Head(todo)[2] = s)
    BY DEF Closing
  <2>1. CASE todo # <<>> /\ todo[i] = Head(todo)
    BY <2>1
  <2>2. CASE \E j \in 1 .. Len(todo') : todo'[j] = todo[i]
    BY <2>2 DEF Closing
  <2> QED BY <1>2, <2>1, <2>2
<1>5. \A i \in 1 .. Len(items) :
                 /\ Carries(items[i], s) => Carried(s)'
                 /\ items[i][1] = "closeRest" /\ items[i][2] = s => Closing(s)'
  BY <1>1 DEF Carried, Closing
<1> QED BY <1>3, <1>4, <1>5

(* What most steps leave alone.                                            *)
Voices == {"write", "start", "reply", "closeRest"}
Silent == todo = <<>> \/ (Head(todo)[1] \notin Voices /\ Given(Head(todo)) = 0)
KeepsHand == out'.cur = out.cur /\ \A s \in Ids : out'.q[s] = out.q[s]
KeepsMail ==
    /\ \A s \in Ids : (Asked(s) => Asked(s)') /\ (Pushing(s) => Pushing(s)')
    /\ \A i \in 1 .. Len(want') : Patient(want'[i])
KeepsStr(x) == \A s \in Ids :
    /\ x[s].st = "closed" => str[s].st = "closed"
    /\ x[s].st = "idle" => str[s].st = "idle"
    /\ str[s].cw => x[s].cw
KeepsLen(x) == \A s \in Ids : x[s].len = str[s].len /\ x[s].body = str[s].body
KeepsPc(x) == \A s \in Ids :
    /\ x[s].pc = "wait" => h[s].pc = "wait"
    /\ h[s].pc = "none" => x[s].pc = "none"
    /\ h[s].done => x[s].done
KeepsRead(x) == \A s \in Ids : x[s].n = h[s].n /\ (h[s].pc = "reading" => x[s].pc = "reading")
KeepsWin(c) == c.avail = sc.avail /\ c.unsent = sc.unsent
Quietly == \E items : Tidy(items) /\ Grow(items)

LEMMA InHandKept ==
    ASSUME ServerInv, NEW items, IsSeq(items), Grow(items), phase' = "serving", NEW s \in Ids, InHand(s),
           KeepsHand, KeepsMail
    PROVE  \/ InHand(s)'
           \/ todo # <<>> /\ Carries(Head(todo), s)
           \/ todo # <<>> /\ Head(todo)[1] = "closeRest" /\ Head(todo)[2] = s
<1>1. CASE Carried(s) \/ Closing(s)
  BY <1>1, CallKept DEF InHand
<1>2. CASE Queued(s)
  BY <1>2 DEF Queued, KeepsHand, InHand
<1>3. CASE Writing(s)
  BY <1>3 DEF Writing, KeepsHand, InHand
<1>4. CASE Asked(s) \/ Pushing(s)
  BY <1>4 DEF KeepsMail, InHand
<1> QED BY <1>1, <1>2, <1>3, <1>4 DEF InHand

LEMMA AnswerKept ==
    ASSUME ServerInv, AnswerInv, todo = <<>> \/ Head(todo)[1] \notin Voices, NEW items, Neat(items), Grow(items),
           KeepsHand, KeepsMail, KeepsStr(str'), KeepsPc(h')
    PROVE  AnswerInv'
<1>1. Orderly'
  BY NeatKept DEF AnswerInv, KeepsMail
<1>2. ASSUME NEW s \in Ids PROVE Used(s)'
  BY DEF AnswerInv, Used, KeepsStr, KeepsPc
<1>3. ASSUME NEW s \in Ids, phase' = "serving" PROVE Answered(s)' /\ Closed(s)'
  <2>1. Answered(s) /\ Closed(s) /\ phase = "serving" /\ IsSeq(items)
    BY <1>3 DEF AnswerInv, Grow, Neat
  <2>2. ~(todo # <<>> /\ Carries(Head(todo), s)) /\ ~(todo # <<>> /\ Head(todo)[1] = "closeRest" /\ Head(todo)[2] = s)
    BY DEF Voices, Carries
  <2>3. InHand(s) => InHand(s)'
    BY <1>3, <2>1, <2>2, InHandKept
  <2>4. Closing(s) => Closing(s)'
    BY <1>3, <2>1, <2>2, CallKept
  <2> QED BY <2>1, <2>3, <2>4 DEF Answered, Closed, KeepsStr, KeepsPc
<1> QED BY <1>1, <1>2, <1>3 DEF AnswerInv

LEMMA BytesSame ==
    ASSUME SameLive(str'), KeepsLen(str'), KeepsRead(h'), KeepsWin(sc')
    PROVE  HeldBytes' = HeldBytes
<1>1. Buffer' = Buffer
  BY DEF Buffer, SameLive, KeepsLen, live
<1>2. Reading' = Reading
  BY DEF Reading, KeepsRead
<1> QED BY <1>1, <1>2 DEF HeldBytes, KeepsWin

LEMMA BytesKept ==
    ASSUME ServerInv, ServerInv', BytesInv, NEW items, IsSeq(items), Owes(items, 0), Grow(items),
           todo = <<>> \/ Given(Head(todo)) = 0,
           SameLive(str'), KeepsLen(str'), KeepsRead(h'), KeepsWin(sc')
    PROVE  BytesInv'
<1>1. HeldBytes' = HeldBytes /\ HeldBytes \in Int
  BY BytesSame, HeldParts
<1>2. HeldBytes' + 0 >= HeldBytes + 0
  BY <1>1
<1>3. \A s \in Ids : ~str'[s].body => str'[s].len = 0
  BY DEF BytesInv, KeepsLen
<1>4. \A s \in Ids : h'[s].pc # "reading" => h'[s].n = 0
  BY DEF BytesInv, KeepsRead
<1> QED BY <1>2, <1>3, <1>4, BytesStep

LEMMA TidyKept ==
    ASSUME ServerInv, ServerInv', PromiseInv, Silent, NEW items, Tidy(items), Grow(items), KeepsHand, KeepsMail,
           KeepsStr(str'), SameLive(str'), KeepsLen(str'), KeepsPc(h'), KeepsRead(h'), KeepsWin(sc')
    PROVE  PromiseInv'
<1>1. Neat(items) /\ IsSeq(items) /\ Owes(items, 0)
  BY TidyParts
<1>2. AnswerInv'
  BY <1>1, AnswerKept DEF PromiseInv, Silent
<1>3. BytesInv'
  BY <1>1, BytesKept DEF PromiseInv, Silent
<1> QED BY <1>2, <1>3 DEF PromiseInv

LEMMA PromiseKept ==
    ASSUME ServerInv, ServerInv', PromiseInv, Silent, Quietly, KeepsHand, KeepsMail,
           KeepsStr(str'), SameLive(str'), KeepsLen(str'), KeepsPc(h'), KeepsRead(h'), KeepsWin(sc')
    PROVE  PromiseInv'
<1>1. ASSUME NEW items, Tidy(items), Grow(items) PROVE PromiseInv'
  BY <1>1, TidyKept
<1>2. \E items : Tidy(items) /\ Grow(items)
  BY DEF Quietly
<1> QED BY <1>1, <1>2

-----------------------------------------------------------------------------
(* What the assignments of most steps keep.                                *)
LEMMA SameRest == KeepsStr(str) /\ KeepsLen(str) /\ KeepsPc(h) /\ KeepsRead(h) /\ KeepsWin(sc)
BY DEF KeepsStr, KeepsLen, KeepsPc, KeepsRead, KeepsWin

LEMMA WinSame ==
    ASSUME ServerInv, NEW a, NEW b, NEW c
    PROVE  /\ KeepsWin([sc EXCEPT !.cwin = a]) /\ KeepsWin([sc EXCEPT !.unacked = a])
           /\ KeepsWin([sc EXCEPT !.maxClient = a]) /\ KeepsWin([sc EXCEPT !.needGoAway = a])
           /\ KeepsWin([sc EXCEPT !.needAck = a]) /\ KeepsWin([sc EXCEPT !.saw = a])
           /\ KeepsWin([sc EXCEPT !.timer = a]) /\ KeepsWin([sc EXCEPT !.ping = a]) /\ KeepsWin([sc EXCEPT !.push = a])
           /\ KeepsWin([sc EXCEPT !.swin = a, !.needAck = b]) /\ KeepsWin([sc EXCEPT !.push = a, !.needAck = b])
           /\ KeepsWin([sc EXCEPT !.swin = a, !.maxClient = b])
           /\ KeepsWin([sc EXCEPT !.code = a]) /\ KeepsWin([sc EXCEPT !.fired = a])
           /\ KeepsWin([sc EXCEPT !.nClient = a]) /\ KeepsWin([sc EXCEPT !.nPushed = a])
           /\ KeepsWin([sc EXCEPT !.inGoAway = a, !.needGoAway = b, !.code = c])
           /\ KeepsWin([sc EXCEPT !.handlers = a, !.unstarted = b])
<1>1. sc \in Conns
  BY DEF ServerInv, Types
<1> QED BY <1>1 DEF Conns, KeepsWin

LEMMA StrSame ==
    ASSUME ServerInv, NEW s, NEW a, NEW b, NEW x, x \in {[str EXCEPT ![s].err = a],
           [str EXCEPT ![s].err = a, ![s].cw = TRUE], [str EXCEPT ![s].resetQueued = a], [str EXCEPT ![s].gotTrailer = a],
           [str EXCEPT ![s].broken = a], [str EXCEPT ![s].wroteHeaders = a], [str EXCEPT ![s].win = a],
           [str EXCEPT ![s].avail = a, ![s].unsent = b]}
    PROVE  KeepsStr(x) /\ KeepsLen(x)
<1>1. str \in [Ids -> StreamRecs] /\ KeepsStr(str) /\ KeepsLen(str)
  BY SameRest DEF ServerInv, Types
<1>2. \A r \in Ids : x[r].st = str[r].st /\ x[r].len = str[r].len /\ x[r].body = str[r].body
  BY <1>1 DEF StreamRecs
<1>3. \A r \in Ids : str[r].cw => x[r].cw
  BY <1>1 DEF StreamRecs
<1> QED BY <1>2, <1>3 DEF KeepsStr, KeepsLen

LEMMA MailSame == ASSUME AnswerInv, UNCHANGED chans PROVE KeepsMail
BY DEF KeepsMail, Asked, Pushing, chans, AnswerInv, Orderly

LEMMA ThenQuietly == ASSUME todo # <<>>, NEW items, Tidy(items), Then(items), UNCHANGED phase PROVE Quietly
BY ThenGrows DEF Quietly

LEMMA IterateQuietly == ASSUME AtSelect, NEW items, Tidy(items), Iterate(items), UNCHANGED phase PROVE Quietly
<1>1. Tidy(<<Check>>)
  BY TidyOne DEF Check
<1> QED BY <1>1, TidyConcat, IterateGrows DEF Quietly

LEMMA StayQuietly == ASSUME todo = <<>>, UNCHANGED <<phase, todo>> PROVE Quietly
BY StayGrows, TidyEmpty DEF Quietly

LEMMA PanicQuietly == ASSUME Panic PROVE Quietly
BY PanicGrows, TidyEmpty DEF Quietly

LEMMA ReturnQuietly == ASSUME NEW o \in Orders, Return(o) PROVE Quietly
<1> DEFINE m == Cardinality(liveIds)
<1>1. liveIds \subseteq Ids /\ m \in Nat
  BY IdsAssumption, FS_Subset, FS_CardinalityType DEF liveIds
<1>2. o \in [1 .. m -> Ids]
  BY <1>1 DEF Orders
<1> HIDE DEF m
<1>3. Len(o) = m
  BY <1>1, <1>2
<1>4. todo' = [i \in 1 .. m |-> <<"close", o[i]>>] /\ phase' = "closing"
  BY <1>3 DEF Return
<1>5. Len(todo') = m /\ \A i \in 1 .. m : todo'[i][1] = "close" /\ todo'[i] \in {<<"close", s>> : s \in Ids}
  BY <1>1, <1>2, <1>4
<1>6. todo' \in [1 .. m -> {<<"close", s>> : s \in Ids}]
  BY <1>4, <1>5
<1>7. IsSeq(todo')
  <2>1. todo' \in Seq({<<"close", s>> : s \in Ids})
    BY <1>1, <1>6
  <2> QED BY <2>1 DEF IsSeq
<1>8. Tidy(todo')
  BY <1>5, <1>7 DEF Tidy, Neat, Given
<1>9. Grow(todo')
  BY <1>4 DEF Grow
<1> QED BY <1>8, <1>9 DEF Quietly

(* A call that only makes calls and notes what no promise is about.        *)
LEMMA CallPromise ==
    ASSUME ServerInv, ServerInv', PromiseInv, Silent, Quietly, UNCHANGED <<out, h, chans>>,
           KeepsStr(str'), SameLive(str'), KeepsLen(str'), KeepsWin(sc')
    PROVE  PromiseInv'
<1>1. KeepsMail
  BY MailSame DEF PromiseInv
<1>2. KeepsHand
  BY DEF KeepsHand
<1>3. KeepsPc(h') /\ KeepsRead(h')
  BY SameRest
<1> QED BY <1>1, <1>2, <1>3, PromiseKept

LEMMA SilentCall ==
    ASSUME NEW op, At(op), op \notin Voices \cup {"window"} PROVE todo # <<>> /\ Silent
BY DEF At, Silent, Given

LEMMA PatientCtl == ASSUME NEW t, NEW s PROVE Patient(Ctl(t, s))
BY DEF Patient, Ctl, Out

-----------------------------------------------------------------------------
(* Each action keeps PromiseInv: calls that answer nobody.                 *)
LEMMA resetStreamPromise ==
    ASSUME ServerInv, ServerInv', PromiseInv, resetStream PROVE PromiseInv'
<1>1. /\ At("reset") /\ UNCHANGED <<phase, sc, str, out, h, chans>>
      /\ Then(<<<<"write", Ctl("rst", arg)>>, <<"resetQueued", arg>>>>)
  BY DEF resetStream
<1>2. todo # <<>> /\ Silent
  BY <1>1, SilentCall DEF Voices
<1>3. Tidy(<<<<"write", Ctl("rst", arg)>>, <<"resetQueued", arg>>>>)
  BY TidyTwo, PatientCtl
<1>4. Quietly
  BY <1>1, <1>2, <1>3, ThenQuietly
<1> QED BY <1>1, <1>2, <1>4, SameAll, SameRest, CallPromise

LEMMA resetQueuedPromise ==
    ASSUME ServerInv, ServerInv', PromiseInv, resetQueued PROVE PromiseInv'
<1>1. /\ At("resetQueued") /\ UNCHANGED <<phase, sc, out, h, chans>> /\ Then(<<>>)
      /\ str' = [str EXCEPT ![arg].resetQueued = TRUE] \/ str' = str
  BY DEF resetQueued
<1>2. todo # <<>> /\ Silent
  BY <1>1, SilentCall DEF Voices
<1>3. KeepsStr(str') /\ KeepsLen(str') /\ SameLive(str')
  <2>1. CASE str' = [str EXCEPT ![arg].resetQueued = TRUE]
    BY <2>1, StrSame, LiveKept
  <2> QED BY <1>1, <2>1, SameAll, SameRest
<1>4. Quietly
  BY <1>1, <1>2, TidyEmpty, ThenQuietly
<1> QED BY <1>1, <1>2, <1>3, <1>4, SameRest, CallPromise

LEMMA goAwayPromise ==
    ASSUME ServerInv, ServerInv', PromiseInv, goAway PROVE PromiseInv'
<1> DEFINE c == IF sc.code = "no" THEN arg ELSE sc.code
<1>1. /\ At("goAway") /\ UNCHANGED <<phase, str, out, h, chans>>
      /\ \/ sc' = [sc EXCEPT !.code = c] /\ Then(<<>>)
         \/ sc' = [sc EXCEPT !.inGoAway = TRUE, !.needGoAway = TRUE, !.code = arg] /\ Then(<<Sched>>)
  BY DEF goAway
<1> HIDE DEF c
<1>2. todo # <<>> /\ Silent
  BY <1>1, SilentCall DEF Voices
<1>3. KeepsWin(sc')
  <2>1. CASE sc' = [sc EXCEPT !.code = c]
    BY <2>1, WinSame
  <2>2. CASE sc' = [sc EXCEPT !.inGoAway = TRUE, !.needGoAway = TRUE, !.code = arg]
    BY <2>2, WinSame
  <2> QED BY <1>1, <2>1, <2>2
<1>4. Tidy(<<Sched>>)
  BY TidyOne DEF Sched
<1>5. Quietly
  BY <1>1, <1>2, <1>4, TidyEmpty, ThenQuietly
<1> QED BY <1>1, <1>2, <1>3, <1>5, SameAll, SameRest, CallPromise

LEMMA endOfIterationPromise ==
    ASSUME ServerInv, ServerInv', PromiseInv, endOfIteration PROVE PromiseInv'
<1> DEFINE c == sc.timer \/ (sc.inGoAway /\ ~sc.needGoAway /\ out.cur = None /\ ShutDown)
<1>1. At("check") /\ UNCHANGED <<str, out, h, chans>>
  BY DEF endOfIteration
<1>2. \/ (\E o \in Orders : Return(o)) /\ UNCHANGED sc
      \/ sc' = [sc EXCEPT !.timer = c] /\ Then(<<>>) /\ UNCHANGED phase
  BY DEF endOfIteration
<1> HIDE DEF c
<1>3. todo # <<>> /\ Silent
  BY <1>1, SilentCall DEF Voices
<1>4. KeepsWin(sc')
  BY <1>2, WinSame, SameRest
<1>5. Quietly
  BY <1>2, <1>3, TidyEmpty, ThenQuietly, ReturnQuietly
<1> QED BY <1>1, <1>3, <1>4, <1>5, SameAll, SameRest, CallPromise

LEMMA noteBodyReadPromise ==
    ASSUME ServerInv, ServerInv', PromiseInv, noteBodyRead PROVE PromiseInv'
<1>1. /\ At("noteBodyRead") /\ UNCHANGED <<phase, sc, str, out, h, chans>>
      /\ Then(<<>>) \/ Then(<<<<"window", arg, Head(todo)[3]>>>>)
  BY DEF noteBodyRead
<1>2. todo # <<>> /\ Silent
  BY <1>1, SilentCall DEF Voices
<1>3. arg # 0
  <2>1. arg \in Ids
    BY <1>1, <1>2, Facts, HeadOK DEF CallOK, At, arg
  <2> QED BY <2>1, IdsAssumption
<1>4. Tidy(<<<<"window", arg, Head(todo)[3]>>>>)
  BY <1>3, TidyOne
<1>5. Quietly
  BY <1>1, <1>2, <1>4, TidyEmpty, ThenQuietly
<1> QED BY <1>1, <1>2, <1>5, SameAll, SameRest, CallPromise

LEMMA scheduleFrameWritePromise ==
    ASSUME ServerInv, ServerInv', PromiseInv, scheduleFrameWrite PROVE PromiseInv'
<1>1. /\ At("sched") /\ UNCHANGED <<phase, sc, str, out, h, chans>>
      /\ Then(<<>>) \/ Then(<<<<"loop">>>>)
  BY DEF scheduleFrameWrite
<1>2. todo # <<>> /\ Silent
  BY <1>1, SilentCall DEF Voices
<1>3. Tidy(<<<<"loop">>>>)
  BY TidyOne
<1>4. Quietly
  BY <1>1, <1>2, <1>3, TidyEmpty, ThenQuietly
<1> QED BY <1>1, <1>2, <1>4, SameAll, SameRest, CallPromise

LEMMA LoopEndPromise ==
    ASSUME ServerInv, ServerInv', PromiseInv, LoopEnd PROVE PromiseInv'
<1>1. At("loop") /\ UNCHANGED <<phase, sc, str, out, h, chans>> /\ Then(<<>>)
  BY DEF LoopEnd
<1>2. todo # <<>> /\ Silent
  BY <1>1, SilentCall DEF Voices
<1>3. Quietly
  BY <1>1, <1>2, TidyEmpty, ThenQuietly
<1> QED BY <1>1, <1>2, <1>3, SameAll, SameRest, CallPromise

LEMMA finishedPromise ==
    ASSUME ServerInv, ServerInv', PromiseInv, finished PROVE PromiseInv'
<1>1. /\ todo = <<>> /\ phase' = "done" /\ todo' = <<>> /\ UNCHANGED <<sc, str, h, chans>>
      /\ out' = [out EXCEPT !.open = FALSE] /\ out \in Outs
  BY Facts DEF finished, OutOK
<1>2. Silent /\ Grow(<<>>)
  BY <1>1 DEF Silent, Grow
<1>3. Quietly
  BY <1>2, TidyEmpty DEF Quietly
<1>4. KeepsHand
  BY <1>1 DEF KeepsHand, Outs
<1>5. KeepsMail
  BY <1>1, MailSame DEF PromiseInv
<1> QED BY <1>1, <1>2, <1>3, <1>4, <1>5, SameAll, SameRest, PromiseKept

-----------------------------------------------------------------------------
(* Frames of the client.                                                   *)
LEMMA FrameSilent == ASSUME At("frame") PROVE todo # <<>> /\ Silent /\ Head(todo)[1] \notin Voices /\ Given(Head(todo)) = 0
BY DEF At, Silent, Given, Voices

LEMMA OneQuietly ==
    ASSUME todo # <<>>, UNCHANGED phase, NEW c, c[1] \notin {"wrote", "write", "window"}, Then(<<c>>)
    PROVE  Quietly
BY TidyOne, ThenQuietly

LEMMA NoneQuietly == ASSUME todo # <<>>, UNCHANGED phase, Then(<<>>) PROVE Quietly
BY TidyEmpty, ThenQuietly

LEMMA SchedQuietly == ASSUME todo # <<>>, UNCHANGED phase, Then(<<Sched>>) PROVE Quietly
BY OneQuietly DEF Sched

LEMMA AnswerQuietly ==
    ASSUME ServerInv, todo # <<>>, UNCHANGED phase,
           StrError \/ Quiet \/ \E c : ConnError(c)
    PROVE  Quietly /\ KeepsWin(sc')
<1>1. CASE StrError
  BY <1>1, OneQuietly, SameRest DEF StrError
<1>2. CASE Quiet
  BY <1>2, NoneQuietly, SameRest DEF Quiet
<1>3. ASSUME NEW c, ConnError(c) PROVE Quietly /\ KeepsWin(sc')
  <2> DEFINE m == IF arg.s > sc.maxClient THEN arg.s ELSE sc.maxClient
  <2>1. sc' = [sc EXCEPT !.maxClient = m] /\ Then(<<<<"goAway", c>>>>)
    BY <1>3 DEF ConnError, ConnErrorOn
  <2> HIDE DEF m
  <2>2. Quietly
    BY <2>1, OneQuietly
  <2>3. KeepsWin(sc')
    BY <2>1, WinSame
  <2> QED BY <2>2, <2>3
<1> QED BY <1>1, <1>2, <1>3

(* Bytes that are given back with the next call.                           *)
LEMMA WindowGiven ==
    ASSUME NEW n \in Int, NEW rest, Tidy(rest)
    PROVE  /\ IsSeq(<<<<"window", 0, n>>>> \o rest) /\ Neat(<<<<"window", 0, n>>>> \o rest)
           /\ Owes(<<<<"window", 0, n>>>> \o rest, n)
<1> DEFINE c == <<"window", 0, n>>
<1>1. Given(c) = n /\ c[1] = "window"
  BY DEF Given
<1> HIDE DEF c
<1>2. Neat(<<c>>) /\ Owes(<<c>>, n)
  BY <1>1, NeatOne, OwesOne
<1>3. Neat(rest) /\ IsSeq(rest) /\ Owes(rest, 0)
  BY TidyParts
<1>4. Neat(<<c>> \o rest)
  BY <1>2, <1>3, NeatConcat
<1>5. Owes(<<c>> \o rest, n + 0)
  BY <1>2, <1>3, OwesConcat DEF Neat
<1>6. n + 0 = n
  OBVIOUS
<1> QED BY <1>4, <1>5, <1>6 DEF Neat, c

(* What a frame takes from the connection's window and the calls give back *)
(* or the buffer of a stream holds: nothing is lost.                       *)
LEMMA TakePromise ==
    ASSUME ServerInv, ServerInv', PromiseInv, At("frame"), UNCHANGED <<phase, out, h, chans>>,
           NEW n \in Int, NEW items, Neat(items), Owes(items, n), Then(items), KeepsStr(str'), SameLive(str'),
           \A s \in Ids : str'[s].body = str[s].body /\ (~str[s].body => str'[s].len = str[s].len),
           HeldBytes' + n >= HeldBytes
    PROVE  PromiseInv'
<1>2. IsSeq(items)
  BY DEF Neat
<1>3. /\ todo # <<>> /\ Head(todo)[1] \notin Voices /\ Given(Head(todo)) = 0 /\ Grow(items)
  BY FrameSilent, ThenGrows
<1>4. KeepsHand /\ KeepsMail /\ KeepsPc(h')
  BY MailSame, SameRest DEF KeepsHand, PromiseInv
<1>5. AnswerInv'
  BY <1>2, <1>3, <1>4, AnswerKept DEF PromiseInv
<1>6. BytesInv'
  <2>1. \A s \in Ids : ~str'[s].body => str'[s].len = 0
    BY DEF PromiseInv, BytesInv
  <2>2. \A s \in Ids : h'[s].pc # "reading" => h'[s].n = 0
    BY DEF PromiseInv, BytesInv
  <2>3. HeldBytes' + n >= HeldBytes + 0
    BY HeldParts
  <2> QED BY <1>2, <1>3, <2>1, <2>2, <2>3, BytesStep DEF PromiseInv
<1> QED BY <1>5, <1>6 DEF PromiseInv

LEMMA TakeBytes ==
    ASSUME ServerInv, UNCHANGED h, SameLive(str'), KeepsLen(str'), NEW n \in Int, sc' = [sc EXCEPT !.avail = sc.avail - n]
    PROVE  HeldBytes' + n >= HeldBytes
<1>1. Buffer' = Buffer
  BY DEF Buffer, SameLive, KeepsLen, live
<1>2. Reading' = Reading
  BY DEF Reading
<1>3. sc \in Conns
  BY Facts DEF ConnKept
<1>4. PICK a \in Int, b \in Int, x \in Int, y \in Int :
         a = sc.avail /\ b = sc.unsent /\ x = Total(Buffer) /\ y = Total(Reading)
  BY HeldParts
<1>5. sc'.avail = a - n /\ sc'.unsent = b
  BY <1>3, <1>4 DEF Conns
<1>6. HeldBytes = a + b + x + y
  BY <1>4 DEF HeldBytes
<1>7. HeldBytes' = a - n + b + x + y
  BY <1>1, <1>2, <1>4, <1>5 DEF HeldBytes
<1> QED BY <1>6, <1>7

LEMMA GiveBackPromise ==
    ASSUME ServerInv, ServerInv', PromiseInv, At("frame"), arg.n \in Int, arg.pad \in Int,
           UNCHANGED <<phase, out, h, chans>>, NEW rest, Tidy(rest), GiveBack(arg, rest),
           KeepsStr(str'), SameLive(str'), KeepsLen(str')
    PROVE  PromiseInv'
<1> DEFINE n == arg.n + arg.pad
<1>1. n \in Int /\ sc.avail \in Int
  BY HeldParts
<1>2. \/ StrError
      \/ sc' = [sc EXCEPT !.avail = sc.avail - arg.n - arg.pad] /\ Then(<<<<"window", 0, n>>>> \o rest)
  BY DEF GiveBack
<1>3. sc.avail - arg.n - arg.pad = sc.avail - n
  BY HeldParts
<1> HIDE DEF n
<1>4. CASE StrError
  BY <1>4, FrameSilent, AnswerQuietly, CallPromise
<1>5. CASE sc' = [sc EXCEPT !.avail = sc.avail - n] /\ Then(<<<<"window", 0, n>>>> \o rest)
  <2>1. HeldBytes' + n >= HeldBytes
    BY <1>1, <1>5, TakeBytes
  <2>2. \A s \in Ids : str'[s].body = str[s].body /\ (~str[s].body => str'[s].len = str[s].len)
    BY DEF KeepsLen
  <2>3. Neat(<<<<"window", 0, n>>>> \o rest) /\ Owes(<<<<"window", 0, n>>>> \o rest, n)
    BY <1>1, WindowGiven
  <2> QED BY <1>1, <1>5, <2>1, <2>2, <2>3, TakePromise
<1> QED BY <1>2, <1>3, <1>4, <1>5

LEMMA FrameNumbers ==
    ASSUME ServerInv, At("frame")
    PROVE  arg.n \in Nat /\ arg.pad \in Nat /\ arg.s \in Ids \cup {0} /\ arg.end \in BOOLEAN
<1>1. arg \in InFrames
  BY Facts, HeadOK DEF CallOK, At, arg
<1> QED BY <1>1 DEF InFrames

LEMMA processOtherPromise ==
    ASSUME ServerInv, ServerInv', PromiseInv, processOther PROVE PromiseInv'
<1>1. At("frame") /\ UNCHANGED <<phase, str, out, h, chans>>
  BY DEF processOther
<1>2. \/ sc' = sc /\ Then(<<<<"goAway", "size">>>>)
      \/ StrError \/ Quiet
      \/ ConnError("protocol")
      \/ GiveBack(arg, <<>>)
  <2>1. \A c : <<c>> \o <<>> = <<c>>
    OBVIOUS
  <2> QED BY <2>1 DEF processOther, GiveBack
<1>3. todo # <<>> /\ Silent
  BY <1>1, FrameSilent
<1>4. CASE GiveBack(arg, <<>>)
  BY <1>1, <1>4, FrameNumbers, TidyEmpty, SameAll, SameRest, GiveBackPromise
<1>5. CASE ~GiveBack(arg, <<>>)
  <2>1. Quietly /\ KeepsWin(sc')
    BY <1>1, <1>2, <1>3, <1>5, AnswerQuietly, OneQuietly, SameRest
  <2> QED BY <1>1, <1>3, <2>1, SameAll, SameRest, CallPromise
<1> QED BY <1>4, <1>5

LEMMA processSettingsPromise ==
    ASSUME ServerInv, ServerInv', PromiseInv, processSettings PROVE PromiseInv'
<1> DEFINE f == arg
           growth == f.n - sc.swin
           p == sc.push /\ f.v # "noPush"
           u == sc.unacked - 1
           grown(S) == [s \in Ids |-> IF s \in S THEN [str[s] EXCEPT !.win = @ + growth] ELSE str[s]]
<1>1. At("frame") /\ UNCHANGED <<phase, out, h, chans>>
  BY DEF processSettings, Processing
<1>2. \/ UNCHANGED str /\ ConnError("protocol")
      \/ (\E S : str' = grown(S)) /\ ConnErrorOn([sc EXCEPT !.swin = f.n], "flow")
      \/ UNCHANGED str /\ sc' = [sc EXCEPT !.unacked = u] /\ Then(<<>>)
      \/ /\ \E S : str' = grown(S)
         /\ sc' = [sc EXCEPT !.swin = f.n, !.needAck = TRUE] /\ Then(<<Sched>>)
      \/ UNCHANGED str /\ sc' = [sc EXCEPT !.push = p, !.needAck = TRUE] /\ Then(<<Sched>>)
  BY Zenon DEF processSettings
<1> HIDE DEF p, u
<1>3. todo # <<>> /\ Silent
  BY <1>1, FrameSilent
<1>4. KeepsStr(str') /\ KeepsLen(str') /\ SameLive(str')
  <2>1. CASE UNCHANGED str
    BY <2>1, SameAll, SameRest
  <2>2. ASSUME NEW S, str' = grown(S) PROVE KeepsStr(str') /\ KeepsLen(str') /\ SameLive(str')
    <3>1. \A s \in Ids : str[s] \in StreamRecs /\ str'[s] = IF s \in S THEN [str[s] EXCEPT !.win = @ + growth] ELSE str[s]
      BY <2>2, Facts
    <3>2. \A s \in Ids : /\ str'[s].st = str[s].st /\ str'[s].len = str[s].len
                         /\ str'[s].body = str[s].body /\ str'[s].cw = str[s].cw
      BY <3>1 DEF StreamRecs
    <3> QED BY <3>2 DEF SameLive, live, KeepsStr, KeepsLen
  <2> QED BY <1>2, <2>1, <2>2
<1>5. Quietly /\ KeepsWin(sc')
  <2>1. CASE ConnError("protocol")
    BY <1>1, <1>3, <2>1, AnswerQuietly
  <2>5. CASE ConnErrorOn([sc EXCEPT !.swin = f.n], "flow")
    <3> DEFINE m == IF arg.s > sc.maxClient THEN arg.s ELSE sc.maxClient
    <3>1. sc' = [sc EXCEPT !.swin = f.n, !.maxClient = m] /\ Then(<<<<"goAway", "flow">>>>)
      BY <2>5, OverflowConn
    <3> HIDE DEF m
    <3> QED BY <1>1, <1>3, <3>1, OneQuietly, WinSame
  <2>2. CASE sc' = [sc EXCEPT !.unacked = u] /\ Then(<<>>)
    BY <1>1, <1>3, <2>2, NoneQuietly, WinSame
  <2>3. CASE sc' = [sc EXCEPT !.swin = f.n, !.needAck = TRUE] /\ Then(<<Sched>>)
    BY <1>1, <1>3, <2>3, SchedQuietly, WinSame
  <2>4. CASE sc' = [sc EXCEPT !.push = p, !.needAck = TRUE] /\ Then(<<Sched>>)
    BY <1>1, <1>3, <2>4, SchedQuietly, WinSame
  <2> QED BY <1>2, <2>1, <2>2, <2>3, <2>4, <2>5
<1> QED BY <1>1, <1>3, <1>4, <1>5, CallPromise

LEMMA processTrailerHeadersPromise ==
    ASSUME ServerInv, ServerInv', PromiseInv, processTrailerHeaders PROVE PromiseInv'
<1>1. At("frame") /\ UNCHANGED <<phase, out, h, chans>>
  BY DEF processTrailerHeaders, Processing
<1>2. /\ str' = [str EXCEPT ![arg.s].gotTrailer = TRUE] \/ str' = str
      /\ \/ StrError \/ Quiet \/ ConnError("protocol")
         \/ sc' = sc /\ Then(<<<<"endStream", arg.s>>>>)
  BY Zenon DEF processTrailerHeaders
<1>3. todo # <<>> /\ Silent
  BY <1>1, FrameSilent
<1>4. KeepsStr(str') /\ KeepsLen(str') /\ SameLive(str')
  <2>1. CASE str' = [str EXCEPT ![arg.s].gotTrailer = TRUE]
    BY <2>1, StrSame, LiveKept
  <2> QED BY <1>2, <2>1, SameAll, SameRest
<1>5. Quietly /\ KeepsWin(sc')
  <2>1. CASE sc' = sc /\ Then(<<<<"endStream", arg.s>>>>)
    BY <1>1, <1>3, <2>1, OneQuietly, SameRest
  <2> QED BY <1>1, <1>2, <1>3, <2>1, AnswerQuietly
<1> QED BY <1>1, <1>3, <1>4, <1>5, CallPromise

LEMMA processWindowUpdatePromise ==
    ASSUME ServerInv, ServerInv', PromiseInv, processWindowUpdate PROVE PromiseInv'
<1> DEFINE f == arg
           a == sc.cwin + f.n
           b == str[f.s].win + f.n
<1>1. At("frame") /\ UNCHANGED <<phase, out, h, chans>>
  BY DEF processWindowUpdate, Processing
<1>2. \/ UNCHANGED str /\ sc' = sc /\ Then(<<<<"goAway", "flow">>>>)
      \/ UNCHANGED str /\ sc' = [sc EXCEPT !.cwin = a] /\ Then(<<Sched>>)
      \/ UNCHANGED str /\ (ConnError("protocol") \/ Quiet \/ StrError)
      \/ sc' = sc /\ str' = [str EXCEPT ![f.s].win = b] /\ Then(<<Sched>>)
  BY Zenon DEF processWindowUpdate
<1> HIDE DEF a, b, f
<1>3. todo # <<>> /\ Silent
  BY <1>1, FrameSilent
<1>4. KeepsStr(str') /\ KeepsLen(str') /\ SameLive(str')
  <2>1. CASE UNCHANGED str
    BY <2>1, SameAll, SameRest
  <2>2. CASE str' = [str EXCEPT ![f.s].win = b]
    BY <2>2, StrSame, LiveKept
  <2> QED BY <1>2, <2>1, <2>2
<1>5. Quietly /\ KeepsWin(sc')
  <2>1. CASE sc' = sc /\ Then(<<<<"goAway", "flow">>>>)
    BY <1>1, <1>3, <2>1, OneQuietly, SameRest
  <2>2. CASE sc' = [sc EXCEPT !.cwin = a] /\ Then(<<Sched>>)
    BY <1>1, <1>3, <2>2, SchedQuietly, WinSame
  <2>3. CASE ConnError("protocol") \/ Quiet \/ StrError
    BY <1>1, <1>3, <2>3, AnswerQuietly
  <2>4. CASE sc' = sc /\ Then(<<Sched>>)
    BY <1>1, <1>3, <2>4, SchedQuietly, SameRest
  <2> QED BY <1>2, <2>1, <2>2, <2>3, <2>4
<1> QED BY <1>1, <1>3, <1>4, <1>5, CallPromise

LEMMA processResetStreamPromise ==
    ASSUME ServerInv, ServerInv', PromiseInv, processResetStream PROVE PromiseInv'
<1>1. At("frame") /\ UNCHANGED <<phase, str, out, h, chans>>
  BY DEF processResetStream, Processing
<1>2. ConnError("protocol") \/ (sc' = sc /\ (Then(<<<<"close", arg.s>>>>) \/ Then(<<>>)))
  BY DEF processResetStream
<1>3. todo # <<>> /\ Silent
  BY <1>1, FrameSilent
<1>4. Quietly /\ KeepsWin(sc')
  <2>1. CASE sc' = sc /\ (Then(<<<<"close", arg.s>>>>) \/ Then(<<>>))
    BY <1>1, <1>3, <2>1, OneQuietly, NoneQuietly, SameRest
  <2> QED BY <1>1, <1>2, <1>3, <2>1, AnswerQuietly
<1> QED BY <1>1, <1>3, <1>4, SameAll, SameRest, CallPromise

LEMMA processRestPromise ==
    ASSUME ServerInv, ServerInv', PromiseInv, processRest PROVE PromiseInv'
<1>1. At("frame") /\ UNCHANGED <<phase, str, out, h, chans>>
  BY DEF processRest, Processing
<1>2. \/ sc' = [sc EXCEPT !.ping = FALSE] /\ Then(<<>>)
      \/ sc' = sc /\ Then(<<<<"write", Ctl("ping", 0)>>>>)
      \/ StrError \/ Quiet \/ ConnError("protocol")
      \/ sc' = [sc EXCEPT !.push = FALSE] /\ Then(<<<<"goAway", "no">>>>)
  BY Zenon DEF processRest
<1>3. todo # <<>> /\ Silent
  BY <1>1, FrameSilent
<1>4. Quietly /\ KeepsWin(sc')
  <2>1. CASE sc' = [sc EXCEPT !.ping = FALSE] /\ Then(<<>>)
    BY <1>1, <1>3, <2>1, NoneQuietly, WinSame
  <2>2. CASE sc' = sc /\ Then(<<<<"write", Ctl("ping", 0)>>>>)
    <3>1. Tidy(<<<<"write", Ctl("ping", 0)>>>>)
      BY TidyOne, PatientCtl
    <3> QED BY <1>1, <1>3, <2>2, <3>1, ThenQuietly, SameRest
  <2>3. CASE StrError \/ Quiet \/ ConnError("protocol")
    BY <1>1, <1>3, <2>3, AnswerQuietly
  <2>4. CASE sc' = [sc EXCEPT !.push = FALSE] /\ Then(<<<<"goAway", "no">>>>)
    BY <1>1, <1>3, <2>4, OneQuietly, WinSame
  <2> QED BY <1>2, <2>1, <2>2, <2>3, <2>4
<1> QED BY <1>1, <1>3, <1>4, SameAll, SameRest, CallPromise

LEMMA processDataUnwantedPromise ==
    ASSUME ServerInv, ServerInv', PromiseInv, processDataUnwanted PROVE PromiseInv'
<1>1. At("frame") /\ UNCHANGED <<phase, str, out, h, chans>>
  BY DEF processDataUnwanted, Processing
<1>2. ConnError("protocol") \/ GiveBack(arg, <<>>) \/ GiveBack(arg, <<<<"reset", arg.s>>>>)
  BY DEF processDataUnwanted
<1>3. todo # <<>> /\ Silent /\ Tidy(<<>>) /\ Tidy(<<<<"reset", arg.s>>>>)
  BY <1>1, FrameSilent, TidyEmpty, TidyOne
<1>4. CASE ConnError("protocol")
  BY <1>1, <1>3, <1>4, AnswerQuietly, SameAll, SameRest, CallPromise
<1>5. CASE GiveBack(arg, <<>>)
  BY <1>1, <1>3, <1>5, FrameNumbers, SameAll, SameRest, GiveBackPromise
<1>6. CASE GiveBack(arg, <<<<"reset", arg.s>>>>)
  BY <1>1, <1>3, <1>6, FrameNumbers, SameAll, SameRest, GiveBackPromise
<1> QED BY <1>2, <1>4, <1>5, <1>6

LEMMA endStreamPromise ==
    ASSUME ServerInv, ServerInv', StreamInv, PromiseInv, endStream PROVE PromiseInv'
<1>1. /\ At("endStream") /\ UNCHANGED <<phase, sc, out, h, chans>> /\ Then(<<>>)
      /\ str' = [str EXCEPT ![arg].st = "halfRemote", ![arg].err = TRUE]
  BY DEF endStream
<1>2. todo # <<>> /\ Silent
  BY <1>1, SilentCall DEF Voices
<1>3. arg \in liveIds
  <2>1. 1 \in 1 .. Len(todo) /\ Head(todo) = todo[1]
    BY <1>2, TailSeq
  <2> QED BY <1>1, <2>1 DEF At, arg, StreamInv, LoopInv, EndsLive
<1>4. \A s \in Ids : /\ str'[s].st = IF s = arg THEN "halfRemote" ELSE str[s].st
                     /\ str'[s].len = str[s].len /\ str'[s].body = str[s].body /\ str'[s].cw = str[s].cw
  <2>1. str \in [Ids -> StreamRecs]
    BY Facts
  <2> QED BY <1>1, <2>1 DEF StreamRecs
<1>5. KeepsStr(str') /\ KeepsLen(str') /\ SameLive(str')
  BY <1>3, <1>4 DEF KeepsStr, KeepsLen, SameLive, liveIds, live
<1>6. Quietly
  BY <1>1, <1>2, NoneQuietly
<1> QED BY <1>1, <1>2, <1>5, <1>6, SameRest, CallPromise

LEMMA WindowOne == ASSUME NEW n \in Int PROVE Neat(<<<<"window", 0, n>>>>) /\ Owes(<<<<"window", 0, n>>>>, n)
<1>1. \A c : <<c>> \o <<>> = <<c>>
  OBVIOUS
<1> QED BY <1>1, TidyEmpty, WindowGiven

LEMMA TwoCalls == ASSUME NEW c, NEW d PROVE <<c, d>> = <<c>> \o <<d>>
<1>1. PICK a : a = <<c>>
  OBVIOUS
<1>2. PICK b : b = <<d>>
  OBVIOUS
<1>3. a \in Seq({c, d}) /\ b \in Seq({c, d}) /\ Len(a) = 1 /\ Len(b) = 1 /\ a[1] = c /\ b[1] = d
  BY <1>1, <1>2
<1>4. PICK q : q = a \o b
  OBVIOUS
<1>5. IsSeq(q) /\ Len(q) = 2 /\ q[1] = c /\ q[2] = d
  <2>1. IsSeq(a) /\ IsSeq(b)
    BY <1>3 DEF IsSeq
  <2>2. 1 \in 1 .. 1 /\ 1 + 1 = 2
    OBVIOUS
  <2>3. /\ IsSeq(q) /\ Len(q) = Len(a) + Len(b)
        /\ \A i \in 1 .. Len(a) : q[i] = a[i]
        /\ \A i \in 1 .. Len(b) : q[Len(a) + i] = b[i]
    BY <1>4, <2>1, ConcatSeq
  <2> QED BY <1>3, <2>2, <2>3
<1>6. q = <<c, d>>
  BY <1>5 DEF IsSeq
<1> QED BY <1>1, <1>2, <1>4, <1>6

LEMMA WindowTwo ==
    ASSUME NEW n \in Int, NEW s, s # 0, NEW k
    PROVE  Neat(<<<<"window", 0, n>>, <<"window", s, k>>>>) /\ Owes(<<<<"window", 0, n>>, <<"window", s, k>>>>, n)
<1>1. <<<<"window", 0, n>>, <<"window", s, k>>>> = <<<<"window", 0, n>>>> \o <<<<"window", s, k>>>>
  BY TwoCalls
<1>2. Tidy(<<<<"window", s, k>>>>)
  BY TidyOne
<1> QED BY <1>1, <1>2, WindowGiven

(* DATA of a body: its padding is given back, and its bytes too if the     *)
(* pipe takes them no longer.                                              *)
LEMMA DataTaken ==
    ASSUME ServerInv, ServerInv', PromiseInv, At("frame"), UNCHANGED <<phase, out, h, chans>>,
           NEW s \in liveIds, str[s].body, NEW n \in Nat, NEW pad \in Nat, NEW a, NEW b, NEW m \in Nat,
           sc' = [sc EXCEPT !.avail = sc.avail - (n + pad)],
           str' = [str EXCEPT ![s].avail = a, ![s].got = b, ![s].len = str[s].len + m],
           NEW g \in Nat, g + m = n + pad, NEW items, Neat(items), Owes(items, g), Then(items)
    PROVE  PromiseInv'
<1>1. s \in Ids /\ str \in [Ids -> StreamRecs] /\ sc \in Conns
  BY Facts DEF liveIds, ConnKept
<1>2. \A u \in Ids : /\ str'[u].st = str[u].st /\ str'[u].body = str[u].body /\ str'[u].cw = str[u].cw
                     /\ str'[u].len = IF u = s THEN str[u].len + m ELSE str[u].len
  BY <1>1 DEF StreamRecs
<1>3. KeepsStr(str') /\ SameLive(str')
  BY <1>2 DEF KeepsStr, SameLive, live
<1>4. \A u \in Ids : str'[u].body = str[u].body /\ (~str[u].body => str'[u].len = str[u].len)
  BY <1>2
<1>5. HeldBytes' + g >= HeldBytes
  <2>1. Buffer \in [Ids -> Int] /\ Buffer' \in [Ids -> Int]
    BY HeldParts, HeldPartsNext
  <2>2. Buffer'[s] = Buffer[s] + m /\ \A u \in Ids \ {s} : Buffer'[u] = Buffer[u]
    BY <1>1, <1>2 DEF Buffer, liveIds, live
  <2>3. Total(Buffer') = Total(Buffer) - Buffer[s] + Buffer'[s] /\ Total(Buffer) \in Int
    BY <1>1, <2>1, <2>2, TotalChanged
  <2>4. Reading' = Reading
    BY DEF Reading
  <2>5. PICK x \in Int, y \in Int, z \in Int, w \in Int, k \in Int :
           x = sc.avail /\ y = sc.unsent /\ z = Total(Buffer) /\ w = Total(Reading) /\ k = Buffer[s]
    BY <1>1, <2>1, HeldParts
  <2>6. sc'.avail = x - (n + pad) /\ sc'.unsent = y
    BY <1>1, <2>5 DEF Conns
  <2>7. HeldBytes = x + y + z + w
    BY <2>5 DEF HeldBytes
  <2>8. HeldBytes' = (x - (n + pad)) + y + (z - k + (k + m)) + w
    BY <2>2, <2>3, <2>4, <2>5, <2>6 DEF HeldBytes
  <2> QED BY <2>7, <2>8
<1>6. g \in Int
  OBVIOUS
<1>7. Neat(items) /\ Owes(items, g) /\ Then(items)
  OBVIOUS
<1>8. At("frame") /\ UNCHANGED <<phase, out, h, chans>>
  OBVIOUS
<1> QED BY ZenonT(60), <1>3, <1>4, <1>5, <1>6, <1>7, <1>8, TakePromise

LEMMA processDataPromise ==
    ASSUME ServerInv, ServerInv', PromiseInv, processData PROVE PromiseInv'
<1> DEFINE f == arg
           s == f.s
           L == f.n + f.pad
           dead == str[s].err \/ str[s].broken
           a == str[s].avail - L
           b == str[s].got + f.n
           m == IF dead THEN str[s].len ELSE str[s].len + f.n
           e == IF f.end THEN <<<<"endStream", s>>>> ELSE <<>>
<1>1. /\ At("frame") /\ UNCHANGED <<out, h, chans>> /\ s \in liveIds
      /\ f.n \in Nat /\ f.pad \in Nat
  BY FrameNumbers DEF processData, Processing, Unwanted
<1>2. s \in Ids /\ str \in [Ids -> StreamRecs] /\ sc \in Conns /\ todo # <<>> /\ Silent
  BY <1>1, Facts, FrameSilent DEF liveIds, ConnKept
<1>3. CASE Panic /\ UNCHANGED <<sc, str>>
  <2>1. Quietly
    BY <1>3, PanicQuietly
  <2> QED BY <1>1, <1>2, <1>3, <2>1, SameAll, SameRest, CallPromise
<1>4. CASE GiveBack(f, <<<<"reset", s>>>>) /\ (str' = str \/ str' = [str EXCEPT ![s].err = TRUE]) /\ UNCHANGED phase
  <2>1. KeepsStr(str') /\ KeepsLen(str') /\ SameLive(str')
    <3>1. CASE str' = [str EXCEPT ![s].err = TRUE]
      BY <3>1, StrSame, LiveKept
    <3> QED BY <1>4, <3>1, SameAll, SameRest
  <2>2. Tidy(<<<<"reset", s>>>>)
    BY TidyOne
  <2> QED BY <1>1, <1>4, <2>1, <2>2, GiveBackPromise
<1>5. CASE StrError /\ UNCHANGED <<str, phase>>
  BY <1>1, <1>2, <1>5, AnswerQuietly, SameAll, SameRest, CallPromise
<1>6. CASE /\ str[s].body /\ UNCHANGED phase
           /\ sc' = [sc EXCEPT !.avail = sc.avail - L]
           /\ str' = [str EXCEPT ![s].avail = a, ![s].got = b, ![s].len = m]
           /\ Then(IF dead /\ f.n > 0 THEN <<<<"window", 0, L>>>>
                   ELSE (IF L > 0 THEN <<<<"window", 0, f.pad>>, <<"window", s, f.pad>>>> ELSE <<>>) \o e)
  <2>1. str[s].len \in Int /\ L \in Nat
    BY <1>1, <1>2 DEF StreamRecs
  <2>2. Tidy(e) /\ e \in {<<<<"endStream", s>>>>, <<>>}
    BY TidyOne, TidyEmpty
  <2>3. CASE dead /\ f.n > 0
    <3>1. m = str[s].len + 0 /\ L + 0 = f.n + f.pad /\ 0 \in Nat
      BY <2>1, <2>3
    <3>2. Then(<<<<"window", 0, L>>>>)
      BY <1>6, <2>3
    <3>3. Neat(<<<<"window", 0, L>>>>) /\ Owes(<<<<"window", 0, L>>>>, L)
      BY <2>1, WindowOne
    <3> HIDE DEF a, b, dead, e
    <3> QED BY <1>1, <1>6, <2>1, <3>1, <3>2, <3>3, DataTaken
  <2>4. CASE ~(dead /\ f.n > 0) /\ L > 0
    <3>1. m = str[s].len + f.n
      BY <1>1, <2>1, <2>4
    <3>2. s # 0
      BY <1>2, IdsAssumption
    <3> DEFINE w == <<<<"window", 0, f.pad>>, <<"window", s, f.pad>>>>
    <3>3. Neat(w \o e) /\ Owes(w \o e, f.pad)
      <4>1. Neat(w) /\ Owes(w, f.pad)
        BY <1>1, <3>2, WindowTwo
      <4> HIDE DEF w, e
      <4>2. Neat(e) /\ Owes(e, 0)
        BY <2>2, TidyParts
      <4>3. Owes(w \o e, f.pad + 0) /\ f.pad + 0 = f.pad
        BY <1>1, <4>1, <4>2, OwesConcat DEF Neat
      <4> QED BY <4>1, <4>2, <4>3, NeatConcat
    <3>4. Then(w \o e)
      BY <1>6, <2>4
    <3> HIDE DEF w
    <3>5. f.pad + f.n = f.n + f.pad
      BY <1>1
    <3> HIDE DEF a, b, dead, e
    <3> QED BY <1>1, <1>6, <2>1, <3>1, <3>3, <3>4, <3>5, DataTaken
  <2>5. CASE ~(dead /\ f.n > 0) /\ ~(L > 0)
    <3>1. L = 0 /\ f.n = 0
      BY <1>1, <2>1, <2>5
    <3>2. m = str[s].len
      BY <2>1, <3>1
    <3>3. Then(e)
      <4>1. <<>> \o <<>> = <<>>
        OBVIOUS
      <4>2. \A x : <<>> \o <<x>> = <<x>>
        OBVIOUS
      <4> QED BY <1>6, <2>2, <2>5, <4>1, <4>2
    <3>4. Quietly
      BY <1>2, <1>6, <2>2, <3>3, ThenQuietly
    <3> HIDE DEF a, b, dead, e, m
    <3>5. \A u \in Ids : /\ str'[u].st = str[u].st /\ str'[u].body = str[u].body /\ str'[u].cw = str[u].cw
                         /\ str'[u].len = str[u].len
      BY <1>2, <1>6, <3>2 DEF StreamRecs
    <3>6. KeepsStr(str') /\ KeepsLen(str') /\ SameLive(str')
      BY <3>5 DEF KeepsStr, KeepsLen, SameLive, live
    <3>7. KeepsWin(sc')
      BY <1>2, <1>6, <3>1 DEF Conns, KeepsWin
    <3> QED BY <1>1, <1>2, <1>6, <3>4, <3>6, <3>7, CallPromise
  <2> QED BY <2>3, <2>4, <2>5
<1>7. \/ Panic /\ UNCHANGED <<sc, str>>
      \/ GiveBack(f, <<<<"reset", s>>>>) /\ (str' = str \/ str' = [str EXCEPT ![s].err = TRUE]) /\ UNCHANGED phase
      \/ StrError /\ UNCHANGED <<str, phase>>
      \/ /\ str[s].body /\ UNCHANGED phase
         /\ sc' = [sc EXCEPT !.avail = sc.avail - L]
         /\ str' = [str EXCEPT ![s].avail = a, ![s].got = b, ![s].len = m]
         /\ Then(IF dead /\ f.n > 0 THEN <<<<"window", 0, L>>>>
                 ELSE (IF L > 0 THEN <<<<"window", 0, f.pad>>, <<"window", s, f.pad>>>> ELSE <<>>) \o e)
  BY Zenon DEF processData
<1> QED BY <1>3, <1>4, <1>5, <1>6, <1>7

-----------------------------------------------------------------------------
(* The steps that hand a frame on, or tell a handler of it.                *)
Told(s) == h[s].done \/ str[s].cw
Held(s) ==
    Asked(s) \/ Pushing(s) \/ Queued(s) \/ Writing(s) \/ (todo # <<>> /\ Carries(Head(todo), s))
Steady(s) ==
    /\ h[s].pc = "none" => h'[s].pc = "none"
    /\ str'[s].st = "idle" => str[s].st = "idle"
Heard(s) ==
    /\ h'[s].pc = "wait" => h[s].pc = "wait" /\ (h[s].done => h'[s].done)
    /\ str'[s].st = "closed" => str[s].st = "closed" \/ Closing(s)'
    /\ str[s].cw => str'[s].cw
    /\ h[s].pc = "wait" /\ Held(s) => InHand(s)' \/ Told(s)'
    /\ todo # <<>> /\ Head(todo)[1] = "closeRest" /\ Head(todo)[2] = s => str'[s].cw

LEMMA VoiceKept ==
    ASSUME ServerInv, AnswerInv, NEW items, IsSeq(items), Grow(items), Orderly',
           \A s \in Ids : Used(s)' \/ Steady(s),
           phase' = "serving" => \A s \in Ids : (Answered(s)' /\ Closed(s)') \/ Heard(s)
    PROVE  AnswerInv'
<1>1. \A s \in Ids : Used(s)'
  BY DEF AnswerInv, Used, Steady
<1>2. ASSUME NEW s \in Ids, phase' = "serving", Heard(s) PROVE Answered(s)' /\ Closed(s)'
  <2>1. Answered(s) /\ Closed(s)
    BY <1>2 DEF AnswerInv, Grow
  <2>2. Carried(s) => Carried(s)' \/ (todo # <<>> /\ Carries(Head(todo), s))
    BY <1>2, CallKept
  <2>3. Closing(s) => Closing(s)' \/ str'[s].cw
    BY <1>2, CallKept DEF Heard
  <2>4. Closed(s)'
    BY <1>2, <2>1, <2>3 DEF Closed, Heard
  <2>5. Answered(s)'
    <3> SUFFICES ASSUME h'[s].pc = "wait" PROVE h'[s].done \/ str'[s].cw \/ InHand(s)'
      BY DEF Answered
    <3>1. h[s].pc = "wait" /\ (h[s].done \/ str[s].cw \/ InHand(s))
      BY <1>2, <2>1 DEF Answered, Heard
    <3>2. CASE h[s].done \/ str[s].cw
      BY <1>2, <3>2 DEF Heard
    <3>3. CASE Held(s)
      BY <1>2, <3>1, <3>3 DEF Heard, Told
    <3>4. CASE Closing(s)
      BY <2>3, <3>4 DEF InHand
    <3>5. CASE Carried(s)
      <4>1. CASE Carried(s)'
        BY <4>1 DEF InHand
      <4>2. CASE todo # <<>> /\ Carries(Head(todo), s)
        BY <3>3, <4>2 DEF Held
      <4> QED BY <2>2, <3>5, <4>1, <4>2
    <3> QED BY <3>1, <3>2, <3>3, <3>4, <3>5 DEF InHand, Held
  <2> QED BY <2>4, <2>5
<1> QED BY <1>1, <1>2 DEF AnswerInv

(* Where the frame that a call takes goes.                                 *)
LEMMA CalledKeeps ==
    ASSUME ServerInv, NEW items, IsSeq(items), Grow(items), phase' = "serving", NEW s \in Ids,
           NEW i \in 1 .. Len(items)
    PROVE  /\ Carries(items[i], s) => InHand(s)'
           /\ items[i][1] = "closeRest" /\ items[i][2] = s => Closing(s)'
BY CallKept DEF InHand

LEMMA ArgFrame ==
    ASSUME ServerInv, todo # <<>>, Head(todo)[1] \in {"write", "start", "wrote", "reply"}
    PROVE  arg \in OutFrames /\ arg.s \in Ids \cup {0} /\ (~isControl(arg) => arg.s \in Ids)
<1>1. FrameOK(arg, Reach)
  BY Facts, HeadOK DEF CallOK, arg
<1> QED BY <1>1 DEF FrameOK, OutFrames, isControl

LEMMA SchedItems == /\ Tidy(<<Sched>>) /\ IsSeq(<<Sched>>) /\ Owes(<<Sched>>, 0)
<1>1. Tidy(<<Sched>>)
  BY TidyOne DEF Sched
<1> QED BY <1>1, TidyParts

LEMMA NoItems == Tidy(<<>>) /\ IsSeq(<<>>) /\ Owes(<<>>, 0) /\ Neat(<<>>)
BY TidyEmpty, TidyParts

(* What a queue that grows keeps.                                          *)
LEMMA AppendKeeps ==
    ASSUME NEW S, NEW q \in Seq(S), NEW f \in S, NEW x, x = Append(q, f)
    PROVE  /\ \A i \in 1 .. Len(q) : \E j \in 1 .. Len(x) : x[j] = q[i]
           /\ \E j \in 1 .. Len(x) : x[j] = f
           /\ \A j \in 1 .. Len(x) : x[j] = f \/ \E i \in 1 .. Len(q) : x[j] = q[i]
<1>1. /\ Len(x) = Len(q) + 1 /\ Len(q) \in Nat
      /\ \A i \in 1 .. Len(x) : x[i] = IF i = Len(q) + 1 THEN f ELSE q[i]
  OBVIOUS
<1>2. \A i \in 1 .. Len(q) : i \in 1 .. Len(x) /\ x[i] = q[i]
  BY <1>1
<1>3. Len(q) + 1 \in 1 .. Len(x) /\ x[Len(q) + 1] = f
  BY <1>1
<1>4. \A j \in 1 .. Len(x) : j = Len(q) + 1 \/ j \in 1 .. Len(q)
  BY <1>1
<1>5. \A j \in 1 .. Len(x) : x[j] = f \/ \E i \in 1 .. Len(q) : x[j] = q[i]
  BY <1>2, <1>3, <1>4
<1> QED BY <1>2, <1>3, <1>5, Zenon

LEMMA ClosedState == ASSUME NEW s \in Ids, state(s) = "closed" PROVE ~live(s)
<1> SUFFICES ASSUME live(s) PROVE FALSE
  OBVIOUS
<1>1. state(s) = str[s].st
  BY DEF state
<1> QED BY <1>1 DEF live

LEMMA writeFramePromise ==
    ASSUME ServerInv, ServerInv', PromiseInv, writeFrame PROVE PromiseInv'
<1> DEFINE f == arg
           x == Append(out.ctl, f)
           y == Append(out.q[f.s], f)
<1>1. /\ todo # <<>> /\ Head(todo)[1] = "write" /\ Head(todo)[2] = f /\ Then(<<Sched>>) /\ UNCHANGED <<phase, sc, h, chans>>
      /\ str' = IF f.t = "headers" THEN [str EXCEPT ![f.s].wroteHeaders = TRUE] ELSE str
  BY DEF writeFrame, At, arg
<1>2. \/ Ignored(f) /\ out' = out
      \/ isControl(f) /\ out' = [out EXCEPT !.ctl = x, !.queued = @ + 1]
      \/ ~isControl(f) /\ out' = [out EXCEPT !.q[f.s] = y]
  <2>1. out' = CASE Ignored(f) -> out
                 [] ~Ignored(f) /\ isControl(f) -> [out EXCEPT !.ctl = x, !.queued = @ + 1]
                 [] OTHER -> [out EXCEPT !.q[f.s] = y]
    BY Zenon DEF writeFrame
  <2> HIDE DEF x, y, f
  <2> QED BY <2>1, Zenon
<1>3. f \in OutFrames /\ f.s \in Ids \cup {0} /\ (~isControl(f) => f.s \in Ids)
  BY <1>1, ArgFrame
<1>4. Patient(f)
  BY <1>1, TailSeq DEF PromiseInv, AnswerInv, Orderly, arg
<1>5. /\ out \in Outs /\ out.q \in [Ids -> Seq(OutFrames)] /\ str \in [Ids -> StreamRecs] /\ todo # <<>>
      /\ \A s \in Ids : out.q[s] \in Seq(OutFrames)
  BY <1>1, Facts DEF OutOK, Outs
<1> HIDE DEF f
<1>6. /\ out'.cur = out.cur
      /\ \/ Ignored(f) /\ out'.q = out.q
         \/ isControl(f) /\ out'.q = out.q
         \/ f.s \in Ids /\ out'.q[f.s] = y /\ \A s \in Ids : s # f.s => out'.q[s] = out.q[s]
  <2> HIDE DEF x, y
  <2>1. CASE isControl(f) /\ out' = [out EXCEPT !.ctl = x, !.queued = @ + 1]
    BY <1>5, <2>1 DEF Outs
  <2>2. CASE ~isControl(f) /\ out' = [out EXCEPT !.q[f.s] = y]
    BY <1>3, <1>5, <2>2 DEF Outs
  <2> QED BY <1>2, <2>1, <2>2
<1>7. ASSUME NEW s \in Ids, s = f.s
      PROVE  /\ \A i \in 1 .. Len(out.q[s]) : \E j \in 1 .. Len(y) : y[j] = out.q[s][i]
             /\ \E j \in 1 .. Len(y) : y[j] = f
  <2>1. PICK q : q = out.q[s]
    OBVIOUS
  <2>2. PICK e : e = y
    OBVIOUS
  <2>3. PICK g : g = f
    OBVIOUS
  <2>4. q \in Seq(OutFrames) /\ g \in OutFrames /\ e = Append(q, g)
    BY <1>3, <1>5, <1>7, <2>1, <2>2, <2>3
  <2>5. /\ \A i \in 1 .. Len(q) : \E j \in 1 .. Len(e) : e[j] = q[i]
        /\ \E j \in 1 .. Len(e) : e[j] = g
    BY <2>4, AppendKeeps
  <2> QED BY <2>1, <2>2, <2>3, <2>5
<1>8. KeepsStr(str') /\ KeepsLen(str') /\ SameLive(str')
  <2>1. CASE str' = [str EXCEPT ![f.s].wroteHeaders = TRUE]
    BY <2>1, StrSame, LiveKept
  <2> QED BY <1>1, <2>1, SameAll, SameRest
<1>9. Grow(<<Sched>>) /\ KeepsMail /\ KeepsPc(h') /\ KeepsRead(h') /\ KeepsWin(sc')
  BY <1>1, ThenGrows, MailSame, SameRest DEF PromiseInv
<1>10. Orderly'
  BY <1>9, SchedItems, NeatKept DEF Tidy, PromiseInv, AnswerInv, KeepsMail
<1>11. BytesInv'
  <2>1. Given(Head(todo)) = 0
    BY <1>1 DEF Given
  <2> QED BY <1>8, <1>9, <2>1, SchedItems, BytesKept DEF PromiseInv
<1>12. ASSUME NEW s \in Ids PROVE Queued(s) => Queued(s)'
  <2>1. CASE out'.q[s] = out.q[s]
    BY <2>1 DEF Queued
  <2>2. CASE s = f.s /\ out'.q[s] = y
    <3> HIDE DEF y
    <3> QED BY <1>7, <2>2 DEF Queued
  <2> QED BY <1>6, <2>1, <2>2
<1>13. ASSUME NEW s \in Ids, Carries(Head(todo), s), h[s].pc = "wait", phase' = "serving" PROVE InHand(s)' \/ Told(s)'
  <2>1. f.s = s /\ f.wait /\ ~isControl(f) /\ f.t # "continue"
    BY <1>1, <1>4, <1>13 DEF Carries, Patient, isControl
  <2>2. CASE Ignored(f)
    <3>1. state(s) = "closed"
      BY <2>1, <2>2 DEF Ignored
    <3>2. ~live(s)
      BY <3>1, ClosedState
    <3>3. str[s].st = "closed"
      <4>1. str[s].st # "idle"
        BY <1>13 DEF PromiseInv, AnswerInv, Used
      <4> QED BY <1>5, <3>2, <4>1 DEF StreamRecs, live
    <3>4. str[s].cw \/ Closing(s)
      BY <1>1, <1>13, <3>3 DEF PromiseInv, AnswerInv, Closed
    <3>5. Closing(s) => Closing(s)'
      BY <1>1, <1>9, <1>13, SchedItems, CallKept
    <3> QED BY <1>8, <3>4, <3>5 DEF Told, InHand, KeepsStr
  <2>3. CASE out'.q[s] = y
    <3> HIDE DEF y
    <3> QED BY <1>7, <2>1, <2>3 DEF InHand, Queued
  <2> QED BY <1>6, <2>1, <2>2, <2>3
<1>14. ASSUME NEW s \in Ids, phase' = "serving" PROVE Heard(s)
  <2>1. h[s].pc = "wait" /\ Held(s) => InHand(s)' \/ Told(s)'
    <3>1. CASE Asked(s) \/ Pushing(s)
      BY <1>9, <3>1 DEF KeepsMail, InHand
    <3>2. CASE Writing(s)
      BY <1>6, <3>2 DEF Writing, InHand
    <3>3. CASE Queued(s)
      BY <1>12, <3>3 DEF InHand
    <3> QED BY <1>13, <1>14, <3>1, <3>2, <3>3 DEF Held
  <2> QED BY <1>1, <1>8, <2>1 DEF Heard, KeepsStr
<1>15. \A s \in Ids : Steady(s)
  BY <1>1, <1>8 DEF Steady, KeepsStr
<1>16. AnswerInv'
  BY <1>9, <1>10, <1>14, <1>15, SchedItems, VoiceKept DEF PromiseInv
<1> QED BY <1>11, <1>16 DEF PromiseInv

-----------------------------------------------------------------------------
(* The loop takes a frame.                                                 *)
LEMMA StartItems ==
    ASSUME ServerInv, At("loop"), NEW f, Start(f), UNCHANGED phase
    PROVE  \E items : Tidy(items) /\ Grow(items) /\ 1 \in 1 .. Len(items) /\ items[1] = <<"start", f>>
<1> DEFINE c == <<"start", f>>
           d == Head(todo)
<1>1. c[1] = "start" /\ d[1] = "loop" /\ todo # <<>>
  BY LoopHead
<1>2. todo' = <<c>> \o todo /\ todo = <<d>> \o Tail(todo) /\ IsSeq(Tail(todo))
  BY <1>1, HeadBack, TailSeq DEF Start
<1> HIDE DEF c, d
<1>3. PICK a : a = <<c>>
  OBVIOUS
<1>4. PICK b : b = <<d>>
  OBVIOUS
<1>5. Tidy(a) /\ Tidy(b) /\ IsSeq(a) /\ IsSeq(b) /\ Len(a) = 1 /\ a[1] = c
  <2>1. Tidy(a) /\ Tidy(b)
    BY <1>1, <1>3, <1>4, TidyOne
  <2> QED BY <1>3, <2>1, TidyParts, OneIs
<1> DEFINE items == a \o b
           t == Tail(todo)
<1>6. Tidy(items)
  BY <1>5, TidyConcat
<1>7. 1 \in 1 .. Len(items) /\ items[1] = c
  <2>1. 1 \in 1 .. Len(a)
    BY <1>5
  <2>2. \A i \in 1 .. Len(a) : i \in 1 .. Len(a \o b) /\ (a \o b)[i] = a[i]
    BY <1>5, ConcatSeq
  <2> QED BY <1>5, <2>1, <2>2
<1>8. todo' = items \o t
  <2>1. PICK A : a \in Seq(A)
    BY <1>5 DEF IsSeq
  <2>2. PICK B : b \in Seq(B)
    BY <1>5 DEF IsSeq
  <2>3. PICK T : t \in Seq(T)
    BY <1>2 DEF IsSeq
  <2> DEFINE U == A \cup B \cup T
  <2>4. a \in Seq(U) /\ b \in Seq(U) /\ t \in Seq(U)
    BY <2>1, <2>2, <2>3
  <2> HIDE DEF t, U
  <2>5. (a \o b) \o t = a \o (b \o t)
    BY <2>4, ConcatAssociative
  <2> QED BY <1>2, <1>3, <1>4, <2>5 DEF t
<1> HIDE DEF items
<1>9. Grow(items)
  BY <1>1, <1>8 DEF Grow
<1> QED BY <1>6, <1>7, <1>9 DEF c

LEMMA StartQuietly == ASSUME ServerInv, At("loop"), NEW f, Start(f), UNCHANGED phase PROVE Quietly
BY StartItems DEF Quietly

LEMMA LoopOwnPromise ==
    ASSUME ServerInv, ServerInv', PromiseInv, LoopOwn PROVE PromiseInv'
<1> DEFINE g == [Ctl("goaway", 0) EXCEPT !.n = sc.maxClient]
<1>1. /\ At("loop") /\ UNCHANGED <<phase, str, out, h, chans>>
      /\ \/ sc' = [sc EXCEPT !.needGoAway = FALSE] /\ Start(g)
         \/ sc' = [sc EXCEPT !.needAck = FALSE] /\ Start(Ctl("ack", 0))
  BY DEF LoopOwn
<1> HIDE DEF g
<1>2. Silent
  BY <1>1, SilentCall DEF Voices
<1>3. Quietly
  BY <1>1, StartQuietly
<1>4. KeepsWin(sc')
  BY <1>1, WinSame
<1> QED BY <1>1, <1>2, <1>3, <1>4, SameAll, SameRest, CallPromise

LEMMA LoopControlPromise ==
    ASSUME ServerInv, ServerInv', PromiseInv, LoopControl PROVE PromiseInv'
<1> DEFINE x == Tail(out.ctl)
           f == Head(out.ctl)
<1>1. /\ At("loop") /\ UNCHANGED <<phase, sc, str, h, chans>> /\ Start(f)
      /\ out' = [out EXCEPT !.ctl = x, !.queued = @ - 1] /\ out \in Outs
  BY Facts DEF LoopControl, OutOK
<1> HIDE DEF x, f
<1>2. Silent
  BY <1>1, SilentCall DEF Voices
<1>3. Quietly
  BY <1>1, StartQuietly
<1>4. KeepsHand
  BY <1>1 DEF KeepsHand, Outs
<1>5. KeepsMail
  BY <1>1, MailSame DEF PromiseInv
<1> QED BY <1>1, <1>2, <1>3, <1>4, <1>5, SameAll, SameRest, PromiseKept

LEMMA PrependKeeps ==
    ASSUME NEW c, NEW t, IsSeq(t), NEW x, x = <<c>> \o t
    PROVE  /\ \A i \in 1 .. Len(t) : \E j \in 1 .. Len(x) : x[j] = t[i]
           /\ \E j \in 1 .. Len(x) : x[j] = c
<1>1. PICK a : a = <<c>>
  OBVIOUS
<1>2. IsSeq(a) /\ Len(a) = 1 /\ a[1] = c /\ x = a \o t
  <2>1. a \in Seq({c}) /\ Len(a) = 1 /\ a[1] = c
    BY <1>1
  <2> QED BY <1>1, <2>1 DEF IsSeq
<1>3. \A i \in 1 .. Len(a) : i \in 1 .. Len(a \o t) /\ (a \o t)[i] = a[i]
  BY <1>2, ConcatSeq
<1>4. \A i \in 1 .. Len(t) : Len(a) + i \in 1 .. Len(a \o t) /\ (a \o t)[Len(a) + i] = t[i]
  BY <1>2, ConcatSeq
<1>5. 1 \in 1 .. Len(x) /\ x[1] = c
  BY <1>2, <1>3
<1> QED BY <1>2, <1>4, <1>5

LEMMA LoopStreamPromise ==
    ASSUME ServerInv, ServerInv', PromiseInv, NEW s \in Ids, LoopStream(s) PROVE PromiseInv'
<1> DEFINE q == out.q[s]
           f == Head(q)
           k == IF f.t = "data" /\ f.n > 0 THEN Min2(f.n, Room(s)) ELSE f.n
           e == f.end /\ k = f.n
           w == f.wait /\ k = f.n
           g == [f EXCEPT !.n = k, !.end = e, !.wait = w]
           rest == [f EXCEPT !.n = f.n - k]
           x == IF k = f.n THEN Tail(q) ELSE <<rest>> \o Tail(q)
<1>1. /\ At("loop") /\ todo # <<>> /\ UNCHANGED <<phase, h, chans>> /\ q # <<>>
  BY DEF LoopStream, Writable, At
<1>2. /\ out' = [out EXCEPT !.q[s] = x] /\ Start(g)
      /\ sc' = IF f.t = "data" THEN [sc EXCEPT !.cwin = @ - k] ELSE sc
      /\ str' = IF f.t = "data" THEN [str EXCEPT ![s].win = @ - k] ELSE str
  BY Zenon DEF LoopStream
<1>3. /\ out \in Outs /\ out.q \in [Ids -> Seq(OutFrames)] /\ q \in Seq(OutFrames)
      /\ \A i \in 1 .. Len(q) : q[i].s = s
  BY DEF ServerInv, Types, Outs, Frames
<1> HIDE DEF q
<1>4. /\ Tail(q) \in Seq(OutFrames) /\ f \in OutFrames /\ f.s = s /\ f = q[1]
      /\ \A i \in 1 .. Len(q) : i = 1 \/ \E j \in 1 .. Len(Tail(q)) : Tail(q)[j] = q[i]
  <2>1. /\ Len(q) \in Nat /\ Len(q) > 0 /\ f = q[1] /\ Len(Tail(q)) = Len(q) - 1
        /\ \A i \in 1 .. Len(q) - 1 : Tail(q)[i] = q[i + 1]
        /\ Tail(q) \in Seq(OutFrames)
    BY <1>1, <1>3
  <2>2. 1 \in 1 .. Len(q) /\ q[1] \in OutFrames
    BY <1>3, <2>1
  <2>3. ASSUME NEW i \in 1 .. Len(q), i # 1 PROVE \E j \in 1 .. Len(Tail(q)) : Tail(q)[j] = q[i]
    <3>1. i - 1 \in 1 .. Len(q) - 1 /\ i - 1 + 1 = i
      BY <2>1, <2>3
    <3>2. Tail(q)[i - 1] = q[i - 1 + 1]
      BY <2>1, <3>1
    <3> QED BY <2>1, <3>1, <3>2
  <2> HIDE DEF f
  <2> QED BY <1>3, <2>1, <2>2, <2>3
<1> HIDE DEF f, k
<1>5. g.s = s /\ g.wait = w /\ rest.wait = f.wait
  <2> HIDE DEF e, w
  <2> QED BY <1>4 DEF OutFrames
<1> HIDE DEF g, rest
<1>6. /\ \A i \in 1 .. Len(q) : i = 1 \/ \E j \in 1 .. Len(x) : x[j] = q[i]
      /\ k # f.n => \E j \in 1 .. Len(x) : x[j] = rest
  <2>0. PICK t : t = Tail(q)
    OBVIOUS
  <2>1. CASE k = f.n
    <3>1. x = t
      BY <2>0, <2>1
    <3> HIDE DEF x
    <3> QED BY <1>4, <2>0, <2>1, <3>1
  <2>2. CASE k # f.n
    <3>1. x = <<rest>> \o t
      BY <2>0, <2>2
    <3>2. PICK y : y = x
      OBVIOUS
    <3>3. PICK c : c = rest
      OBVIOUS
    <3>4. IsSeq(t) /\ y = <<c>> \o t
      BY <1>4, <2>0, <3>1, <3>2, <3>3 DEF IsSeq
    <3> HIDE DEF x
    <3>5. /\ \A i \in 1 .. Len(t) : \E j \in 1 .. Len(y) : y[j] = t[i]
          /\ \E j \in 1 .. Len(y) : y[j] = c
      BY <3>4, PrependKeeps
    <3>6. \E j \in 1 .. Len(x) : x[j] = rest
      BY <3>2, <3>3, <3>5
    <3>7. ASSUME NEW i \in 1 .. Len(q), i # 1 PROVE \E j \in 1 .. Len(x) : x[j] = q[i]
      <4>1. PICK a \in 1 .. Len(t) : t[a] = q[i]
        BY <1>4, <2>0, <3>7
      <4>2. PICK j \in 1 .. Len(y) : y[j] = t[a]
        BY <3>5
      <4> QED BY <3>2, <4>1, <4>2
    <3> QED BY <3>6, <3>7
  <2> QED BY <2>1, <2>2
<1> HIDE DEF x
<1>7. out'.cur = out.cur /\ out'.q[s] = x /\ \A u \in Ids : u # s => out'.q[u] = out.q[u]
  BY <1>2, <1>3 DEF Outs
<1>8. KeepsStr(str') /\ KeepsLen(str') /\ SameLive(str') /\ KeepsWin(sc')
  <2> DEFINE a == sc.cwin - k
             b == str[s].win - k
  <2>1. UNCHANGED <<sc, str>> \/ (sc' = [sc EXCEPT !.cwin = a] /\ str' = [str EXCEPT ![s].win = b])
    BY <1>2
  <2> HIDE DEF a, b
  <2>2. CASE UNCHANGED <<sc, str>>
    BY <2>2, SameAll, SameRest
  <2>3. CASE sc' = [sc EXCEPT !.cwin = a] /\ str' = [str EXCEPT ![s].win = b]
    BY <2>3, StrSame, LiveKept, WinSame
  <2> QED BY <2>1, <2>2, <2>3
<1>9. KeepsMail /\ KeepsPc(h') /\ KeepsRead(h')
  BY <1>1, MailSame, SameRest DEF PromiseInv
<1>10. PICK items : Tidy(items) /\ Grow(items) /\ 1 \in 1 .. Len(items) /\ items[1] = <<"start", g>>
  BY <1>1, <1>2, StartItems
<1>11. Neat(items) /\ IsSeq(items) /\ Owes(items, 0)
  BY <1>10, TidyParts
<1>12. Head(todo)[1] = "loop"
  BY <1>1, LoopHead
<1>13. Orderly'
  BY <1>9, <1>10, <1>11, NeatKept DEF PromiseInv, AnswerInv, KeepsMail
<1>14. BytesInv'
  <2>1. Given(Head(todo)) = 0
    BY <1>12 DEF Given
  <2> QED BY <1>8, <1>9, <1>10, <1>11, <2>1, BytesKept DEF PromiseInv
<1>15. ASSUME NEW u \in Ids, phase' = "serving" PROVE Heard(u)
  <2>1. ~Carries(Head(todo), u)
    BY <1>12 DEF Carries
  <2>2. Queued(u) => InHand(u)'
    <3>1. CASE u # s
      BY <1>7, <3>1 DEF Queued, InHand
    <3>2. CASE u = s /\ Queued(u)
      <4>1. PICK i \in 1 .. Len(q) : q[i].wait
        BY <3>2 DEF Queued, q
      <4>2. CASE \E j \in 1 .. Len(x) : x[j] = q[i]
        BY <1>7, <3>2, <4>1, <4>2 DEF Queued, InHand
      <4>3. CASE i = 1 /\ k # f.n
        BY <1>4, <1>5, <1>6, <1>7, <3>2, <4>1, <4>3 DEF Queued, InHand
      <4>4. CASE i = 1 /\ k = f.n
        <5>1. g.s = u /\ g.wait
          BY <1>4, <1>5, <3>2, <4>1, <4>4
        <5>2. Carries(<<"start", g>>, u)
          BY <5>1 DEF Carries
        <5> QED BY <1>10, <1>11, <1>15, <5>2, CalledKeeps
      <4> QED BY <1>6, <4>1, <4>2, <4>3, <4>4
    <3> QED BY <3>1, <3>2
  <2>3. Held(u) => InHand(u)'
    <3>1. CASE Asked(u) \/ Pushing(u)
      BY <1>9, <3>1 DEF KeepsMail, InHand
    <3>2. CASE Writing(u)
      BY <1>7, <3>2 DEF Writing, InHand
    <3> QED BY <2>1, <2>2, <3>1, <3>2 DEF Held
  <2> QED BY <1>1, <1>8, <1>12, <2>3 DEF Heard, KeepsStr
<1>16. \A u \in Ids : Steady(u)
  BY <1>1, <1>8 DEF Steady, KeepsStr
<1>17. AnswerInv'
  BY <1>10, <1>11, <1>13, <1>15, <1>16, VoiceKept DEF PromiseInv
<1> QED BY <1>14, <1>17 DEF PromiseInv

-----------------------------------------------------------------------------
(* A frame that is being written, and the answers to handlers.             *)
LEMMA HeardKept ==
    ASSUME NEW s \in Ids, KeepsStr(str'), KeepsPc(h'), KeepsMail, todo = <<>> \/ Head(todo)[1] # "closeRest",
           Queued(s) => InHand(s)' \/ Told(s)',
           Writing(s) => InHand(s)' \/ Told(s)',
           todo # <<>> /\ Carries(Head(todo), s) => InHand(s)' \/ Told(s)'
    PROVE  Heard(s) /\ Steady(s)
<1>1. Asked(s) \/ Pushing(s) => InHand(s)'
  BY DEF KeepsMail, InHand
<1>2. Held(s) => InHand(s)' \/ Told(s)'
  BY <1>1 DEF Held
<1> QED BY <1>2 DEF Heard, Steady, KeepsStr, KeepsPc

LEMMA BytesEqual ==
    ASSUME \A s \in Ids : (IF live(s)' THEN str'[s].len ELSE 0) = (IF live(s) THEN str[s].len ELSE 0),
           \A s \in Ids : h'[s].n = h[s].n, KeepsWin(sc')
    PROVE  HeldBytes' = HeldBytes
<1>1. Buffer' = Buffer
  BY DEF Buffer
<1>2. Reading' = Reading
  BY DEF Reading
<1> QED BY <1>1, <1>2 DEF HeldBytes, KeepsWin

LEMMA NoneWritten ==
    ASSUME ServerInv, StreamInv, AnswerInv, todo # <<>>, Head(todo)[1] # "wrote", phase = "serving", ~out.async
    PROVE  out.cur = None
<1>1. \A i \in 1 .. Len(todo) : todo[i][1] # "wrote"
  BY TailSeq DEF AnswerInv, Orderly
<1> QED BY <1>1 DEF StreamInv, LoopInv, Current

LEMMA LoopFlushPromise ==
    ASSUME ServerInv, ServerInv', StreamInv, PromiseInv, LoopFlush PROVE PromiseInv'
<1> DEFINE x == Ctl("flush", 0)
<1>1. /\ At("loop") /\ UNCHANGED <<phase, todo, sc, str, h, chans>> /\ ~out.async
      /\ out' = [out EXCEPT !.cur = x, !.async = TRUE, !.flush = FALSE]
  BY DEF LoopFlush
<1>2. out'.q = out.q
  <2>1. out \in Outs
    BY Facts DEF OutOK
  <2> HIDE DEF x
  <2> QED BY <1>1, <2>1 DEF Outs
<1>3. todo # <<>> /\ Head(todo)[1] = "loop"
  BY <1>1, LoopHead
<1>4. PICK items : items = <<Head(todo)>>
  OBVIOUS
<1>5. Tidy(items) /\ Grow(items)
  <2>1. Tidy(items)
    BY <1>3, <1>4, TidyOne
  <2>2. todo' = items \o Tail(todo)
    BY <1>1, <1>3, <1>4, HeadBack
  <2> QED BY <1>1, <1>3, <2>1, <2>2 DEF Grow
<1>6. Neat(items) /\ IsSeq(items) /\ Owes(items, 0)
  BY <1>5, TidyParts
<1>7. KeepsMail /\ KeepsStr(str') /\ KeepsLen(str') /\ SameLive(str') /\ KeepsPc(h') /\ KeepsRead(h') /\ KeepsWin(sc')
  BY <1>1, MailSame, SameAll, SameRest DEF PromiseInv
<1>8. Orderly'
  BY <1>5, <1>6, <1>7, NeatKept DEF PromiseInv, AnswerInv, KeepsMail
<1>9. BytesInv'
  <2>1. Given(Head(todo)) = 0
    BY <1>3 DEF Given
  <2> QED BY <1>5, <1>6, <1>7, <2>1, BytesKept DEF PromiseInv
<1>10. ASSUME NEW s \in Ids PROVE Steady(s) /\ (phase' = "serving" => Heard(s))
  <2>1. ~Carries(Head(todo), s)
    BY <1>3 DEF Carries
  <2>2. Steady(s)
    BY <1>1 DEF Steady
  <2>3. CASE phase' = "serving"
    <3>1. ~Writing(s)
      BY <1>1, <1>3, <2>3, NoneWritten DEF PromiseInv, Writing
    <3>2. Queued(s) => InHand(s)'
      BY <1>2 DEF Queued, InHand
    <3> QED BY <1>3, <1>7, <2>1, <3>1, <3>2, HeardKept
  <2> QED BY <2>2, <2>3
<1>11. AnswerInv'
  BY <1>5, <1>6, <1>8, <1>10, VoiceKept DEF PromiseInv
<1> QED BY <1>9, <1>11 DEF PromiseInv

(* The assertion of startFrameWrite fails.                                 *)
LEMMA StartPanicPromise ==
    ASSUME ServerInv, ServerInv', PromiseInv, At("start"), Panic, UNCHANGED <<sc, str, out, h, chans>>
    PROVE  PromiseInv'
<1>1. Grow(<<>>) /\ Tidy(<<>>) /\ IsSeq(<<>>) /\ Owes(<<>>, 0) /\ Neat(<<>>) /\ phase' # "serving"
  BY PanicGrows, NoItems DEF Panic
<1>2. KeepsMail /\ KeepsStr(str') /\ KeepsLen(str') /\ SameLive(str') /\ KeepsPc(h') /\ KeepsRead(h') /\ KeepsWin(sc')
  BY MailSame, SameAll, SameRest DEF PromiseInv
<1>3. Orderly'
  BY <1>1, <1>2, NeatKept DEF PromiseInv, AnswerInv, KeepsMail
<1>4. \A s \in Ids : Steady(s)
  BY DEF Steady
<1>5. AnswerInv'
  BY <1>1, <1>3, <1>4, VoiceKept DEF PromiseInv
<1>6. Given(Head(todo)) = 0
  BY DEF At, Given
<1>7. BytesInv'
  BY <1>1, <1>2, <1>6, BytesKept DEF PromiseInv
<1> QED BY <1>5, <1>7 DEF PromiseInv

LEMMA startFrameWritePromise ==
    ASSUME ServerInv, ServerInv', PromiseInv, startFrameWrite PROVE PromiseInv'
<1> DEFINE f == arg
           c == <<"wrote", f, "ok">>
<1>1. /\ At("start") /\ todo # <<>> /\ Head(todo)[1] = "start" /\ Head(todo)[2] = f
      /\ UNCHANGED <<sc, str, h, chans>>
  BY DEF startFrameWrite, At, arg
<1>2. \/ Panic /\ UNCHANGED out
      \/ /\ out.cur = None /\ UNCHANGED phase
         /\ \/ Then(<<c>>) /\ out' = [out EXCEPT !.cur = f, !.flush = TRUE]
            \/ Then(<<>>) /\ out' = [out EXCEPT !.cur = f, !.flush = TRUE, !.async = TRUE]
  BY Zenon DEF startFrameWrite, BadStart
<1>3. CASE Panic /\ UNCHANGED out
  BY <1>1, <1>3, StartPanicPromise
<1>4. c[1] = "wrote" /\ c[2] = f
  OBVIOUS
<1>5. f # None /\ out \in Outs
  BY <1>1, ArgFrame, NoneAssumption, Facts DEF OutOK
<1> HIDE DEF f, c
<1>6. CASE ~(Panic /\ UNCHANGED out)
  <2>1. out'.cur = f /\ out'.q = out.q
    <3>1. CASE out' = [out EXCEPT !.cur = f, !.flush = TRUE]
      BY <1>5, <3>1 DEF Outs
    <3>2. CASE out' = [out EXCEPT !.cur = f, !.flush = TRUE, !.async = TRUE]
      BY <1>5, <3>2 DEF Outs
    <3> QED BY <1>2, <1>6, <3>1, <3>2
  <2>2. PICK items : Then(items) /\ items \in {<<c>>, <<>>}
    BY <1>2, <1>6
  <2>3. \A i \in 1 .. Len(items) : i = 1 /\ items[i] = c
    <3>1. CASE items = <<c>>
      <4>1. PICK d : d = c
        OBVIOUS
      <4>2. Len(items) = 1 /\ items[1] = d
        BY <3>1, <4>1
      <4> QED BY <4>1, <4>2
    <3>2. CASE items = <<>>
      BY <3>2, NoneIs
    <3> QED BY <2>2, <3>1, <3>2
  <2>4. IsSeq(items)
    <3>1. PICK d : d = c
      OBVIOUS
    <3>2. <<d>> \in Seq({d}) /\ <<>> \in Seq({d})
      OBVIOUS
    <3> QED BY <2>2, <3>1, <3>2 DEF IsSeq
  <2>5. Owes(items, 0)
    <3>1. Given(c) = 0
      BY <1>4 DEF Given
    <3> QED BY <2>3, <2>4, <3>1, OwesNone
  <2>6. Grow(items) /\ UNCHANGED phase
    BY <1>1, <1>2, <1>6, <2>2, ThenGrows
  <2>7. KeepsMail /\ KeepsStr(str') /\ KeepsLen(str') /\ SameLive(str') /\ KeepsPc(h') /\ KeepsRead(h') /\ KeepsWin(sc')
    BY <1>1, MailSame, SameAll, SameRest DEF PromiseInv
  <2>8. Orderly'
    <3>1. \A i \in 1 .. Len(items) :
              /\ items[i][1] = "wrote" => i = 1 /\ items[i][2] = out'.cur
              /\ items[i][1] = "write" => Patient(items[i][2])
      BY <1>4, <2>1, <2>3
    <3> QED BY <2>4, <2>6, <2>7, <3>1, OrderlyKept DEF PromiseInv, AnswerInv, KeepsMail
  <2>9. BytesInv'
    <3>1. Given(Head(todo)) = 0
      BY <1>1 DEF Given
    <3> QED BY <2>4, <2>5, <2>6, <2>7, <3>1, BytesKept DEF PromiseInv
  <2>10. ASSUME NEW s \in Ids PROVE Steady(s) /\ Heard(s)
    <3>1. ~Writing(s)
      BY <1>2, <1>6 DEF Writing
    <3>2. Queued(s) => InHand(s)'
      BY <2>1 DEF Queued, InHand
    <3>3. Carries(Head(todo), s) => InHand(s)'
      BY <1>1, <1>5, <2>1 DEF Carries, Writing, InHand
    <3> QED BY <1>1, <2>7, <3>1, <3>2, <3>3, HeardKept
  <2>11. AnswerInv'
    BY <2>4, <2>6, <2>8, <2>10, VoiceKept DEF PromiseInv
  <2> QED BY <2>9, <2>11 DEF PromiseInv
<1> QED BY <1>2, <1>3, <1>6

LEMMA replyToWriterPromise ==
    ASSUME ServerInv, ServerInv', PromiseInv, replyToWriter PROVE PromiseInv'
<1> DEFINE f == arg
<1>1. /\ todo # <<>> /\ Head(todo)[1] = "reply" /\ Head(todo)[2] = f /\ Then(<<>>)
      /\ UNCHANGED <<phase, sc, str, out, chans>>
      /\ h' = IF f.wait /\ h[f.s].pc = "wait" THEN [h EXCEPT ![f.s].done = TRUE] ELSE h
  BY DEF replyToWriter, At, arg
<1>2. h \in [Ids -> HandlerRecs]
  BY Facts
<1> HIDE DEF f
<1>3. /\ \A s \in Ids : h'[s].pc = h[s].pc /\ h'[s].n = h[s].n /\ (h[s].done => h'[s].done)
      /\ \A s \in Ids : f.wait /\ f.s = s /\ h[s].pc = "wait" => h'[s].done
  BY <1>1, <1>2 DEF HandlerRecs
<1>4. KeepsPc(h') /\ KeepsRead(h')
  BY <1>3 DEF KeepsPc, KeepsRead
<1>5. Grow(<<>>) /\ Tidy(<<>>) /\ IsSeq(<<>>) /\ Owes(<<>>, 0) /\ Neat(<<>>)
  BY <1>1, ThenGrows, NoItems
<1>6. KeepsMail /\ KeepsStr(str') /\ KeepsLen(str') /\ SameLive(str') /\ KeepsWin(sc')
  BY <1>1, MailSame, SameAll, SameRest DEF PromiseInv
<1>7. Orderly'
  BY <1>5, <1>6, NeatKept DEF PromiseInv, AnswerInv, KeepsMail
<1>8. BytesInv'
  <2>1. Given(Head(todo)) = 0
    BY <1>1 DEF Given
  <2> QED BY <1>4, <1>5, <1>6, <2>1, BytesKept DEF PromiseInv
<1>9. ASSUME NEW s \in Ids PROVE Steady(s) /\ Heard(s)
  <2>1. Held(s) /\ h[s].pc = "wait" => InHand(s)' \/ Told(s)'
    <3>1. Carries(Head(todo), s) /\ h[s].pc = "wait" => Told(s)'
      BY <1>1, <1>3 DEF Carries, Told
    <3>2. Queued(s) \/ Writing(s) => InHand(s)'
      BY <1>1 DEF Queued, Writing, InHand
    <3>3. Asked(s) \/ Pushing(s) => InHand(s)'
      BY <1>6 DEF KeepsMail, InHand
    <3> QED BY <3>1, <3>2, <3>3 DEF Held
  <2> QED BY <1>1, <1>3, <2>1 DEF Heard, Steady
<1>10. AnswerInv'
  BY <1>5, <1>7, <1>9, VoiceKept DEF PromiseInv
<1> QED BY <1>8, <1>10 DEF PromiseInv

-----------------------------------------------------------------------------
(* A stream and its handler that are new.                                  *)
LEMMA FreshBytes ==
    ASSUME ServerInv, ServerInv', BytesInv, NEW s \in Ids, h[s].pc = "none", ~live(s),
           \A u \in Ids : u # s => str'[u] = str[u] /\ h'[u] = h[u],
           str'[s].len = 0, h'[s].n = 0, KeepsWin(sc'),
           NEW items, IsSeq(items), Owes(items, 0), Grow(items), todo = <<>> \/ Given(Head(todo)) = 0
    PROVE  BytesInv'
<1>1. \A u \in Ids : (IF live(u)' THEN str'[u].len ELSE 0) = (IF live(u) THEN str[u].len ELSE 0)
  BY DEF live
<1>2. h[s].n = 0
  BY DEF BytesInv
<1>3. \A u \in Ids : h'[u].n = h[u].n
  BY <1>2
<1>4. HeldBytes' = HeldBytes /\ HeldBytes \in Int
  BY <1>1, <1>3, BytesEqual, HeldParts
<1>5. HeldBytes' + 0 >= HeldBytes + 0
  BY <1>4
<1>6. \A u \in Ids : ~str'[u].body => str'[u].len = 0
  BY DEF BytesInv
<1>7. \A u \in Ids : h'[u].pc # "reading" => h'[u].n = 0
  BY DEF BytesInv
<1> QED BY <1>5, <1>6, <1>7, BytesStep

LEMMA FreshAnswers ==
    ASSUME NEW s \in Ids, str'[s].st \in {"open", "halfRemote"}, h'[s].pc # "wait"
    PROVE  Used(s)' /\ Answered(s)' /\ Closed(s)'
BY DEF Used, Answered, Closed

LEMMA startPushWritePromise ==
    ASSUME ServerInv, ServerInv', StreamInv, PromiseInv, startPushWrite PROVE PromiseInv'
<1> DEFINE f == arg
           p == sc.maxPush + 2
           r == NewStream("halfRemote", sc.swin)
           g == [NoHandler EXCEPT !.pc = "run"]
           i == sc.nPushed + 1
           k == sc.handlers + 1
<1>1. /\ At("start") /\ todo # <<>> /\ Head(todo)[1] = "start" /\ Head(todo)[2] = f /\ UNCHANGED chans
  BY DEF startPushWrite, At, arg
<1>2. \/ Panic /\ UNCHANGED <<sc, str, h, out>>
      \/ Then(<<<<"reply", f>>>>) /\ UNCHANGED <<phase, sc, str, h, out>>
      \/ /\ p \in Ids /\ out.cur = None
         /\ sc' = [sc EXCEPT !.maxPush = p, !.nPushed = i, !.handlers = k]
         /\ str' = [str EXCEPT ![p] = r]
         /\ h' = [h EXCEPT ![p] = g]
         /\ out' = [out EXCEPT !.cur = f, !.flush = TRUE, !.async = TRUE]
         /\ Then(<<>>) /\ UNCHANGED phase
  BY Zenon DEF startPushWrite, BadStart
<1>3. CASE Panic /\ UNCHANGED <<sc, str, h, out>>
  BY <1>1, <1>3, StartPanicPromise
<1>4. f # None
  BY <1>1, ArgFrame, NoneAssumption
<1>5. Given(Head(todo)) = 0
  BY <1>1 DEF Given
<1>6. CASE Then(<<<<"reply", f>>>>) /\ UNCHANGED <<phase, sc, str, h, out>>
  <2>1. PICK items : items = <<<<"reply", f>>>>
    OBVIOUS
  <2>2. Tidy(items) /\ Grow(items)
    BY <1>1, <1>6, <2>1, TidyOne, ThenGrows
  <2>3. Neat(items) /\ IsSeq(items) /\ Owes(items, 0)
    BY <2>2, TidyParts
  <2>4. KeepsMail /\ KeepsStr(str') /\ KeepsLen(str') /\ SameLive(str') /\ KeepsPc(h') /\ KeepsRead(h') /\ KeepsWin(sc')
    BY <1>1, <1>6, MailSame, SameAll, SameRest DEF PromiseInv
  <2>5. Orderly'
    BY <2>2, <2>3, <2>4, NeatKept DEF PromiseInv, AnswerInv, KeepsMail
  <2>6. BytesInv'
    BY <1>5, <2>2, <2>3, <2>4, BytesKept DEF PromiseInv
  <2>7. ASSUME NEW s \in Ids PROVE Steady(s) /\ (phase' = "serving" => Heard(s))
    <3>1. Queued(s) \/ Writing(s) => InHand(s)'
      BY <1>6 DEF Queued, Writing, InHand
    <3>2. phase' = "serving" /\ Carries(Head(todo), s) => InHand(s)'
      <4> SUFFICES ASSUME phase' = "serving", Carries(Head(todo), s) PROVE InHand(s)'
        OBVIOUS
      <4>1. Carries(<<"reply", f>>, s)
        BY <1>1 DEF Carries
      <4>2. 1 \in 1 .. Len(items) /\ items[1] = <<"reply", f>>
        BY <2>1
      <4> QED BY <2>2, <2>3, <4>1, <4>2, CalledKeeps
    <3>3. Steady(s)
      BY <1>6 DEF Steady
    <3> QED BY <1>1, <2>4, <3>1, <3>2, <3>3, HeardKept
  <2>8. AnswerInv'
    BY <2>2, <2>3, <2>5, <2>7, VoiceKept DEF PromiseInv
  <2> QED BY <2>6, <2>8 DEF PromiseInv
<1>7. CASE /\ p \in Ids /\ out.cur = None
           /\ sc' = [sc EXCEPT !.maxPush = p, !.nPushed = i, !.handlers = k]
           /\ str' = [str EXCEPT ![p] = r]
           /\ h' = [h EXCEPT ![p] = g]
           /\ out' = [out EXCEPT !.cur = f, !.flush = TRUE, !.async = TRUE]
           /\ Then(<<>>) /\ UNCHANGED phase
  <2>1. /\ sc \in Conns /\ sc.maxPush \in Nat /\ ~Odd(sc.maxPush)
        /\ out \in Outs /\ str \in [Ids -> StreamRecs] /\ h \in [Ids -> HandlerRecs]
    BY DEF ServerInv, Types, Conns
  <2>2. p \in Nat /\ ~Odd(p) /\ p > sc.maxPush
    BY <2>1 DEF Odd
  <2>3. h[p].pc = "none" /\ ~live(p)
    BY <1>7, <2>1, <2>2 DEF StreamInv, CountInv, Pushed
  <2>4. r.st = "halfRemote" /\ r.len = 0 /\ g.pc = "run" /\ g.n = 0
    BY DEF NewStream, NoStream, NoHandler
  <2> HIDE DEF p, r, g, i, k, f
  <2>5. /\ \A u \in Ids : u # p => str'[u] = str[u] /\ h'[u] = h[u]
        /\ str'[p] = r /\ h'[p] = g
    BY <1>7, <2>1
  <2>6. KeepsWin(sc')
    BY <1>7, <2>1 DEF Conns, KeepsWin
  <2>7. out'.cur = f /\ out'.q = out.q
    BY <1>7, <2>1 DEF Outs
  <2>8. Grow(<<>>) /\ IsSeq(<<>>) /\ Owes(<<>>, 0) /\ Neat(<<>>)
    BY <1>1, <1>7, ThenGrows, NoItems
  <2>9. KeepsMail
    BY <1>1, MailSame DEF PromiseInv
  <2>10. Orderly'
    BY <2>8, <2>9, NeatKept DEF PromiseInv, AnswerInv, KeepsMail
  <2>11. BytesInv'
    BY <1>5, <1>7, <2>3, <2>4, <2>5, <2>6, <2>8, FreshBytes DEF PromiseInv
  <2>12. PICK x \in Ids : x = p
    BY <1>7
  <2>13. Used(x)' /\ Answered(x)' /\ Closed(x)'
    <3>1. str'[x].st \in {"open", "halfRemote"} /\ h'[x].pc # "wait"
      BY <2>4, <2>5, <2>12
    <3> QED BY <3>1, FreshAnswers
  <2>14. ASSUME NEW s \in Ids, s # x PROVE Steady(s) /\ Heard(s)
    <3>1. str'[s] = str[s] /\ h'[s] = h[s]
      BY <2>5, <2>12, <2>14
    <3>2. Asked(s) \/ Pushing(s) => InHand(s)'
      BY <2>9 DEF KeepsMail, InHand
    <3>3. ~Writing(s)
      BY <1>7 DEF Writing
    <3>4. Queued(s) => InHand(s)'
      BY <2>7 DEF Queued, InHand
    <3>5. Carries(Head(todo), s) => InHand(s)'
      BY <1>1, <1>4, <2>7 DEF Carries, Writing, InHand
    <3> QED BY <1>1, <3>1, <3>2, <3>3, <3>4, <3>5 DEF Steady, Heard, Held
  <2>15. \A s \in Ids : Used(s)' \/ Steady(s)
    BY <2>13, <2>14
  <2>16. \A s \in Ids : (Answered(s)' /\ Closed(s)') \/ Heard(s)
    BY <2>13, <2>14
  <2>17. AnswerInv'
    BY <2>8, <2>10, <2>15, <2>16, VoiceKept DEF PromiseInv
  <2> QED BY <2>11, <2>17 DEF PromiseInv
<1> QED BY <1>2, <1>3, <1>6, <1>7

LEMMA wroteFramePromise ==
    ASSUME ServerInv, ServerInv', PromiseInv, wroteFrame PROVE PromiseInv'
<1> DEFINE f == arg
           open == out.open /\ Head(todo)[3] = "ok"
           a == AfterWrite(f)
           b == <<<<"reply", f>>, Sched>>
           items == a \o b
<1>1. /\ todo # <<>> /\ Head(todo)[1] = "wrote" /\ Head(todo)[2] = f /\ UNCHANGED <<phase, sc, h, chans>>
      /\ out' = [out EXCEPT !.cur = None, !.async = FALSE, !.res = "none", !.open = open]
      /\ str' = (IF f.end /\ State(f) = "open" THEN [str EXCEPT ![f.s].st = "halfLocal"] ELSE str)
      /\ Then(items)
  BY DEF wroteFrame, At, arg
<1>2. out'.q = out.q
  <2>1. out \in Outs
    BY Facts DEF OutOK
  <2> HIDE DEF open
  <2> QED BY <1>1, <2>1 DEF Outs
<1>3. Tidy(a)
  <2>1. a = <<>> \/ a = <<<<"reset", f.s>>>> \/ a = <<<<"close", f.s>>>>
    BY DEF AfterWrite
  <2>2. Tidy(<<<<"reset", f.s>>>>) /\ Tidy(<<<<"close", f.s>>>>)
    BY TidyOne
  <2> HIDE DEF a
  <2> QED BY <2>1, <2>2, TidyEmpty
<1>4. Tidy(b) /\ b[1] = <<"reply", f>> /\ 1 \in 1 .. Len(b)
  <2>1. Tidy(b)
    BY TidyTwo DEF Sched
  <2> QED BY <2>1
<1>5. f = out.cur
  BY <1>1, TailSeq DEF PromiseInv, AnswerInv, Orderly
<1> HIDE DEF f, open, a, b
<1>6. Tidy(items) /\ \E j \in 1 .. Len(items) : items[j] = <<"reply", f>>
  <2>1. IsSeq(a) /\ IsSeq(b)
    BY <1>3, <1>4, TidyParts
  <2>2. \A j \in 1 .. Len(b) : Len(a) + j \in 1 .. Len(a \o b) /\ (a \o b)[Len(a) + j] = b[j]
    BY <2>1, ConcatSeq
  <2> QED BY <1>3, <1>4, <2>2, TidyConcat
<1> HIDE DEF items
<1>7. Neat(items) /\ IsSeq(items) /\ Owes(items, 0) /\ Grow(items)
  BY <1>1, <1>6, TidyParts, ThenGrows
<1>8. KeepsStr(str') /\ KeepsLen(str') /\ SameLive(str')
  <2>1. CASE str' = [str EXCEPT ![f.s].st = "halfLocal"] /\ State(f) = "open"
    <3>1. str \in [Ids -> StreamRecs] /\ f.s \in Ids /\ str[f.s].st = "open"
      BY <2>1, Facts DEF State
    <3>2. \A s \in Ids : /\ str'[s].st = IF s = f.s THEN "halfLocal" ELSE str[s].st
                         /\ str'[s].len = str[s].len /\ str'[s].body = str[s].body /\ str'[s].cw = str[s].cw
      BY <2>1, <3>1 DEF StreamRecs
    <3> QED BY <3>1, <3>2 DEF KeepsStr, KeepsLen, SameLive, live
  <2> QED BY <1>1, <2>1, SameAll, SameRest
<1>9. KeepsMail /\ KeepsPc(h') /\ KeepsRead(h') /\ KeepsWin(sc')
  BY <1>1, MailSame, SameRest DEF PromiseInv
<1>10. Orderly'
  BY <1>7, <1>9, NeatKept DEF PromiseInv, AnswerInv, KeepsMail
<1>11. BytesInv'
  <2>1. Given(Head(todo)) = 0
    BY <1>1 DEF Given
  <2> QED BY <1>7, <1>8, <1>9, <2>1, BytesKept DEF PromiseInv
<1>12. ASSUME NEW s \in Ids, phase' = "serving" PROVE Heard(s) /\ Steady(s)
  <2>1. ~Carries(Head(todo), s)
    BY <1>1 DEF Carries
  <2>2. Queued(s) => InHand(s)'
    BY <1>2 DEF Queued, InHand
  <2>3. Writing(s) => InHand(s)'
    <3> SUFFICES ASSUME Writing(s) PROVE InHand(s)'
      OBVIOUS
    <3>1. Carries(<<"reply", f>>, s)
      BY <1>5 DEF Carries, Writing
    <3> QED BY <1>6, <1>7, <1>12, <3>1, CalledKeeps
  <2> QED BY <1>1, <1>8, <1>9, <2>1, <2>2, <2>3, HeardKept
<1>13. \A s \in Ids : Steady(s)
  BY <1>1, <1>8 DEF Steady, KeepsStr
<1>14. AnswerInv'
  BY <1>7, <1>10, <1>12, <1>13, VoiceKept DEF PromiseInv
<1> QED BY <1>11, <1>14 DEF PromiseInv

-----------------------------------------------------------------------------
(* Streams are closed, and windows given back.                             *)
LEMMA CloseKeeps ==
    ASSUME ServerInv, ServerInv', NEW s \in Ids, live(s), str' = [str EXCEPT ![s].st = "closed"], UNCHANGED h, KeepsWin(sc')
    PROVE  /\ HeldBytes' + str[s].len >= HeldBytes /\ str[s].len \in Int
           /\ \A u \in Ids : /\ str'[u].st = IF u = s THEN "closed" ELSE str[u].st
                             /\ str'[u].len = str[u].len /\ str'[u].body = str[u].body /\ str'[u].cw = str[u].cw
<1>1. str \in [Ids -> StreamRecs]
  BY Facts
<1>2. \A u \in Ids : /\ str'[u].st = IF u = s THEN "closed" ELSE str[u].st
                     /\ str'[u].len = str[u].len /\ str'[u].body = str[u].body /\ str'[u].cw = str[u].cw
                     /\ str[u].len \in Int
  BY <1>1 DEF StreamRecs
<1>3. Buffer \in [Ids -> Int] /\ Buffer' \in [Ids -> Int]
  BY HeldParts, HeldPartsNext
<1>4. Buffer'[s] = 0 /\ Buffer[s] = str[s].len /\ \A u \in Ids \ {s} : Buffer'[u] = Buffer[u]
  BY <1>2 DEF Buffer, live
<1>5. Total(Buffer') = Total(Buffer) - Buffer[s] + Buffer'[s]
  BY <1>3, <1>4, TotalChanged
<1>6. Reading' = Reading
  BY DEF Reading
<1>7. PICK x \in Int, y \in Int, z \in Int, w \in Int, k \in Int :
         x = sc.avail /\ y = sc.unsent /\ z = Total(Buffer) /\ w = Total(Reading) /\ k = str[s].len
  BY <1>2, HeldParts
<1>8. HeldBytes = x + y + z + w
  BY <1>7 DEF HeldBytes
<1>9. HeldBytes' = x + y + (z - k + 0) + w
  BY <1>4, <1>5, <1>6, <1>7 DEF HeldBytes, KeepsWin
<1>10. HeldBytes' + str[s].len >= HeldBytes
  BY <1>7, <1>8, <1>9
<1> QED BY <1>2, <1>10

LEMMA closeStreamPromise ==
    ASSUME ServerInv, ServerInv', PromiseInv, closeStream PROVE PromiseInv'
<1>1. todo # <<>> /\ At("close") /\ Head(todo)[1] = "close" /\ UNCHANGED <<out, h, chans>>
  BY DEF closeStream, At
<1>2. arg \in Ids
  BY <1>1, ArgOK DEF arg, CallOK
<1>3. PICK s \in Ids : s = arg
  BY <1>2
<1> DEFINE a == IF liveIds = {s} /\ Ev("noKeepAlive") THEN <<<<"goAway", "no">>>> ELSE <<>>
           b == IF str[s].body THEN <<<<"window", 0, str[s].len>>>> ELSE <<>>
           c == <<<<"closeRest", s>>>>
           all == a \o b \o c
<1>4. \/ Panic /\ UNCHANGED <<sc, str>>
      \/ /\ str[s].st \notin {"idle", "closed"} /\ str' = [str EXCEPT ![s].st = "closed"]
         /\ sc' = Uncount(s) /\ Then(all) /\ UNCHANGED phase
  BY <1>3, Zenon DEF closeStream
<1>5. CASE Panic /\ UNCHANGED <<sc, str>>
  <2>1. Quietly
    BY <1>5, PanicQuietly
  <2>2. Silent
    BY <1>1, SilentCall DEF Voices
  <2> QED BY <1>1, <1>5, <2>1, <2>2, SameAll, SameRest, CallPromise
<1>6. CASE /\ str[s].st \notin {"idle", "closed"} /\ str' = [str EXCEPT ![s].st = "closed"]
           /\ sc' = Uncount(s) /\ Then(all) /\ UNCHANGED phase
  <2>1. live(s)
    <3>1. str \in [Ids -> StreamRecs]
      BY Facts
    <3> QED BY <1>6, <3>1 DEF StreamRecs, live
  <2>2. KeepsWin(sc')
    <3> DEFINE m == sc.nClient - 1
               n == sc.nPushed - 1
    <3>1. sc' = [sc EXCEPT !.nClient = m] \/ sc' = [sc EXCEPT !.nPushed = n]
      BY <1>6 DEF Uncount
    <3> HIDE DEF m, n
    <3> QED BY <3>1, WinSame
  <2>3. /\ HeldBytes' + str[s].len >= HeldBytes /\ str[s].len \in Int
        /\ \A u \in Ids : /\ str'[u].st = IF u = s THEN "closed" ELSE str[u].st
                          /\ str'[u].len = str[u].len /\ str'[u].body = str[u].body /\ str'[u].cw = str[u].cw
    BY <1>1, <1>6, <2>1, <2>2, CloseKeeps
  <2>4. PICK n \in Int : n = str[s].len
    BY <2>3
  <2>5. Neat(b) /\ Owes(b, n)
    <3>1. CASE str[s].body
      BY <2>4, <3>1, WindowOne
    <3>2. CASE ~str[s].body
      <4>1. n = 0
        BY <2>4, <3>2 DEF PromiseInv, BytesInv
      <4> QED BY <3>2, <4>1, NoItems
    <3> QED BY <3>1, <3>2
  <2>6. Tidy(a)
    BY TidyOne, TidyEmpty
  <2>7. PICK items : items = all
    OBVIOUS
  <2>8. /\ Neat(items) /\ IsSeq(items) /\ Owes(items, n)
        /\ \E j \in 1 .. Len(items) : items[j][1] = "closeRest" /\ items[j][2] = s
    <3>1. PICK x : x = a
      OBVIOUS
    <3>2. PICK y : y = b
      OBVIOUS
    <3>3. PICK z : z = <<<<"closeRest", s>>>>
      OBVIOUS
    <3>4. items = x \o y \o z
      BY <2>7, <3>1, <3>2, <3>3
    <3> HIDE DEF a, b, c, all
    <3>5. Tidy(x) /\ Neat(y) /\ Owes(y, n)
      BY <2>5, <2>6, <3>1, <3>2
    <3>6. Tidy(z) /\ Len(z) = 1 /\ z[1] = <<"closeRest", s>>
      <4>1. Tidy(z)
        BY <3>3, TidyOne
      <4> QED BY <3>3, <4>1
    <3>7. Neat(x) /\ IsSeq(x) /\ Owes(x, 0) /\ Neat(z) /\ IsSeq(z) /\ Owes(z, 0) /\ IsSeq(y)
      BY <3>5, <3>6, TidyParts DEF Neat
    <3>8. PICK d : d = x \o y
      OBVIOUS
    <3>9. Neat(d) /\ IsSeq(d) /\ Owes(d, n)
      <4>1. Owes(d, 0 + n)
        BY <3>5, <3>7, <3>8, OwesConcat
      <4>2. 0 + n = n
        OBVIOUS
      <4> QED BY <3>5, <3>7, <3>8, <4>1, <4>2, NeatConcat DEF Neat
    <3>10. items = d \o z
      BY <3>4, <3>8
    <3>11. Neat(items) /\ IsSeq(items) /\ Owes(items, n)
      <4>1. Owes(items, n + 0)
        BY <3>7, <3>9, <3>10, OwesConcat
      <4>2. n + 0 = n
        OBVIOUS
      <4> QED BY <3>7, <3>9, <3>10, <4>1, <4>2, NeatConcat DEF Neat
    <3>12. \A i \in 1 .. Len(z) : Len(d) + i \in 1 .. Len(d \o z) /\ (d \o z)[Len(d) + i] = z[i]
      BY <3>7, <3>9, ConcatSeq
    <3>13. 1 \in 1 .. Len(z)
      BY <3>6
    <3>14. Len(d) + 1 \in 1 .. Len(items) /\ items[Len(d) + 1] = <<"closeRest", s>>
      BY <3>6, <3>10, <3>12, <3>13
    <3> QED BY <3>11, <3>14
  <2>9. Grow(items)
    BY <1>1, <1>6, <2>7, ThenGrows
  <2> HIDE DEF a, b, c, all
  <2>10. KeepsMail
    BY <1>1, MailSame DEF PromiseInv
  <2>11. Orderly'
    BY <2>8, <2>9, <2>10, NeatKept DEF PromiseInv, AnswerInv, KeepsMail
  <2>12. BytesInv'
    <3>1. Given(Head(todo)) = 0
      BY <1>1 DEF Given
    <3>2. HeldBytes' + n >= HeldBytes + 0
      BY <2>3, <2>4, HeldParts
    <3>3. \A u \in Ids : ~str'[u].body => str'[u].len = 0
      BY <2>3 DEF PromiseInv, BytesInv
    <3>4. \A u \in Ids : h'[u].pc # "reading" => h'[u].n = 0
      BY <1>1 DEF PromiseInv, BytesInv
    <3> QED BY <1>1, <2>8, <2>9, <3>1, <3>2, <3>3, <3>4, BytesStep DEF PromiseInv
  <2>13. \A u \in Ids : Steady(u)
    BY <1>1, <2>3 DEF Steady
  <2>14. ASSUME NEW u \in Ids, phase' = "serving" PROVE Heard(u)
    <3>1. u = s => Closing(u)'
      BY <2>8, <2>9, <2>14, CalledKeeps
    <3>2. Held(u) => InHand(u)'
      <4>1. ~Carries(Head(todo), u)
        BY <1>1 DEF Carries
      <4>2. Queued(u) \/ Writing(u) => InHand(u)'
        BY <1>1 DEF Queued, Writing, InHand
      <4>3. Asked(u) \/ Pushing(u) => InHand(u)'
        BY <2>10 DEF KeepsMail, InHand
      <4> QED BY <4>1, <4>2, <4>3 DEF Held
    <3> QED BY <1>1, <2>3, <3>1, <3>2 DEF Heard
  <2>15. AnswerInv'
    BY <2>8, <2>9, <2>11, <2>13, <2>14, VoiceKept DEF PromiseInv
  <2> QED BY <2>12, <2>15 DEF PromiseInv
<1> QED BY <1>4, <1>5, <1>6

LEMMA closeStreamRestPromise ==
    ASSUME ServerInv, ServerInv', PromiseInv, closeStreamRest PROVE PromiseInv'
<1>1. /\ todo # <<>> /\ Head(todo)[1] = "closeRest" /\ UNCHANGED <<phase, sc, h, chans>> /\ Then(<<>>)
      /\ str' = [str EXCEPT ![arg].err = TRUE, ![arg].cw = TRUE]
      /\ out' = [out EXCEPT !.q[arg] = <<>>]
  BY DEF closeStreamRest, At
<1>2. arg \in Ids
  BY <1>1, ArgOK DEF arg, CallOK
<1>3. PICK s \in Ids : s = arg
  BY <1>2
<1>4. /\ out'.cur = out.cur
      /\ \A u \in Ids : u # s => out'.q[u] = out.q[u]
  <2>1. out \in Outs /\ out.q \in [Ids -> Seq(OutFrames)]
    BY Facts DEF OutOK, Outs
  <2> QED BY <1>1, <1>3, <2>1 DEF Outs
<1>5. KeepsStr(str') /\ KeepsLen(str') /\ SameLive(str')
  BY <1>1, StrSame, LiveKept
<1>6. str'[s].cw
  <2>1. str \in [Ids -> StreamRecs]
    BY Facts
  <2> QED BY <1>1, <1>3, <2>1 DEF StreamRecs
<1>7. Grow(<<>>) /\ KeepsMail /\ KeepsPc(h') /\ KeepsRead(h') /\ KeepsWin(sc')
  BY <1>1, ThenGrows, MailSame, SameRest DEF PromiseInv
<1>8. Orderly'
  BY <1>7, NoItems, NeatKept DEF PromiseInv, AnswerInv, KeepsMail
<1>9. BytesInv'
  <2>1. Given(Head(todo)) = 0
    BY <1>1 DEF Given
  <2> QED BY <1>5, <1>7, <2>1, NoItems, BytesKept DEF PromiseInv
<1>10. ASSUME NEW u \in Ids PROVE Heard(u) /\ Steady(u)
  <2>1. ~Carries(Head(todo), u)
    BY <1>1 DEF Carries
  <2>2. Queued(u) => InHand(u)' \/ Told(u)'
    BY <1>4, <1>6 DEF Queued, InHand, Told
  <2>3. Writing(u) => InHand(u)'
    BY <1>4 DEF Writing, InHand
  <2>4. Asked(u) \/ Pushing(u) => InHand(u)'
    BY <1>7 DEF KeepsMail, InHand
  <2>5. Head(todo)[1] = "closeRest" /\ Head(todo)[2] = u => str'[u].cw
    BY <1>3, <1>6 DEF arg
  <2>6. Held(u) => InHand(u)' \/ Told(u)'
    BY <2>1, <2>2, <2>3, <2>4 DEF Held
  <2> QED BY <1>1, <1>5, <2>5, <2>6 DEF Heard, Steady, KeepsStr
<1>11. AnswerInv'
  BY <1>7, <1>8, <1>10, NoItems, VoiceKept DEF PromiseInv
<1> QED BY <1>9, <1>11 DEF PromiseInv

LEMMA AddedSame ==
    ASSUME NEW w, w.avail \in Int, w.unsent \in Int, NEW n \in Int
    PROVE  Added(w, n).avail + Added(w, n).unsent = w.avail + w.unsent + n
BY DEF Added

LEMMA sendWindowUpdatePromise ==
    ASSUME ServerInv, ServerInv', PromiseInv, sendWindowUpdate PROVE PromiseInv'
<1> DEFINE a == Added(IF arg = 0 THEN sc ELSE str[arg], Head(todo)[3])
           all == IF a.send = 0 THEN <<>> ELSE <<<<"write", Ctl("wu", arg)>>>>
<1>1. /\ todo # <<>> /\ Head(todo)[1] = "window" /\ UNCHANGED <<phase, out, h, chans>> /\ Then(all)
      /\ sc' = IF arg = 0 THEN [sc EXCEPT !.avail = a.avail, !.unsent = a.unsent] ELSE sc
      /\ str' = IF arg = 0 THEN str ELSE [str EXCEPT ![arg].avail = a.avail, ![arg].unsent = a.unsent]
  BY DEF sendWindowUpdate, At
<1>2. Head(todo)[3] \in Int
  BY <1>1, ArgOK DEF CallOK
<1>3. PICK items : items = all
  OBVIOUS
<1>4. Tidy(items) /\ Grow(items)
  <2>1. Tidy(<<<<"write", Ctl("wu", arg)>>>>)
    BY TidyOne, PatientCtl
  <2>2. Tidy(items)
    BY <1>3, <2>1, TidyEmpty
  <2> QED BY <1>1, <1>3, <2>2, ThenGrows
<1>5. Neat(items) /\ IsSeq(items) /\ Owes(items, 0)
  BY <1>4, TidyParts
<1>6. KeepsStr(str') /\ KeepsLen(str') /\ SameLive(str')
  <2> HIDE DEF a, all
  <2>1. CASE str' = [str EXCEPT ![arg].avail = a.avail, ![arg].unsent = a.unsent]
    BY <2>1, StrSame, LiveKept
  <2> QED BY <1>1, <2>1, SameAll, SameRest
<1>7. CASE arg # 0
  <2>1. Silent
    BY <1>1, <1>7 DEF Silent, Voices, Given, arg
  <2>2. KeepsWin(sc')
    BY <1>1, <1>7, SameRest
  <2>3. Quietly
    BY <1>4 DEF Quietly
  <2> QED BY <1>1, <1>6, <2>1, <2>2, <2>3, CallPromise
<1>8. CASE arg = 0
  <2>1. PICK n \in Int : n = Head(todo)[3]
    BY <1>2
  <2>2. Given(Head(todo)) = n /\ Head(todo)[1] \notin Voices
    BY <1>1, <1>8, <2>1 DEF Given, Voices, arg
  <2>3. KeepsHand /\ KeepsMail /\ KeepsPc(h') /\ KeepsRead(h')
    BY <1>1, MailSame, SameRest DEF KeepsHand, PromiseInv
  <2>4. AnswerInv'
    BY <1>4, <1>5, <1>6, <2>2, <2>3, AnswerKept DEF PromiseInv
  <2>5. a = Added(sc, n)
    BY <1>8, <2>1
  <2>6. sc.avail \in Int /\ sc.unsent \in Int /\ sc \in Conns
    BY HeldParts, Facts DEF ConnKept
  <2>7. a.avail + a.unsent = sc.avail + sc.unsent + n
    BY <2>5, <2>6, AddedSame
  <2> HIDE DEF a, all
  <2>8. sc'.avail = a.avail /\ sc'.unsent = a.unsent
    BY <1>1, <1>8, <2>6 DEF Conns
  <2>9. HeldBytes' + 0 >= HeldBytes + n
    <3>1. Buffer' = Buffer
      BY <1>6 DEF Buffer, SameLive, KeepsLen, live
    <3>2. Reading' = Reading
      BY <1>1 DEF Reading
    <3>3. PICK x \in Int, y \in Int, z \in Int, w \in Int :
             x = sc.avail /\ y = sc.unsent /\ z = Total(Buffer) /\ w = Total(Reading)
      BY HeldParts
    <3>4. PICK p \in Int, q \in Int : p = sc'.avail /\ q = sc'.unsent
      BY HeldPartsNext
    <3>5. p + q = x + y + n
      BY <2>7, <2>8, <3>3, <3>4
    <3>6. HeldBytes = x + y + z + w
      BY <3>3 DEF HeldBytes
    <3>7. HeldBytes' = p + q + z + w
      BY <3>1, <3>2, <3>3, <3>4 DEF HeldBytes
    <3> QED BY <3>5, <3>6, <3>7
  <2>10. \A u \in Ids : ~str'[u].body => str'[u].len = 0
    BY <1>6 DEF PromiseInv, BytesInv, KeepsLen
  <2>11. \A u \in Ids : h'[u].pc # "reading" => h'[u].n = 0
    BY <1>1 DEF PromiseInv, BytesInv
  <2>12. BytesInv'
    <3>1. BytesInv /\ 0 \in Int
      BY DEF PromiseInv
    <3>2. todo # <<>> => n = Given(Head(todo))
      BY <2>2
    <3>3. todo = <<>> => n = 0
      BY <1>1
    <3> QED BY ZenonT(60), <1>4, <1>5, <2>9, <2>10, <2>11, <3>1, <3>2, <3>3, BytesStep
  <2> QED BY <2>4, <2>12 DEF PromiseInv
<1> QED BY <1>7, <1>8

LEMMA FreshPromise ==
    ASSUME ServerInv, ServerInv', PromiseInv, NEW s \in Ids, h[s].pc = "none", ~live(s), UNCHANGED <<out, chans>>,
           \A u \in Ids : u # s => str'[u] = str[u] /\ h'[u] = h[u],
           str'[s].st \in {"open", "halfRemote"}, str'[s].len = 0, h'[s].n = 0, h'[s].pc # "wait", KeepsWin(sc'),
           todo # <<>>, Head(todo)[1] \notin Voices, Given(Head(todo)) = 0, NEW items, Tidy(items), Grow(items)
    PROVE  PromiseInv'
<1>1. Neat(items) /\ IsSeq(items) /\ Owes(items, 0)
  BY TidyParts
<1>2. KeepsMail
  BY MailSame DEF PromiseInv
<1>3. Orderly'
  BY <1>1, <1>2, NeatKept DEF PromiseInv, AnswerInv, KeepsMail
<1>4. BytesInv'
  <2>1. BytesInv /\ (todo = <<>> \/ Given(Head(todo)) = 0)
    BY DEF PromiseInv
  <2> QED BY <1>1, <2>1, FreshBytes
<1>5. Used(s)' /\ Answered(s)' /\ Closed(s)'
  BY FreshAnswers
<1>6. ASSUME NEW u \in Ids, u # s PROVE Steady(u) /\ Heard(u)
  <2>1. str'[u] = str[u] /\ h'[u] = h[u]
    BY <1>6
  <2>2. ~Carries(Head(todo), u) /\ Head(todo)[1] # "closeRest"
    BY DEF Carries, Voices
  <2>3. Queued(u) \/ Writing(u) => InHand(u)'
    BY DEF Queued, Writing, InHand
  <2>4. Asked(u) \/ Pushing(u) => InHand(u)'
    BY <1>2 DEF KeepsMail, InHand
  <2> QED BY <2>1, <2>2, <2>3, <2>4 DEF Steady, Heard, Held
<1>7. \A u \in Ids : Used(u)' \/ Steady(u)
  BY <1>5, <1>6
<1>8. \A u \in Ids : (Answered(u)' /\ Closed(u)') \/ Heard(u)
  BY <1>5, <1>6
<1>9. AnswerInv'
  BY <1>1, <1>3, <1>7, <1>8, VoiceKept DEF PromiseInv
<1> QED BY <1>4, <1>9 DEF PromiseInv

LEMMA processHeadersPromise ==
    ASSUME ServerInv, ServerInv', PromiseInv, processHeaders PROVE PromiseInv'
<1> DEFINE f == arg
           s == f.s
           m == sc.nClient + 1
           seen == [sc EXCEPT !.maxClient = s]
           opened == [seen EXCEPT !.nClient = @ + 1]
           st == IF f.end THEN "halfRemote" ELSE "open"
           b == ~f.end /\ f.v # "bad"
           d == IF f.v = "len" THEN 1 ELSE -1
           r == [NewStream(st, sc.swin) EXCEPT !.body = b, !.decl = d]
           head == f.v = "head"
           g1 == [NoHandler EXCEPT !.pc = "run", !.head = head]
           g2 == [NoHandler EXCEPT !.pc = "queued", !.head = head]
           fresh == Odd(s) /\ ~(s <= sc.maxClient)
           x == Append(sc.unstarted, s)
           k == sc.handlers + 1
           c1 == [opened EXCEPT !.handlers = k]
           c2 == [opened EXCEPT !.unstarted = x]
<1>1. At("frame") /\ f.t = "headers" /\ UNCHANGED <<phase, out, chans>>
  BY DEF processHeaders, Processing
<1>2. todo # <<>> /\ s \in Ids /\ sc \in Conns /\ h \in [Ids -> HandlerRecs] /\ str \in [Ids -> StreamRecs]
  BY <1>1, FrameArg DEF ServerInv, Types
<1>3. \/ ConnError("protocol") /\ UNCHANGED <<str, h>>
      \/ sc' = seen /\ Then(<<<<"reset", s>>>>) /\ UNCHANGED <<str, h>>
      \/ /\ fresh /\ s \notin liveIds /\ str' = [str EXCEPT ![s] = r]
         /\ sc' \in {opened, c1, c2} /\ h' \in {h, [h EXCEPT ![s] = g1], [h EXCEPT ![s] = g2]}
         /\ Then(<<>>) \/ Then(<<<<"reset", s>>>>) \/ Then(<<<<"goAway", "calm">>>>)
  <2>1. ASSUME fresh, ~(Odd(s) /\ s \in liveIds) PROVE s \notin liveIds
    BY <2>1
  <2> QED BY <2>1, ZenonT(60) DEF processHeaders
<1>4. CASE ConnError("protocol") /\ UNCHANGED <<str, h>>
  BY <1>1, <1>4, FrameSilent, AnswerQuietly, SameAll, SameRest, CallPromise
<1>5. CASE sc' = seen /\ Then(<<<<"reset", s>>>>) /\ UNCHANGED <<str, h>>
  <2>1. Quietly
    BY <1>1, <1>2, <1>5, OneQuietly
  <2>2. KeepsWin(sc')
    BY <1>5, WinSame
  <2> QED BY <1>1, <1>5, <2>1, <2>2, FrameSilent, SameAll, SameRest, CallPromise
<1>6. CASE /\ fresh /\ s \notin liveIds /\ str' = [str EXCEPT ![s] = r]
           /\ sc' \in {opened, c1, c2} /\ h' \in {h, [h EXCEPT ![s] = g1], [h EXCEPT ![s] = g2]}
           /\ Then(<<>>) \/ Then(<<<<"reset", s>>>>) \/ Then(<<<<"goAway", "calm">>>>)
  <2>1. h[s].pc = "none" /\ ~live(s)
    BY <1>2, <1>6 DEF ServerInv, Numbers, Known, liveIds
  <2>2. h[s].n = 0
    BY <1>2, <2>1 DEF PromiseInv, BytesInv
  <2>3. r.st = st /\ r.len = 0 /\ st \in {"open", "halfRemote"}
    BY DEF NewStream, NoStream
  <2>4. g1.pc # "wait" /\ g1.n = 0 /\ g2.pc # "wait" /\ g2.n = 0
    BY DEF NoHandler
  <2>5. KeepsWin(opened) /\ KeepsWin(c1) /\ KeepsWin(c2)
    <3> HIDE DEF k, x, s
    <3> QED BY <1>2 DEF Conns, KeepsWin
  <2> HIDE DEF opened, seen, c1, c2, g1, g2, r, st, s, f
  <2>6. PICK u \in Ids : u = s
    BY <1>2
  <2>7. /\ \A v \in Ids : v # u => str'[v] = str[v] /\ h'[v] = h[v]
        /\ str'[u].st \in {"open", "halfRemote"} /\ str'[u].len = 0 /\ h'[u].n = 0 /\ h'[u].pc # "wait"
    BY <1>2, <1>6, <2>1, <2>2, <2>3, <2>4, <2>6
  <2>8. PICK items : Tidy(items) /\ Grow(items)
    <3>1. Tidy(<<<<"reset", s>>>>) /\ Tidy(<<<<"goAway", "calm">>>>)
      BY TidyOne
    <3> QED BY <1>1, <1>2, <1>6, <3>1, TidyEmpty, ThenGrows
  <2>9. h[u].pc = "none" /\ ~live(u)
    BY <2>1, <2>6
  <2>10. KeepsWin(sc')
    BY <1>6, <2>5
  <2> QED BY <1>1, <2>7, <2>8, <2>9, <2>10, FrameSilent, FreshPromise
<1> QED BY <1>3, <1>4, <1>5, <1>6

-----------------------------------------------------------------------------
(* The select of serve.                                                    *)
LEMMA TailMembers ==
    ASSUME NEW q, IsSeq(q), q # <<>>
    PROVE  /\ \A i \in 1 .. Len(q) : q[i] = Head(q) \/ \E j \in 1 .. Len(Tail(q)) : Tail(q)[j] = q[i]
           /\ \A j \in 1 .. Len(Tail(q)) : \E i \in 1 .. Len(q) : Tail(q)[j] = q[i]
           /\ \E i \in 1 .. Len(q) : q[i] = Head(q)
<1>0. PICK t : t = Tail(q)
  OBVIOUS
<1>1. PICK S : q \in Seq(S)
  BY DEF IsSeq
<1>2. /\ Len(q) \in Nat /\ Len(q) > 0 /\ Head(q) = q[1] /\ Len(t) = Len(q) - 1
      /\ \A i \in 1 .. Len(q) - 1 : t[i] = q[i + 1]
  BY <1>0, <1>1
<1>3. ASSUME NEW i \in 1 .. Len(q), q[i] # Head(q) PROVE \E j \in 1 .. Len(t) : t[j] = q[i]
  <2>1. i - 1 \in 1 .. Len(t) /\ i - 1 + 1 = i
    BY <1>2, <1>3
  <2>2. t[i - 1] = q[i - 1 + 1]
    BY <1>2, <2>1
  <2> QED BY <2>1, <2>2
<1>4. ASSUME NEW j \in 1 .. Len(t) PROVE \E i \in 1 .. Len(q) : t[j] = q[i]
  <2>1. j + 1 \in 1 .. Len(q) /\ t[j] = q[j + 1]
    BY <1>2
  <2> QED BY <2>1
<1>5. 1 \in 1 .. Len(q)
  BY <1>2
<1> QED BY <1>0, <1>2, <1>3, <1>4, <1>5

LEMMA IterateItems ==
    ASSUME AtSelect, NEW a, Tidy(a), Iterate(a), UNCHANGED phase
    PROVE  \E items : /\ Tidy(items) /\ Grow(items)
                      /\ \A i \in 1 .. Len(a) : \E j \in 1 .. Len(items) : items[j] = a[i]
<1>1. PICK b : b = <<Check>>
  OBVIOUS
<1>2. Tidy(b)
  BY <1>1, TidyOne DEF Check
<1>3. Tidy(a \o b) /\ IsSeq(a) /\ IsSeq(b)
  BY <1>2, TidyConcat, TidyParts
<1>4. \A i \in 1 .. Len(a) : i \in 1 .. Len(a \o b) /\ (a \o b)[i] = a[i]
  BY <1>3, ConcatSeq
<1>5. Grow(a \o b)
  BY <1>1, IterateGrows
<1> QED BY <1>3, <1>4, <1>5

(* Steps of the loop with nothing on the stack, and of others meanwhile.   *)
LEMMA IdlePromise ==
    ASSUME ServerInv, ServerInv', PromiseInv, todo = <<>>, Quietly, KeepsHand, KeepsMail,
           KeepsStr(str'), SameLive(str'), KeepsLen(str'), KeepsPc(h'), KeepsRead(h'), KeepsWin(sc')
    PROVE  PromiseInv'
<1>1. Silent
  BY DEF Silent
<1> QED BY <1>1, PromiseKept

LEMMA SelectPromise ==
    ASSUME ServerInv, ServerInv', PromiseInv, AtSelect, UNCHANGED <<phase, str, out, h, chans>>, KeepsWin(sc'),
           IsSeq(todo'), \A i \in 1 .. Len(todo') :
              /\ todo'[i][1] \notin {"window", "write"}
              /\ todo'[i][1] = "wrote" => i = 1 /\ todo'[i][2] = out.cur
    PROVE  PromiseInv'
<1>1. todo = <<>> /\ phase = "serving" /\ Grow(todo')
  BY DEF AtSelect, Grow
<1>2. PICK items : items = todo'
  OBVIOUS
<1>3. IsSeq(items) /\ Grow(items) /\ Owes(items, 0)
  <2>1. \A i \in 1 .. Len(items) : Given(items[i]) = 0
    BY <1>2 DEF Given
  <2> QED BY <1>1, <1>2, <2>1, OwesNone
<1>4. KeepsMail /\ KeepsStr(str') /\ KeepsLen(str') /\ SameLive(str') /\ KeepsPc(h') /\ KeepsRead(h')
  BY MailSame, SameAll, SameRest DEF PromiseInv
<1>5. Orderly'
  <2>1. \A i \in 1 .. Len(items) :
            /\ items[i][1] = "wrote" => i = 1 /\ items[i][2] = out'.cur
            /\ items[i][1] = "write" => Patient(items[i][2])
    BY <1>2
  <2> QED BY <1>3, <1>4, <2>1, OrderlyKept DEF PromiseInv, AnswerInv, KeepsMail
<1>6. BytesInv'
  BY <1>1, <1>3, <1>4, BytesKept DEF PromiseInv
<1>7. ASSUME NEW s \in Ids PROVE Heard(s) /\ Steady(s)
  <2>1. Queued(s) \/ Writing(s) => InHand(s)'
    BY DEF Queued, Writing, InHand
  <2> QED BY <1>1, <1>4, <2>1, HeardKept
<1>8. AnswerInv'
  BY <1>3, <1>5, <1>7, VoiceKept DEF PromiseInv
<1> QED BY <1>6, <1>8 DEF PromiseInv

LEMMA WrittenIs == IsSeq(Written) /\ \A i \in 1 .. Len(Written) : i = 1 /\ Written[i][1] = "wrote" /\ Written[i][2] = out.cur
<1> DEFINE w == <<"wrote", out.cur, out.res>>
<1>1. PICK c : c = w
  OBVIOUS
<1>2. c[1] = "wrote" /\ c[2] = out.cur
  BY <1>1
<1>3. PICK q : q = Written
  OBVIOUS
<1> HIDE DEF w
<1>4. q = <<>> \/ q = <<c>>
  BY <1>1, <1>3 DEF Written, w
<1>5. IsSeq(q)
  <2>1. <<>> \in Seq({c}) /\ <<c>> \in Seq({c})
    OBVIOUS
  <2> QED BY <1>4, <2>1 DEF IsSeq
<1>6. \A i \in 1 .. Len(q) : i = 1 /\ q[i] = c
  <2>1. CASE q = <<>>
    BY <2>1, NoneIs
  <2>2. CASE q = <<c>>
    <3>1. Len(q) = 1 /\ q[1] = c
      BY <2>2
    <3> QED BY <3>1
  <2> QED BY <1>4, <2>1, <2>2
<1> QED BY <1>2, <1>3, <1>5, <1>6

LEMMA serveWrotePromise ==
    ASSUME ServerInv, ServerInv', PromiseInv, serveWrote PROVE PromiseInv'
<1>1. AtSelect /\ todo' = Written \o <<Check>> /\ UNCHANGED <<phase, sc, str, out, h, chans>>
  BY DEF serveWrote, Iterate
<1>2. PICK b : b = <<Check>>
  OBVIOUS
<1>3. PICK w : w = Written
  OBVIOUS
<1>4. IsSeq(b) /\ Len(b) = 1 /\ b[1] = Check
  <2>1. b \in Seq({Check}) /\ Len(b) = 1 /\ b[1] = Check
    BY <1>2
  <2> QED BY <2>1 DEF IsSeq
<1>5. IsSeq(w) /\ \A i \in 1 .. Len(w) : i = 1 /\ w[i][1] = "wrote" /\ w[i][2] = out.cur
  BY <1>3, WrittenIs
<1>6. todo' = w \o b
  BY <1>1, <1>2, <1>3
<1>7. IsSeq(todo') /\ \A i \in 1 .. Len(todo') : (i \in 1 .. Len(w) /\ todo'[i] = w[i]) \/ todo'[i] = Check
  <2>1. /\ IsSeq(w \o b) /\ Len(w) \in Nat /\ Len(w \o b) = Len(w) + 1 /\ (w \o b)[Len(w) + 1] = b[1]
        /\ \A i \in 1 .. Len(w) : (w \o b)[i] = w[i]
    BY <1>4, <1>5, ConcatOne
  <2>2. /\ IsSeq(todo') /\ Len(todo') = Len(w) + 1 /\ todo'[Len(w) + 1] = Check
        /\ \A i \in 1 .. Len(w) : todo'[i] = w[i]
    BY <1>4, <1>6, <2>1
  <2>3. \A i \in 1 .. Len(todo') : i \in 1 .. Len(w) \/ i = Len(w) + 1
    BY <2>1, <2>2
  <2> QED BY <2>2, <2>3
<1>8. \A i \in 1 .. Len(todo') :
              /\ todo'[i][1] \notin {"window", "write"}
              /\ todo'[i][1] = "wrote" => i = 1 /\ todo'[i][2] = out.cur
  BY <1>5, <1>7 DEF Check
<1> QED BY <1>1, <1>7, <1>8, SameRest, SelectPromise

LEMMA serveReadPromise ==
    ASSUME ServerInv, ServerInv', PromiseInv, NEW f, serveRead(f) PROVE PromiseInv'
<1> DEFINE a == sc.saw \/ f.t = "settings"
<1>1. PICK c : c = <<"frame", f>>
  OBVIOUS
<1>2. /\ AtSelect /\ todo' = (Written \o <<c>>) \o <<Check>> /\ sc' = [sc EXCEPT !.saw = a]
      /\ UNCHANGED <<phase, str, out, h, chans>> /\ c[1] = "frame"
  BY <1>1 DEF serveRead, Iterate
<1>3. KeepsWin(sc')
  <2> HIDE DEF a
  <2> QED BY <1>2, WinSame
<1>4. PICK w : w = Written
  OBVIOUS
<1>5. PICK b : b = <<c>>
  OBVIOUS
<1>6. PICK d : d = <<Check>>
  OBVIOUS
<1>7. Len(b) = 1 /\ b[1] = c /\ IsSeq(b) /\ Len(d) = 1 /\ d[1] = Check /\ IsSeq(d)
  <2>1. b \in Seq({c}) /\ d \in Seq({Check})
    BY <1>5, <1>6
  <2> QED BY <1>5, <1>6, <2>1, OneIs DEF IsSeq
<1>8. IsSeq(w) /\ \A i \in 1 .. Len(w) : i = 1 /\ w[i][1] = "wrote" /\ w[i][2] = out.cur
  BY <1>4, WrittenIs
<1>9. IsSeq(todo') /\ \A i \in 1 .. Len(todo') : (i \in 1 .. Len(w) /\ todo'[i] = w[i]) \/ todo'[i] \in {c, Check}
  <2>1. PICK v : v = w \o b
    OBVIOUS
  <2>2. IsSeq(v) /\ Len(w) \in Nat /\ Len(v) = Len(w) + 1 /\ v[Len(w) + 1] = c /\ \A i \in 1 .. Len(w) : v[i] = w[i]
    BY <1>7, <1>8, <2>1, ConcatOne
  <2>3. todo' = v \o d
    BY <1>2, <1>4, <1>5, <1>6, <2>1
  <2>4. IsSeq(v \o d) /\ Len(v \o d) = Len(v) + 1 /\ (v \o d)[Len(v) + 1] = Check /\ \A i \in 1 .. Len(v) : (v \o d)[i] = v[i]
    BY <1>7, <2>2, ConcatOne
  <2>5. IsSeq(todo') /\ Len(todo') = Len(v) + 1 /\ todo'[Len(v) + 1] = Check /\ \A i \in 1 .. Len(v) : todo'[i] = v[i]
    BY <2>3, <2>4
  <2>6. ASSUME NEW i \in 1 .. Len(todo') PROVE (i \in 1 .. Len(w) /\ todo'[i] = w[i]) \/ todo'[i] \in {c, Check}
    <3>1. CASE i \in 1 .. Len(w)
      <4>1. i \in 1 .. Len(v)
        BY <2>2, <3>1
      <4> QED BY <2>2, <2>5, <3>1, <4>1
    <3>2. CASE i = Len(w) + 1
      <4>1. i \in 1 .. Len(v)
        BY <2>2, <3>2
      <4> QED BY <2>2, <2>5, <3>2, <4>1
    <3>3. CASE i = Len(v) + 1
      BY <2>5, <3>3
    <3> QED BY <2>2, <2>5, <3>1, <3>2, <3>3
  <2> QED BY <2>5, <2>6
<1>10. \A i \in 1 .. Len(todo') :
              /\ todo'[i][1] \notin {"window", "write"}
              /\ todo'[i][1] = "wrote" => i = 1 /\ todo'[i][2] = out.cur
  BY <1>2, <1>8, <1>9 DEF Check
<1> QED BY <1>2, <1>3, <1>9, <1>10, SelectPromise

LEMMA serveReadErrorPromise ==
    ASSUME ServerInv, ServerInv', PromiseInv, serveReadError PROVE PromiseInv'
<1>1. todo = <<>> /\ (\E o \in Orders : Return(o)) /\ UNCHANGED <<sc, str, out, h, chans>>
  BY DEF serveReadError, AtSelect
<1>2. Quietly
  BY <1>1, ReturnQuietly
<1>3. Silent
  BY <1>1 DEF Silent
<1> QED BY <1>1, <1>2, <1>3, SameAll, SameRest, CallPromise

-----------------------------------------------------------------------------
(* What the loop takes from its channels.                                  *)
LEMMA AnswersHand ==
    ASSUME ServerInv, ServerInv', PromiseInv, AtSelect, UNCHANGED <<phase, sc, str, out, h>>,
           NEW items, Tidy(items), Grow(items), \A i \in 1 .. Len(want') : Patient(want'[i]),
           \A s \in Ids : Asked(s) \/ Pushing(s) => InHand(s)'
    PROVE  PromiseInv'
<1>1. todo = <<>> /\ phase = "serving"
  BY DEF AtSelect
<1>2. Neat(items) /\ IsSeq(items) /\ Owes(items, 0)
  BY TidyParts
<1>3. KeepsStr(str') /\ KeepsLen(str') /\ SameLive(str') /\ KeepsPc(h') /\ KeepsRead(h') /\ KeepsWin(sc')
  BY SameAll, SameRest
<1>4. Orderly'
  BY <1>2, NeatKept DEF PromiseInv, AnswerInv
<1>5. BytesInv'
  BY <1>1, <1>2, <1>3, BytesKept DEF PromiseInv
<1>6. ASSUME NEW s \in Ids PROVE Heard(s) /\ Steady(s)
  <2>1. Queued(s) \/ Writing(s) => InHand(s)'
    BY DEF Queued, Writing, InHand
  <2>2. Held(s) => InHand(s)'
    BY <1>1, <2>1 DEF Held
  <2> QED BY <1>1, <2>2 DEF Heard, Steady
<1>7. AnswerInv'
  BY <1>2, <1>4, <1>6, VoiceKept DEF PromiseInv
<1> QED BY <1>5, <1>7 DEF PromiseInv

LEMMA serveWantWritePromise ==
    ASSUME ServerInv, ServerInv', PromiseInv, serveWantWrite PROVE PromiseInv'
<1>1. PICK f : f = Head(want)
  OBVIOUS
<1>2. /\ AtSelect /\ want # <<>> /\ want' = Tail(want) /\ UNCHANGED <<phase, sc, str, out, h, msgs>>
      /\ \/ f.t = "rst" /\ Iterate(<<<<"reset", f.s>>>>)
         \/ f.t # "rst" /\ Iterate(<<<<"write", f>>>>)
  BY <1>1 DEF serveWantWrite
<1>3. IsSeq(want)
  BY Channels DEF IsSeq
<1>4. PICK q : q = want
  OBVIOUS
<1>5. PICK t : t = want'
  BY <1>2
<1>6. /\ \A i \in 1 .. Len(q) : q[i] = f \/ \E j \in 1 .. Len(t) : t[j] = q[i]
      /\ \A j \in 1 .. Len(t) : \E i \in 1 .. Len(q) : t[j] = q[i]
      /\ \E i \in 1 .. Len(q) : q[i] = f
  <2>1. IsSeq(q) /\ q # <<>> /\ t = Tail(q) /\ f = Head(q)
    BY <1>1, <1>2, <1>3, <1>4, <1>5
  <2>2. /\ \A i \in 1 .. Len(q) : q[i] = Head(q) \/ \E j \in 1 .. Len(Tail(q)) : Tail(q)[j] = q[i]
        /\ \A j \in 1 .. Len(Tail(q)) : \E i \in 1 .. Len(q) : Tail(q)[j] = q[i]
        /\ \E i \in 1 .. Len(q) : q[i] = Head(q)
    BY <2>1, TailMembers
  <2> QED BY <2>1, <2>2
<1>7. \A i \in 1 .. Len(q) : Patient(q[i])
  BY <1>4 DEF PromiseInv, AnswerInv, Orderly
<1>8. Patient(f) /\ \A i \in 1 .. Len(want') : Patient(want'[i])
  BY <1>5, <1>6, <1>7
<1>9. PICK a : Tidy(a) /\ Iterate(a) /\ (f.t # "rst" => 1 \in 1 .. Len(a) /\ a[1] = <<"write", f>>)
  <2>1. CASE f.t = "rst" /\ Iterate(<<<<"reset", f.s>>>>)
    <3>1. Tidy(<<<<"reset", f.s>>>>)
      BY TidyOne
    <3> QED BY <2>1, <3>1
  <2>2. CASE f.t # "rst" /\ Iterate(<<<<"write", f>>>>)
    <3>1. PICK a : a = <<<<"write", f>>>>
      OBVIOUS
    <3>2. Tidy(a)
      BY <1>8, <3>1, TidyOne
    <3>3. 1 \in 1 .. Len(a) /\ a[1] = <<"write", f>>
      BY <3>1
    <3> QED BY <2>2, <3>1, <3>2, <3>3
  <2> QED BY <1>2, <2>1, <2>2
<1>10. PICK items : /\ Tidy(items) /\ Grow(items)
                    /\ \A i \in 1 .. Len(a) : \E j \in 1 .. Len(items) : items[j] = a[i]
  BY <1>2, <1>9, IterateItems
<1>11. ASSUME NEW s \in Ids PROVE Asked(s) \/ Pushing(s) => InHand(s)'
  <2>1. Pushing(s) => InHand(s)'
    BY <1>2 DEF Pushing, InHand
  <2>2. ASSUME NEW i \in 1 .. Len(q), q[i].s = s, q[i].wait PROVE InHand(s)'
    <3>1. CASE \E j \in 1 .. Len(t) : t[j] = q[i]
      BY <1>5, <2>2, <3>1 DEF Asked, InHand
    <3>2. CASE q[i] = f
      <4>1. f.t # "rst" /\ f.s = s /\ f.wait
        BY <1>8, <2>2, <3>2 DEF Patient
      <4>2. PICK j \in 1 .. Len(items) : items[j] = <<"write", f>>
        BY <1>9, <1>10, <4>1
      <4>3. Carries(items[j], s)
        BY <4>1, <4>2 DEF Carries
      <4>4. IsSeq(items) /\ phase' = "serving"
        BY <1>2, <1>10, TidyParts DEF AtSelect
      <4> QED BY <1>10, <4>3, <4>4, CalledKeeps
    <3> QED BY <1>6, <3>1, <3>2
  <2>3. Asked(s) => InHand(s)'
    BY <1>4, <2>2 DEF Asked
  <2> QED BY <2>1, <2>3
<1> QED BY <1>2, <1>8, <1>10, <1>11, AnswersHand

LEMMA startPushPromise ==
    ASSUME ServerInv, ServerInv', PromiseInv, startPush PROVE PromiseInv'
<1>1. PICK u : u = Head(msgs)[2]
  OBVIOUS
<1>2. PICK f : f = Out("push", u, 0, FALSE, TRUE)
  OBVIOUS
<1>3. /\ AtSelect /\ msgs # <<>> /\ msgs' = Tail(msgs) /\ UNCHANGED <<phase, sc, str, out, h, want>>
      /\ \/ Iterate(<<<<"write", f>>>>)
         \/ Iterate(<<<<"reply", f>>>>)
  BY <1>1, <1>2 DEF startPush
<1>4. f.s = u /\ f.wait /\ f.t = "push" /\ Patient(f)
  BY <1>2 DEF Out, Patient
<1>5. IsSeq(msgs)
  BY Channels
<1>6. PICK q : q = msgs
  OBVIOUS
<1>7. PICK t : t = msgs'
  BY <1>3
<1>8. \A i \in 1 .. Len(q) : q[i][2] = u \/ \E j \in 1 .. Len(t) : t[j] = q[i]
  <2>1. IsSeq(q) /\ q # <<>> /\ t = Tail(q) /\ u = Head(q)[2]
    BY <1>1, <1>3, <1>5, <1>6, <1>7
  <2>2. \A i \in 1 .. Len(q) : q[i] = Head(q) \/ \E j \in 1 .. Len(Tail(q)) : Tail(q)[j] = q[i]
    BY <2>1, TailMembers
  <2> QED BY <2>1, <2>2
<1>9. PICK c : Iterate(<<c>>) /\ c \in {<<"write", f>>, <<"reply", f>>}
  BY <1>3
<1>10. PICK a : a = <<c>>
  OBVIOUS
<1>11. c[1] \in {"write", "reply"} /\ c[2] = f
  BY <1>9
<1>12. Tidy(a) /\ 1 \in 1 .. Len(a) /\ a[1] = c
  <2>1. Tidy(<<c>>)
    BY <1>4, <1>11, TidyOne
  <2> QED BY <1>10, <2>1
<1>13. PICK items : /\ Tidy(items) /\ Grow(items)
                    /\ \A i \in 1 .. Len(a) : \E j \in 1 .. Len(items) : items[j] = a[i]
  BY <1>3, <1>9, <1>10, <1>12, IterateItems
<1>14. ASSUME NEW s \in Ids PROVE Asked(s) \/ Pushing(s) => InHand(s)'
  <2>1. Asked(s) => InHand(s)'
    BY <1>3 DEF Asked, InHand
  <2>2. ASSUME NEW i \in 1 .. Len(q), q[i] = <<"push", s>> PROVE InHand(s)'
    <3>1. CASE \E j \in 1 .. Len(t) : t[j] = q[i]
      BY <1>7, <2>2, <3>1 DEF Pushing, InHand
    <3>2. CASE q[i][2] = u
      <4>1. u = s
        BY <2>2, <3>2
      <4>2. PICK j \in 1 .. Len(items) : items[j] = c
        BY <1>12, <1>13
      <4>3. Carries(items[j], s)
        BY <1>4, <1>11, <4>1, <4>2 DEF Carries
      <4>4. IsSeq(items) /\ phase' = "serving"
        BY <1>3, <1>13, TidyParts DEF AtSelect
      <4> QED BY <1>13, <4>3, <4>4, CalledKeeps
    <3> QED BY <1>8, <3>1, <3>2
  <2>3. Pushing(s) => InHand(s)'
    BY <1>6, <2>2 DEF Pushing
  <2> QED BY <2>1, <2>3
<1>15. \A i \in 1 .. Len(want') : Patient(want'[i])
  BY <1>3 DEF PromiseInv, AnswerInv, Orderly
<1> QED BY <1>3, <1>13, <1>14, <1>15, AnswersHand

LEMMA TailMail ==
    ASSUME ServerInv, PromiseInv, msgs # <<>>, msgs' = Tail(msgs), Head(msgs)[1] # "push", UNCHANGED want
    PROVE  KeepsMail
<1>1. IsSeq(msgs)
  BY Channels
<1>2. PICK q : q = msgs
  OBVIOUS
<1>3. PICK t : t = msgs'
  OBVIOUS
<1>4. \A i \in 1 .. Len(q) : q[i] = Head(q) \/ \E j \in 1 .. Len(t) : t[j] = q[i]
  <2>1. IsSeq(q) /\ q # <<>> /\ t = Tail(q)
    BY <1>1, <1>2, <1>3
  <2>2. \A i \in 1 .. Len(q) : q[i] = Head(q) \/ \E j \in 1 .. Len(Tail(q)) : Tail(q)[j] = q[i]
    BY <2>1, TailMembers
  <2> QED BY <2>1, <2>2
<1>5. ASSUME NEW s \in Ids PROVE Pushing(s) => Pushing(s)'
  <2>1. Head(q) # <<"push", s>>
    BY <1>2
  <2>2. ASSUME NEW i \in 1 .. Len(q), q[i] = <<"push", s>> PROVE Pushing(s)'
    <3>1. PICK j \in 1 .. Len(t) : t[j] = q[i]
      BY <1>4, <2>1, <2>2
    <3> QED BY <1>3, <2>2, <3>1 DEF Pushing
  <2> QED BY <1>2, <2>2 DEF Pushing
<1> QED BY <1>5 DEF KeepsMail, Asked, PromiseInv, AnswerInv, Orderly

LEMMA serveTimerPromise ==
    ASSUME ServerInv, ServerInv', PromiseInv, serveTimer PROVE PromiseInv'
<1> DEFINE w == <<"write", Ctl("ping", 0)>>
<1>1. /\ AtSelect /\ todo = <<>> /\ msgs # <<>> /\ msgs' = Tail(msgs) /\ Head(msgs)[1] # "push" /\ UNCHANGED <<str, h, want>>
  BY DEF serveTimer, AtSelect
<1>2. \/ Iterate(<<<<"goAway", "no">>>>) /\ UNCHANGED <<phase, sc, out>>
      \/ (\E o \in Orders : Return(o)) /\ UNCHANGED <<sc, out>>
      \/ Iterate(<<>>) /\ UNCHANGED <<phase, sc>> /\ (UNCHANGED out \/ out' = [out EXCEPT !.open = FALSE])
      \/ Iterate(<<w>>) /\ UNCHANGED <<phase, out>> /\ sc' = [sc EXCEPT !.ping = TRUE]
  BY Zenon DEF serveTimer
<1>3. Tidy(<<<<"goAway", "no">>>>) /\ Tidy(<<w>>)
  BY TidyOne, PatientCtl
<1> HIDE DEF w
<1>4. Quietly
  BY <1>1, <1>2, <1>3, TidyEmpty, IterateQuietly, ReturnQuietly
<1>5. KeepsWin(sc')
  BY <1>2, SameRest, WinSame
<1>6. KeepsHand
  <2>1. out \in Outs
    BY Facts DEF OutOK
  <2> QED BY <1>2, <2>1 DEF Outs, KeepsHand
<1>7. KeepsMail
  BY <1>1, TailMail
<1> QED BY <1>1, <1>4, <1>5, <1>6, <1>7, SameAll, SameRest, IdlePromise

LEMMA handlerDonePromise ==
    ASSUME ServerInv, ServerInv', StreamInv, PromiseInv, handlerDone PROVE PromiseInv'
<1> DEFINE q == sc.unstarted
           go == {q[i] : i \in Waiting \ Stays}
           n == sc.handlers - 1 + Cardinality(Waiting \ Stays)
           x == Rest
<1>1. /\ sc' = [sc EXCEPT !.handlers = n, !.unstarted = x]
      /\ h' = [s \in Ids |-> IF s \in go THEN [h[s] EXCEPT !.pc = "run"] ELSE h[s]]
      /\ Iterate(<<>>) /\ AtSelect /\ todo = <<>>
      /\ msgs # <<>> /\ msgs' = Tail(msgs) /\ Head(msgs)[1] # "push"
      /\ UNCHANGED <<phase, str, out, want>>
  BY DEF handlerDone, AtSelect
<1>2. sc \in Conns /\ q \in Seq(Ids) /\ h \in [Ids -> HandlerRecs]
  BY DEF ServerInv, Types, Conns
<1>3. KeepsWin(sc')
  <2> HIDE DEF n, x
  <2> QED BY <1>1, WinSame
<1>4. \A s \in go : h[s].pc = "queued"
  <2>1. Waiting \ Stays \subseteq 1 .. Len(q)
    BY <1>2 DEF Waiting
  <2>2. \A i \in 1 .. Len(q) : h[q[i]].pc = "queued"
    BY DEF StreamInv, CountInv, Slotted
  <2> QED BY <2>1, <2>2
<1>5. \A s \in Ids : /\ s \in go => h'[s].pc = "run" /\ h'[s].n = h[s].n /\ h'[s].done = h[s].done
                     /\ s \notin go => h'[s] = h[s]
  <2> HIDE DEF go
  <2>1. \A s \in Ids : h[s] \in HandlerRecs /\ h'[s] = IF s \in go THEN [h[s] EXCEPT !.pc = "run"] ELSE h[s]
    BY <1>1, <1>2
  <2> QED BY <2>1 DEF HandlerRecs
<1> HIDE DEF go
<1>6. KeepsPc(h') /\ KeepsRead(h')
  BY <1>4, <1>5 DEF KeepsPc, KeepsRead
<1>7. Quietly
  BY <1>1, TidyEmpty, IterateQuietly
<1>8. KeepsMail
  BY <1>1, TailMail
<1>9. KeepsHand
  BY <1>1 DEF KeepsHand
<1> QED BY <1>1, <1>3, <1>6, <1>7, <1>8, <1>9, SameAll, SameRest, IdlePromise

-----------------------------------------------------------------------------
(* What handlers, timers and the writing goroutine do while the loop is    *)
(* between two iterations.                                                 *)
StillWaits == \A u \in Ids :
    /\ h[u].pc = "none" => h'[u].pc = "none"
    /\ h'[u].pc = "wait" => \/ h[u].pc = "wait" /\ (h[u].done => h'[u].done)
                            \/ Asked(u)' \/ Pushing(u)'

LEMMA BetweenAnswers ==
    ASSUME AnswerInv, todo = <<>>, UNCHANGED <<phase, todo>>, KeepsHand, KeepsMail, KeepsStr(str'), StillWaits
    PROVE  AnswerInv'
<1>1. Len(todo) = 0 /\ Len(todo') = 0
  OBVIOUS
<1>2. Orderly'
  BY <1>1 DEF Orderly, KeepsMail
<1>3. ASSUME NEW s \in Ids PROVE Used(s)'
  BY DEF AnswerInv, Used, KeepsStr, StillWaits
<1>4. ASSUME NEW s \in Ids, phase' = "serving" PROVE Answered(s)' /\ Closed(s)'
  <2>1. Answered(s) /\ Closed(s) /\ ~Carried(s) /\ ~Closing(s)
    BY <1>1, <1>4 DEF AnswerInv, Carried, Closing
  <2>2. InHand(s) => InHand(s)'
    <3>1. Queued(s) \/ Writing(s) => InHand(s)'
      BY DEF Queued, Writing, InHand, KeepsHand
    <3>2. Asked(s) \/ Pushing(s) => InHand(s)'
      BY DEF InHand, KeepsMail
    <3> QED BY <2>1, <3>1, <3>2 DEF InHand
  <2>3. Asked(s)' \/ Pushing(s)' => InHand(s)'
    BY DEF InHand
  <2>4. Closed(s)'
    BY <2>1 DEF Closed, KeepsStr
  <2>5. (h[s].done => h'[s].done) \/ InHand(s)' \/ h'[s].pc # "wait"
    BY <2>3 DEF StillWaits
  <2>6. h'[s].pc = "wait" => h[s].pc = "wait" \/ InHand(s)'
    BY <2>3 DEF StillWaits
  <2>7. Answered(s)'
    BY <2>1, <2>2, <2>5, <2>6 DEF Answered, KeepsStr
  <2> QED BY <2>4, <2>7
<1> QED BY <1>2, <1>3, <1>4 DEF AnswerInv

LEMMA BetweenPromise ==
    ASSUME ServerInv, ServerInv', PromiseInv, todo = <<>>, UNCHANGED <<phase, todo>>, KeepsHand, KeepsMail,
           KeepsStr(str'), SameLive(str'), KeepsLen(str'), StillWaits, KeepsRead(h'), KeepsWin(sc')
    PROVE  PromiseInv'
<1>1. AnswerInv'
  BY BetweenAnswers DEF PromiseInv
<1>2. PICK items : items = <<>>
  OBVIOUS
<1>3. Grow(items) /\ IsSeq(items) /\ Owes(items, 0)
  BY <1>2, StayGrows, TidyEmpty, TidyParts
<1>4. BytesInv'
  BY <1>3, BytesKept DEF PromiseInv
<1> QED BY <1>1, <1>4 DEF PromiseInv

(* One handler goes on.                                                    *)
LEMMA GoesOn ==
    ASSUME ServerInv, NEW s \in Ids, NEW r, h' = [h EXCEPT ![s] = r], h[s].pc \notin {"none", "wait"},
           r.pc = "wait" => Asked(s)' \/ Pushing(s)'
    PROVE  StillWaits
<1>1. h \in [Ids -> HandlerRecs]
  BY Facts
<1>2. \A u \in Ids : h'[u] = IF u = s THEN r ELSE h[u]
  BY <1>1
<1>3. ASSUME NEW u \in Ids
      PROVE  /\ h[u].pc = "none" => h'[u].pc = "none"
             /\ h'[u].pc = "wait" => \/ h[u].pc = "wait" /\ (h[u].done => h'[u].done)
                                     \/ Asked(u)' \/ Pushing(u)'
  <2>1. CASE u = s
    BY <1>2, <2>1
  <2>2. CASE u # s
    BY <1>2, <2>2
  <2> QED BY <2>1, <2>2
<1> QED BY <1>3 DEF StillWaits

LEMMA ReadStep ==
    ASSUME ServerInv, NEW s \in Ids, NEW r, h' = [h EXCEPT ![s] = r], h[s].pc # "reading", r.n = h[s].n
    PROVE  KeepsRead(h')
<1>1. h \in [Ids -> HandlerRecs]
  BY Facts
<1>2. \A u \in Ids : h'[u] = IF u = s THEN r ELSE h[u]
  BY <1>1
<1> QED BY <1>2 DEF KeepsRead

LEMMA WaitsSame == ASSUME UNCHANGED h PROVE StillWaits
BY DEF StillWaits

LEMMA FrameAsked ==
    ASSUME ServerInv, PromiseInv, NEW f \in OutFrames, Patient(f), want' = Append(want, f), UNCHANGED msgs
    PROVE  KeepsMail /\ \A s \in Ids : f.s = s /\ f.wait => Asked(s)'
<1>1. want \in Seq(OutFrames) /\ \A i \in 1 .. Len(want) : Patient(want[i])
  BY Channels DEF PromiseInv, AnswerInv, Orderly
<1>2. PICK x : x = want'
  OBVIOUS
<1>3. PICK q : q = want
  OBVIOUS
<1>4. /\ \A i \in 1 .. Len(q) : \E j \in 1 .. Len(x) : x[j] = q[i]
      /\ \E j \in 1 .. Len(x) : x[j] = f
      /\ \A j \in 1 .. Len(x) : x[j] = f \/ \E i \in 1 .. Len(q) : x[j] = q[i]
  <2>1. q \in Seq(OutFrames) /\ x = Append(q, f)
    BY <1>1, <1>2, <1>3
  <2> QED BY <2>1, AppendKeeps
<1>5. \A i \in 1 .. Len(want') : Patient(want'[i])
  BY <1>1, <1>2, <1>3, <1>4
<1>6. ASSUME NEW s \in Ids PROVE (Asked(s) => Asked(s)') /\ (Pushing(s) => Pushing(s)') /\ (f.s = s /\ f.wait => Asked(s)')
  <2>1. Asked(s) => Asked(s)'
    BY <1>2, <1>3, <1>4 DEF Asked
  <2>2. Pushing(s) => Pushing(s)'
    BY DEF Pushing
  <2>3. f.s = s /\ f.wait => Asked(s)'
    BY <1>2, <1>4 DEF Asked
  <2> QED BY <2>1, <2>2, <2>3
<1> QED BY <1>5, <1>6 DEF KeepsMail

LEMMA MessageLeft ==
    ASSUME ServerInv, PromiseInv, NEW m, msgs' = Append(msgs, m), UNCHANGED want
    PROVE  KeepsMail /\ \A s \in Ids : m = <<"push", s>> => Pushing(s)'
<1>1. PICK S : msgs \in Seq(S)
  BY Channels DEF IsSeq
<1>2. PICK x : x = msgs'
  OBVIOUS
<1>3. PICK q : q = msgs
  OBVIOUS
<1>4. /\ \A i \in 1 .. Len(q) : \E j \in 1 .. Len(x) : x[j] = q[i]
      /\ \E j \in 1 .. Len(x) : x[j] = m
  <2>1. PICK T : T = S \cup {m}
    OBVIOUS
  <2>2. q \in Seq(T) /\ m \in T /\ x = Append(q, m)
    BY <1>1, <1>2, <1>3, <2>1
  <2> QED BY <2>2, AppendKeeps
<1>5. ASSUME NEW s \in Ids PROVE (Pushing(s) => Pushing(s)') /\ (m = <<"push", s>> => Pushing(s)')
  <2>1. ASSUME NEW i \in 1 .. Len(q), q[i] = <<"push", s>> PROVE Pushing(s)'
    <3>1. PICK j \in 1 .. Len(x) : x[j] = q[i]
      BY <1>4
    <3> QED BY <1>2, <2>1, <3>1 DEF Pushing
  <2>2. Pushing(s) => Pushing(s)'
    BY <1>3, <2>1 DEF Pushing
  <2>3. ASSUME m = <<"push", s>> PROVE Pushing(s)'
    <3>1. PICK j \in 1 .. Len(x) : x[j] = m
      BY <1>4
    <3> QED BY <1>2, <2>3, <3>1 DEF Pushing
  <2> QED BY <2>2, <2>3
<1>6. \A s \in Ids : Asked(s) => Asked(s)'
  BY DEF Asked
<1> QED BY <1>5, <1>6 DEF KeepsMail, PromiseInv, AnswerInv, Orderly

LEMMA AskedPromise ==
    ASSUME ServerInv, ServerInv', PromiseInv, NEW s \in Ids, NEW f, f \in OutFrames, f.s = s, Patient(f),
           NEW next \in HandlerRecs, next.pc = "wait" => f.wait, next.n = h[s].n, h[s].pc = "run", Between,
           Ask(s, f, next), UNCHANGED <<str, msgs>>, KeepServe
    PROVE  PromiseInv'
<1> DEFINE r == [next EXCEPT !.pc = IF next.fin THEN "over" ELSE "run"]
<1>1. r.pc \in {"over", "run"} /\ r.n = next.n
  BY DEF HandlerRecs
<1>2. \/ h' = [h EXCEPT ![s] = next] /\ want' = Append(want, f)
      \/ h' = [h EXCEPT ![s] = r] /\ UNCHANGED want
  BY Zenon DEF Ask
<1> HIDE DEF r
<1>3. todo = <<>> /\ UNCHANGED <<phase, todo, sc, str, out, msgs>>
  BY DEF Between, KeepServe
<1>4. KeepsMail /\ StillWaits /\ KeepsRead(h')
  <2>1. CASE h' = [h EXCEPT ![s] = next] /\ want' = Append(want, f)
    <3>1. KeepsMail /\ (f.wait => Asked(s)')
      BY <1>3, <2>1, FrameAsked
    <3> QED BY <2>1, <3>1, GoesOn, ReadStep
  <2>2. CASE h' = [h EXCEPT ![s] = r] /\ UNCHANGED want
    <3>1. KeepsMail
      BY <1>3, <2>2, MailSame DEF chans, PromiseInv
    <3> QED BY <1>1, <2>2, <3>1, GoesOn, ReadStep
  <2> QED BY <1>2, <2>1, <2>2
<1>5. KeepsHand
  BY <1>3 DEF KeepsHand
<1> QED BY <1>3, <1>4, <1>5, SameAll, SameRest, BetweenPromise

LEMMA handlerHeadersPromise ==
    ASSUME ServerInv, ServerInv', PromiseInv, NEW s \in Ids, handlerHeaders(s) PROVE PromiseInv'
<1> DEFINE next == [h[s] EXCEPT !.pc = "wait", !.sent = TRUE]
           e == h[s].head
           f == Out("headers", s, 0, e, TRUE)
<1>1. h[s].pc = "run" /\ Between /\ Ask(s, f, next) /\ UNCHANGED <<str, msgs>> /\ KeepServe
  BY DEF handlerHeaders, Running
<1>2. h[s] \in HandlerRecs
  BY Facts
<1>3. next \in HandlerRecs /\ next.n = h[s].n
  BY <1>2, Zenon DEF HandlerRecs
<1>4. e \in BOOLEAN
  BY <1>2 DEF HandlerRecs
<1> HIDE DEF e, next
<1>5. f \in OutFrames /\ f.s = s /\ f.wait /\ Patient(f)
  BY <1>4, AskedOK DEF FrameOK, Out, Patient
<1> HIDE DEF f
<1> QED BY <1>1, <1>3, <1>5, AskedPromise

LEMMA handlerDataPromise ==
    ASSUME ServerInv, ServerInv', PromiseInv, NEW s \in Ids, NEW n \in 1 .. 2, handlerData(s, n) PROVE PromiseInv'
<1> DEFINE k == h[s].k + 1
           next == [h[s] EXCEPT !.pc = "wait", !.k = k]
           f == Out("data", s, n, FALSE, TRUE)
<1>1. h[s].pc = "run" /\ Between /\ Ask(s, f, next) /\ UNCHANGED <<str, msgs>> /\ KeepServe
  BY DEF handlerData, Running
<1>2. h[s] \in HandlerRecs
  BY Facts
<1>3. k \in Nat
  BY <1>2 DEF HandlerRecs
<1> HIDE DEF k
<1>4. next \in HandlerRecs /\ next.n = h[s].n
  BY <1>2, <1>3, Zenon DEF HandlerRecs
<1>5. f \in OutFrames /\ f.s = s /\ f.wait /\ Patient(f)
  <2>1. n \in Nat
    OBVIOUS
  <2> QED BY <2>1, AskedOK DEF FrameOK, Out, Patient
<1> HIDE DEF f, next
<1> QED BY <1>1, <1>4, <1>5, AskedPromise

LEMMA handlerReturnPromise ==
    ASSUME ServerInv, ServerInv', PromiseInv, NEW s \in Ids, handlerReturn(s) PROVE PromiseInv'
<1> DEFINE next == [h[s] EXCEPT !.pc = "wait", !.sent = TRUE, !.fin = TRUE]
           over == [h[s] EXCEPT !.pc = "over"]
<1>1. h[s].pc = "run" /\ Between /\ UNCHANGED <<str, msgs>> /\ KeepServe
  BY DEF handlerReturn, Running
<1>2. h[s] \in HandlerRecs
  BY Facts
<1>3. next \in HandlerRecs /\ next.n = h[s].n /\ over.pc = "over" /\ over.n = h[s].n
  BY <1>2, Zenon DEF HandlerRecs
<1>4. \/ h' = [h EXCEPT ![s] = over] /\ UNCHANGED want
      \/ Ask(s, Out("headers", s, 0, TRUE, TRUE), next)
      \/ \E n \in 0 .. 1 : Ask(s, Out("data", s, n, TRUE, TRUE), next)
  BY Zenon DEF handlerReturn
<1> HIDE DEF next, over
<1>5. CASE h' = [h EXCEPT ![s] = over] /\ UNCHANGED want
  <2>1. StillWaits /\ KeepsRead(h')
    BY <1>1, <1>3, <1>5, GoesOn, ReadStep
  <2>2. todo = <<>> /\ UNCHANGED <<phase, todo, sc, str, out, want, msgs>>
    BY <1>1, <1>5 DEF Between, KeepServe
  <2>3. KeepsMail /\ KeepsHand
    BY <2>2, MailSame DEF PromiseInv, KeepsHand, chans
  <2> QED BY <2>1, <2>2, <2>3, SameAll, SameRest, BetweenPromise
<1>6. CASE Ask(s, Out("headers", s, 0, TRUE, TRUE), next)
  <2> DEFINE f == Out("headers", s, 0, TRUE, TRUE)
  <2>1. f \in OutFrames /\ f.s = s /\ f.wait /\ Patient(f)
    BY AskedOK DEF FrameOK, Out, Patient
  <2> HIDE DEF f
  <2> QED BY <1>1, <1>3, <1>6, <2>1, AskedPromise DEF f
<1>7. ASSUME NEW n \in 0 .. 1, Ask(s, Out("data", s, n, TRUE, TRUE), next) PROVE PromiseInv'
  <2> DEFINE f == Out("data", s, n, TRUE, TRUE)
  <2>1. f \in OutFrames /\ f.s = s /\ f.wait /\ Patient(f)
    <3>1. n \in Nat
      OBVIOUS
    <3> QED BY <3>1, AskedOK DEF FrameOK, Out, Patient
  <2> HIDE DEF f
  <2> QED BY <1>1, <1>3, <1>7, <2>1, AskedPromise DEF f
<1> QED BY <1>4, <1>5, <1>6, <1>7

LEMMA handlerPanicsPromise ==
    ASSUME ServerInv, ServerInv', PromiseInv, NEW s \in Ids, handlerPanics(s) PROVE PromiseInv'
<1> DEFINE next == [h[s] EXCEPT !.pc = "over", !.fin = TRUE]
           f == Ctl("panicRST", s)
<1>1. h[s].pc = "run" /\ Between /\ Ask(s, f, next) /\ UNCHANGED <<str, msgs>> /\ KeepServe
  BY DEF handlerPanics, Running
<1>2. h[s] \in HandlerRecs
  BY Facts
<1>3. next \in HandlerRecs /\ next.pc = "over" /\ next.n = h[s].n
  BY <1>2, Zenon DEF HandlerRecs
<1>4. f \in OutFrames /\ f.s = s /\ Patient(f)
  BY CtlAskedOK, PatientCtl DEF FrameOK, Ctl, Out
<1> HIDE DEF f, next
<1> QED BY <1>1, <1>3, <1>4, AskedPromise

LEMMA handlerAnsweredPromise ==
    ASSUME ServerInv, ServerInv', PromiseInv, NEW s \in Ids, handlerAnswered(s) PROVE PromiseInv'
<1> DEFINE pc == IF h[s].fin THEN "over" ELSE "run"
           r == [h[s] EXCEPT !.pc = pc, !.done = FALSE]
<1>1. /\ h[s].pc = "wait" /\ h' = [h EXCEPT ![s].pc = pc, ![s].done = FALSE]
      /\ todo = <<>> /\ UNCHANGED <<phase, todo, sc, str, out, want, msgs>>
  BY DEF handlerAnswered, Between, KeepServe, chans
<1>2. h[s] \in HandlerRecs /\ h \in [Ids -> HandlerRecs]
  BY Facts
<1>3. pc \in {"over", "run"}
  OBVIOUS
<1>4. h' = [h EXCEPT ![s] = r]
  BY <1>1, Zenon
<1> HIDE DEF pc
<1>5. r.pc = pc /\ r.n = h[s].n
  BY <1>2, Zenon DEF HandlerRecs
<1> HIDE DEF r
<1>6. StillWaits
  <2>1. \A u \in Ids : h'[u] = IF u = s THEN r ELSE h[u]
    BY <1>2, <1>4
  <2> QED BY <1>1, <1>3, <1>5, <2>1 DEF StillWaits
<1>7. KeepsRead(h')
  BY <1>1, <1>4, <1>5, ReadStep
<1>8. KeepsMail /\ KeepsHand
  BY <1>1, MailSame DEF PromiseInv, KeepsHand, chans
<1> QED BY <1>1, <1>6, <1>7, <1>8, SameAll, SameRest, BetweenPromise

LEMMA FiredWin == ASSUME ServerInv, NEW e, sc' = [sc EXCEPT !.fired = @ \cup {e}] PROVE KeepsWin(sc')
<1> DEFINE x == sc.fired \cup {e}
<1>1. sc' = [sc EXCEPT !.fired = x]
  OBVIOUS
<1> HIDE DEF x
<1> QED BY <1>1, WinSame

LEMMA handlerContinuePromise ==
    ASSUME ServerInv, ServerInv', PromiseInv, NEW s \in Ids, handlerContinue(s) PROVE PromiseInv'
<1> DEFINE f == Ctl("continue", s)
<1>1. /\ want' = Append(want, f) /\ sc' = [sc EXCEPT !.fired = @ \cup {"continue"}]
      /\ todo = <<>> /\ UNCHANGED <<phase, todo, str, out, h, msgs>>
  BY DEF handlerContinue, Running, Between
<1>2. f \in OutFrames /\ Patient(f)
  BY CtlAskedOK, PatientCtl DEF FrameOK
<1> HIDE DEF f
<1>3. KeepsMail
  BY <1>1, <1>2, FrameAsked
<1>4. KeepsWin(sc') /\ StillWaits /\ KeepsHand
  BY <1>1, FiredWin, WaitsSame DEF KeepsHand
<1> QED BY <1>1, <1>3, <1>4, SameAll, SameRest, BetweenPromise

LEMMA handlerCloseBodyPromise ==
    ASSUME ServerInv, ServerInv', PromiseInv, NEW s \in Ids, handlerCloseBody(s) PROVE PromiseInv'
<1>1. /\ str' = [str EXCEPT ![s].broken = TRUE]
      /\ todo = <<>> /\ UNCHANGED <<phase, todo, sc, out, h, want, msgs>>
  BY DEF handlerCloseBody, Running, Between, KeepServe, chans
<1>2. SameLive(str') /\ KeepsStr(str') /\ KeepsLen(str')
  BY <1>1, LiveKept, StrSame
<1>3. KeepsMail /\ KeepsHand /\ StillWaits
  BY <1>1, MailSame, WaitsSame DEF PromiseInv, KeepsHand, chans
<1> QED BY <1>1, <1>2, <1>3, SameAll, SameRest, BetweenPromise

LEMMA handlerPushPromise ==
    ASSUME ServerInv, ServerInv', PromiseInv, NEW s \in Ids, handlerPush(s) PROVE PromiseInv'
<1> DEFINE r == [h[s] EXCEPT !.pc = "wait"]
<1>1. PICK m : m = <<"push", s>>
  OBVIOUS
<1>2. /\ h[s].pc = "run" /\ msgs' = Append(msgs, m) /\ h' = [h EXCEPT ![s] = r]
      /\ todo = <<>> /\ UNCHANGED <<phase, todo, sc, str, out, want>>
  BY <1>1, Zenon DEF handlerPush, Running, Between, KeepServe
<1>3. h[s] \in HandlerRecs
  BY Facts
<1>4. r.n = h[s].n
  BY <1>3, Zenon DEF HandlerRecs
<1> HIDE DEF r
<1>5. KeepsMail /\ Pushing(s)'
  BY <1>1, <1>2, MessageLeft
<1>6. StillWaits /\ KeepsRead(h') /\ KeepsHand
  BY <1>2, <1>4, <1>5, GoesOn, ReadStep DEF KeepsHand
<1> QED BY <1>2, <1>5, <1>6, SameAll, SameRest, BetweenPromise

LEMMA timerFiresPromise ==
    ASSUME ServerInv, ServerInv', PromiseInv, NEW e \in Timers, timerFires(e) PROVE PromiseInv'
<1>1. PICK m : m = <<e>>
  OBVIOUS
<1>2. /\ msgs' = Append(msgs, m) /\ sc' = [sc EXCEPT !.fired = @ \cup {e}]
      /\ todo = <<>> /\ UNCHANGED <<phase, todo, str, out, h, want>>
  BY <1>1 DEF timerFires, Between
<1>3. KeepsMail
  BY <1>2, MessageLeft
<1>4. KeepsWin(sc') /\ StillWaits /\ KeepsHand
  BY <1>2, FiredWin, WaitsSame DEF KeepsHand
<1> QED BY <1>2, <1>3, <1>4, SameAll, SameRest, BetweenPromise

LEMMA streamTimeoutPromise ==
    ASSUME ServerInv, ServerInv', PromiseInv, NEW s \in Ids, streamTimeout(s) PROVE PromiseInv'
<1> DEFINE f == Ctl("rst", s)
<1>1. todo = <<>> /\ UNCHANGED <<phase, todo, out, h, msgs>>
  BY DEF streamTimeout, Between
<1>2. StillWaits /\ KeepsHand
  BY <1>1, WaitsSame DEF KeepsHand
<1>3. CASE str' = [str EXCEPT ![s].err = TRUE] /\ UNCHANGED <<want, sc>>
  <2>1. SameLive(str') /\ KeepsStr(str') /\ KeepsLen(str')
    BY <1>3, LiveKept, StrSame
  <2>2. KeepsMail
    BY <1>1, <1>3, MailSame DEF PromiseInv, chans
  <2> QED BY <1>1, <1>2, <1>3, <2>1, <2>2, SameRest, BetweenPromise
<1>4. CASE want' = Append(want, f) /\ sc' = [sc EXCEPT !.fired = @ \cup {"writeTimeout"}] /\ UNCHANGED str
  <2>1. f \in OutFrames /\ Patient(f)
    BY CtlAskedOK, PatientCtl DEF FrameOK
  <2> HIDE DEF f
  <2>2. KeepsMail /\ KeepsWin(sc')
    BY <1>1, <1>4, <2>1, FrameAsked, FiredWin
  <2> QED BY <1>1, <1>2, <1>4, <2>2, SameAll, SameRest, BetweenPromise
<1> QED BY <1>3, <1>4 DEF streamTimeout

LEMMA writeFrameAsyncPromise ==
    ASSUME ServerInv, ServerInv', PromiseInv, writeFrameAsync PROVE PromiseInv'
<1> DEFINE a == IF out.open THEN "ok" ELSE "err"
<1>1. out' = [out EXCEPT !.res = a] /\ todo = <<>> /\ UNCHANGED <<phase, todo, sc, str, h, want, msgs>>
  BY DEF writeFrameAsync, Between, chans
<1>2. KeepsHand
  <2>1. out \in Outs
    BY Facts DEF OutOK
  <2> HIDE DEF a
  <2> QED BY <1>1, <2>1 DEF KeepsHand, Outs
<1>3. KeepsMail /\ StillWaits
  BY <1>1, MailSame, WaitsSame DEF PromiseInv, chans
<1> QED BY <1>1, <1>2, <1>3, SameAll, SameRest, BetweenPromise

LEMMA StutterPromise == ASSUME ServerInv, ServerInv', PromiseInv, UNCHANGED vars PROVE PromiseInv'
<1>1. UNCHANGED <<phase, todo, sc, str, out, h, want, msgs>>
  BY DEF vars
<1>2. AnswerInv'
  BY <1>1 DEF PromiseInv, AnswerInv, Orderly, Answered, Closed, Used, InHand, Asked, Pushing, Queued, Writing,
              Carried, Closing
<1>3. HeldBytes' = HeldBytes
  BY <1>1, SameAll, SameRest, BytesSame
<1>4. BytesInv'
  BY <1>1, <1>3 DEF PromiseInv, BytesInv
<1> QED BY <1>2, <1>4 DEF PromiseInv

LEMMA handlerOverPromise ==
    ASSUME ServerInv, ServerInv', PromiseInv, NEW s \in Ids, handlerOver(s) PROVE PromiseInv'
<1> DEFINE r1 == [h[s] EXCEPT !.pc = "gone"]
           r2 == [h[s] EXCEPT !.pc = "run", !.n = 0]
<1>1. PICK m : m = <<"done">>
  OBVIOUS
<1>2. todo = <<>> /\ UNCHANGED <<phase, todo, sc, str, out, want>>
  BY DEF handlerOver, Between, KeepServe
<1>3. \/ h[s].pc = "over" /\ h' = [h EXCEPT ![s] = r1] /\ (msgs' = Append(msgs, m) \/ UNCHANGED msgs)
      \/ h[s].pc = "reading" /\ phase # "serving" /\ h' = [h EXCEPT ![s] = r2] /\ UNCHANGED msgs
  BY <1>1, Zenon DEF handlerOver, Serving
<1>4. r1.pc = "gone" /\ r1.n = h[s].n /\ r2.pc = "run" /\ r2.n = 0 /\ h \in [Ids -> HandlerRecs]
  <2>1. h \in [Ids -> HandlerRecs] /\ h[s] \in HandlerRecs
    BY Facts
  <2> QED BY <2>1, Zenon DEF HandlerRecs
<1> HIDE DEF r1, r2
<1>5. KeepsMail /\ KeepsHand
  <2>1. KeepsHand
    BY <1>2 DEF KeepsHand
  <2>2. KeepsMail
    BY <1>2, <1>3, MessageLeft, MailSame DEF chans, PromiseInv
  <2> QED BY <2>1, <2>2
<1>6. StillWaits
  BY <1>3, <1>4, GoesOn
<1>7. CASE h[s].pc = "over" /\ h' = [h EXCEPT ![s] = r1]
  <2>1. KeepsRead(h')
    BY <1>4, <1>7, ReadStep
  <2> QED BY <1>2, <1>5, <1>6, <2>1, SameAll, SameRest, BetweenPromise
<1>8. CASE h[s].pc = "reading" /\ phase # "serving" /\ h' = [h EXCEPT ![s] = r2]
  <2>1. AnswerInv'
    BY <1>2, <1>5, <1>6, SameRest, BetweenAnswers DEF PromiseInv
  <2>2. BytesInv'
    <3>1. \A u \in Ids : h'[u] = IF u = s THEN r2 ELSE h[u]
      BY <1>4, <1>8
    <3> QED BY <1>2, <1>4, <1>8, <3>1 DEF PromiseInv, BytesInv
  <2> QED BY <2>1, <2>2 DEF PromiseInv
<1> QED BY <1>3, <1>7, <1>8

(* What a buffer or a handler holds changes for one stream.                *)
LEMMA HeldMoves ==
    ASSUME ServerInv, ServerInv', KeepsWin(sc'), NEW s \in Ids,
           \A u \in Ids \ {s} : Buffer'[u] = Buffer[u] /\ Reading'[u] = Reading[u],
           NEW n \in Int, Buffer'[s] + Reading'[s] + n >= Buffer[s] + Reading[s]
    PROVE  HeldBytes' + n >= HeldBytes
<1>1. PICK b : b = Buffer
  OBVIOUS
<1>2. PICK c : c = Buffer'
  OBVIOUS
<1>3. PICK r : r = Reading
  OBVIOUS
<1>4. PICK q : q = Reading'
  OBVIOUS
<1>5. b \in [Ids -> Int] /\ c \in [Ids -> Int] /\ r \in [Ids -> Int] /\ q \in [Ids -> Int]
  BY <1>1, <1>2, <1>3, <1>4, HeldParts, HeldPartsNext
<1>6. \A u \in Ids \ {s} : c[u] = b[u]
  BY <1>1, <1>2
<1>7. \A u \in Ids \ {s} : q[u] = r[u]
  BY <1>3, <1>4
<1>8. Total(b) \in Int /\ Total(c) = Total(b) - b[s] + c[s]
  BY <1>5, <1>6, TotalChanged
<1>9. Total(r) \in Int /\ Total(q) = Total(r) - r[s] + q[s]
  BY <1>5, <1>7, TotalChanged
<1>10. c[s] + q[s] + n >= b[s] + r[s]
  BY <1>1, <1>2, <1>3, <1>4
<1>11. sc.avail \in Int /\ sc.unsent \in Int /\ sc'.avail = sc.avail /\ sc'.unsent = sc.unsent
  BY HeldParts DEF KeepsWin
<1>12. HeldBytes = sc.avail + sc.unsent + Total(b) + Total(r)
  BY <1>1, <1>3 DEF HeldBytes
<1>13. HeldBytes' = sc'.avail + sc'.unsent + Total(c) + Total(q)
  BY <1>2, <1>4, HeldPartsNext
<1>14. b[s] \in Int /\ c[s] \in Int /\ r[s] \in Int /\ q[s] \in Int
  BY <1>5
<1> QED BY <1>8, <1>9, <1>10, <1>11, <1>12, <1>13, <1>14

LEMMA handlerReadPromise ==
    ASSUME ServerInv, ServerInv', PromiseInv, NEW s \in Ids, NEW n \in 1 .. 2, handlerRead(s, n) PROVE PromiseInv'
<1> DEFINE a == str[s].len - n
           r == [h[s] EXCEPT !.pc = "reading", !.n = n]
<1>1. /\ h[s].pc = "run" /\ str' = [str EXCEPT ![s].len = a] /\ str[s].body
      /\ \/ phase = "serving" /\ h' = [h EXCEPT ![s] = r]
         \/ phase # "serving" /\ h' = h
      /\ todo = <<>> /\ UNCHANGED <<phase, todo, sc, out, want, msgs>>
  BY Zenon DEF handlerRead, Running, Between, KeepServe, chans, Serving
<1>2. h[s] \in HandlerRecs /\ h \in [Ids -> HandlerRecs] /\ str \in [Ids -> StreamRecs]
  BY Facts
<1>3. a \in Int /\ a + n = str[s].len
  BY <1>2 DEF StreamRecs
<1> HIDE DEF a
<1>4. /\ \A u \in Ids : str'[u].st = str[u].st /\ str'[u].cw = str[u].cw /\ str'[u].body = str[u].body
      /\ \A u \in Ids \ {s} : str'[u] = str[u]
      /\ str'[s].len = a
  BY <1>1, <1>2 DEF StreamRecs
<1>5. r.pc = "reading" /\ r.n = n
  BY <1>2, Zenon DEF HandlerRecs
<1> HIDE DEF r
<1>6. KeepsStr(str')
  BY <1>4 DEF KeepsStr
<1>7. StillWaits
  BY <1>1, <1>5, GoesOn, WaitsSame
<1>8. KeepsMail /\ KeepsHand
  BY <1>1, MailSame DEF chans, PromiseInv, KeepsHand
<1>9. AnswerInv'
  BY <1>1, <1>6, <1>7, <1>8, BetweenAnswers DEF PromiseInv
<1>10. BytesInv'
  <2>1. PICK items : items = <<>>
    OBVIOUS
  <2>2. Grow(items) /\ IsSeq(items) /\ Owes(items, 0)
    BY <1>1, <2>1, StayGrows, TidyEmpty, TidyParts
  <2>3. \A u \in Ids : ~str'[u].body => str'[u].len = 0
    BY <1>1, <1>4 DEF PromiseInv, BytesInv
  <2>4. h' = [h EXCEPT ![s] = r] => \A u \in Ids : h'[u] = IF u = s THEN r ELSE h[u]
    BY <1>2
  <2>5. \A u \in Ids : h'[u].pc # "reading" => h'[u].n = 0
    BY <1>1, <1>5, <2>4 DEF PromiseInv, BytesInv
  <2>6. ASSUME phase' = "serving" PROVE HeldBytes' + 0 >= HeldBytes + 0
    <3>1. \A u \in Ids : h'[u] = IF u = s THEN r ELSE h[u]
      BY <1>1, <2>4, <2>6
    <3>2. h[s].n = 0
      BY <1>1 DEF PromiseInv, BytesInv
    <3>3. /\ Buffer[s] = (IF live(s) THEN str[s].len ELSE 0) /\ Buffer'[s] = (IF live(s) THEN a ELSE 0)
          /\ Reading[s] = 0 /\ Reading'[s] = n
      BY <1>4, <1>5, <3>1, <3>2 DEF Buffer, Reading, live
    <3>4. \A u \in Ids \ {s} : Buffer'[u] = Buffer[u] /\ Reading'[u] = Reading[u]
      BY <1>4, <3>1 DEF Buffer, Reading, live
    <3>5. Buffer'[s] + Reading'[s] + 0 >= Buffer[s] + Reading[s]
      <4>1. CASE live(s)
        BY <1>3, <3>3, <4>1
      <4>2. CASE ~live(s)
        BY <3>3, <4>2
      <4> QED BY <4>1, <4>2
    <3>6. HeldBytes' + 0 >= HeldBytes
      BY <1>1, <3>4, <3>5, SameRest, HeldMoves
    <3> QED BY <3>6, HeldParts
  <2> QED BY <1>1, <2>2, <2>3, <2>5, <2>6, BytesStep DEF PromiseInv
<1> QED BY <1>9, <1>10 DEF PromiseInv

LEMMA serveBodyReadPromise ==
    ASSUME ServerInv, ServerInv', PromiseInv, NEW s \in Ids, serveBodyRead(s) PROVE PromiseInv'
<1> DEFINE r == [h[s] EXCEPT !.pc = "run", !.n = 0]
<1>1. PICK n : n = h[s].n
  OBVIOUS
<1>2. PICK c : c = <<"window", 0, n>>
  OBVIOUS
<1>3. PICK d : d = <<"noteBodyRead", s, n>>
  OBVIOUS
<1>4. /\ AtSelect /\ todo = <<>> /\ h[s].pc = "reading" /\ h' = [h EXCEPT ![s] = r] /\ Iterate(<<c, d>>)
      /\ UNCHANGED <<phase, sc, str, out, want, msgs>>
  BY <1>1, <1>2, <1>3, Zenon DEF serveBodyRead, AtSelect, chans
<1>5. h[s] \in HandlerRecs /\ h \in [Ids -> HandlerRecs] /\ n \in Int
  <2>1. h[s] \in HandlerRecs /\ h \in [Ids -> HandlerRecs]
    BY Facts
  <2> QED BY <1>1, <2>1 DEF HandlerRecs
<1>6. r.pc = "run" /\ r.n = 0 /\ r.done = h[s].done
  BY <1>5, Zenon DEF HandlerRecs
<1> HIDE DEF r
<1>7. PICK x : x = <<c>>
  OBVIOUS
<1>8. PICK y : y = <<d, Check>>
  OBVIOUS
<1>9. Given(c) = n /\ Neat(x) /\ Owes(x, n)
  <2>1. c[1] = "window" /\ c[2] = 0 /\ c[3] = n
    BY <1>2
  <2>2. Given(c) = n
    BY <2>1 DEF Given
  <2>3. Neat(x)
    BY <1>7, <2>1, NeatOne
  <2>4. Owes(x, n)
    BY <1>5, <1>7, <2>2, OwesOne
  <2> QED BY <2>2, <2>3, <2>4
<1>10. Tidy(y) /\ Neat(y) /\ Owes(y, 0)
  <2>1. PICK e : e = Check
    OBVIOUS
  <2>2. d[1] = "noteBodyRead" /\ e[1] = "check"
    BY <1>3, <2>1 DEF Check
  <2>3. Tidy(<<d, e>>)
    BY <2>2, TidyTwo
  <2>4. Tidy(y)
    BY <1>8, <2>1, <2>3
  <2> QED BY <2>4, TidyParts
<1>11. PICK items : items = x \o y
  OBVIOUS
<1>12. Neat(items) /\ IsSeq(items) /\ Owes(items, n)
  <2>1. Neat(x \o y)
    BY <1>9, <1>10, NeatConcat
  <2>2. IsSeq(x) /\ IsSeq(y)
    BY <1>9, <1>10 DEF Neat
  <2>3. Owes(x \o y, n + 0)
    BY <1>9, <1>10, <2>2, OwesConcat
  <2>4. n + 0 = n
    BY <1>5
  <2>5. Owes(x \o y, n)
    BY <2>3, <2>4
  <2> QED BY <1>11, <2>1, <2>5 DEF Neat
<1>13. Grow(items)
  <2>1. items = <<c, d>> \o <<Check>>
    BY <1>7, <1>8, <1>11
  <2>2. Grow(<<c, d>> \o <<Check>>)
    BY <1>4, IterateGrows
  <2> QED BY <2>1, <2>2
<1>14. \A u \in Ids : h'[u] = IF u = s THEN r ELSE h[u]
  BY <1>4, <1>5
<1>15. KeepsPc(h')
  BY <1>4, <1>6, <1>14 DEF KeepsPc
<1>16. KeepsHand /\ KeepsMail /\ KeepsStr(str')
  BY <1>4, SameRest, MailSame DEF KeepsHand, PromiseInv, chans
<1>17. AnswerInv'
  BY <1>4, <1>12, <1>13, <1>15, <1>16, AnswerKept DEF PromiseInv
<1>18. BytesInv'
  <2>1. \A u \in Ids : ~str'[u].body => str'[u].len = 0
    BY <1>4 DEF PromiseInv, BytesInv
  <2>2. \A u \in Ids : h'[u].pc # "reading" => h'[u].n = 0
    BY <1>6, <1>14 DEF PromiseInv, BytesInv
  <2>3. \A u \in Ids \ {s} : Buffer'[u] = Buffer[u] /\ Reading'[u] = Reading[u]
    BY <1>4, <1>14 DEF Buffer, Reading, live
  <2>4. Buffer'[s] = Buffer[s] /\ Reading[s] = n /\ Reading'[s] = 0
    BY <1>1, <1>4, <1>6, <1>14 DEF Buffer, Reading, live
  <2>5. Buffer[s] \in Int
    BY HeldParts
  <2>6. Buffer'[s] + Reading'[s] + n >= Buffer[s] + Reading[s]
    BY <1>5, <2>4, <2>5
  <2>7. HeldBytes' + n >= HeldBytes
    BY <1>4, <1>5, <2>3, <2>6, SameRest, HeldMoves
  <2>8. HeldBytes' + n >= HeldBytes + 0
    BY <2>7, HeldParts
  <2> QED BY <1>4, <1>5, <1>12, <1>13, <2>1, <2>2, <2>8, BytesStep DEF PromiseInv
<1> QED BY <1>17, <1>18 DEF PromiseInv

-----------------------------------------------------------------------------
(* The invariant holds initially and is kept by every step.                *)
LEMMA InitPromise == ASSUME Init PROVE PromiseInv
<1> DEFINE up == IF "upgrade" \in scen.events THEN 1 ELSE 0
<1>1. PICK c : c = <<"write", Ctl("settings", 0)>>
  OBVIOUS
<1>2. /\ phase = "serving" /\ todo = <<c, Check>> /\ want = <<>> /\ sc = NewConn(up)
  BY <1>1 DEF Init
<1>3. sc.avail = ConnRecv /\ sc.unsent = 0
  <2> HIDE DEF up
  <2> QED BY <1>2, Zenon DEF NewConn
<1> HIDE DEF up
<1>4. Tidy(todo)
  <2>1. PICK d : d = Check
    OBVIOUS
  <2>2. d[1] = "check" /\ c[1] = "write"
    BY <1>1, <2>1 DEF Check
  <2>3. Patient(c[2])
    <3>1. c[2] = Ctl("settings", 0)
      BY <1>1
    <3> QED BY <3>1, PatientCtl
  <2>4. Tidy(<<c, d>>)
    BY <2>2, <2>3, TidyTwo
  <2> QED BY <1>2, <2>1, <2>4
<1>5. /\ \A s \in Ids : /\ str[s].len = 0 /\ h[s].n = 0 /\ h[s].pc \in {"none", "run"}
                        /\ str[s].st # "closed" /\ (h[s].pc = "run" => str[s].st # "idle")
  <2> DEFINE r == [NoStream EXCEPT !.st = "halfRemote", !.win = StreamSend, !.avail = StreamRecv]
             g == [NoHandler EXCEPT !.pc = "run"]
  <2>1. /\ r.st = "halfRemote" /\ r.len = 0 /\ NoStream.st = "idle" /\ NoStream.len = 0
        /\ g.pc = "run" /\ g.n = 0 /\ NoHandler.pc = "none" /\ NoHandler.n = 0
    BY DEF NoStream, NoHandler
  <2>2. /\ str = [s \in Ids |-> IF Upgraded(s) THEN r ELSE NoStream]
        /\ h = [s \in Ids |-> IF Upgraded(s) THEN g ELSE NoHandler]
    BY Zenon DEF Init
  <2> HIDE DEF r, g
  <2>3. \A s \in Ids : /\ str[s] = IF Upgraded(s) THEN r ELSE NoStream
                       /\ h[s] = IF Upgraded(s) THEN g ELSE NoHandler
    BY <2>2
  <2> QED BY <2>1, <2>3
<1>6. AnswerInv
  <2>1. Len(want) = 0
    BY <1>2
  <2>2. Orderly
    BY <1>4, <2>1 DEF Orderly, Tidy, Neat
  <2> QED BY <1>5, <2>2 DEF AnswerInv, Answered, Closed, Used
<1>7. BytesInv
  <2>1. Owes(todo, 0)
    BY <1>4, TidyParts
  <2>2. PICK b : b = Buffer
    OBVIOUS
  <2>3. PICK r : r = Reading
    OBVIOUS
  <2>4. DOMAIN b = Ids /\ \A s \in Ids : b[s] = 0
    BY <1>5, <2>2 DEF Buffer
  <2>5. DOMAIN r = Ids /\ \A s \in Ids : r[s] = 0
    BY <1>5, <2>3 DEF Reading
  <2>6. Total(b) = 0 /\ Total(r) = 0
    BY <2>4, <2>5, TotalZero
  <2>7. ConnRecv \in Int
    BY WindowsAssumption
  <2>8. HeldBytes = sc.avail + sc.unsent + Total(b) + Total(r)
    BY <2>2, <2>3 DEF HeldBytes
  <2>9. HeldBytes + 0 >= ConnRecv
    BY <1>3, <2>6, <2>7, <2>8
  <2> QED BY <1>5, <2>1, <2>9 DEF BytesInv
<1> QED BY <1>6, <1>7 DEF PromiseInv

LEMMA SelectKeepsPromise ==
    ASSUME ServerInv, ServerInv', StreamInv, PromiseInv, Select PROVE PromiseInv'
BY serveWantWritePromise, serveWrotePromise, serveReadErrorPromise, serveTimerPromise, handlerDonePromise,
   startPushPromise, serveReadPromise, serveBodyReadPromise, Zenon DEF Select

LEMMA CallKeepsPromise ==
    ASSUME ServerInv, ServerInv', StreamInv, PromiseInv, Call PROVE PromiseInv'
BY writeFramePromise, scheduleFrameWritePromise, LoopOwnPromise, LoopControlPromise, LoopFlushPromise,
   LoopEndPromise, LoopStreamPromise, startFrameWritePromise, startPushWritePromise, wroteFramePromise,
   replyToWriterPromise, resetStreamPromise, resetQueuedPromise, sendWindowUpdatePromise, closeStreamPromise,
   closeStreamRestPromise, goAwayPromise, endOfIterationPromise, finishedPromise, noteBodyReadPromise,
   processOtherPromise, processSettingsPromise, processTrailerHeadersPromise, processHeadersPromise,
   processDataUnwantedPromise, processDataPromise, endStreamPromise, processWindowUpdatePromise,
   processResetStreamPromise, processRestPromise, Zenon DEF Call

LEMMA NextPromise ==
    ASSUME ServerInv, ServerInv', StreamInv, PromiseInv, Next PROVE PromiseInv'
<1>1. ASSUME NEW s \in Ids, Handler(s) PROVE PromiseInv'
  BY <1>1, handlerHeadersPromise, handlerReturnPromise, handlerPanicsPromise, handlerAnsweredPromise,
     handlerContinuePromise, handlerCloseBodyPromise, handlerPushPromise, handlerOverPromise, handlerDataPromise,
     handlerReadPromise, Zenon DEF Handler
<1> QED BY <1>1, SelectKeepsPromise, CallKeepsPromise, writeFrameAsyncPromise, streamTimeoutPromise,
           timerFiresPromise, Zenon DEF Next

LEMMA PromiseAlways == Spec => [](ServerInv /\ StreamInv /\ PromiseInv)
<1>1. Init => ServerInv /\ StreamInv /\ PromiseInv
  BY InitKeeps, InitStreams, InitPromise
<1>2. ServerInv /\ StreamInv /\ PromiseInv /\ [Next]_vars => (ServerInv /\ StreamInv /\ PromiseInv)'
  <2> SUFFICES ASSUME ServerInv, StreamInv, PromiseInv, [Next]_vars PROVE (ServerInv /\ StreamInv /\ PromiseInv)'
    OBVIOUS
  <2>1. ServerInv'
    BY NextKeeps, StutterKeeps
  <2>2. StreamInv'
    BY NextStreams, StutterStreams
  <2>3. PromiseInv'
    BY <2>1, NextPromise, StutterPromise
  <2> QED BY <2>1, <2>2, <2>3
<1> QED BY <1>1, <1>2, PTL DEF Spec

(* No byte of the connection's receive window is ever lost (processData,   *)
(* noteBodyRead, closeStream, sendWindowUpdate): what the client may not   *)
(* send is still to be announced, lies in the body of a live stream, or is *)
(* on its way from a handler that has read it.                             *)
THEOREM ConnWindowNotLostAlways == Spec => []ConnWindowNotLost
<1>1. ServerInv /\ StreamInv /\ PromiseInv => ConnWindowNotLost
  <2> SUFFICES ASSUME ServerInv, BytesInv, phase = "serving", todo = <<>>
               PROVE  sc.avail + sc.unsent + Total([s \in Ids |-> IF live(s) THEN str[s].len ELSE 0])
                        + Total([s \in Ids |-> h[s].n]) >= ConnRecv
    BY DEF ConnWindowNotLost, Quiescent, PromiseInv
  <2>1. PICK n \in Int : Owes(todo, n) /\ HeldBytes + n >= ConnRecv
    BY DEF BytesInv
  <2>2. n = 0
    <3>1. Len(todo) = 0
      OBVIOUS
    <3> QED BY <2>1, <3>1 DEF Owes
  <2>3. HeldBytes >= ConnRecv
    BY <2>1, <2>2, HeldParts
  <2> QED BY <2>3 DEF HeldBytes, Buffer, Reading
<1> QED BY <1>1, PromiseAlways, PTL

(* A handler that waits is never left waiting (writeFrameFromHandler,      *)
(* writeFrame, closeStream, wroteFrame): its frame is in wantWriteFrameCh, *)
(* queued or being written, or one of the channels it selects on is ready. *)
THEOREM WritersAnsweredAlways == Spec => []WritersAnswered
<1>1. ServerInv /\ StreamInv /\ PromiseInv => WritersAnswered
  <2> SUFFICES ASSUME ServerInv, AnswerInv, phase = "serving", todo = <<>>, NEW s \in Ids, h[s].pc = "wait"
               PROVE  h[s].done \/ str[s].cw \/ Pending(s)
    BY DEF WritersAnswered, Quiescent, PromiseInv
  <2>1. Len(todo) = 0
    OBVIOUS
  <2>2. ~Carried(s) /\ ~Closing(s)
    BY <2>1 DEF Carried, Closing
  <2>3. IsSeq(want) /\ IsSeq(msgs) /\ out \in Outs
    BY Channels, Facts DEF IsSeq, OutOK
  <2>4. Asked(s) => Pending(s)
    <3>1. DOMAIN want = 1 .. Len(want)
      BY <2>3 DEF IsSeq
    <3> QED BY <3>1 DEF Asked, Pending
  <2>5. Pushing(s) => Pending(s)
    <3>1. DOMAIN msgs = 1 .. Len(msgs)
      BY <2>3 DEF IsSeq
    <3> QED BY <3>1 DEF Pushing, Pending
  <2>6. Queued(s) => Pending(s)
    <3>1. out.q[s] \in Seq(OutFrames)
      BY <2>3 DEF Outs
    <3>2. DOMAIN (out.q[s]) = 1 .. Len(out.q[s])
      BY <3>1
    <3> QED BY <3>2 DEF Queued, Pending
  <2>7. Writing(s) => Pending(s)
    BY DEF Writing, Pending
  <2>8. Answered(s)
    BY DEF AnswerInv
  <2> QED BY <2>2, <2>4, <2>5, <2>6, <2>7, <2>8 DEF Answered, InHand
<1> QED BY <1>1, PromiseAlways, PTL

=============================================================================
