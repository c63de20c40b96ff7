---------------------------- MODULE Server_proofs ----------------------------
(***************************************************************************)
(* Proofs about Server, for any stream ids, limits, windows and scenarios. *)
(***************************************************************************)
EXTENDS Server, DataLemmas, FiniteSetTheorems, TLAPS

Codes == {"no", "protocol", "size", "calm", "flow"}

Conns == [maxClient : Nat, maxPush : {n \in Nat : ~Odd(n)}, nClient : Int, nPushed : Int, handlers : Int,
          unstarted : Seq(Ids), inGoAway : BOOLEAN, needGoAway : BOOLEAN, code : Codes,
          needAck : BOOLEAN, unacked : Int, saw : BOOLEAN, push : BOOLEAN, ping : BOOLEAN,
          timer : BOOLEAN, fired : SUBSET (Timers \cup {"continue", "writeTimeout"}),
          cwin : Int, swin : Int, avail : Int, unsent : Int]

StreamRecs == [st : {"idle", "open", "halfLocal", "halfRemote", "closed"}, resetQueued : BOOLEAN,
               gotTrailer : BOOLEAN, wroteHeaders : BOOLEAN, body : BOOLEAN, len : Int, decl : Int,
               got : Int, err : BOOLEAN, broken : BOOLEAN, win : Int, avail : Int, unsent : Int,
               cw : BOOLEAN]

HandlerRecs == [pc : {"none", "queued", "run", "wait", "reading", "over", "gone"}, sent : BOOLEAN,
                head : BOOLEAN, fin : BOOLEAN, done : BOOLEAN, n : Nat, k : Nat]

Outs == [ctl : Seq(OutFrames), q : [Ids -> Seq(OutFrames)], queued : Int, cur : OutFrames \cup {None},
         async : BOOLEAN, res : {"none", "ok", "err"}, flush : BOOLEAN, open : BOOLEAN]

Wires == [ended : SUBSET (Ids \cup {0}), reset : SUBSET (Ids \cup {0}), headers : SUBSET (Ids \cup {0}),
          bad : SUBSET OutFrames, last : Nat \cup {None}]

IsSeq(q) == \E S : q \in Seq(S)

Types ==
    /\ scen \in Scenarios
    /\ phase \in {"serving", "closing", "done", "panic"}
    /\ sc \in Conns
    /\ str \in [Ids -> StreamRecs]
    /\ h \in [Ids -> HandlerRecs]
    /\ out \in Outs
    /\ out.res # "none" => out.async
    /\ out.async => out.cur # None
    /\ want \in Seq(OutFrames)
    /\ IsSeq(msgs) /\ \A i \in 1 .. Len(msgs) : msgs[i][1] = "push" => msgs[i][2] \in Ids
    /\ inputs \in Nat
    /\ wire \in Wires

(* A frame to write is well-formed: only some kinds are without stream, and *)
(* a GOAWAY names an id at or above those in K.                             *)
FrameOK(f, K) ==
    /\ f \in OutFrames
    /\ f.s = 0 => f.t \in {"settings", "ping", "goaway", "ack", "flush", "wu"}
    /\ f.t = "goaway" => \A s \in K : s <= f.n

(* A call of the serve loop has arguments of its kind.                     *)
CallOK(c, K) ==
    /\ c[1] \in {"write", "start", "wrote", "reply"} => FrameOK(c[2], K)
    /\ c[1] = "wrote" => c[3] \in {"ok", "err"}
    /\ c[1] \in {"reset", "resetQueued", "close", "closeRest", "endStream", "noteBodyRead"} => c[2] \in Ids
    /\ c[1] = "window" => c[2] \in Ids \cup {0} /\ c[3] \in Int
    /\ c[1] = "noteBodyRead" => c[3] \in Int
    /\ c[1] = "goAway" => c[2] \in Codes
    /\ c[1] = "frame" => c[2] \in InFrames

CallsOK(q, K) == IsSeq(q) /\ \A i \in 1 .. Len(q) : CallOK(q[i], K)

QueueOK(q, K) == \A i \in 1 .. Len(q) : FrameOK(q[i], K)

(* All frames there are, wherever they wait, and the last GOAWAY written.  *)
Frames(td, o, w, wr, K) ==
    /\ CallsOK(td, K)
    /\ QueueOK(o.ctl, K)
    /\ \A s \in Ids : QueueOK(o.q[s], K) /\ \A i \in 1 .. Len(o.q[s]) : o.q[s][i].s = s
    /\ o.cur # None => FrameOK(o.cur, K)
    /\ QueueOK(w, K)
    /\ wr.last # None => \A s \in K : s <= wr.last

(* Requests of the client that have a handler.                             *)
Known == {s \in Ids : Odd(s) /\ h[s].pc # "none"}

(* Before a GOAWAY is due, no number bounds the requests that may still    *)
(* start; afterwards they are the ones known.                              *)
Reach == IF sc.inGoAway THEN Known ELSE Nat

Numbers ==
    /\ \A s \in Known : s <= sc.maxClient
    /\ \A i \in 1 .. Len(sc.unstarted) : h[sc.unstarted[i]].pc # "none"
    /\ sc.needGoAway => sc.inGoAway

ServerInv == Types /\ Frames(todo, out, want, wire, Reach) /\ Numbers

-----------------------------------------------------------------------------
(* Sequences of calls of any kind.                                         *)
LEMMA EmptyOK == ASSUME NEW K PROVE CallsOK(<<>>, K)
<1>1. <<>> \in Seq({}) /\ Len(<<>>) = 0
  OBVIOUS
<1> QED BY <1>1 DEF CallsOK, IsSeq

LEMMA OneOK == ASSUME NEW K, NEW c, CallOK(c, K) PROVE CallsOK(<<c>>, K)
<1>1. PICK q : q = <<c>>
  OBVIOUS
<1>2. q \in Seq({c}) /\ Len(q) = 1 /\ q[1] = c
  BY <1>1
<1>3. CallsOK(q, K)
  BY <1>2 DEF CallsOK, IsSeq
<1> QED BY <1>1, <1>3

LEMMA ConcatOK ==
    ASSUME NEW K, NEW a, NEW b, CallsOK(a, K), CallsOK(b, K)
    PROVE  CallsOK(a \o b, K)
<1>1. PICK S : a \in Seq(S)
  BY DEF CallsOK, IsSeq
<1>2. PICK T : b \in Seq(T)
  BY DEF CallsOK, IsSeq
<1> DEFINE U == S \cup T
<1>3. a \in Seq(U) /\ b \in Seq(U)
  BY <1>1, <1>2
<1> HIDE DEF U
<1>4. a \o b \in Seq(U) /\ Len(a \o b) = Len(a) + Len(b)
  BY <1>3
<1>5. ASSUME NEW i \in 1 .. Len(a \o b) PROVE CallOK((a \o b)[i], K)
  <2>1. CASE i <= Len(a)
    <3>1. (a \o b)[i] = a[i] /\ i \in 1 .. Len(a)
      BY <1>3, <2>1
    <3> QED BY <3>1 DEF CallsOK
  <2>2. CASE i > Len(a)
    <3>1. (a \o b)[i] = b[i - Len(a)] /\ i - Len(a) \in 1 .. Len(b)
      BY <1>3, <1>4, <2>2
    <3> QED BY <3>1 DEF CallsOK
  <2>3. i <= Len(a) \/ i > Len(a)
    BY <1>3
  <2> QED BY <2>1, <2>2, <2>3
<1> QED BY <1>4, <1>5 DEF CallsOK, IsSeq

LEMMA TwoOK ==
    ASSUME NEW K, NEW c, CallOK(c, K), NEW d, CallOK(d, K)
    PROVE  CallsOK(<<c, d>>, K)
<1>1. <<c, d>> = <<c>> \o <<d>>
  OBVIOUS
<1> QED BY <1>1, OneOK, ConcatOK

LEMMA HeadOK ==
    ASSUME NEW K, CallsOK(todo, K), todo # <<>>
    PROVE  CallOK(Head(todo), K) /\ CallsOK(Tail(todo), K)
<1>1. PICK S : todo \in Seq(S)
  BY DEF CallsOK, IsSeq
<1>2. Len(todo) \in Nat /\ Len(todo) > 0 /\ Head(todo) = todo[1]
  BY <1>1
<1>3. Tail(todo) \in Seq(S) /\ Len(Tail(todo)) = Len(todo) - 1
      /\ \A i \in 1 .. Len(todo) - 1 : Tail(todo)[i] = todo[i + 1]
  BY <1>1
<1>4. CallOK(Head(todo), K)
  BY <1>2 DEF CallsOK
<1>5. \A i \in 1 .. Len(Tail(todo)) : CallOK(Tail(todo)[i], K)
  BY <1>2, <1>3 DEF CallsOK
<1> QED BY <1>3, <1>4, <1>5 DEF CallsOK, IsSeq

LEMMA ThenOK ==
    ASSUME NEW K, CallsOK(todo, K), todo # <<>>, NEW items, CallsOK(items, K), Then(items)
    PROVE  CallsOK(todo', K)
<1>1. CallsOK(items \o Tail(todo), K)
  BY HeadOK, ConcatOK
<1> QED BY <1>1 DEF Then

LEMMA IterateOK ==
    ASSUME NEW K, NEW items, CallsOK(items, K), Iterate(items)
    PROVE  CallsOK(todo', K)
<1>1. CallOK(Check, K)
  BY DEF CallOK, Check
<1>2. CallsOK(items \o <<Check>>, K)
  BY <1>1, OneOK, ConcatOK
<1> QED BY <1>2 DEF Iterate

-----------------------------------------------------------------------------
(* The fewer ids a GOAWAY has to bound, the better.                        *)
LEMMA FewerFrame ==
    ASSUME NEW K, NEW L, L \subseteq K, NEW f, FrameOK(f, K) PROVE FrameOK(f, L)
BY DEF FrameOK

LEMMA FewerCall ==
    ASSUME NEW K, NEW L, L \subseteq K, NEW c, CallOK(c, K) PROVE CallOK(c, L)
BY FewerFrame DEF CallOK

LEMMA FewerFrames ==
    ASSUME NEW K, NEW L, L \subseteq K, NEW td, NEW o, NEW w, NEW wr, Frames(td, o, w, wr, K)
    PROVE  Frames(td, o, w, wr, L)
<1>1. CallsOK(td, L)
  BY FewerCall DEF Frames, CallsOK
<1>2. QueueOK(o.ctl, L) /\ QueueOK(w, L) /\ \A s \in Ids : QueueOK(o.q[s], L)
  BY FewerFrame DEF Frames, QueueOK
<1>3. o.cur # None => FrameOK(o.cur, L)
  BY FewerFrame DEF Frames
<1> QED BY <1>1, <1>2, <1>3 DEF Frames

(* Most steps leave the ids and the GOAWAY state alone.                    *)
LEMMA Kept ==
    ASSUME ServerInv, Types', Frames(todo', out', want', wire', Reach),
           sc'.inGoAway = sc.inGoAway, sc'.needGoAway => sc.needGoAway,
           sc'.maxClient >= sc.maxClient, sc'.unstarted = sc.unstarted,
           \A s \in Ids : /\ h[s].pc # "none" => h'[s].pc # "none"
                          /\ Odd(s) /\ h'[s].pc # "none" => h[s].pc # "none"
    PROVE  ServerInv'
<1>1. Known' = Known
  BY DEF Known
<1>2. Reach' = Reach
  BY <1>1 DEF Reach
<1>3. Frames(todo, out, want, wire, Reach)'
  BY <1>2
<1>4. Numbers'
  <2>1. sc \in Conns /\ sc' \in Conns /\ Known \subseteq Nat
    BY IdsAssumption DEF ServerInv, Types, Known
  <2>2. sc.maxClient \in Nat /\ sc'.maxClient \in Nat /\ sc.unstarted \in Seq(Ids)
    BY <2>1 DEF Conns
  <2>3. \A s \in Known' : s <= sc'.maxClient
    BY <1>1, <2>1, <2>2 DEF ServerInv, Numbers
  <2>4. \A i \in 1 .. Len(sc.unstarted) : sc.unstarted[i] \in Ids
    BY <2>2
  <2>5. \A i \in 1 .. Len(sc'.unstarted) : h'[sc'.unstarted[i]].pc # "none"
    BY <2>4 DEF ServerInv, Numbers
  <2> QED BY <2>3, <2>5 DEF ServerInv, Numbers
<1> QED BY <1>3, <1>4 DEF ServerInv

(* A step that only makes calls.                                           *)
LEMMA Calls ==
    ASSUME ServerInv, CallsOK(todo', Reach),
           UNCHANGED <<scen, phase, sc, str, out, h, chans, inputs, wire>>
    PROVE  ServerInv'
<1>1. Types'
  BY DEF ServerInv, Types, chans
<1>2. Frames(todo', out', want', wire', Reach)
  BY DEF ServerInv, Frames, chans
<1>3. sc'.maxClient >= sc.maxClient
  <2>1. sc.maxClient \in Nat
    BY DEF ServerInv, Types, Conns
  <2> QED BY <2>1
<1> QED BY <1>1, <1>2, <1>3, Kept

-----------------------------------------------------------------------------
(* Each action keeps ServerInv: writing.                                   *)
LEMMA CtlOK ==
    ASSUME NEW K, NEW s \in Ids \cup {0},
           NEW t \in {"settings", "ping", "ack", "flush", "rst", "panicRST", "wu", "continue", "headers", "data", "push"},
           NEW n \in Nat, NEW e \in BOOLEAN, NEW w \in BOOLEAN,
           s = 0 => t \in {"settings", "ping", "ack", "flush", "wu"}
    PROVE  FrameOK(Out(t, s, n, e, w), K)
BY DEF FrameOK, Out, OutFrames

LEMMA writeFrameKeeps == ASSUME ServerInv, writeFrame PROVE ServerInv'
<1> DEFINE f == arg
<1>1. todo # <<>> /\ FrameOK(f, Reach)
  BY HeadOK DEF ServerInv, Frames, writeFrame, At, arg, CallOK
<1>2. Then(<<Sched>>) /\ UNCHANGED <<scen, phase, sc, h, chans, inputs, wire>>
      /\ str' = IF f.t = "headers" THEN [str EXCEPT ![f.s].wroteHeaders = TRUE] ELSE str
  BY DEF writeFrame
<1>3. /\ out \in Outs /\ str \in [Ids -> StreamRecs]
      /\ f \in OutFrames /\ f.s \in Ids \cup {0}
  BY <1>1 DEF ServerInv, Types, FrameOK, OutFrames
<1> DEFINE x == Append(out.ctl, f)
           y == Append(out.q[f.s], f)
<1>4. \/ out' = out
      \/ out' = [out EXCEPT !.ctl = x, !.queued = @ + 1]
      \/ ~isControl(f) /\ out' = [out EXCEPT !.q[f.s] = y]
  <2>1. out' = CASE Ignored(f) -> out
                 [] ~Ignored(f) /\ isControl(f) -> [out EXCEPT !.ctl = x, !.queued = @ + 1]
                 [] OTHER -> [out EXCEPT !.q[f.s] = y]
    BY Zenon DEF writeFrame
  <2> HIDE DEF x, y, f
  <2> QED BY <2>1, Zenon
<1>5. ~isControl(f) => f.s \in Ids
  BY <1>1, <1>3 DEF isControl, FrameOK
<1>6. /\ x \in Seq(OutFrames) /\ QueueOK(out.ctl, Reach)
      /\ \A i \in 1 .. Len(x) : x[i] = f \/ \E j \in 1 .. Len(out.ctl) : x[i] = out.ctl[j]
  <2>1. out.ctl \in Seq(OutFrames)
    BY <1>3 DEF Outs
  <2>2. x \in Seq(OutFrames) /\ \A i \in 1 .. Len(x) : x[i] = IF i = Len(out.ctl) + 1 THEN f ELSE out.ctl[i]
    BY <1>3, <2>1
  <2>3. Len(x) = Len(out.ctl) + 1 /\ Len(out.ctl) \in Nat
    BY <1>3, <2>1
  <2> HIDE DEF x
  <2> QED BY <2>2, <2>3 DEF ServerInv, Frames
<1>7. QueueOK(x, Reach)
  <2> HIDE DEF x, f
  <2> QED BY <1>1, <1>6 DEF QueueOK
<1>8. f.s \in Ids => /\ y \in Seq(OutFrames) /\ QueueOK(y, Reach) /\ \A i \in 1 .. Len(y) : y[i].s = f.s
  <2> SUFFICES ASSUME f.s \in Ids
               PROVE  y \in Seq(OutFrames) /\ QueueOK(y, Reach) /\ \A i \in 1 .. Len(y) : y[i].s = f.s
    OBVIOUS
  <2> DEFINE z == out.q[f.s]
  <2>1. z \in Seq(OutFrames) /\ QueueOK(z, Reach) /\ \A i \in 1 .. Len(z) : z[i].s = f.s
    BY <1>3 DEF Outs, ServerInv, Frames
  <2> HIDE DEF z
  <2>2. y = Append(z, f)
    BY DEF z
  <2>3. y \in Seq(OutFrames) /\ \A i \in 1 .. Len(y) : y[i] = f \/ \E j \in 1 .. Len(z) : y[i] = z[j]
    BY <1>3, <2>1, <2>2
  <2> HIDE DEF y, f
  <2> QED BY <1>1, <2>1, <2>3 DEF QueueOK
<1> HIDE DEF x, y, f
<1>9. /\ out' \in Outs /\ out'.res = out.res /\ out'.cur = out.cur /\ out'.async = out.async
      /\ QueueOK(out'.ctl, Reach)
      /\ \A s \in Ids : QueueOK(out'.q[s], Reach) /\ \A i \in 1 .. Len(out'.q[s]) : out'.q[s][i].s = s
  <2>0. /\ QueueOK(out.ctl, Reach)
        /\ \A s \in Ids : QueueOK(out.q[s], Reach) /\ \A i \in 1 .. Len(out.q[s]) : out.q[s][i].s = s
    BY DEF ServerInv, Frames
  <2>1. CASE out' = out
    BY <1>3, <2>0, <2>1
  <2>2. CASE out' = [out EXCEPT !.ctl = x, !.queued = @ + 1]
    <3>1. out'.ctl = x /\ out'.q = out.q /\ out' \in Outs /\ out'.res = out.res /\ out'.cur = out.cur /\ out'.async = out.async
      <4>1. out.queued + 1 \in Int
        BY <1>3 DEF Outs
      <4> QED BY <1>3, <1>6, <2>2, <4>1, Zenon DEF Outs
    <3> QED BY <1>7, <2>0, <3>1
  <2>3. CASE f.s \in Ids /\ out' = [out EXCEPT !.q[f.s] = y]
    <3> DEFINE z == [out.q EXCEPT ![f.s] = y]
    <3>1. z \in [Ids -> Seq(OutFrames)] /\ \A s \in Ids : z[s] = IF s = f.s THEN y ELSE out.q[s]
      BY <1>3, <1>8, <2>3 DEF Outs
    <3>2. out' = [out EXCEPT !.q = z]
      BY <2>3
    <3> HIDE DEF z
    <3>3. /\ out'.ctl = out.ctl /\ out' \in Outs /\ out'.res = out.res /\ out'.cur = out.cur /\ out'.async = out.async
          /\ out'.q = z
      BY <1>3, <3>1, <3>2, Zenon DEF Outs
    <3> QED BY <1>8, <2>0, <2>3, <3>1, <3>3
  <2> QED BY <1>4, <1>5, <2>1, <2>2, <2>3
<1>10. str' \in [Ids -> StreamRecs]
  <2>1. CASE f.s \in Ids /\ str' = [str EXCEPT ![f.s].wroteHeaders = TRUE]
    <3> DEFINE r == [str[f.s] EXCEPT !.wroteHeaders = TRUE]
    <3>1. str[f.s] \in StreamRecs
      BY <1>3, <2>1
    <3>2. r \in StreamRecs
      BY <3>1, Zenon DEF StreamRecs
    <3>3. str' = [str EXCEPT ![f.s] = r]
      BY <2>1, Zenon
    <3> HIDE DEF r
    <3> QED BY <1>3, <3>2, <3>3
  <2> QED BY <1>1, <1>2, <1>3, <2>1 DEF FrameOK
<1>11. Types'
  <2>1. UNCHANGED <<scen, phase, sc, h, want, msgs, inputs, wire>>
    BY <1>2 DEF chans
  <2> QED BY <1>9, <1>10, <2>1 DEF ServerInv, Types
<1>12. CallsOK(todo', Reach)
  <2>1. CallOK(Sched, Reach)
    BY DEF CallOK, Sched
  <2> QED BY <1>1, <1>2, <2>1, OneOK, ThenOK DEF ServerInv, Frames
<1>13. Frames(todo', out', want', wire', Reach)
  BY <1>2, <1>9, <1>12 DEF ServerInv, Frames, chans
<1>14. sc.maxClient \in Nat
  BY DEF ServerInv, Types, Conns
<1> QED BY <1>2, <1>11, <1>13, <1>14, Kept

LEMMA scheduleFrameWriteKeeps == ASSUME ServerInv, scheduleFrameWrite PROVE ServerInv'
<1>1. CallsOK(IF out.cur # None \/ InLoop THEN <<>> ELSE <<<<"loop">>>>, Reach)
  <2>1. CallOK(<<"loop">>, Reach)
    BY DEF CallOK
  <2> QED BY <2>1, EmptyOK, OneOK
<1>2. CallsOK(todo', Reach)
  BY <1>1, ThenOK DEF ServerInv, Frames, scheduleFrameWrite, At
<1> QED BY <1>2, Calls DEF scheduleFrameWrite

LEMMA StartOK ==
    ASSUME NEW K, CallsOK(todo, K), NEW f, FrameOK(f, K), Start(f)
    PROVE  CallsOK(todo', K)
<1>1. CallOK(<<"start", f>>, K)
  BY DEF CallOK
<1> QED BY <1>1, OneOK, ConcatOK DEF Start

LEMMA LoopOwnKeeps == ASSUME ServerInv, LoopOwn PROVE ServerInv'
<1>1. UNCHANGED <<scen, phase, str, out, h, want, msgs, inputs, wire>>
  BY DEF LoopOwn, chans
<1>2. sc \in Conns /\ CallsOK(todo, Reach) /\ sc.maxClient \in Nat
  BY DEF ServerInv, Types, Frames, Conns
<1>3. /\ sc' \in Conns /\ CallsOK(todo', Reach)
      /\ sc'.inGoAway = sc.inGoAway /\ (sc'.needGoAway => sc.needGoAway)
      /\ sc'.maxClient = sc.maxClient /\ sc'.unstarted = sc.unstarted
  <2>1. CASE sc.needGoAway /\ sc' = [sc EXCEPT !.needGoAway = FALSE]
             /\ Start([Ctl("goaway", 0) EXCEPT !.n = sc.maxClient])
    <3> DEFINE f == [Ctl("goaway", 0) EXCEPT !.n = sc.maxClient]
    <3>1. f \in OutFrames /\ f.t = "goaway" /\ f.s = 0 /\ f.n = sc.maxClient
      <4>1. Ctl("goaway", 0) \in OutFrames /\ Ctl("goaway", 0).t = "goaway" /\ Ctl("goaway", 0).s = 0
        BY DEF Ctl, Out, OutFrames
      <4> QED BY <1>2, <4>1, Zenon DEF OutFrames
    <3>2. \A s \in Reach : s <= sc.maxClient
      BY <2>1 DEF ServerInv, Numbers, Reach
    <3> HIDE DEF f
    <3>3. FrameOK(f, Reach)
      BY <1>2, <3>1, <3>2 DEF FrameOK
    <3>4. CallsOK(todo', Reach)
      BY <1>2, <2>1, <3>3, StartOK DEF f
    <3>5. sc' \in Conns
      BY <1>2, <2>1, Zenon DEF Conns
    <3>6. /\ sc'.inGoAway = sc.inGoAway /\ (sc'.needGoAway => sc.needGoAway)
          /\ sc'.maxClient = sc.maxClient /\ sc'.unstarted = sc.unstarted
      BY <1>2, <2>1, Zenon DEF Conns
    <3> QED BY <3>4, <3>5, <3>6
  <2>2. CASE sc' = [sc EXCEPT !.needAck = FALSE] /\ Start(Ctl("ack", 0))
    <3>1. FrameOK(Ctl("ack", 0), Reach)
      BY CtlOK DEF Ctl
    <3>2. CallsOK(todo', Reach)
      BY <1>2, <2>2, <3>1, StartOK
    <3>3. sc' \in Conns
      BY <1>2, <2>2, Zenon DEF Conns
    <3>4. /\ sc'.inGoAway = sc.inGoAway /\ (sc'.needGoAway => sc.needGoAway)
          /\ sc'.maxClient = sc.maxClient /\ sc'.unstarted = sc.unstarted
      BY <1>2, <2>2, Zenon DEF Conns
    <3> QED BY <3>2, <3>3, <3>4
  <2> QED BY <2>1, <2>2 DEF LoopOwn
<1>4. Types'
  BY <1>1, <1>3 DEF ServerInv, Types
<1>5. Frames(todo', out', want', wire', Reach)
  BY <1>1, <1>3 DEF ServerInv, Frames
<1> QED BY <1>1, <1>2, <1>3, <1>4, <1>5, Kept

LEMMA LoopControlKeeps == ASSUME ServerInv, LoopControl PROVE ServerInv'
<1>1. UNCHANGED <<scen, phase, sc, str, h, want, msgs, inputs, wire>> /\ out.ctl # <<>>
      /\ Start(Head(out.ctl))
  BY DEF LoopControl, chans
<1> DEFINE x == Tail(out.ctl)
<1>2. out \in Outs /\ CallsOK(todo, Reach) /\ sc.maxClient \in Nat
  BY DEF ServerInv, Types, Frames, Conns
<1>3. out.ctl \in Seq(OutFrames) /\ QueueOK(out.ctl, Reach) /\ out.queued - 1 \in Int
  BY <1>2 DEF Outs, ServerInv, Frames
<1>4. x \in Seq(OutFrames) /\ QueueOK(x, Reach) /\ FrameOK(Head(out.ctl), Reach)
  <2>1. Len(out.ctl) > 0 /\ Head(out.ctl) = out.ctl[1] /\ Len(out.ctl) \in Nat
    BY <1>1, <1>3
  <2>2. x \in Seq(OutFrames) /\ Len(x) = Len(out.ctl) - 1 /\ \A i \in 1 .. Len(out.ctl) - 1 : x[i] = out.ctl[i + 1]
    BY <1>1, <1>3
  <2> QED BY <1>3, <2>1, <2>2 DEF QueueOK
<1>5. out' = [out EXCEPT !.ctl = x, !.queued = @ - 1]
  BY DEF LoopControl
<1> HIDE DEF x
<1>6. out' \in Outs /\ out'.ctl = x /\ out'.q = out.q /\ out'.res = out.res /\ out'.cur = out.cur
      /\ out'.async = out.async
  BY <1>2, <1>3, <1>4, <1>5, Zenon DEF Outs
<1>7. CallsOK(todo', Reach)
  BY <1>1, <1>2, <1>4, StartOK
<1>8. Types'
  BY <1>1, <1>6 DEF ServerInv, Types
<1>9. Frames(todo', out', want', wire', Reach)
  BY <1>1, <1>4, <1>6, <1>7 DEF ServerInv, Frames
<1> QED BY <1>1, <1>2, <1>8, <1>9, Kept

LEMMA LoopFlushKeeps == ASSUME ServerInv, LoopFlush PROVE ServerInv'
<1>1. UNCHANGED <<scen, phase, todo, sc, str, h, want, msgs, inputs, wire>>
      /\ out' = [out EXCEPT !.cur = Ctl("flush", 0), !.async = TRUE, !.flush = FALSE]
  BY DEF LoopFlush, chans
<1>2. out \in Outs /\ sc.maxClient \in Nat
  BY DEF ServerInv, Types, Conns
<1>3. FrameOK(Ctl("flush", 0), Reach)
  BY CtlOK DEF Ctl
<1>4. Ctl("flush", 0) \in OutFrames
  BY <1>3 DEF FrameOK
<1>5. out' \in Outs /\ out'.ctl = out.ctl /\ out'.q = out.q /\ out'.res = out.res
      /\ out'.cur = Ctl("flush", 0) /\ out'.async
  BY <1>1, <1>2, <1>4, Zenon DEF Outs
<1>6. Types'
  BY <1>1, <1>4, <1>5, NoneAssumption DEF ServerInv, Types
<1>7. Frames(todo', out', want', wire', Reach)
  BY <1>1, <1>3, <1>5 DEF ServerInv, Frames
<1> QED BY <1>1, <1>2, <1>6, <1>7, Kept

LEMMA LoopEndKeeps == ASSUME ServerInv, LoopEnd PROVE ServerInv'
<1>1. CallsOK(todo', Reach)
  BY EmptyOK, ThenOK DEF ServerInv, Frames, LoopEnd, At
<1> QED BY <1>1, Calls DEF LoopEnd

(* A conn that a step may leave: only a GOAWAY or a new request needs more. *)
ConnKept(c) ==
    /\ c \in Conns
    /\ c.inGoAway = sc.inGoAway /\ (c.needGoAway => sc.needGoAway)
    /\ c.maxClient >= sc.maxClient /\ c.unstarted = sc.unstarted

LEMMA SameConn == ASSUME ServerInv PROVE ConnKept(sc)
<1>1. sc \in Conns /\ sc.maxClient \in Nat
  BY DEF ServerInv, Types, Conns
<1> QED BY <1>1 DEF ConnKept

(* A step that leaves the frames, the handlers and the wire alone.         *)
LEMMA Bookkeeping ==
    ASSUME ServerInv, ConnKept(sc'), str' \in [Ids -> StreamRecs],
           phase' \in {"serving", "closing", "done", "panic"}, CallsOK(todo', Reach),
           UNCHANGED <<scen, out, h, chans, inputs, wire>>
    PROVE  ServerInv'
<1>1. Types'
  BY DEF ServerInv, Types, chans, ConnKept
<1>2. Frames(todo', out', want', wire', Reach)
  BY DEF ServerInv, Frames, chans
<1> QED BY <1>1, <1>2, Kept DEF ConnKept

LEMMA NumbersKept ==
    ASSUME ServerInv, NEW a \in Int, NEW u \in Int
    PROVE  /\ ConnKept([sc EXCEPT !.avail = a]) /\ ConnKept([sc EXCEPT !.avail = a, !.unsent = u])
           /\ ConnKept([sc EXCEPT !.cwin = a]) /\ ConnKept([sc EXCEPT !.unacked = a])
           /\ ConnKept([sc EXCEPT !.nClient = a]) /\ ConnKept([sc EXCEPT !.nPushed = a])
<1>1. sc \in Conns /\ ConnKept(sc)
  BY SameConn DEF ServerInv, Types
<1>2. ConnKept([sc EXCEPT !.avail = a])
  BY <1>1, Zenon DEF Conns, ConnKept
<1>3. ConnKept([sc EXCEPT !.avail = a, !.unsent = u])
  BY <1>1, Zenon DEF Conns, ConnKept
<1>4. ConnKept([sc EXCEPT !.cwin = a])
  BY <1>1, Zenon DEF Conns, ConnKept
<1>5. ConnKept([sc EXCEPT !.unacked = a])
  BY <1>1, Zenon DEF Conns, ConnKept
<1>6. ConnKept([sc EXCEPT !.nClient = a])
  BY <1>1, Zenon DEF Conns, ConnKept
<1>7. ConnKept([sc EXCEPT !.nPushed = a])
  BY <1>1, Zenon DEF Conns, ConnKept
<1> QED BY <1>2, <1>3, <1>4, <1>5, <1>6, <1>7

LEMMA StrUpdate ==
    ASSUME str \in [Ids -> StreamRecs], NEW s \in Ids, NEW r \in StreamRecs
    PROVE  [str EXCEPT ![s] = r] \in [Ids -> StreamRecs]
OBVIOUS

LEMMA LoopStreamKeeps == ASSUME ServerInv, NEW s \in Ids, LoopStream(s) PROVE ServerInv'
<1> DEFINE f == Head(out.q[s])
           k == IF f.t = "data" /\ f.n > 0 THEN Min2(f.n, Room(s)) ELSE f.n
           g == [f EXCEPT !.n = k, !.end = f.end /\ k = f.n, !.wait = f.wait /\ k = f.n]
           rest == [f EXCEPT !.n = f.n - k]
           x == IF k = f.n THEN Tail(out.q[s]) ELSE <<rest>> \o Tail(out.q[s])
           r == [str[s] EXCEPT !.win = @ - k]
<1>1. /\ out.q[s] # <<>> /\ (f.n = 0 \/ f.t # "data" \/ Room(s) > 0)
      /\ UNCHANGED <<scen, phase, h, want, msgs, inputs, wire>>
  BY DEF LoopStream, Writable, chans
<1>2. /\ out' = [out EXCEPT !.q[s] = x] /\ Start(g)
      /\ sc' = IF f.t = "data" THEN [sc EXCEPT !.cwin = @ - k] ELSE sc
      /\ str' = IF f.t = "data" THEN [str EXCEPT ![s] = r] ELSE str
  BY Zenon DEF LoopStream
<1>3. /\ out \in Outs /\ CallsOK(todo, Reach) /\ sc \in Conns /\ str \in [Ids -> StreamRecs] /\ str[s] \in StreamRecs
      /\ sc.cwin \in Int /\ str[s].win \in Int
  BY DEF ServerInv, Types, Frames, Conns, StreamRecs
<1>4. /\ out.q \in [Ids -> Seq(OutFrames)] /\ out.q[s] \in Seq(OutFrames) /\ QueueOK(out.q[s], Reach)
      /\ \A i \in 1 .. Len(out.q[s]) : out.q[s][i].s = s
  BY <1>3 DEF Outs, ServerInv, Frames
<1> DEFINE q == out.q[s]
<1> HIDE DEF q
<1>5. /\ f \in OutFrames /\ f.s = s /\ FrameOK(f, Reach) /\ Len(q) > 0
      /\ Tail(q) \in Seq(OutFrames) /\ QueueOK(Tail(q), Reach)
      /\ \A i \in 1 .. Len(Tail(q)) : Tail(q)[i].s = s
  <2>1. q \in Seq(OutFrames) /\ QueueOK(q, Reach) /\ (\A i \in 1 .. Len(q) : q[i].s = s) /\ q # <<>>
    BY <1>1, <1>4 DEF q
  <2>2. Len(q) > 0 /\ Head(q) = q[1] /\ Len(q) \in Nat
    BY <2>1
  <2>3. Tail(q) \in Seq(OutFrames) /\ Len(Tail(q)) = Len(q) - 1
        /\ \A i \in 1 .. Len(q) - 1 : Tail(q)[i] = q[i + 1]
    BY <2>1
  <2>4. f = Head(q)
    BY DEF q
  <2> HIDE DEF f
  <2>5. \A i \in 1 .. Len(Tail(q)) : i + 1 \in 1 .. Len(q) /\ Tail(q)[i] = q[i + 1]
    BY <2>2, <2>3
  <2> QED BY <2>1, <2>2, <2>3, <2>4, <2>5 DEF QueueOK
<1>6. k \in Nat /\ f.n - k \in Nat /\ f.n \in Nat /\ (f.t # "data" => k = f.n)
  <2>1. f.n \in Nat
    BY <1>5 DEF OutFrames
  <2>2. Room(s) \in Int
    BY <1>3 DEF Room, Min2
  <2> HIDE DEF f
  <2> QED BY <1>1, <2>1, <2>2 DEF Min2
<1> DEFINE e1 == f.end /\ k = f.n
           w1 == f.wait /\ k = f.n
<1> HIDE DEF f, k, e1, w1
<1>7. f.s \in Ids \cup {0} /\ f.n \in Nat /\ f.end \in BOOLEAN /\ f.wait \in BOOLEAN
  BY <1>5 DEF OutFrames
<1>8. e1 \in BOOLEAN /\ w1 \in BOOLEAN
  BY DEF e1, w1
<1>9. g = [f EXCEPT !.n = k, !.end = e1, !.wait = w1]
  BY DEF e1, w1
<1>10. g \in OutFrames /\ g.t = f.t /\ g.s = f.s /\ g.n = k
  BY <1>5, <1>6, <1>8, <1>9, Zenon DEF OutFrames
<1>11. rest \in OutFrames /\ rest.t = f.t /\ rest.s = f.s
  BY <1>5, <1>6, Zenon DEF OutFrames
<1> HIDE DEF g, rest
<1>12. FrameOK(g, Reach)
  BY <1>5, <1>6, <1>10 DEF FrameOK
<1>13. k # f.n => FrameOK(rest, Reach)
  BY <1>5, <1>6, <1>11 DEF FrameOK
<1>14. x \in Seq(OutFrames) /\ QueueOK(x, Reach) /\ \A i \in 1 .. Len(x) : x[i].s = s
  <2>1. CASE k = f.n
    <3>1. x = Tail(q)
      BY <2>1 DEF q
    <3> HIDE DEF x
    <3> QED BY <1>5, <3>1
  <2>2. CASE k # f.n
    <3> DEFINE y == Tail(q)
    <3>1. x = <<rest>> \o y
      BY <2>2 DEF q
    <3>2. y \in Seq(OutFrames) /\ QueueOK(y, Reach) /\ \A i \in 1 .. Len(y) : y[i].s = s
      BY <1>5
    <3> HIDE DEF x, y
    <3>3. x \in Seq(OutFrames) /\ Len(x) = Len(y) + 1 /\ Len(y) \in Nat
          /\ \A i \in 1 .. Len(x) : x[i] = IF i = 1 THEN rest ELSE y[i - 1]
      BY <1>11, <3>1, <3>2
    <3>4. \A i \in 1 .. Len(x) : i = 1 \/ i - 1 \in 1 .. Len(y)
      BY <3>3
    <3> QED BY <1>5, <1>11, <1>13, <2>2, <3>2, <3>3, <3>4 DEF QueueOK
  <2> QED BY <2>1, <2>2
<1> HIDE DEF x
<1>15. /\ out' \in Outs /\ out'.ctl = out.ctl /\ out'.res = out.res /\ out'.cur = out.cur /\ out'.async = out.async
       /\ out'.q = [out.q EXCEPT ![s] = x]
  <2> DEFINE z == [out.q EXCEPT ![s] = x]
  <2>1. z \in [Ids -> Seq(OutFrames)]
    BY <1>4, <1>14
  <2>2. out' = [out EXCEPT !.q = z]
    BY <1>2
  <2> HIDE DEF z
  <2>3. /\ out' \in Outs /\ out'.ctl = out.ctl /\ out'.res = out.res /\ out'.cur = out.cur
        /\ out'.async = out.async /\ out'.q = z
    BY <1>3, <2>1, <2>2, Zenon DEF Outs
  <2> QED BY <2>3 DEF z
<1>16. \A u \in Ids : QueueOK(out'.q[u], Reach) /\ \A i \in 1 .. Len(out'.q[u]) : out'.q[u][i].s = u
  BY <1>4, <1>14, <1>15 DEF ServerInv, Frames
<1>17. ConnKept(sc')
  <2>1. sc.cwin - k \in Int
    BY <1>3, <1>6
  <2> QED BY <1>2, <2>1, NumbersKept, SameConn
<1>18. str' \in [Ids -> StreamRecs]
  <2>1. str[s].win - k \in Int
    BY <1>3, <1>6
  <2>2. r \in StreamRecs
    BY <1>3, <2>1, Zenon DEF StreamRecs
  <2> HIDE DEF r
  <2> QED BY <1>2, <1>3, <2>2, StrUpdate
<1>19. CallsOK(todo', Reach)
  BY <1>2, <1>3, <1>12, StartOK
<1>20. Types'
  BY <1>1, <1>15, <1>17, <1>18 DEF ServerInv, Types, ConnKept
<1>21. Frames(todo', out', want', wire', Reach)
  BY <1>1, <1>15, <1>16, <1>19 DEF ServerInv, Frames
<1> QED BY <1>1, <1>17, <1>20, <1>21, Kept DEF ConnKept

(* The write scheduler and the frame being written.                        *)
OutOK(o) ==
    /\ o \in Outs /\ (o.res # "none" => o.async) /\ (o.async => o.cur # None)
    /\ QueueOK(o.ctl, Reach)
    /\ \A s \in Ids : QueueOK(o.q[s], Reach) /\ \A i \in 1 .. Len(o.q[s]) : o.q[s][i].s = s
    /\ o.cur # None => FrameOK(o.cur, Reach)

LEMMA SameOut == ASSUME ServerInv PROVE OutOK(out)
BY DEF ServerInv, Types, Frames, OutOK

(* A step that leaves the handlers and the wire alone.                     *)
LEMMA Moving ==
    ASSUME ServerInv, ConnKept(sc'), str' \in [Ids -> StreamRecs],
           phase' \in {"serving", "closing", "done", "panic"}, CallsOK(todo', Reach), OutOK(out'),
           UNCHANGED <<scen, h, chans, inputs, wire>>
    PROVE  ServerInv'
<1>1. Types'
  BY DEF ServerInv, Types, chans, ConnKept, OutOK
<1>2. Frames(todo', out', want', wire', Reach)
  BY DEF ServerInv, Frames, chans, OutOK
<1> QED BY <1>1, <1>2, Kept DEF ConnKept

(* Facts about the state that the step lemmas share.                       *)
LEMMA Facts ==
    ASSUME ServerInv
    PROVE  /\ ConnKept(sc) /\ OutOK(out) /\ CallsOK(todo, Reach) /\ CallsOK(<<>>, Reach)
           /\ str \in [Ids -> StreamRecs] /\ h \in [Ids -> HandlerRecs]
           /\ phase \in {"serving", "closing", "done", "panic"}
BY SameConn, SameOut, EmptyOK DEF ServerInv, Types, Frames

LEMMA CurOK ==
    ASSUME ServerInv, NEW f, FrameOK(f, Reach),
           NEW o, o \in {[out EXCEPT !.cur = f, !.flush = TRUE],
                         [out EXCEPT !.cur = f, !.flush = TRUE, !.async = TRUE]}
    PROVE  OutOK(o)
<1>1. f \in OutFrames /\ f # None /\ OutOK(out) /\ out \in Outs
  BY NoneAssumption, Facts DEF FrameOK, OutOK
<1>2. CASE o = [out EXCEPT !.cur = f, !.flush = TRUE]
  <2>1. o \in Outs /\ o.ctl = out.ctl /\ o.q = out.q /\ o.res = out.res /\ o.cur = f /\ o.async = out.async
    BY <1>1, <1>2, Zenon DEF Outs
  <2> QED BY <1>1, <2>1 DEF OutOK
<1>3. CASE o = [out EXCEPT !.cur = f, !.flush = TRUE, !.async = TRUE]
  <2>1. o \in Outs /\ o.ctl = out.ctl /\ o.q = out.q /\ o.res = out.res /\ o.cur = f /\ o.async
    BY <1>1, <1>3, Zenon DEF Outs
  <2> QED BY <1>1, <2>1 DEF OutOK
<1> QED BY <1>2, <1>3

LEMMA startFrameWriteKeeps == ASSUME ServerInv, startFrameWrite PROVE ServerInv'
<1> DEFINE f == arg
<1>1. todo # <<>> /\ FrameOK(f, Reach) /\ CallsOK(todo, Reach)
  BY HeadOK DEF ServerInv, Frames, startFrameWrite, At, arg, CallOK
<1>2. UNCHANGED <<scen, sc, str, h, chans, inputs, wire>>
  BY DEF startFrameWrite
<1>3. CASE Panic /\ UNCHANGED out
  BY <1>2, <1>3, Facts, Bookkeeping DEF Panic
<1>4. CASE Then(<<<<"wrote", f, "ok">>>>) /\ out' = [out EXCEPT !.cur = f, !.flush = TRUE] /\ UNCHANGED phase
  <2>1. CallOK(<<"wrote", f, "ok">>, Reach)
    BY <1>1 DEF CallOK
  <2>2. CallsOK(todo', Reach)
    BY <1>1, <1>4, <2>1, OneOK, ThenOK
  <2>3. OutOK(out')
    BY <1>1, <1>4, CurOK
  <2> QED BY <1>2, <1>4, <2>2, <2>3, Facts, Moving
<1>5. CASE Then(<<>>) /\ out' = [out EXCEPT !.cur = f, !.flush = TRUE, !.async = TRUE] /\ UNCHANGED phase
  <2>1. CallsOK(todo', Reach)
    BY <1>1, <1>5, EmptyOK, ThenOK
  <2>2. OutOK(out')
    BY <1>1, <1>5, CurOK
  <2> QED BY <1>2, <1>5, <2>1, <2>2, Facts, Moving
<1> QED BY <1>3, <1>4, <1>5 DEF startFrameWrite

LEMMA startPushWriteKeeps == ASSUME ServerInv, startPushWrite PROVE ServerInv'
<1> DEFINE f == arg
           p == sc.maxPush + 2
           r == NewStream("halfRemote", sc.swin)
           g == [NoHandler EXCEPT !.pc = "run"]
<1>1. todo # <<>> /\ FrameOK(f, Reach) /\ CallsOK(todo, Reach)
  BY HeadOK DEF ServerInv, Frames, startPushWrite, At, arg, CallOK
<1>2. UNCHANGED <<scen, chans, inputs, wire>>
  BY DEF startPushWrite
<1>3. CASE Panic /\ UNCHANGED <<sc, str, h, out>>
  BY <1>2, <1>3, Facts, Bookkeeping DEF Panic
<1>4. CASE Then(<<<<"reply", f>>>>) /\ UNCHANGED <<phase, sc, str, h, out>>
  <2>1. CallOK(<<"reply", f>>, Reach)
    BY <1>1 DEF CallOK
  <2>2. CallsOK(todo', Reach)
    BY <1>1, <1>4, <2>1, OneOK, ThenOK
  <2> QED BY <1>2, <1>4, <2>2, Facts, Bookkeeping
<1>5. CASE /\ p \in Ids
           /\ sc' = [sc EXCEPT !.maxPush = p, !.nPushed = @ + 1, !.handlers = @ + 1]
           /\ str' = [str EXCEPT ![p] = r]
           /\ h' = [h EXCEPT ![p] = g]
           /\ out' = [out EXCEPT !.cur = f, !.flush = TRUE, !.async = TRUE]
           /\ Then(<<>>) /\ UNCHANGED phase
  <2>1. sc \in Conns /\ sc.maxPush \in Nat /\ ~Odd(sc.maxPush) /\ sc.nPushed + 1 \in Int /\ sc.handlers + 1 \in Int
        /\ sc.swin \in Int /\ sc.maxClient \in Nat
    BY DEF ServerInv, Types, Conns
  <2>2. p \in {n \in Nat : ~Odd(n)}
    BY <2>1 DEF Odd
  <2>3. sc' \in Conns /\ sc'.inGoAway = sc.inGoAway /\ sc'.needGoAway = sc.needGoAway
        /\ sc'.maxClient = sc.maxClient /\ sc'.unstarted = sc.unstarted
    BY <1>5, <2>1, <2>2, Zenon DEF Conns
  <2>4. r \in StreamRecs
    <3>1. StreamRecv \in Int /\ sc.swin \in Int
      BY <2>1, WindowsAssumption
    <3>2. NoStream \in StreamRecs
      BY DEF NoStream, StreamRecs
    <3> QED BY <3>1, <3>2, Zenon DEF StreamRecs, NewStream
  <2>5. g \in HandlerRecs /\ g.pc = "run"
    BY DEF NoHandler, HandlerRecs
  <2> HIDE DEF r, g
  <2>6. str' \in [Ids -> StreamRecs] /\ h' \in [Ids -> HandlerRecs]
        /\ \A s \in Ids : h'[s] = IF s = p THEN g ELSE h[s]
    BY <1>5, <2>4, <2>5, Facts
  <2>7. OutOK(out')
    BY <1>1, <1>5, CurOK
  <2>8. CallsOK(todo', Reach)
    BY <1>1, <1>5, EmptyOK, ThenOK
  <2>9. Types'
    BY <1>2, <1>5, <2>3, <2>6, <2>7 DEF ServerInv, Types, chans, OutOK
  <2>10. Frames(todo', out', want', wire', Reach)
    BY <1>2, <2>7, <2>8 DEF ServerInv, Frames, chans, OutOK
  <2> QED BY <2>1, <2>2, <2>3, <2>5, <2>6, <2>9, <2>10, Kept
<1> QED BY <1>3, <1>4, <1>5 DEF startPushWrite

LEMMA writeFrameAsyncKeeps == ASSUME ServerInv, writeFrameAsync PROVE ServerInv'
<1> DEFINE r == IF out.open THEN "ok" ELSE "err"
<1>1. UNCHANGED <<scen, phase, todo, sc, str, h, chans, inputs, wire>> /\ out.async
      /\ out' = [out EXCEPT !.res = r]
  BY DEF writeFrameAsync
<1>2. r \in {"none", "ok", "err"} /\ OutOK(out) /\ out \in Outs
  BY Facts DEF OutOK
<1> HIDE DEF r
<1>3. out' \in Outs /\ out'.ctl = out.ctl /\ out'.q = out.q /\ out'.cur = out.cur /\ out'.async = out.async
  BY <1>1, <1>2, Zenon DEF Outs
<1>4. OutOK(out')
  BY <1>1, <1>2, <1>3 DEF OutOK
<1> QED BY <1>1, <1>4, Facts, Moving

(* What each stream record may become.                                     *)
LEMMA StreamFlags ==
    ASSUME ServerInv, NEW s \in Ids, NEW st \in {"idle", "open", "halfLocal", "halfRemote", "closed"}
    PROVE  /\ [str EXCEPT ![s].st = st] \in [Ids -> StreamRecs]
           /\ [str EXCEPT ![s].st = st, ![s].err = TRUE] \in [Ids -> StreamRecs]
           /\ [str EXCEPT ![s].err = TRUE] \in [Ids -> StreamRecs]
           /\ [str EXCEPT ![s].err = TRUE, ![s].cw = TRUE] \in [Ids -> StreamRecs]
           /\ [str EXCEPT ![s].resetQueued = TRUE] \in [Ids -> StreamRecs]
           /\ [str EXCEPT ![s].gotTrailer = TRUE] \in [Ids -> StreamRecs]
           /\ [str EXCEPT ![s].broken = TRUE] \in [Ids -> StreamRecs]
<1>1. str \in [Ids -> StreamRecs] /\ str[s] \in StreamRecs
  BY Facts
<1>2. [str EXCEPT ![s].st = st] \in [Ids -> StreamRecs]
  <2> DEFINE r == [str[s] EXCEPT !.st = st]
  <2>1. r \in StreamRecs
    BY <1>1, Zenon DEF StreamRecs
  <2>2. [str EXCEPT ![s].st = st] = [str EXCEPT ![s] = r]
    BY Zenon
  <2> HIDE DEF r
  <2> QED BY <1>1, <2>1, <2>2, StrUpdate
<1>3. [str EXCEPT ![s].st = st, ![s].err = TRUE] \in [Ids -> StreamRecs]
  <2> DEFINE r == [str[s] EXCEPT !.st = st, !.err = TRUE]
  <2>1. r \in StreamRecs
    BY <1>1, Zenon DEF StreamRecs
  <2>2. [str EXCEPT ![s].st = st, ![s].err = TRUE] = [str EXCEPT ![s] = r]
    BY Zenon
  <2> HIDE DEF r
  <2> QED BY <1>1, <2>1, <2>2, StrUpdate
<1>4. [str EXCEPT ![s].err = TRUE] \in [Ids -> StreamRecs]
  <2> DEFINE r == [str[s] EXCEPT !.err = TRUE]
  <2>1. r \in StreamRecs
    BY <1>1, Zenon DEF StreamRecs
  <2>2. [str EXCEPT ![s].err = TRUE] = [str EXCEPT ![s] = r]
    BY Zenon
  <2> HIDE DEF r
  <2> QED BY <1>1, <2>1, <2>2, StrUpdate
<1>5. [str EXCEPT ![s].err = TRUE, ![s].cw = TRUE] \in [Ids -> StreamRecs]
  <2> DEFINE r == [str[s] EXCEPT !.err = TRUE, !.cw = TRUE]
  <2>1. r \in StreamRecs
    BY <1>1, Zenon DEF StreamRecs
  <2>2. [str EXCEPT ![s].err = TRUE, ![s].cw = TRUE] = [str EXCEPT ![s] = r]
    BY Zenon
  <2> HIDE DEF r
  <2> QED BY <1>1, <2>1, <2>2, StrUpdate
<1>6. [str EXCEPT ![s].resetQueued = TRUE] \in [Ids -> StreamRecs]
  <2> DEFINE r == [str[s] EXCEPT !.resetQueued = TRUE]
  <2>1. r \in StreamRecs
    BY <1>1, Zenon DEF StreamRecs
  <2>2. [str EXCEPT ![s].resetQueued = TRUE] = [str EXCEPT ![s] = r]
    BY Zenon
  <2> HIDE DEF r
  <2> QED BY <1>1, <2>1, <2>2, StrUpdate
<1>7. [str EXCEPT ![s].gotTrailer = TRUE] \in [Ids -> StreamRecs]
  <2> DEFINE r == [str[s] EXCEPT !.gotTrailer = TRUE]
  <2>1. r \in StreamRecs
    BY <1>1, Zenon DEF StreamRecs
  <2>2. [str EXCEPT ![s].gotTrailer = TRUE] = [str EXCEPT ![s] = r]
    BY Zenon
  <2> HIDE DEF r
  <2> QED BY <1>1, <2>1, <2>2, StrUpdate
<1>8. [str EXCEPT ![s].broken = TRUE] \in [Ids -> StreamRecs]
  <2> DEFINE r == [str[s] EXCEPT !.broken = TRUE]
  <2>1. r \in StreamRecs
    BY <1>1, Zenon DEF StreamRecs
  <2>2. [str EXCEPT ![s].broken = TRUE] = [str EXCEPT ![s] = r]
    BY Zenon
  <2> HIDE DEF r
  <2> QED BY <1>1, <2>1, <2>2, StrUpdate
<1> QED BY <1>2, <1>3, <1>4, <1>5, <1>6, <1>7, <1>8

LEMMA StreamNumbers ==
    ASSUME ServerInv, NEW s \in Ids, NEW a \in Int, NEW u \in Int, NEW n \in Int
    PROVE  /\ [str EXCEPT ![s].avail = a, ![s].unsent = u] \in [Ids -> StreamRecs]
           /\ [str EXCEPT ![s].avail = a, ![s].got = u, ![s].len = n] \in [Ids -> StreamRecs]
           /\ [str EXCEPT ![s].win = a] \in [Ids -> StreamRecs]
           /\ [str EXCEPT ![s].len = a] \in [Ids -> StreamRecs]
<1>1. str \in [Ids -> StreamRecs] /\ str[s] \in StreamRecs
  BY Facts
<1>2. [str EXCEPT ![s].avail = a, ![s].unsent = u] \in [Ids -> StreamRecs]
  <2> DEFINE r == [str[s] EXCEPT !.avail = a, !.unsent = u]
  <2>1. r \in StreamRecs
    BY <1>1, Zenon DEF StreamRecs
  <2>2. [str EXCEPT ![s].avail = a, ![s].unsent = u] = [str EXCEPT ![s] = r]
    BY Zenon
  <2> HIDE DEF r
  <2> QED BY <1>1, <2>1, <2>2, StrUpdate
<1>3. [str EXCEPT ![s].avail = a, ![s].got = u, ![s].len = n] \in [Ids -> StreamRecs]
  <2> DEFINE r == [str[s] EXCEPT !.avail = a, !.got = u, !.len = n]
  <2>1. r \in StreamRecs
    BY <1>1, Zenon DEF StreamRecs
  <2>2. [str EXCEPT ![s].avail = a, ![s].got = u, ![s].len = n] = [str EXCEPT ![s] = r]
    BY Zenon
  <2> HIDE DEF r
  <2> QED BY <1>1, <2>1, <2>2, StrUpdate
<1>4. [str EXCEPT ![s].win = a] \in [Ids -> StreamRecs]
  <2> DEFINE r == [str[s] EXCEPT !.win = a]
  <2>1. r \in StreamRecs
    BY <1>1, Zenon DEF StreamRecs
  <2>2. [str EXCEPT ![s].win = a] = [str EXCEPT ![s] = r]
    BY Zenon
  <2> HIDE DEF r
  <2> QED BY <1>1, <2>1, <2>2, StrUpdate
<1>5. [str EXCEPT ![s].len = a] \in [Ids -> StreamRecs]
  <2> DEFINE r == [str[s] EXCEPT !.len = a]
  <2>1. r \in StreamRecs
    BY <1>1, Zenon DEF StreamRecs
  <2>2. [str EXCEPT ![s].len = a] = [str EXCEPT ![s] = r]
    BY Zenon
  <2> HIDE DEF r
  <2> QED BY <1>1, <2>1, <2>2, StrUpdate
<1> QED BY <1>2, <1>3, <1>4, <1>5

LEMMA AfterWriteOK ==
    ASSUME NEW f, FrameOK(f, Reach) PROVE CallsOK(AfterWrite(f), Reach)
<1>1. /\ f.end /\ State(f) \in {"open", "halfRemote"} => f.s \in Ids
      /\ f.t = "rst" /\ f.s \in liveIds => f.s \in Ids
      /\ f.t = "panicRST" => f.s \in Ids
  BY DEF State, FrameOK, OutFrames, liveIds
<1>2. \A s \in Ids : CallsOK(<<<<"reset", s>>>>, Reach) /\ CallsOK(<<<<"close", s>>>>, Reach)
  <2> SUFFICES ASSUME NEW s \in Ids
               PROVE  CallsOK(<<<<"reset", s>>>>, Reach) /\ CallsOK(<<<<"close", s>>>>, Reach)
    OBVIOUS
  <2>1. CallOK(<<"reset", s>>, Reach) /\ CallOK(<<"close", s>>, Reach)
    BY DEF CallOK
  <2> QED BY <2>1, OneOK
<1>3. \/ AfterWrite(f) = <<>>
      \/ f.s \in Ids /\ AfterWrite(f) \in {<<<<"reset", f.s>>>>, <<<<"close", f.s>>>>}
  BY <1>1 DEF AfterWrite
<1> QED BY <1>2, <1>3, EmptyOK

LEMMA RecordOK ==
    ASSUME wire \in Wires, NEW f, FrameOK(f, Reach)
    PROVE  Record(f) \in Wires /\ Record(f).last = IF f.t = "goaway" THEN f.n ELSE wire.last
<1>1. f \in OutFrames /\ f.s \in Ids \cup {0} /\ f.n \in Nat
  BY DEF FrameOK, OutFrames
<1> DEFINE hd == IF f.t = "headers" THEN wire.headers \cup {f.s} ELSE wire.headers
           en == IF f.end THEN wire.ended \cup {f.s} ELSE wire.ended
           re == IF f.t \in {"rst", "panicRST"} THEN wire.reset \cup {f.s} ELSE wire.reset
           ba == IF \/ f.t \in {"headers", "data", "push", "continue"} /\ f.s \in wire.ended \cup wire.reset
                    \/ f.t = "data" /\ f.s \notin wire.headers
                 THEN wire.bad \cup {f} ELSE wire.bad
           la == IF f.t = "goaway" THEN f.n ELSE wire.last
<1>2. Record(f) = [wire EXCEPT !.headers = hd, !.ended = en, !.reset = re, !.bad = ba, !.last = la]
  BY Zenon DEF Record
<1>3. hd \in SUBSET (Ids \cup {0}) /\ en \in SUBSET (Ids \cup {0}) /\ re \in SUBSET (Ids \cup {0})
      /\ ba \in SUBSET OutFrames /\ la \in Nat \cup {None}
  BY <1>1 DEF Wires
<1> HIDE DEF hd, en, re, ba, la
<1>4. Record(f) \in Wires /\ Record(f).last = la
  BY <1>2, <1>3, Zenon DEF Wires
<1> QED BY <1>4 DEF la

LEMMA wroteFrameKeeps == ASSUME ServerInv, wroteFrame PROVE ServerInv'
<1> DEFINE f == arg
           ok == Head(todo)[3] = "ok"
           open == out.open /\ ok
<1>1. todo # <<>> /\ FrameOK(f, Reach)
  BY HeadOK DEF ServerInv, Frames, wroteFrame, At, arg, CallOK
<1>2. UNCHANGED <<scen, phase, sc, h, chans, inputs>>
      /\ out' = [out EXCEPT !.cur = None, !.async = FALSE, !.res = "none", !.open = open]
      /\ (wire' = Record(f) \/ wire' = wire)
      /\ str' = (IF f.end /\ State(f) = "open" THEN [str EXCEPT ![f.s].st = "halfLocal"] ELSE str)
      /\ Then(AfterWrite(f) \o <<<<"reply", f>>, Sched>>)
  BY DEF wroteFrame
<1>3. out \in Outs /\ OutOK(out) /\ wire \in Wires /\ sc.maxClient \in Nat /\ CallsOK(todo, Reach)
  BY Facts DEF OutOK, ServerInv, Types, Conns
<1>4. OutOK(out')
  <2>1. open \in BOOLEAN
    BY <1>3 DEF Outs
  <2> HIDE DEF open
  <2>2. out' \in Outs /\ out'.ctl = out.ctl /\ out'.q = out.q /\ out'.cur = None /\ out'.res = "none" /\ ~out'.async
    BY <1>2, <1>3, <2>1, Zenon DEF Outs
  <2> QED BY <1>3, <2>2 DEF OutOK
<1>5. str' \in [Ids -> StreamRecs]
  <2>1. f.end /\ State(f) = "open" => f.s \in Ids
    BY DEF State
  <2> QED BY <1>2, <2>1, StreamFlags, Facts
<1>6. wire' \in Wires /\ (wire'.last # None => \A s \in Reach : s <= wire'.last)
  <2>1. /\ wire.last # None => \A s \in Reach : s <= wire.last
        /\ f.t = "goaway" => \A s \in Reach : s <= f.n
    BY <1>1 DEF ServerInv, Frames, FrameOK
  <2> QED BY <1>1, <1>2, <1>3, <2>1, RecordOK
<1>7. CallsOK(todo', Reach)
  <2>1. CallOK(<<"reply", f>>, Reach) /\ CallOK(Sched, Reach)
    BY <1>1 DEF CallOK, Sched
  <2>2. CallsOK(<<<<"reply", f>>, Sched>>, Reach)
    BY <2>1, TwoOK
  <2>3. CallsOK(AfterWrite(f) \o <<<<"reply", f>>, Sched>>, Reach)
    BY <1>1, <2>2, AfterWriteOK, ConcatOK
  <2> QED BY <1>1, <1>2, <1>3, <2>3, ThenOK
<1>8. Types'
  BY <1>2, <1>4, <1>5, <1>6 DEF ServerInv, Types, chans, OutOK
<1>9. Frames(todo', out', want', wire', Reach)
  BY <1>2, <1>4, <1>6, <1>7 DEF ServerInv, Frames, chans, OutOK
<1> QED BY <1>2, <1>3, <1>8, <1>9, Kept

(* A step of a handler, or one that takes from the channels.               *)
LEMMA Handling ==
    ASSUME ServerInv, ConnKept(sc'), OutOK(out'), str' \in [Ids -> StreamRecs], h' \in [Ids -> HandlerRecs],
           phase' \in {"serving", "closing", "done", "panic"}, CallsOK(todo', Reach),
           want' \in Seq(OutFrames), QueueOK(want', Reach),
           IsSeq(msgs'), \A i \in 1 .. Len(msgs') : msgs'[i][1] = "push" => msgs'[i][2] \in Ids,
           \A s \in Ids : h'[s].pc = "none" <=> h[s].pc = "none",
           UNCHANGED <<scen, inputs, wire>>
    PROVE  ServerInv'
<1>1. Types'
  BY DEF ServerInv, Types, ConnKept, OutOK
<1>2. Frames(todo', out', want', wire', Reach)
  BY DEF ServerInv, Frames, OutOK
<1> QED BY <1>1, <1>2, Kept DEF ConnKept

LEMMA Channels ==
    ASSUME ServerInv
    PROVE  /\ want \in Seq(OutFrames) /\ QueueOK(want, Reach)
           /\ IsSeq(msgs) /\ \A i \in 1 .. Len(msgs) : msgs[i][1] = "push" => msgs[i][2] \in Ids
BY DEF ServerInv, Types, Frames

LEMMA replyToWriterKeeps == ASSUME ServerInv, replyToWriter PROVE ServerInv'
<1> DEFINE s == arg.s
           r == [h[s] EXCEPT !.done = TRUE]
<1>1. CallsOK(todo', Reach)
  BY Facts, ThenOK DEF replyToWriter, At
<1>2. h' \in [Ids -> HandlerRecs] /\ \A u \in Ids : h'[u].pc = h[u].pc
  <2>1. CASE s \in Ids /\ h' = [h EXCEPT ![s].done = TRUE]
    <3>1. h[s] \in HandlerRecs
      BY <2>1, Facts
    <3>2. r \in HandlerRecs /\ r.pc = h[s].pc
      BY <3>1, Zenon DEF HandlerRecs
    <3>3. h' = [h EXCEPT ![s] = r]
      BY <2>1, Zenon
    <3> HIDE DEF r, s
    <3> QED BY <2>1, <3>2, <3>3, Facts
  <2>2. CASE h' = h
    BY <2>2, Facts
  <2>3. s \in Ids \/ [h EXCEPT ![s].done = TRUE] = h
    BY Facts
  <2> QED BY <2>1, <2>2, <2>3, Zenon DEF replyToWriter
<1> QED BY <1>1, <1>2, Facts, Channels, Handling DEF replyToWriter, chans

-----------------------------------------------------------------------------
(* Streams, windows, shutdown.                                             *)
LEMMA ArgOK ==
    ASSUME ServerInv, todo # <<>>
    PROVE  CallOK(Head(todo), Reach) /\ CallsOK(todo, Reach)
BY HeadOK DEF ServerInv, Frames

(* The calls the steps push.                                               *)
LEMMA StreamCalls ==
    ASSUME NEW K, NEW s \in Ids
    PROVE  /\ CallOK(<<"reset", s>>, K) /\ CallOK(<<"resetQueued", s>>, K) /\ CallOK(<<"close", s>>, K)
           /\ CallOK(<<"closeRest", s>>, K) /\ CallOK(<<"endStream", s>>, K)
           /\ CallOK(<<"write", Ctl("rst", s)>>, K)
<1>1. s # 0
  BY IdsAssumption
<1> QED BY <1>1, CtlOK DEF CallOK, Ctl

LEMMA NumberCalls ==
    ASSUME NEW K, NEW s \in Ids, NEW n \in Int
    PROVE  CallOK(<<"window", s, n>>, K) /\ CallOK(<<"window", 0, n>>, K) /\ CallOK(<<"noteBodyRead", s, n>>, K)
BY DEF CallOK

LEMMA WindowCall == ASSUME NEW K, NEW n \in Int PROVE CallOK(<<"window", 0, n>>, K)
BY DEF CallOK

LEMMA GoAwayCall == ASSUME NEW K, NEW c \in Codes PROVE CallOK(<<"goAway", c>>, K)
BY DEF CallOK

LEMMA ConnCalls ==
    ASSUME NEW K
    PROVE  /\ CallOK(Sched, K) /\ CallOK(Check, K)
           /\ CallOK(<<"write", Ctl("ping", 0)>>, K) /\ CallOK(<<"write", Ctl("settings", 0)>>, K)
BY CtlOK DEF CallOK, Ctl, Sched, Check

LEMMA resetStreamKeeps == ASSUME ServerInv, resetStream PROVE ServerInv'
<1>1. todo # <<>> /\ arg \in Ids
  BY ArgOK DEF resetStream, At, arg, CallOK
<1>2. CallsOK(todo', Reach)
  <2>1. CallsOK(<<<<"write", Ctl("rst", arg)>>, <<"resetQueued", arg>>>>, Reach)
    BY <1>1, StreamCalls, TwoOK
  <2> QED BY <1>1, <2>1, Facts, ThenOK DEF resetStream
<1> QED BY <1>2, Calls DEF resetStream

LEMMA resetQueuedKeeps == ASSUME ServerInv, resetQueued PROVE ServerInv'
<1>1. todo # <<>> /\ arg \in Ids
  BY ArgOK DEF resetQueued, At, arg, CallOK
<1>2. CallsOK(todo', Reach)
  BY <1>1, Facts, ThenOK DEF resetQueued
<1>3. str' \in [Ids -> StreamRecs]
  BY <1>1, Facts, StreamFlags DEF resetQueued
<1> QED BY <1>2, <1>3, Facts, Bookkeeping DEF resetQueued

LEMMA AddedOK ==
    ASSUME NEW w, w.avail \in Int, w.unsent \in Int, NEW n \in Int
    PROVE  Added(w, n).avail \in Int /\ Added(w, n).unsent \in Int
BY DEF Added

LEMMA sendWindowUpdateKeeps == ASSUME ServerInv, sendWindowUpdate PROVE ServerInv'
<1> DEFINE s == arg
           n == Head(todo)[3]
           a == Added(IF s = 0 THEN sc ELSE str[s], n)
<1>1. todo # <<>> /\ s \in Ids \cup {0} /\ n \in Int
  BY ArgOK DEF sendWindowUpdate, At, arg, CallOK
<1>2. UNCHANGED <<scen, phase, out, h, chans, inputs, wire>>
      /\ sc' = (IF s = 0 THEN [sc EXCEPT !.avail = a.avail, !.unsent = a.unsent] ELSE sc)
      /\ str' = (IF s = 0 THEN str ELSE [str EXCEPT ![s].avail = a.avail, ![s].unsent = a.unsent])
      /\ Then(IF a.send = 0 THEN <<>> ELSE <<<<"write", Ctl("wu", s)>>>>)
  BY DEF sendWindowUpdate
<1>3. a.avail \in Int /\ a.unsent \in Int
  <2>1. sc \in Conns /\ (s \in Ids => str[s] \in StreamRecs)
    BY DEF ServerInv, Types
  <2>2. sc.avail \in Int /\ sc.unsent \in Int /\ (s \in Ids => str[s].avail \in Int /\ str[s].unsent \in Int)
    BY <2>1 DEF Conns, StreamRecs
  <2> HIDE DEF s, n
  <2>3. CASE s = 0
    BY <1>1, <2>2, <2>3, AddedOK
  <2>4. CASE s # 0
    BY <1>1, <2>2, <2>4, AddedOK
  <2> QED BY <2>3, <2>4
<1>4. CallsOK(todo', Reach)
  <2>1. CallOK(<<"write", Ctl("wu", s)>>, Reach)
    BY <1>1, CtlOK DEF Ctl, CallOK
  <2> QED BY <1>1, <1>2, <2>1, Facts, OneOK, ThenOK
<1> HIDE DEF s, a
<1>5. ConnKept(sc')
  BY <1>2, <1>3, NumbersKept, Facts
<1>6. str' \in [Ids -> StreamRecs]
  BY <1>1, <1>2, <1>3, StreamNumbers, Facts
<1> QED BY <1>2, <1>4, <1>5, <1>6, Facts, Bookkeeping

LEMMA closeStreamKeeps == ASSUME ServerInv, closeStream PROVE ServerInv'
<1> DEFINE s == arg
           n == str[s].len
           first == IF liveIds = {s} /\ Ev("noKeepAlive") THEN <<<<"goAway", "no">>>> ELSE <<>>
           second == IF str[s].body THEN <<<<"window", 0, n>>>> ELSE <<>>
<1>1. todo # <<>> /\ s \in Ids
  BY ArgOK DEF closeStream, At, arg, CallOK
<1>2. UNCHANGED <<scen, out, h, chans, inputs, wire>>
  BY DEF closeStream
<1>3. CASE Panic /\ UNCHANGED <<sc, str>>
  BY <1>2, <1>3, Facts, Bookkeeping DEF Panic
<1>4. CASE /\ str' = [str EXCEPT ![s].st = "closed"] /\ sc' = Uncount(s)
           /\ Then(first \o second \o <<<<"closeRest", s>>>>) /\ UNCHANGED phase
  <2>1. n \in Int /\ sc.nClient - 1 \in Int /\ sc.nPushed - 1 \in Int
    <3>1. str[s] \in StreamRecs /\ sc \in Conns
      BY <1>1 DEF ServerInv, Types
    <3>2. n \in Int
      BY <3>1 DEF StreamRecs
    <3>3. sc.nClient \in Int /\ sc.nPushed \in Int
      BY <3>1 DEF Conns
    <3> HIDE DEF n
    <3> QED BY <3>2, <3>3
  <2> HIDE DEF n
  <2>2. CallsOK(first, Reach) /\ CallsOK(second, Reach)
    <3>1. CallsOK(<<<<"window", 0, n>>>>, Reach)
      BY <2>1, WindowCall, OneOK
    <3>2. CallsOK(<<<<"goAway", "no">>>>, Reach)
      <4>1. PICK c \in Codes : c = "no"
        BY DEF Codes
      <4>2. CallsOK(<<<<"goAway", c>>>>, Reach)
        BY GoAwayCall, OneOK
      <4> QED BY <4>1, <4>2
    <3> QED BY <3>1, <3>2, EmptyOK
  <2>3. CallsOK(<<<<"closeRest", s>>>>, Reach)
    BY <1>1, StreamCalls, OneOK
  <2> HIDE DEF first, second
  <2>4. CallsOK(todo', Reach)
    BY <1>1, <1>4, <2>2, <2>3, ConcatOK, Facts, ThenOK
  <2>5. ConnKept(sc')
    BY <1>4, <2>1, NumbersKept DEF Uncount
  <2>6. str' \in [Ids -> StreamRecs]
    BY <1>1, <1>4, StreamFlags
  <2> QED BY <1>2, <1>4, <2>4, <2>5, <2>6, Facts, Bookkeeping
<1> QED BY <1>3, <1>4 DEF closeStream

LEMMA closeStreamRestKeeps == ASSUME ServerInv, closeStreamRest PROVE ServerInv'
<1> DEFINE s == arg
           z == [out.q EXCEPT ![s] = <<>>]
<1>1. todo # <<>> /\ s \in Ids
  BY ArgOK DEF closeStreamRest, At, arg, CallOK
<1>2. /\ str' = [str EXCEPT ![s].err = TRUE, ![s].cw = TRUE]
      /\ out' = [out EXCEPT !.q = z]
      /\ Then(<<>>) /\ UNCHANGED <<scen, phase, sc, h, chans, inputs, wire>>
  BY DEF closeStreamRest
<1>3. out \in Outs /\ OutOK(out)
  BY Facts DEF OutOK
<1>4. z \in [Ids -> Seq(OutFrames)] /\ \A u \in Ids : z[u] = IF u = s THEN <<>> ELSE out.q[u]
  BY <1>1, <1>3 DEF Outs
<1> HIDE DEF z
<1>5. /\ out' \in Outs /\ out'.ctl = out.ctl /\ out'.q = z /\ out'.res = out.res /\ out'.cur = out.cur
      /\ out'.async = out.async
  BY <1>2, <1>3, <1>4, Zenon DEF Outs
<1>6. OutOK(out')
  BY <1>3, <1>4, <1>5 DEF OutOK, QueueOK
<1>7. str' \in [Ids -> StreamRecs]
  BY <1>1, <1>2, StreamFlags
<1>8. CallsOK(todo', Reach)
  BY <1>1, <1>2, Facts, ThenOK
<1> QED BY <1>2, <1>6, <1>7, <1>8, Facts, Moving

LEMMA goAwayKeeps == ASSUME ServerInv, goAway PROVE ServerInv'
<1> DEFINE c == IF sc.code = "no" THEN arg ELSE sc.code
<1>1. todo # <<>> /\ arg \in Codes
  BY ArgOK DEF goAway, At, arg, CallOK
<1>2. /\ UNCHANGED <<scen, phase, str, out, h, chans, inputs, wire>>
      /\ sc' = IF sc.inGoAway THEN [sc EXCEPT !.code = c]
               ELSE [sc EXCEPT !.inGoAway = TRUE, !.needGoAway = TRUE, !.code = arg]
  BY Zenon DEF goAway
<1>3. sc \in Conns /\ c \in Codes
  BY <1>1 DEF ServerInv, Types, Conns
<1>4. CallsOK(todo', Reach)
  <2>1. CallsOK(IF sc.inGoAway THEN <<>> ELSE <<Sched>>, Reach)
    BY ConnCalls, OneOK, EmptyOK
  <2> QED BY <1>1, <2>1, Facts, ThenOK DEF goAway
<1> HIDE DEF c
<1>5. CASE sc.inGoAway
  <2>1. sc' = [sc EXCEPT !.code = c]
    BY <1>2, <1>5
  <2>2. ConnKept(sc')
    BY <1>3, <2>1, Facts, Zenon DEF Conns, ConnKept
  <2> QED BY <1>2, <1>4, <2>2, Facts, Bookkeeping
<1>6. CASE ~sc.inGoAway
  <2> DEFINE a == arg
  <2>1. sc' = [sc EXCEPT !.inGoAway = TRUE, !.needGoAway = TRUE, !.code = a] /\ a \in Codes
    BY <1>1, <1>2, <1>6
  <2> HIDE DEF a
  <2>2. sc' \in Conns /\ sc'.inGoAway /\ sc'.maxClient = sc.maxClient /\ sc'.unstarted = sc.unstarted
    BY <1>3, <2>1, Zenon DEF Conns
  <2>3. Types'
    BY <1>2, <2>2 DEF ServerInv, Types, chans
  <2>4. Reach' = Known /\ Known \subseteq Reach
    BY <1>2, <1>6, <2>2, IdsAssumption DEF Reach, Known
  <2>5. Frames(todo', out', want', wire', Reach)
    BY <1>2, <1>4 DEF ServerInv, Frames, chans
  <2>6. Frames(todo', out', want', wire', Reach')
    BY <2>4, <2>5, FewerFrames
  <2>7. Numbers'
    BY <1>2, <2>2 DEF ServerInv, Numbers, Known
  <2> QED BY <2>3, <2>6, <2>7 DEF ServerInv
<1> QED BY <1>5, <1>6

LEMMA ReturnOK ==
    ASSUME NEW o \in Orders, Return(o)
    PROVE  CallsOK(todo', Reach) /\ phase' = "closing"
<1>1. liveIds \subseteq Ids /\ Cardinality(liveIds) \in Nat
  BY IdsAssumption, FS_Subset, FS_CardinalityType DEF liveIds
<1> DEFINE m == Cardinality(liveIds)
<1>2. o \in [1 .. m -> Ids] /\ m \in Nat
  BY <1>1 DEF Orders
<1> HIDE DEF m
<1>3. Len(o) = m /\ o \in Seq(Ids)
  BY <1>2
<1> DEFINE q == [i \in 1 .. m |-> <<"close", o[i]>>]
<1>4. \A i \in 1 .. m : o[i] \in Ids
  BY <1>2
<1>5. todo' = q /\ phase' = "closing"
  BY <1>3 DEF Return
<1>6. q \in Seq({<<"close", s>> : s \in Ids}) /\ Len(q) = m /\ \A i \in 1 .. m : q[i] = <<"close", o[i]>>
  BY <1>2, <1>4
<1> HIDE DEF q
<1>7. \A i \in 1 .. Len(q) : CallOK(q[i], Reach)
  BY <1>4, <1>6, StreamCalls
<1> QED BY <1>5, <1>6, <1>7 DEF CallsOK, IsSeq

LEMMA endOfIterationKeeps == ASSUME ServerInv, endOfIteration PROVE ServerInv'
<1> DEFINE t == sc.timer \/ (sc.inGoAway /\ ~sc.needGoAway /\ out.cur = None /\ ShutDown)
<1>1. UNCHANGED <<scen, str, out, h, chans, inputs, wire>> /\ todo # <<>>
  BY DEF endOfIteration, At
<1>2. CASE (\E o \in Orders : Return(o)) /\ UNCHANGED sc
  BY <1>1, <1>2, ReturnOK, Facts, Bookkeeping
<1>3. CASE sc' = [sc EXCEPT !.timer = t] /\ Then(<<>>) /\ UNCHANGED phase
  <2>1. sc \in Conns /\ t \in BOOLEAN
    BY DEF ServerInv, Types, Conns
  <2> HIDE DEF t
  <2>2. ConnKept(sc')
    BY <1>3, <2>1, Facts, Zenon DEF Conns, ConnKept
  <2>3. CallsOK(todo', Reach)
    BY <1>1, <1>3, Facts, ThenOK
  <2> QED BY <1>1, <1>3, <2>2, <2>3, Facts, Bookkeeping
<1> QED BY <1>2, <1>3, Zenon DEF endOfIteration

(* The connection is closed.                                               *)
LEMMA ClosedOK ==
    ASSUME ServerInv PROVE OutOK([out EXCEPT !.open = FALSE])
<1> DEFINE o == [out EXCEPT !.open = FALSE]
<1>1. out \in Outs /\ OutOK(out)
  BY Facts DEF OutOK
<1>2. /\ o \in Outs /\ o.ctl = out.ctl /\ o.q = out.q /\ o.res = out.res /\ o.cur = out.cur
      /\ o.async = out.async
  BY <1>1, Zenon DEF Outs
<1> HIDE DEF o
<1>3. OutOK(o)
  BY <1>1, <1>2 DEF OutOK
<1> QED BY <1>3 DEF o

LEMMA finishedKeeps == ASSUME ServerInv, finished PROVE ServerInv'
BY ClosedOK, Facts, Moving DEF finished

-----------------------------------------------------------------------------
(* The select of serve.                                                    *)
LEMMA WantTail ==
    ASSUME ServerInv, want # <<>>
    PROVE  Tail(want) \in Seq(OutFrames) /\ QueueOK(Tail(want), Reach) /\ FrameOK(Head(want), Reach)
<1>1. want \in Seq(OutFrames) /\ QueueOK(want, Reach)
  BY Channels
<1>2. Len(want) > 0 /\ Head(want) = want[1] /\ Len(want) \in Nat
  BY <1>1
<1>3. Tail(want) \in Seq(OutFrames) /\ Len(Tail(want)) = Len(want) - 1
      /\ \A i \in 1 .. Len(want) - 1 : Tail(want)[i] = want[i + 1]
  BY <1>1
<1>4. \A i \in 1 .. Len(Tail(want)) : i + 1 \in 1 .. Len(want) /\ Tail(want)[i] = want[i + 1]
  BY <1>2, <1>3
<1> QED BY <1>1, <1>2, <1>3, <1>4 DEF QueueOK

LEMMA MsgsTail ==
    ASSUME ServerInv, msgs # <<>>
    PROVE  /\ IsSeq(Tail(msgs))
           /\ \A i \in 1 .. Len(Tail(msgs)) : Tail(msgs)[i][1] = "push" => Tail(msgs)[i][2] \in Ids
           /\ Head(msgs)[1] = "push" => Head(msgs)[2] \in Ids
<1>1. PICK S : msgs \in Seq(S)
  BY Channels DEF IsSeq
<1>2. Len(msgs) > 0 /\ Head(msgs) = msgs[1] /\ Len(msgs) \in Nat
  BY <1>1
<1>3. Tail(msgs) \in Seq(S) /\ Len(Tail(msgs)) = Len(msgs) - 1
      /\ \A i \in 1 .. Len(msgs) - 1 : Tail(msgs)[i] = msgs[i + 1]
  BY <1>1
<1>4. \A i \in 1 .. Len(Tail(msgs)) : i + 1 \in 1 .. Len(msgs) /\ Tail(msgs)[i] = msgs[i + 1]
  BY <1>2, <1>3
<1>5. 1 \in 1 .. Len(msgs)
  BY <1>2
<1> QED BY <1>2, <1>3, <1>4, <1>5, Channels DEF IsSeq

LEMMA WrittenOK == ASSUME ServerInv PROVE CallsOK(Written, Reach)
<1>1. CASE out.res = "none"
  BY <1>1, Facts DEF Written
<1>2. CASE out.res # "none"
  <2>1. FrameOK(out.cur, Reach) /\ out.res \in {"ok", "err"}
    BY <1>2, Facts DEF OutOK, Outs
  <2>2. CallOK(<<"wrote", out.cur, out.res>>, Reach)
    BY <2>1 DEF CallOK
  <2> QED BY <1>2, <2>2, OneOK DEF Written
<1> QED BY <1>1, <1>2

LEMMA serveWantWriteKeeps == ASSUME ServerInv, serveWantWrite PROVE ServerInv'
<1> DEFINE f == Head(want)
           items == IF f.t = "rst" THEN <<<<"reset", f.s>>>> ELSE <<<<"write", f>>>>
<1>1. want # <<>> /\ want' = Tail(want) /\ Iterate(items)
      /\ UNCHANGED <<scen, phase, sc, str, out, h, msgs, inputs, wire>>
  BY DEF serveWantWrite
<1>2. FrameOK(f, Reach)
  BY <1>1, WantTail
<1>3. f.t = "rst" => f.s \in Ids
  BY <1>2 DEF FrameOK, OutFrames
<1> HIDE DEF f
<1>4. CallOK(<<"write", f>>, Reach)
  BY <1>2 DEF CallOK
<1>5. CallsOK(items, Reach)
  BY <1>3, <1>4, StreamCalls, OneOK
<1> HIDE DEF items
<1>6. CallsOK(todo', Reach)
  BY <1>1, <1>5, IterateOK
<1> QED BY <1>1, <1>6, WantTail, Channels, Facts, Handling

LEMMA serveWroteKeeps == ASSUME ServerInv, serveWrote PROVE ServerInv'
BY WrittenOK, IterateOK, Calls DEF serveWrote

LEMMA serveReadKeeps == ASSUME ServerInv, NEW f, serveRead(f) PROVE ServerInv'
<1> DEFINE saw == sc.saw \/ f.t = "settings"
<1>1. /\ inputs < Len(scen.script) /\ f \in scen.script[inputs + 1] /\ inputs' = inputs + 1
      /\ sc' = [sc EXCEPT !.saw = saw]
      /\ Iterate(Written \o <<<<"frame", f>>>>)
      /\ UNCHANGED <<scen, phase, str, out, h, chans, wire>>
  BY DEF serveRead
<1>2. scen.script \in Seq(SUBSET InFrames) /\ inputs \in Nat /\ sc \in Conns
  BY ScenariosAssumption DEF ServerInv, Types
<1>3. f \in InFrames /\ inputs' \in Nat
  BY <1>1, <1>2
<1>4. CallsOK(todo', Reach)
  <2>1. CallOK(<<"frame", f>>, Reach)
    BY <1>3 DEF CallOK
  <2>2. CallsOK(Written \o <<<<"frame", f>>>>, Reach)
    BY <2>1, OneOK, WrittenOK, ConcatOK
  <2> QED BY <1>1, <2>2, IterateOK
<1>5. saw \in BOOLEAN
  BY <1>2 DEF Conns
<1> HIDE DEF saw
<1>6. ConnKept(sc')
  BY <1>1, <1>2, <1>5, Facts, Zenon DEF Conns, ConnKept
<1>7. Types'
  BY <1>1, <1>3, <1>6 DEF ServerInv, Types, chans, ConnKept
<1>8. Frames(todo', out', want', wire', Reach)
  BY <1>1, <1>4 DEF ServerInv, Frames, chans
<1> QED BY <1>1, <1>6, <1>7, <1>8, Kept DEF ConnKept

LEMMA serveReadErrorKeeps == ASSUME ServerInv, serveReadError PROVE ServerInv'
BY ReturnOK, Facts, Bookkeeping DEF serveReadError

LEMMA HandlerStep ==
    ASSUME ServerInv, NEW s \in Ids, NEW r \in HandlerRecs, r.pc = "none" <=> h[s].pc = "none",
           h' = [h EXCEPT ![s] = r]
    PROVE  h' \in [Ids -> HandlerRecs] /\ \A u \in Ids : h'[u].pc = "none" <=> h[u].pc = "none"
<1>1. h \in [Ids -> HandlerRecs]
  BY Facts
<1> QED BY <1>1

LEMMA serveBodyReadKeeps == ASSUME ServerInv, NEW s \in Ids, serveBodyRead(s) PROVE ServerInv'
<1> DEFINE n == h[s].n
<1>1. /\ h[s].pc = "reading" /\ h' = [h EXCEPT ![s].pc = "run", ![s].n = 0]
      /\ Iterate(<<<<"window", 0, n>>, <<"noteBodyRead", s, n>>>>)
      /\ UNCHANGED <<scen, phase, sc, str, out, chans, inputs, wire>>
  BY DEF serveBodyRead
<1>2. n \in Int
  BY Facts DEF HandlerRecs
<1> HIDE DEF n
<1>3. CallsOK(todo', Reach)
  <2>1. CallsOK(<<<<"window", 0, n>>, <<"noteBodyRead", s, n>>>>, Reach)
    BY <1>2, NumberCalls, TwoOK
  <2> QED BY <1>1, <2>1, IterateOK
<1>4. h' \in [Ids -> HandlerRecs] /\ \A u \in Ids : h'[u].pc = "none" <=> h[u].pc = "none"
  <2> DEFINE r == [h[s] EXCEPT !.pc = "run", !.n = 0]
  <2>1. h[s] \in HandlerRecs /\ 0 \in Nat
    BY Facts
  <2>2. r \in HandlerRecs /\ r.pc = "run"
    BY <2>1, Zenon DEF HandlerRecs
  <2>3. h' = [h EXCEPT ![s] = r]
    BY <1>1, Zenon
  <2> HIDE DEF r
  <2> QED BY <1>1, <2>2, <2>3, HandlerStep
<1> QED BY <1>1, <1>3, <1>4, Channels, Facts, Handling DEF chans

LEMMA noteBodyReadKeeps == ASSUME ServerInv, noteBodyRead PROVE ServerInv'
<1> DEFINE s == arg
           n == Head(todo)[3]
           items == IF str[s].st \in {"halfRemote", "closed"} THEN <<>> ELSE <<<<"window", s, n>>>>
<1>1. todo # <<>> /\ s \in Ids /\ n \in Int
  BY ArgOK DEF noteBodyRead, At, arg, CallOK
<1>2. Then(items) /\ UNCHANGED <<scen, phase, sc, str, out, h, chans, inputs, wire>>
  BY DEF noteBodyRead
<1> HIDE DEF s, n
<1>3. CallsOK(items, Reach)
  BY <1>1, NumberCalls, OneOK, EmptyOK
<1> HIDE DEF items
<1> QED BY <1>1, <1>2, <1>3, Facts, ThenOK, Calls

LEMMA serveTimerKeeps == ASSUME ServerInv, serveTimer PROVE ServerInv'
<1>1. msgs # <<>> /\ msgs' = Tail(msgs) /\ UNCHANGED <<scen, str, h, want, inputs, wire>>
  BY DEF serveTimer
<1>2. CallsOK(<<>> \o <<Check>>, Reach) /\ CallsOK(<<<<"write", Ctl("ping", 0)>>>>, Reach)
  BY ConnCalls, EmptyOK, OneOK, ConcatOK
<1>3. CASE Iterate(<<<<"goAway", "no">>>>) /\ UNCHANGED <<phase, sc, out>>
  <2>1. PICK c \in Codes : c = "no"
    BY DEF Codes
  <2>2. CallsOK(<<<<"goAway", c>>>>, Reach)
    BY GoAwayCall, OneOK
  <2>3. CallsOK(todo', Reach)
    BY <1>3, <2>1, <2>2, IterateOK
  <2> QED BY <1>1, <1>3, <2>3, MsgsTail, Channels, Facts, Handling
<1>4. CASE (\E o \in Orders : Return(o)) /\ UNCHANGED <<sc, out>>
  BY <1>1, <1>4, ReturnOK, MsgsTail, Channels, Facts, Handling
<1>5. CASE out' = [out EXCEPT !.open = FALSE] /\ Iterate(<<>>) /\ UNCHANGED <<phase, sc>>
  <2>1. CallsOK(todo', Reach)
    BY <1>5, EmptyOK, IterateOK
  <2> QED BY <1>1, <1>5, <2>1, ClosedOK, MsgsTail, Channels, Facts, Handling
<1>6. CASE Iterate(<<>>) /\ UNCHANGED <<phase, sc, out>>
  <2>1. CallsOK(todo', Reach)
    BY <1>6, EmptyOK, IterateOK
  <2> QED BY <1>1, <1>6, <2>1, MsgsTail, Channels, Facts, Handling
<1>7. CASE sc' = [sc EXCEPT !.ping = TRUE] /\ Iterate(<<<<"write", Ctl("ping", 0)>>>>) /\ UNCHANGED <<phase, out>>
  <2>1. CallsOK(todo', Reach)
    BY <1>2, <1>7, IterateOK
  <2>2. sc \in Conns
    BY DEF ServerInv, Types
  <2>3. ConnKept(sc')
    BY <1>7, <2>2, Facts, Zenon DEF Conns, ConnKept
  <2> QED BY <1>1, <1>7, <2>1, <2>3, MsgsTail, Channels, Facts, Handling
<1> QED BY <1>3, <1>4, <1>5, <1>6, <1>7, Zenon DEF serveTimer

(* The handlers that wait, and the ones that remain.                       *)
LEMMA RestOK ==
    ASSUME ServerInv
    PROVE  /\ Rest \in Seq(Ids)
           /\ \A i \in 1 .. Len(Rest) : \E j \in 1 .. Len(sc.unstarted) : Rest[i] = sc.unstarted[j]
<1> DEFINE q == sc.unstarted
<1>1. q \in Seq(Ids) /\ DOMAIN q = 1 .. Len(q) /\ Len(q) \in Nat
  <2>1. q \in Seq(Ids)
    BY DEF ServerInv, Types, Conns
  <2> HIDE DEF q
  <2> QED BY <2>1
<1>2. CASE Stays = {}
  BY <1>2 DEF Rest
<1>3. CASE Stays # {}
  <2> DEFINE first == CHOOSE i \in Stays : \A j \in Stays : i <= j
  <2>1. Stays \subseteq 1 .. Len(q)
    BY <1>1 DEF Stays, Waiting
  <2>2. \E i \in Stays : \A j \in Stays : i <= j
    <3>1. Stays \subseteq Nat
      BY <1>1, <2>1
    <3> QED BY <1>3, <3>1, LeastNat
  <2>3. first \in 1 .. Len(q)
    BY <2>1, <2>2
  <2>4. Rest = SubSeq(q, first, Len(q))
    BY <1>3 DEF Rest
  <2> HIDE DEF first, q
  <2>5. SubSeq(q, first, Len(q)) \in Seq(Ids) /\ Len(SubSeq(q, first, Len(q))) = Len(q) - first + 1
        /\ \A i \in 1 .. Len(q) - first + 1 : SubSeq(q, first, Len(q))[i] = q[first + i - 1]
    BY <1>1, <2>3
  <2>6. \A i \in 1 .. Len(q) - first + 1 : first + i - 1 \in 1 .. Len(q)
    BY <1>1, <2>3
  <2>7. Rest \in Seq(Ids) /\ \A i \in 1 .. Len(Rest) : \E j \in 1 .. Len(q) : Rest[i] = q[j]
    BY <2>4, <2>5, <2>6
  <2> QED BY <2>7 DEF q
<1> QED BY <1>2, <1>3

LEMMA handlerDoneKeeps == ASSUME ServerInv, handlerDone PROVE ServerInv'
<1> DEFINE go == {sc.unstarted[i] : i \in Waiting \ Stays}
           n == sc.handlers - 1 + Cardinality(Waiting \ Stays)
<1>1. /\ msgs # <<>> /\ msgs' = Tail(msgs) /\ sc' = [sc EXCEPT !.handlers = n, !.unstarted = Rest]
      /\ h' = [s \in Ids |-> IF s \in go THEN [h[s] EXCEPT !.pc = "run"] ELSE h[s]]
      /\ Iterate(<<>>) /\ UNCHANGED <<scen, phase, str, out, want, inputs, wire>>
  BY DEF handlerDone
<1>2. sc \in Conns /\ sc.unstarted \in Seq(Ids) /\ sc.handlers \in Int /\ sc.maxClient \in Nat
  <2>1. sc \in Conns
    BY DEF ServerInv, Types
  <2> QED BY <2>1 DEF Conns
<1>3. \A s \in go : h[s].pc # "none"
  <2>1. Waiting \subseteq 1 .. Len(sc.unstarted)
    BY <1>2 DEF Waiting
  <2> QED BY <2>1 DEF ServerInv, Numbers
<1>4. h' \in [Ids -> HandlerRecs] /\ \A s \in Ids : h'[s].pc = "none" <=> h[s].pc = "none"
  <2> HIDE DEF go
  <2>1. \A s \in Ids : [h[s] EXCEPT !.pc = "run"] \in HandlerRecs /\ [h[s] EXCEPT !.pc = "run"].pc = "run"
    <3> TAKE s \in Ids
    <3>1. h[s] \in HandlerRecs
      BY Facts
    <3> QED BY <3>1, Zenon DEF HandlerRecs
  <2>2. \A s \in Ids : /\ h[s] \in HandlerRecs
                       /\ h'[s] = IF s \in go THEN [h[s] EXCEPT !.pc = "run"] ELSE h[s]
    BY <1>1, Facts
  <2>3. h' \in [Ids -> HandlerRecs]
    BY <1>1, <2>1, <2>2, Zenon
  <2> QED BY <1>3, <2>1, <2>2, <2>3, Zenon
<1>5. n \in Int
  <2>1. Waiting \subseteq 1 .. Len(sc.unstarted) /\ Len(sc.unstarted) \in Nat
    BY <1>2 DEF Waiting
  <2>2. IsFiniteSet(Waiting \ Stays)
    <3>1. IsFiniteSet(1 .. Len(sc.unstarted))
      BY <2>1, FS_Interval
    <3> QED BY <2>1, <3>1, FS_Subset
  <2> QED BY <1>2, <2>2, FS_CardinalityType
<1> DEFINE q == Rest
<1>6. q \in Seq(Ids) /\ \A i \in 1 .. Len(q) : \E j \in 1 .. Len(sc.unstarted) : q[i] = sc.unstarted[j]
  BY RestOK
<1>7. sc' = [sc EXCEPT !.handlers = n, !.unstarted = q]
  BY <1>1
<1> HIDE DEF go, n, q
<1>8. /\ sc' \in Conns /\ sc'.inGoAway = sc.inGoAway /\ sc'.needGoAway = sc.needGoAway
      /\ sc'.maxClient = sc.maxClient /\ sc'.unstarted = q
  BY <1>2, <1>5, <1>6, <1>7, Zenon DEF Conns
<1>9. Known' = Known /\ Reach' = Reach
  BY <1>4, <1>8 DEF Known, Reach
<1>10. Types'
  BY <1>1, <1>4, <1>8, MsgsTail DEF ServerInv, Types
<1>11. CallsOK(todo', Reach)
  BY <1>1, EmptyOK, IterateOK
<1>12. Frames(todo, out, want, wire, Reach)'
  BY <1>1, <1>9, <1>11 DEF ServerInv, Frames
<1>13. Numbers'
  <2>1. \A i \in 1 .. Len(sc.unstarted) : sc.unstarted[i] \in Ids
    BY <1>2
  <2>2. \A i \in 1 .. Len(q) : h'[q[i]].pc # "none"
    BY <1>4, <1>6, <2>1 DEF ServerInv, Numbers
  <2> QED BY <1>8, <1>9, <2>2 DEF ServerInv, Numbers
<1> QED BY <1>10, <1>12, <1>13 DEF ServerInv

LEMMA startPushKeeps == ASSUME ServerInv, startPush PROVE ServerInv'
<1> DEFINE s == Head(msgs)[2]
           f == Out("push", s, 0, FALSE, TRUE)
           c == IF str[s].st \in {"open", "halfRemote"} /\ sc.push THEN <<"write", f>> ELSE <<"reply", f>>
<1>1. /\ msgs # <<>> /\ msgs' = Tail(msgs) /\ Head(msgs)[1] = "push" /\ Iterate(<<c>>)
      /\ UNCHANGED <<scen, phase, sc, str, out, h, want, inputs, wire>>
  BY DEF startPush
<1>2. s \in Ids /\ s # 0
  BY <1>1, MsgsTail, IdsAssumption
<1> HIDE DEF s
<1>3. FrameOK(f, Reach)
  BY <1>2, CtlOK
<1> HIDE DEF f
<1>4. CallOK(c, Reach)
  BY <1>3 DEF CallOK
<1> HIDE DEF c
<1>5. CallsOK(todo', Reach)
  BY <1>1, <1>4, OneOK, IterateOK
<1> QED BY <1>1, <1>5, MsgsTail, Channels, Facts, Handling

-----------------------------------------------------------------------------
(* Frames of the client.                                                   *)
LEMMA FrameArg ==
    ASSUME ServerInv, At("frame")
    PROVE  /\ todo # <<>> /\ arg \in InFrames /\ arg.s \in Ids \cup {0} /\ arg.n \in Nat /\ arg.pad \in Nat
           /\ arg.t \notin {"settings", "ping", "goaway", "windowUpdate", "pushPromise", "tooLarge"} => arg.s \in Ids
<1>1. todo # <<>> /\ arg \in InFrames
  BY ArgOK DEF At, arg, CallOK
<1> QED BY <1>1 DEF InFrames

LEMMA ConnErrorOK ==
    ASSUME ServerInv, At("frame"), NEW c \in Codes, ConnError(c)
    PROVE  ConnKept(sc') /\ CallsOK(todo', Reach)
<1>0. arg.s \in Nat
  <2>1. arg.s \in Ids \cup {0}
    BY FrameArg
  <2>2. \A s \in Ids \cup {0} : s \in Nat
    BY IdsAssumption
  <2> QED BY <2>1, <2>2, Zenon
<1> DEFINE m == IF arg.s > sc.maxClient THEN arg.s ELSE sc.maxClient
<1>1. todo # <<>> /\ sc' = [sc EXCEPT !.maxClient = m] /\ Then(<<<<"goAway", c>>>>)
  BY FrameArg DEF ConnError, ConnErrorOn
<1>2. sc \in Conns /\ sc.maxClient \in Nat
  BY DEF ServerInv, Types, Conns
<1>3. m \in Nat /\ m >= sc.maxClient
  BY <1>0, <1>2
<1> HIDE DEF m
<1>4. sc' \in Conns /\ sc'.inGoAway = sc.inGoAway /\ sc'.needGoAway = sc.needGoAway
      /\ sc'.maxClient = m /\ sc'.unstarted = sc.unstarted
  BY <1>1, <1>2, <1>3, Zenon DEF Conns
<1>5. CallsOK(todo', Reach)
  <2>1. CallsOK(<<<<"goAway", c>>>>, Reach)
    BY GoAwayCall, OneOK
  <2> QED BY <1>1, <2>1, Facts, ThenOK
<1> QED BY <1>3, <1>4, <1>5 DEF ConnKept

LEMMA GoAwayThen ==
    ASSUME ServerInv, todo # <<>>,
           Then(<<<<"goAway", "no">>>>) \/ Then(<<<<"goAway", "size">>>>) \/ Then(<<<<"goAway", "flow">>>>)
               \/ Then(<<<<"goAway", "calm">>>>)
    PROVE  CallsOK(todo', Reach)
<1>1. PICK c \in Codes : Then(<<<<"goAway", c>>>>)
  BY Zenon DEF Codes
<1>2. CallsOK(<<<<"goAway", c>>>>, Reach)
  BY GoAwayCall, OneOK
<1> QED BY <1>1, <1>2, Facts, ThenOK

(* The error of a SETTINGS frame that has set the window already.          *)
LEMMA OverflowConn ==
    ASSUME ServerInv, NEW n, ConnErrorOn([sc EXCEPT !.swin = n], "flow")
    PROVE  /\ sc' = [sc EXCEPT !.swin = n, !.maxClient = IF arg.s > sc.maxClient THEN arg.s ELSE sc.maxClient]
           /\ Then(<<<<"goAway", "flow">>>>)
<1>1. sc \in Conns
  BY DEF ServerInv, Types
<1>2. [sc EXCEPT !.swin = n].maxClient = sc.maxClient
  BY <1>1 DEF Conns
<1> QED BY <1>1, <1>2 DEF ConnErrorOn

LEMMA OverflowOK ==
    ASSUME ServerInv, At("frame"), NEW n \in Int, ConnErrorOn([sc EXCEPT !.swin = n], "flow")
    PROVE  ConnKept(sc') /\ CallsOK(todo', Reach)
<1> DEFINE m == IF arg.s > sc.maxClient THEN arg.s ELSE sc.maxClient
<1>0. arg.s \in Nat
  <2>1. arg.s \in Ids \cup {0}
    BY FrameArg
  <2>2. \A s \in Ids \cup {0} : s \in Nat
    BY IdsAssumption
  <2> QED BY <2>1, <2>2, Zenon
<1>1. todo # <<>> /\ sc' = [sc EXCEPT !.swin = n, !.maxClient = m] /\ Then(<<<<"goAway", "flow">>>>)
  BY FrameArg, OverflowConn
<1>2. sc \in Conns /\ sc.maxClient \in Nat
  BY DEF ServerInv, Types, Conns
<1>3. m \in Nat /\ m >= sc.maxClient
  BY <1>0, <1>2
<1> HIDE DEF m
<1>4. sc' \in Conns /\ sc'.inGoAway = sc.inGoAway /\ sc'.needGoAway = sc.needGoAway
      /\ sc'.maxClient = m /\ sc'.unstarted = sc.unstarted
  BY <1>1, <1>2, <1>3, Zenon DEF Conns
<1>5. CallsOK(todo', Reach)
  BY <1>1, GoAwayThen
<1> QED BY <1>3, <1>4, <1>5 DEF ConnKept

(* The error codes of processFrame.                                        *)
LEMMA ConnErrorsOK ==
    ASSUME ServerInv, At("frame"), ConnError("protocol") \/ ConnError("flow")
    PROVE  ConnKept(sc') /\ CallsOK(todo', Reach)
<1>1. PICK c \in Codes : c = "protocol"
  BY DEF Codes
<1>2. PICK d \in Codes : d = "flow"
  BY DEF Codes
<1> QED BY <1>1, <1>2, ConnErrorOK

LEMMA StrErrorOK ==
    ASSUME ServerInv, At("frame"), arg.s \in Ids, StrError
    PROVE  ConnKept(sc') /\ CallsOK(todo', Reach)
<1>1. CallsOK(<<<<"reset", arg.s>>>>, Reach)
  BY StreamCalls, OneOK
<1> QED BY <1>1, Facts, FrameArg, ThenOK DEF StrError

LEMMA QuietOK ==
    ASSUME ServerInv, At("frame"), Quiet
    PROVE  ConnKept(sc') /\ CallsOK(todo', Reach)
BY Facts, FrameArg, ThenOK DEF Quiet

LEMMA ReceiveOK ==
    ASSUME ServerInv, NEW n \in Int, sc' = [sc EXCEPT !.avail = @ - n]
    PROVE  ConnKept(sc')
<1>1. sc.avail - n \in Int
  <2>1. sc \in Conns
    BY DEF ServerInv, Types
  <2>2. sc.avail \in Int
    BY <2>1 DEF Conns
  <2> QED BY <2>2
<1> QED BY <1>1, NumbersKept

LEMMA GiveBackOK ==
    ASSUME ServerInv, At("frame"), arg.s \in Ids, NEW rest, CallsOK(rest, Reach), GiveBack(arg, rest)
    PROVE  ConnKept(sc') /\ CallsOK(todo', Reach)
<1> DEFINE f == arg
           n == f.n + f.pad
<1>1. todo # <<>> /\ f.n \in Nat /\ f.pad \in Nat /\ n \in Int
  BY FrameArg
<1>2. CASE StrError
  BY <1>2, StrErrorOK
<1>3. CASE sc' = [sc EXCEPT !.avail = @ - f.n - f.pad] /\ Then(<<<<"window", 0, n>>>> \o rest)
  <2>1. CallsOK(<<<<"window", 0, n>>>>, Reach)
    BY <1>1, WindowCall, OneOK
  <2>2. CallsOK(todo', Reach)
    BY <1>1, <1>3, <2>1, ConcatOK, Facts, ThenOK
  <2>3. sc.avail - f.n - f.pad \in Int
    <3>1. sc \in Conns
      BY DEF ServerInv, Types
    <3>2. sc.avail \in Int
      BY <3>1 DEF Conns
    <3> QED BY <1>1, <3>2
  <2>4. ConnKept(sc')
    BY <1>3, <2>3, NumbersKept
  <2> QED BY <2>2, <2>4
<1> QED BY <1>2, <1>3 DEF GiveBack

LEMMA processOtherKeeps == ASSUME ServerInv, processOther PROVE ServerInv'
<1> DEFINE f == arg
<1>1. At("frame") /\ UNCHANGED <<scen, phase, str, out, h, chans, inputs, wire>>
  BY DEF processOther
<1>2. CASE sc' = sc /\ Then(<<<<"goAway", "size">>>>)
  BY <1>1, <1>2, GoAwayThen, FrameArg, Facts, Bookkeeping
<1>3. CASE f.s \in Ids /\ StrError
  BY <1>1, <1>3, StrErrorOK, Facts, Bookkeeping
<1>4. CASE ConnError("protocol")
  BY <1>1, <1>4, ConnErrorsOK, Facts, Bookkeeping
<1>5. CASE Quiet
  BY <1>1, <1>5, QuietOK, Facts, Bookkeeping
<1>6. CASE f.s \in Ids /\ f.n + f.pad <= sc.avail /\ sc' = [sc EXCEPT !.avail = @ - f.n - f.pad]
           /\ Then(<<<<"window", 0, f.n + f.pad>>>>)
  <2>1. CallsOK(<<>>, Reach) /\ <<<<"window", 0, f.n + f.pad>>>> \o <<>> = <<<<"window", 0, f.n + f.pad>>>>
    BY Facts
  <2>2. sc.avail \in Int /\ f.n + f.pad \in Int
    <3>1. sc \in Conns
      BY DEF ServerInv, Types
    <3>2. sc.avail \in Int
      BY <3>1 DEF Conns
    <3> QED BY <1>1, <3>2, FrameArg
  <2>3. GiveBack(f, <<>>)
    BY <1>6, <2>1, <2>2 DEF GiveBack
  <2> QED BY <1>1, <1>6, <2>1, <2>3, GiveBackOK, Facts, Bookkeeping
<1>7. f.t \in {"streamError", "data"} => f.s \in Ids
  BY <1>1, FrameArg
<1>8. sc.avail \in Int /\ f.n + f.pad \in Int
  <2>1. sc \in Conns
    BY DEF ServerInv, Types
  <2>2. sc.avail \in Int
    BY <2>1 DEF Conns
  <2> QED BY <1>1, <2>2, FrameArg
<1>9. f.n + f.pad > sc.avail \/ f.n + f.pad <= sc.avail
  BY <1>8
<1> QED BY <1>2, <1>3, <1>4, <1>5, <1>6, <1>7, <1>9, Zenon DEF processOther

LEMMA processSettingsKeeps == ASSUME ServerInv, processSettings PROVE ServerInv'
<1> DEFINE f == arg
           growth == f.n - sc.swin
           m == sc.unacked - 1
           push == sc.push /\ f.v # "noPush"
           n == f.n
<1>1. At("frame") /\ UNCHANGED <<scen, phase, out, h, chans, inputs, wire>>
  BY DEF processSettings, Processing
<1>2. todo # <<>> /\ sc \in Conns /\ n \in Int /\ growth \in Int /\ m \in Int /\ push \in BOOLEAN
  <2>1. sc \in Conns
    BY DEF ServerInv, Types
  <2>2. sc.swin \in Int /\ sc.unacked \in Int
    BY <2>1 DEF Conns
  <2>3. arg.n \in Nat
    BY <1>1, FrameArg
  <2> QED BY <1>1, <2>1, <2>2, <2>3, FrameArg
<1> DEFINE c1 == [sc EXCEPT !.unacked = m]
           c2 == [sc EXCEPT !.swin = n, !.needAck = TRUE]
           c3 == [sc EXCEPT !.push = push, !.needAck = TRUE]
           grown(S) == [s \in Ids |-> IF s \in S THEN [str[s] EXCEPT !.win = @ + growth] ELSE str[s]]
<1>3. \/ ConnError("protocol") /\ UNCHANGED str
      \/ (\E S : str' = grown(S)) /\ ConnErrorOn([sc EXCEPT !.swin = n], "flow")
      \/ sc' = c1 /\ Then(<<>>) /\ UNCHANGED str
      \/ (\E S : str' = grown(S)) /\ sc' = c2 /\ Then(<<Sched>>)
      \/ sc' = c3 /\ Then(<<Sched>>) /\ UNCHANGED str
  BY Zenon DEF processSettings
<1> HIDE DEF m, push, n, growth
<1>4. ConnKept(c1) /\ ConnKept(c2) /\ ConnKept(c3)
  <2>1. ConnKept(c1)
    BY <1>2, Facts, Zenon DEF Conns, ConnKept
  <2>2. ConnKept(c2)
    BY <1>2, Facts, Zenon DEF Conns, ConnKept
  <2>3. ConnKept(c3)
    BY <1>2, Facts, Zenon DEF Conns, ConnKept
  <2> QED BY <2>1, <2>2, <2>3
<1>5. ASSUME NEW S PROVE grown(S) \in [Ids -> StreamRecs]
  <2>1. ASSUME NEW s \in Ids PROVE [str[s] EXCEPT !.win = @ + growth] \in StreamRecs /\ str[s] \in StreamRecs
    <3>1. str[s] \in StreamRecs
      BY Facts
    <3>2. str[s].win \in Int
      BY <3>1 DEF StreamRecs
    <3>3. str[s].win + growth \in Int
      BY <1>2, <3>2
    <3>4. [str[s] EXCEPT !.win = @ + growth] \in StreamRecs
      BY <3>1, <3>3, Zenon DEF StreamRecs
    <3> QED BY <3>1, <3>4
  <2> QED BY <2>1, Zenon
<1> HIDE DEF c1, c2, c3, grown
<1>6. CallsOK(<<Sched>>, Reach)
  BY ConnCalls, OneOK
<1>7. CASE ConnError("protocol") /\ UNCHANGED str
  BY <1>1, <1>7, ConnErrorsOK, Facts, Bookkeeping
<1>8. CASE sc' = c1 /\ Then(<<>>) /\ UNCHANGED str
  BY <1>1, <1>2, <1>4, <1>8, ThenOK, Facts, Bookkeeping
<1>11. CASE (\E S : str' = grown(S)) /\ ConnErrorOn([sc EXCEPT !.swin = n], "flow")
  BY <1>1, <1>2, <1>5, <1>11, OverflowOK, Facts, Bookkeeping
<1>9. CASE (\E S : str' = grown(S)) /\ sc' = c2 /\ Then(<<Sched>>)
  BY <1>1, <1>2, <1>4, <1>5, <1>6, <1>9, ThenOK, Facts, Bookkeeping
<1>10. CASE sc' = c3 /\ Then(<<Sched>>) /\ UNCHANGED str
  BY <1>1, <1>2, <1>4, <1>6, <1>10, ThenOK, Facts, Bookkeeping
<1> QED BY <1>3, <1>7, <1>8, <1>9, <1>10, <1>11

LEMMA processTrailerHeadersKeeps == ASSUME ServerInv, processTrailerHeaders PROVE ServerInv'
<1> DEFINE s == arg.s
<1>1. At("frame") /\ s \in Ids /\ UNCHANGED <<scen, phase, out, h, chans, inputs, wire>>
  BY DEF processTrailerHeaders, Processing, liveIds
<1>2. \/ Quiet /\ UNCHANGED str
      \/ StrError /\ UNCHANGED str
      \/ ConnError("protocol") /\ UNCHANGED str
      \/ /\ str' = [str EXCEPT ![s].gotTrailer = TRUE]
         /\ StrError \/ (sc' = sc /\ Then(<<<<"endStream", s>>>>))
  BY Zenon DEF processTrailerHeaders
<1> HIDE DEF s
<1>3. [str EXCEPT ![s].gotTrailer = TRUE] \in [Ids -> StreamRecs]
  BY <1>1, StreamFlags
<1>4. str' \in [Ids -> StreamRecs]
  BY <1>2, <1>3, Facts
<1>5. CASE StrError
  BY <1>1, <1>4, <1>5, StrErrorOK, Facts, Bookkeeping DEF s
<1>6. CASE Quiet
  BY <1>1, <1>4, <1>6, QuietOK, Facts, Bookkeeping
<1>7. CASE ConnError("protocol")
  BY <1>1, <1>4, <1>7, ConnErrorsOK, Facts, Bookkeeping
<1>8. CASE sc' = sc /\ Then(<<<<"endStream", s>>>>)
  <2>1. CallsOK(<<<<"endStream", s>>>>, Reach)
    BY <1>1, StreamCalls, OneOK
  <2> QED BY <1>1, <1>4, <1>8, <2>1, FrameArg, ThenOK, Facts, Bookkeeping
<1> QED BY <1>2, <1>5, <1>6, <1>7, <1>8

LEMMA processDataUnwantedKeeps == ASSUME ServerInv, processDataUnwanted PROVE ServerInv'
<1> DEFINE f == arg
           rest == IF f.s \in liveIds /\ str[f.s].resetQueued THEN <<>> ELSE <<<<"reset", f.s>>>>
<1>1. At("frame") /\ f.t = "data" /\ UNCHANGED <<scen, phase, str, out, h, chans, inputs, wire>>
  BY DEF processDataUnwanted, Processing
<1>2. f.s \in Ids
  BY <1>1, FrameArg
<1>3. CASE ConnError("protocol")
  BY <1>1, <1>3, ConnErrorsOK, Facts, Bookkeeping
<1>4. CASE GiveBack(f, rest)
  <2>1. CallsOK(<<<<"reset", f.s>>>>, Reach)
    BY <1>2, StreamCalls, OneOK
  <2>2. CallsOK(rest, Reach)
    BY <2>1, Facts
  <2> HIDE DEF rest
  <2> QED BY <1>1, <1>2, <1>4, <2>2, GiveBackOK, Facts, Bookkeeping
<1> QED BY <1>3, <1>4, Zenon DEF processDataUnwanted

LEMMA endStreamKeeps == ASSUME ServerInv, endStream PROVE ServerInv'
<1>1. todo # <<>> /\ arg \in Ids
  BY ArgOK DEF endStream, At, arg, CallOK
<1>2. CallsOK(todo', Reach)
  BY <1>1, Facts, ThenOK DEF endStream
<1>3. str' \in [Ids -> StreamRecs]
  BY <1>1, Facts, StreamFlags DEF endStream
<1> QED BY <1>2, <1>3, Facts, Bookkeeping DEF endStream

LEMMA processResetStreamKeeps == ASSUME ServerInv, processResetStream PROVE ServerInv'
<1> DEFINE items == IF arg.s \in liveIds THEN <<<<"close", arg.s>>>> ELSE <<>>
<1>1. At("frame") /\ UNCHANGED <<scen, phase, str, out, h, chans, inputs, wire>>
  BY DEF processResetStream, Processing
<1>2. CASE ConnError("protocol")
  BY <1>1, <1>2, ConnErrorsOK, Facts, Bookkeeping
<1>3. CASE sc' = sc /\ Then(items)
  <2>1. arg.s \in Ids => CallsOK(<<<<"close", arg.s>>>>, Reach)
    BY StreamCalls, OneOK
  <2>2. CallsOK(items, Reach)
    BY <2>1, Facts DEF liveIds
  <2> HIDE DEF items
  <2> QED BY <1>1, <1>3, <2>2, FrameArg, ThenOK, Facts, Bookkeeping
<1> QED BY <1>2, <1>3 DEF processResetStream

LEMMA processWindowUpdateKeeps == ASSUME ServerInv, processWindowUpdate PROVE ServerInv'
<1> DEFINE s == arg.s
           n == arg.n
<1>1. At("frame") /\ todo # <<>> /\ n \in Nat /\ UNCHANGED <<scen, phase, out, h, chans, inputs, wire>>
  <2>1. At("frame") /\ UNCHANGED <<scen, phase, out, h, chans, inputs, wire>>
    BY DEF processWindowUpdate, Processing
  <2> QED BY <2>1, FrameArg
<1>2. \/ sc' = sc /\ Then(<<<<"goAway", "flow">>>>) /\ UNCHANGED str
      \/ sc' = [sc EXCEPT !.cwin = @ + n] /\ Then(<<Sched>>) /\ UNCHANGED str
      \/ ConnError("protocol") /\ UNCHANGED str
      \/ Quiet /\ UNCHANGED str
      \/ s \in liveIds /\ StrError /\ UNCHANGED str
      \/ sc' = sc /\ s \in liveIds /\ str' = [str EXCEPT ![s].win = @ + n] /\ Then(<<Sched>>)
  <2> DEFINE A == s = 0 /\ sc.cwin + n > MaxWindow
             B == s = 0 /\ sc.cwin + n <= MaxWindow
             C == s # 0 /\ s \notin liveIds
             D == s \in liveIds /\ str[s].win + n > MaxWindow
  <2>1. \/ A /\ sc' = sc /\ Then(<<<<"goAway", "flow">>>>) /\ UNCHANGED str
        \/ B /\ sc' = [sc EXCEPT !.cwin = @ + n] /\ Then(<<Sched>>) /\ UNCHANGED str
        \/ C /\ (ConnError("protocol") \/ Quiet) /\ UNCHANGED str
        \/ D /\ StrError /\ UNCHANGED str
        \/ ~A /\ ~B /\ ~C /\ ~D /\ sc' = sc /\ str' = [str EXCEPT ![s].win = @ + n] /\ Then(<<Sched>>)
    BY Zenon DEF processWindowUpdate
  <2>2. A \/ B \/ s # 0
    <3>1. sc \in Conns
      BY DEF ServerInv, Types
    <3>2. sc.cwin \in Int
      BY <3>1 DEF Conns
    <3> QED BY <1>1, <3>2, WindowsAssumption
  <2> HIDE DEF A, B
  <2> QED BY <2>1, <2>2, Zenon
<1>3. s \in liveIds => s \in Ids
  BY DEF liveIds
<1>4. CallsOK(<<Sched>>, Reach)
  BY ConnCalls, OneOK
<1>5. CASE sc' = sc /\ Then(<<<<"goAway", "flow">>>>) /\ UNCHANGED str
  BY <1>1, <1>5, GoAwayThen, Facts, Bookkeeping
<1>6. CASE sc' = [sc EXCEPT !.cwin = @ + n] /\ Then(<<Sched>>) /\ UNCHANGED str
  <2>1. sc \in Conns
    BY DEF ServerInv, Types
  <2>2. sc.cwin \in Int
    BY <2>1 DEF Conns
  <2>3. sc.cwin + n \in Int
    BY <1>1, <2>2
  <2>4. ConnKept(sc')
    BY <1>6, <2>3, NumbersKept
  <2> QED BY <1>1, <1>4, <1>6, <2>4, ThenOK, Facts, Bookkeeping
<1>7. CASE ConnError("protocol") /\ UNCHANGED str
  BY <1>1, <1>7, ConnErrorsOK, Facts, Bookkeeping
<1>8. CASE Quiet /\ UNCHANGED str
  BY <1>1, <1>8, QuietOK, Facts, Bookkeeping
<1>9. CASE s \in liveIds /\ StrError /\ UNCHANGED str
  BY <1>1, <1>3, <1>9, StrErrorOK, Facts, Bookkeeping
<1>10. CASE sc' = sc /\ s \in liveIds /\ str' = [str EXCEPT ![s].win = @ + n] /\ Then(<<Sched>>)
  <2>1. s \in Ids
    BY <1>3, <1>10
  <2>2. str[s].win + n \in Int
    <3>1. str[s] \in StreamRecs
      BY <2>1, Facts
    <3>2. str[s].win \in Int
      BY <3>1 DEF StreamRecs
    <3> QED BY <1>1, <3>2
  <2>3. str' \in [Ids -> StreamRecs]
    BY <1>10, <2>1, <2>2, StreamNumbers
  <2> QED BY <1>1, <1>4, <1>10, <2>3, ThenOK, Facts, Bookkeeping
<1> QED BY <1>2, <1>5, <1>6, <1>7, <1>8, <1>9, <1>10

LEMMA processRestKeeps == ASSUME ServerInv, processRest PROVE ServerInv'
<1>1. At("frame") /\ todo # <<>> /\ UNCHANGED <<scen, phase, str, out, h, chans, inputs, wire>>
  <2>1. At("frame") /\ UNCHANGED <<scen, phase, str, out, h, chans, inputs, wire>>
    BY DEF processRest, Processing
  <2> QED BY <2>1, FrameArg
<1>2. sc \in Conns
  BY DEF ServerInv, Types
<1>3. CASE sc' = [sc EXCEPT !.ping = FALSE] /\ Then(<<>>)
  <2>1. ConnKept(sc')
    BY <1>2, <1>3, Facts, Zenon DEF Conns, ConnKept
  <2> QED BY <1>1, <1>3, <2>1, ThenOK, Facts, Bookkeeping
<1>4. CASE sc' = sc /\ Then(<<<<"write", Ctl("ping", 0)>>>>)
  <2>1. CallsOK(<<<<"write", Ctl("ping", 0)>>>>, Reach)
    BY ConnCalls, OneOK
  <2> QED BY <1>1, <1>4, <2>1, ThenOK, Facts, Bookkeeping
<1>5. CASE arg.s \in Ids /\ StrError
  BY <1>1, <1>5, StrErrorOK, Facts, Bookkeeping
<1>6. CASE Quiet
  BY <1>1, <1>6, QuietOK, Facts, Bookkeeping
<1>7. CASE sc' = [sc EXCEPT !.push = FALSE] /\ Then(<<<<"goAway", "no">>>>)
  <2>1. ConnKept(sc')
    BY <1>2, <1>7, Facts, Zenon DEF Conns, ConnKept
  <2> QED BY <1>1, <1>7, <2>1, GoAwayThen, Facts, Bookkeeping
<1>8. CASE ConnError("protocol")
  BY <1>1, <1>8, ConnErrorsOK, Facts, Bookkeeping
<1>9. Processing("priority") => arg.s \in Ids
  BY FrameArg DEF Processing
<1> QED BY <1>3, <1>4, <1>5, <1>6, <1>7, <1>8, <1>9, Zenon DEF processRest

LEMMA processDataKeeps == ASSUME ServerInv, processData PROVE ServerInv'
<1> DEFINE f == arg
           s == f.s
           L == f.n + f.pad
           dead == str[s].err \/ str[s].broken
           a == str[s].avail - L
           g == str[s].got + f.n
           n == IF dead THEN str[s].len ELSE str[s].len + f.n
           items == IF dead /\ f.n > 0 THEN <<<<"window", 0, L>>>>
                    ELSE (IF L > 0 THEN <<<<"window", 0, f.pad>>, <<"window", s, f.pad>>>> ELSE <<>>)
                         \o (IF f.end THEN <<<<"endStream", s>>>> ELSE <<>>)
<1>1. At("frame") /\ f.t = "data" /\ UNCHANGED <<scen, out, h, chans, inputs, wire>>
  BY DEF processData, Processing
<1>2. todo # <<>> /\ s \in Ids /\ f.n \in Nat /\ f.pad \in Nat /\ L \in Int
  BY <1>1, FrameArg
<1>3. \/ Panic /\ UNCHANGED <<sc, str>>
      \/ /\ GiveBack(f, <<<<"reset", s>>>>)
         /\ str' = IF L > sc.avail THEN str ELSE [str EXCEPT ![s].err = TRUE]
         /\ UNCHANGED phase
      \/ StrError /\ UNCHANGED <<str, phase>>
      \/ /\ sc' = [sc EXCEPT !.avail = @ - L]
         /\ str' = [str EXCEPT ![s].avail = a, ![s].got = g, ![s].len = n]
         /\ Then(items)
         /\ UNCHANGED phase
  <2> DEFINE r == [str[s] EXCEPT !.avail = @ - L, !.got = @ + f.n, !.len = IF dead THEN @ ELSE @ + f.n]
             q == [str[s] EXCEPT !.avail = a, !.got = g, !.len = n]
  <2>1. [str EXCEPT ![s].avail = @ - L, ![s].got = @ + f.n, ![s].len = IF dead THEN @ ELSE @ + f.n]
        = [str EXCEPT ![s].avail = a, ![s].got = g, ![s].len = n]
    <3>1. str \in [Ids -> StreamRecs] /\ str[s] \in StreamRecs
      BY <1>2, Facts
    <3>2. [str EXCEPT ![s].avail = @ - L, ![s].got = @ + f.n, ![s].len = IF dead THEN @ ELSE @ + f.n] = [str EXCEPT ![s] = r]
      BY <3>1, Zenon
    <3>3. [str EXCEPT ![s].avail = a, ![s].got = g, ![s].len = n] = [str EXCEPT ![s] = q]
      BY <3>1, Zenon
    <3>4. r = q
      BY Zenon
    <3> QED BY <3>2, <3>3, <3>4, Zenon
  <2> QED BY <2>1, Zenon DEF processData
<1>4. CASE Panic /\ UNCHANGED <<sc, str>>
  BY <1>1, <1>4, Facts, Bookkeeping DEF Panic
<1>5. CASE /\ GiveBack(f, <<<<"reset", s>>>>)
           /\ str' = IF L > sc.avail THEN str ELSE [str EXCEPT ![s].err = TRUE]
           /\ UNCHANGED phase
  <2>1. CallsOK(<<<<"reset", s>>>>, Reach)
    BY <1>2, StreamCalls, OneOK
  <2>2. ConnKept(sc') /\ CallsOK(todo', Reach)
    BY <1>1, <1>2, <1>5, <2>1, GiveBackOK
  <2>3. str' \in [Ids -> StreamRecs]
    BY <1>2, <1>5, StreamFlags, Facts
  <2> QED BY <1>1, <1>5, <2>2, <2>3, Facts, Bookkeeping
<1>6. CASE StrError /\ UNCHANGED <<str, phase>>
  BY <1>1, <1>2, <1>6, StrErrorOK, Facts, Bookkeeping
<1>7. CASE /\ sc' = [sc EXCEPT !.avail = @ - L]
           /\ str' = [str EXCEPT ![s].avail = a, ![s].got = g, ![s].len = n]
           /\ Then(items)
           /\ UNCHANGED phase
  <2>1. ConnKept(sc')
    BY <1>2, <1>7, ReceiveOK
  <2>2. a \in Int /\ g \in Int /\ n \in Int
    <3>1. str[s] \in StreamRecs
      BY <1>2, Facts
    <3>2. str[s].avail \in Int /\ str[s].got \in Int /\ str[s].len \in Int
      BY <3>1 DEF StreamRecs
    <3> HIDE DEF s
    <3> QED BY <1>2, <3>2
  <2> HIDE DEF a, g, n
  <2>3. str' \in [Ids -> StreamRecs]
    BY <1>2, <1>7, <2>2, StreamNumbers
  <2>4. CallsOK(items, Reach)
    <3>1. CallsOK(<<<<"window", 0, L>>>>, Reach)
      BY <1>2, WindowCall, OneOK
    <3>2. CallsOK(<<<<"window", 0, f.pad>>, <<"window", s, f.pad>>>>, Reach)
      <4>1. f.pad \in Int
        BY <1>2
      <4>2. CallOK(<<"window", 0, f.pad>>, Reach) /\ CallOK(<<"window", s, f.pad>>, Reach)
        BY <1>2, <4>1, NumberCalls
      <4> QED BY <4>2, TwoOK
    <3>3. CallsOK(<<<<"endStream", s>>>>, Reach)
      BY <1>2, StreamCalls, OneOK
    <3> QED BY <3>1, <3>2, <3>3, Facts, ConcatOK
  <2> HIDE DEF items
  <2>5. CallsOK(todo', Reach)
    BY <1>2, <1>7, <2>4, Facts, ThenOK
  <2> QED BY <1>1, <1>7, <2>1, <2>3, <2>5, Facts, Bookkeeping
<1> QED BY <1>3, <1>4, <1>5, <1>6, <1>7

(* A new stream of the client, as processHeaders opens it.                 *)
LEMMA OpenedOK ==
    ASSUME ServerInv, NEW st \in {"open", "halfRemote"}, NEW b \in BOOLEAN, NEW d \in Int
    PROVE  [NewStream(st, sc.swin) EXCEPT !.body = b, !.decl = d] \in StreamRecs
<1>1. StreamRecv \in Int /\ sc.swin \in Int
  <2>1. sc \in Conns
    BY DEF ServerInv, Types
  <2> QED BY <2>1, WindowsAssumption DEF Conns
<1>2. NoStream \in StreamRecs
  BY DEF NoStream, StreamRecs
<1>3. NewStream(st, sc.swin) \in StreamRecs
  BY <1>1, <1>2, Zenon DEF StreamRecs, NewStream
<1> QED BY <1>3, Zenon DEF StreamRecs

LEMMA processHeadersKeeps == ASSUME ServerInv, processHeaders PROVE ServerInv'
<1> DEFINE f == arg
           s == f.s
           m == sc.nClient + 1
           seen == [sc EXCEPT !.maxClient = s]
           opened == [seen EXCEPT !.nClient = @ + 1]
           st == IF f.end THEN "halfRemote" ELSE "open"
           b == ~f.end /\ f.v # "bad"
           d == IF f.v = "len" THEN 1 ELSE -1
           r == [NewStream(st, sc.swin) EXCEPT !.body = b, !.decl = d]
           head == f.v = "head"
           g1 == [NoHandler EXCEPT !.pc = "run", !.head = head]
           g2 == [NoHandler EXCEPT !.pc = "queued", !.head = head]
           fresh == Odd(s) /\ ~(s <= sc.maxClient)
           x == Append(sc.unstarted, s)
           k == sc.handlers + 1
           c1 == [opened EXCEPT !.handlers = k]
           c2 == [opened EXCEPT !.unstarted = x]
<1>1. /\ At("frame") /\ f.t = "headers" /\ ~Ignoring(f)
      /\ UNCHANGED <<scen, phase, out, chans, inputs, wire>>
  BY DEF processHeaders, Processing
<1>2. todo # <<>> /\ s \in Ids
  BY <1>1, FrameArg
<1>3. /\ sc \in Conns /\ sc.maxClient \in Nat /\ s \in Nat /\ m \in Int /\ k \in Int
      /\ sc.unstarted \in Seq(Ids) /\ sc.inGoAway \in BOOLEAN
  <2>1. sc \in Conns
    BY DEF ServerInv, Types
  <2>2. sc.maxClient \in Nat /\ sc.unstarted \in Seq(Ids) /\ sc.nClient \in Int /\ sc.handlers \in Int
        /\ sc.inGoAway \in BOOLEAN
    BY <2>1 DEF Conns
  <2>3. s \in Nat
    BY <1>2, IdsAssumption
  <2> HIDE DEF s
  <2> QED BY <2>1, <2>2, <2>3
<1>4. \/ ConnError("protocol") /\ UNCHANGED <<str, h>>
      \/ fresh /\ sc' = seen /\ Then(<<<<"reset", s>>>>) /\ UNCHANGED <<str, h>>
      \/ /\ fresh /\ str' = [str EXCEPT ![s] = r]
         /\ \/ sc' = opened /\ Then(<<<<"reset", s>>>>) /\ UNCHANGED h
            \/ sc' = c1 /\ h' = [h EXCEPT ![s] = g1] /\ Then(<<>>)
            \/ sc' = opened /\ Then(<<<<"goAway", "calm">>>>) /\ UNCHANGED h
            \/ sc' = c2 /\ h' = [h EXCEPT ![s] = g2] /\ Then(<<>>)
  BY ZenonT(60) DEF processHeaders
<1>5. fresh => s > sc.maxClient /\ ~sc.inGoAway
  <2> HIDE DEF s
  <2>1. fresh => s > sc.maxClient
    BY <1>3
  <2>2. s > sc.maxClient => ~sc.inGoAway
    BY <1>1 DEF Ignoring, s
  <2> QED BY <2>1, <2>2
<1>6. st \in {"open", "halfRemote"} /\ b \in BOOLEAN /\ d \in Int /\ head \in BOOLEAN
  OBVIOUS
<1> HIDE DEF st, b, d, head, m, k, x
<1>7. r \in StreamRecs
  BY <1>6, OpenedOK
<1>8. /\ g1 \in HandlerRecs /\ g1.pc = "run"
      /\ g2 \in HandlerRecs /\ g2.pc = "queued"
  <2>1. NoHandler \in HandlerRecs
    BY DEF NoHandler, HandlerRecs
  <2> QED BY <1>6, <2>1, Zenon DEF HandlerRecs
<1> HIDE DEF r, g1, g2
<1>9. x \in Seq(Ids) /\ Len(x) = Len(sc.unstarted) + 1 /\ Len(sc.unstarted) \in Nat
      /\ \A i \in 1 .. Len(x) : x[i] = IF i = Len(sc.unstarted) + 1 THEN s ELSE sc.unstarted[i]
  <2> HIDE DEF s
  <2> QED BY <1>2, <1>3 DEF x
<1>10. CASE ConnError("protocol") /\ UNCHANGED <<str, h>>
  BY <1>1, <1>10, ConnErrorsOK, Facts, Bookkeeping
<1>11. CASE ~(ConnError("protocol") /\ UNCHANGED <<str, h>>)
  <2> SUFFICES ASSUME fresh PROVE ServerInv'
    BY <1>4, <1>11
  <2>1. s > sc.maxClient /\ ~sc.inGoAway /\ Odd(s)
    BY <1>5
  <2> HIDE DEF s
  <2>2. /\ sc' \in Conns /\ sc'.maxClient = s /\ sc'.inGoAway = sc.inGoAway /\ sc'.needGoAway = sc.needGoAway
        /\ sc'.unstarted = sc.unstarted \/ (sc'.unstarted = x /\ h'[s].pc = "queued")
    <3>1. sc' = seen \/ sc' = opened \/ sc' = c1 \/ (sc' = c2 /\ h' = [h EXCEPT ![s] = g2])
      BY <1>4, <1>11
    <3>2. /\ seen \in Conns /\ seen.maxClient = s /\ seen.inGoAway = sc.inGoAway
          /\ seen.needGoAway = sc.needGoAway /\ seen.unstarted = sc.unstarted /\ seen.nClient = sc.nClient
      BY <1>3, Zenon DEF Conns
    <3>3. opened = [seen EXCEPT !.nClient = m]
      BY <3>2, Zenon DEF m
    <3> HIDE DEF seen
    <3>4. /\ opened \in Conns /\ opened.maxClient = s /\ opened.inGoAway = sc.inGoAway
          /\ opened.needGoAway = sc.needGoAway /\ opened.unstarted = sc.unstarted
      BY <1>3, <3>2, <3>3, Zenon DEF Conns
    <3> HIDE DEF opened
    <3>5. /\ c1 \in Conns /\ c1.maxClient = s /\ c1.inGoAway = sc.inGoAway
          /\ c1.needGoAway = sc.needGoAway /\ c1.unstarted = sc.unstarted
      BY <1>3, <3>4, Zenon DEF Conns
    <3>6. /\ c2 \in Conns /\ c2.maxClient = s /\ c2.inGoAway = sc.inGoAway
          /\ c2.needGoAway = sc.needGoAway /\ c2.unstarted = x
      BY <1>9, <3>4, Zenon DEF Conns
    <3>7. h' = [h EXCEPT ![s] = g2] => h'[s].pc = "queued"
      BY <1>2, <1>8, Facts
    <3> HIDE DEF c1, c2
    <3> QED BY <3>1, <3>2, <3>4, <3>5, <3>6, <3>7
  <2>3. /\ h' \in [Ids -> HandlerRecs]
        /\ \A u \in Ids : h[u].pc # "none" => h'[u].pc # "none"
        /\ \A u \in Ids \ {s} : h'[u] = h[u]
    <3>1. h \in [Ids -> HandlerRecs]
      BY Facts
    <3>2. CASE UNCHANGED h
      BY <3>1, <3>2
    <3>3. CASE h' = [h EXCEPT ![s] = g1]
      BY <1>2, <1>8, <3>1, <3>3
    <3>4. CASE h' = [h EXCEPT ![s] = g2]
      BY <1>2, <1>8, <3>1, <3>4
    <3> QED BY <1>4, <1>11, <3>2, <3>3, <3>4
  <2>4. str' \in [Ids -> StreamRecs]
    BY <1>2, <1>4, <1>7, <1>11, StrUpdate, Facts
  <2>5. CallsOK(todo', Reach)
    <3>1. CallsOK(<<<<"reset", s>>>>, Reach)
      BY <1>2, StreamCalls, OneOK
    <3>2. CASE Then(<<<<"reset", s>>>>) \/ Then(<<>>)
      BY <1>2, <3>1, <3>2, Facts, ThenOK
    <3>3. CASE Then(<<<<"goAway", "calm">>>>)
      BY <1>2, <3>3, GoAwayThen
    <3> QED BY <1>4, <1>11, <3>2, <3>3
  <2>6. Types'
    BY <1>1, <2>2, <2>3, <2>4 DEF ServerInv, Types, chans
  <2>7. Reach' = Nat /\ Reach = Nat
    BY <2>1, <2>2 DEF Reach
  <2>8. Frames(todo, out, want, wire, Reach)'
    BY <1>1, <2>5, <2>7 DEF ServerInv, Frames, chans
  <2>9. Numbers'
    <3>1. \A u \in Known' : u <= sc'.maxClient
      <4> SUFFICES ASSUME NEW u \in Known' PROVE u <= s
        BY <2>2
      <4>1. u \in Ids /\ u \in Nat
        BY IdsAssumption DEF Known
      <4>2. CASE u = s
        BY <1>3, <4>2 
      <4>3. CASE u # s
        <5>1. u \in Known
          BY <2>3, <4>1, <4>3 DEF Known
        <5>2. u <= sc.maxClient
          BY <5>1 DEF ServerInv, Numbers
        <5> QED BY <1>3, <2>1, <4>1, <5>2
      <4> QED BY <4>2, <4>3
    <3>2. \A i \in 1 .. Len(sc.unstarted) : sc.unstarted[i] \in Ids /\ h'[sc.unstarted[i]].pc # "none"
      <4>1. \A i \in 1 .. Len(sc.unstarted) : sc.unstarted[i] \in Ids
        BY <1>3
      <4> QED BY <2>3, <4>1 DEF ServerInv, Numbers
    <3>3. \A i \in 1 .. Len(sc'.unstarted) : h'[sc'.unstarted[i]].pc # "none"
      <4>1. CASE sc'.unstarted = sc.unstarted
        BY <3>2, <4>1
      <4>2. CASE sc'.unstarted = x /\ h'[s].pc = "queued"
        <5>1. \A i \in 1 .. Len(x) : i = Len(sc.unstarted) + 1 \/ i \in 1 .. Len(sc.unstarted)
          BY <1>9
        <5> QED BY <1>9, <3>2, <4>2, <5>1
      <4> QED BY <2>2, <4>1, <4>2
    <3> QED BY <2>1, <2>2, <3>1, <3>3 DEF ServerInv, Numbers
  <2> QED BY <2>6, <2>8, <2>9 DEF ServerInv
<1> QED BY <1>10, <1>11

-----------------------------------------------------------------------------
(* Handlers and timers.                                                    *)
LEMMA WantMore ==
    ASSUME ServerInv, NEW f, FrameOK(f, Reach), want' = Append(want, f)
    PROVE  want' \in Seq(OutFrames) /\ QueueOK(want', Reach)
<1>1. want \in Seq(OutFrames) /\ QueueOK(want, Reach) /\ f \in OutFrames
  BY Channels DEF FrameOK
<1>2. want' \in Seq(OutFrames) /\ \A i \in 1 .. Len(want') : want'[i] = f \/ \E j \in 1 .. Len(want) : want'[i] = want[j]
  BY <1>1
<1> QED BY <1>1, <1>2 DEF QueueOK

LEMMA MsgsMore ==
    ASSUME ServerInv, NEW m, m[1] = "push" => m[2] \in Ids, msgs' = Append(msgs, m)
    PROVE  IsSeq(msgs') /\ \A i \in 1 .. Len(msgs') : msgs'[i][1] = "push" => msgs'[i][2] \in Ids
<1>1. PICK S : msgs \in Seq(S)
  BY Channels DEF IsSeq
<1> DEFINE U == S \cup {m}
<1>2. msgs \in Seq(U) /\ m \in U
  BY <1>1
<1> HIDE DEF U
<1>3. msgs' \in Seq(U) /\ \A i \in 1 .. Len(msgs') : msgs'[i] = m \/ \E j \in 1 .. Len(msgs) : msgs'[i] = msgs[j]
  BY <1>2
<1> QED BY <1>3, Channels DEF IsSeq

LEMMA AskKeeps ==
    ASSUME ServerInv, NEW s \in Ids, NEW f, FrameOK(f, Reach), NEW next \in HandlerRecs,
           next.pc # "none", h[s].pc # "none", Ask(s, f, next), UNCHANGED <<str, msgs>>, KeepServe
    PROVE  ServerInv'
<1> DEFINE r == [next EXCEPT !.pc = IF next.fin THEN "over" ELSE "run"]
<1>1. r \in HandlerRecs /\ r.pc # "none"
  <2> DEFINE pc == IF next.fin THEN "over" ELSE "run"
  <2>1. pc \in {"none", "queued", "run", "wait", "reading", "over", "gone"} /\ pc # "none"
    OBVIOUS
  <2> HIDE DEF pc
  <2>2. r = [next EXCEPT !.pc = pc]
    BY Zenon DEF pc
  <2> QED BY <2>1, <2>2, Zenon DEF HandlerRecs
<1>2. \/ h' = [h EXCEPT ![s] = next] /\ want' = Append(want, f)
      \/ h' = [h EXCEPT ![s] = r] /\ UNCHANGED want
  BY Zenon DEF Ask
<1> HIDE DEF r
<1>3. h' \in [Ids -> HandlerRecs] /\ \A u \in Ids : h'[u].pc = "none" <=> h[u].pc = "none"
  BY <1>1, <1>2, HandlerStep
<1>4. want' \in Seq(OutFrames) /\ QueueOK(want', Reach)
  BY <1>2, WantMore, Channels
<1> QED BY <1>3, <1>4, Channels, Facts, Handling DEF KeepServe

(* The frames that handlers ask for.                                       *)
LEMMA AskedOK ==
    ASSUME NEW s \in Ids, NEW n \in Nat, NEW e \in BOOLEAN
    PROVE  /\ FrameOK(Out("headers", s, n, e, TRUE), Reach) /\ FrameOK(Out("data", s, n, e, TRUE), Reach)
<1>1. s # 0
  BY IdsAssumption
<1> QED BY <1>1, CtlOK

LEMMA CtlAskedOK ==
    ASSUME NEW s \in Ids
    PROVE  FrameOK(Ctl("panicRST", s), Reach) /\ FrameOK(Ctl("continue", s), Reach) /\ FrameOK(Ctl("rst", s), Reach)
<1>1. s # 0
  BY IdsAssumption
<1> QED BY <1>1, CtlOK DEF Ctl

LEMMA handlerHeadersKeeps == ASSUME ServerInv, NEW s \in Ids, handlerHeaders(s) PROVE ServerInv'
<1> DEFINE next == [h[s] EXCEPT !.pc = "wait", !.sent = TRUE]
           e == h[s].head
           f == Out("headers", s, 0, e, TRUE)
<1>1. h[s].pc = "run" /\ Ask(s, f, next) /\ UNCHANGED <<str, msgs>> /\ KeepServe
  BY DEF handlerHeaders, Running
<1>2. h[s] \in HandlerRecs
  BY Facts
<1>3. next \in HandlerRecs /\ next.pc = "wait"
  BY <1>2, Zenon DEF HandlerRecs
<1>4. e \in BOOLEAN
  BY <1>2 DEF HandlerRecs
<1> HIDE DEF e, next
<1>5. FrameOK(f, Reach)
  BY <1>4, AskedOK
<1> HIDE DEF f
<1> QED BY <1>1, <1>3, <1>5, AskKeeps

LEMMA handlerDataKeeps == ASSUME ServerInv, NEW s \in Ids, NEW n \in 1 .. 2, handlerData(s, n) PROVE ServerInv'
<1> DEFINE k == h[s].k + 1
           next == [h[s] EXCEPT !.pc = "wait", !.k = k]
           f == Out("data", s, n, FALSE, TRUE)
<1>1. h[s].pc = "run" /\ Ask(s, f, next) /\ UNCHANGED <<str, msgs>> /\ KeepServe
  BY DEF handlerData, Running
<1>2. h[s] \in HandlerRecs
  BY Facts
<1>3. k \in Nat
  BY <1>2 DEF HandlerRecs
<1> HIDE DEF k
<1>4. next \in HandlerRecs /\ next.pc = "wait"
  BY <1>2, <1>3, Zenon DEF HandlerRecs
<1>5. FrameOK(f, Reach)
  <2>1. n \in Nat
    OBVIOUS
  <2> QED BY <2>1, AskedOK
<1> HIDE DEF f, next
<1> QED BY <1>1, <1>4, <1>5, AskKeeps

LEMMA handlerReturnKeeps == ASSUME ServerInv, NEW s \in Ids, handlerReturn(s) PROVE ServerInv'
<1> DEFINE next == [h[s] EXCEPT !.pc = "wait", !.sent = TRUE, !.fin = TRUE]
           over == [h[s] EXCEPT !.pc = "over"]
<1>1. h[s].pc = "run" /\ UNCHANGED <<str, msgs>> /\ KeepServe
  BY DEF handlerReturn, Running
<1>2. h[s] \in HandlerRecs
  BY Facts
<1>3. next \in HandlerRecs /\ next.pc = "wait" /\ over \in HandlerRecs /\ over.pc = "over"
  BY <1>2, Zenon DEF HandlerRecs
<1>4. \/ h' = [h EXCEPT ![s] = over] /\ UNCHANGED want
      \/ Ask(s, Out("headers", s, 0, TRUE, TRUE), next)
      \/ \E n \in 0 .. 1 : Ask(s, Out("data", s, n, TRUE, TRUE), next)
  BY Zenon DEF handlerReturn
<1> HIDE DEF next, over
<1>5. CASE h' = [h EXCEPT ![s] = over] /\ UNCHANGED want
  <2>1. h' \in [Ids -> HandlerRecs] /\ \A u \in Ids : h'[u].pc = "none" <=> h[u].pc = "none"
    BY <1>1, <1>3, <1>5, HandlerStep
  <2> QED BY <1>1, <1>5, <2>1, Channels, Facts, Handling DEF KeepServe
<1>6. CASE Ask(s, Out("headers", s, 0, TRUE, TRUE), next)
  <2> DEFINE f == Out("headers", s, 0, TRUE, TRUE)
  <2>1. FrameOK(f, Reach)
    BY AskedOK
  <2> HIDE DEF f
  <2> QED BY <1>1, <1>3, <1>6, <2>1, AskKeeps DEF f
<1>7. ASSUME NEW n \in 0 .. 1, Ask(s, Out("data", s, n, TRUE, TRUE), next) PROVE ServerInv'
  <2> DEFINE f == Out("data", s, n, TRUE, TRUE)
  <2>1. FrameOK(f, Reach)
    <3>1. n \in Nat
      OBVIOUS
    <3> QED BY <3>1, AskedOK
  <2> HIDE DEF f
  <2> QED BY <1>1, <1>3, <1>7, <2>1, AskKeeps DEF f
<1> QED BY <1>4, <1>5, <1>6, <1>7

LEMMA handlerPanicsKeeps == ASSUME ServerInv, NEW s \in Ids, handlerPanics(s) PROVE ServerInv'
<1> DEFINE next == [h[s] EXCEPT !.pc = "over", !.fin = TRUE]
           f == Ctl("panicRST", s)
<1>1. h[s].pc = "run" /\ Ask(s, f, next) /\ UNCHANGED <<str, msgs>> /\ KeepServe
  BY DEF handlerPanics, Running
<1>2. h[s] \in HandlerRecs
  BY Facts
<1>3. next \in HandlerRecs /\ next.pc = "over"
  BY <1>2, Zenon DEF HandlerRecs
<1>4. FrameOK(f, Reach)
  BY CtlAskedOK
<1> HIDE DEF f, next
<1> QED BY <1>1, <1>3, <1>4, AskKeeps

LEMMA handlerAnsweredKeeps == ASSUME ServerInv, NEW s \in Ids, handlerAnswered(s) PROVE ServerInv'
<1> DEFINE pc == IF h[s].fin THEN "over" ELSE "run"
           r == [h[s] EXCEPT !.pc = pc, !.done = FALSE]
<1>1. /\ h[s].pc = "wait" /\ h' = [h EXCEPT ![s].pc = pc, ![s].done = FALSE]
      /\ UNCHANGED <<str, chans>> /\ KeepServe
  BY DEF handlerAnswered
<1>2. h[s] \in HandlerRecs
  BY Facts
<1>3. pc \in {"none", "queued", "run", "wait", "reading", "over", "gone"} /\ pc # "none"
  OBVIOUS
<1>4. h' = [h EXCEPT ![s] = r]
  BY <1>1, Zenon
<1> HIDE DEF pc
<1>5. r \in HandlerRecs /\ r.pc = pc
  BY <1>2, <1>3, Zenon DEF HandlerRecs
<1> HIDE DEF r
<1>6. h' \in [Ids -> HandlerRecs] /\ \A u \in Ids : h'[u].pc = "none" <=> h[u].pc = "none"
  BY <1>1, <1>3, <1>4, <1>5, HandlerStep
<1> QED BY <1>1, <1>6, Channels, Facts, Handling DEF KeepServe, chans

LEMMA FiredOK ==
    ASSUME ServerInv, NEW e \in Timers \cup {"continue", "writeTimeout"}, sc' = [sc EXCEPT !.fired = @ \cup {e}]
    PROVE  ConnKept(sc')
<1> DEFINE x == sc.fired \cup {e}
<1>1. sc \in Conns
  BY DEF ServerInv, Types
<1>2. x \in SUBSET (Timers \cup {"continue", "writeTimeout"})
  BY <1>1 DEF Conns
<1>3. sc' = [sc EXCEPT !.fired = x]
  OBVIOUS
<1> HIDE DEF x
<1> QED BY <1>1, <1>2, <1>3, Facts, Zenon DEF Conns, ConnKept

LEMMA handlerContinueKeeps == ASSUME ServerInv, NEW s \in Ids, handlerContinue(s) PROVE ServerInv'
<1> DEFINE f == Ctl("continue", s)
<1>1. /\ want' = Append(want, f) /\ sc' = [sc EXCEPT !.fired = @ \cup {"continue"}]
      /\ UNCHANGED <<scen, phase, todo, str, out, h, msgs, inputs, wire>>
  BY DEF handlerContinue
<1>2. FrameOK(f, Reach)
  BY CtlAskedOK
<1> HIDE DEF f
<1>3. PICK e \in Timers \cup {"continue", "writeTimeout"} : e = "continue"
  OBVIOUS
<1>4. ConnKept(sc')
  BY <1>1, <1>3, FiredOK
<1>5. want' \in Seq(OutFrames) /\ QueueOK(want', Reach)
  BY <1>1, <1>2, WantMore
<1> QED BY <1>1, <1>4, <1>5, Channels, Facts, Handling

LEMMA handlerReadKeeps == ASSUME ServerInv, NEW s \in Ids, NEW n \in 1 .. 2, handlerRead(s, n) PROVE ServerInv'
<1> DEFINE a == str[s].len - n
           r == [h[s] EXCEPT !.pc = "reading", !.n = n]
<1>1. /\ h[s].pc = "run" /\ str' = [str EXCEPT ![s].len = a]
      /\ h' = (IF Serving THEN [h EXCEPT ![s].pc = "reading", ![s].n = n] ELSE h)
      /\ UNCHANGED chans /\ KeepServe
  BY DEF handlerRead, Running
<1>2. h[s] \in HandlerRecs /\ str[s] \in StreamRecs /\ n \in Nat
  BY Facts
<1>3. a \in Int
  BY <1>2 DEF StreamRecs
<1> HIDE DEF a
<1>4. str' \in [Ids -> StreamRecs]
  BY <1>1, <1>3, StreamNumbers
<1>5. h' = [h EXCEPT ![s] = r] \/ h' = h
  BY <1>1, Zenon
<1>6. r \in HandlerRecs /\ r.pc = "reading"
  BY <1>2, Zenon DEF HandlerRecs
<1> HIDE DEF r
<1>7. h' \in [Ids -> HandlerRecs] /\ \A u \in Ids : h'[u].pc = "none" <=> h[u].pc = "none"
  BY <1>1, <1>5, <1>6, HandlerStep, Facts
<1> QED BY <1>1, <1>4, <1>7, Channels, Facts, Handling DEF KeepServe, chans

LEMMA handlerCloseBodyKeeps == ASSUME ServerInv, NEW s \in Ids, handlerCloseBody(s) PROVE ServerInv'
<1>1. str' = [str EXCEPT ![s].broken = TRUE] /\ UNCHANGED <<h, chans>> /\ KeepServe
  BY DEF handlerCloseBody
<1>2. str' \in [Ids -> StreamRecs]
  BY <1>1, StreamFlags
<1> QED BY <1>1, <1>2, Facts, Bookkeeping DEF KeepServe

LEMMA handlerPushKeeps == ASSUME ServerInv, NEW s \in Ids, handlerPush(s) PROVE ServerInv'
<1> DEFINE m == <<"push", s>>
           r == [h[s] EXCEPT !.pc = "wait"]
<1>1. /\ h[s].pc = "run" /\ msgs' = Append(msgs, m) /\ h' = [h EXCEPT ![s] = r]
      /\ UNCHANGED <<str, want>> /\ KeepServe
  BY Zenon DEF handlerPush, Running
<1>2. m[1] = "push" => m[2] \in Ids
  OBVIOUS
<1> HIDE DEF m
<1>3. h[s] \in HandlerRecs
  BY Facts
<1>4. r \in HandlerRecs /\ r.pc = "wait"
  BY <1>3, Zenon DEF HandlerRecs
<1> HIDE DEF r
<1>5. h' \in [Ids -> HandlerRecs] /\ \A u \in Ids : h'[u].pc = "none" <=> h[u].pc = "none"
  BY <1>1, <1>4, HandlerStep
<1> QED BY <1>1, <1>2, <1>5, MsgsMore, Channels, Facts, Handling DEF KeepServe

LEMMA handlerOverKeeps == ASSUME ServerInv, NEW s \in Ids, handlerOver(s) PROVE ServerInv'
<1> DEFINE r1 == [h[s] EXCEPT !.pc = "gone"]
           r2 == [h[s] EXCEPT !.pc = "run", !.n = 0]
           m == <<"done">>
<1>1. UNCHANGED <<str, want>> /\ KeepServe
  BY DEF handlerOver
<1>2. \/ h[s].pc = "over" /\ h' = [h EXCEPT ![s] = r1] /\ (msgs' = Append(msgs, m) \/ UNCHANGED msgs)
      \/ h[s].pc = "reading" /\ h' = [h EXCEPT ![s] = r2] /\ UNCHANGED msgs
  BY Zenon DEF handlerOver
<1>3. h[s] \in HandlerRecs /\ 0 \in Nat
  BY Facts
<1>4. r1 \in HandlerRecs /\ r1.pc = "gone" /\ r2 \in HandlerRecs /\ r2.pc = "run"
  BY <1>3, Zenon DEF HandlerRecs
<1>5. m[1] = "push" => m[2] \in Ids
  OBVIOUS
<1> HIDE DEF r1, r2, m
<1>6. h' \in [Ids -> HandlerRecs] /\ \A u \in Ids : h'[u].pc = "none" <=> h[u].pc = "none"
  BY <1>2, <1>4, HandlerStep
<1>7. IsSeq(msgs') /\ \A i \in 1 .. Len(msgs') : msgs'[i][1] = "push" => msgs'[i][2] \in Ids
  BY <1>2, <1>5, MsgsMore, Channels
<1> QED BY <1>1, <1>6, <1>7, Channels, Facts, Handling DEF KeepServe

LEMMA timerFiresKeeps == ASSUME ServerInv, NEW e \in Timers, timerFires(e) PROVE ServerInv'
<1> DEFINE m == <<e>>
<1>1. /\ msgs' = Append(msgs, m) /\ sc' = [sc EXCEPT !.fired = @ \cup {e}]
      /\ UNCHANGED <<scen, phase, todo, str, out, h, want, inputs, wire>>
  BY DEF timerFires
<1>2. m[1] = "push" => m[2] \in Ids
  BY DEF Timers
<1> HIDE DEF m
<1>3. ConnKept(sc')
  BY <1>1, FiredOK
<1> QED BY <1>1, <1>2, <1>3, MsgsMore, Channels, Facts, Handling

LEMMA streamTimeoutKeeps == ASSUME ServerInv, NEW s \in Ids, streamTimeout(s) PROVE ServerInv'
<1> DEFINE f == Ctl("rst", s)
<1>1. UNCHANGED <<scen, phase, todo, out, h, msgs, inputs, wire>>
  BY DEF streamTimeout
<1>2. CASE str' = [str EXCEPT ![s].err = TRUE] /\ UNCHANGED <<want, sc>>
  BY <1>1, <1>2, StreamFlags, Channels, Facts, Handling
<1>3. CASE want' = Append(want, f) /\ sc' = [sc EXCEPT !.fired = @ \cup {"writeTimeout"}] /\ UNCHANGED str
  <2>1. FrameOK(f, Reach)
    BY CtlAskedOK
  <2> HIDE DEF f
  <2>2. PICK e \in Timers \cup {"continue", "writeTimeout"} : e = "writeTimeout"
    OBVIOUS
  <2>3. ConnKept(sc')
    BY <1>3, <2>2, FiredOK
  <2>4. want' \in Seq(OutFrames) /\ QueueOK(want', Reach)
    BY <1>3, <2>1, WantMore
  <2> QED BY <1>1, <1>3, <2>3, <2>4, Channels, Facts, Handling
<1> QED BY <1>2, <1>3 DEF streamTimeout

-----------------------------------------------------------------------------
(* The invariant holds initially and is kept by every step.                *)
LEMMA InitKeeps == ASSUME Init PROVE ServerInv
<1> DEFINE up == IF "upgrade" \in scen.events THEN 1 ELSE 0
           f == Ctl("settings", 0)
<1>1. scen \in Scenarios /\ up \in Nat /\ up \in Int
  BY DEF Init
<1>2. sc \in Conns /\ sc.maxClient = up /\ sc.unstarted = <<>> /\ ~sc.inGoAway /\ ~sc.needGoAway
  <2>1. sc = NewConn(up)
    BY DEF Init
  <2> HIDE DEF up
  <2>2. /\ ConnSend \in Int /\ StreamSend \in Int /\ ConnRecv \in Int /\ 1 \in Int /\ 0 \in Int
        /\ 0 \in {n \in Nat : ~Odd(n)} /\ <<>> \in Seq(Ids) /\ {} \in SUBSET (Timers \cup {"continue", "writeTimeout"})
        /\ "no" \in Codes
    BY WindowsAssumption DEF Codes, Odd
  <2> QED BY <1>1, <2>1, <2>2, Zenon DEF Conns, NewConn
<1>3. str \in [Ids -> StreamRecs]
  <2> DEFINE r == [NoStream EXCEPT !.st = "halfRemote", !.win = StreamSend, !.avail = StreamRecv]
  <2>1. StreamSend \in Int /\ StreamRecv \in Int
    BY WindowsAssumption
  <2>2. NoStream \in StreamRecs
    BY DEF NoStream, StreamRecs
  <2>3. r \in StreamRecs
    BY <2>1, <2>2, Zenon DEF StreamRecs
  <2>4. str = [s \in Ids |-> IF Upgraded(s) THEN r ELSE NoStream]
    BY DEF Init
  <2> HIDE DEF r
  <2> QED BY <2>2, <2>3, <2>4
<1>4. h \in [Ids -> HandlerRecs] /\ \A s \in Ids : h[s].pc # "none" => s = 1 /\ up = 1
  <2> DEFINE r == [NoHandler EXCEPT !.pc = "run"]
  <2>1. NoHandler \in HandlerRecs /\ r \in HandlerRecs /\ NoHandler.pc = "none"
    BY DEF NoHandler, HandlerRecs
  <2>2. h = [s \in Ids |-> IF Upgraded(s) THEN r ELSE NoHandler]
    BY DEF Init
  <2> HIDE DEF r
  <2> QED BY <2>1, <2>2 DEF Upgraded
<1>5. /\ out.ctl = <<>> /\ out.q = [s \in Ids |-> <<>>] /\ out.queued = 0 /\ out.cur = None /\ out.async = FALSE
      /\ out.res = "none" /\ out.flush = FALSE /\ out.open = TRUE /\ out \in Outs
  <2>1. [s \in Ids |-> <<>>] \in [Ids -> Seq(OutFrames)] /\ <<>> \in Seq(OutFrames) /\ 0 \in Int
    OBVIOUS
  <2> QED BY <2>1, Zenon DEF Init, Outs
<1>6. wire \in Wires /\ wire.last = None
  BY Zenon DEF Init, Wires
<1>7. Types
  <2>1. <<>> \in Seq(OutFrames) /\ IsSeq(<<>>) /\ Len(<<>>) = 0
    <3>1. <<>> \in Seq({})
      OBVIOUS
    <3> QED BY <3>1 DEF IsSeq
  <2>2. want = <<>> /\ msgs = <<>> /\ inputs \in Nat /\ phase = "serving"
    BY DEF Init
  <2> QED BY <1>1, <1>2, <1>3, <1>4, <1>5, <1>6, <2>1, <2>2 DEF Types
<1>8. FrameOK(f, Reach)
  BY CtlOK DEF Ctl
<1> HIDE DEF f
<1>9. CallsOK(todo, Reach)
  <2>1. CallOK(<<"write", f>>, Reach) /\ CallOK(Check, Reach)
    BY <1>8 DEF CallOK, Check
  <2>2. todo = <<<<"write", f>>, Check>>
    BY DEF Init, f
  <2> QED BY <2>1, <2>2, TwoOK
<1>10. Frames(todo, out, want, wire, Reach)
  BY <1>5, <1>6, <1>9 DEF Init, Frames, QueueOK
<1>11. Numbers
  BY <1>2, <1>4 DEF Numbers, Known
<1> QED BY <1>7, <1>10, <1>11 DEF ServerInv

LEMMA StutterKeeps == ASSUME ServerInv, UNCHANGED vars PROVE ServerInv'
<1>1. UNCHANGED <<scen, phase, sc, str, out, h, chans, inputs, wire>> /\ todo' = todo
  BY DEF vars, chans
<1>2. CallsOK(todo', Reach)
  BY <1>1, Facts
<1> QED BY <1>1, <1>2, Calls

LEMMA NextKeeps == ASSUME ServerInv, Next PROVE ServerInv'
<1>1. CASE Select
  BY <1>1, serveWantWriteKeeps, serveWroteKeeps, serveReadErrorKeeps, serveTimerKeeps, handlerDoneKeeps,
     startPushKeeps, serveReadKeeps, serveBodyReadKeeps, Zenon DEF Select
<1>2. CASE Call
  BY <1>2, writeFrameKeeps, scheduleFrameWriteKeeps, LoopOwnKeeps, LoopControlKeeps, LoopFlushKeeps,
     LoopEndKeeps, LoopStreamKeeps, startFrameWriteKeeps, startPushWriteKeeps, wroteFrameKeeps,
     replyToWriterKeeps, resetStreamKeeps, resetQueuedKeeps, sendWindowUpdateKeeps, closeStreamKeeps,
     closeStreamRestKeeps, goAwayKeeps, endOfIterationKeeps, finishedKeeps, noteBodyReadKeeps,
     processOtherKeeps, processSettingsKeeps, processTrailerHeadersKeeps, processHeadersKeeps,
     processDataUnwantedKeeps, processDataKeeps, endStreamKeeps, processWindowUpdateKeeps,
     processResetStreamKeeps, processRestKeeps, Zenon DEF Call
<1>3. ASSUME NEW s \in Ids, Handler(s) PROVE ServerInv'
  BY <1>3, handlerHeadersKeeps, handlerReturnKeeps, handlerPanicsKeeps, handlerAnsweredKeeps,
     handlerContinueKeeps, handlerCloseBodyKeeps, handlerPushKeeps, handlerOverKeeps, handlerDataKeeps,
     handlerReadKeeps, Zenon DEF Handler
<1> QED BY <1>1, <1>2, <1>3, writeFrameAsyncKeeps, streamTimeoutKeeps, timerFiresKeeps, Zenon DEF Next

(* The types of every variable: the serve loop's record, the streams, the  *)
(* write scheduler and the frame being written keep their fields' ranges,  *)
(* and a result of writeFrameAsync is there only while a frame is written. *)
THEOREM ServerTypeCorrect == Spec => []Types
<1>1. Init => ServerInv
  BY InitKeeps
<1>2. ServerInv /\ [Next]_vars => ServerInv'
  BY NextKeeps, StutterKeeps
<1>3. ServerInv => Types
  BY DEF ServerInv
<1> QED BY <1>1, <1>2, <1>3, PTL DEF Spec

(* A GOAWAY names a last stream at or above every request that was started *)
(* (goAway, processHeaders, scheduleHandler, handlerDone): whatever the    *)
(* client, the handlers and the timers do, a client may retry elsewhere    *)
(* the requests above it and none of them is carried out twice.            *)
THEOREM GoAwayHonestAlways == Spec => []GoAwayHonest
<1>1. Init => ServerInv
  BY InitKeeps
<1>2. ServerInv /\ [Next]_vars => ServerInv'
  BY NextKeeps, StutterKeeps
<1>3. ServerInv => GoAwayHonest
  <2> SUFFICES ASSUME ServerInv, wire.last # None, NEW s \in Ids, Odd(s), Started(s)
               PROVE  s <= wire.last
    BY DEF GoAwayHonest
  <2>1. s \in Known /\ s \in Nat
    BY IdsAssumption DEF Known, Started
  <2>2. s \in Reach
    BY <2>1 DEF Reach
  <2> QED BY <2>2 DEF ServerInv, Frames
<1> QED BY <1>1, <1>2, <1>3, PTL DEF Spec

-----------------------------------------------------------------------------
(* The serve loop's stack.  A frame of the client is handled when nothing  *)
(* but the end of the iteration is left to do.                             *)
FrameLast ==
    \A i \in 1 .. Len(todo) : todo[i][1] = "frame" =>
        phase = "serving" /\ \A j \in 1 .. Len(todo) : i < j => todo[j][1] = "check"

(* While scheduleFrameWrite has a frame in hand but nobody else has it,    *)
(* wroteFrame is still to be called.                                       *)
Current ==
    phase = "serving" /\ out.cur # None /\ ~out.async => \E i \in 1 .. Len(todo) : todo[i][1] = "wrote"

(* A frame whose writing closes no stream; and a scheduler whose next      *)
(* frames, as long as no window grows, are all of that kind.               *)
Mild(f) == ~f.end /\ f.t \notin {"rst", "panicRST"}
MildQueue(q) == \A i \in 1 .. Len(q) : Mild(q[i])
Calm == MayPop => MildQueue(out.ctl) /\ \A s \in Ids : Writable(s) => MildQueue(out.q[s])

(* Where a frame may be written that closes a stream, scheduleFrameWrite   *)
(* is at work or will be called, or the connection is about to fail and    *)
(* then writes no stream's frames.                                         *)
Busily == {"sched", "loop", "wrote"}
BusyCall(c) == c[1] \in Busily \/ (c[1] = "goAway" /\ c[2] # "no")
Pend(q) == \E i \in 1 .. Len(q) : BusyCall(q[i])
Settled == phase = "serving" /\ ~out.async /\ ~Calm => Pend(todo)

(* processData ends the request only after it has sent WINDOW_UPDATEs, and *)
(* these write what the scheduler has: the stream is still there when the  *)
(* request is ended, for nothing written on the way closes a stream.       *)
Updating == {"window", "write", "sched"}
MildCall(c) ==
    /\ c[1] \in Updating \cup {"loop", "start", "wrote", "reply"}
    /\ c[1] \in {"write", "start", "wrote"} => Mild(c[2])
EndsLive ==
    \A i \in 1 .. Len(todo) : todo[i][1] = "endStream" =>
        /\ todo[i][2] \in liveIds
        /\ \A j \in 1 .. i - 1 : MildCall(todo[j])
        /\ Calm \/ (out.async /\ \A j \in 1 .. i - 1 : todo[j][1] \in Updating)

(* Frames that end or abort a response are those of a handler, and         *)
(* RST_STREAM is not queued behind them.                                   *)
Tame(f) == f.end \/ f.t = "panicRST" => f.s \in Ids /\ h[f.s].pc # "none"
TameCalls(q) == \A i \in 1 .. Len(q) : q[i][1] = "write" => Tame(q[i][2])
Placed ==
    /\ TameCalls(todo)
    /\ \A s \in Ids : \A i \in 1 .. Len(out.q[s]) : out.q[s][i].t # "rst" /\ Tame(out.q[s][i])
    /\ \A i \in 1 .. Len(want) : Tame(want[i])

LoopInv == FrameLast /\ Current /\ Settled /\ EndsLive /\ Placed

-----------------------------------------------------------------------------
(* Lists of calls that end no request, handle no frame of the client and   *)
(* write only tame frames.                                                 *)
Plain(q) ==
    /\ IsSeq(q)
    /\ \A i \in 1 .. Len(q) : q[i][1] \notin {"endStream", "frame"} /\ (q[i][1] = "write" => Tame(q[i][2]))

LEMMA PlainEmpty == Plain(<<>>)
<1>1. <<>> \in Seq({}) /\ Len(<<>>) = 0
  OBVIOUS
<1> QED BY <1>1 DEF Plain, IsSeq

LEMMA PlainOne ==
    ASSUME NEW c, c[1] \notin {"endStream", "frame"}, c[1] = "write" => Tame(c[2])
    PROVE  Plain(<<c>>)
<1>1. PICK q : q = <<c>>
  OBVIOUS
<1>2. q \in Seq({c}) /\ Len(q) = 1 /\ q[1] = c
  BY <1>1
<1>3. Plain(q)
  BY <1>2 DEF Plain, IsSeq
<1> QED BY <1>1, <1>3

LEMMA ConcatSeq ==
    ASSUME NEW a, NEW b, IsSeq(a), IsSeq(b)
    PROVE  /\ IsSeq(a \o b) /\ Len(a) \in Nat /\ Len(b) \in Nat /\ Len(a \o b) = Len(a) + Len(b)
           /\ \A i \in 1 .. Len(a) : i \in 1 .. Len(a \o b) /\ (a \o b)[i] = a[i]
           /\ \A i \in 1 .. Len(b) : Len(a) + i \in 1 .. Len(a \o b) /\ (a \o b)[Len(a) + i] = b[i]
           /\ \A i \in 1 .. Len(a \o b) : i \in 1 .. Len(a) \/ (i > Len(a) /\ i - Len(a) \in 1 .. Len(b))
<1>1. PICK S : a \in Seq(S)
  BY DEF IsSeq
<1>2. PICK T : b \in Seq(T)
  BY DEF IsSeq
<1> DEFINE U == S \cup T
<1>3. a \in Seq(U) /\ b \in Seq(U)
  BY <1>1, <1>2
<1> HIDE DEF U
<1>4. a \o b \in Seq(U) /\ Len(a \o b) = Len(a) + Len(b) /\ Len(a) \in Nat /\ Len(b) \in Nat
  BY <1>3
<1>5. /\ \A i \in 1 .. Len(a) : (a \o b)[i] = a[i]
      /\ \A i \in 1 .. Len(b) : (a \o b)[Len(a) + i] = b[i]
  BY <1>3
<1> QED BY <1>4, <1>5 DEF IsSeq

LEMMA ConcatMembers ==
    ASSUME NEW a, NEW b, IsSeq(a), IsSeq(b), NEW i \in 1 .. Len(a \o b)
    PROVE  \/ \E j \in 1 .. Len(a) : (a \o b)[i] = a[j]
           \/ \E j \in 1 .. Len(b) : (a \o b)[i] = b[j]
<1>1. CASE i \in 1 .. Len(a)
  BY <1>1, ConcatSeq
<1>2. CASE i > Len(a) /\ i - Len(a) \in 1 .. Len(b)
  <2>1. PICK j \in 1 .. Len(b) : j = i - Len(a)
    BY <1>2
  <2>2. i = Len(a) + j
    BY <2>1, ConcatSeq
  <2> QED BY <2>2, ConcatSeq
<1> QED BY <1>1, <1>2, ConcatSeq

LEMMA PlainConcat == ASSUME NEW a, NEW b, Plain(a), Plain(b) PROVE Plain(a \o b)
<1>1. IsSeq(a) /\ IsSeq(b)
  BY DEF Plain
<1> QED BY <1>1, ConcatSeq, ConcatMembers DEF Plain

LEMMA PlainTwo ==
    ASSUME NEW c, c[1] \notin {"endStream", "frame"}, c[1] = "write" => Tame(c[2]),
           NEW d, d[1] \notin {"endStream", "frame"}, d[1] = "write" => Tame(d[2])
    PROVE  Plain(<<c, d>>)
<1>1. <<c, d>> = <<c>> \o <<d>>
  OBVIOUS
<1> QED BY <1>1, PlainOne, PlainConcat

LEMMA TailSeq ==
    ASSUME ServerInv, todo # <<>>
    PROVE  /\ IsSeq(todo) /\ IsSeq(Tail(todo)) /\ Len(todo) \in Nat /\ Len(Tail(todo)) = Len(todo) - 1
           /\ 1 \in 1 .. Len(todo) /\ Head(todo) = todo[1]
           /\ \A i \in 1 .. Len(Tail(todo)) : i + 1 \in 1 .. Len(todo) /\ Tail(todo)[i] = todo[i + 1]
<1>1. PICK S : todo \in Seq(S)
  BY Facts DEF CallsOK, IsSeq
<1>2. Tail(todo) \in Seq(S) /\ Len(Tail(todo)) = Len(todo) - 1 /\ Len(todo) \in Nat
      /\ \A i \in 1 .. Len(todo) - 1 : Tail(todo)[i] = todo[i + 1]
  BY <1>1
<1> QED BY <1>1, <1>2 DEF IsSeq

-----------------------------------------------------------------------------
(* One step of the loop: the calls in items come before those that are     *)
(* left, or instead of them when the loop is over or was in its select.    *)
Grow(items) ==
    /\ phase' = "serving" => phase = "serving"
    /\ \/ todo' = items /\ (todo = <<>> \/ phase' # "serving")
       \/ todo # <<>> /\ phase' = phase /\ todo' = items \o Tail(todo)

LEMMA ThenGrows == ASSUME todo # <<>>, NEW items, Then(items), UNCHANGED phase PROVE Grow(items)
BY DEF Then, Grow

LEMMA PanicGrows == ASSUME Panic PROVE Grow(<<>>)
BY DEF Panic, Grow

LEMMA IterateGrows == ASSUME AtSelect, NEW items, Iterate(items), UNCHANGED phase PROVE Grow(items \o <<Check>>)
BY DEF AtSelect, Iterate, Grow

LEMMA StayGrows == ASSUME todo = <<>>, UNCHANGED <<phase, todo>> PROVE Grow(<<>>)
BY DEF Grow

(* Where the calls of the next state come from.                            *)
LEMMA GrowMembers ==
    ASSUME ServerInv, NEW items, IsSeq(items), Grow(items), NEW i \in 1 .. Len(todo')
    PROVE  \/ i \in 1 .. Len(items) /\ todo'[i] = items[i]
           \/ /\ todo # <<>> /\ phase' = phase /\ todo' = items \o Tail(todo)
              /\ i > Len(items) /\ Len(items) \in Nat
              /\ i - Len(items) + 1 \in 1 .. Len(todo) /\ todo'[i] = todo[i - Len(items) + 1]
<1>1. CASE todo' = items
  BY <1>1
<1>2. CASE todo # <<>> /\ phase' = phase /\ todo' = items \o Tail(todo)
  <2>1. IsSeq(Tail(todo)) /\ Len(items) \in Nat
    BY <1>2, TailSeq, ConcatSeq
  <2>2. CASE i \in 1 .. Len(items)
    BY <1>2, <2>1, <2>2, ConcatSeq
  <2>3. CASE i > Len(items) /\ i - Len(items) \in 1 .. Len(Tail(todo))
    <3>1. PICK j \in 1 .. Len(Tail(todo)) : j = i - Len(items)
      BY <2>3
    <3>2. i = Len(items) + j /\ i \in Int
      BY <2>1, <3>1
    <3>3. todo'[i] = Tail(todo)[j] /\ Tail(todo)[j] = todo[j + 1] /\ j + 1 \in 1 .. Len(todo)
      BY <1>2, <2>1, <3>2, TailSeq, ConcatSeq
    <3> QED BY <1>2, <2>1, <2>3, <3>1, <3>2, <3>3
  <2>4. i \in 1 .. Len(items) \/ (i > Len(items) /\ i - Len(items) \in 1 .. Len(Tail(todo)))
    BY <1>2, <2>1, ConcatSeq
  <2> QED BY <2>2, <2>3, <2>4
<1> QED BY <1>1, <1>2 DEF Grow

(* Which calls the next state has.                                         *)
LEMMA GrowKeeps ==
    ASSUME ServerInv, NEW items, IsSeq(items), Grow(items), phase' = "serving"
    PROVE  /\ \A i \in 1 .. Len(items) : \E j \in 1 .. Len(todo') : todo'[j] = items[i]
           /\ \A i \in 2 .. Len(todo) : \E j \in 1 .. Len(todo') : todo'[j] = todo[i]
<1>1. CASE todo' = items /\ todo = <<>>
  <2>1. Len(todo) = 0
    BY <1>1
  <2> QED BY <1>1, <2>1
<1>2. CASE todo # <<>> /\ todo' = items \o Tail(todo)
  <2>1. IsSeq(Tail(todo)) /\ Len(Tail(todo)) = Len(todo) - 1 /\ Len(todo) \in Nat
    BY <1>2, TailSeq
  <2>2. \A i \in 1 .. Len(items) : i \in 1 .. Len(todo') /\ todo'[i] = items[i]
    BY <1>2, <2>1, ConcatSeq
  <2>3. ASSUME NEW i \in 2 .. Len(todo) PROVE \E j \in 1 .. Len(todo') : todo'[j] = todo[i]
    <3>1. PICK k \in 1 .. Len(Tail(todo)) : k + 1 = i
      <4>1. i - 1 \in 1 .. Len(Tail(todo)) /\ i - 1 + 1 = i
        BY <2>1
      <4> QED BY <4>1
    <3>2. Tail(todo)[k] = todo[i]
      BY <1>2, <3>1, TailSeq
    <3>3. Len(items) + k \in 1 .. Len(todo') /\ todo'[Len(items) + k] = Tail(todo)[k]
      BY <1>2, <2>1, ConcatSeq
    <3> QED BY <3>2, <3>3
  <2> QED BY <2>2, <2>3
<1> QED BY <1>1, <1>2 DEF Grow

LEMMA FrameLastKept ==
    ASSUME ServerInv, FrameLast, NEW items, IsSeq(items), Grow(items),
           \A i \in 1 .. Len(items) : items[i][1] # "frame"
    PROVE  FrameLast'
<1> SUFFICES ASSUME NEW i \in 1 .. Len(todo'), todo'[i][1] = "frame"
             PROVE  phase' = "serving" /\ \A j \in 1 .. Len(todo') : i < j => todo'[j][1] = "check"
  BY DEF FrameLast
<1> DEFINE k == Len(items)
<1>1. /\ todo # <<>> /\ phase' = phase /\ i > k /\ k \in Nat
      /\ i - k + 1 \in 1 .. Len(todo) /\ todo'[i] = todo[i - k + 1]
  BY GrowMembers
<1>2. phase = "serving" /\ \A j \in 1 .. Len(todo) : i - k + 1 < j => todo[j][1] = "check"
  BY <1>1 DEF FrameLast
<1>3. ASSUME NEW j \in 1 .. Len(todo'), i < j PROVE todo'[j][1] = "check"
  <2>1. j \notin 1 .. k /\ i \in Int /\ j \in Int
    BY <1>1, <1>3
  <2>2. j - k + 1 \in 1 .. Len(todo) /\ todo'[j] = todo[j - k + 1]
    BY <2>1, GrowMembers
  <2>3. i - k + 1 < j - k + 1
    BY <1>1, <1>3, <2>1
  <2> QED BY <1>2, <2>2, <2>3
<1> QED BY <1>1, <1>2, <1>3

LEMMA PendKept ==
    ASSUME ServerInv, NEW items, IsSeq(items), Grow(items), phase' = "serving", Pend(todo),
           ~BusyCall(Head(todo))
    PROVE  Pend(todo')
<1>1. PICK i \in 1 .. Len(todo) : BusyCall(todo[i])
  BY DEF Pend
<1>2. todo # <<>>
  <2>1. todo = <<>> => Len(todo) = 0
    OBVIOUS
  <2> QED BY <1>1, <2>1
<1>3. i # 1 /\ Len(todo) \in Nat
  BY <1>1, <1>2, TailSeq
<1>4. i \in 2 .. Len(todo)
  BY <1>3
<1> QED BY <1>1, <1>4, GrowKeeps DEF Pend

LEMMA SettledKept ==
    ASSUME ServerInv, Settled, NEW items, IsSeq(items), Grow(items),
           todo = <<>> \/ Head(todo)[1] \notin Busily \cup {"goAway"} \/ ~BusyCall(Head(todo)),
           out'.async = out.async, Calm => Calm'
    PROVE  Settled'
<1> SUFFICES ASSUME phase' = "serving", ~out'.async, ~Calm' PROVE Pend(todo')
  BY DEF Settled
<1>1. phase = "serving" /\ ~out.async /\ ~Calm
  BY DEF Grow
<1>2. Pend(todo)
  BY <1>1 DEF Settled
<1>3. todo # <<>>
  <2>1. todo = <<>> => Len(todo) = 0
    OBVIOUS
  <2> QED BY <1>2, <2>1 DEF Pend
<1>4. ~BusyCall(Head(todo))
  BY <1>3 DEF BusyCall
<1> QED BY <1>2, <1>3, <1>4, PendKept

(* A step that leads to scheduleFrameWrite or wroteFrame.                  *)
LEMMA SettledByPend ==
    ASSUME ServerInv, NEW items, IsSeq(items), Grow(items), Pend(items)
    PROVE  Settled'
<1>1. PICK i \in 1 .. Len(items) : BusyCall(items[i])
  BY DEF Pend
<1>2. phase' = "serving" => Pend(todo')
  BY <1>1, GrowKeeps DEF Pend
<1> QED BY <1>2 DEF Settled

LEMMA SettledByCall ==
    ASSUME ServerInv, NEW items, IsSeq(items), Grow(items), NEW i \in 1 .. Len(items), items[i][1] \in Busily
    PROVE  Settled'
BY SettledByPend DEF Pend, BusyCall

LEMMA CurrentKept ==
    ASSUME ServerInv, Current, NEW items, IsSeq(items), Grow(items),
           todo = <<>> \/ Head(todo)[1] # "wrote", out'.async = out.async, out'.cur = out.cur
    PROVE  Current'
<1> SUFFICES ASSUME phase' = "serving", out'.cur # None, ~out'.async
             PROVE  \E i \in 1 .. Len(todo') : todo'[i][1] = "wrote"
  BY DEF Current
<1>1. PICK i \in 1 .. Len(todo) : todo[i][1] = "wrote"
  BY DEF Current, Grow
<1>2. todo # <<>>
  <2>1. todo = <<>> => Len(todo) = 0
    OBVIOUS
  <2> QED BY <1>1, <2>1
<1>3. i \in 2 .. Len(todo)
  <2>1. i # 1 /\ Len(todo) \in Nat
    BY <1>1, <1>2, TailSeq
  <2> QED BY <2>1
<1> QED BY <1>1, <1>3, GrowKeeps

LEMMA TameCallsKept ==
    ASSUME ServerInv, TameCalls(todo), NEW items, IsSeq(items), Grow(items), TameCalls(items)
    PROVE  TameCalls(todo')
<1> SUFFICES ASSUME NEW i \in 1 .. Len(todo'), todo'[i][1] = "write" PROVE Tame(todo'[i][2])
  BY DEF TameCalls
<1> QED BY GrowMembers DEF TameCalls

(* Once a handler is known it stays known.                                 *)
NoneLost == \A s \in Ids : h[s].pc # "none" => h'[s].pc # "none"

(* What the scheduler may write does not change.                           *)
KeepsOut ==
    /\ out'.async = out.async /\ out'.cur = out.cur /\ out'.ctl = out.ctl
    /\ \A s \in Ids : out'.q[s] = out.q[s] \/ out'.q[s] = <<>>
Sends(c) == c.cwin = sc.cwin /\ (~c.inGoAway \/ c.code = "no" => MayPop)
SameWin(x) == \A s \in Ids : x[s].win = str[s].win

LEMMA CalmSame ==
    ASSUME Calm, out'.ctl = out.ctl, \A s \in Ids : out'.q[s] = out.q[s] \/ out'.q[s] = <<>>,
           Sends(sc'), SameWin(str')
    PROVE  Calm'
<1> SUFFICES ASSUME MayPop'
             PROVE  MildQueue(out'.ctl) /\ \A s \in Ids : Writable(s)' => MildQueue(out'.q[s])
  BY DEF Calm
<1>1. MayPop
  BY DEF MayPop, Sends
<1>2. ASSUME NEW s \in Ids, Writable(s)' PROVE MildQueue(out'.q[s])
  <2>1. out'.q[s] = out.q[s]
    BY <1>2 DEF Writable
  <2>2. Room(s)' = Room(s)
    BY DEF Room, Min2, Sends, SameWin
  <2>3. Writable(s)
    BY <1>2, <2>1, <2>2 DEF Writable
  <2> QED BY <1>1, <2>1, <2>3 DEF Calm
<1> QED BY <1>1, <1>2 DEF Calm

LEMMA CalmKept == ASSUME Calm, KeepsOut, Sends(sc'), SameWin(str') PROVE Calm'
BY CalmSame DEF KeepsOut

-----------------------------------------------------------------------------
(* Requests that are to end.                                               *)
Light == Updating \cup {"loop", "start", "wrote", "reply"}
LightOrAway == Light \cup {"goAway"}
EndsBelow == \E i \in 2 .. Len(todo) : todo[i][1] = "endStream"

LEMMA Below ==
    ASSUME ServerInv, EndsLive, EndsBelow
    PROVE  /\ todo # <<>> /\ MildCall(Head(todo)) /\ Head(todo)[1] \in Light
           /\ Calm \/ (out.async /\ Head(todo)[1] \in Updating)
<1>1. PICK i \in 2 .. Len(todo) : todo[i][1] = "endStream"
  BY DEF EndsBelow
<1>2. todo # <<>>
  <2>1. todo = <<>> => Len(todo) = 0
    OBVIOUS
  <2> QED BY <1>1, <2>1
<1>3. i \in 1 .. Len(todo) /\ 1 \in 1 .. i - 1 /\ Head(todo) = todo[1]
  BY <1>2, TailSeq
<1>4. MildCall(todo[1]) /\ (Calm \/ (out.async /\ todo[1][1] \in Updating))
  BY <1>1, <1>3 DEF EndsLive
<1> QED BY <1>2, <1>3, <1>4 DEF MildCall, Light

LEMMA EndsGone ==
    ASSUME ServerInv, NEW items, Plain(items), Grow(items), ~EndsBelow
    PROVE  EndsLive'
<1>1. \A i \in 1 .. Len(todo') : todo'[i][1] # "endStream"
  <2> SUFFICES ASSUME NEW i \in 1 .. Len(todo'), todo'[i][1] = "endStream" PROVE FALSE
    OBVIOUS
  <2> DEFINE k == Len(items)
  <2>1. todo # <<>> /\ i > k /\ k \in Nat /\ i - k + 1 \in 1 .. Len(todo) /\ todo'[i] = todo[i - k + 1]
    BY GrowMembers DEF Plain
  <2>2. i - k + 1 \in 2 .. Len(todo)
    BY <2>1, TailSeq
  <2> QED BY <2>1, <2>2 DEF EndsBelow
<1> QED BY <1>1 DEF EndsLive

(* Steps on the way to the end of a request.                               *)
LEMMA EndsKept ==
    ASSUME ServerInv, EndsLive, NEW items, Plain(items), Grow(items),
           EndsBelow => /\ \A s \in Ids : live(s) => live(s)'
                        /\ \A i \in 1 .. Len(items) : MildCall(items[i]),
           EndsBelow /\ Calm => Calm',
           EndsBelow /\ out.async /\ Head(todo)[1] \in Updating =>
              out'.async /\ \A i \in 1 .. Len(items) : items[i][1] \in Updating
    PROVE  EndsLive'
<1>1. CASE ~EndsBelow
  BY <1>1, EndsGone
<1>2. CASE EndsBelow
  <2> SUFFICES ASSUME NEW i \in 1 .. Len(todo'), todo'[i][1] = "endStream"
               PROVE  /\ todo'[i][2] \in liveIds'
                      /\ \A j \in 1 .. i - 1 : MildCall(todo'[j])
                      /\ Calm' \/ (out'.async /\ \A j \in 1 .. i - 1 : todo'[j][1] \in Updating)
    BY DEF EndsLive
  <2> DEFINE k == Len(items)
             m == i - k + 1
  <2>1. todo # <<>> /\ i > k /\ k \in Nat /\ i \in Nat /\ m \in 1 .. Len(todo) /\ todo'[i] = todo[m]
    BY GrowMembers DEF Plain
  <2>2. /\ todo[m][2] \in liveIds /\ \A j \in 1 .. m - 1 : MildCall(todo[j])
        /\ Calm \/ (out.async /\ \A j \in 1 .. m - 1 : todo[j][1] \in Updating)
    BY <2>1 DEF EndsLive
  <2>3. \A j \in 1 .. i - 1 : \/ j \in 1 .. k /\ todo'[j] = items[j]
                              \/ j - k + 1 \in 1 .. m - 1 /\ todo'[j] = todo[j - k + 1]
    <3> SUFFICES ASSUME NEW j \in 1 .. i - 1
                 PROVE  \/ j \in 1 .. k /\ todo'[j] = items[j]
                        \/ j - k + 1 \in 1 .. m - 1 /\ todo'[j] = todo[j - k + 1]
      OBVIOUS
    <3>0. IsSeq(todo') /\ Len(todo') \in Nat
      <4>1. IsSeq(todo')
        <5>1. IsSeq(items) /\ IsSeq(Tail(todo))
          BY <2>1, TailSeq DEF Plain
        <5>2. todo' = items \/ todo' = items \o Tail(todo)
          BY DEF Grow
        <5>3. IsSeq(items \o Tail(todo))
          BY <5>1, ConcatSeq
        <5> QED BY <5>1, <5>2, <5>3
      <4> QED BY <4>1 DEF IsSeq
    <3>1. j \in 1 .. Len(todo')
      BY <2>1, <3>0
    <3> QED BY <2>1, <3>1, GrowMembers DEF Plain
  <2>4. todo'[i][2] \in liveIds'
    BY <1>2, <2>1, <2>2 DEF liveIds
  <2>5. \A j \in 1 .. i - 1 : MildCall(todo'[j])
    BY <1>2, <2>2, <2>3
  <2>6. Calm' \/ (out'.async /\ \A j \in 1 .. i - 1 : todo'[j][1] \in Updating)
    <3>1. CASE Calm
      BY <1>2, <3>1
    <3>2. CASE ~Calm
      <4>1. out.async /\ Head(todo)[1] \in Updating
        BY <1>2, <3>2, Below
      <4> QED BY <1>2, <2>2, <2>3, <3>2, <4>1
    <3> QED BY <3>1, <3>2
  <2> QED BY <2>4, <2>5, <2>6
<1> QED BY <1>1, <1>2

LEMMA PlacedKept ==
    ASSUME ServerInv, Placed, NEW items, IsSeq(items), TameCalls(items), Grow(items), NoneLost,
           \A s \in Ids : out'.q[s] = out.q[s] \/ out'.q[s] = <<>>,
           \A i \in 1 .. Len(want') : Tame(want'[i])
    PROVE  Placed'
<1>1. \A i \in 1 .. Len(todo') : todo'[i][1] = "write" => Tame(todo'[i][2])
  BY TameCallsKept DEF Placed, TameCalls
<1>2. TameCalls(todo)'
  BY <1>1 DEF TameCalls, Tame, NoneLost
<1>3. \A i \in 1 .. Len(want') : Tame(want[i])'
  BY DEF Tame, NoneLost
<1>4. \A s \in Ids : \A i \in 1 .. Len(out'.q[s]) : out'.q[s][i].t # "rst" /\ Tame(out'.q[s][i])
  <2>1. Len(<<>>) = 0
    OBVIOUS
  <2> QED BY <2>1 DEF Placed
<1>5. \A s \in Ids : \A i \in 1 .. Len(out'.q[s]) : out'.q[s][i].t # "rst" /\ Tame(out.q[s][i])'
  BY <1>4 DEF Tame, NoneLost
<1> QED BY <1>2, <1>3, <1>5 DEF Placed

(* The steps that write nothing and do not move along the way to the end   *)
(* of a request.                                                           *)
LEMMA LoopKept ==
    ASSUME ServerInv, LoopInv, NEW items, Plain(items), Grow(items),
           todo = <<>> \/ Head(todo)[1] \notin Light, KeepsOut, NoneLost,
           \A i \in 1 .. Len(want') : Tame(want'[i]), Settled'
    PROVE  LoopInv'
<1>1. IsSeq(items) /\ \A i \in 1 .. Len(items) : items[i][1] # "frame"
  BY DEF Plain
<1>2. FrameLast'
  BY <1>1, FrameLastKept DEF LoopInv
<1>3. Current'
  BY <1>1, CurrentKept DEF LoopInv, KeepsOut, Light
<1>4. EndsLive'
  <2>1. ~EndsBelow
    BY Below DEF LoopInv
  <2> QED BY <2>1, EndsGone
<1>5. Placed'
  <2>1. TameCalls(items)
    BY DEF Plain, TameCalls
  <2> QED BY <1>1, <2>1, PlacedKept DEF LoopInv, KeepsOut
<1> QED BY <1>2, <1>3, <1>4, <1>5 DEF LoopInv

-----------------------------------------------------------------------------
(* The counters of serverConn.  A stream whose handler waits for a slot is *)
(* in unstartedHandlers, and then all the slots are taken.                 *)
QueueInv ==
    \A s \in liveIds : h[s].pc = "queued" =>
        sc.handlers >= AdvMax /\ \E i \in 1 .. Len(sc.unstarted) : sc.unstarted[i] = s

(* curHandlers counts the handlers that run and those whose                *)
(* handlerDoneMsg is still to come; unstartedHandlers holds each waiting   *)
(* handler once.                                                           *)
Busy == {s \in Ids : Started(s) /\ h[s].pc # "gone"}
Dones(m) == {i \in 1 .. Len(m) : m[i][1] = "done"}
Slotted ==
    /\ \A i \in 1 .. Len(sc.unstarted) : h[sc.unstarted[i]].pc = "queued"
    /\ \A i, j \in 1 .. Len(sc.unstarted) : sc.unstarted[i] = sc.unstarted[j] => i = j
    /\ phase = "serving" =>
          /\ sc.handlers = Cardinality(Busy) + Cardinality(Dones(msgs))
          /\ Cardinality({s \in Busy : Odd(s)}) <= AdvMax

(* The promised ids go up.                                                 *)
Pushed == \A s \in Ids : ~Odd(s) /\ (live(s) \/ h[s].pc # "none") => s <= sc.maxPush

Counted ==
    /\ sc.nClient = Cardinality({s \in liveIds : Odd(s)}) /\ sc.nClient <= AdvMax
    /\ sc.nPushed = Cardinality({s \in liveIds : ~Odd(s)}) /\ sc.nPushed <= ClientMax

CountInv == QueueInv /\ Slotted /\ Pushed /\ Counted
StreamInv == LoopInv /\ CountInv

(* What most steps leave alone: the counters, which streams there are, and *)
(* how far their handlers have come.                                       *)
Slots(c) ==
    /\ c.handlers = sc.handlers /\ c.unstarted = sc.unstarted
    /\ c.nClient = sc.nClient /\ c.nPushed = sc.nPushed /\ c.maxPush = sc.maxPush
SameLive(x) == \A s \in Ids : x[s].st \in {"open", "halfLocal", "halfRemote"} <=> live(s)
SamePc(x) == \A s \in Ids : \A p \in {"none", "queued", "gone"} : x[s].pc = p <=> h[s].pc = p

LEMMA SameAll == Slots(sc) /\ SameLive(str) /\ SamePc(h) /\ Sends(sc) /\ SameWin(str)
BY DEF Slots, SameLive, SamePc, live, Sends, SameWin, MayPop

LEMMA CountsKept ==
    ASSUME ServerInv, CountInv, Slots(sc'), SameLive(str'), SamePc(h'),
           phase' = "serving" => phase = "serving", Cardinality(Dones(msgs')) = Cardinality(Dones(msgs))
    PROVE  CountInv'
<1>1. liveIds' = liveIds /\ \A s \in Ids : live(s)' <=> live(s)
  BY DEF liveIds, live, SameLive
<1>2. /\ Busy' = Busy
      /\ \A s \in Ids : (h'[s].pc = "none" <=> h[s].pc = "none") /\ (h'[s].pc = "queued" <=> h[s].pc = "queued")
  BY DEF Busy, Started, SamePc
<1>3. QueueInv'
  BY <1>1, <1>2 DEF CountInv, QueueInv, Slots, liveIds
<1>4. Slotted'
  <2>1. sc.unstarted \in Seq(Ids)
    BY Facts DEF ConnKept, Conns
  <2>2. \A i \in 1 .. Len(sc.unstarted) : sc.unstarted[i] \in Ids
    BY <2>1
  <2> QED BY <1>2, <2>2 DEF CountInv, Slotted, Slots
<1>5. Pushed'
  BY <1>1, <1>2 DEF CountInv, Pushed, Slots
<1>6. Counted'
  BY <1>1 DEF CountInv, Counted, Slots
<1> QED BY <1>3, <1>4, <1>5, <1>6 DEF CountInv

LEMMA SlotsKept ==
    ASSUME ServerInv, NEW a, NEW b, NEW c
    PROVE  /\ Slots([sc EXCEPT !.avail = a]) /\ Slots([sc EXCEPT !.avail = a, !.unsent = b])
           /\ Slots([sc EXCEPT !.cwin = a]) /\ Slots([sc EXCEPT !.unacked = a])
           /\ Slots([sc EXCEPT !.maxClient = a]) /\ Slots([sc EXCEPT !.needGoAway = a])
           /\ Slots([sc EXCEPT !.needAck = a]) /\ Slots([sc EXCEPT !.saw = a])
           /\ Slots([sc EXCEPT !.timer = a]) /\ Slots([sc EXCEPT !.ping = a]) /\ Slots([sc EXCEPT !.push = a])
           /\ Slots([sc EXCEPT !.swin = a, !.maxClient = b])
           /\ Slots([sc EXCEPT !.swin = a, !.needAck = b]) /\ Slots([sc EXCEPT !.push = a, !.needAck = b])
           /\ Slots([sc EXCEPT !.code = a])
           /\ Slots([sc EXCEPT !.inGoAway = a, !.needGoAway = b, !.code = c])
           /\ Slots([sc EXCEPT !.fired = a])
<1>1. sc \in Conns
  BY DEF ServerInv, Types
<1> QED BY <1>1 DEF Conns, Slots

LEMMA SendsKept ==
    ASSUME ServerInv, NEW a, NEW b
    PROVE  /\ Sends([sc EXCEPT !.avail = a]) /\ Sends([sc EXCEPT !.avail = a, !.unsent = b])
           /\ Sends([sc EXCEPT !.unacked = a]) /\ Sends([sc EXCEPT !.maxClient = a])
           /\ Sends([sc EXCEPT !.needGoAway = a]) /\ Sends([sc EXCEPT !.needAck = a])
           /\ Sends([sc EXCEPT !.saw = a]) /\ Sends([sc EXCEPT !.timer = a])
           /\ Sends([sc EXCEPT !.ping = a]) /\ Sends([sc EXCEPT !.push = a])
           /\ Sends([sc EXCEPT !.nClient = a]) /\ Sends([sc EXCEPT !.nPushed = a])
           /\ Sends([sc EXCEPT !.swin = a, !.maxClient = b])
           /\ Sends([sc EXCEPT !.swin = a, !.needAck = b]) /\ Sends([sc EXCEPT !.push = a, !.needAck = b])
           /\ Sends([sc EXCEPT !.fired = a])
<1>1. sc \in Conns
  BY DEF ServerInv, Types
<1> QED BY <1>1 DEF Conns, Sends, MayPop

LEMMA LiveKept ==
    ASSUME ServerInv, NEW s, NEW a, NEW b, NEW c
    PROVE  /\ SameLive([str EXCEPT ![s].err = a]) /\ SameLive([str EXCEPT ![s].err = a, ![s].cw = b])
           /\ SameLive([str EXCEPT ![s].resetQueued = a]) /\ SameLive([str EXCEPT ![s].gotTrailer = a])
           /\ SameLive([str EXCEPT ![s].broken = a]) /\ SameLive([str EXCEPT ![s].wroteHeaders = a])
           /\ SameLive([str EXCEPT ![s].avail = a, ![s].unsent = b])
           /\ SameLive([str EXCEPT ![s].avail = a, ![s].got = b, ![s].len = c])
           /\ SameLive([str EXCEPT ![s].win = a]) /\ SameLive([str EXCEPT ![s].len = a])
<1>1. str \in [Ids -> StreamRecs] /\ SameLive(str)
  BY SameAll DEF ServerInv, Types
<1> QED BY <1>1 DEF StreamRecs, SameLive

LEMMA WinKept ==
    ASSUME ServerInv, NEW s, NEW a, NEW b, NEW c
    PROVE  /\ SameWin([str EXCEPT ![s].err = a]) /\ SameWin([str EXCEPT ![s].err = a, ![s].cw = b])
           /\ SameWin([str EXCEPT ![s].resetQueued = a]) /\ SameWin([str EXCEPT ![s].gotTrailer = a])
           /\ SameWin([str EXCEPT ![s].broken = a]) /\ SameWin([str EXCEPT ![s].wroteHeaders = a])
           /\ SameWin([str EXCEPT ![s].avail = a, ![s].unsent = b])
           /\ SameWin([str EXCEPT ![s].avail = a, ![s].got = b, ![s].len = c])
           /\ SameWin([str EXCEPT ![s].st = a]) /\ SameWin([str EXCEPT ![s].len = a])
<1>1. str \in [Ids -> StreamRecs]
  BY DEF ServerInv, Types
<1> QED BY <1>1 DEF StreamRecs, SameWin

-----------------------------------------------------------------------------
(* Messages of handlers that are done.                                     *)
LEMMA DonesFinite == ASSUME NEW m, IsSeq(m) PROVE IsFiniteSet(Dones(m)) /\ Cardinality(Dones(m)) \in Nat
<1>1. Len(m) \in Nat
  BY DEF IsSeq
<1>2. IsFiniteSet(1 .. Len(m)) /\ Dones(m) \subseteq 1 .. Len(m)
  BY <1>1, FS_Interval DEF Dones
<1> QED BY <1>2, FS_Subset, FS_CardinalityType

LEMMA DonesMore ==
    ASSUME NEW m, IsSeq(m), NEW c
    PROVE  Cardinality(Dones(Append(m, c))) = Cardinality(Dones(m)) + (IF c[1] = "done" THEN 1 ELSE 0)
<1>1. PICK S : m \in Seq(S)
  BY DEF IsSeq
<1> DEFINE q == Append(m, c)
           k == Len(m) + 1
<1>2. /\ Len(m) \in Nat /\ Len(q) = k /\ q[k] = c
      /\ \A i \in 1 .. Len(m) : q[i] = m[i]
  <2>1. m \in Seq(S \cup {c})
    BY <1>1
  <2> QED BY <2>1
<1> HIDE DEF q
<1>3. Dones(q) = IF c[1] = "done" THEN Dones(m) \cup {k} ELSE Dones(m)
  BY <1>2 DEF Dones
<1>4. k \notin Dones(m)
  BY <1>2 DEF Dones
<1>5. IsFiniteSet(Dones(m)) /\ Cardinality(Dones(m)) \in Nat
  BY DonesFinite
<1>6. Cardinality(Dones(m) \cup {k}) = Cardinality(Dones(m)) + 1
  BY <1>4, <1>5, FS_AddElement
<1> QED BY <1>3, <1>5, <1>6 DEF q

LEMMA DonesLess ==
    ASSUME NEW m, IsSeq(m), m # <<>>
    PROVE  Cardinality(Dones(Tail(m))) = Cardinality(Dones(m)) - (IF Head(m)[1] = "done" THEN 1 ELSE 0)
<1>1. PICK S : m \in Seq(S)
  BY DEF IsSeq
<1> DEFINE q == Tail(m)
           D == Dones(m) \ {1}
           f == [i \in Dones(q) |-> i + 1]
<1>2. /\ Len(m) \in Nat /\ Len(m) > 0 /\ Len(q) = Len(m) - 1 /\ Head(m) = m[1]
      /\ \A i \in 1 .. Len(q) : q[i] = m[i + 1]
  BY <1>1
<1> HIDE DEF q
<1>3. f \in Bijection(Dones(q), D)
  <2>1. \A i \in Dones(q) : i \in Int /\ i + 1 \in D
    BY <1>2 DEF Dones
  <2>2. \A i \in D : i - 1 \in Dones(q) /\ i \in Int
    BY <1>2 DEF Dones
  <2>3. f \in [Dones(q) -> D]
    BY <2>1
  <2>4. \A i, j \in Dones(q) : f[i] = f[j] => i = j
    BY <2>1
  <2>5. \A y \in D : \E x \in Dones(q) : f[x] = y
    <3> SUFFICES ASSUME NEW y \in D PROVE \E x \in Dones(q) : f[x] = y
      OBVIOUS
    <3>1. y - 1 \in Dones(q) /\ f[y - 1] = y
      BY <2>2
    <3> QED BY <3>1
  <2> HIDE DEF f
  <2> QED BY <2>3, <2>4, <2>5 DEF Bijection, Injection, IsInjective, Surjection
<1>4. IsFiniteSet(Dones(q)) /\ IsFiniteSet(Dones(m)) /\ Cardinality(Dones(m)) \in Nat
  <2>1. IsSeq(q)
    BY <1>1 DEF IsSeq, q
  <2> QED BY <2>1, DonesFinite
<1>5. Cardinality(D) = Cardinality(Dones(q))
  <2>1. ExistsBijection(Dones(q), D)
    BY <1>3 DEF ExistsBijection
  <2> HIDE DEF D
  <2> QED BY <1>4, <2>1, FS_Bijection
<1>6. Cardinality(D) = IF 1 \in Dones(m) THEN Cardinality(Dones(m)) - 1 ELSE Cardinality(Dones(m))
  BY <1>4, FS_RemoveElement
<1>7. 1 \in Dones(m) <=> Head(m)[1] = "done"
  BY <1>2 DEF Dones
<1> QED BY <1>4, <1>5, <1>6, <1>7 DEF q

-----------------------------------------------------------------------------
(* Most steps of the loop only make calls and note what is not counted.    *)
Moves == \E items : Plain(items) /\ Grow(items) /\ ((Sends(sc') /\ SameWin(str')) \/ Pend(items))

LEMMA SameKeepsOut == ASSUME UNCHANGED out PROVE KeepsOut
BY DEF KeepsOut

LEMMA SamePcs == ASSUME UNCHANGED h PROVE SamePc(h') /\ NoneLost
BY DEF SamePc, NoneLost

LEMMA StepKept ==
    ASSUME ServerInv, StreamInv, todo = <<>> \/ Head(todo)[1] \notin Light, NEW items, Plain(items), Grow(items),
           Settled', Slots(sc'), SameLive(str'), SamePc(h'), KeepsOut, \A i \in 1 .. Len(want') : Tame(want'[i]),
           Cardinality(Dones(msgs')) = Cardinality(Dones(msgs))
    PROVE  StreamInv'
<1>1. IsSeq(items) /\ NoneLost /\ (phase' = "serving" => phase = "serving")
  BY DEF Plain, Grow, SamePc, NoneLost
<1>2. LoopInv'
  BY <1>1, LoopKept DEF StreamInv
<1>3. CountInv'
  BY <1>1, CountsKept DEF StreamInv
<1> QED BY <1>2, <1>3 DEF StreamInv

LEMMA MovesKept ==
    ASSUME ServerInv, StreamInv, todo = <<>> \/ Head(todo)[1] \notin LightOrAway, Moves, Slots(sc'), SameLive(str'),
           SamePc(h'), KeepsOut, \A i \in 1 .. Len(want') : Tame(want'[i]),
           Cardinality(Dones(msgs')) = Cardinality(Dones(msgs))
    PROVE  StreamInv'
<1>1. PICK items : Plain(items) /\ Grow(items) /\ ((Sends(sc') /\ SameWin(str')) \/ Pend(items))
  BY DEF Moves
<1>2. IsSeq(items)
  BY <1>1 DEF Plain
<1>3. Settled'
  <2>1. CASE Sends(sc') /\ SameWin(str')
    BY <1>1, <1>2, <2>1, CalmKept, SettledKept DEF StreamInv, LoopInv, KeepsOut, Busily, LightOrAway, Light, Updating
  <2>2. CASE Pend(items)
    BY <1>1, <1>2, <2>2, SettledByPend
  <2> QED BY <1>1, <2>1, <2>2
<1> QED BY <1>1, <1>3, StepKept DEF LightOrAway

LEMMA HeavyKept ==
    ASSUME ServerInv, StreamInv, todo # <<>>, Head(todo)[1] \notin LightOrAway, Moves, Slots(sc'), SameLive(str'),
           KeepsOut, UNCHANGED <<h, chans>>
    PROVE  StreamInv'
<1>1. SamePc(h')
  BY SamePcs
<1>2. \A i \in 1 .. Len(want') : Tame(want'[i])
  BY DEF StreamInv, LoopInv, Placed, chans
<1> QED BY <1>1, <1>2, MovesKept DEF chans

(* The ways in which a step moves on.                                      *)
LEMMA PlainMoves ==
    ASSUME todo # <<>>, NEW items, Plain(items), Then(items), UNCHANGED phase, Sends(sc'), SameWin(str')
    PROVE  Moves
BY ThenGrows DEF Moves

LEMMA SchedPend == Pend(<<Sched>>)
<1>1. PICK q : q = <<Sched>>
  OBVIOUS
<1>2. Len(q) = 1 /\ q[1] = Sched
  BY <1>1
<1>3. Pend(q)
  BY <1>2 DEF Pend, BusyCall, Busily, Sched
<1> QED BY <1>1, <1>3

LEMMA FatalPend == ASSUME NEW c, c # "no" PROVE Pend(<<<<"goAway", c>>>>)
<1>1. PICK q : q = <<<<"goAway", c>>>>
  OBVIOUS
<1>2. Len(q) = 1 /\ q[1][1] = "goAway" /\ q[1][2] # "no"
  BY <1>1
<1>3. Pend(q)
  BY <1>2 DEF Pend, BusyCall
<1> QED BY <1>1, <1>3

LEMMA SchedMoves == ASSUME todo # <<>>, Then(<<Sched>>), UNCHANGED phase PROVE Moves
<1>1. Plain(<<Sched>>)
  BY PlainOne DEF Sched
<1> QED BY <1>1, SchedPend, ThenGrows DEF Moves

LEMMA PanicMoves == ASSUME Panic, UNCHANGED <<sc, str>> PROVE Moves
BY PanicGrows, PlainEmpty, SameAll DEF Moves

LEMMA ReturnMoves == ASSUME NEW o \in Orders, Return(o), UNCHANGED <<sc, str>> PROVE Moves
<1> DEFINE m == Cardinality(liveIds)
<1>1. liveIds \subseteq Ids /\ m \in Nat
  BY IdsAssumption, FS_Subset, FS_CardinalityType DEF liveIds
<1>2. o \in [1 .. m -> Ids]
  BY <1>1 DEF Orders
<1> HIDE DEF m
<1>3. Len(o) = m
  BY <1>1, <1>2
<1>4. todo' = [i \in 1 .. m |-> <<"close", o[i]>>] /\ phase' = "closing"
  BY <1>3 DEF Return
<1>5. Len(todo') = m /\ \A i \in 1 .. m : todo'[i][1] = "close" /\ todo'[i] \in {<<"close", s>> : s \in Ids}
  BY <1>1, <1>2, <1>4
<1>6. todo' \in [1 .. m -> {<<"close", s>> : s \in Ids}]
  BY <1>4, <1>5
<1>7. IsSeq(todo')
  <2>1. todo' \in Seq({<<"close", s>> : s \in Ids})
    BY <1>1, <1>6
  <2> QED BY <2>1 DEF IsSeq
<1>8. Plain(todo')
  BY <1>5, <1>7 DEF Plain
<1>9. Grow(todo')
  BY <1>4 DEF Grow
<1>10. Sends(sc') /\ SameWin(str')
  BY SameAll
<1> QED BY <1>8, <1>9, <1>10 DEF Moves

(* The frames the serve loop makes itself do not end a response.           *)
LEMMA CtlTame == ASSUME NEW t, NEW s, t # "panicRST" PROVE Tame(Ctl(t, s))
BY DEF Tame, Ctl, Out

-----------------------------------------------------------------------------
(* Each action keeps StreamInv: streams and shutdown.                      *)
LEMMA resetStreamStreams == ASSUME ServerInv, StreamInv, resetStream PROVE StreamInv'
<1>1. /\ todo # <<>> /\ Head(todo)[1] \notin LightOrAway /\ UNCHANGED <<phase, sc, str, out, h, chans>>
      /\ Then(<<<<"write", Ctl("rst", arg)>>, <<"resetQueued", arg>>>>)
  BY DEF resetStream, At, LightOrAway, Light, Updating
<1>2. Plain(<<<<"write", Ctl("rst", arg)>>, <<"resetQueued", arg>>>>)
  BY PlainTwo, CtlTame
<1>3. Moves
  BY <1>1, <1>2, PlainMoves, SameAll
<1> QED BY <1>1, <1>3, SameAll, SameKeepsOut, HeavyKept

LEMMA resetQueuedStreams == ASSUME ServerInv, StreamInv, resetQueued PROVE StreamInv'
<1>1. /\ todo # <<>> /\ Head(todo)[1] \notin LightOrAway /\ UNCHANGED <<phase, sc, out, h, chans>> /\ Then(<<>>)
      /\ str' = [str EXCEPT ![arg].resetQueued = TRUE] \/ str' = str
  BY DEF resetQueued, At, LightOrAway, Light, Updating
<1>2. SameLive(str') /\ SameWin(str')
  <2>1. CASE str' = [str EXCEPT ![arg].resetQueued = TRUE]
    BY <2>1, LiveKept, WinKept
  <2> QED BY <1>1, <2>1, SameAll
<1>3. Moves
  BY <1>1, <1>2, PlainMoves, PlainEmpty, SameAll
<1> QED BY <1>1, <1>2, <1>3, SameAll, SameKeepsOut, HeavyKept

LEMMA closeStreamRestStreams == ASSUME ServerInv, StreamInv, closeStreamRest PROVE StreamInv'
<1>1. /\ todo # <<>> /\ Head(todo)[1] \notin LightOrAway /\ UNCHANGED <<phase, sc, h, chans>> /\ Then(<<>>)
      /\ str' = [str EXCEPT ![arg].err = TRUE, ![arg].cw = TRUE]
      /\ out' = [out EXCEPT !.q[arg] = <<>>]
  BY DEF closeStreamRest, At, LightOrAway, Light, Updating
<1>2. SameLive(str') /\ SameWin(str')
  BY <1>1, LiveKept, WinKept
<1>3. Moves
  BY <1>1, <1>2, PlainMoves, PlainEmpty, SameAll
<1>4. KeepsOut
  <2>1. out \in Outs
    BY Facts DEF OutOK
  <2> QED BY <1>1, <2>1 DEF KeepsOut, Outs
<1> QED BY <1>1, <1>2, <1>3, <1>4, SameAll, HeavyKept

LEMMA goAwayStreams == ASSUME ServerInv, StreamInv, goAway PROVE StreamInv'
<1>1. /\ todo # <<>> /\ Head(todo)[1] = "goAway" /\ arg = Head(todo)[2] /\ UNCHANGED <<phase, str, out, h, chans>>
      /\ \/ sc.inGoAway /\ sc' = [sc EXCEPT !.code = IF @ = "no" THEN arg ELSE @] /\ Then(<<>>)
         \/ sc' = [sc EXCEPT !.inGoAway = TRUE, !.needGoAway = TRUE, !.code = arg] /\ Then(<<Sched>>)
  BY DEF goAway, At, arg
<1>2. Head(todo)[1] \notin Light /\ KeepsOut /\ SameLive(str') /\ SameWin(str') /\ SamePc(h')
  BY <1>1, SameAll, SamePcs, SameKeepsOut DEF Light, Updating
<1>3. (\A i \in 1 .. Len(want') : Tame(want'[i])) /\ Cardinality(Dones(msgs')) = Cardinality(Dones(msgs))
  BY <1>1 DEF StreamInv, LoopInv, Placed, chans
<1>4. CASE sc.inGoAway /\ sc' = [sc EXCEPT !.code = IF @ = "no" THEN arg ELSE @] /\ Then(<<>>)
  <2> DEFINE c == IF sc.code = "no" THEN arg ELSE sc.code
  <2>1. sc' = [sc EXCEPT !.code = c] /\ sc \in Conns
    BY <1>4, Facts DEF ConnKept
  <2>2. sc'.inGoAway = sc.inGoAway /\ sc'.code = c /\ sc'.cwin = sc.cwin
    <3> HIDE DEF c
    <3> QED BY <2>1 DEF Conns
  <2>3. Sends(sc')
    BY <1>4, <2>2 DEF Sends, MayPop
  <2>4. Slots(sc')
    <3> HIDE DEF c
    <3> QED BY <2>1, SlotsKept
  <2>5. Plain(<<>>) /\ Grow(<<>>) /\ IsSeq(<<>>)
    BY <1>1, <1>4, PlainEmpty, ThenGrows DEF Plain
  <2>6. Settled'
    <3>1. CASE arg = "no"
      <4>1. ~BusyCall(Head(todo))
        BY <1>1, <3>1 DEF BusyCall, Busily
      <4> QED BY <1>1, <1>2, <2>3, <2>5, <4>1, CalmKept, SettledKept DEF StreamInv, LoopInv
    <3>2. CASE arg # "no"
      BY <1>4, <2>2, <3>2 DEF Settled, Calm, MayPop
    <3> QED BY <3>1, <3>2
  <2> QED BY <1>2, <1>3, <2>4, <2>5, <2>6, StepKept
<1>5. CASE sc' = [sc EXCEPT !.inGoAway = TRUE, !.needGoAway = TRUE, !.code = arg] /\ Then(<<Sched>>)
  <2>1. Slots(sc')
    BY <1>5, SlotsKept
  <2>2. Plain(<<Sched>>) /\ Grow(<<Sched>>) /\ IsSeq(<<Sched>>)
    <3>1. Plain(<<Sched>>)
      BY PlainOne DEF Sched
    <3> QED BY <1>1, <1>5, <3>1, ThenGrows DEF Plain
  <2>3. Settled'
    BY <2>2, SchedPend, SettledByPend
  <2> QED BY <1>2, <1>3, <2>1, <2>2, <2>3, StepKept
<1> QED BY <1>1, <1>4, <1>5

LEMMA endOfIterationStreams == ASSUME ServerInv, StreamInv, endOfIteration PROVE StreamInv'
<1> DEFINE c == sc.timer \/ (sc.inGoAway /\ ~sc.needGoAway /\ out.cur = None /\ ShutDown)
<1>1. todo # <<>> /\ Head(todo)[1] \notin LightOrAway /\ UNCHANGED <<str, out, h, chans>>
  BY DEF endOfIteration, At, LightOrAway, Light, Updating
<1>2. CASE (\E o \in Orders : Return(o)) /\ UNCHANGED sc
  <2>1. Moves
    BY <1>1, <1>2, ReturnMoves
  <2> QED BY <1>1, <1>2, <2>1, SameAll, SameKeepsOut, HeavyKept
<1>3. CASE sc' = [sc EXCEPT !.timer = c] /\ Then(<<>>) /\ UNCHANGED phase
  <2> HIDE DEF c
  <2>1. Slots(sc') /\ Sends(sc')
    BY <1>3, SlotsKept, SendsKept
  <2>2. Moves
    BY <1>1, <1>3, <2>1, PlainMoves, PlainEmpty, SameAll
  <2> QED BY <1>1, <2>1, <2>2, SameAll, SameKeepsOut, HeavyKept
<1> QED BY <1>2, <1>3 DEF endOfIteration

LEMMA noteBodyReadStreams == ASSUME ServerInv, StreamInv, noteBodyRead PROVE StreamInv'
<1>1. /\ todo # <<>> /\ Head(todo)[1] \notin LightOrAway /\ UNCHANGED <<phase, sc, str, out, h, chans>>
      /\ Then(<<>>) \/ Then(<<<<"window", arg, Head(todo)[3]>>>>)
  BY DEF noteBodyRead, At, LightOrAway, Light, Updating
<1>2. Plain(<<<<"window", arg, Head(todo)[3]>>>>) /\ Plain(<<>>)
  BY PlainOne, PlainEmpty
<1>3. Moves
  BY <1>1, <1>2, PlainMoves, SameAll
<1> QED BY <1>1, <1>3, SameAll, SameKeepsOut, HeavyKept

-----------------------------------------------------------------------------
(* Frames of the client.                                                   *)
LEMMA FrameHead ==
    ASSUME At("frame")
    PROVE  todo # <<>> /\ Head(todo)[1] = "frame" /\ Head(todo)[1] \notin LightOrAway
BY DEF At, LightOrAway, Light, Updating

LEMMA ConnErrorMoves ==
    ASSUME ServerInv, todo # <<>>, NEW c, ConnError(c), UNCHANGED phase, SameWin(str')
    PROVE  Slots(sc') /\ Moves
<1> DEFINE m == IF arg.s > sc.maxClient THEN arg.s ELSE sc.maxClient
<1>1. sc' = [sc EXCEPT !.maxClient = m] /\ Then(<<<<"goAway", c>>>>)
  BY DEF ConnError, ConnErrorOn
<1> HIDE DEF m
<1>2. Plain(<<<<"goAway", c>>>>)
  BY PlainOne
<1>3. Slots(sc') /\ Sends(sc')
  BY <1>1, SlotsKept, SendsKept
<1> QED BY <1>1, <1>2, <1>3, PlainMoves

LEMMA AnswerMoves ==
    ASSUME ServerInv, todo # <<>>, StrError \/ Quiet, UNCHANGED phase, SameWin(str')
    PROVE  Slots(sc') /\ Moves
<1>1. sc' = sc /\ (Then(<<<<"reset", arg.s>>>>) \/ Then(<<>>))
  BY DEF StrError, Quiet
<1>2. Plain(<<<<"reset", arg.s>>>>)
  BY PlainOne
<1> QED BY <1>1, <1>2, SameAll, PlainEmpty, PlainMoves

LEMMA GiveBackMoves ==
    ASSUME ServerInv, todo # <<>>, NEW f, NEW rest, Plain(rest), GiveBack(f, rest), UNCHANGED phase, SameWin(str')
    PROVE  Slots(sc') /\ Moves
<1> DEFINE a == sc.avail - f.n - f.pad
           n == f.n + f.pad
<1>1. StrError \/ (sc' = [sc EXCEPT !.avail = a] /\ Then(<<<<"window", 0, n>>>> \o rest))
  BY DEF GiveBack
<1> HIDE DEF a, n
<1>2. CASE sc' = [sc EXCEPT !.avail = a] /\ Then(<<<<"window", 0, n>>>> \o rest)
  <2>1. Plain(<<<<"window", 0, n>>>> \o rest)
    BY PlainOne, PlainConcat
  <2>2. Slots(sc') /\ Sends(sc')
    BY <1>2, SlotsKept, SendsKept
  <2> QED BY <1>2, <2>1, <2>2, PlainMoves
<1> QED BY <1>1, <1>2, AnswerMoves

LEMMA processOtherStreams == ASSUME ServerInv, StreamInv, processOther PROVE StreamInv'
<1> DEFINE f == arg
           a == sc.avail - f.n - f.pad
           n == f.n + f.pad
<1>1. At("frame") /\ UNCHANGED <<phase, str, out, h, chans>>
  BY DEF processOther
<1>2. \/ sc' = sc /\ Then(<<<<"goAway", "size">>>>)
      \/ StrError \/ Quiet
      \/ ConnError("protocol")
      \/ sc' = [sc EXCEPT !.avail = a] /\ Then(<<<<"window", 0, n>>>>)
  BY Zenon DEF processOther
<1> HIDE DEF a, n
<1>3. Slots(sc') /\ Moves
  <2>1. CASE sc' = sc /\ Then(<<<<"goAway", "size">>>>)
    <3>1. Plain(<<<<"goAway", "size">>>>)
      BY PlainOne
    <3> QED BY <1>1, <2>1, <3>1, FrameHead, SameAll, PlainMoves
  <2>2. CASE sc' = [sc EXCEPT !.avail = a] /\ Then(<<<<"window", 0, n>>>>)
    <3>1. Slots(sc') /\ Sends(sc')
      BY <2>2, SlotsKept, SendsKept
    <3>2. Plain(<<<<"window", 0, n>>>>)
      BY PlainOne
    <3> QED BY <1>1, <2>2, <3>1, <3>2, FrameHead, SameAll, PlainMoves
  <2> QED BY <1>1, <1>2, <2>1, <2>2, FrameHead, SameAll, ConnErrorMoves, AnswerMoves
<1> QED BY <1>1, <1>3, FrameHead, SameAll, SameKeepsOut, HeavyKept

LEMMA processSettingsStreams == ASSUME ServerInv, StreamInv, processSettings PROVE StreamInv'
<1> DEFINE f == arg
           growth == f.n - sc.swin
           p == sc.push /\ f.v # "noPush"
           u == sc.unacked - 1
<1>1. At("frame") /\ UNCHANGED <<phase, out, h, chans>>
  BY DEF processSettings, Processing
<1> DEFINE grown(S) == [s \in Ids |-> IF s \in S THEN [str[s] EXCEPT !.win = @ + growth] ELSE str[s]]
<1>2. \/ UNCHANGED str /\ ConnError("protocol")
      \/ (\E S : str' = grown(S)) /\ ConnErrorOn([sc EXCEPT !.swin = f.n], "flow")
      \/ UNCHANGED str /\ sc' = [sc EXCEPT !.unacked = u] /\ Then(<<>>)
      \/ /\ \E S : str' = grown(S)
         /\ sc' = [sc EXCEPT !.swin = f.n, !.needAck = TRUE] /\ Then(<<Sched>>)
      \/ UNCHANGED str /\ sc' = [sc EXCEPT !.push = p, !.needAck = TRUE] /\ Then(<<Sched>>)
  BY Zenon DEF processSettings
<1> HIDE DEF p, u
<1>3. CASE UNCHANGED str /\ ConnError("protocol")
  <2>1. Slots(sc') /\ Moves
    BY <1>1, <1>3, FrameHead, SameAll, ConnErrorMoves
  <2> QED BY <1>1, <1>3, <2>1, FrameHead, SameAll, SameKeepsOut, HeavyKept
<1>4. CASE UNCHANGED str /\ sc' = [sc EXCEPT !.unacked = u] /\ Then(<<>>)
  <2>1. Slots(sc') /\ Sends(sc')
    BY <1>4, SlotsKept, SendsKept
  <2>2. Moves
    BY <1>1, <1>4, <2>1, FrameHead, SameAll, PlainEmpty, PlainMoves
  <2> QED BY <1>1, <1>4, <2>1, <2>2, FrameHead, SameAll, SameKeepsOut, HeavyKept
<1>7. ASSUME NEW S, str' = grown(S) PROVE SameLive(str')
  <2>1. \A s \in Ids : str[s] \in StreamRecs /\ str'[s] = IF s \in S THEN [str[s] EXCEPT !.win = @ + growth] ELSE str[s]
    BY <1>7, Facts
  <2>2. \A s \in Ids : str'[s].st = str[s].st
    BY <2>1 DEF StreamRecs
  <2> QED BY <2>2 DEF SameLive, live
<1>5. CASE /\ \E S : str' = grown(S)
           /\ sc' = [sc EXCEPT !.swin = f.n, !.needAck = TRUE] /\ Then(<<Sched>>)
  <2>1. Slots(sc')
    BY <1>5, SlotsKept
  <2>2. SameLive(str')
    BY <1>5, <1>7
  <2>3. Moves
    BY <1>1, <1>5, FrameHead, SchedMoves
  <2> QED BY <1>1, <2>1, <2>2, <2>3, FrameHead, SameKeepsOut, HeavyKept
<1>8. CASE (\E S : str' = grown(S)) /\ ConnErrorOn([sc EXCEPT !.swin = f.n], "flow")
  <2> DEFINE m == IF arg.s > sc.maxClient THEN arg.s ELSE sc.maxClient
  <2>1. sc' = [sc EXCEPT !.swin = f.n, !.maxClient = m] /\ Then(<<<<"goAway", "flow">>>>)
    BY <1>8, OverflowConn
  <2> HIDE DEF m
  <2>2. Plain(<<<<"goAway", "flow">>>>)
    BY PlainOne
  <2>3. Slots(sc') /\ Sends(sc')
    BY <2>1, SlotsKept, SendsKept
  <2>4. SameLive(str')
    BY <1>7, <1>8
  <2>5. Moves
    BY <1>1, <2>1, <2>2, FrameHead, FatalPend, ThenGrows DEF Moves
  <2> QED BY <1>1, <2>3, <2>4, <2>5, FrameHead, SameKeepsOut, HeavyKept
<1>6. CASE UNCHANGED str /\ sc' = [sc EXCEPT !.push = p, !.needAck = TRUE] /\ Then(<<Sched>>)
  <2>1. Slots(sc')
    BY <1>6, SlotsKept
  <2>2. Moves
    BY <1>1, <1>6, FrameHead, SchedMoves
  <2> QED BY <1>1, <1>6, <2>1, <2>2, FrameHead, SameAll, SameKeepsOut, HeavyKept
<1> QED BY <1>2, <1>3, <1>4, <1>5, <1>6, <1>8

LEMMA OneMore ==
    ASSUME NEW a, IsSeq(a), NEW c
    PROVE  /\ IsSeq(a \o <<c>>) /\ Len(a) \in Nat /\ Len(a \o <<c>>) = Len(a) + 1
           /\ \A i \in 1 .. Len(a) : (a \o <<c>>)[i] = a[i]
           /\ (a \o <<c>>)[Len(a) + 1] = c
<1>1. PICK S : a \in Seq(S)
  BY DEF IsSeq
<1>2. a \in Seq(S \cup {c}) /\ <<c>> \in Seq(S \cup {c}) /\ Len(<<c>>) = 1 /\ <<c>>[1] = c
  BY <1>1
<1>3. a \o <<c>> \in Seq(S \cup {c}) /\ Len(a \o <<c>>) = Len(a) + 1 /\ Len(a) \in Nat
  BY <1>2
<1>4. \A i \in 1 .. Len(a) : (a \o <<c>>)[i] = a[i]
  BY <1>2, <1>3
<1>5. (a \o <<c>>)[Len(a) + 1] = c
  BY <1>2, <1>3
<1> QED BY <1>3, <1>4, <1>5 DEF IsSeq

(* The end of a request, after the WINDOW_UPDATEs for its last bytes: the  *)
(* stream is live, and either a frame is being written already, so that no *)
(* other one is, or the scheduler has none whose writing closes a stream.  *)
LEMMA EndStep ==
    ASSUME ServerInv, StreamInv, At("frame"), NEW s \in liveIds, NEW first, Plain(first),
           \A i \in 1 .. Len(first) : first[i][1] = "window",
           Then(first \o <<<<"endStream", s>>>>), Slots(sc'), Sends(sc'), SameLive(str'), SameWin(str'),
           UNCHANGED <<phase, out, h, chans>>
    PROVE  StreamInv'
<1> DEFINE k == Len(first)
<1>3. PICK items : items = first \o <<<<"endStream", s>>>>
  OBVIOUS
<1>4. /\ IsSeq(items) /\ k \in Nat /\ Len(items) = k + 1
      /\ \A i \in 1 .. k : items[i] = first[i]
      /\ items[k + 1] = <<"endStream", s>>
  <2>1. IsSeq(first)
    BY DEF Plain
  <2> DEFINE c == <<"endStream", s>>
  <2>2. items = first \o <<c>>
    BY <1>3
  <2> HIDE DEF c
  <2>3. /\ IsSeq(first \o <<c>>) /\ Len(first) \in Nat /\ Len(first \o <<c>>) = Len(first) + 1
        /\ \A i \in 1 .. Len(first) : (first \o <<c>>)[i] = first[i]
        /\ (first \o <<c>>)[Len(first) + 1] = c
    BY <2>1, OneMore
  <2>4. IsSeq(items) /\ k \in Nat /\ Len(items) = k + 1 /\ items[k + 1] = c
    BY <2>2, <2>3, Zenon
  <2>5. \A i \in 1 .. k : items[i] = first[i]
    BY <2>2, <2>3, Zenon
  <2> QED BY <2>4, <2>5 DEF c
<1>5. todo # <<>> /\ Head(todo)[1] = "frame" /\ Grow(items)
  BY <1>3, FrameHead, ThenGrows
<1>6. \A i \in 1 .. Len(items) : i \in 1 .. k \/ i = k + 1
  BY <1>4
<1>7. \A i \in 1 .. Len(items) : items[i][1] # "frame" /\ items[i][1] # "write"
  BY <1>4, <1>6
<1>8. phase = "serving" /\ \A i \in 2 .. Len(todo) : todo[i][1] = "check"
  <2>1. 1 \in 1 .. Len(todo) /\ todo[1][1] = "frame" /\ Len(todo) \in Nat
    BY <1>5, TailSeq
  <2> QED BY <2>1 DEF StreamInv, LoopInv, FrameLast
<1>9. KeepsOut /\ NoneLost /\ SamePc(h') /\ (Calm => Calm')
  BY SameKeepsOut, SamePcs, CalmKept
<1>10. Calm \/ out.async
  <2>1. \A i \in 1 .. Len(todo) : todo[i][1] \in {"frame", "check"}
    <3>1. \A i \in 1 .. Len(todo) : i = 1 \/ i \in 2 .. Len(todo)
      BY <1>5, TailSeq
    <3>2. todo[1][1] = "frame"
      BY <1>5, TailSeq
    <3> QED BY <1>8, <3>1, <3>2
  <2>2. ~Pend(todo)
    BY <2>1 DEF Pend, BusyCall, Busily
  <2> QED BY <1>8, <2>2 DEF StreamInv, LoopInv, Settled
<1>11. FrameLast' /\ Settled' /\ Current'
  BY <1>4, <1>5, <1>7, <1>9, FrameLastKept, SettledKept, CurrentKept DEF StreamInv, LoopInv, Busily
<1>12. Placed'
  <2>1. TameCalls(items)
    BY <1>7 DEF TameCalls
  <2>2. \A i \in 1 .. Len(want') : Tame(want'[i])
    BY DEF chans, StreamInv, LoopInv, Placed
  <2> QED BY <1>4, <1>5, <1>9, <2>1, <2>2, PlacedKept DEF StreamInv, LoopInv
<1>13. EndsLive'
  <2> SUFFICES ASSUME NEW i \in 1 .. Len(todo'), todo'[i][1] = "endStream"
               PROVE  /\ todo'[i][2] \in liveIds'
                      /\ \A j \in 1 .. i - 1 : MildCall(todo'[j])
                      /\ Calm' \/ (out'.async /\ \A j \in 1 .. i - 1 : todo'[j][1] \in Updating)
    BY DEF EndsLive
  <2>1. i \in 1 .. Len(items) /\ todo'[i] = items[i]
    <3>1. CASE i - Len(items) + 1 \in 1 .. Len(todo) /\ i > Len(items) /\ todo'[i] = todo[i - Len(items) + 1]
      <4>1. i - Len(items) + 1 \in 2 .. Len(todo)
        BY <1>4, <3>1
      <4> QED BY <1>8, <3>1, <4>1
    <3> QED BY <1>4, <1>5, <3>1, GrowMembers
  <2>2. i = k + 1
    BY <1>4, <1>6, <2>1
  <2>3. \A j \in 1 .. i - 1 : j \in 1 .. Len(todo') /\ j \in 1 .. k
    <3>1. Len(todo') \in Nat
      BY <1>4, <1>5, TailSeq, ConcatSeq DEF Grow
    <3> QED BY <1>4, <2>2, <3>1
  <2>4. \A j \in 1 .. i - 1 : todo'[j] = first[j]
    <3> SUFFICES ASSUME NEW j \in 1 .. i - 1 PROVE todo'[j] = first[j]
      OBVIOUS
    <3>1. j \in 1 .. Len(todo') /\ j \in 1 .. k /\ ~(j > Len(items))
      BY <1>4, <2>3
    <3>2. todo'[j] = items[j]
      BY <1>4, <1>5, <3>1, GrowMembers
    <3> QED BY <1>4, <3>1, <3>2
  <2>5. \A j \in 1 .. i - 1 : todo'[j][1] = "window"
    BY <2>3, <2>4
  <2>6. todo'[i][2] = s /\ s \in liveIds'
    BY <1>4, <2>1, <2>2 DEF liveIds, SameLive, live
  <2> QED BY <1>9, <1>10, <2>5, <2>6 DEF MildCall, Updating
<1>14. CountInv'
  BY <1>5, <1>9, CountsKept DEF StreamInv, Grow, chans
<1> QED BY <1>11, <1>12, <1>13, <1>14 DEF StreamInv, LoopInv

LEMMA EmptyFirst == ASSUME NEW c PROVE <<>> \o <<c>> = <<c>>
OBVIOUS

LEMMA processTrailerHeadersStreams == ASSUME ServerInv, StreamInv, processTrailerHeaders PROVE StreamInv'
<1>1. At("frame") /\ UNCHANGED <<phase, out, h, chans>> /\ arg.s \in liveIds
  BY DEF processTrailerHeaders, Processing
<1>2. /\ str' = [str EXCEPT ![arg.s].gotTrailer = TRUE] \/ str' = str
      /\ \/ StrError \/ Quiet \/ ConnError("protocol")
         \/ sc' = sc /\ Then(<<<<"endStream", arg.s>>>>)
  BY Zenon DEF processTrailerHeaders
<1>3. SameLive(str') /\ SameWin(str')
  <2>1. CASE str' = [str EXCEPT ![arg.s].gotTrailer = TRUE]
    BY <2>1, LiveKept, WinKept
  <2> QED BY <1>2, <2>1, SameAll
<1>4. CASE sc' = sc /\ Then(<<<<"endStream", arg.s>>>>)
  <2> DEFINE e == <<"endStream", arg.s>>
  <2>1. PICK first : first = <<>>
    OBVIOUS
  <2>2. Plain(first) /\ \A i \in 1 .. Len(first) : first[i][1] = "window"
    <3>1. Len(first) = 0
      BY <2>1
    <3> QED BY <2>1, <3>1, PlainEmpty
  <2>3. Then(<<e>>) /\ first \o <<e>> = <<e>>
    BY <1>4, <2>1, EmptyFirst
  <2>4. Then(first \o <<e>>)
    <3> HIDE DEF e
    <3> QED BY <2>3
  <2>5. Slots(sc') /\ Sends(sc')
    BY <1>4, SameAll
  <2> QED BY <1>1, <1>3, <2>2, <2>4, <2>5, EndStep
<1>5. CASE StrError \/ Quiet \/ ConnError("protocol")
  <2>1. Slots(sc') /\ Moves
    BY <1>1, <1>3, <1>5, FrameHead, ConnErrorMoves, AnswerMoves
  <2> QED BY <1>1, <1>3, <2>1, FrameHead, SameKeepsOut, HeavyKept
<1> QED BY <1>2, <1>4, <1>5

LEMMA processDataUnwantedStreams == ASSUME ServerInv, StreamInv, processDataUnwanted PROVE StreamInv'
<1>1. /\ At("frame") /\ UNCHANGED <<phase, str, out, h, chans>>
      /\ ConnError("protocol") \/ GiveBack(arg, <<>>) \/ GiveBack(arg, <<<<"reset", arg.s>>>>)
  BY DEF processDataUnwanted, Processing
<1>2. Plain(<<<<"reset", arg.s>>>>) /\ Plain(<<>>)
  BY PlainEmpty, PlainOne
<1>3. Slots(sc') /\ Moves
  BY <1>1, <1>2, FrameHead, SameAll, ConnErrorMoves, GiveBackMoves
<1> QED BY <1>1, <1>3, FrameHead, SameAll, SameKeepsOut, HeavyKept

LEMMA processDataStreams == ASSUME ServerInv, StreamInv, processData PROVE StreamInv'
<1> DEFINE f == arg
           s == f.s
           L == f.n + f.pad
           dead == str[s].err \/ str[s].broken
           av == sc.avail - L
           a == str[s].avail - L
           g == str[s].got + f.n
           l == IF dead THEN str[s].len ELSE str[s].len + f.n
           first == IF L > 0 THEN <<<<"window", 0, f.pad>>, <<"window", s, f.pad>>>> ELSE <<>>
           last == IF f.end THEN <<<<"endStream", s>>>> ELSE <<>>
<1>1. At("frame") /\ UNCHANGED <<out, h, chans>> /\ s \in liveIds /\ s \in Ids
  BY DEF processData, Processing, Unwanted, liveIds
<1>2. \/ Panic /\ UNCHANGED <<sc, str>>
      \/ /\ GiveBack(f, <<<<"reset", s>>>>) /\ (str' = str \/ str' = [str EXCEPT ![s].err = TRUE])
         /\ UNCHANGED phase
      \/ StrError /\ UNCHANGED <<str, phase>>
      \/ /\ sc' = [sc EXCEPT !.avail = av]
         /\ str' = [str EXCEPT ![s].avail = @ - L, ![s].got = @ + f.n, ![s].len = IF dead THEN @ ELSE @ + f.n]
         /\ Then(IF dead /\ f.n > 0 THEN <<<<"window", 0, L>>>> ELSE first \o last)
         /\ UNCHANGED phase
  BY Zenon DEF processData
<1>3. CASE Panic /\ UNCHANGED <<sc, str>>
  BY <1>1, <1>3, PanicMoves, FrameHead, SameAll, SameKeepsOut, HeavyKept
<1>4. CASE /\ GiveBack(f, <<<<"reset", s>>>>) /\ (str' = str \/ str' = [str EXCEPT ![s].err = TRUE])
           /\ UNCHANGED phase
  <2>1. SameLive(str') /\ SameWin(str')
    <3>1. CASE str' = [str EXCEPT ![s].err = TRUE]
      BY <3>1, LiveKept, WinKept
    <3> QED BY <1>4, <3>1, SameAll
  <2>2. Plain(<<<<"reset", s>>>>)
    BY PlainOne
  <2>3. Slots(sc') /\ Moves
    BY <1>1, <1>4, <2>1, <2>2, FrameHead, GiveBackMoves
  <2> QED BY <1>1, <2>1, <2>3, FrameHead, SameKeepsOut, HeavyKept
<1>5. CASE StrError /\ UNCHANGED <<str, phase>>
  <2>1. Slots(sc') /\ Moves
    BY <1>1, <1>5, FrameHead, SameAll, AnswerMoves
  <2> QED BY <1>1, <1>5, <2>1, FrameHead, SameAll, SameKeepsOut, HeavyKept
<1>6. CASE /\ sc' = [sc EXCEPT !.avail = av]
           /\ str' = [str EXCEPT ![s].avail = @ - L, ![s].got = @ + f.n, ![s].len = IF dead THEN @ ELSE @ + f.n]
           /\ Then(IF dead /\ f.n > 0 THEN <<<<"window", 0, L>>>> ELSE first \o last)
           /\ UNCHANGED phase
  <2>1. Slots(sc') /\ Sends(sc')
    <3> HIDE DEF av
    <3> QED BY <1>6, SlotsKept, SendsKept
  <2>2. SameLive(str') /\ SameWin(str')
    <3>1. str \in [Ids -> StreamRecs] /\ SameLive(str)
      BY Facts, SameAll
    <3>2. \A u \in Ids : str'[u].st = str[u].st /\ str'[u].win = str[u].win
      BY <1>6, <3>1 DEF StreamRecs
    <3> QED BY <3>1, <3>2 DEF SameLive, SameWin
  <2>3. Plain(first) /\ \A i \in 1 .. Len(first) : first[i][1] = "window"
    <3>1. CASE L > 0
      <4>1. PICK q : q = <<<<"window", 0, f.pad>>, <<"window", s, f.pad>>>>
        OBVIOUS
      <4>2. Len(q) = 2 /\ q[1][1] = "window" /\ q[2][1] = "window"
        BY <4>1
      <4>3. Plain(q)
        BY <4>1, PlainTwo
      <4>4. first = q
        BY <3>1, <4>1
      <4>5. \A i \in 1 .. Len(q) : q[i][1] = "window"
        BY <4>2
      <4> HIDE DEF first
      <4> QED BY <4>3, <4>4, <4>5
    <3>2. CASE ~(L > 0)
      <4>1. first = <<>>
        BY <3>2
      <4> HIDE DEF first
      <4>2. Len(first) = 0
        BY <4>1
      <4> QED BY <4>1, <4>2, PlainEmpty
    <3> QED BY <3>1, <3>2
  <2>4. CASE Then(<<<<"window", 0, L>>>>)
    <3>1. Plain(<<<<"window", 0, L>>>>)
      BY PlainOne
    <3>2. Moves
      BY <1>1, <1>6, <2>1, <2>2, <2>4, <3>1, FrameHead, PlainMoves
    <3> QED BY <1>1, <2>1, <2>2, <3>2, FrameHead, SameKeepsOut, HeavyKept
  <2>5. CASE Then(first \o last) /\ ~f.end
    <3>1. last = <<>>
      BY <2>5
    <3>2. Plain(first \o last)
      <4> HIDE DEF first, last
      <4> QED BY <2>3, <3>1, PlainEmpty, PlainConcat
    <3> HIDE DEF first, last
    <3>3. Moves
      BY <1>1, <1>6, <2>1, <2>2, <2>5, <3>2, FrameHead, PlainMoves
    <3> QED BY <1>1, <2>1, <2>2, <3>3, FrameHead, SameKeepsOut, HeavyKept
  <2>6. CASE Then(first \o last) /\ f.end
    <3>1. last = <<<<"endStream", s>>>>
      BY <2>6
    <3>2. Then(first \o <<<<"endStream", s>>>>)
      <4> HIDE DEF first
      <4> QED BY <2>6, <3>1
    <3> HIDE DEF first, last
    <3> QED BY <1>1, <1>6, <2>1, <2>2, <2>3, <3>2, EndStep
  <2> HIDE DEF first, last, dead
  <2> QED BY <1>6, <2>4, <2>5, <2>6
<1> HIDE DEF av, dead, first, last
<1> QED BY <1>2, <1>3, <1>4, <1>5, <1>6

LEMMA endStreamStreams == ASSUME ServerInv, StreamInv, endStream PROVE StreamInv'
<1>1. /\ todo # <<>> /\ Head(todo)[1] = "endStream" /\ UNCHANGED <<phase, sc, out, h, chans>> /\ Then(<<>>)
      /\ str' = [str EXCEPT ![arg].st = "halfRemote", ![arg].err = TRUE]
  BY DEF endStream, At
<1>2. arg \in liveIds
  BY <1>1, TailSeq DEF StreamInv, LoopInv, EndsLive, arg
<1>3. SameLive(str') /\ SameWin(str')
  <2>1. str \in [Ids -> StreamRecs] /\ SameLive(str)
    BY Facts, SameAll
  <2>2. \A s \in Ids : /\ s # arg => str'[s] = str[s]
                       /\ s = arg => str'[s].st = "halfRemote" /\ str'[s].win = str[s].win
    BY <1>1, <2>1 DEF StreamRecs
  <2> QED BY <1>2, <2>1, <2>2 DEF SameLive, SameWin, liveIds
<1>4. Moves
  BY <1>1, <1>3, SameAll, PlainEmpty, PlainMoves
<1>5. Head(todo)[1] \notin LightOrAway
  BY <1>1 DEF LightOrAway, Light, Updating
<1> QED BY <1>1, <1>3, <1>4, <1>5, SameAll, SameKeepsOut, HeavyKept

LEMMA processWindowUpdateStreams == ASSUME ServerInv, StreamInv, processWindowUpdate PROVE StreamInv'
<1> DEFINE f == arg
           c == sc.cwin + f.n
           w == str[f.s].win + f.n
<1>1. At("frame") /\ UNCHANGED <<phase, out, h, chans>>
  BY DEF processWindowUpdate, Processing
<1>2. \/ UNCHANGED str /\ sc' = sc /\ Then(<<<<"goAway", "flow">>>>)
      \/ UNCHANGED str /\ sc' = [sc EXCEPT !.cwin = c] /\ Then(<<Sched>>)
      \/ UNCHANGED str /\ (ConnError("protocol") \/ Quiet \/ StrError)
      \/ str' = [str EXCEPT ![f.s].win = w] /\ sc' = sc /\ Then(<<Sched>>)
  BY Zenon DEF processWindowUpdate
<1> HIDE DEF c
<1>3. CASE UNCHANGED str /\ sc' = sc /\ Then(<<<<"goAway", "flow">>>>)
  <2>1. Plain(<<<<"goAway", "flow">>>>)
    BY PlainOne
  <2>2. Moves
    BY <1>1, <1>3, <2>1, FrameHead, SameAll, PlainMoves
  <2> QED BY <1>1, <1>3, <2>2, FrameHead, SameAll, SameKeepsOut, HeavyKept
<1>4. CASE UNCHANGED str /\ sc' = [sc EXCEPT !.cwin = c] /\ Then(<<Sched>>)
  <2>1. Slots(sc')
    BY <1>4, SlotsKept
  <2>2. Moves
    BY <1>1, <1>4, FrameHead, SchedMoves
  <2> QED BY <1>1, <1>4, <2>1, <2>2, FrameHead, SameAll, SameKeepsOut, HeavyKept
<1>5. CASE UNCHANGED str /\ (ConnError("protocol") \/ Quiet \/ StrError)
  <2>1. Slots(sc') /\ Moves
    BY <1>1, <1>5, FrameHead, SameAll, ConnErrorMoves, AnswerMoves
  <2> QED BY <1>1, <1>5, <2>1, FrameHead, SameAll, SameKeepsOut, HeavyKept
<1>6. CASE str' = [str EXCEPT ![f.s].win = w] /\ sc' = sc /\ Then(<<Sched>>)
  <2>1. SameLive(str')
    <3> HIDE DEF w
    <3> QED BY <1>6, LiveKept
  <2>2. Moves
    BY <1>1, <1>6, FrameHead, SchedMoves
  <2> QED BY <1>1, <1>6, <2>1, <2>2, FrameHead, SameAll, SameKeepsOut, HeavyKept
<1> QED BY <1>2, <1>3, <1>4, <1>5, <1>6

LEMMA processResetStreamStreams == ASSUME ServerInv, StreamInv, processResetStream PROVE StreamInv'
<1>1. /\ At("frame") /\ UNCHANGED <<phase, str, out, h, chans>>
      /\ \/ ConnError("protocol")
         \/ sc' = sc /\ (Then(<<<<"close", arg.s>>>>) \/ Then(<<>>))
  BY DEF processResetStream, Processing
<1>2. Plain(<<<<"close", arg.s>>>>) /\ Plain(<<>>)
  BY PlainOne, PlainEmpty
<1>3. Slots(sc') /\ Moves
  BY <1>1, <1>2, FrameHead, SameAll, ConnErrorMoves, PlainMoves
<1> QED BY <1>1, <1>3, FrameHead, SameAll, SameKeepsOut, HeavyKept

LEMMA processRestStreams == ASSUME ServerInv, StreamInv, processRest PROVE StreamInv'
<1>1. At("frame") /\ UNCHANGED <<phase, str, out, h, chans>>
  BY DEF processRest, Processing
<1>2. \/ sc' = [sc EXCEPT !.ping = FALSE] /\ Then(<<>>)
      \/ sc' = sc /\ Then(<<<<"write", Ctl("ping", 0)>>>>)
      \/ sc' = [sc EXCEPT !.push = FALSE] /\ Then(<<<<"goAway", "no">>>>)
      \/ StrError \/ Quiet \/ ConnError("protocol")
  BY Zenon DEF processRest
<1>3. Plain(<<>>) /\ Plain(<<<<"write", Ctl("ping", 0)>>>>) /\ Plain(<<<<"goAway", "no">>>>)
  BY PlainEmpty, PlainOne, CtlTame
<1>4. Slots(sc') /\ Moves
  <2>1. CASE sc' = [sc EXCEPT !.ping = FALSE] /\ Then(<<>>)
    <3>1. Slots(sc') /\ Sends(sc')
      BY <2>1, SlotsKept, SendsKept
    <3> QED BY <1>1, <1>3, <2>1, <3>1, FrameHead, SameAll, PlainMoves
  <2>2. CASE sc' = sc /\ Then(<<<<"write", Ctl("ping", 0)>>>>)
    BY <1>1, <1>3, <2>2, FrameHead, SameAll, PlainMoves
  <2>3. CASE sc' = [sc EXCEPT !.push = FALSE] /\ Then(<<<<"goAway", "no">>>>)
    <3>1. Slots(sc') /\ Sends(sc')
      BY <2>3, SlotsKept, SendsKept
    <3> QED BY <1>1, <1>3, <2>3, <3>1, FrameHead, SameAll, PlainMoves
  <2> QED BY <1>1, <1>2, <2>1, <2>2, <2>3, FrameHead, SameAll, ConnErrorMoves, AnswerMoves
<1> QED BY <1>1, <1>4, FrameHead, SameAll, SameKeepsOut, HeavyKept

-----------------------------------------------------------------------------
(* Streams that come and go are counted by the side that opened them.      *)
Mine(L) == {u \in L : Odd(u)}
Theirs(L) == {u \in L : ~Odd(u)}

LEMMA CountFinite ==
    ASSUME NEW L \in SUBSET Ids
    PROVE  /\ IsFiniteSet(L) /\ IsFiniteSet(Mine(L)) /\ IsFiniteSet(Theirs(L))
           /\ Cardinality(L) \in Nat /\ Cardinality(Mine(L)) \in Nat /\ Cardinality(Theirs(L)) \in Nat
           /\ Cardinality(Mine(L)) <= Cardinality(L)
<1>1. IsFiniteSet(L)
  BY IdsAssumption, FS_Subset
<1>2. Mine(L) \subseteq L /\ Theirs(L) \subseteq L
  BY DEF Mine, Theirs
<1>3. /\ IsFiniteSet(Mine(L)) /\ IsFiniteSet(Theirs(L)) /\ Cardinality(Mine(L)) <= Cardinality(L)
  BY <1>1, <1>2, FS_Subset
<1> QED BY <1>1, <1>3, FS_CardinalityType

LEMMA CountMore ==
    ASSUME NEW L \in SUBSET Ids, NEW s \in Ids, s \notin L
    PROVE  /\ Cardinality(L \cup {s}) = Cardinality(L) + 1
           /\ Cardinality(Mine(L \cup {s})) = Cardinality(Mine(L)) + (IF Odd(s) THEN 1 ELSE 0)
           /\ Cardinality(Theirs(L \cup {s})) = Cardinality(Theirs(L)) + (IF Odd(s) THEN 0 ELSE 1)
<1>1. IsFiniteSet(L) /\ IsFiniteSet(Mine(L)) /\ IsFiniteSet(Theirs(L))
      /\ Cardinality(Mine(L)) \in Nat /\ Cardinality(Theirs(L)) \in Nat
  BY CountFinite
<1>2. s \notin Mine(L) /\ s \notin Theirs(L)
  BY DEF Mine, Theirs
<1>3. /\ Cardinality(L \cup {s}) = Cardinality(L) + 1
      /\ Cardinality(Mine(L) \cup {s}) = Cardinality(Mine(L)) + 1
      /\ Cardinality(Theirs(L) \cup {s}) = Cardinality(Theirs(L)) + 1
  BY <1>1, <1>2, FS_AddElement
<1>4. CASE Odd(s)
  <2>1. Mine(L \cup {s}) = Mine(L) \cup {s} /\ Theirs(L \cup {s}) = Theirs(L)
    BY <1>4 DEF Mine, Theirs
  <2>2. Cardinality(Mine(L \cup {s})) = Cardinality(Mine(L)) + 1
    BY <1>3, <2>1, Zenon
  <2>3. Cardinality(Theirs(L \cup {s})) = Cardinality(Theirs(L)) + 0
    <3>1. Cardinality(Theirs(L)) = Cardinality(Theirs(L)) + 0
      BY <1>1
    <3> QED BY <2>1, <3>1, Zenon
  <2> QED BY <1>3, <1>4, <2>2, <2>3, Zenon
<1>5. CASE ~Odd(s)
  <2>1. Mine(L \cup {s}) = Mine(L) /\ Theirs(L \cup {s}) = Theirs(L) \cup {s}
    BY <1>5 DEF Mine, Theirs
  <2>2. Cardinality(Theirs(L \cup {s})) = Cardinality(Theirs(L)) + 1
    BY <1>3, <2>1, Zenon
  <2>3. Cardinality(Mine(L \cup {s})) = Cardinality(Mine(L)) + 0
    <3>1. Cardinality(Mine(L)) = Cardinality(Mine(L)) + 0
      BY <1>1
    <3> QED BY <2>1, <3>1, Zenon
  <2> QED BY <1>3, <1>5, <2>2, <2>3, Zenon
<1> QED BY <1>4, <1>5

LEMMA CountLess ==
    ASSUME NEW L \in SUBSET Ids, NEW s \in L
    PROVE  /\ Cardinality(L \ {s}) = Cardinality(L) - 1
           /\ Cardinality(Mine(L \ {s})) = Cardinality(Mine(L)) - (IF Odd(s) THEN 1 ELSE 0)
           /\ Cardinality(Theirs(L \ {s})) = Cardinality(Theirs(L)) - (IF Odd(s) THEN 0 ELSE 1)
<1> DEFINE M == L \ {s}
<1>1. M \in SUBSET Ids /\ s \in Ids /\ s \notin M /\ L = M \cup {s}
  OBVIOUS
<1> HIDE DEF M
<1>2. /\ Cardinality(M \cup {s}) = Cardinality(M) + 1
      /\ Cardinality(Mine(M \cup {s})) = Cardinality(Mine(M)) + (IF Odd(s) THEN 1 ELSE 0)
      /\ Cardinality(Theirs(M \cup {s})) = Cardinality(Theirs(M)) + (IF Odd(s) THEN 0 ELSE 1)
  BY <1>1, CountMore
<1>3. Cardinality(M) \in Nat /\ Cardinality(Mine(M)) \in Nat /\ Cardinality(Theirs(M)) \in Nat
  BY <1>1, CountFinite
<1>4. /\ Cardinality(L) = Cardinality(M) + 1
      /\ Cardinality(Mine(L)) = Cardinality(Mine(M)) + (IF Odd(s) THEN 1 ELSE 0)
      /\ Cardinality(Theirs(L)) = Cardinality(Theirs(M)) + (IF Odd(s) THEN 0 ELSE 1)
  BY <1>1, <1>2
<1>5. /\ Cardinality(M) = Cardinality(L) - 1
      /\ Cardinality(Mine(M)) = Cardinality(Mine(L)) - (IF Odd(s) THEN 1 ELSE 0)
      /\ Cardinality(Theirs(M)) = Cardinality(Theirs(L)) - (IF Odd(s) THEN 0 ELSE 1)
  BY <1>3, <1>4
<1> QED BY <1>5 DEF M

LEMMA closeStreamStreams == ASSUME ServerInv, StreamInv, closeStream PROVE StreamInv'
<1> DEFINE s == arg
           a == IF liveIds = {s} /\ Ev("noKeepAlive") THEN <<<<"goAway", "no">>>> ELSE <<>>
           b == IF str[s].body THEN <<<<"window", 0, str[s].len>>>> ELSE <<>>
           items == a \o b \o <<<<"closeRest", s>>>>
<1>1. todo # <<>> /\ Head(todo)[1] \notin LightOrAway /\ UNCHANGED <<out, h, chans>> /\ s \in Ids
  BY ArgOK DEF closeStream, At, LightOrAway, Light, Updating, arg, CallOK
<1>2. CASE Panic /\ UNCHANGED <<sc, str>>
  BY <1>1, <1>2, PanicMoves, SameAll, SameKeepsOut, HeavyKept
<1>3. CASE /\ str[s].st \notin {"idle", "closed"} /\ str' = [str EXCEPT ![s].st = "closed"]
           /\ sc' = Uncount(s) /\ Then(items) /\ UNCHANGED phase
  <2>1. Plain(items)
    <3>1. Plain(a) /\ Plain(b) /\ Plain(<<<<"closeRest", s>>>>)
      BY PlainEmpty, PlainOne
    <3> HIDE DEF a, b
    <3> QED BY <3>1, PlainConcat
  <2> HIDE DEF items
  <2>2. Grow(items)
    BY <1>1, <1>3, ThenGrows
  <2>3. /\ Sends(sc') /\ sc'.handlers = sc.handlers /\ sc'.unstarted = sc.unstarted
        /\ sc'.maxPush = sc.maxPush
        /\ sc'.nClient = sc.nClient - (IF Odd(s) THEN 1 ELSE 0)
        /\ sc'.nPushed = sc.nPushed - (IF Odd(s) THEN 0 ELSE 1)
    <3>1. sc \in Conns
      BY DEF ServerInv, Types
    <3>2. Sends(sc')
      BY <1>3, SendsKept DEF Uncount
    <3> QED BY <1>3, <3>1, <3>2 DEF Uncount, Conns
  <2>4. s \in liveIds /\ liveIds' = liveIds \ {s} /\ SameWin(str')
    <3>1. str \in [Ids -> StreamRecs]
      BY Facts
    <3>2. str[s].st \in {"open", "halfLocal", "halfRemote"}
      BY <1>1, <1>3, <3>1 DEF StreamRecs
    <3>3. \A u \in Ids : (u # s => str'[u] = str[u]) /\ (u = s => str'[u].st = "closed")
      BY <1>3, <3>1 DEF StreamRecs
    <3> QED BY <1>1, <1>3, <3>2, <3>3, WinKept DEF liveIds, live
  <2>5. LoopInv'
    <3>1. KeepsOut /\ NoneLost
      BY <1>1, SameKeepsOut, SamePcs
    <3>2. Calm => Calm'
      BY <2>3, <2>4, <3>1, CalmKept
    <3>3. \A i \in 1 .. Len(want') : Tame(want'[i])
      BY <1>1 DEF StreamInv, LoopInv, Placed, chans
    <3>4. IsSeq(items)
      BY <2>1 DEF Plain
    <3>5. Settled'
      BY <1>1, <2>2, <3>1, <3>2, <3>4, SettledKept DEF StreamInv, LoopInv, KeepsOut, Busily, LightOrAway, Light, Updating
    <3> QED BY <1>1, <2>1, <2>2, <3>1, <3>3, <3>5, LoopKept DEF StreamInv, LightOrAway
  <2>6. QueueInv'
    BY <1>1, <2>3, <2>4 DEF StreamInv, CountInv, QueueInv
  <2>7. Slotted'
    <3>1. Busy' = Busy
      BY <1>1 DEF Busy, Started
    <3> QED BY <1>1, <1>3, <2>3, <3>1 DEF StreamInv, CountInv, Slotted, chans
  <2>8. Pushed'
    BY <1>1, <2>3, <2>4 DEF StreamInv, CountInv, Pushed, liveIds
  <2>9. Counted'
    <3>1. liveIds \in SUBSET Ids
      BY DEF liveIds
    <3>2. /\ Cardinality(Mine(liveIds')) = Cardinality(Mine(liveIds)) - (IF Odd(s) THEN 1 ELSE 0)
          /\ Cardinality(Theirs(liveIds')) = Cardinality(Theirs(liveIds)) - (IF Odd(s) THEN 0 ELSE 1)
          /\ Cardinality(Mine(liveIds)) \in Nat /\ Cardinality(Theirs(liveIds)) \in Nat
      BY <2>4, <3>1, CountLess, CountFinite
    <3>3. /\ sc.nClient = Cardinality(Mine(liveIds)) /\ sc.nClient <= AdvMax
          /\ sc.nPushed = Cardinality(Theirs(liveIds)) /\ sc.nPushed <= ClientMax
      BY DEF StreamInv, CountInv, Counted, Mine, Theirs
    <3>4. AdvMax \in Nat /\ ClientMax \in Nat
      BY AdvMaxAssumption, LimitsAssumption
    <3>5. /\ sc'.nClient = Cardinality(Mine(liveIds')) /\ sc'.nClient <= AdvMax
          /\ sc'.nPushed = Cardinality(Theirs(liveIds')) /\ sc'.nPushed <= ClientMax
      BY <2>3, <3>2, <3>3, <3>4
    <3> QED BY <3>5 DEF Counted, Mine, Theirs
  <2> QED BY <2>5, <2>6, <2>7, <2>8, <2>9 DEF StreamInv, CountInv
<1> QED BY <1>2, <1>3, Zenon DEF closeStream

(* A stream that is opened has no handler yet, so nothing is queued for it *)
(* that would close it.                                                    *)
LEMMA CalmOpened ==
    ASSUME ServerInv, Placed, Calm, NEW s \in Ids, h[s].pc = "none", out'.ctl = out.ctl, out'.q = out.q,
           Sends(sc'), \A u \in Ids : u # s => str'[u].win = str[u].win
    PROVE  Calm'
<1> SUFFICES ASSUME MayPop'
             PROVE  MildQueue(out'.ctl) /\ \A u \in Ids : Writable(u)' => MildQueue(out'.q[u])
  BY DEF Calm
<1>1. MayPop
  BY DEF MayPop, Sends
<1>2. ASSUME NEW u \in Ids, u # s, Writable(u)' PROVE MildQueue(out'.q[u])
  <2>1. Room(u)' = Room(u)
    BY <1>2 DEF Room, Min2, Sends
  <2>2. Writable(u)
    BY <1>2, <2>1 DEF Writable
  <2> QED BY <1>1, <2>2 DEF Calm
<1>3. MildQueue(out'.q[s])
  <2>1. \A i \in 1 .. Len(out.q[s]) : out.q[s][i].s = s
    BY DEF ServerInv, Frames
  <2> QED BY <2>1 DEF MildQueue, Mild, Placed, Tame
<1> QED BY <1>1, <1>2, <1>3 DEF Calm

(* How a stream is opened: without a handler, with one that runs, or with  *)
(* one that waits because all the slots are taken.                         *)
Opens(s) ==
    \/ /\ UNCHANGED h
       /\ sc'.handlers = sc.handlers /\ sc'.unstarted = sc.unstarted
    \/ /\ h'[s].pc = "run"
       /\ sc'.handlers = sc.handlers + 1 /\ sc'.unstarted = sc.unstarted
       /\ Odd(s) => sc.handlers < AdvMax
    \/ /\ h'[s].pc = "queued" /\ sc.handlers >= AdvMax
       /\ sc'.handlers = sc.handlers /\ sc'.unstarted = Append(sc.unstarted, s)

LEMMA OpensQueue ==
    ASSUME ServerInv, CountInv, NEW s \in Ids, h[s].pc = "none", liveIds' = liveIds \cup {s},
           \A u \in Ids : u # s => h'[u] = h[u], Opens(s)
    PROVE  QueueInv'
<1>1. sc.handlers \in Int /\ sc.unstarted \in Seq(Ids) /\ AdvMax \in Int
  BY Facts, AdvMaxAssumption DEF ConnKept, Conns
<1> SUFFICES ASSUME NEW u \in liveIds', h'[u].pc = "queued"
             PROVE  sc'.handlers >= AdvMax /\ \E i \in 1 .. Len(sc'.unstarted) : sc'.unstarted[i] = u
  BY DEF QueueInv
<1>2. u \in Ids
  BY DEF liveIds
<1>3. CASE u # s
  <2>1. sc.handlers >= AdvMax /\ \E i \in 1 .. Len(sc.unstarted) : sc.unstarted[i] = u
    BY <1>2, <1>3 DEF CountInv, QueueInv
  <2>2. CASE sc'.unstarted = sc.unstarted
    BY <1>1, <2>1, <2>2 DEF Opens
  <2>3. CASE sc'.unstarted = Append(sc.unstarted, s)
    <3>1. Len(sc'.unstarted) = Len(sc.unstarted) + 1 /\ Len(sc.unstarted) \in Nat
          /\ \A i \in 1 .. Len(sc.unstarted) : sc'.unstarted[i] = sc.unstarted[i]
      BY <1>1, <2>3
    <3>2. PICK i \in 1 .. Len(sc.unstarted) : sc.unstarted[i] = u
      BY <2>1
    <3>3. i \in 1 .. Len(sc'.unstarted) /\ sc'.unstarted[i] = u
      BY <3>1, <3>2
    <3>4. sc'.handlers >= AdvMax
      BY <1>1, <2>1 DEF Opens
    <3> QED BY <3>3, <3>4
  <2> QED BY <2>2, <2>3 DEF Opens
<1>4. CASE u = s
  <2>1. /\ sc.handlers >= AdvMax /\ sc'.handlers = sc.handlers
        /\ sc'.unstarted = Append(sc.unstarted, s)
    BY <1>4 DEF Opens
  <2>2. Len(sc'.unstarted) \in 1 .. Len(sc'.unstarted) /\ sc'.unstarted[Len(sc'.unstarted)] = s
    BY <1>1, <2>1
  <2> QED BY <1>4, <2>1, <2>2
<1> QED BY <1>3, <1>4

LEMMA OpensSlots ==
    ASSUME ServerInv, Slotted, NEW s \in Ids, h[s].pc = "none",
           \A u \in Ids : u # s => h'[u] = h[u], Opens(s), UNCHANGED <<phase, msgs>>
    PROVE  Slotted'
<1>1. sc.handlers \in Int /\ sc.unstarted \in Seq(Ids) /\ AdvMax \in Int
  BY Facts, AdvMaxAssumption DEF ConnKept, Conns
<1>2. \A i \in 1 .. Len(sc.unstarted) : sc.unstarted[i] \in Ids /\ sc.unstarted[i] # s
  BY <1>1 DEF Slotted
<1>3. Busy \in SUBSET Ids /\ s \notin Busy
  BY DEF Busy, Started
<1>4. Cardinality(Dones(msgs)) \in Nat
  BY Channels, DonesFinite
<1>5. CASE UNCHANGED h /\ sc'.handlers = sc.handlers /\ sc'.unstarted = sc.unstarted
  <2>1. Busy' = Busy
    BY <1>5 DEF Busy, Started
  <2> QED BY <1>5, <2>1 DEF Slotted
<1>6. CASE /\ h'[s].pc = "run" /\ sc'.handlers = sc.handlers + 1 /\ sc'.unstarted = sc.unstarted
           /\ Odd(s) => sc.handlers < AdvMax
  <2>1. Busy' = Busy \cup {s}
    <3>1. \A u \in Ids : u \in Busy' <=> u \in Busy \/ u = s
      BY <1>6 DEF Busy, Started
    <3>2. Busy' \subseteq Ids
      BY DEF Busy
    <3> QED BY <1>3, <3>1, <3>2
  <2>2. /\ Cardinality(Busy') = Cardinality(Busy) + 1
        /\ Cardinality(Mine(Busy')) = Cardinality(Mine(Busy)) + (IF Odd(s) THEN 1 ELSE 0)
        /\ Cardinality(Busy) \in Nat /\ Cardinality(Mine(Busy)) \in Nat
        /\ Cardinality(Mine(Busy)) <= Cardinality(Busy)
    BY <1>3, <2>1, CountMore, CountFinite
  <2>3. phase = "serving" => /\ sc.handlers = Cardinality(Busy) + Cardinality(Dones(msgs))
                             /\ Cardinality(Mine(Busy)) <= AdvMax
    BY DEF Slotted, Mine
  <2>4. phase = "serving" => /\ sc'.handlers = Cardinality(Busy') + Cardinality(Dones(msgs))
                             /\ Cardinality(Mine(Busy')) <= AdvMax
    BY <1>1, <1>4, <1>6, <2>2, <2>3
  <2> QED BY <1>2, <1>6, <2>4 DEF Slotted, Mine
<1>7. CASE /\ h'[s].pc = "queued" /\ sc'.handlers = sc.handlers
           /\ sc'.unstarted = Append(sc.unstarted, s)
  <2>1. Busy' = Busy
    <3>1. \A u \in Ids : u \in Busy' <=> u \in Busy
      BY <1>3, <1>7 DEF Busy, Started
    <3>2. Busy' \subseteq Ids
      BY DEF Busy
    <3> QED BY <1>3, <3>1, <3>2
  <2> DEFINE q == sc.unstarted
             x == Append(q, s)
  <2>2. /\ Len(x) = Len(q) + 1 /\ Len(q) \in Nat
        /\ \A i \in 1 .. Len(x) : \/ i \in 1 .. Len(q) /\ x[i] = q[i]
                                  \/ i = Len(q) + 1 /\ x[i] = s
    BY <1>1
  <2>3. x = sc'.unstarted
    BY <1>7
  <2>4. \A i \in 1 .. Len(q) : q[i] \in Ids /\ q[i] # s /\ h[q[i]].pc = "queued"
    BY <1>2 DEF Slotted
  <2> HIDE DEF x
  <2>5. \A i \in 1 .. Len(x) : h'[x[i]].pc = "queued"
    BY <1>7, <2>2, <2>4
  <2>6. \A i, j \in 1 .. Len(x) : x[i] = x[j] => i = j
    BY <2>2, <2>4 DEF Slotted
  <2> QED BY <1>7, <2>1, <2>3, <2>5, <2>6 DEF Slotted
<1> QED BY <1>5, <1>6, <1>7 DEF Opens

LEMMA OpensCounts ==
    ASSUME ServerInv, CountInv, NEW s \in Ids, h[s].pc = "none", ~live(s), liveIds' = liveIds \cup {s},
           \A u \in Ids : u # s => h'[u] = h[u], Opens(s), UNCHANGED <<phase, msgs>>,
           sc'.maxPush \in Int, sc'.maxPush >= sc.maxPush, ~Odd(s) => s <= sc'.maxPush,
           sc'.nClient = sc.nClient + (IF Odd(s) THEN 1 ELSE 0), sc'.nClient <= AdvMax,
           sc'.nPushed = sc.nPushed + (IF Odd(s) THEN 0 ELSE 1), sc'.nPushed <= ClientMax
    PROVE  CountInv'
<1>1. QueueInv' /\ Slotted'
  BY OpensQueue, OpensSlots DEF CountInv
<1>2. Pushed'
  <2> SUFFICES ASSUME NEW u \in Ids, ~Odd(u), live(u)' \/ h'[u].pc # "none" PROVE u <= sc'.maxPush
    BY DEF Pushed
  <2>1. CASE u # s
    <3>1. live(u)' => live(u)
      BY <2>1 DEF liveIds
    <3>2. u <= sc.maxPush
      BY <2>1, <3>1 DEF CountInv, Pushed
    <3>3. u \in Int
      BY IdsAssumption
    <3>4. sc.maxPush \in Int
      BY Facts DEF ConnKept, Conns
    <3> QED BY <3>2, <3>3, <3>4
  <2> QED BY <2>1
<1>3. Counted'
  <2>1. liveIds \in SUBSET Ids /\ s \notin liveIds
    BY DEF liveIds
  <2>2. /\ Cardinality(Mine(liveIds')) = Cardinality(Mine(liveIds)) + (IF Odd(s) THEN 1 ELSE 0)
        /\ Cardinality(Theirs(liveIds')) = Cardinality(Theirs(liveIds)) + (IF Odd(s) THEN 0 ELSE 1)
    BY <2>1, CountMore
  <2>3. sc.nClient = Cardinality(Mine(liveIds)) /\ sc.nPushed = Cardinality(Theirs(liveIds))
    BY DEF CountInv, Counted, Mine, Theirs
  <2>4. sc'.nClient = Cardinality(Mine(liveIds')) /\ sc'.nPushed = Cardinality(Theirs(liveIds'))
    BY <2>2, <2>3
  <2> QED BY <2>4 DEF Counted, Mine, Theirs
<1> QED BY <1>1, <1>2, <1>3 DEF CountInv

LEMMA processHeadersStreams == ASSUME ServerInv, StreamInv, processHeaders PROVE StreamInv'
<1> DEFINE f == arg
           s == f.s
           m == sc.nClient + 1
           seen == [sc EXCEPT !.maxClient = s]
           opened == [seen EXCEPT !.nClient = @ + 1]
           st == IF f.end THEN "halfRemote" ELSE "open"
           b == ~f.end /\ f.v # "bad"
           d == IF f.v = "len" THEN 1 ELSE -1
           r == [NewStream(st, sc.swin) EXCEPT !.body = b, !.decl = d]
           head == f.v = "head"
           g1 == [NoHandler EXCEPT !.pc = "run", !.head = head]
           g2 == [NoHandler EXCEPT !.pc = "queued", !.head = head]
           fresh == Odd(s) /\ ~(s <= sc.maxClient)
           x == Append(sc.unstarted, s)
           k == sc.handlers + 1
           c1 == [opened EXCEPT !.handlers = k]
           c2 == [opened EXCEPT !.unstarted = x]
<1>1. At("frame") /\ f.t = "headers" /\ UNCHANGED <<phase, out, chans>>
  BY DEF processHeaders, Processing
<1>2. todo # <<>> /\ s \in Ids /\ sc \in Conns /\ h \in [Ids -> HandlerRecs] /\ str \in [Ids -> StreamRecs]
  BY <1>1, FrameArg DEF ServerInv, Types
<1>3. \/ ConnError("protocol") /\ UNCHANGED <<str, h>>
      \/ sc' = seen /\ Then(<<<<"reset", s>>>>) /\ UNCHANGED <<str, h>>
      \/ /\ fresh /\ s \notin liveIds /\ ~(m > AdvMax) /\ str' = [str EXCEPT ![s] = r]
         /\ \/ sc' = opened /\ UNCHANGED h /\ (Then(<<<<"reset", s>>>>) \/ Then(<<<<"goAway", "calm">>>>))
            \/ sc.handlers < AdvMax /\ sc' = c1 /\ h' = [h EXCEPT ![s] = g1] /\ Then(<<>>)
            \/ ~(sc.handlers < AdvMax) /\ sc' = c2 /\ h' = [h EXCEPT ![s] = g2] /\ Then(<<>>)
  <2>1. ASSUME fresh, ~(Odd(s) /\ s \in liveIds) PROVE s \notin liveIds
    BY <2>1
  <2>2. f.v = "bad" \/ sc.handlers < AdvMax \/ sc.handlers >= AdvMax
    BY <1>2, AdvMaxAssumption DEF Conns
  <2>3. sc.handlers >= AdvMax => ~(sc.handlers < AdvMax)
    BY <1>2, AdvMaxAssumption DEF Conns
  <2> QED BY <2>1, <2>2, <2>3, ZenonT(60) DEF processHeaders
<1>4. CASE ConnError("protocol") /\ UNCHANGED <<str, h>>
  <2>1. Slots(sc') /\ Moves
    BY <1>1, <1>2, <1>4, SameAll, ConnErrorMoves
  <2> QED BY <1>1, <1>4, <2>1, FrameHead, SameAll, SameKeepsOut, HeavyKept
<1>5. CASE sc' = seen /\ Then(<<<<"reset", s>>>>) /\ UNCHANGED <<str, h>>
  <2>1. Plain(<<<<"reset", s>>>>)
    BY PlainOne
  <2>2. Slots(sc') /\ Sends(sc')
    BY <1>5, SlotsKept, SendsKept
  <2>3. Moves
    BY <1>1, <1>2, <1>5, <2>1, <2>2, SameAll, PlainMoves
  <2> QED BY <1>1, <1>5, <2>2, <2>3, FrameHead, SameAll, SameKeepsOut, HeavyKept
<1>6. CASE /\ fresh /\ s \notin liveIds /\ ~(m > AdvMax) /\ str' = [str EXCEPT ![s] = r]
           /\ \/ sc' = opened /\ UNCHANGED h /\ (Then(<<<<"reset", s>>>>) \/ Then(<<<<"goAway", "calm">>>>))
              \/ sc.handlers < AdvMax /\ sc' = c1 /\ h' = [h EXCEPT ![s] = g1] /\ Then(<<>>)
              \/ ~(sc.handlers < AdvMax) /\ sc' = c2 /\ h' = [h EXCEPT ![s] = g2] /\ Then(<<>>)
  <2>1. h[s].pc = "none"
    BY <1>2, <1>6 DEF ServerInv, Numbers, Known
  <2>2. PICK items : Plain(items) /\ Grow(items)
    <3>1. Plain(<<>>) /\ Plain(<<<<"reset", s>>>>) /\ Plain(<<<<"goAway", "calm">>>>)
      BY PlainEmpty, PlainOne
    <3> QED BY <1>1, <1>2, <1>6, <3>1, ThenGrows
  <2>3. /\ \A u \in Ids : u # s => str'[u] = str[u]
        /\ str'[s].st = st
    <3>1. str'[s] = r /\ \A u \in Ids : u # s => str'[u] = str[u]
      BY <1>2, <1>6
    <3>2. r.st = st
      BY DEF NewStream, NoStream
    <3> QED BY <3>1, <3>2
  <2>4. liveIds' = liveIds \cup {s} /\ ~live(s)
    BY <1>2, <1>6, <2>3 DEF liveIds, live
  <2>5. g1.pc = "run" /\ g2.pc = "queued"
    BY DEF NoHandler
  <2>6. /\ sc'.nClient = m /\ sc'.nPushed = sc.nPushed /\ sc'.maxPush = sc.maxPush
        /\ sc'.cwin = sc.cwin /\ sc'.inGoAway = sc.inGoAway /\ sc'.code = sc.code
        /\ \/ sc' = opened /\ sc'.handlers = sc.handlers /\ sc'.unstarted = sc.unstarted
           \/ sc' = c1 /\ sc'.handlers = k /\ sc'.unstarted = sc.unstarted
           \/ sc' = c2 /\ sc'.handlers = sc.handlers /\ sc'.unstarted = x
    <3> HIDE DEF k, x, s
    <3>1. CASE sc' = opened
      BY <1>2, <3>1, Zenon DEF Conns
    <3>2. CASE sc' = c1
      BY <1>2, <3>2, Zenon DEF Conns
    <3>3. CASE sc' = c2
      BY <1>2, <3>3, Zenon DEF Conns
    <3> QED BY <1>6, <3>1, <3>2, <3>3, Zenon
  <2>7. /\ \A u \in Ids : u # s => h'[u] = h[u]
        /\ Opens(s)
    <3>0. AdvMax \in Int /\ sc.handlers \in Int
      BY <1>2, AdvMaxAssumption DEF Conns
    <3>1. CASE sc' = opened /\ UNCHANGED h
      <4>1. sc'.handlers = sc.handlers /\ sc'.unstarted = sc.unstarted
        <5> HIDE DEF s
        <5> QED BY <1>2, <3>1, Zenon DEF Conns
      <4> QED BY <3>1, <4>1 DEF Opens
    <3>2. CASE sc.handlers < AdvMax /\ sc' = c1 /\ h' = [h EXCEPT ![s] = g1]
      <4>1. sc'.handlers = k /\ sc'.unstarted = sc.unstarted
        <5> HIDE DEF s, k
        <5> QED BY <1>2, <3>2, Zenon DEF Conns
      <4> HIDE DEF g1
      <4> QED BY <1>2, <2>5, <3>2, <4>1 DEF Opens
    <3>3. CASE ~(sc.handlers < AdvMax) /\ sc' = c2 /\ h' = [h EXCEPT ![s] = g2]
      <4>1. sc'.handlers = sc.handlers /\ sc'.unstarted = x
        <5> HIDE DEF s, x
        <5> QED BY <1>2, <3>3, Zenon DEF Conns
      <4>2. sc.handlers >= AdvMax
        BY <3>0, <3>3
      <4> HIDE DEF g2
      <4> QED BY <1>2, <2>5, <3>3, <4>1, <4>2 DEF Opens
    <3> HIDE DEF opened, c1, c2, g1, g2
    <3> QED BY <1>6, <3>1, <3>2, <3>3
  <2> HIDE DEF opened, seen, c1, c2, g1, g2, r, st
  <2>8. Sends(sc')
    BY <2>6 DEF Sends, MayPop
  <2>9. Settled' /\ LoopInv'
    <3>1. KeepsOut /\ IsSeq(items)
      BY <1>1, <2>2, SameKeepsOut DEF Plain
    <3>2. Calm => Calm'
      BY <1>1, <1>2, <2>1, <2>3, <2>8, CalmOpened DEF StreamInv, LoopInv
    <3>3. Settled'
      BY <1>1, <2>2, <3>1, <3>2, FrameHead, SettledKept DEF StreamInv, LoopInv, KeepsOut, Busily
    <3>4. NoneLost
      BY <2>1, <2>7 DEF NoneLost
    <3>5. \A i \in 1 .. Len(want') : Tame(want'[i])
      BY <1>1 DEF StreamInv, LoopInv, Placed, chans
    <3> QED BY <1>1, <2>2, <3>1, <3>3, <3>4, <3>5, FrameHead, LoopKept DEF StreamInv, LightOrAway
  <2>10. CountInv'
    <3>1. /\ sc.nClient \in Int /\ sc.nPushed \in Int /\ sc.maxPush \in Int /\ AdvMax \in Int
      BY <1>2, AdvMaxAssumption DEF Conns
    <3>2. /\ sc'.nClient = sc.nClient + (IF Odd(s) THEN 1 ELSE 0) /\ sc'.nClient <= AdvMax
          /\ sc'.nPushed = sc.nPushed + (IF Odd(s) THEN 0 ELSE 1) /\ sc'.nPushed <= ClientMax
          /\ sc'.maxPush \in Int /\ sc'.maxPush >= sc.maxPush
      BY <1>6, <2>6, <3>1 DEF StreamInv, CountInv, Counted
    <3>3. UNCHANGED <<phase, msgs>> /\ Odd(s)
      BY <1>1, <1>6 DEF chans
    <3> HIDE DEF s
    <3> QED BY <1>2, <2>1, <2>4, <2>7, <3>2, <3>3, OpensCounts DEF StreamInv
  <2> QED BY <2>9, <2>10 DEF StreamInv
<1> HIDE DEF opened, seen, c1, c2, g1, g2, r, st
<1> QED BY <1>3, <1>4, <1>5, <1>6

-----------------------------------------------------------------------------
(* The steps of writing a frame, which may be on the way to the end of a   *)
(* request.                                                                *)
LEMMA LightKept ==
    ASSUME ServerInv, LoopInv, NEW items, Plain(items), Grow(items),
           EndsBelow => /\ \A s \in Ids : live(s) => live(s)'
                        /\ \A i \in 1 .. Len(items) : MildCall(items[i]),
           EndsBelow /\ Calm => Calm',
           EndsBelow /\ out.async /\ Head(todo)[1] \in Updating =>
              out'.async /\ \A i \in 1 .. Len(items) : items[i][1] \in Updating,
           Settled', Current', Placed'
    PROVE  LoopInv'
<1>1. IsSeq(items) /\ \A i \in 1 .. Len(items) : items[i][1] # "frame"
  BY DEF Plain
<1>2. FrameLast'
  BY <1>1, FrameLastKept DEF LoopInv
<1>3. EndsLive'
  BY EndsKept DEF LoopInv
<1> QED BY <1>2, <1>3 DEF LoopInv

(* A list of one call, or of none.                                         *)
LEMMA OneIs == ASSUME NEW c PROVE Len(<<c>>) = 1 /\ <<c>>[1] = c /\ \A i \in 1 .. Len(<<c>>) : <<c>>[i] = c
<1>1. Len(<<c>>) = 1 /\ <<c>>[1] = c
  OBVIOUS
<1> QED BY <1>1

LEMMA NoneIs == \A i \in 1 .. Len(<<>>) : FALSE
<1>1. Len(<<>>) = 0
  OBVIOUS
<1> QED BY <1>1

LEMMA QuietKept ==
    ASSUME ServerInv, StreamInv, todo # <<>>, NEW items, Plain(items), Grow(items),
           Slots(sc'), Sends(sc'), SameLive(str'), SameWin(str'), SamePc(h'), UNCHANGED chans,
           out'.ctl = out.ctl, \A s \in Ids : out'.q[s] = out.q[s] \/ out'.q[s] = <<>>,
           EndsBelow => \A i \in 1 .. Len(items) : MildCall(items[i]),
           EndsBelow /\ out.async /\ Head(todo)[1] \in Updating =>
              out'.async /\ \A i \in 1 .. Len(items) : items[i][1] \in Updating,
           Settled', Current'
    PROVE  StreamInv'
<1>1. Calm => Calm'
  BY CalmSame
<1>2. \A s \in Ids : live(s) => live(s)'
  BY DEF SameLive, live
<1>3. Placed'
  <2>1. TameCalls(items) /\ IsSeq(items)
    BY DEF Plain, TameCalls
  <2>2. \A i \in 1 .. Len(want') : Tame(want'[i])
    BY DEF StreamInv, LoopInv, Placed, chans
  <2>3. NoneLost
    BY DEF SamePc, NoneLost
  <2> QED BY <2>1, <2>2, <2>3, PlacedKept DEF StreamInv, LoopInv
<1>4. LoopInv'
  BY <1>1, <1>2, <1>3, LightKept DEF StreamInv
<1>5. CountInv'
  <2>1. phase' = "serving" => phase = "serving"
    BY DEF Grow
  <2> QED BY <2>1, CountsKept DEF StreamInv, chans
<1> QED BY <1>4, <1>5 DEF StreamInv

LEMMA StartHead ==
    ASSUME At("start")
    PROVE  todo # <<>> /\ Head(todo)[1] \notin Busily \cup Updating \cup {"goAway"} /\ Head(todo)[1] # "wrote"
BY DEF At, Busily, Updating

(* The assertion of startFrameWrite fails.                                 *)
LEMMA StartPanics == ASSUME ServerInv, StreamInv, At("start"), Panic, UNCHANGED <<sc, str, out, h, chans>> PROVE StreamInv'
<1>1. Settled' /\ Current'
  BY DEF Panic, Settled, Current
<1> QED BY <1>1, PlainEmpty, PanicGrows, NoneIs, StartHead, SameAll, SamePcs, QuietKept

LEMMA startPushWriteStreams == ASSUME ServerInv, StreamInv, startPushWrite PROVE StreamInv'
<1> DEFINE f == arg
           p == sc.maxPush + 2
           r == NewStream("halfRemote", sc.swin)
           g == [NoHandler EXCEPT !.pc = "run"]
<1>1. At("start") /\ todo # <<>> /\ UNCHANGED chans
  BY DEF startPushWrite, At
<1>2. CASE Panic /\ UNCHANGED <<sc, str, h, out>>
  BY <1>1, <1>2, StartPanics
<1>3. CASE Then(<<<<"reply", f>>>>) /\ UNCHANGED <<phase, sc, str, h, out>>
  <2>1. Plain(<<<<"reply", f>>>>) /\ MildCall(<<"reply", f>>) /\ IsSeq(<<<<"reply", f>>>>)
    BY PlainOne DEF MildCall, Plain
  <2>2. Grow(<<<<"reply", f>>>>)
    BY <1>1, <1>3, ThenGrows
  <2>3. KeepsOut /\ (Calm => Calm')
    BY <1>3, SameAll, SameKeepsOut, CalmKept
  <2>4. Settled' /\ Current'
    BY <1>1, <2>1, <2>2, <2>3, StartHead, SettledKept, CurrentKept DEF StreamInv, LoopInv, KeepsOut
  <2>5. \A i \in 1 .. Len(<<<<"reply", f>>>>) : MildCall(<<<<"reply", f>>>>[i])
    BY <2>1, OneIs
  <2> QED BY <1>1, <1>3, <2>1, <2>2, <2>4, <2>5, StartHead, SameAll, SamePcs, QuietKept
<1>4. CASE /\ p \in Ids /\ sc.nPushed + 1 <= ClientMax
           /\ sc' = [sc EXCEPT !.maxPush = p, !.nPushed = @ + 1, !.handlers = @ + 1]
           /\ str' = [str EXCEPT ![p] = r]
           /\ h' = [h EXCEPT ![p] = g]
           /\ out' = [out EXCEPT !.cur = f, !.flush = TRUE, !.async = TRUE]
           /\ Then(<<>>) /\ UNCHANGED phase
  <2>1. /\ sc \in Conns /\ sc.maxPush \in Nat /\ ~Odd(sc.maxPush) /\ sc.nPushed \in Int /\ sc.handlers \in Int
        /\ out \in Outs /\ str \in [Ids -> StreamRecs] /\ h \in [Ids -> HandlerRecs]
        /\ sc.nClient \in Int /\ AdvMax \in Int
    BY AdvMaxAssumption DEF ServerInv, Types, Conns
  <2>2. p \in Nat /\ ~Odd(p) /\ p > sc.maxPush
    BY <2>1 DEF Odd
  <2>3. h[p].pc = "none" /\ ~live(p)
    BY <1>4, <2>1, <2>2 DEF StreamInv, CountInv, Pushed
  <2>4. /\ \A u \in Ids : u # p => str'[u] = str[u] /\ h'[u] = h[u]
        /\ str'[p].st = "halfRemote" /\ h'[p].pc = "run"
    <3>1. r.st = "halfRemote" /\ g.pc = "run"
      BY DEF NewStream, NoStream, NoHandler
    <3> HIDE DEF r, g
    <3> QED BY <1>4, <2>1, <3>1
  <2>5. /\ sc'.maxPush = p /\ sc'.nPushed = sc.nPushed + 1 /\ sc'.handlers = sc.handlers + 1
        /\ sc'.unstarted = sc.unstarted /\ sc'.nClient = sc.nClient
        /\ sc'.cwin = sc.cwin /\ sc'.inGoAway = sc.inGoAway /\ sc'.code = sc.code
    BY <1>4, <2>1 DEF Conns
  <2>6. out'.async /\ out'.ctl = out.ctl /\ out'.q = out.q
    BY <1>4, <2>1 DEF Outs
  <2> HIDE DEF p, r, g
  <2>7. liveIds' = liveIds \cup {p} /\ \A s \in Ids : live(s) => live(s)'
    BY <1>4, <2>3, <2>4 DEF liveIds, live
  <2>8. Plain(<<>>) /\ Grow(<<>>) /\ IsSeq(<<>>)
    BY <1>1, <1>4, PlainEmpty, ThenGrows DEF Plain
  <2>9. Calm => Calm'
    <3>1. Sends(sc')
      BY <2>5 DEF Sends, MayPop
    <3> QED BY <1>4, <2>3, <2>4, <2>6, <3>1, CalmOpened DEF StreamInv, LoopInv
  <2>10. Placed'
    <3>1. TameCalls(<<>>)
      BY NoneIs DEF TameCalls
    <3>2. \A i \in 1 .. Len(want') : Tame(want'[i])
      BY <1>1 DEF StreamInv, LoopInv, Placed, chans
    <3>3. NoneLost
      BY <2>3, <2>4 DEF NoneLost
    <3> QED BY <2>6, <2>8, <3>1, <3>2, <3>3, PlacedKept DEF StreamInv, LoopInv
  <2>11. Settled' /\ Current'
    BY <2>6 DEF Settled, Current
  <2>12. LoopInv'
    BY <1>1, <2>7, <2>8, <2>9, <2>10, <2>11, NoneIs, StartHead, LightKept DEF StreamInv
  <2>13. CountInv'
    <3>1. Opens(p)
      BY <2>2, <2>4, <2>5 DEF Opens
    <3>2. /\ sc'.nClient = sc.nClient + (IF Odd(p) THEN 1 ELSE 0) /\ sc'.nClient <= AdvMax
          /\ sc'.nPushed = sc.nPushed + (IF Odd(p) THEN 0 ELSE 1) /\ sc'.nPushed <= ClientMax
          /\ sc'.maxPush \in Int /\ sc'.maxPush >= sc.maxPush /\ p <= sc'.maxPush
      BY <1>4, <2>1, <2>2, <2>5 DEF StreamInv, CountInv, Counted
    <3> QED BY <1>1, <1>4, <2>3, <2>4, <2>7, <3>1, <3>2, OpensCounts DEF StreamInv, chans
  <2> QED BY <2>12, <2>13 DEF StreamInv
<1> QED BY <1>2, <1>3, <1>4 DEF startPushWrite

-----------------------------------------------------------------------------
(* What handlerDone leaves waiting it leaves in unstartedHandlers, and it  *)
(* leaves a handler waiting only when it has filled every slot.            *)
LEMMA RestHolds ==
    ASSUME ServerInv, NEW i \in Stays
    PROVE  /\ \E k \in 1 .. Len(Rest) : Rest[k] = sc.unstarted[i]
           /\ Cardinality(Waiting \ Stays) \in Nat
           /\ Cardinality(Waiting \ Stays) >= Free
<1> DEFINE q == sc.unstarted
           first == CHOOSE x \in Stays : \A y \in Stays : x <= y
           B == {j \in Waiting : j < first}
<1>1. q \in Seq(Ids) /\ sc.handlers \in Int /\ Len(q) \in Nat
  <2>1. sc \in Conns
    BY DEF ServerInv, Types
  <2> QED BY <2>1 DEF Conns
<1>2. Waiting \subseteq 1 .. Len(q) /\ Stays \subseteq Waiting /\ Stays \subseteq Nat
  BY <1>1 DEF Waiting, Stays
<1>3. first \in Stays /\ \A y \in Stays : first <= y
  <2>1. \E x \in Stays : \A y \in Stays : x <= y
    BY <1>2, LeastNat
  <2> QED BY <2>1
<1>4. Rest = SubSeq(q, first, Len(q))
  BY DEF Rest
<1>5. Cardinality(B) >= Free
  BY <1>3 DEF Stays
<1> HIDE DEF first, q
<1>6. first \in 1 .. Len(q) /\ i \in 1 .. Len(q) /\ first <= i
  BY <1>2, <1>3
<1>7. \E k \in 1 .. Len(Rest) : Rest[k] = q[i]
  <2>1. /\ Len(Rest) = Len(q) - first + 1
        /\ \A k \in 1 .. Len(q) - first + 1 : Rest[k] = q[first + k - 1]
    BY <1>1, <1>4, <1>6
  <2>2. i - first + 1 \in 1 .. Len(Rest) /\ first + (i - first + 1) - 1 = i
    BY <1>1, <1>6, <2>1
  <2> QED BY <2>1, <2>2
<1>8. B \subseteq Waiting \ Stays
  <2>1. \A j \in B : j \in Nat /\ first \in Nat /\ j < first /\ j \in Waiting
    BY <1>2, <1>6
  <2> QED BY <1>3, <2>1
<1>9. IsFiniteSet(Waiting \ Stays)
  <2>1. IsFiniteSet(1 .. Len(q))
    BY <1>1, FS_Interval
  <2> QED BY <1>2, <2>1, FS_Subset
<1>10. /\ Cardinality(Waiting \ Stays) \in Nat /\ Cardinality(B) \in Nat
       /\ Cardinality(B) <= Cardinality(Waiting \ Stays)
  <2> HIDE DEF B
  <2> QED BY <1>8, <1>9, FS_Subset, FS_CardinalityType
<1>11. Free \in Int
  BY <1>1, AdvMaxAssumption DEF Free
<1> QED BY <1>5, <1>7, <1>10, <1>11 DEF q

LEMMA WaitingFinite == ASSUME ServerInv PROVE IsFiniteSet(Waiting)
<1> DEFINE n == Len(sc.unstarted)
<1>1. sc.unstarted \in Seq(Ids)
  BY Facts DEF ConnKept, Conns
<1>2. n \in Nat /\ Waiting \subseteq 1 .. n
  BY <1>1 DEF Waiting
<1> HIDE DEF n
<1>3. IsFiniteSet(1 .. n)
  BY <1>2, FS_Interval
<1> QED BY <1>2, <1>3, FS_Subset

(* It starts no handler that it leaves in unstartedHandlers ...            *)
LEMMA RestIs ==
    ASSUME ServerInv
    PROVE  \E d \in Nat : \A k \in 1 .. Len(Rest) :
              d + k \in 1 .. Len(sc.unstarted) /\ Rest[k] = sc.unstarted[d + k] /\ d + k \notin Waiting \ Stays
<1> DEFINE q == sc.unstarted
           first == CHOOSE x \in Stays : \A y \in Stays : x <= y
<1>1. q \in Seq(Ids) /\ Len(q) \in Nat /\ sc.handlers \in Int
  BY Facts DEF ConnKept, Conns
<1>2. Waiting \subseteq 1 .. Len(q) /\ Stays \subseteq Waiting /\ Stays \subseteq Nat
  BY <1>1 DEF Waiting, Stays
<1>3. CASE Stays = {}
  <2>1. Rest = <<>>
    BY <1>3 DEF Rest
  <2>2. \A k \in 1 .. Len(Rest) : FALSE
    BY <2>1, NoneIs
  <2>3. 0 \in Nat
    OBVIOUS
  <2> QED BY <2>2, <2>3
<1>4. CASE Stays # {}
  <2>1. first \in Stays
    <3>1. \E x \in Stays : \A y \in Stays : x <= y
      BY <1>2, <1>4, LeastNat
    <3> QED BY <3>1
  <2>2. Rest = SubSeq(q, first, Len(q))
    BY <1>4 DEF Rest
  <2> HIDE DEF first
  <2>3. first \in 1 .. Len(q) /\ Cardinality({j \in Waiting : j < first}) >= Free
    BY <1>2, <2>1 DEF Stays
  <2> DEFINE d == first - 1
  <2>4. d \in Nat /\ \A k \in 1 .. Len(Rest) : /\ d + k \in 1 .. Len(q) /\ Rest[k] = q[d + k] /\ first <= d + k
    <3> HIDE DEF q
    <3>1. Len(Rest) = Len(q) - first + 1 /\ \A k \in 1 .. Len(q) - first + 1 : Rest[k] = q[first + k - 1]
      BY <1>1, <2>2, <2>3
    <3>2. \A k \in 1 .. Len(Rest) : d + k = first + k - 1 /\ d + k \in 1 .. Len(q) /\ first <= d + k
      BY <1>1, <2>3, <3>1
    <3>3. d \in Nat
      BY <2>3
    <3> HIDE DEF d
    <3> QED BY <3>1, <3>2, <3>3
  <2> HIDE DEF d
  <2>5. ASSUME NEW i \in Waiting, first <= i PROVE i \in Stays
    <3> DEFINE A == {j \in Waiting : j < first}
               B == {j \in Waiting : j < i}
    <3>1. A \subseteq B
      <4>1. first \in Int /\ i \in Int /\ \A j \in Waiting : j \in Int
        BY <1>2, <2>3
      <4>2. \A j \in Waiting : j < first => j < i
        BY <2>5, <4>1
      <4> QED BY <4>2
    <3>2. IsFiniteSet(B)
      <4>1. B \subseteq Waiting /\ IsFiniteSet(Waiting)
        BY WaitingFinite
      <4> QED BY <4>1, FS_Subset
    <3>3. Cardinality(A) >= Free
      BY <2>3
    <3>4. Free \in Int
      BY <1>1, AdvMaxAssumption DEF Free
    <3> HIDE DEF A, B
    <3>5. Cardinality(A) <= Cardinality(B) /\ Cardinality(A) \in Nat /\ Cardinality(B) \in Nat
      BY <3>1, <3>2, FS_Subset, FS_CardinalityType
    <3>6. Cardinality(B) >= Free
      BY <3>3, <3>4, <3>5
    <3> QED BY <3>6 DEF B, Stays
  <2>6. \A k \in 1 .. Len(Rest) : d + k \notin Waiting \ Stays
    BY <2>4, <2>5
  <2> QED BY <2>4, <2>6
<1> QED BY <1>3, <1>4

(* ... and no more of them than there are free slots.                      *)
LEMMA StartsFew ==
    ASSUME ServerInv
    PROVE  /\ IsFiniteSet(Waiting \ Stays) /\ Cardinality(Waiting \ Stays) \in Nat
           /\ Cardinality(Waiting \ Stays) = 0 \/ Cardinality(Waiting \ Stays) <= Free
<1> DEFINE q == sc.unstarted
           G == Waiting \ Stays
<1>1. q \in Seq(Ids) /\ Len(q) \in Nat /\ sc.handlers \in Int
  BY Facts DEF ConnKept, Conns
<1>2. Waiting \subseteq 1 .. Len(q)
  BY <1>1 DEF Waiting
<1>3. IsFiniteSet(Waiting)
  BY WaitingFinite
<1>4. IsFiniteSet(G) /\ Cardinality(G) \in Nat
  BY <1>3, FS_Subset, FS_CardinalityType
<1>5. CASE G = {}
  BY <1>4, <1>5, FS_EmptySet
<1>6. CASE G # {}
  <2> DEFINE D == {k \in Nat : Len(q) - k \in G}
  <2>1. D \subseteq Nat /\ D # {}
    <3>1. PICK i \in G : TRUE
      BY <1>6
    <3>2. Len(q) - i \in Nat /\ Len(q) - (Len(q) - i) = i
      BY <1>1, <1>2
    <3>3. Len(q) - i \in D
      BY <3>2
    <3> HIDE DEF G
    <3> QED BY <3>3
  <2>2. PICK k \in D : \A y \in D : k <= y
    <3> HIDE DEF D
    <3> QED BY <2>1, LeastNat
  <2> DEFINE m == Len(q) - k
             B == {j \in Waiting : j < m}
  <2>3. m \in G /\ m \in Int /\ \A i \in G : i <= m
    <3>1. m \in G /\ k \in Nat /\ m \in Int
      BY <1>1, <2>2
    <3>2. ASSUME NEW i \in G PROVE i <= m
      <4>1. i \in Int /\ Len(q) - i \in Nat /\ Len(q) - (Len(q) - i) = i
        BY <1>1, <1>2
      <4>2. Len(q) - i \in D
        BY <4>1
      <4>3. k <= Len(q) - i
        BY <2>2, <4>2
      <4> QED BY <1>1, <3>1, <4>1, <4>3
    <3> QED BY <3>1, <3>2
  <2> HIDE DEF m
  <2>4. ~(Cardinality(B) >= Free)
    BY <2>3 DEF Stays
  <2>5. G \ {m} \subseteq B
    <3>1. \A i \in G : i \in Int /\ i \in Waiting /\ (i # m => i < m)
      BY <1>2, <2>3
    <3> QED BY <3>1
  <2>6. IsFiniteSet(B)
    BY <1>3, FS_Subset
  <2> HIDE DEF B, G
  <2>7. Cardinality(G \ {m}) = Cardinality(G) - 1
    BY <1>4, <2>3, FS_RemoveElement
  <2>8. Cardinality(G \ {m}) <= Cardinality(B) /\ Cardinality(B) \in Nat
    BY <2>5, <2>6, FS_Subset, FS_CardinalityType
  <2>9. Free \in Int
    BY <1>1, AdvMaxAssumption DEF Free
  <2>10. Cardinality(G) <= Free
    BY <1>4, <2>4, <2>7, <2>8, <2>9
  <2> QED BY <1>4, <2>10 DEF G
<1> QED BY <1>5, <1>6

LEMMA handlerDoneStreams == ASSUME ServerInv, StreamInv, handlerDone PROVE StreamInv'
<1> DEFINE G == Waiting \ Stays
           q == sc.unstarted
           go == {q[i] : i \in G}
           c == Cardinality(G)
           n == sc.handlers - 1 + c
           x == Rest
<1>1. /\ sc' = [sc EXCEPT !.handlers = n, !.unstarted = x]
      /\ h' = [s \in Ids |-> IF s \in go THEN [h[s] EXCEPT !.pc = "run"] ELSE h[s]]
      /\ Iterate(<<>>) /\ AtSelect /\ todo = <<>> /\ phase = "serving"
      /\ msgs # <<>> /\ msgs' = Tail(msgs) /\ Head(msgs)[1] = "done"
      /\ UNCHANGED <<phase, str, out, want>>
  BY DEF handlerDone, AtSelect
<1>2. sc \in Conns /\ q \in Seq(Ids) /\ Len(q) \in Nat /\ sc.handlers \in Int /\ h \in [Ids -> HandlerRecs]
      /\ AdvMax \in Nat
  BY AdvMaxAssumption DEF ServerInv, Types, Conns
<1>3. /\ sc'.handlers = n /\ sc'.unstarted = x /\ sc'.nClient = sc.nClient /\ sc'.nPushed = sc.nPushed
      /\ sc'.maxPush = sc.maxPush /\ Sends(sc')
  <2> HIDE DEF n, x
  <2> QED BY <1>1, <1>2 DEF Conns, Sends, MayPop
<1>4. G \subseteq 1 .. Len(q) /\ IsFiniteSet(G) /\ c \in Nat /\ (c = 0 \/ c <= Free)
  <2>1. G \subseteq 1 .. Len(q)
    BY <1>2 DEF Waiting
  <2> QED BY <2>1, StartsFew
<1>5. \A i \in 1 .. Len(q) : q[i] \in Ids /\ h[q[i]].pc = "queued"
  BY <1>2 DEF StreamInv, CountInv, Slotted
<1>6. \A i, j \in 1 .. Len(q) : q[i] = q[j] => i = j
  BY DEF StreamInv, CountInv, Slotted
<1>7. go \subseteq Ids /\ \A s \in go : h[s].pc = "queued"
  BY <1>4, <1>5
<1>8. \A s \in Ids : /\ s \in go => h'[s].pc = "run"
                     /\ s \notin go => h'[s] = h[s]
  <2> HIDE DEF go
  <2>1. \A s \in Ids : h[s] \in HandlerRecs /\ h'[s] = IF s \in go THEN [h[s] EXCEPT !.pc = "run"] ELSE h[s]
    BY <1>1, <1>2
  <2>2. \A s \in Ids : [h[s] EXCEPT !.pc = "run"].pc = "run"
    BY <2>1 DEF HandlerRecs
  <2> QED BY <2>1, <2>2
<1>9. Cardinality(go) = c /\ IsFiniteSet(go)
  <2> DEFINE f == [i \in G |-> q[i]]
  <2>1. f \in [G -> go]
    OBVIOUS
  <2>2. \A i, j \in G : f[i] = f[j] => i = j
    BY <1>4, <1>6
  <2>3. \A y \in go : \E i \in G : f[i] = y
    OBVIOUS
  <2> HIDE DEF f, go, G
  <2>4. f \in Bijection(G, go)
    BY <2>1, <2>2, <2>3 DEF Bijection, Injection, IsInjective, Surjection
  <2>5. ExistsBijection(G, go)
    BY <2>4 DEF ExistsBijection
  <2> QED BY <1>4, <2>5, FS_Bijection
<1>10. \A k \in 1 .. Len(x) : x[k] \in Ids /\ x[k] \notin go /\ h[x[k]].pc = "queued"
  <2>1. PICK d \in Nat : \A k \in 1 .. Len(x) : d + k \in 1 .. Len(q) /\ x[k] = q[d + k] /\ d + k \notin G
    BY RestIs
  <2> HIDE DEF x
  <2> SUFFICES ASSUME NEW k \in 1 .. Len(x) PROVE x[k] \in Ids /\ x[k] \notin go /\ h[x[k]].pc = "queued"
    OBVIOUS
  <2>2. d + k \in 1 .. Len(q) /\ x[k] = q[d + k] /\ d + k \notin G
    BY <2>1
  <2>3. x[k] \notin go
    BY <1>4, <1>6, <2>2
  <2> QED BY <1>5, <2>2, <2>3
<1>11. \A i, j \in 1 .. Len(x) : x[i] = x[j] => i = j
  <2>1. PICK d \in Nat : \A k \in 1 .. Len(x) : d + k \in 1 .. Len(q) /\ x[k] = q[d + k]
    BY RestIs
  <2> HIDE DEF x
  <2>2. \A i, j \in 1 .. Len(x) : x[i] = x[j] => d + i = d + j
    BY <1>6, <2>1
  <2> QED BY <2>1, <2>2
<1>12. liveIds' = liveIds /\ \A s \in Ids : live(s)' <=> live(s)
  BY <1>1 DEF liveIds, live
<1>13. LoopInv'
  <2>1. Plain(<<Check>>) /\ IsSeq(<<Check>>) /\ Grow(<<Check>>)
    <3>1. todo' = <<Check>>
      BY <1>1, EmptyFirst DEF Iterate
    <3>2. Plain(<<Check>>)
      BY PlainOne DEF Check
    <3> QED BY <1>1, <3>1, <3>2 DEF Grow, Plain
  <2>2. KeepsOut /\ NoneLost
    BY <1>1, <1>7, <1>8, SameKeepsOut DEF NoneLost
  <2>3. Calm => Calm'
    BY <1>1, <1>3, <2>2, CalmKept DEF SameWin
  <2>4. Settled'
    BY <1>1, <2>1, <2>2, <2>3, SettledKept DEF StreamInv, LoopInv, KeepsOut
  <2>5. \A i \in 1 .. Len(want') : Tame(want'[i])
    BY <1>1 DEF StreamInv, LoopInv, Placed
  <2> QED BY <1>1, <2>1, <2>2, <2>4, <2>5, LoopKept DEF StreamInv
<1>14. QueueInv'
  <2> SUFFICES ASSUME NEW s \in liveIds', h'[s].pc = "queued"
               PROVE  n >= AdvMax /\ \E k \in 1 .. Len(x) : x[k] = s
    BY <1>3 DEF QueueInv
  <2>1. s \in liveIds /\ s \in Ids /\ s \notin go /\ h[s].pc = "queued"
    BY <1>8, <1>12 DEF liveIds
  <2>2. PICK i \in 1 .. Len(q) : q[i] = s
    BY <2>1 DEF StreamInv, CountInv, QueueInv
  <2>3. i \in Stays
    <3>1. i \in Waiting
      BY <1>2, <2>1, <2>2 DEF Waiting, liveIds
    <3> QED BY <2>1, <2>2, <3>1
  <2>4. (\E k \in 1 .. Len(x) : x[k] = s) /\ c >= AdvMax - (sc.handlers - 1)
    BY <2>2, <2>3, RestHolds DEF Free
  <2> HIDE DEF x, c
  <2>5. n >= AdvMax
    BY <1>2, <1>4, <2>4
  <2> QED BY <2>4, <2>5
<1>15. Slotted'
  <2>1. Busy' = Busy \cup go /\ Busy \cap go = {} /\ Busy \in SUBSET Ids
    <3>1. \A s \in Ids : s \in Busy' <=> s \in Busy \/ s \in go
      <4> HIDE DEF go
      <4> QED BY <1>8 DEF Busy, Started
    <3>2. Busy' \subseteq Ids /\ Busy \subseteq Ids
      BY DEF Busy
    <3>3. \A s \in go : s \notin Busy
      <4> HIDE DEF go
      <4> QED BY <1>7 DEF Busy, Started
    <3> HIDE DEF go
    <3> QED BY <1>7, <3>1, <3>2, <3>3
  <2>2. /\ sc.handlers = Cardinality(Busy) + Cardinality(Dones(msgs))
        /\ Cardinality(Mine(Busy)) <= AdvMax
    BY <1>1 DEF StreamInv, CountInv, Slotted, Mine
  <2>3. /\ Cardinality(Dones(msgs')) = Cardinality(Dones(msgs)) - 1
        /\ Cardinality(Dones(msgs')) \in Nat /\ Cardinality(Dones(msgs)) \in Nat
    <3>1. IsSeq(msgs) /\ IsSeq(msgs')
      <4>1. IsSeq(msgs')
        BY <1>1, MsgsTail
      <4> QED BY <4>1, Channels
    <3> QED BY <1>1, <3>1, DonesLess, DonesFinite
  <2>4. /\ IsFiniteSet(Busy) /\ Cardinality(Busy) \in Nat
        /\ Cardinality(Mine(Busy')) \in Nat /\ Cardinality(Mine(Busy')) <= Cardinality(Busy')
    <3> HIDE DEF go
    <3>1. Busy' \in SUBSET Ids
      BY <1>7, <2>1
    <3> QED BY <2>1, <3>1, CountFinite
  <2>5. Cardinality(Busy') = Cardinality(Busy) + c
    <3> HIDE DEF go, c
    <3>1. Cardinality(Busy \cup go) = Cardinality(Busy) + Cardinality(go) - Cardinality(Busy \cap go)
      BY <1>9, <2>4, FS_Union
    <3>2. Cardinality(Busy \cap go) = 0
      BY <2>1, FS_EmptySet
    <3> QED BY <1>4, <1>9, <2>1, <2>4, <3>1, <3>2
  <2>6. n = Cardinality(Busy') + Cardinality(Dones(msgs'))
    <3> HIDE DEF c
    <3> QED BY <1>2, <1>4, <2>2, <2>3, <2>4, <2>5
  <2>7. Cardinality(Mine(Busy')) <= AdvMax
    <3>1. CASE c = 0
      <4>1. go = {}
        <5>1. G = {}
          <6> HIDE DEF G
          <6> QED BY <1>4, <3>1, FS_EmptySet
        <5> QED BY <5>1
      <4> HIDE DEF go
      <4> QED BY <2>1, <2>2, <4>1
    <3>2. CASE c # 0
      <4> HIDE DEF c
      <4>1. c <= AdvMax - (sc.handlers - 1)
        BY <1>4, <3>2 DEF Free
      <4>2. n <= AdvMax
        BY <1>2, <1>4, <4>1
      <4> QED BY <1>2, <2>3, <2>4, <2>5, <2>6, <4>2, <1>4
    <3> QED BY <3>1, <3>2
  <2>8. \A k \in 1 .. Len(x) : h'[x[k]].pc = "queued"
    <3> HIDE DEF x, go
    <3> QED BY <1>8, <1>10
  <2> HIDE DEF x, n
  <2> QED BY <1>3, <1>11, <2>6, <2>7, <2>8 DEF Slotted, Mine
<1>16. Pushed'
  <2>1. \A s \in Ids : h'[s].pc # "none" => h[s].pc # "none"
    <3> HIDE DEF go
    <3> QED BY <1>7, <1>8
  <2> QED BY <1>3, <1>12, <2>1 DEF StreamInv, CountInv, Pushed
<1>17. Counted'
  BY <1>3, <1>12 DEF StreamInv, CountInv, Counted
<1> QED BY <1>13, <1>14, <1>15, <1>16, <1>17 DEF StreamInv, CountInv

-----------------------------------------------------------------------------
(* A call below the next one is still to be made after it.                 *)
LEMMA Waits ==
    ASSUME ServerInv, todo # <<>>, NEW items, IsSeq(items), Grow(items), phase' = "serving",
           NEW i \in 1 .. Len(todo), todo[i][1] # Head(todo)[1]
    PROVE  \E j \in 1 .. Len(todo') : todo'[j] = todo[i]
<1>1. i \in 2 .. Len(todo)
  <2>1. i # 1 /\ Len(todo) \in Nat
    BY TailSeq
  <2> QED BY <2>1
<1> QED BY <1>1, GrowKeeps

LEMMA scheduleFrameWriteStreams == ASSUME ServerInv, StreamInv, scheduleFrameWrite PROVE StreamInv'
<1> DEFINE items == IF out.cur # None \/ InLoop THEN <<>> ELSE <<<<"loop">>>>
<1>1. todo # <<>> /\ Head(todo)[1] = "sched" /\ Then(items) /\ UNCHANGED <<phase, sc, str, out, h, chans>>
  BY DEF scheduleFrameWrite, At
<1>2. Plain(<<<<"loop">>>>) /\ Len(<<<<"loop">>>>) = 1 /\ <<<<"loop">>>>[1] = <<"loop">>
      /\ \A i \in 1 .. Len(<<<<"loop">>>>) : <<<<"loop">>>>[i] = <<"loop">>
  BY PlainOne, OneIs
<1>3. Plain(items) /\ IsSeq(items) /\ Grow(items)
  <2>1. Plain(items)
    BY <1>2, PlainEmpty
  <2> HIDE DEF items
  <2> QED BY <1>1, <2>1, ThenGrows DEF Plain
<1>4. Settled'
  <2>1. CASE out.cur # None \/ InLoop
    <3> SUFFICES ASSUME phase' = "serving", ~out'.async PROVE Pend(todo')
      BY DEF Settled
    <3> HIDE DEF items
    <3>1. PICK i \in 1 .. Len(todo) : todo[i][1] \in {"loop", "wrote"}
      BY <1>1, <2>1 DEF InLoop, StreamInv, LoopInv, Current
    <3>2. \E j \in 1 .. Len(todo') : todo'[j] = todo[i]
      BY <1>1, <1>3, <3>1, Waits
    <3> QED BY <3>1, <3>2 DEF Pend, BusyCall, Busily
  <2>2. CASE ~(out.cur # None \/ InLoop)
    <3>1. items = <<<<"loop">>>>
      BY <2>2
    <3>2. 1 \in 1 .. Len(items) /\ items[1][1] \in Busily
      BY <1>2, <3>1 DEF Busily
    <3> HIDE DEF items
    <3> QED BY <1>3, <3>2, SettledByCall
  <2> QED BY <2>1, <2>2
<1>5. Current'
  <2> HIDE DEF items
  <2> QED BY <1>1, <1>3, CurrentKept DEF StreamInv, LoopInv
<1>6. \A i \in 1 .. Len(items) : MildCall(items[i])
  <2>1. MildCall(<<"loop">>)
    BY DEF MildCall
  <2> QED BY <1>2, <2>1, NoneIs
<1>7. out.async => out'.async /\ \A i \in 1 .. Len(items) : items[i][1] \in Updating
  <2>1. out.async => out.cur # None
    BY Facts DEF OutOK
  <2> QED BY <1>1, <2>1, NoneIs
<1> HIDE DEF items
<1> QED BY <1>1, <1>3, <1>4, <1>5, <1>6, <1>7, SameAll, SamePcs, QuietKept

LEMMA replyToWriterStreams == ASSUME ServerInv, StreamInv, replyToWriter PROVE StreamInv'
<1>1. /\ todo # <<>> /\ Head(todo)[1] = "reply" /\ Then(<<>>) /\ UNCHANGED <<phase, sc, str, out, chans>>
      /\ h' = [h EXCEPT ![arg.s].done = TRUE] \/ h' = h
  BY DEF replyToWriter, At
<1>2. SamePc(h')
  <2>1. h \in [Ids -> HandlerRecs]
    BY Facts
  <2>2. \A s \in Ids : h'[s].pc = h[s].pc
    BY <1>1, <2>1 DEF HandlerRecs
  <2> QED BY <2>2 DEF SamePc
<1>3. Plain(<<>>) /\ IsSeq(<<>>) /\ Grow(<<>>)
  BY <1>1, PlainEmpty, ThenGrows DEF Plain
<1>4. Settled' /\ Current'
  <2>1. Calm => Calm'
    BY <1>1, SameAll, SameKeepsOut, CalmKept
  <2> QED BY <1>1, <1>3, <2>1, SettledKept, CurrentKept DEF StreamInv, LoopInv, Busily
<1> QED BY <1>1, <1>2, <1>3, <1>4, NoneIs, SameAll, QuietKept DEF Updating

LEMMA sendWindowUpdateStreams == ASSUME ServerInv, StreamInv, sendWindowUpdate PROVE StreamInv'
<1> DEFINE a == Added(IF arg = 0 THEN sc ELSE str[arg], Head(todo)[3])
           w == <<"write", Ctl("wu", arg)>>
           items == IF a.send = 0 THEN <<>> ELSE <<w>>
<1>1. /\ todo # <<>> /\ Head(todo)[1] = "window" /\ UNCHANGED <<phase, out, h, chans>> /\ Then(items)
      /\ sc' = [sc EXCEPT !.avail = a.avail, !.unsent = a.unsent] \/ sc' = sc
      /\ str' = [str EXCEPT ![arg].avail = a.avail, ![arg].unsent = a.unsent] \/ str' = str
  BY DEF sendWindowUpdate, At
<1>2. Slots(sc') /\ Sends(sc')
  <2> HIDE DEF a
  <2>1. CASE sc' = [sc EXCEPT !.avail = a.avail, !.unsent = a.unsent]
    BY <2>1, SlotsKept, SendsKept
  <2> QED BY <1>1, <2>1, SameAll
<1>3. SameLive(str') /\ SameWin(str')
  <2> HIDE DEF a
  <2>1. CASE str' = [str EXCEPT ![arg].avail = a.avail, ![arg].unsent = a.unsent]
    BY <2>1, LiveKept, WinKept
  <2> QED BY <1>1, <2>1, SameAll
<1>4. Plain(<<w>>) /\ \A i \in 1 .. Len(<<w>>) : <<w>>[i] = w
  <2>1. Tame(w[2])
    BY CtlTame
  <2> HIDE DEF w
  <2> QED BY <2>1, PlainOne, OneIs DEF w
<1>5. MildCall(w) /\ w[1] \in Updating
  BY DEF MildCall, Mild, Ctl, Out, Updating
<1>6. /\ Plain(items) /\ IsSeq(items) /\ Grow(items)
      /\ \A i \in 1 .. Len(items) : MildCall(items[i]) /\ items[i][1] \in Updating
  <2> HIDE DEF w, a
  <2>1. Plain(items)
    BY <1>4, PlainEmpty
  <2>2. \A i \in 1 .. Len(items) : MildCall(items[i]) /\ items[i][1] \in Updating
    BY <1>4, <1>5, NoneIs
  <2> HIDE DEF items
  <2> QED BY <1>1, <2>1, <2>2, ThenGrows DEF Plain
<1> HIDE DEF items
<1>7. Settled' /\ Current'
  <2>1. Calm => Calm'
    BY <1>1, <1>2, <1>3, SameKeepsOut, CalmKept
  <2> QED BY <1>1, <1>6, <2>1, SettledKept, CurrentKept DEF StreamInv, LoopInv, Busily
<1> QED BY <1>1, <1>2, <1>3, <1>6, <1>7, SamePcs, QuietKept

(* The loop of scheduleFrameWrite, before a frame is taken and at its end. *)
LEMMA LoopHead == ASSUME At("loop") PROVE todo # <<>> /\ Head(todo)[1] = "loop" /\ Head(todo)[1] \notin Updating
BY DEF At, Updating

LEMMA HeadBack ==
    ASSUME ServerInv, todo # <<>>
    PROVE  todo = <<Head(todo)>> \o Tail(todo)
<1>1. PICK S : todo \in Seq(S)
  BY Facts DEF CallsOK, IsSeq
<1> QED BY <1>1

LEMMA LoopFlushStreams == ASSUME ServerInv, StreamInv, LoopFlush PROVE StreamInv'
<1> DEFINE c == Head(todo)
           x == Ctl("flush", 0)
<1>1. /\ At("loop") /\ UNCHANGED <<phase, todo, sc, str, h, chans>>
      /\ out' = [out EXCEPT !.cur = x, !.async = TRUE, !.flush = FALSE]
  BY DEF LoopFlush
<1>2. out'.async /\ out'.ctl = out.ctl /\ out'.q = out.q
  <2>1. out \in Outs
    BY Facts DEF OutOK
  <2> HIDE DEF x
  <2> QED BY <1>1, <2>1 DEF Outs
<1>3. Settled' /\ Current'
  BY <1>2 DEF Settled, Current
<1>4. Plain(<<c>>) /\ Grow(<<c>>)
  <2>1. todo' = <<c>> \o Tail(todo)
    BY <1>1, LoopHead, HeadBack
  <2> QED BY <1>1, <2>1, LoopHead, PlainOne DEF Grow
<1>5. EndsBelow => \A i \in 1 .. Len(<<c>>) : MildCall(<<c>>[i])
  <2> HIDE DEF c
  <2>1. \A i \in 1 .. Len(<<c>>) : <<c>>[i] = c
    BY OneIs
  <2> QED BY <2>1, Below DEF c, StreamInv, LoopInv
<1> HIDE DEF c
<1> QED BY <1>1, <1>2, <1>3, <1>4, <1>5, LoopHead, SameAll, SamePcs, QuietKept

LEMMA DrainedCalm == ASSUME Drained PROVE Calm
<1>1. MildQueue(<<>>)
  BY NoneIs DEF MildQueue
<1> QED BY <1>1 DEF Drained, Calm

LEMMA LoopEndStreams == ASSUME ServerInv, StreamInv, LoopEnd PROVE StreamInv'
<1>1. At("loop") /\ Then(<<>>) /\ UNCHANGED <<phase, sc, str, out, h, chans>> /\ (out.async \/ Calm)
  BY DrainedCalm DEF LoopEnd
<1>2. Plain(<<>>) /\ IsSeq(<<>>) /\ Grow(<<>>)
  BY <1>1, LoopHead, PlainEmpty, ThenGrows DEF Plain
<1>3. Settled'
  <2>1. Calm => Calm'
    BY <1>1, SameAll, SameKeepsOut, CalmKept
  <2> QED BY <1>1, <2>1 DEF Settled
<1>4. Current'
  BY <1>1, <1>2, LoopHead, CurrentKept DEF StreamInv, LoopInv
<1> QED BY <1>1, <1>2, <1>3, <1>4, LoopHead, NoneIs, SameAll, SamePcs, QuietKept

-----------------------------------------------------------------------------
(* A frame is taken to be written.                                         *)
LEMMA Starting ==
    ASSUME ServerInv, StreamInv, At("loop"), NEW f, Start(f), UNCHANGED phase,
           out'.async = out.async, out'.cur = out.cur
    PROVE  \E items : /\ Plain(items) /\ Grow(items) /\ Settled' /\ Current'
                      /\ Mild(f) => \A i \in 1 .. Len(items) : MildCall(items[i])
<1> DEFINE c == <<"start", f>>
           d == Head(todo)
<1>1. c[1] = "start" /\ c[2] = f /\ d[1] = "loop" /\ todo # <<>>
  BY LoopHead
<1>2. todo' = <<c>> \o todo /\ todo = <<d>> \o Tail(todo) /\ IsSeq(Tail(todo))
  BY <1>1, HeadBack, TailSeq DEF Start
<1> HIDE DEF c, d
<1>3. PICK a : a = <<c>>
  OBVIOUS
<1>4. PICK b : b = <<d>>
  OBVIOUS
<1>5. Plain(a) /\ Plain(b) /\ Len(a) = 1 /\ Len(b) = 1 /\ a[1] = c /\ b[1] = d
  BY <1>1, <1>3, <1>4, PlainOne, OneIs
<1> DEFINE items == a \o b
           t == Tail(todo)
<1>6. Plain(items) /\ IsSeq(items)
  BY <1>5, PlainConcat DEF Plain
<1>7. Len(items) = 2 /\ items[1] = c /\ items[2] = d /\ 2 \in 1 .. Len(items)
  <2>1. IsSeq(a) /\ IsSeq(b) /\ 1 \in 1 .. Len(a) /\ 1 \in 1 .. Len(b)
    BY <1>5 DEF Plain
  <2>2. /\ Len(a \o b) = Len(a) + Len(b)
        /\ \A i \in 1 .. Len(a) : (a \o b)[i] = a[i]
        /\ \A i \in 1 .. Len(b) : (a \o b)[Len(a) + i] = b[i]
    BY <2>1, ConcatSeq
  <2>3. (a \o b)[1] = a[1] /\ (a \o b)[Len(a) + 1] = b[1]
    BY <2>1, <2>2
  <2> QED BY <1>5, <2>2, <2>3
<1>8. todo' = items \o t
  <2>1. PICK A : a \in Seq(A)
    BY <1>5 DEF Plain, IsSeq
  <2>2. PICK B : b \in Seq(B)
    BY <1>5 DEF Plain, IsSeq
  <2>3. PICK T : t \in Seq(T)
    BY <1>2 DEF IsSeq
  <2> DEFINE U == A \cup B \cup T
  <2>4. a \in Seq(U) /\ b \in Seq(U) /\ t \in Seq(U)
    BY <2>1, <2>2, <2>3
  <2> HIDE DEF t, U
  <2>5. (a \o b) \o t = a \o (b \o t)
    BY <2>4, ConcatAssociative
  <2> QED BY <1>2, <1>3, <1>4, <2>5 DEF t
<1> HIDE DEF items
<1>9. Grow(items)
  BY <1>1, <1>8 DEF Grow
<1>10. Settled'
  BY <1>1, <1>6, <1>7, <1>9, SettledByCall DEF Busily
<1>11. Current'
  BY <1>1, <1>6, <1>9, CurrentKept DEF StreamInv, LoopInv, d
<1>12. Mild(f) => \A i \in 1 .. Len(items) : MildCall(items[i])
  BY <1>1, <1>7 DEF MildCall
<1> QED BY <1>6, <1>9, <1>10, <1>11, <1>12

LEMMA LoopOwnStreams == ASSUME ServerInv, StreamInv, LoopOwn PROVE StreamInv'
<1> DEFINE g == [Ctl("goaway", 0) EXCEPT !.n = sc.maxClient]
<1>1. /\ At("loop") /\ UNCHANGED <<phase, str, out, h, chans>>
      /\ \/ sc' = [sc EXCEPT !.needGoAway = FALSE] /\ Start(g)
         \/ sc' = [sc EXCEPT !.needAck = FALSE] /\ Start(Ctl("ack", 0))
  BY DEF LoopOwn
<1>2. Slots(sc') /\ Sends(sc')
  BY <1>1, SlotsKept, SendsKept
<1>3. Mild(g) /\ Mild(Ctl("ack", 0))
  BY DEF Mild, Ctl, Out
<1> HIDE DEF g
<1>4. PICK items : /\ Plain(items) /\ Grow(items) /\ Settled' /\ Current'
                   /\ \A i \in 1 .. Len(items) : MildCall(items[i])
  BY <1>1, <1>3, Starting
<1> QED BY <1>1, <1>2, <1>4, LoopHead, SameAll, SamePcs, QuietKept

(* On the way to the end of a request every frame that is taken is mild.   *)
LEMMA LoopBelow ==
    ASSUME ServerInv, StreamInv, At("loop"), EndsBelow
    PROVE  Calm
BY Below, LoopHead DEF StreamInv, LoopInv

LEMMA TailMild ==
    ASSUME NEW q \in Seq(OutFrames), q # <<>>, MildQueue(q)
    PROVE  Mild(Head(q)) /\ MildQueue(Tail(q))
<1>1. Len(q) \in Nat /\ Len(q) > 0 /\ Head(q) = q[1] /\ Len(Tail(q)) = Len(q) - 1
      /\ \A i \in 1 .. Len(q) - 1 : Tail(q)[i] = q[i + 1]
  OBVIOUS
<1>2. \A i \in 1 .. Len(Tail(q)) : i + 1 \in 1 .. Len(q) /\ Tail(q)[i] = q[i + 1]
  BY <1>1
<1>3. 1 \in 1 .. Len(q)
  BY <1>1
<1> QED BY <1>1, <1>2, <1>3 DEF MildQueue

LEMMA LoopControlStreams == ASSUME ServerInv, StreamInv, LoopControl PROVE StreamInv'
<1> DEFINE x == Tail(out.ctl)
           f == Head(out.ctl)
<1>1. /\ At("loop") /\ UNCHANGED <<phase, sc, str, h, chans>> /\ MayPop /\ out.ctl # <<>> /\ Start(f)
      /\ out' = [out EXCEPT !.ctl = x, !.queued = @ - 1]
  BY DEF LoopControl
<1>2. out \in Outs /\ out.ctl \in Seq(OutFrames)
  BY Facts DEF OutOK, Outs
<1>3. out'.async = out.async /\ out'.cur = out.cur /\ out'.q = out.q /\ out'.ctl = x
  <2> HIDE DEF x
  <2> QED BY <1>1, <1>2 DEF Outs
<1>4. Calm => Mild(f) /\ MildQueue(x)
  BY <1>1, <1>2, TailMild DEF Calm
<1> HIDE DEF x, f
<1>5. PICK items : /\ Plain(items) /\ Grow(items) /\ Settled' /\ Current'
                   /\ Mild(f) => \A i \in 1 .. Len(items) : MildCall(items[i])
  BY <1>1, <1>3, Starting
<1>6. Calm => Calm'
  BY <1>1, <1>3, <1>4 DEF Calm, MayPop, Writable, Room
<1>7. Placed'
  <2>1. NoneLost
    BY <1>1, SamePcs
  <2>2. TameCalls(items) /\ IsSeq(items)
    BY <1>5 DEF Plain, TameCalls
  <2>3. \A i \in 1 .. Len(want') : Tame(want'[i])
    BY <1>1 DEF StreamInv, LoopInv, Placed, chans
  <2> QED BY <1>3, <1>5, <2>1, <2>2, <2>3, PlacedKept DEF StreamInv, LoopInv
<1>8. LoopInv'
  <2>1. \A s \in Ids : live(s) => live(s)'
    BY <1>1 DEF live
  <2> QED BY <1>1, <1>4, <1>5, <1>6, <1>7, <2>1, LoopBelow, LoopHead, LightKept DEF StreamInv
<1>9. CountInv'
  BY <1>1, SameAll, SamePcs, CountsKept DEF StreamInv, chans
<1> QED BY <1>8, <1>9 DEF StreamInv

-----------------------------------------------------------------------------
(* A frame is being written, and was written.                              *)
LEMMA startFrameWriteStreams == ASSUME ServerInv, StreamInv, startFrameWrite PROVE StreamInv'
<1> DEFINE f == arg
           c == <<"wrote", f, "ok">>
<1>1. At("start") /\ todo # <<>> /\ Head(todo)[1] = "start" /\ UNCHANGED <<sc, str, h, chans>>
  BY DEF startFrameWrite, At
<1>2. out \in Outs
  BY Facts DEF OutOK
<1>3. CASE Panic /\ UNCHANGED out
  BY <1>1, <1>3, StartPanics
<1>4. CASE Then(<<c>>) /\ out' = [out EXCEPT !.cur = f, !.flush = TRUE] /\ UNCHANGED phase
  <2>1. c[1] = "wrote" /\ c[2] = f
    OBVIOUS
  <2>2. out'.async = out.async /\ out'.ctl = out.ctl /\ out'.q = out.q
    <3> HIDE DEF f
    <3> QED BY <1>2, <1>4 DEF Outs
  <2>3. EndsBelow => MildCall(c)
    <3>1. EndsBelow => Mild(f)
      BY <1>1, Below DEF StreamInv, LoopInv, MildCall, arg
    <3> QED BY <2>1, <3>1 DEF MildCall
  <2> HIDE DEF c
  <2>4. PICK items : items = <<c>>
    OBVIOUS
  <2>5. Plain(items) /\ Len(items) = 1 /\ items[1] = c /\ Then(items) /\ \A i \in 1 .. Len(items) : items[i] = c
    BY <1>4, <2>1, <2>4, PlainOne, OneIs
  <2>6. Grow(items) /\ IsSeq(items) /\ 1 \in 1 .. Len(items)
    BY <1>1, <1>4, <2>5, ThenGrows DEF Plain
  <2>7. Settled'
    BY <2>1, <2>5, <2>6, SettledByCall DEF Busily
  <2>8. Current'
    <3>1. phase' = "serving" => \E i \in 1 .. Len(todo') : todo'[i] = items[1]
      BY <2>6, GrowKeeps
    <3> QED BY <2>1, <2>5, <3>1 DEF Current
  <2> QED BY <1>1, <2>2, <2>3, <2>5, <2>6, <2>7, <2>8, StartHead, SameAll, SamePcs, QuietKept
<1>5. CASE Then(<<>>) /\ out' = [out EXCEPT !.cur = f, !.flush = TRUE, !.async = TRUE] /\ UNCHANGED phase
  <2>1. out'.async /\ out'.ctl = out.ctl /\ out'.q = out.q
    <3> HIDE DEF f
    <3> QED BY <1>2, <1>5 DEF Outs
  <2>2. Settled' /\ Current'
    BY <2>1 DEF Settled, Current
  <2> QED BY <1>1, <1>5, <2>1, <2>2, StartHead, PlainEmpty, ThenGrows, NoneIs, SameAll, SamePcs, QuietKept
<1> QED BY <1>3, <1>4, <1>5 DEF startFrameWrite

LEMMA wroteFrameStreams == ASSUME ServerInv, StreamInv, wroteFrame PROVE StreamInv'
<1> DEFINE f == arg
           open == out.open /\ Head(todo)[3] = "ok"
           a == AfterWrite(f)
           b == <<<<"reply", f>>, Sched>>
           items == a \o b
<1>1. /\ todo # <<>> /\ Head(todo)[1] = "wrote" /\ UNCHANGED <<phase, sc, h, chans>>
      /\ out' = [out EXCEPT !.cur = None, !.async = FALSE, !.res = "none", !.open = open]
      /\ str' = (IF f.end /\ State(f) = "open" THEN [str EXCEPT ![f.s].st = "halfLocal"] ELSE str)
      /\ Then(items)
  BY DEF wroteFrame, At
<1>2. out'.cur = None /\ out'.ctl = out.ctl /\ out'.q = out.q
  <2>1. out \in Outs
    BY Facts DEF OutOK
  <2> HIDE DEF open
  <2> QED BY <1>1, <2>1 DEF Outs
<1>3. Plain(a) /\ (Mild(f) => a = <<>>)
  <2>1. \/ a = <<>>
        \/ ~Mild(f) /\ (a = <<<<"reset", f.s>>>> \/ a = <<<<"close", f.s>>>>)
    BY DEF AfterWrite, Mild
  <2>2. Plain(<<<<"reset", f.s>>>>) /\ Plain(<<<<"close", f.s>>>>)
    BY PlainOne
  <2> HIDE DEF a
  <2> QED BY <2>1, <2>2, PlainEmpty
<1>4. Plain(b) /\ Len(b) = 2 /\ b[1] = <<"reply", f>> /\ b[2] = Sched /\ Sched[1] = "sched"
  <2>1. Plain(b)
    BY PlainTwo DEF Sched
  <2> QED BY <2>1 DEF Sched
<1> HIDE DEF f, open, a, b
<1>5. Plain(items) /\ IsSeq(items) /\ IsSeq(a) /\ IsSeq(b)
  BY <1>3, <1>4, PlainConcat DEF Plain
<1>6. Len(a) + 2 \in 1 .. Len(items) /\ items[Len(a) + 2] = Sched
  <2>1. 2 \in 1 .. Len(b)
    BY <1>4
  <2>2. \A i \in 1 .. Len(b) : Len(a) + i \in 1 .. Len(a \o b) /\ (a \o b)[Len(a) + i] = b[i]
    BY <1>5, ConcatSeq
  <2> QED BY <1>4, <2>1, <2>2
<1>7. Mild(f) => \A i \in 1 .. Len(items) : MildCall(items[i])
  <2> SUFFICES ASSUME Mild(f), NEW i \in 1 .. Len(items) PROVE MildCall(items[i])
    OBVIOUS
  <2>1. \A j \in 1 .. Len(a) : FALSE
    BY <1>3, NoneIs
  <2>2. PICK j \in 1 .. Len(b) : items[i] = b[j]
    BY <1>5, <2>1, ConcatMembers
  <2>3. j = 1 \/ j = 2
    BY <1>4
  <2>4. MildCall(<<"reply", f>>) /\ MildCall(Sched)
    BY DEF MildCall, Sched, Updating
  <2> QED BY <1>4, <2>2, <2>3, <2>4
<1> HIDE DEF items
<1>8. Grow(items)
  BY <1>1, ThenGrows
<1>9. Settled' /\ Current'
  BY <1>2, <1>4, <1>5, <1>6, <1>8, SettledByCall DEF Busily, Current
<1>10. EndsBelow => \A i \in 1 .. Len(items) : MildCall(items[i])
  <2>1. EndsBelow => Mild(f)
    BY <1>1, Below DEF StreamInv, LoopInv, MildCall, f, arg
  <2> QED BY <1>7, <2>1
<1>11. SameLive(str') /\ SameWin(str')
  <2>1. CASE str' = [str EXCEPT ![f.s].st = "halfLocal"] /\ State(f) = "open"
    <3>1. str \in [Ids -> StreamRecs] /\ f.s \in Ids /\ str[f.s].st = "open"
      BY <2>1, Facts DEF State
    <3>2. SameLive(str')
      BY <2>1, <3>1 DEF SameLive, live, StreamRecs
    <3> QED BY <2>1, <3>2, WinKept
  <2> QED BY <1>1, <2>1, SameAll
<1>12. Head(todo)[1] \notin Updating
  BY <1>1 DEF Updating
<1> QED BY <1>1, <1>2, <1>5, <1>8, <1>9, <1>10, <1>11, <1>12, SameAll, SamePcs, QuietKept

-----------------------------------------------------------------------------
(* The steps that change what the scheduler holds.                         *)
LEMMA PlacedMoved ==
    ASSUME ServerInv, Placed, NEW items, Plain(items), Grow(items), UNCHANGED <<h, want>>,
           \A s \in Ids : \A i \in 1 .. Len(out'.q[s]) : out'.q[s][i].t # "rst" /\ Tame(out'.q[s][i])
    PROVE  Placed'
<1>1. TameCalls(items) /\ IsSeq(items)
  BY DEF Plain, TameCalls
<1>2. TameCalls(todo')
  BY <1>1, TameCallsKept DEF Placed
<1> QED BY <1>2 DEF Placed, TameCalls, Tame

LEMMA AppendIs ==
    ASSUME NEW q \in Seq(OutFrames), NEW f \in OutFrames
    PROVE  /\ \A i \in 1 .. Len(Append(q, f)) :
                 Append(q, f)[i] = f \/ \E j \in 1 .. Len(q) : Append(q, f)[i] = q[j]
           /\ Append(q, f) # <<>> /\ (q = <<>> => Head(Append(q, f)) = f)
           /\ q # <<>> => Head(Append(q, f)) = Head(q)
<1> DEFINE x == Append(q, f)
<1>1. /\ x \in Seq(OutFrames) /\ Len(x) = Len(q) + 1 /\ Len(q) \in Nat
      /\ \A i \in 1 .. Len(x) : x[i] = IF i = Len(q) + 1 THEN f ELSE q[i]
  OBVIOUS
<1>2. \A i \in 1 .. Len(x) : i = Len(q) + 1 \/ i \in 1 .. Len(q)
  BY <1>1
<1>3. \A i \in 1 .. Len(x) : x[i] = f \/ \E j \in 1 .. Len(q) : x[i] = q[j]
  <2> HIDE DEF x
  <2> QED BY <1>1, <1>2
<1>4. x # <<>> /\ (q = <<>> => Head(x) = f) /\ (q # <<>> => Head(x) = Head(q))
  <2>1. Head(x) = x[1] /\ 1 \in 1 .. Len(x)
    BY <1>1
  <2>2. q = <<>> => Len(q) = 0
    OBVIOUS
  <2>3. q # <<>> => Len(q) > 0 /\ Head(q) = q[1]
    OBVIOUS
  <2>4. x # <<>>
    BY <1>1
  <2> HIDE DEF x
  <2> QED BY <1>1, <2>1, <2>2, <2>3, <2>4
<1> QED BY <1>3, <1>4

LEMMA writeFrameStreams == ASSUME ServerInv, StreamInv, writeFrame PROVE StreamInv'
<1> DEFINE f == arg
           x == Append(out.ctl, f)
           y == Append(out.q[f.s], f)
<1>1. /\ todo # <<>> /\ Head(todo)[1] = "write" /\ Then(<<Sched>>) /\ UNCHANGED <<phase, sc, h, chans>>
      /\ str' = IF f.t = "headers" THEN [str EXCEPT ![f.s].wroteHeaders = TRUE] ELSE str
  BY DEF writeFrame, At
<1>2. \/ out' = out
      \/ isControl(f) /\ out' = [out EXCEPT !.ctl = x, !.queued = @ + 1]
      \/ ~isControl(f) /\ out' = [out EXCEPT !.q[f.s] = y]
  <2>1. out' = CASE Ignored(f) -> out
                 [] ~Ignored(f) /\ isControl(f) -> [out EXCEPT !.ctl = x, !.queued = @ + 1]
                 [] OTHER -> [out EXCEPT !.q[f.s] = y]
    BY Zenon DEF writeFrame
  <2> HIDE DEF x, y, f
  <2> QED BY <2>1, Zenon
<1>3. FrameOK(f, Reach) /\ f \in OutFrames /\ f.s \in Ids \cup {0}
  <2>1. FrameOK(f, Reach)
    BY <1>1, ArgOK DEF arg, CallOK
  <2> QED BY <2>1 DEF FrameOK, OutFrames
<1>4. ~isControl(f) => f.s \in Ids /\ f.t # "rst"
  BY <1>3 DEF FrameOK, isControl
<1>5. Tame(f)
  BY <1>1, TailSeq DEF StreamInv, LoopInv, Placed, TameCalls, arg
<1>6. EndsBelow => Mild(f)
  BY <1>1, Below DEF StreamInv, LoopInv, MildCall, arg
<1>7. out \in Outs /\ out.ctl \in Seq(OutFrames) /\ out.q \in [Ids -> Seq(OutFrames)]
  BY Facts DEF OutOK, Outs
<1> HIDE DEF f
<1>8. /\ out'.async = out.async /\ out'.cur = out.cur
      /\ \/ out'.ctl = out.ctl /\ out'.q = out.q
         \/ out'.ctl = x /\ out'.q = out.q
         \/ /\ out'.ctl = out.ctl /\ f.s \in Ids /\ f.t # "rst" /\ out'.q[f.s] = y
            /\ \A s \in Ids : s # f.s => out'.q[s] = out.q[s]
  <2> HIDE DEF x, y
  <2>1. CASE out' = [out EXCEPT !.ctl = x, !.queued = @ + 1]
    BY <1>7, <2>1 DEF Outs
  <2>2. CASE ~isControl(f) /\ out' = [out EXCEPT !.q[f.s] = y]
    BY <1>4, <1>7, <2>2 DEF Outs
  <2> QED BY <1>2, <2>1, <2>2
<1>9. Plain(<<Sched>>) /\ IsSeq(<<Sched>>) /\ Grow(<<Sched>>)
  <2>1. Plain(<<Sched>>)
    BY PlainOne DEF Sched
  <2> QED BY <1>1, <2>1, ThenGrows DEF Plain
<1>10. \A i \in 1 .. Len(<<Sched>>) : MildCall(<<Sched>>[i]) /\ <<Sched>>[i][1] \in Updating
  <2>1. \A i \in 1 .. Len(<<Sched>>) : <<Sched>>[i] = Sched
    BY OneIs
  <2>2. MildCall(Sched) /\ Sched[1] \in Updating
    BY DEF MildCall, Sched, Updating
  <2> QED BY <2>1, <2>2
<1>11. Settled'
  <2>1. Len(<<Sched>>) = 1 /\ <<Sched>>[1] = Sched /\ Sched[1] \in Busily
    BY OneIs DEF Busily, Sched
  <2>2. 1 \in 1 .. Len(<<Sched>>)
    BY <2>1
  <2> QED BY <1>9, <2>1, <2>2, SettledByCall
<1>12. Current'
  BY <1>1, <1>8, <1>9, CurrentKept DEF StreamInv, LoopInv
<1>13. SameLive(str') /\ SameWin(str')
  <2>1. CASE str' = [str EXCEPT ![f.s].wroteHeaders = TRUE]
    BY <2>1, LiveKept, WinKept
  <2> QED BY <1>1, <2>1, SameAll
<1>14. Placed'
  <2> SUFFICES ASSUME NEW s \in Ids, NEW i \in 1 .. Len(out'.q[s])
               PROVE  out'.q[s][i].t # "rst" /\ Tame(out'.q[s][i])
    BY <1>1, <1>9, PlacedMoved DEF StreamInv, LoopInv, chans
  <2>1. CASE out'.q[s] = out.q[s]
    BY <2>1 DEF StreamInv, LoopInv, Placed
  <2>2. CASE s = f.s /\ f.t # "rst" /\ out'.q[s] = y
    <3>1. out'.q[s][i] = f \/ \E j \in 1 .. Len(out.q[s]) : out'.q[s][i] = out.q[s][j]
      BY <1>3, <1>7, <2>2, AppendIs
    <3> QED BY <1>5, <2>2, <3>1 DEF StreamInv, LoopInv, Placed
  <2> QED BY <1>8, <2>1, <2>2
<1>15. Mild(f) /\ Calm => Calm'
  <2> SUFFICES ASSUME Mild(f), Calm, MayPop'
               PROVE  MildQueue(out'.ctl) /\ \A s \in Ids : Writable(s)' => MildQueue(out'.q[s])
    BY DEF Calm
  <2>1. MayPop /\ MildQueue(out.ctl) /\ \A s \in Ids : Writable(s) => MildQueue(out.q[s])
    BY <1>1 DEF MayPop, Calm
  <2>2. MildQueue(out'.ctl)
    <3>1. MildQueue(x)
      BY <1>3, <1>7, <2>1, AppendIs DEF MildQueue
    <3> QED BY <1>8, <2>1, <3>1
  <2>3. ASSUME NEW s \in Ids, Writable(s)' PROVE MildQueue(out'.q[s])
    <3>1. Room(s)' = Room(s)
      BY <1>1, <1>13 DEF Room, Min2, SameWin
    <3>2. CASE out'.q[s] = out.q[s]
      <4>1. Writable(s)
        BY <2>3, <3>1, <3>2 DEF Writable
      <4> QED BY <2>1, <3>2, <4>1
    <3>3. CASE s = f.s /\ out'.q[s] = y
      <4>1. out.q[s] \in Seq(OutFrames) /\ y = Append(out.q[s], f)
        BY <1>7, <3>3
      <4>2. CASE out.q[s] = <<>>
        <5>1. \A j \in 1 .. Len(out.q[s]) : FALSE
          BY <4>2, NoneIs
        <5> HIDE DEF y
        <5> QED BY <1>3, <3>3, <4>1, <5>1, AppendIs DEF MildQueue
      <4>3. CASE out.q[s] # <<>>
        <5>1. Head(out'.q[s]) = Head(out.q[s])
          BY <1>3, <3>3, <4>1, <4>3, AppendIs
        <5>2. Writable(s)
          BY <2>3, <3>1, <4>3, <5>1 DEF Writable
        <5>3. MildQueue(out.q[s])
          BY <2>1, <5>2
        <5>4. \A i \in 1 .. Len(y) : y[i] = f \/ \E j \in 1 .. Len(out.q[s]) : y[i] = out.q[s][j]
          BY <1>3, <4>1, AppendIs
        <5> HIDE DEF y
        <5> QED BY <3>3, <5>3, <5>4 DEF MildQueue
      <4> QED BY <4>2, <4>3
    <3> QED BY <1>8, <3>2, <3>3
  <2> QED BY <2>2, <2>3
<1>16. LoopInv'
  <2>1. \A s \in Ids : live(s) => live(s)'
    BY <1>13 DEF SameLive, live
  <2> QED BY <1>6, <1>8, <1>9, <1>10, <1>11, <1>12, <1>14, <1>15, <2>1, LightKept DEF StreamInv
<1>17. CountInv'
  BY <1>1, <1>13, SameAll, SamePcs, CountsKept DEF StreamInv, chans
<1> QED BY <1>16, <1>17 DEF StreamInv

LEMMA LoopStreamStreams == ASSUME ServerInv, StreamInv, NEW s \in Ids, LoopStream(s) PROVE StreamInv'
<1> DEFINE q == out.q[s]
           f == Head(q)
           k == IF f.t = "data" /\ f.n > 0 THEN Min2(f.n, Room(s)) ELSE f.n
           e == f.end /\ k = f.n
           w == f.wait /\ k = f.n
           g == [f EXCEPT !.n = k, !.end = e, !.wait = w]
           rest == [f EXCEPT !.n = f.n - k]
           x == IF k = f.n THEN Tail(q) ELSE <<rest>> \o Tail(q)
<1>1. /\ At("loop") /\ UNCHANGED <<phase, h, chans>> /\ MayPop /\ Writable(s) /\ out.ctl = <<>>
      /\ q # <<>> /\ (f.n = 0 \/ f.t # "data" \/ Room(s) > 0)
  BY DEF LoopStream, Writable
<1>2. /\ out' = [out EXCEPT !.q[s] = x] /\ Start(g)
      /\ sc' = IF f.t = "data" THEN [sc EXCEPT !.cwin = @ - k] ELSE sc
      /\ str' = IF f.t = "data" THEN [str EXCEPT ![s].win = @ - k] ELSE str
  BY Zenon DEF LoopStream
<1>3. /\ out \in Outs /\ out.q \in [Ids -> Seq(OutFrames)] /\ q \in Seq(OutFrames)
      /\ sc \in Conns /\ str \in [Ids -> StreamRecs] /\ sc.cwin \in Int /\ \A u \in Ids : str[u].win \in Int
  BY DEF ServerInv, Types, Outs, Conns, StreamRecs
<1> HIDE DEF q
<1>4. /\ f \in OutFrames /\ 1 \in 1 .. Len(q) /\ f = q[1]
      /\ \A i \in 1 .. Len(Tail(q)) : i + 1 \in 1 .. Len(q) /\ Tail(q)[i] = q[i + 1]
      /\ Tail(q) \in Seq(OutFrames)
  <2>1. /\ Len(q) \in Nat /\ Len(q) > 0 /\ f = q[1] /\ Len(Tail(q)) = Len(q) - 1
        /\ \A i \in 1 .. Len(q) - 1 : Tail(q)[i] = q[i + 1]
        /\ Tail(q) \in Seq(OutFrames)
    BY <1>1, <1>3
  <2>2. \A i \in 1 .. Len(Tail(q)) : i + 1 \in 1 .. Len(q) /\ Tail(q)[i] = q[i + 1]
    BY <2>1
  <2>3. q[1] \in OutFrames /\ 1 \in 1 .. Len(q)
    BY <1>3, <2>1
  <2> HIDE DEF f
  <2> QED BY <2>1, <2>2, <2>3
<1>5. k \in Nat /\ f.n - k \in Nat /\ f.n \in Nat
  <2>1. f.n \in Nat
    BY <1>4 DEF OutFrames
  <2>2. Room(s) \in Int
    BY <1>3 DEF Room, Min2
  <2> HIDE DEF f
  <2> QED BY <1>1, <2>1, <2>2 DEF Min2
<1> HIDE DEF f, k
<1>6. /\ g.t = f.t /\ g.s = f.s /\ g.end = e
      /\ rest \in OutFrames /\ rest.t = f.t /\ rest.s = f.s /\ rest.end = f.end
  <2> HIDE DEF e, w
  <2>1. g.t = f.t /\ g.s = f.s /\ g.end = e
    BY <1>4 DEF OutFrames
  <2>2. rest \in OutFrames /\ rest.t = f.t /\ rest.s = f.s /\ rest.end = f.end
    BY <1>4, <1>5, Zenon DEF OutFrames
  <2> QED BY <2>1, <2>2
<1> HIDE DEF g, rest
<1>7. \A i \in 1 .. Len(x) : x[i] = rest \/ \E j \in 1 .. Len(q) : x[i] = q[j]
  <2> DEFINE t == Tail(q)
  <2>1. CASE k = f.n
    <3>1. x = t
      BY <2>1
    <3> HIDE DEF x
    <3> QED BY <1>4, <3>1
  <2>2. CASE k # f.n
    <3>1. x = <<rest>> \o t
      BY <2>2
    <3>2. t \in Seq(OutFrames)
      BY <1>4
    <3> HIDE DEF x, t
    <3>3. Len(x) = Len(t) + 1 /\ Len(t) \in Nat /\ \A i \in 1 .. Len(x) : x[i] = IF i = 1 THEN rest ELSE t[i - 1]
      BY <1>6, <3>1, <3>2
    <3>4. \A i \in 1 .. Len(x) : i = 1 \/ i - 1 \in 1 .. Len(t)
      BY <3>3
    <3> QED BY <1>4, <3>3, <3>4 DEF t
  <2> QED BY <2>1, <2>2
<1> HIDE DEF x
<1>8. /\ out'.async = out.async /\ out'.cur = out.cur /\ out'.ctl = out.ctl
      /\ out'.q[s] = x /\ \A u \in Ids : u # s => out'.q[u] = out.q[u]
  BY <1>2, <1>3 DEF Outs
<1>9. /\ Slots(sc') /\ SameLive(str') /\ (MayPop' => MayPop)
      /\ sc'.cwin \in Int /\ sc'.cwin <= sc.cwin
      /\ \A u \in Ids : str'[u].win \in Int /\ str'[u].win <= str[u].win
  <2>1. CASE UNCHANGED <<sc, str>>
    <3>1. \A u \in Ids : str'[u].win \in Int /\ str'[u].win <= str[u].win
      BY <1>3, <2>1
    <3> QED BY <1>3, <2>1, <3>1, SameAll DEF MayPop
  <2>2. CASE sc' = [sc EXCEPT !.cwin = @ - k] /\ str' = [str EXCEPT ![s].win = @ - k]
    <3> DEFINE a == sc.cwin - k
               b == str[s].win - k
    <3>1. /\ sc' = [sc EXCEPT !.cwin = a] /\ str' = [str EXCEPT ![s].win = b]
          /\ a \in Int /\ b \in Int /\ a <= sc.cwin /\ b <= str[s].win
      BY <1>3, <1>5, <2>2
    <3> HIDE DEF a, b
    <3>2. sc'.cwin = a /\ sc'.inGoAway = sc.inGoAway /\ sc'.code = sc.code
      BY <1>3, <3>1 DEF Conns
    <3>3. \A u \in Ids : str'[u].win = IF u = s THEN b ELSE str[u].win
      BY <1>3, <3>1 DEF StreamRecs
    <3>4. \A u \in Ids : str'[u].win \in Int /\ str'[u].win <= str[u].win
      BY <1>3, <3>1, <3>3
    <3> QED BY <3>1, <3>2, <3>4, SlotsKept, LiveKept DEF MayPop
  <2>3. f.t = "data" \/ f.t # "data"
    OBVIOUS
  <2> QED BY <1>2, <2>1, <2>2, <2>3
<1>10. PICK items : /\ Plain(items) /\ Grow(items) /\ Settled' /\ Current'
                    /\ Mild(g) => \A i \in 1 .. Len(items) : MildCall(items[i])
  BY <1>1, <1>2, <1>8, Starting
<1>11. Placed'
  <2>1. \A i \in 1 .. Len(q) : q[i].t # "rst" /\ Tame(q[i])
    BY DEF StreamInv, LoopInv, Placed, q
  <2>2. rest.t # "rst" /\ Tame(rest)
    BY <1>4, <1>6, <2>1 DEF Tame
  <2>3. \A u \in Ids : \A i \in 1 .. Len(out'.q[u]) : out'.q[u][i].t # "rst" /\ Tame(out'.q[u][i])
    <3> SUFFICES ASSUME NEW u \in Ids, NEW i \in 1 .. Len(out'.q[u])
                 PROVE  out'.q[u][i].t # "rst" /\ Tame(out'.q[u][i])
      OBVIOUS
    <3>1. CASE u = s
      BY <1>7, <1>8, <2>1, <2>2, <3>1
    <3>2. CASE u # s
      BY <1>8, <3>2 DEF StreamInv, LoopInv, Placed
    <3> QED BY <3>1, <3>2
  <2> QED BY <1>1, <1>10, <2>3, PlacedMoved DEF StreamInv, LoopInv, chans
<1>12. Calm => MildQueue(q)
  BY <1>1 DEF Calm, q
<1>13. Calm => Mild(g)
  BY <1>4, <1>6, <1>12 DEF MildQueue, Mild
<1>14. Calm => Calm'
  <2> SUFFICES ASSUME Calm, MayPop'
               PROVE  MildQueue(out'.ctl) /\ \A u \in Ids : Writable(u)' => MildQueue(out'.q[u])
    BY DEF Calm
  <2>1. MildQueue(out.ctl) /\ \A u \in Ids : Writable(u) => MildQueue(out.q[u])
    BY <1>1 DEF Calm
  <2>2. ASSUME NEW u \in Ids, Writable(u)' PROVE MildQueue(out'.q[u])
    <3>1. CASE u = s
      <4>1. Mild(rest)
        BY <1>4, <1>6, <1>12 DEF MildQueue, Mild
      <4> QED BY <1>7, <1>8, <1>12, <3>1, <4>1 DEF MildQueue
    <3>2. CASE u # s
      <4>1. Room(u)' <= Room(u) /\ Room(u)' \in Int /\ Room(u) \in Int
        BY <1>3, <1>9 DEF Room, Min2
      <4>2. Writable(u)
        BY <1>8, <2>2, <3>2, <4>1 DEF Writable
      <4> QED BY <1>8, <2>1, <3>2, <4>2
    <3> QED BY <3>1, <3>2
  <2> QED BY <1>8, <2>1, <2>2
<1>15. LoopInv'
  <2>1. \A u \in Ids : live(u) => live(u)'
    BY <1>9 DEF SameLive, live
  <2> QED BY <1>1, <1>10, <1>11, <1>13, <1>14, <2>1, LoopBelow, LoopHead, LightKept DEF StreamInv
<1>16. CountInv'
  BY <1>1, <1>9, SamePcs, CountsKept DEF StreamInv, chans
<1> QED BY <1>15, <1>16 DEF StreamInv

-----------------------------------------------------------------------------
(* The steps between two iterations of the loop.                           *)
LEMMA IterateMoves ==
    ASSUME AtSelect, NEW items, Plain(items), Iterate(items), UNCHANGED phase, Sends(sc'), SameWin(str')
    PROVE  Moves
<1>1. Plain(items \o <<Check>>)
  <2>1. Plain(<<Check>>)
    BY PlainOne DEF Check
  <2> QED BY <2>1, PlainConcat
<1> QED BY <1>1, IterateGrows DEF Moves

LEMMA WrittenPlain == Plain(Written)
<1>1. Written = <<>> \/ Written = <<<<"wrote", out.cur, out.res>>>>
  BY DEF Written
<1>2. Plain(<<<<"wrote", out.cur, out.res>>>>)
  BY PlainOne
<1> QED BY <1>1, <1>2, PlainEmpty

LEMMA SameChans ==
    ASSUME ServerInv, StreamInv
    PROVE  /\ UNCHANGED want => \A i \in 1 .. Len(want') : Tame(want'[i])
           /\ UNCHANGED msgs => Cardinality(Dones(msgs')) = Cardinality(Dones(msgs))
BY DEF StreamInv, LoopInv, Placed

LEMMA TailTame ==
    ASSUME ServerInv, StreamInv, want # <<>>
    PROVE  Tame(Head(want)) /\ \A i \in 1 .. Len(Tail(want)) : Tame(Tail(want)[i])
<1>1. want \in Seq(OutFrames) /\ \A i \in 1 .. Len(want) : Tame(want[i])
  BY Channels DEF StreamInv, LoopInv, Placed
<1>2. Len(want) \in Nat /\ Len(want) > 0 /\ Head(want) = want[1] /\ Len(Tail(want)) = Len(want) - 1
      /\ \A i \in 1 .. Len(want) - 1 : Tail(want)[i] = want[i + 1]
  BY <1>1
<1>3. 1 \in 1 .. Len(want) /\ \A i \in 1 .. Len(Tail(want)) : i + 1 \in 1 .. Len(want) /\ Tail(want)[i] = want[i + 1]
  BY <1>2
<1> QED BY <1>1, <1>2, <1>3

LEMMA TailDones ==
    ASSUME ServerInv, msgs # <<>>, Head(msgs)[1] # "done", msgs' = Tail(msgs)
    PROVE  Cardinality(Dones(msgs')) = Cardinality(Dones(msgs))
<1>1. IsSeq(msgs)
  BY Channels
<1>2. Cardinality(Dones(msgs)) \in Nat
  BY <1>1, DonesFinite
<1> QED BY <1>1, <1>2, DonesLess

LEMMA serveWantWriteStreams == ASSUME ServerInv, StreamInv, serveWantWrite PROVE StreamInv'
<1> DEFINE f == Head(want)
           items == IF f.t = "rst" THEN <<<<"reset", f.s>>>> ELSE <<<<"write", f>>>>
<1>1. AtSelect /\ todo = <<>> /\ want # <<>> /\ want' = Tail(want) /\ Iterate(items) /\ UNCHANGED <<phase, sc, str, out, h, msgs>>
  BY DEF serveWantWrite, AtSelect
<1>2. Plain(<<<<"reset", f.s>>>>) /\ Plain(<<<<"write", f>>>>)
  BY <1>1, TailTame, PlainOne
<1>3. Plain(items)
  BY <1>2
<1> HIDE DEF items
<1>4. Moves
  BY <1>1, <1>3, SameAll, IterateMoves
<1> QED BY <1>1, <1>4, TailTame, SameChans, SameAll, SamePcs, SameKeepsOut, MovesKept

LEMMA serveWroteStreams == ASSUME ServerInv, StreamInv, serveWrote PROVE StreamInv'
<1>1. AtSelect /\ todo = <<>> /\ Iterate(Written) /\ UNCHANGED <<phase, sc, str, out, h, want, msgs>>
  BY DEF serveWrote, AtSelect, chans
<1>2. Moves
  BY <1>1, WrittenPlain, SameAll, IterateMoves
<1> QED BY <1>1, <1>2, SameChans, SameAll, SamePcs, SameKeepsOut, MovesKept

LEMMA serveReadErrorStreams == ASSUME ServerInv, StreamInv, serveReadError PROVE StreamInv'
<1>1. todo = <<>> /\ (\E o \in Orders : Return(o)) /\ UNCHANGED <<sc, str, out, h, want, msgs>>
  BY DEF serveReadError, AtSelect, chans
<1>2. Moves
  BY <1>1, ReturnMoves
<1> QED BY <1>1, <1>2, SameChans, SameAll, SamePcs, SameKeepsOut, MovesKept

(* A handler whose pc changes while it holds its slot.                     *)
LEMMA PcKept ==
    ASSUME ServerInv, NEW s \in Ids, NEW r, h' = [h EXCEPT ![s] = r],
           h[s].pc \notin {"none", "queued", "gone"}, r.pc \notin {"none", "queued", "gone"}
    PROVE  SamePc(h')
<1>1. h \in [Ids -> HandlerRecs]
  BY Facts
<1>2. \A u \in Ids : h'[u] = IF u = s THEN r ELSE h[u]
  BY <1>1
<1> QED BY <1>2 DEF SamePc

LEMMA serveBodyReadStreams == ASSUME ServerInv, StreamInv, NEW s \in Ids, serveBodyRead(s) PROVE StreamInv'
<1> DEFINE r == [h[s] EXCEPT !.pc = "run", !.n = 0]
           items == <<<<"window", 0, h[s].n>>, <<"noteBodyRead", s, h[s].n>>>>
<1>1. /\ AtSelect /\ todo = <<>> /\ h[s].pc = "reading" /\ h' = [h EXCEPT ![s] = r] /\ Iterate(items)
      /\ UNCHANGED <<phase, sc, str, out, want, msgs>>
  BY Zenon DEF serveBodyRead, AtSelect, chans
<1>2. Plain(items)
  BY PlainTwo
<1>3. r.pc = "run"
  <2>1. h[s] \in HandlerRecs
    BY Facts
  <2> QED BY <2>1 DEF HandlerRecs
<1> HIDE DEF items, r
<1>4. Moves
  BY <1>1, <1>2, SameAll, IterateMoves
<1>5. SamePc(h')
  BY <1>1, <1>3, PcKept
<1> QED BY <1>1, <1>4, <1>5, SameChans, SameAll, SameKeepsOut, MovesKept

LEMMA OpenKept == ASSUME ServerInv, NEW a, out' = [out EXCEPT !.open = a] PROVE KeepsOut
<1>1. out \in Outs
  BY Facts DEF OutOK
<1> QED BY <1>1 DEF KeepsOut, Outs

LEMMA serveTimerStreams == ASSUME ServerInv, StreamInv, serveTimer PROVE StreamInv'
<1> DEFINE w == <<"write", Ctl("ping", 0)>>
<1>1. /\ AtSelect /\ todo = <<>> /\ msgs # <<>> /\ msgs' = Tail(msgs) /\ Head(msgs)[1] # "done" /\ UNCHANGED <<str, h, want>>
  BY DEF serveTimer, AtSelect
<1>2. \/ Iterate(<<<<"goAway", "no">>>>) /\ UNCHANGED <<phase, sc, out>>
      \/ (\E o \in Orders : Return(o)) /\ UNCHANGED <<sc, out>>
      \/ Iterate(<<>>) /\ UNCHANGED <<phase, sc>> /\ (UNCHANGED out \/ out' = [out EXCEPT !.open = FALSE])
      \/ Iterate(<<w>>) /\ UNCHANGED <<phase, out>> /\ sc' = [sc EXCEPT !.ping = TRUE]
  BY Zenon DEF serveTimer
<1>3. Plain(<<<<"goAway", "no">>>>) /\ Plain(<<w>>)
  <2>1. Tame(Ctl("ping", 0))
    BY CtlTame
  <2> QED BY <2>1, PlainOne
<1> HIDE DEF w
<1>4. Slots(sc') /\ Moves /\ KeepsOut
  <2>1. CASE Iterate(<<<<"goAway", "no">>>>) /\ UNCHANGED <<phase, sc, out>>
    BY <1>1, <1>3, <2>1, SameAll, SameKeepsOut, IterateMoves
  <2>2. CASE (\E o \in Orders : Return(o)) /\ UNCHANGED <<sc, out>>
    BY <1>1, <2>2, SameAll, SameKeepsOut, ReturnMoves
  <2>3. CASE Iterate(<<>>) /\ UNCHANGED <<phase, sc>> /\ (UNCHANGED out \/ out' = [out EXCEPT !.open = FALSE])
    BY <1>1, <2>3, SameAll, SameKeepsOut, OpenKept, PlainEmpty, IterateMoves
  <2>4. CASE Iterate(<<w>>) /\ UNCHANGED <<phase, out>> /\ sc' = [sc EXCEPT !.ping = TRUE]
    BY <1>1, <1>3, <2>4, SameAll, SameKeepsOut, SlotsKept, SendsKept, IterateMoves
  <2> QED BY <1>2, <2>1, <2>2, <2>3, <2>4
<1> QED BY <1>1, <1>4, TailDones, SameChans, SameAll, SamePcs, MovesKept

LEMMA startPushStreams == ASSUME ServerInv, StreamInv, startPush PROVE StreamInv'
<1> DEFINE f == Out("push", Head(msgs)[2], 0, FALSE, TRUE)
<1>1. /\ AtSelect /\ todo = <<>> /\ msgs # <<>> /\ msgs' = Tail(msgs) /\ Head(msgs)[1] = "push"
      /\ Iterate(<<<<"write", f>>>>) \/ Iterate(<<<<"reply", f>>>>)
      /\ UNCHANGED <<phase, sc, str, out, h, want>>
  BY DEF startPush, AtSelect
<1>2. Tame(f)
  BY DEF Tame, Out
<1> HIDE DEF f
<1>3. Plain(<<<<"write", f>>>>) /\ Plain(<<<<"reply", f>>>>)
  BY <1>2, PlainOne
<1>4. Moves
  BY <1>1, <1>3, SameAll, IterateMoves
<1> QED BY <1>1, <1>4, TailDones, SameChans, SameAll, SamePcs, SameKeepsOut, MovesKept

LEMMA ConcatOne ==
    ASSUME NEW a, NEW b, IsSeq(a), IsSeq(b), Len(b) = 1
    PROVE  /\ IsSeq(a \o b) /\ Len(a) \in Nat /\ Len(a \o b) = Len(a) + 1 /\ (a \o b)[Len(a) + 1] = b[1]
           /\ \A i \in 1 .. Len(a) : (a \o b)[i] = a[i]
<1>1. IsSeq(a \o b) /\ Len(a) \in Nat /\ Len(a \o b) = Len(a) + Len(b) /\ \A i \in 1 .. Len(a) : (a \o b)[i] = a[i]
  BY ConcatSeq
<1>2. \A i \in 1 .. Len(b) : (a \o b)[Len(a) + i] = b[i]
  BY ConcatSeq
<1>3. 1 \in 1 .. Len(b)
  OBVIOUS
<1> QED BY <1>1, <1>2, <1>3

(* A frame of the client is read: the invariant's parts one by one, for    *)
(* the frame is handled when everything before it is done.                 *)
LEMMA serveReadStreams == ASSUME ServerInv, StreamInv, NEW f, serveRead(f) PROVE StreamInv'
<1> DEFINE c == <<"frame", f>>
           w == Written
           a == sc.saw \/ f.t = "settings"
<1>1. /\ phase = "serving" /\ todo = <<>> /\ todo' = (w \o <<c>>) \o <<Check>> /\ sc' = [sc EXCEPT !.saw = a]
      /\ UNCHANGED <<phase, str, out, h, want, msgs>> /\ c[1] = "frame"
  BY DEF serveRead, AtSelect, Iterate, chans
<1>2. Slots(sc') /\ Sends(sc')
  <2> HIDE DEF a
  <2> QED BY <1>1, SlotsKept, SendsKept
<1>3. Plain(w)
  BY WrittenPlain
<1> HIDE DEF c, w, a
<1>4. PICK b : b = <<c>>
  OBVIOUS
<1>5. PICK d : d = <<Check>>
  OBVIOUS
<1>6. Len(b) = 1 /\ b[1] = c /\ IsSeq(b) /\ Len(d) = 1 /\ d[1] = Check /\ IsSeq(d)
  <2>1. b \in Seq({c}) /\ d \in Seq({Check})
    BY <1>4, <1>5
  <2> QED BY <1>4, <1>5, <2>1, OneIs DEF IsSeq
<1> DEFINE m == Len(w)
<1>7. /\ m \in Nat /\ Len(todo') = m + 2
      /\ \A i \in 1 .. m : todo'[i] = w[i]
      /\ todo'[m + 1] = c /\ todo'[m + 2] = Check
  <2>1. PICK v : v = w \o b
    OBVIOUS
  <2>2. IsSeq(w)
    BY <1>3 DEF Plain
  <2>3. IsSeq(v) /\ m \in Nat /\ Len(v) = m + 1 /\ v[m + 1] = c /\ \A i \in 1 .. m : v[i] = w[i]
    BY <1>6, <2>1, <2>2, ConcatOne
  <2>4. todo' = v \o d
    BY <1>1, <1>4, <1>5, <2>1
  <2>5. Len(v \o d) = Len(v) + 1 /\ (v \o d)[Len(v) + 1] = Check /\ \A i \in 1 .. Len(v) : (v \o d)[i] = v[i]
    BY <1>6, <2>3, ConcatOne
  <2> HIDE DEF m
  <2>6. Len(todo') = m + 2 /\ todo'[m + 2] = Check /\ \A i \in 1 .. m + 1 : todo'[i] = v[i]
    <3>1. Len(todo') = Len(v) + 1 /\ todo'[Len(v) + 1] = Check /\ \A i \in 1 .. Len(v) : todo'[i] = v[i]
      BY <2>4, <2>5
    <3>2. Len(v) + 1 = m + 2
      BY <2>3
    <3> QED BY <2>3, <3>1, <3>2
  <2> QED BY <2>3, <2>6
<1> HIDE DEF m
<1>8. \A i \in 1 .. Len(todo') : \/ i \in 1 .. m /\ todo'[i] = w[i]
                                 \/ i = m + 1 /\ todo'[i] = c
                                 \/ i = m + 2 /\ todo'[i] = Check
  BY <1>7
<1>9. \A i \in 1 .. m : w[i][1] \notin {"endStream", "frame"} /\ (w[i][1] = "write" => Tame(w[i][2]))
  BY <1>3 DEF Plain, m
<1>10. FrameLast'
  <2> SUFFICES ASSUME NEW i \in 1 .. Len(todo'), todo'[i][1] = "frame", NEW j \in 1 .. Len(todo'), i < j
               PROVE  todo'[j][1] = "check"
    BY <1>1 DEF FrameLast
  <2>1. i = m + 1
    BY <1>8, <1>9 DEF Check
  <2>2. j = m + 2
    BY <1>7, <1>8, <2>1
  <2> QED BY <1>7, <2>2 DEF Check
<1>11. out.async \/ (out.cur = None /\ Calm)
  <2>1. \A i \in 1 .. Len(todo) : FALSE
    BY <1>1, NoneIs
  <2> QED BY <1>1, <2>1 DEF StreamInv, LoopInv, Current, Settled, Pend
<1>12. Current' /\ Settled'
  <2>1. Calm => Calm'
    BY <1>1, <1>2, SameAll, SameKeepsOut, CalmKept
  <2> QED BY <1>1, <1>11, <2>1 DEF Current, Settled
<1>13. EndsLive'
  <2>1. \A i \in 1 .. Len(todo') : todo'[i][1] # "endStream"
    BY <1>1, <1>8, <1>9 DEF Check
  <2> QED BY <2>1 DEF EndsLive
<1>14. Placed'
  <2>1. TameCalls(todo')
    BY <1>1, <1>8, <1>9 DEF TameCalls, Check
  <2> QED BY <1>1, <2>1 DEF StreamInv, LoopInv, Placed, TameCalls, Tame
<1>15. CountInv'
  BY <1>1, <1>2, SameAll, SamePcs, CountsKept DEF StreamInv
<1> QED BY <1>10, <1>12, <1>13, <1>14, <1>15 DEF StreamInv, LoopInv

-----------------------------------------------------------------------------
(* What handlers, timers and the writing goroutine do while the loop is    *)
(* between two iterations.                                                 *)
LEMMA BetweenKept ==
    ASSUME ServerInv, StreamInv, todo = <<>>, UNCHANGED <<phase, todo>>, Slots(sc'), Sends(sc'), SameLive(str'),
           SameWin(str'), SamePc(h'), KeepsOut, \A i \in 1 .. Len(want') : Tame(want'[i]),
           Cardinality(Dones(msgs')) = Cardinality(Dones(msgs))
    PROVE  StreamInv'
<1>1. Moves
  BY StayGrows, PlainEmpty DEF Moves
<1> QED BY <1>1, MovesKept

LEMMA TameMore ==
    ASSUME ServerInv, StreamInv, NEW f \in OutFrames, Tame(f), want' = Append(want, f)
    PROVE  \A i \in 1 .. Len(want') : Tame(want'[i])
<1>1. want \in Seq(OutFrames) /\ \A i \in 1 .. Len(want) : Tame(want[i])
  BY Channels DEF StreamInv, LoopInv, Placed
<1>2. \A i \in 1 .. Len(want') : want'[i] = f \/ \E j \in 1 .. Len(want) : want'[i] = want[j]
  BY <1>1, AppendIs
<1> QED BY <1>1, <1>2

LEMMA AskedStreams ==
    ASSUME ServerInv, StreamInv, NEW s \in Ids, NEW f, f \in OutFrames, f.s = s, NEW next \in HandlerRecs,
           next.pc \in {"wait", "over"}, h[s].pc = "run", Between, Ask(s, f, next), UNCHANGED <<str, msgs>>, KeepServe
    PROVE  StreamInv'
<1> DEFINE r == [next EXCEPT !.pc = IF next.fin THEN "over" ELSE "run"]
<1>1. r.pc \in {"over", "run"}
  BY DEF HandlerRecs
<1>2. \/ h' = [h EXCEPT ![s] = next] /\ want' = Append(want, f)
      \/ h' = [h EXCEPT ![s] = r] /\ UNCHANGED want
  BY Zenon DEF Ask
<1> HIDE DEF r
<1>3. SamePc(h')
  <2>1. CASE h' = [h EXCEPT ![s] = next]
    BY <2>1, PcKept
  <2>2. CASE h' = [h EXCEPT ![s] = r]
    BY <1>1, <2>2, PcKept
  <2> QED BY <1>2, <2>1, <2>2
<1>4. Tame(f)
  BY DEF Tame
<1>5. \A i \in 1 .. Len(want') : Tame(want'[i])
  BY <1>2, <1>4, TameMore, SameChans
<1>6. todo = <<>> /\ UNCHANGED <<phase, todo, sc, str, out, msgs>>
  BY DEF Between, KeepServe
<1> QED BY <1>3, <1>5, <1>6, SameChans, SameAll, SameKeepsOut, BetweenKept

LEMMA handlerHeadersStreams == ASSUME ServerInv, StreamInv, NEW s \in Ids, handlerHeaders(s) PROVE StreamInv'
<1> DEFINE next == [h[s] EXCEPT !.pc = "wait", !.sent = TRUE]
           e == h[s].head
           f == Out("headers", s, 0, e, TRUE)
<1>1. h[s].pc = "run" /\ Between /\ Ask(s, f, next) /\ UNCHANGED <<str, msgs>> /\ KeepServe
  BY DEF handlerHeaders, Running
<1>2. h[s] \in HandlerRecs
  BY Facts
<1>3. next \in HandlerRecs /\ next.pc = "wait"
  BY <1>2, Zenon DEF HandlerRecs
<1>4. e \in BOOLEAN
  BY <1>2 DEF HandlerRecs
<1> HIDE DEF e, next
<1>5. f \in OutFrames /\ f.s = s
  BY <1>4, AskedOK DEF FrameOK, Out
<1> HIDE DEF f
<1> QED BY <1>1, <1>3, <1>5, AskedStreams

LEMMA handlerDataStreams ==
    ASSUME ServerInv, StreamInv, NEW s \in Ids, NEW n \in 1 .. 2, handlerData(s, n) PROVE StreamInv'
<1> DEFINE k == h[s].k + 1
           next == [h[s] EXCEPT !.pc = "wait", !.k = k]
           f == Out("data", s, n, FALSE, TRUE)
<1>1. h[s].pc = "run" /\ Between /\ Ask(s, f, next) /\ UNCHANGED <<str, msgs>> /\ KeepServe
  BY DEF handlerData, Running
<1>2. h[s] \in HandlerRecs
  BY Facts
<1>3. k \in Nat
  BY <1>2 DEF HandlerRecs
<1> HIDE DEF k
<1>4. next \in HandlerRecs /\ next.pc = "wait"
  BY <1>2, <1>3, Zenon DEF HandlerRecs
<1>5. f \in OutFrames /\ f.s = s
  <2>1. n \in Nat
    OBVIOUS
  <2> QED BY <2>1, AskedOK DEF FrameOK, Out
<1> HIDE DEF f, next
<1> QED BY <1>1, <1>4, <1>5, AskedStreams

LEMMA handlerReturnStreams == ASSUME ServerInv, StreamInv, NEW s \in Ids, handlerReturn(s) PROVE StreamInv'
<1> DEFINE next == [h[s] EXCEPT !.pc = "wait", !.sent = TRUE, !.fin = TRUE]
           over == [h[s] EXCEPT !.pc = "over"]
<1>1. h[s].pc = "run" /\ Between /\ UNCHANGED <<str, msgs>> /\ KeepServe
  BY DEF handlerReturn, Running
<1>2. h[s] \in HandlerRecs
  BY Facts
<1>3. next \in HandlerRecs /\ next.pc = "wait" /\ over.pc = "over"
  BY <1>2, Zenon DEF HandlerRecs
<1>4. \/ h' = [h EXCEPT ![s] = over] /\ UNCHANGED want
      \/ Ask(s, Out("headers", s, 0, TRUE, TRUE), next)
      \/ \E n \in 0 .. 1 : Ask(s, Out("data", s, n, TRUE, TRUE), next)
  BY Zenon DEF handlerReturn
<1> HIDE DEF next, over
<1>5. CASE h' = [h EXCEPT ![s] = over] /\ UNCHANGED want
  <2>1. SamePc(h')
    BY <1>1, <1>3, <1>5, PcKept
  <2>2. todo = <<>> /\ UNCHANGED <<phase, todo, sc, str, out, want, msgs>>
    BY <1>1, <1>5 DEF Between, KeepServe
  <2> QED BY <2>1, <2>2, SameChans, SameAll, SameKeepsOut, BetweenKept
<1>6. CASE Ask(s, Out("headers", s, 0, TRUE, TRUE), next)
  <2> DEFINE f == Out("headers", s, 0, TRUE, TRUE)
  <2>1. f \in OutFrames /\ f.s = s
    BY AskedOK DEF FrameOK, Out
  <2> HIDE DEF f
  <2> QED BY <1>1, <1>3, <1>6, <2>1, AskedStreams DEF f
<1>7. ASSUME NEW n \in 0 .. 1, Ask(s, Out("data", s, n, TRUE, TRUE), next) PROVE StreamInv'
  <2> DEFINE f == Out("data", s, n, TRUE, TRUE)
  <2>1. f \in OutFrames /\ f.s = s
    <3>1. n \in Nat
      OBVIOUS
    <3> QED BY <3>1, AskedOK DEF FrameOK, Out
  <2> HIDE DEF f
  <2> QED BY <1>1, <1>3, <1>7, <2>1, AskedStreams DEF f
<1> QED BY <1>4, <1>5, <1>6, <1>7

LEMMA handlerPanicsStreams == ASSUME ServerInv, StreamInv, NEW s \in Ids, handlerPanics(s) PROVE StreamInv'
<1> DEFINE next == [h[s] EXCEPT !.pc = "over", !.fin = TRUE]
           f == Ctl("panicRST", s)
<1>1. h[s].pc = "run" /\ Between /\ Ask(s, f, next) /\ UNCHANGED <<str, msgs>> /\ KeepServe
  BY DEF handlerPanics, Running
<1>2. h[s] \in HandlerRecs
  BY Facts
<1>3. next \in HandlerRecs /\ next.pc = "over"
  BY <1>2, Zenon DEF HandlerRecs
<1>4. f \in OutFrames /\ f.s = s
  BY CtlAskedOK DEF FrameOK, Ctl, Out
<1> HIDE DEF f, next
<1> QED BY <1>1, <1>3, <1>4, AskedStreams

LEMMA handlerAnsweredStreams == ASSUME ServerInv, StreamInv, NEW s \in Ids, handlerAnswered(s) PROVE StreamInv'
<1> DEFINE pc == IF h[s].fin THEN "over" ELSE "run"
           r == [h[s] EXCEPT !.pc = pc, !.done = FALSE]
<1>1. /\ h[s].pc = "wait" /\ h' = [h EXCEPT ![s].pc = pc, ![s].done = FALSE]
      /\ todo = <<>> /\ UNCHANGED <<phase, todo, sc, str, out, want, msgs>>
  BY DEF handlerAnswered, Between, KeepServe, chans
<1>2. h[s] \in HandlerRecs
  BY Facts
<1>3. pc \in {"over", "run"}
  OBVIOUS
<1>4. h' = [h EXCEPT ![s] = r]
  BY <1>1, Zenon
<1> HIDE DEF pc
<1>5. r.pc = pc
  BY <1>2, Zenon DEF HandlerRecs
<1> HIDE DEF r
<1>6. SamePc(h')
  BY <1>1, <1>3, <1>4, <1>5, PcKept
<1> QED BY <1>1, <1>6, SameChans, SameAll, SameKeepsOut, BetweenKept

LEMMA FiredKept ==
    ASSUME ServerInv, NEW e, sc' = [sc EXCEPT !.fired = @ \cup {e}]
    PROVE  Slots(sc') /\ Sends(sc')
<1> DEFINE x == sc.fired \cup {e}
<1>1. sc' = [sc EXCEPT !.fired = x]
  OBVIOUS
<1> HIDE DEF x
<1> QED BY <1>1, SlotsKept, SendsKept

LEMMA handlerContinueStreams == ASSUME ServerInv, StreamInv, NEW s \in Ids, handlerContinue(s) PROVE StreamInv'
<1> DEFINE f == Ctl("continue", s)
<1>1. /\ want' = Append(want, f) /\ sc' = [sc EXCEPT !.fired = @ \cup {"continue"}]
      /\ todo = <<>> /\ UNCHANGED <<phase, todo, str, out, h, msgs>>
  BY DEF handlerContinue, Running, Between
<1>2. f \in OutFrames /\ Tame(f)
  BY CtlAskedOK, CtlTame DEF FrameOK
<1> HIDE DEF f
<1>3. \A i \in 1 .. Len(want') : Tame(want'[i])
  BY <1>1, <1>2, TameMore
<1>4. Slots(sc') /\ Sends(sc')
  BY <1>1, FiredKept
<1> QED BY <1>1, <1>3, <1>4, SameChans, SameAll, SamePcs, SameKeepsOut, BetweenKept

LEMMA handlerReadStreams ==
    ASSUME ServerInv, StreamInv, NEW s \in Ids, NEW n \in 1 .. 2, handlerRead(s, n) PROVE StreamInv'
<1> DEFINE a == str[s].len - n
           r == [h[s] EXCEPT !.pc = "reading", !.n = n]
<1>1. /\ h[s].pc = "run" /\ str' = [str EXCEPT ![s].len = a]
      /\ h' = (IF Serving THEN [h EXCEPT ![s].pc = "reading", ![s].n = n] ELSE h)
      /\ todo = <<>> /\ UNCHANGED <<phase, todo, sc, out, want, msgs>>
  BY DEF handlerRead, Running, Between, KeepServe, chans
<1>2. h[s] \in HandlerRecs
  BY Facts
<1> HIDE DEF a
<1>3. SameLive(str') /\ SameWin(str')
  BY <1>1, LiveKept, WinKept
<1>4. h' = [h EXCEPT ![s] = r] \/ h' = h
  BY <1>1, Zenon
<1>5. r.pc = "reading"
  BY <1>2, Zenon DEF HandlerRecs
<1> HIDE DEF r
<1>6. SamePc(h')
  <2>1. CASE h' = [h EXCEPT ![s] = r]
    BY <1>1, <1>5, <2>1, PcKept
  <2> QED BY <1>4, <2>1, SamePcs
<1> QED BY <1>1, <1>3, <1>6, SameChans, SameAll, SameKeepsOut, BetweenKept

LEMMA handlerCloseBodyStreams == ASSUME ServerInv, StreamInv, NEW s \in Ids, handlerCloseBody(s) PROVE StreamInv'
<1>1. /\ str' = [str EXCEPT ![s].broken = TRUE]
      /\ todo = <<>> /\ UNCHANGED <<phase, todo, sc, out, h, want, msgs>>
  BY DEF handlerCloseBody, Running, Between, KeepServe, chans
<1>2. SameLive(str') /\ SameWin(str')
  BY <1>1, LiveKept, WinKept
<1> QED BY <1>1, <1>2, SameChans, SameAll, SamePcs, SameKeepsOut, BetweenKept

(* A message that does not tell of the end of a handler.                   *)
LEMMA OtherMessage ==
    ASSUME ServerInv, NEW m, m[1] # "done", msgs' = Append(msgs, m)
    PROVE  Cardinality(Dones(msgs')) = Cardinality(Dones(msgs))
<1>1. IsSeq(msgs)
  BY Channels
<1>2. Cardinality(Dones(msgs)) \in Nat
  BY <1>1, DonesFinite
<1> QED BY <1>1, <1>2, DonesMore

LEMMA handlerPushStreams == ASSUME ServerInv, StreamInv, NEW s \in Ids, handlerPush(s) PROVE StreamInv'
<1> DEFINE m == <<"push", s>>
           r == [h[s] EXCEPT !.pc = "wait"]
<1>1. /\ h[s].pc = "run" /\ msgs' = Append(msgs, m) /\ h' = [h EXCEPT ![s] = r]
      /\ todo = <<>> /\ UNCHANGED <<phase, todo, sc, str, out, want>>
  BY Zenon DEF handlerPush, Running, Between, KeepServe
<1>2. m[1] # "done"
  OBVIOUS
<1> HIDE DEF m
<1>3. h[s] \in HandlerRecs
  BY Facts
<1>4. r.pc = "wait"
  BY <1>3, Zenon DEF HandlerRecs
<1> HIDE DEF r
<1>5. SamePc(h')
  BY <1>1, <1>4, PcKept
<1> QED BY <1>1, <1>2, <1>5, OtherMessage, SameChans, SameAll, SameKeepsOut, BetweenKept

LEMMA timerFiresStreams == ASSUME ServerInv, StreamInv, NEW e \in Timers, timerFires(e) PROVE StreamInv'
<1> DEFINE m == <<e>>
<1>1. /\ msgs' = Append(msgs, m) /\ sc' = [sc EXCEPT !.fired = @ \cup {e}]
      /\ todo = <<>> /\ UNCHANGED <<phase, todo, str, out, h, want>>
  BY DEF timerFires, Between
<1>2. m[1] # "done"
  BY DEF Timers
<1> HIDE DEF m
<1>3. Slots(sc') /\ Sends(sc')
  BY <1>1, FiredKept
<1> QED BY <1>1, <1>2, <1>3, OtherMessage, SameChans, SameAll, SamePcs, SameKeepsOut, BetweenKept

LEMMA streamTimeoutStreams == ASSUME ServerInv, StreamInv, NEW s \in Ids, streamTimeout(s) PROVE StreamInv'
<1> DEFINE f == Ctl("rst", s)
<1>1. todo = <<>> /\ UNCHANGED <<phase, todo, out, h, msgs>>
  BY DEF streamTimeout, Between
<1>2. CASE str' = [str EXCEPT ![s].err = TRUE] /\ UNCHANGED <<want, sc>>
  <2>1. SameLive(str') /\ SameWin(str')
    BY <1>2, LiveKept, WinKept
  <2> QED BY <1>1, <1>2, <2>1, SameChans, SameAll, SamePcs, SameKeepsOut, BetweenKept
<1>3. CASE want' = Append(want, f) /\ sc' = [sc EXCEPT !.fired = @ \cup {"writeTimeout"}] /\ UNCHANGED str
  <2>1. f \in OutFrames /\ Tame(f)
    BY CtlAskedOK, CtlTame DEF FrameOK
  <2> HIDE DEF f
  <2>2. \A i \in 1 .. Len(want') : Tame(want'[i])
    BY <1>3, <2>1, TameMore
  <2>3. Slots(sc') /\ Sends(sc')
    BY <1>3, FiredKept
  <2> QED BY <1>1, <1>3, <2>2, <2>3, SameChans, SameAll, SamePcs, SameKeepsOut, BetweenKept
<1> QED BY <1>2, <1>3 DEF streamTimeout

LEMMA writeFrameAsyncStreams == ASSUME ServerInv, StreamInv, writeFrameAsync PROVE StreamInv'
<1> DEFINE a == IF out.open THEN "ok" ELSE "err"
<1>1. out' = [out EXCEPT !.res = a] /\ todo = <<>> /\ UNCHANGED <<phase, todo, sc, str, h, want, msgs>>
  BY DEF writeFrameAsync, Between, chans
<1>2. KeepsOut
  <2>1. out \in Outs
    BY Facts DEF OutOK
  <2> HIDE DEF a
  <2> QED BY <1>1, <2>1 DEF KeepsOut, Outs
<1> QED BY <1>1, <1>2, SameChans, SameAll, SamePcs, BetweenKept

LEMMA finishedStreams == ASSUME ServerInv, StreamInv, finished PROVE StreamInv'
<1>1. /\ todo = <<>> /\ todo' = <<>> /\ phase' # "serving" /\ out' = [out EXCEPT !.open = FALSE]
      /\ UNCHANGED <<sc, str, h, want, msgs>>
  BY DEF finished, chans
<1>2. Moves
  BY <1>1, PlainEmpty, SameAll DEF Moves, Grow
<1> QED BY <1>1, <1>2, OpenKept, SameChans, SameAll, SamePcs, MovesKept

LEMMA StutterStreams == ASSUME ServerInv, StreamInv, UNCHANGED vars PROVE StreamInv'
<1>1. UNCHANGED <<phase, todo, sc, str, out, h, want, msgs>>
  BY DEF vars
<1>2. LoopInv'
  BY <1>1 DEF StreamInv, LoopInv, FrameLast, Current, Settled, EndsLive, Placed, TameCalls, Tame, Calm, MayPop,
              Writable, Room, liveIds, live, Pend, BusyCall
<1>3. CountInv'
  BY <1>1, SameAll, SamePcs, CountsKept DEF StreamInv
<1> QED BY <1>2, <1>3 DEF StreamInv

(* A handler that is over gives its slot back with the message it leaves.  *)
LEMMA handlerOverStreams == ASSUME ServerInv, StreamInv, NEW s \in Ids, handlerOver(s) PROVE StreamInv'
<1> DEFINE r1 == [h[s] EXCEPT !.pc = "gone"]
           r2 == [h[s] EXCEPT !.pc = "run", !.n = 0]
           m == <<"done">>
<1>1. todo = <<>> /\ UNCHANGED <<phase, todo, sc, str, out, want>>
  BY DEF handlerOver, Between, KeepServe
<1>2. \/ /\ h[s].pc = "over" /\ h' = [h EXCEPT ![s] = r1]
         /\ (phase = "serving" /\ msgs' = Append(msgs, m)) \/ (phase # "serving" /\ UNCHANGED msgs)
      \/ h[s].pc = "reading" /\ h' = [h EXCEPT ![s] = r2] /\ UNCHANGED msgs
  BY Zenon DEF handlerOver, Serving
<1>3. r1.pc = "gone" /\ r2.pc = "run" /\ h \in [Ids -> HandlerRecs]
  <2>1. h \in [Ids -> HandlerRecs] /\ h[s] \in HandlerRecs
    BY Facts
  <2> QED BY <2>1, Zenon DEF HandlerRecs
<1>4. m[1] = "done"
  OBVIOUS
<1> HIDE DEF r1, r2, m
<1>5. CASE h[s].pc = "reading" /\ h' = [h EXCEPT ![s] = r2] /\ UNCHANGED msgs
  <2>1. SamePc(h')
    BY <1>3, <1>5, PcKept
  <2> QED BY <1>1, <1>5, <2>1, SameChans, SameAll, SameKeepsOut, BetweenKept
<1>6. CASE /\ h[s].pc = "over" /\ h' = [h EXCEPT ![s] = r1]
           /\ (phase = "serving" /\ msgs' = Append(msgs, m)) \/ (phase # "serving" /\ UNCHANGED msgs)
  <2>1. h'[s].pc = "gone" /\ \A u \in Ids : u # s => h'[u] = h[u]
    BY <1>3, <1>6
  <2>2. LoopInv'
    <3>1. NoneLost
      BY <2>1 DEF NoneLost
    <3>2. Grow(<<>>) /\ Plain(<<>>) /\ IsSeq(<<>>)
      BY <1>1, StayGrows, PlainEmpty DEF Plain
    <3>3. Calm => Calm'
      BY <1>1, SameAll, SameKeepsOut, CalmKept
    <3>4. Settled'
      BY <1>1, <3>2, <3>3, SettledKept DEF StreamInv, LoopInv
    <3> QED BY <1>1, <3>1, <3>2, <3>4, SameChans, SameKeepsOut, LoopKept DEF StreamInv
  <2>3. liveIds' = liveIds /\ \A u \in Ids : live(u)' <=> live(u)
    BY <1>1 DEF liveIds, live
  <2>4. QueueInv' /\ Pushed' /\ Counted'
    <3>1. \A u \in Ids : (h'[u].pc = "queued" <=> h[u].pc = "queued") /\ (h'[u].pc = "none" <=> h[u].pc = "none")
      BY <1>6, <2>1
    <3>2. QueueInv'
      BY <1>1, <2>3, <3>1 DEF StreamInv, CountInv, QueueInv, liveIds
    <3>3. Pushed'
      BY <1>1, <2>3, <3>1 DEF StreamInv, CountInv, Pushed
    <3>4. Counted'
      BY <1>1, <2>3 DEF StreamInv, CountInv, Counted
    <3> QED BY <3>2, <3>3, <3>4
  <2>5. Slotted'
    <3>1. Busy \in SUBSET Ids /\ s \in Busy /\ Busy' = Busy \ {s}
      <4>1. \A u \in Ids : u \in Busy' <=> u \in Busy /\ u # s
        BY <2>1 DEF Busy, Started
      <4>2. Busy \subseteq Ids /\ Busy' \subseteq Ids /\ s \in Busy
        BY <1>6 DEF Busy, Started
      <4> QED BY <4>1, <4>2
    <3>2. \A i \in 1 .. Len(sc'.unstarted) : h'[sc'.unstarted[i]].pc = "queued"
      <4>1. sc.unstarted \in Seq(Ids)
        BY Facts DEF ConnKept, Conns
      <4>2. \A i \in 1 .. Len(sc.unstarted) : sc.unstarted[i] \in Ids /\ h[sc.unstarted[i]].pc = "queued"
        BY <4>1 DEF StreamInv, CountInv, Slotted
      <4> QED BY <1>1, <1>6, <2>1, <4>2
    <3>3. \A i, j \in 1 .. Len(sc'.unstarted) : sc'.unstarted[i] = sc'.unstarted[j] => i = j
      BY <1>1 DEF StreamInv, CountInv, Slotted
    <3>4. ASSUME phase' = "serving"
          PROVE  /\ sc'.handlers = Cardinality(Busy') + Cardinality(Dones(msgs'))
                 /\ Cardinality(Mine(Busy')) <= AdvMax
      <4>1. phase = "serving" /\ msgs' = Append(msgs, m)
        BY <1>1, <1>6, <3>4
      <4>2. IsSeq(msgs) /\ Cardinality(Dones(msgs)) \in Nat
        BY Channels, DonesFinite
      <4>3. Cardinality(Dones(msgs')) = Cardinality(Dones(msgs)) + 1
        BY <1>4, <4>1, <4>2, DonesMore
      <4>4. /\ Cardinality(Busy') = Cardinality(Busy) - 1
            /\ Cardinality(Mine(Busy')) = Cardinality(Mine(Busy)) - (IF Odd(s) THEN 1 ELSE 0)
            /\ Cardinality(Busy) \in Nat /\ Cardinality(Mine(Busy)) \in Nat
        BY <3>1, CountLess, CountFinite
      <4>5. /\ sc.handlers = Cardinality(Busy) + Cardinality(Dones(msgs))
            /\ Cardinality(Mine(Busy)) <= AdvMax
        BY <4>1 DEF StreamInv, CountInv, Slotted, Mine
      <4> QED BY <1>1, <4>2, <4>3, <4>4, <4>5, AdvMaxAssumption
    <3> QED BY <3>2, <3>3, <3>4 DEF Slotted, Mine
  <2> QED BY <2>2, <2>4, <2>5 DEF StreamInv, CountInv
<1> QED BY <1>2, <1>5, <1>6

-----------------------------------------------------------------------------
(* The invariant holds initially and is kept by every step.                *)
LEMMA InitStreams == ASSUME Init PROVE StreamInv
<1> DEFINE up == IF "upgrade" \in scen.events THEN 1 ELSE 0
           f == Ctl("settings", 0)
<1>1. /\ phase = "serving" /\ todo = <<<<"write", f>>, Check>> /\ want = <<>> /\ msgs = <<>>
      /\ sc = NewConn(up) /\ up \in {0, 1} /\ ("upgrade" \in scen.events <=> up = 1)
      /\ out.cur = None /\ out.async = FALSE /\ out.ctl = <<>> /\ out.q = [s \in Ids |-> <<>>]
  BY DEF Init
<1>2. PICK q : q = <<<<"write", f>>, Check>>
  OBVIOUS
<1>3. Len(q) = 2 /\ q[1] = <<"write", f>> /\ q[2] = Check /\ Len(todo) = 2 /\ todo = q
  BY <1>1, <1>2
<1>4. Tame(f)
  BY CtlTame
<1> HIDE DEF f
<1>5. \A i \in 1 .. Len(todo) : (todo[i] = <<"write", f>> /\ i = 1) \/ todo[i] = Check
  BY <1>3
<1>6. LoopInv
  <2>1. Len(<<>>) = 0
    OBVIOUS
  <2>2. FrameLast
    BY <1>5 DEF FrameLast, Check
  <2>3. Current
    BY <1>1 DEF Current
  <2>4. Settled
    <3>1. Calm
      <4>1. \A s \in Ids : ~Writable(s)
        BY <1>1 DEF Writable
      <4>2. MildQueue(out.ctl)
        BY <1>1, <2>1 DEF MildQueue
      <4> QED BY <4>1, <4>2 DEF Calm
    <3> QED BY <3>1 DEF Settled
  <2>5. EndsLive
    BY <1>5 DEF EndsLive, Check
  <2>6. Placed
    <3>1. TameCalls(todo)
      <4>1. ASSUME NEW i \in 1 .. Len(todo), todo[i][1] = "write" PROVE Tame(todo[i][2])
        <5>1. todo[i] = <<"write", f>>
          BY <1>5, <4>1 DEF Check
        <5> QED BY <1>4, <5>1
      <4> QED BY <4>1 DEF TameCalls
    <3>2. \A s \in Ids : Len(out.q[s]) = 0
      BY <1>1, <2>1
    <3>3. Len(want) = 0
      BY <1>1, <2>1
    <3> QED BY <3>1, <3>2, <3>3 DEF Placed
  <2> QED BY <2>2, <2>3, <2>4, <2>5, <2>6 DEF LoopInv
<1>7. /\ sc.handlers = up /\ sc.unstarted = <<>> /\ sc.nClient = up /\ sc.nPushed = 0 /\ sc.maxPush = 0
  <2> HIDE DEF up
  <2> QED BY <1>1, Zenon DEF NewConn
<1>8. /\ \A s \in Ids : ~Upgraded(s) => ~live(s) /\ h[s].pc = "none"
      /\ \A s \in Ids : Upgraded(s) => live(s) /\ h[s].pc = "run"
  <2> DEFINE r == [NoStream EXCEPT !.st = "halfRemote", !.win = StreamSend, !.avail = StreamRecv]
             g == [NoHandler EXCEPT !.pc = "run"]
  <2>1. r.st = "halfRemote" /\ NoStream.st = "idle" /\ g.pc = "run" /\ NoHandler.pc = "none"
    BY DEF NoStream, NoHandler
  <2>2. /\ str = [s \in Ids |-> IF Upgraded(s) THEN r ELSE NoStream]
        /\ h = [s \in Ids |-> IF Upgraded(s) THEN g ELSE NoHandler]
    BY Zenon DEF Init
  <2> HIDE DEF r, g
  <2>3. \A s \in Ids : /\ str[s] = IF Upgraded(s) THEN r ELSE NoStream
                       /\ h[s] = IF Upgraded(s) THEN g ELSE NoHandler
    BY <2>2
  <2> QED BY <2>1, <2>3 DEF live
<1>9. \A s \in Ids : Upgraded(s) <=> s = 1 /\ up = 1
  BY <1>1 DEF Upgraded
<1>10. up = 1 => 1 \in Ids
  <2>1. scen \in Scenarios
    BY DEF Init
  <2> QED BY <1>1, <2>1, ScenariosAssumption
<1> HIDE DEF up
<1> DEFINE U == IF up = 1 THEN {1} ELSE {}
<1>11. liveIds = U /\ Busy = U
  <2>1. \A s \in Ids : (s \in liveIds <=> s \in U) /\ (s \in Busy <=> s \in U)
    BY <1>8, <1>9 DEF liveIds, Busy, Started
  <2>2. liveIds \subseteq Ids /\ Busy \subseteq Ids /\ U \subseteq Ids
    BY <1>10 DEF liveIds, Busy
  <2> QED BY <2>1, <2>2
<1>12. /\ Cardinality(U) = up /\ Cardinality(Mine(U)) = up /\ Cardinality(Theirs(U)) = 0
  <2>1. CASE up = 1
    <3>1. Odd(1)
      BY DEF Odd
    <3>2. U = {1} /\ Mine(U) = {1} /\ Theirs(U) = {}
      BY <2>1, <3>1 DEF Mine, Theirs
    <3> QED BY <2>1, <3>2, FS_Singleton, FS_EmptySet
  <2>2. CASE up = 0
    <3>1. U = {} /\ Mine(U) = {} /\ Theirs(U) = {}
      BY <2>2 DEF Mine, Theirs
    <3> QED BY <2>2, <3>1, FS_EmptySet
  <2> QED BY <1>1, <2>1, <2>2
<1>13. Cardinality(Dones(msgs)) = 0
  <2>1. Dones(msgs) = {}
    <3>1. Len(<<>>) = 0
      OBVIOUS
    <3> QED BY <1>1, <3>1 DEF Dones
  <2> QED BY <2>1, FS_EmptySet
<1> HIDE DEF U
<1>14. QueueInv
  BY <1>8 DEF QueueInv, liveIds
<1>15. Slotted
  <2>1. Len(sc.unstarted) = 0
    BY <1>7
  <2>2. sc.handlers = Cardinality(Busy) + Cardinality(Dones(msgs)) /\ Cardinality(Mine(Busy)) <= AdvMax
    BY <1>1, <1>7, <1>11, <1>12, <1>13, AdvMaxAssumption
  <2> QED BY <2>1, <2>2 DEF Slotted, Mine
<1>16. Pushed
  <2>1. Odd(1)
    BY DEF Odd
  <2> QED BY <1>8, <1>9, <2>1 DEF Pushed
<1>17. Counted
  BY <1>1, <1>7, <1>11, <1>12, AdvMaxAssumption, LimitsAssumption DEF Counted, Mine, Theirs
<1> QED BY <1>6, <1>14, <1>15, <1>16, <1>17 DEF StreamInv, CountInv

LEMMA NextStreams == ASSUME ServerInv, StreamInv, Next PROVE StreamInv'
<1>1. CASE Select
  BY <1>1, serveWantWriteStreams, serveWroteStreams, serveReadErrorStreams, serveTimerStreams, handlerDoneStreams,
     startPushStreams, serveReadStreams, serveBodyReadStreams, Zenon DEF Select
<1>2. CASE Call
  BY <1>2, writeFrameStreams, scheduleFrameWriteStreams, LoopOwnStreams, LoopControlStreams, LoopFlushStreams,
     LoopEndStreams, LoopStreamStreams, startFrameWriteStreams, startPushWriteStreams, wroteFrameStreams,
     replyToWriterStreams, resetStreamStreams, resetQueuedStreams, sendWindowUpdateStreams, closeStreamStreams,
     closeStreamRestStreams, goAwayStreams, endOfIterationStreams, finishedStreams, noteBodyReadStreams,
     processOtherStreams, processSettingsStreams, processTrailerHeadersStreams, processHeadersStreams,
     processDataUnwantedStreams, processDataStreams, endStreamStreams, processWindowUpdateStreams,
     processResetStreamStreams, processRestStreams, Zenon DEF Call
<1>3. ASSUME NEW s \in Ids, Handler(s) PROVE StreamInv'
  BY <1>3, handlerHeadersStreams, handlerReturnStreams, handlerPanicsStreams, handlerAnsweredStreams,
     handlerContinueStreams, handlerCloseBodyStreams, handlerPushStreams, handlerOverStreams, handlerDataStreams,
     handlerReadStreams, Zenon DEF Handler
<1> QED BY <1>1, <1>2, <1>3, writeFrameAsyncStreams, streamTimeoutStreams, timerFiresStreams, Zenon DEF Next

(* A request that waits for a slot is never forgotten (scheduleHandler,    *)
(* handlerDone): it is in unstartedHandlers, and since all the slots are   *)
(* then taken, a handlerDoneMsg is still to come that looks there.         *)
THEOREM NoForgottenHandlerAlways == Spec => []NoForgottenHandler
<1>1. Init => ServerInv /\ StreamInv
  BY InitKeeps, InitStreams
<1>2. ServerInv /\ StreamInv /\ [Next]_vars => (ServerInv /\ StreamInv)'
  BY NextKeeps, StutterKeeps, NextStreams, StutterStreams
<1>3. ServerInv /\ StreamInv => NoForgottenHandler
  <2> SUFFICES ASSUME ServerInv, StreamInv, NEW s \in liveIds, h[s].pc = "queued"
               PROVE  (\E i \in DOMAIN sc.unstarted : sc.unstarted[i] = s) /\ sc.handlers > 0
    BY DEF NoForgottenHandler
  <2>1. sc.handlers >= AdvMax /\ \E i \in 1 .. Len(sc.unstarted) : sc.unstarted[i] = s
    BY DEF StreamInv, CountInv, QueueInv
  <2>2. sc.unstarted \in Seq(Ids) /\ sc.handlers \in Int
    BY DEF ServerInv, Types, Conns
  <2> QED BY <2>1, <2>2, AdvMaxAssumption
<1> QED BY <1>1, <1>2, <1>3, PTL DEF Spec

(* The counters agree with what they count (processHeaders, startPush's    *)
(* allocatePromisedID, closeStream; scheduleHandler, handlerDone):         *)
(* curClientStreams and curPushedStreams with the streams in sc.streams,   *)
(* within the limits each side announced, and curHandlers with the         *)
(* handlers that run or whose handlerDoneMsg is on its way, of which at    *)
(* most advMaxStreams serve requests of the client.                        *)
THEOREM StreamsCountedAlways == Spec => []StreamsCounted
<1>1. Init => ServerInv /\ StreamInv
  BY InitKeeps, InitStreams
<1>2. ServerInv /\ StreamInv /\ [Next]_vars => (ServerInv /\ StreamInv)'
  BY NextKeeps, StutterKeeps, NextStreams, StutterStreams
<1>3. ServerInv /\ StreamInv => StreamsCounted
  <2> SUFFICES ASSUME ServerInv, StreamInv, phase = "serving" PROVE StreamsCounted
    BY DEF StreamsCounted, Quiescent
  <2>1. Busy = {s \in Ids : Started(s) /\ h[s].pc # "gone"}
    BY DEF Busy
  <2>2. {s \in Busy : Odd(s)} = {s \in Ids : Odd(s) /\ Started(s) /\ h[s].pc # "gone"}
    BY DEF Busy
  <2>3. Dones(msgs) = {i \in DOMAIN msgs : msgs[i][1] = "done"}
    <3>1. DOMAIN msgs = 1 .. Len(msgs)
      BY Channels DEF IsSeq
    <3> QED BY <3>1 DEF Dones
  <2>4. Counted /\ Slotted
    BY DEF StreamInv, CountInv
  <2> QED BY <2>1, <2>2, <2>3, <2>4 DEF Counted, Slotted, StreamsCounted
<1> QED BY <1>1, <1>2, <1>3, PTL DEF Spec

=============================================================================
