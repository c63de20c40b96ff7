------------------------------- MODULE Server -------------------------------
(***************************************************************************)
(* The HTTP/2 server connection (src/http2/server.go): the serve loop, the *)
(* handlers it starts, the goroutine that writes one frame at a time, and  *)
(* the timers.                                                             *)
(*                                                                         *)
(* serve() runs on one goroutine, but its calls nest: a written frame may  *)
(* close a stream, which sends a WINDOW_UPDATE, which starts the next      *)
(* write.  todo is the stack of calls the iteration still has to make, so  *)
(* the order of the code's side effects is kept; the loop is in its select *)
(* when todo is empty.  Handlers and the write goroutine run in between.   *)
(*                                                                         *)
(* The write scheduler is the abstract one of StreamQueues: any stream     *)
(* with a writable frame may be next.                                      *)
(***************************************************************************)
EXTENDS Integers, Sequences, FiniteSets, Functions

CONSTANTS
    Ids,            \* stream ids; the odd ones are the client's
    None,
    Scenarios,      \* what the client and the environment may do, chosen in Init
    AdvMax,         \* sc.advMaxStreams
    ClientMax,      \* sc.clientMaxStreams: limit of pushed streams
    MaxQueued,      \* maxQueuedControlFrames
    ConnRecv, StreamRecv,   \* receive windows
    ConnSend, StreamSend,   \* send windows
    MinRefresh,     \* inflowMinRefresh
    MaxWindow,      \* 2^31 - 1
    MaxChunks       \* bound: chunks of one response

ASSUME IdsAssumption == IsFiniteSet(Ids) /\ Ids \subseteq Nat \ {0}
ASSUME LimitsAssumption == {ClientMax, MaxQueued, MinRefresh, MaxChunks} \subseteq Nat
\* setDefault in config.go: at least one stream.
ASSUME AdvMaxAssumption == AdvMax \in Nat \ {0}
ASSUME WindowsAssumption ==
    MaxWindow \in Nat /\ {ConnRecv, StreamRecv, ConnSend, StreamSend} \subseteq 0 .. MaxWindow

\* What the framer hands to processFrame; "tooLarge" and "streamError" are its errors.
InFrames ==
    {f \in [t : STRING, s : Ids \cup {0}, n : Nat, pad : Nat, end : BOOLEAN, v : STRING] :
        f.s = 0 => f.t \in {"settings", "ping", "goaway", "windowUpdate", "pushPromise", "tooLarge"}}
ASSUME ScenariosAssumption ==
    \A x \in Scenarios : /\ x.script \in Seq(SUBSET InFrames)
                         /\ x.events \subseteq STRING
                         /\ "upgrade" \in x.events => 1 \in Ids

\* What the connection writes; rst, panicRST and everything from wu on may have a stream.
OutFrames ==
    [t : {"settings", "ping", "goaway", "ack", "flush", "rst", "panicRST", "wu", "continue",
          "headers", "data", "push"},
     s : Ids \cup {0}, n : Nat, end : BOOLEAN, wait : BOOLEAN]
ASSUME NoneAssumption == None \notin OutFrames

VARIABLES
    scen,    \* [script, events]: a set of frames for each turn of the client; other events
    phase,   \* "serving"; "closing" after doneServing is closed; "done"; "panic"
    todo,    \* calls left in this iteration of serve
    sc,      \* fields of serverConn
    str,     \* the streams
    out,     \* write scheduler and the frame being written
    h,       \* the handler goroutine of each stream
    want, msgs,  \* wantWriteFrameCh, serveMsgCh
    inputs,  \* frames read so far
    wire     \* history: per stream what was written; lastId of the GOAWAY

vars == <<scen, phase, todo, sc, str, out, h, want, msgs, inputs, wire>>
chans == <<want, msgs>>

ChanCap == 8
Odd(s) == s % 2 = 1
Ev(e) == e \in scen.events

\* A frame to write: n is its payload, wait whether a handler waits for it.
Out(t, s, n, end, wait) == [t |-> t, s |-> s, n |-> n, end |-> end, wait |-> wait]
Ctl(t, s) == Out(t, s, 0, FALSE, FALSE)
isControl(f) == f.t \in {"settings", "ping", "rst", "goaway", "ack", "flush"} \/ (f.t = "wu" /\ f.s = 0)

live(s) == str[s].st \in {"open", "halfLocal", "halfRemote"}
liveIds == {s \in Ids : live(s)}

curOpenStreams == sc.nClient + sc.nPushed

\* sc.state: ids below the highest one used are closed.
state(s) ==
    IF s \in Ids /\ live(s) THEN str[s].st
    ELSE IF s <= (IF Odd(s) THEN sc.maxClient ELSE sc.maxPush) THEN "closed"
    ELSE "idle"

\* Other goroutines touch only the channels, h and the pipe of a body, which the
\* loop reads at its select, so their steps are taken between iterations.
Between == todo = <<>> /\ phase # "panic"

At(op) == todo # <<>> /\ Head(todo)[1] = op
arg == Head(todo)[2]
Then(items) == todo' = items \o Tail(todo)
Panic == phase' = "panic" /\ todo' = <<>>

Check == <<"check">>
Sched == <<"sched">>
InLoop == \E i \in 1 .. Len(todo) : todo[i][1] = "loop"

-----------------------------------------------------------------------------
NoStream == [st |-> "idle", resetQueued |-> FALSE, gotTrailer |-> FALSE, wroteHeaders |-> FALSE,
             body |-> FALSE, len |-> 0, decl |-> -1, got |-> 0, err |-> FALSE, broken |-> FALSE,
             win |-> 0, avail |-> 0, unsent |-> 0, cw |-> FALSE]
NoHandler == [pc |-> "none", sent |-> FALSE, head |-> FALSE, fin |-> FALSE, done |-> FALSE, n |-> 0, k |-> 0]

\* serveConn: a new serverConn.  An upgraded h2c connection starts with stream 1.
NewConn(up) ==
    [maxClient |-> up, maxPush |-> 0, nClient |-> up, nPushed |-> 0, handlers |-> up, unstarted |-> <<>>,
     inGoAway |-> FALSE, needGoAway |-> FALSE, code |-> "no", needAck |-> FALSE, unacked |-> 1, saw |-> FALSE,
     push |-> TRUE, ping |-> FALSE, timer |-> FALSE, fired |-> {},
     cwin |-> ConnSend, swin |-> StreamSend, avail |-> ConnRecv, unsent |-> 0]

\* upgradeRequest: stream 1 is half closed and its handler runs.
Upgraded(s) == s = 1 /\ "upgrade" \in scen.events

\* serve sends SETTINGS before it reads the first frame.
Init ==
    /\ scen \in Scenarios
    /\ phase = "serving"
    /\ todo = <<<<"write", Ctl("settings", 0)>>, Check>>
    /\ sc = NewConn(IF "upgrade" \in scen.events THEN 1 ELSE 0)
    /\ str = [s \in Ids |-> IF Upgraded(s) THEN [NoStream EXCEPT !.st = "halfRemote", !.win = StreamSend,
                                                                !.avail = StreamRecv]
                             ELSE NoStream]
    /\ h = [s \in Ids |-> IF Upgraded(s) THEN [NoHandler EXCEPT !.pc = "run"] ELSE NoHandler]
    /\ out = [ctl |-> <<>>, q |-> [s \in Ids |-> <<>>], queued |-> 0, cur |-> None,
              async |-> FALSE, res |-> "none", flush |-> FALSE, open |-> TRUE]
    /\ want = <<>>
    /\ msgs = <<>>
    /\ inputs = 0
    /\ wire = [ended |-> {}, reset |-> {}, headers |-> {}, bad |-> {}, last |-> None]

-----------------------------------------------------------------------------
(***************************************************************************)
(* Writing                                                                 *)
(***************************************************************************)
\* writeFrame: frames of closed streams are dropped, and so is a late 100.
Ignored(f) ==
    \/ f.s # 0 /\ f.t # "rst" /\ state(f.s) = "closed"
    \/ f.t = "continue" /\ str[f.s].wroteHeaders

writeFrame ==
    LET f == arg IN
    /\ At("write")
    /\ str' = IF f.t = "headers" THEN [str EXCEPT ![f.s].wroteHeaders = TRUE] ELSE str
    /\ out' = CASE Ignored(f) -> out
                [] ~Ignored(f) /\ isControl(f) -> [out EXCEPT !.ctl = Append(@, f), !.queued = @ + 1]
                [] OTHER -> [out EXCEPT !.q[f.s] = Append(@, f)]
    /\ Then(<<Sched>>)
    /\ UNCHANGED <<scen, phase, sc, h, chans, inputs, wire>>

scheduleFrameWrite ==
    /\ At("sched")
    /\ Then(IF out.cur # None \/ InLoop THEN <<>> ELSE <<<<"loop">>>>)
    /\ UNCHANGED <<scen, phase, sc, str, out, h, chans, inputs, wire>>

Min2(a, b) == IF a < b THEN a ELSE b
Room(s) == Min2(str[s].win, sc.cwin)
Writable(s) == out.q[s] # <<>> /\ (Head(out.q[s]).n = 0 \/ Head(out.q[s]).t # "data" \/ Room(s) > 0)
MayPop == ~sc.inGoAway \/ sc.code = "no"

Start(f) == todo' = <<<<"start", f>>>> \o todo

\* One turn of the loop in scheduleFrameWrite: GOAWAY, then the SETTINGS ack,
\* then what the scheduler pops, then a flush.
LoopOwn ==
    /\ At("loop") /\ ~out.async
    /\ \/ /\ sc.needGoAway
          /\ sc' = [sc EXCEPT !.needGoAway = FALSE]
          /\ Start([Ctl("goaway", 0) EXCEPT !.n = sc.maxClient])
       \/ /\ ~sc.needGoAway /\ sc.needAck
          /\ sc' = [sc EXCEPT !.needAck = FALSE]
          /\ Start(Ctl("ack", 0))
    /\ UNCHANGED <<scen, phase, str, out, h, chans, inputs, wire>>

LoopControl ==
    /\ At("loop") /\ ~out.async /\ ~sc.needGoAway /\ ~sc.needAck /\ MayPop
    /\ out.ctl # <<>>
    /\ out' = [out EXCEPT !.ctl = Tail(@), !.queued = @ - 1]
    /\ Start(Head(out.ctl))
    /\ UNCHANGED <<scen, phase, sc, str, h, chans, inputs, wire>>

LoopStream(s) ==
    LET f == Head(out.q[s])
        k == IF f.t = "data" /\ f.n > 0 THEN Min2(f.n, Room(s)) ELSE f.n
        whole == k = f.n IN
    /\ At("loop") /\ ~out.async /\ ~sc.needGoAway /\ ~sc.needAck /\ MayPop
    /\ out.ctl = <<>> /\ Writable(s)
    /\ out' = [out EXCEPT !.q[s] = IF whole THEN Tail(@) ELSE <<[f EXCEPT !.n = f.n - k]>> \o Tail(@)]
    /\ str' = IF f.t = "data" THEN [str EXCEPT ![s].win = @ - k] ELSE str
    /\ sc' = IF f.t = "data" THEN [sc EXCEPT !.cwin = @ - k] ELSE sc
    /\ Start([f EXCEPT !.n = k, !.end = f.end /\ whole, !.wait = f.wait /\ whole])
    /\ UNCHANGED <<scen, phase, h, chans, inputs, wire>>

Drained ==
    /\ ~sc.needGoAway /\ ~sc.needAck
    /\ MayPop => out.ctl = <<>> /\ \A s \in Ids : ~Writable(s)

LoopFlush ==
    /\ At("loop") /\ ~out.async /\ Drained
    /\ out.flush
    /\ out' = [out EXCEPT !.cur = Ctl("flush", 0), !.async = TRUE, !.flush = FALSE]
    /\ UNCHANGED <<scen, phase, todo, sc, str, h, chans, inputs, wire>>

LoopEnd ==
    /\ At("loop")
    /\ out.async \/ (Drained /\ ~out.flush)
    /\ Then(<<>>)
    /\ UNCHANGED <<scen, phase, sc, str, out, h, chans, inputs, wire>>

\* The assertions of startFrameWrite.
BadStart(f) ==
    \/ out.cur # None
    \/ /\ ~isControl(f)
       /\ \/ str[f.s].st = "closed"
          \/ str[f.s].st = "halfLocal" /\ f.t \notin {"panicRST", "wu"}

\* A frame that fits the write buffer is written at once; the scenario says
\* whether the buffer may be too full.  HEADERS, PUSH_PROMISE and GOAWAY never fit.
Fits(f) == f.t \notin {"headers", "push", "goaway"}

startFrameWrite ==
    LET f == arg IN
    /\ At("start") /\ f.t # "push"
    /\ IF BadStart(f)
       THEN Panic /\ UNCHANGED out
       ELSE /\ \/ Fits(f) /\ out' = [out EXCEPT !.cur = f, !.flush = TRUE] /\ Then(<<<<"wrote", f, "ok">>>>)
               \/ /\ ~Fits(f) \/ Ev("fullBuffer")
                  /\ out' = [out EXCEPT !.cur = f, !.flush = TRUE, !.async = TRUE]
                  /\ Then(<<>>)
            /\ UNCHANGED phase
    /\ UNCHANGED <<scen, sc, str, h, chans, inputs, wire>>

NewStream(st, w) == [NoStream EXCEPT !.st = st, !.win = w, !.avail = StreamRecv]

\* A PUSH_PROMISE gets its stream when it is written.  The promised id must be
\* one of Ids: a bound.
startPushWrite ==
    LET f == arg
        p == sc.maxPush + 2
        ok == sc.push /\ sc.nPushed + 1 <= ClientMax /\ p \in Ids IN
    /\ At("start") /\ f.t = "push"
    /\ IF BadStart(f)
       THEN Panic /\ UNCHANGED <<sc, str, h, out>>
       ELSE /\ IF ok
               THEN /\ sc' = [sc EXCEPT !.maxPush = p, !.nPushed = @ + 1, !.handlers = @ + 1]
                    /\ str' = [str EXCEPT ![p] = NewStream("halfRemote", sc.swin)]
                    /\ h' = [h EXCEPT ![p] = [NoHandler EXCEPT !.pc = "run"]]
                    /\ out' = [out EXCEPT !.cur = f, !.flush = TRUE, !.async = TRUE]
                    /\ Then(<<>>)
               ELSE /\ Then(<<<<"reply", f>>>>)
                    /\ UNCHANGED <<sc, str, h, out>>
            /\ UNCHANGED phase
    /\ UNCHANGED <<scen, chans, inputs, wire>>

\* writeFrameAsync; a connection that was closed under it fails the write.
writeFrameAsync ==
    /\ Between /\ out.async /\ out.res = "none"
    /\ out' = [out EXCEPT !.res = IF out.open THEN "ok" ELSE "err"]
    /\ UNCHANGED <<scen, phase, todo, sc, str, h, chans, inputs, wire>>

\* What the peer has seen of a stream.  bad collects frames no peer may see.
Record(f) ==
    [wire EXCEPT
        !.headers = IF f.t = "headers" THEN @ \cup {f.s} ELSE @,
        !.ended = IF f.end THEN @ \cup {f.s} ELSE @,
        !.reset = IF f.t \in {"rst", "panicRST"} THEN @ \cup {f.s} ELSE @,
        !.bad = IF \/ f.t \in {"headers", "data", "push", "continue"} /\ f.s \in wire.ended \cup wire.reset
                   \/ f.t = "data" /\ f.s \notin wire.headers
                THEN @ \cup {f} ELSE @,
        !.last = IF f.t = "goaway" THEN f.n ELSE @]

\* What wroteFrame does to the stream: a response that ends before the request is
\* followed by RST_STREAM; a written RST_STREAM closes the stream.
State(f) == IF f.s \in Ids THEN str[f.s].st ELSE "none"
AfterWriteMutant(f) ==
    CASE f.end /\ State(f) = "open" -> <<<<"reset", f.s>>>>
      [] f.end /\ State(f) = "halfRemote" -> <<<<"close", f.s>>>>
      [] OTHER -> <<>>
AfterWrite(f) ==
    CASE f.end /\ State(f) = "open" -> <<<<"reset", f.s>>>>
      [] f.end /\ State(f) = "halfRemote" -> <<<<"close", f.s>>>>
      [] f.t = "rst" /\ f.s \in liveIds -> <<<<"close", f.s>>>>
      [] f.t = "panicRST" -> <<<<"close", f.s>>>>
      [] OTHER -> <<>>

\* wroteFrame
wroteFrame ==
    LET f == arg IN
    /\ At("wrote")
    /\ out' = [out EXCEPT !.cur = None, !.async = FALSE, !.res = "none",
                          !.open = @ /\ Head(todo)[3] = "ok"]
    /\ wire' = IF Head(todo)[3] = "ok" /\ out.open THEN Record(f) ELSE wire
    /\ str' = IF f.end /\ State(f) = "open" THEN [str EXCEPT ![f.s].st = "halfLocal"] ELSE str
    /\ Then(AfterWrite(f) \o <<<<"reply", f>>, Sched>>)
    /\ UNCHANGED <<scen, phase, sc, h, chans, inputs>>

replyToWriter ==
    LET f == arg IN
    /\ At("reply")
    /\ h' = IF f.wait /\ h[f.s].pc = "wait" THEN [h EXCEPT ![f.s].done = TRUE] ELSE h
    /\ Then(<<>>)
    /\ UNCHANGED <<scen, phase, sc, str, out, chans, inputs, wire>>

-----------------------------------------------------------------------------
(***************************************************************************)
(* Streams, windows, shutdown                                              *)
(***************************************************************************)
resetStream ==
    /\ At("reset")
    /\ Then(<<<<"write", Ctl("rst", arg)>>, <<"resetQueued", arg>>>>)
    /\ UNCHANGED <<scen, phase, sc, str, out, h, chans, inputs, wire>>

resetQueued ==
    /\ At("resetQueued")
    /\ str' = IF arg \in liveIds THEN [str EXCEPT ![arg].resetQueued = TRUE] ELSE str
    /\ Then(<<>>)
    /\ UNCHANGED <<scen, phase, sc, out, h, chans, inputs, wire>>

\* inflow.add: the window after n bytes are given back, and what to announce.
Added(w, n) ==
    IF w.unsent + n < MinRefresh /\ w.unsent + n < w.avail
    THEN [avail |-> w.avail, unsent |-> w.unsent + n, send |-> 0]
    ELSE [avail |-> w.avail + w.unsent + n, unsent |-> 0, send |-> w.unsent + n]

\* sendWindowUpdate for the connection (s = 0) or a stream.
sendWindowUpdate ==
    LET s == arg
        a == Added(IF s = 0 THEN sc ELSE str[s], Head(todo)[3]) IN
    /\ At("window")
    /\ sc' = IF s = 0 THEN [sc EXCEPT !.avail = a.avail, !.unsent = a.unsent] ELSE sc
    /\ str' = IF s = 0 THEN str ELSE [str EXCEPT ![s].avail = a.avail, ![s].unsent = a.unsent]
    /\ Then(IF a.send = 0 THEN <<>> ELSE <<<<"write", Ctl("wu", s)>>>>)
    /\ UNCHANGED <<scen, phase, out, h, chans, inputs, wire>>

UncountMutant(s) == [sc EXCEPT !.nClient = @ - 1]
Uncount(s) == IF Odd(s) THEN [sc EXCEPT !.nClient = @ - 1] ELSE [sc EXCEPT !.nPushed = @ - 1]

\* closeStream up to the WINDOW_UPDATE for unread bytes ...
closeStream ==
    LET s == arg IN
    /\ At("close")
    /\ IF str[s].st \in {"idle", "closed"}
       THEN Panic /\ UNCHANGED <<sc, str>>
       ELSE /\ str' = [str EXCEPT ![s].st = "closed"]
            /\ sc' = Uncount(s)
            /\ Then((IF liveIds = {s} /\ Ev("noKeepAlive") THEN <<<<"goAway", "no">>>> ELSE <<>>)
                    \o (IF str[s].body THEN <<<<"window", 0, str[s].len>>>> ELSE <<>>)
                    \o <<<<"closeRest", s>>>>)
            /\ UNCHANGED phase
    /\ UNCHANGED <<scen, out, h, chans, inputs, wire>>

\* ... and the rest: end the body, wake the handler, drop the queued frames.
closeStreamRestMutant ==
    /\ At("closeRest")
    /\ str' = [str EXCEPT ![arg].err = TRUE]
    /\ out' = [out EXCEPT !.q[arg] = <<>>]
    /\ Then(<<>>)
    /\ UNCHANGED <<scen, phase, sc, h, chans, inputs, wire>>

closeStreamRest ==
    /\ At("closeRest")
    /\ str' = [str EXCEPT ![arg].err = TRUE, ![arg].cw = TRUE]
    /\ out' = [out EXCEPT !.q[arg] = <<>>]
    /\ Then(<<>>)
    /\ UNCHANGED <<scen, phase, sc, h, chans, inputs, wire>>

goAway ==
    /\ At("goAway")
    /\ sc' = IF sc.inGoAway
             THEN [sc EXCEPT !.code = IF @ = "no" THEN arg ELSE @]
             ELSE [sc EXCEPT !.inGoAway = TRUE, !.needGoAway = TRUE, !.code = arg]
    /\ Then(IF sc.inGoAway THEN <<>> ELSE <<Sched>>)
    /\ UNCHANGED <<scen, phase, str, out, h, chans, inputs, wire>>

\* serve returns: doneServing is closed and every stream is closed, in any order.
Return(order) ==
    /\ phase' = "closing"
    /\ todo' = [i \in 1 .. Len(order) |-> <<"close", order[i]>>]

Orders == {o \in [1 .. Cardinality(liveIds) -> liveIds] : \A s \in liveIds : \E i \in DOMAIN o : o[i] = s}

ShutDownMutant == curOpenStreams = 0
ShutDown == sc.code # "no" \/ curOpenStreams = 0

\* The end of an iteration: too many control frames end the connection; the
\* shutdown timer starts once the GOAWAY is out and, if graceful, no stream is left.
endOfIteration ==
    LET sent == sc.inGoAway /\ ~sc.needGoAway /\ out.cur = None IN
    /\ At("check")
    /\ IF out.queued > MaxQueued
       THEN (\E o \in Orders : Return(o)) /\ UNCHANGED sc
       ELSE /\ sc' = [sc EXCEPT !.timer = @ \/ (sent /\ ShutDown)]
            /\ Then(<<>>)
            /\ UNCHANGED phase
    /\ UNCHANGED <<scen, str, out, h, chans, inputs, wire>>

finished ==
    /\ phase = "closing" /\ todo = <<>>
    /\ phase' = "done"
    /\ out' = [out EXCEPT !.open = FALSE]
    /\ UNCHANGED <<scen, todo, sc, str, h, chans, inputs, wire>>

-----------------------------------------------------------------------------
(***************************************************************************)
(* The select of serve                                                     *)
(***************************************************************************)
AtSelect == phase = "serving" /\ todo = <<>>
Iterate(items) == todo' = items \o <<Check>>
Written == IF out.res = "none" THEN <<>> ELSE <<<<"wrote", out.cur, out.res>>>>

serveWantWrite ==
    /\ AtSelect /\ want # <<>>
    /\ want' = Tail(want)
    /\ Iterate(IF Head(want).t = "rst" THEN <<<<"reset", Head(want).s>>>> ELSE <<<<"write", Head(want)>>>>)
    /\ UNCHANGED <<scen, phase, sc, str, out, h, msgs, inputs, wire>>

serveWrote ==
    /\ AtSelect /\ Written # <<>>
    /\ Iterate(Written)
    /\ UNCHANGED <<scen, phase, sc, str, out, h, chans, inputs, wire>>

\* A frame that was written meanwhile is accounted for first.
serveRead(f) ==
    /\ AtSelect /\ inputs < Len(scen.script) /\ f \in scen.script[inputs + 1] /\ out.open
    /\ inputs' = inputs + 1
    /\ sc' = [sc EXCEPT !.saw = @ \/ f.t = "settings"]
    /\ Iterate(Written \o <<<<"frame", f>>>>)
    /\ UNCHANGED <<scen, phase, str, out, h, chans, wire>>

\* The read fails: the client is gone, or the server has closed the connection.
serveReadError ==
    /\ AtSelect
    /\ ~out.open \/ Ev("eof")
    /\ \E o \in Orders : Return(o)
    /\ UNCHANGED <<scen, sc, str, out, h, chans, inputs, wire>>

\* noteBodyRead: the connection's window first, then the stream's if it is open.
serveBodyRead(s) ==
    /\ AtSelect /\ h[s].pc = "reading"
    /\ h' = [h EXCEPT ![s].pc = "run", ![s].n = 0]
    /\ Iterate(<<<<"window", 0, h[s].n>>, <<"noteBodyRead", s, h[s].n>>>>)
    /\ UNCHANGED <<scen, phase, sc, str, out, chans, inputs, wire>>

noteBodyRead ==
    /\ At("noteBodyRead")
    /\ Then(IF str[arg].st \in {"halfRemote", "closed"} THEN <<>>
            ELSE <<<<"window", arg, Head(todo)[3]>>>>)
    /\ UNCHANGED <<scen, phase, sc, str, out, h, chans, inputs, wire>>

\* Timers and other goroutines on serveMsgCh.
serveTimer ==
    /\ AtSelect /\ msgs # <<>>
    /\ msgs' = Tail(msgs)
    /\ CASE Head(msgs)[1] \in {"idle", "graceful"} -> Iterate(<<<<"goAway", "no">>>>) /\ UNCHANGED <<phase, sc, out>>
         [] Head(msgs)[1] \in {"shutdown", "settingsTimer"} ->
              (\E o \in Orders : Return(o)) /\ UNCHANGED <<sc, out>>
         [] Head(msgs)[1] \in {"readIdle", "pingTimeout"} ->     \* handlePingTimer
              /\ IF sc.ping
                 THEN out' = [out EXCEPT !.open = FALSE] /\ Iterate(<<>>) /\ UNCHANGED sc
                 ELSE \/ Iterate(<<>>) /\ UNCHANGED <<sc, out>>
                      \/ /\ sc' = [sc EXCEPT !.ping = TRUE]
                         /\ Iterate(<<<<"write", Ctl("ping", 0)>>>>)
                         /\ UNCHANGED out
              /\ UNCHANGED phase
         [] OTHER -> FALSE
    /\ UNCHANGED <<scen, str, h, want, inputs, wire>>

\* handlerDone starts waiting handlers in order, up to the limit, and passes over
\* those whose streams are gone.  Stays: positions of those it must leave waiting.
FreeMutant == AdvMax - sc.handlers
Free == AdvMax - (sc.handlers - 1)
Waiting == {i \in DOMAIN sc.unstarted : live(sc.unstarted[i])}
Stays == {i \in Waiting : Cardinality({j \in Waiting : j < i}) >= Free}

Rest == IF Stays = {} THEN <<>>
        ELSE LET first == CHOOSE i \in Stays : \A j \in Stays : i <= j
             IN SubSeq(sc.unstarted, first, Len(sc.unstarted))

handlerDone ==
    LET go == {sc.unstarted[i] : i \in Waiting \ Stays} IN
    /\ AtSelect /\ msgs # <<>> /\ Head(msgs)[1] = "done"
    /\ msgs' = Tail(msgs)
    /\ sc' = [sc EXCEPT !.handlers = @ - 1 + Cardinality(Waiting \ Stays),
                        !.unstarted = Rest]
    /\ h' = [s \in Ids |-> IF s \in go THEN [h[s] EXCEPT !.pc = "run"] ELSE h[s]]
    /\ Iterate(<<>>)
    /\ UNCHANGED <<scen, phase, str, out, want, inputs, wire>>

startPush ==
    LET s == Head(msgs)[2] IN
    /\ AtSelect /\ msgs # <<>> /\ Head(msgs)[1] = "push"
    /\ msgs' = Tail(msgs)
    /\ Iterate(<<IF str[s].st \in {"open", "halfRemote"} /\ sc.push
                 THEN <<"write", Out("push", s, 0, FALSE, TRUE)>>
                 ELSE <<"reply", Out("push", s, 0, FALSE, TRUE)>>>>)
    /\ UNCHANGED <<scen, phase, sc, str, out, h, want, inputs, wire>>

-----------------------------------------------------------------------------
(***************************************************************************)
(* Frames of the client: [t, s, n, pad, end, v]                            *)
(***************************************************************************)
IgnoringMutant(f) == sc.inGoAway /\ sc.code # "no"
Ignoring(f) == sc.inGoAway /\ (sc.code # "no" \/ f.s > sc.maxClient)
Processing(t) == At("frame") /\ arg.t = t /\ sc.saw /\ ~Ignoring(arg)

ConnErrorOn(conn, c) ==
    /\ sc' = [conn EXCEPT !.maxClient = IF arg.s > @ THEN arg.s ELSE @]
    /\ Then(<<<<"goAway", c>>>>)
ConnError(c) == ConnErrorOn(sc, c)
StrError == sc' = sc /\ Then(<<<<"reset", arg.s>>>>)
Quiet == sc' = sc /\ Then(<<>>)

\* The framer's own errors, frames before the first SETTINGS, and frames that a
\* GOAWAY has made irrelevant, whose DATA still counts against the connection.
processOther ==
    LET f == arg IN
    /\ At("frame")
    /\ \/ f.t = "tooLarge" /\ sc' = sc /\ Then(<<<<"goAway", "size">>>>)
       \/ f.t = "streamError" /\ StrError
       \/ /\ f.t \notin {"tooLarge", "streamError"}
          /\ ~sc.saw
          /\ ConnError("protocol")
       \/ /\ f.t \notin {"tooLarge", "streamError"}
          /\ sc.saw /\ Ignoring(f)
          /\ CASE f.t # "data" -> Quiet
               [] f.t = "data" /\ f.n + f.pad > sc.avail -> StrError
               [] OTHER -> /\ sc' = [sc EXCEPT !.avail = @ - f.n - f.pad]
                           /\ Then(<<<<"window", 0, f.n + f.pad>>>>)
    /\ UNCHANGED <<scen, phase, str, out, h, chans, inputs, wire>>

\* A window that grows too large stops the walk through the streams, whose order is
\* any: some of the others have been adjusted by then.
processSettings ==
    LET f == arg
        growth == f.n - sc.swin
        over == {s \in liveIds : str[s].win + growth > MaxWindow}
        adjust(S) == str' = [s \in Ids |-> IF s \in S THEN [str[s] EXCEPT !.win = @ + growth] ELSE str[s]] IN
    /\ Processing("settings")
    /\ CASE f.v = "ack" ->
              /\ IF sc.unacked = 0 THEN ConnError("protocol")
                 ELSE sc' = [sc EXCEPT !.unacked = @ - 1] /\ Then(<<>>)
              /\ UNCHANGED str
         [] f.v = "window" ->
              IF over # {}
              THEN /\ \E S \in SUBSET (liveIds \ over) : adjust(S)
                   /\ ConnErrorOn([sc EXCEPT !.swin = f.n], "flow")
              ELSE /\ adjust(liveIds)
                   /\ sc' = [sc EXCEPT !.swin = f.n, !.needAck = TRUE]
                   /\ Then(<<Sched>>)
         [] OTHER ->
              /\ sc' = [sc EXCEPT !.push = @ /\ f.v # "noPush", !.needAck = TRUE]
              /\ Then(<<Sched>>)
              /\ UNCHANGED str
    /\ UNCHANGED <<scen, phase, out, h, chans, inputs, wire>>

\* HEADERS on a stream that exists: trailers.
processTrailerHeaders ==
    LET f == arg IN
    /\ Processing("headers") /\ Odd(f.s) /\ f.s \in liveIds
    /\ CASE str[f.s].resetQueued -> Quiet /\ UNCHANGED str
         [] ~str[f.s].resetQueued /\ str[f.s].st = "halfRemote" -> StrError /\ UNCHANGED str
         [] ~str[f.s].resetQueued /\ str[f.s].st # "halfRemote" /\ str[f.s].gotTrailer ->
              ConnError("protocol") /\ UNCHANGED str
         [] OTHER -> /\ str' = [str EXCEPT ![f.s].gotTrailer = TRUE]
                     /\ IF f.end /\ f.v # "bad" THEN sc' = sc /\ Then(<<<<"endStream", f.s>>>>) ELSE StrError
    /\ UNCHANGED <<scen, phase, out, h, chans, inputs, wire>>

\* processHeaders for a new stream, with newStream and scheduleHandler.  v: "bad"
\* for a request that is refused, "head" for HEAD, "len" for a Content-Length of 1.
processHeaders ==
    LET f == arg
        s == f.s
        seen == [sc EXCEPT !.maxClient = s]
        opened == [seen EXCEPT !.nClient = @ + 1] IN
    /\ Processing("headers") /\ ~(Odd(s) /\ s \in liveIds)
    /\ IF ~Odd(s) \/ s <= sc.maxClient
       THEN ConnError("protocol") /\ UNCHANGED <<str, h>>
       ELSE IF sc.nClient + 1 > AdvMax
       THEN sc' = seen /\ Then(<<<<"reset", s>>>>) /\ UNCHANGED <<str, h>>
       ELSE /\ str' = [str EXCEPT ![s] =
                 [NewStream(IF f.end THEN "halfRemote" ELSE "open", sc.swin) EXCEPT
                    !.body = ~f.end /\ f.v # "bad", !.decl = IF f.v = "len" THEN 1 ELSE -1]]
            /\ CASE f.v = "bad" -> sc' = opened /\ Then(<<<<"reset", s>>>>) /\ UNCHANGED h
                 [] f.v # "bad" /\ sc.handlers < AdvMax ->
                      /\ sc' = [opened EXCEPT !.handlers = @ + 1]
                      /\ h' = [h EXCEPT ![s] = [NoHandler EXCEPT !.pc = "run", !.head = (f.v = "head")]]
                      /\ Then(<<>>)
                 [] f.v # "bad" /\ sc.handlers >= AdvMax /\ Len(sc.unstarted) > 4 * AdvMax ->
                      sc' = opened /\ Then(<<<<"goAway", "calm">>>>) /\ UNCHANGED h
                 [] OTHER ->
                      /\ sc' = [opened EXCEPT !.unstarted = Append(@, s)]
                      /\ h' = [h EXCEPT ![s] = [NoHandler EXCEPT !.pc = "queued", !.head = (f.v = "head")]]
                      /\ Then(<<>>)
    /\ UNCHANGED <<scen, phase, out, chans, inputs, wire>>

\* DATA of a stream that takes none: the bytes are given back at once.
Unwanted(f) ==
    \/ f.s \notin liveIds
    \/ str[f.s].st # "open" \/ str[f.s].gotTrailer \/ str[f.s].resetQueued

TooLong(f) == str[f.s].decl # -1 /\ str[f.s].got + f.n > str[f.s].decl

GiveBackMutant(f, rest) ==
    IF f.n + f.pad > sc.avail THEN StrError
    ELSE /\ sc' = [sc EXCEPT !.avail = @ - f.n - f.pad]
         /\ Then(<<<<"window", 0, f.n>>>> \o rest)
GiveBack(f, rest) ==
    IF f.n + f.pad > sc.avail THEN StrError
    ELSE /\ sc' = [sc EXCEPT !.avail = @ - f.n - f.pad]
         /\ Then(<<<<"window", 0, f.n + f.pad>>>> \o rest)

processDataUnwanted ==
    LET f == arg IN
    /\ Processing("data") /\ Unwanted(f)
    /\ IF state(f.s) = "idle" THEN ConnError("protocol")
       ELSE GiveBack(f, IF f.s \in liveIds /\ str[f.s].resetQueued THEN <<>> ELSE <<<<"reset", f.s>>>>)
    /\ UNCHANGED <<scen, phase, str, out, h, chans, inputs, wire>>

\* DATA for the request body.  A pipe that is closed or broken takes nothing, and
\* the frame's END_STREAM is then not looked at.
processData ==
    LET f == arg
        s == f.s
        L == f.n + f.pad
        dead == str[s].err \/ str[s].broken IN
    /\ Processing("data") /\ ~Unwanted(f)
    /\ CASE ~str[s].body -> Panic /\ UNCHANGED <<sc, str>>
         [] str[s].body /\ TooLong(f) ->
              /\ GiveBack(f, <<<<"reset", s>>>>)
              /\ str' = IF L > sc.avail THEN str ELSE [str EXCEPT ![s].err = TRUE]
              /\ UNCHANGED phase
         [] str[s].body /\ ~TooLong(f) /\ (L > sc.avail \/ L > str[s].avail) ->
              StrError /\ UNCHANGED <<str, phase>>
         [] OTHER ->
              /\ sc' = [sc EXCEPT !.avail = @ - L]
              /\ str' = [str EXCEPT ![s].avail = @ - L, ![s].got = @ + f.n,
                                    ![s].len = IF dead THEN @ ELSE @ + f.n]
              /\ Then(IF dead /\ f.n > 0 THEN <<<<"window", 0, L>>>>
                      ELSE (IF L > 0 THEN <<<<"window", 0, f.pad>>, <<"window", s, f.pad>>>> ELSE <<>>)
                           \o (IF f.end THEN <<<<"endStream", s>>>> ELSE <<>>))
              /\ UNCHANGED phase
    /\ UNCHANGED <<scen, out, h, chans, inputs, wire>>

endStream ==
    /\ At("endStream")
    /\ str' = [str EXCEPT ![arg].st = "halfRemote", ![arg].err = TRUE]
    /\ Then(<<>>)
    /\ UNCHANGED <<scen, phase, sc, out, h, chans, inputs, wire>>

processWindowUpdate ==
    LET f == arg IN
    /\ Processing("windowUpdate")
    /\ CASE f.s = 0 /\ sc.cwin + f.n > MaxWindow -> sc' = sc /\ Then(<<<<"goAway", "flow">>>>) /\ UNCHANGED str
         [] f.s = 0 /\ sc.cwin + f.n <= MaxWindow ->
              sc' = [sc EXCEPT !.cwin = @ + f.n] /\ Then(<<Sched>>) /\ UNCHANGED str
         [] f.s # 0 /\ f.s \notin liveIds ->
              (IF state(f.s) = "idle" THEN ConnError("protocol") ELSE Quiet) /\ UNCHANGED str
         [] f.s \in liveIds /\ str[f.s].win + f.n > MaxWindow -> StrError /\ UNCHANGED str
         [] OTHER -> sc' = sc /\ str' = [str EXCEPT ![f.s].win = @ + f.n] /\ Then(<<Sched>>)
    /\ UNCHANGED <<scen, phase, out, h, chans, inputs, wire>>

processResetStream ==
    LET f == arg IN
    /\ Processing("rst")
    /\ IF state(f.s) = "idle" THEN ConnError("protocol")
       ELSE sc' = sc /\ Then(IF f.s \in liveIds THEN <<<<"close", f.s>>>> ELSE <<>>)
    /\ UNCHANGED <<scen, phase, str, out, h, chans, inputs, wire>>

\* PING, PRIORITY, GOAWAY and the PUSH_PROMISE a client must not send.
processRest ==
    LET f == arg IN
    /\ \/ Processing("ping") /\ IF f.v = "ack" THEN sc' = [sc EXCEPT !.ping = FALSE] /\ Then(<<>>)
                                 ELSE sc' = sc /\ Then(<<<<"write", Ctl("ping", 0)>>>>)
       \/ Processing("priority") /\ IF f.v = "self" THEN StrError ELSE Quiet
       \/ Processing("goaway") /\ sc' = [sc EXCEPT !.push = FALSE] /\ Then(<<<<"goAway", "no">>>>)
       \/ Processing("pushPromise") /\ ConnError("protocol")
    /\ UNCHANGED <<scen, phase, str, out, h, chans, inputs, wire>>

-----------------------------------------------------------------------------
(***************************************************************************)
(* Handlers.  A handler is sequential; what it does is up to it.           *)
(***************************************************************************)
Serving == phase = "serving"
Running(s) == Between /\ h[s].pc = "run"
KeepServe == UNCHANGED <<scen, phase, todo, sc, out, inputs, wire>>

\* writeFrameFromHandler: without doneServing the frame goes into the channel.
Ask(s, f, next) ==
    IF Serving
    THEN /\ Len(want) < ChanCap
         /\ want' = Append(want, f)
         /\ h' = [h EXCEPT ![s] = next]
    ELSE h' = [h EXCEPT ![s] = [next EXCEPT !.pc = IF next.fin THEN "over" ELSE "run"]] /\ UNCHANGED want

\* writeChunk: the header first, with END_STREAM for HEAD ...
handlerHeaders(s) ==
    /\ Running(s) /\ ~h[s].sent
    /\ Ask(s, Out("headers", s, 0, h[s].head, TRUE), [h[s] EXCEPT !.pc = "wait", !.sent = TRUE])
    /\ UNCHANGED <<str, msgs>> /\ KeepServe

\* ... then chunks of the body.
handlerData(s, n) ==
    /\ Running(s) /\ h[s].sent /\ ~h[s].head /\ Ev("data")
    /\ h[s].k < MaxChunks
    /\ Ask(s, Out("data", s, n, FALSE, TRUE), [h[s] EXCEPT !.pc = "wait", !.k = @ + 1])
    /\ UNCHANGED <<str, msgs>> /\ KeepServe

\* responseWriter.handlerDone: the last chunk, or the trailers, end the stream.
handlerReturn(s) ==
    LET next == [h[s] EXCEPT !.pc = "wait", !.sent = TRUE, !.fin = TRUE] IN
    /\ Running(s)
    /\ IF h[s].sent /\ h[s].head
       THEN h' = [h EXCEPT ![s].pc = "over"] /\ UNCHANGED want
       ELSE \/ ~h[s].sent /\ Ask(s, Out("headers", s, 0, TRUE, TRUE), next)
            \/ h[s].sent /\ \E n \in 0 .. 1 : Ask(s, Out("data", s, n, TRUE, TRUE), next)
            \/ h[s].sent /\ Ev("trailers") /\ Ask(s, Out("headers", s, 0, TRUE, TRUE), next)
    /\ UNCHANGED <<str, msgs>> /\ KeepServe

\* runHandler recovers a panic and resets the stream.
handlerPanics(s) ==
    /\ Running(s) /\ Ev("panic")
    /\ Ask(s, Ctl("panicRST", s), [h[s] EXCEPT !.pc = "over", !.fin = TRUE])
    /\ UNCHANGED <<str, msgs>> /\ KeepServe

\* The waits of writeHeaders, writeDataFromHandler and Push.
handlerAnswered(s) ==
    /\ Between /\ h[s].pc = "wait"
    /\ h[s].done \/ ~Serving \/ str[s].cw
    /\ h' = [h EXCEPT ![s].pc = IF h[s].fin THEN "over" ELSE "run", ![s].done = FALSE]
    /\ UNCHANGED <<str, chans>> /\ KeepServe

\* requestBody.Read: 100-continue is asked for before the first bytes.
handlerContinue(s) ==
    /\ Running(s) /\ Ev("continue") /\ Serving /\ str[s].body /\ "continue" \notin sc.fired
    /\ Len(want) < ChanCap
    /\ want' = Append(want, Ctl("continue", s))
    /\ sc' = [sc EXCEPT !.fired = @ \cup {"continue"}]
    /\ UNCHANGED <<scen, phase, todo, str, out, h, msgs, inputs, wire>>

handlerRead(s, n) ==
    /\ Running(s) /\ Ev("read") /\ str[s].body /\ ~str[s].broken
    /\ n \in 1 .. str[s].len
    /\ str' = [str EXCEPT ![s].len = @ - n]
    /\ h' = IF Serving THEN [h EXCEPT ![s].pc = "reading", ![s].n = n] ELSE h
    /\ UNCHANGED chans /\ KeepServe

handlerCloseBody(s) ==
    /\ Running(s) /\ Ev("closeBody") /\ str[s].body /\ ~str[s].broken
    /\ str' = [str EXCEPT ![s].broken = TRUE]
    /\ UNCHANGED <<h, chans>> /\ KeepServe

handlerPush(s) ==
    /\ Running(s) /\ Ev("push") /\ Odd(s) /\ Serving /\ ~str[s].cw
    /\ Len(msgs) < ChanCap
    /\ msgs' = Append(msgs, <<"push", s>>)
    /\ h' = [h EXCEPT ![s].pc = "wait"]
    /\ UNCHANGED <<str, want>> /\ KeepServe

\* The deferred sendServeMsg, and a read whose serve loop has gone.
handlerOver(s) ==
    /\ Between
    /\ \/ h[s].pc = "over" /\ h' = [h EXCEPT ![s].pc = "gone"]
          /\ IF Serving THEN Len(msgs) < ChanCap /\ msgs' = Append(msgs, <<"done">>) ELSE UNCHANGED msgs
       \/ h[s].pc = "reading" /\ ~Serving /\ h' = [h EXCEPT ![s].pc = "run", ![s].n = 0] /\ UNCHANGED msgs
    /\ UNCHANGED <<str, want>> /\ KeepServe

-----------------------------------------------------------------------------
(***************************************************************************)
(* Timers, each at most once, and Shutdown of the http.Server              *)
(***************************************************************************)
Due(e) ==
    CASE e = "idle" -> liveIds = {}
      [] e = "settingsTimer" -> inputs = 0
      [] e = "shutdown" -> sc.timer
      [] e = "pingTimeout" -> sc.ping
      [] OTHER -> TRUE

timerFires(e) ==
    /\ Between /\ Serving
    /\ e = "shutdown" \/ Ev(e)
    /\ e \notin sc.fired /\ Due(e)
    /\ Len(msgs) < ChanCap
    /\ msgs' = Append(msgs, <<e>>)
    /\ sc' = [sc EXCEPT !.fired = @ \cup {e}]
    /\ UNCHANGED <<scen, phase, todo, str, out, h, want, inputs, wire>>

\* onReadTimeout and onWriteTimeout
streamTimeout(s) ==
    /\ Between /\ Serving /\ live(s)
    /\ \/ /\ Ev("readTimeout") /\ str[s].body
          /\ str' = [str EXCEPT ![s].err = TRUE]
          /\ UNCHANGED <<want, sc>>
       \/ /\ Ev("writeTimeout") /\ "writeTimeout" \notin sc.fired
          /\ Len(want) < ChanCap
          /\ want' = Append(want, Ctl("rst", s))
          /\ sc' = [sc EXCEPT !.fired = @ \cup {"writeTimeout"}]
          /\ UNCHANGED str
    /\ UNCHANGED <<scen, phase, todo, out, h, msgs, inputs, wire>>

-----------------------------------------------------------------------------
Timers == {"idle", "settingsTimer", "readIdle", "pingTimeout", "graceful", "shutdown"}

Select ==
    \/ serveWantWrite \/ serveWrote \/ serveReadError \/ serveTimer \/ handlerDone \/ startPush
    \/ \E f \in UNION Range(scen.script) : serveRead(f)
    \/ \E s \in Ids : serveBodyRead(s)

Call ==
    \/ writeFrame \/ scheduleFrameWrite \/ LoopOwn \/ LoopControl \/ LoopFlush \/ LoopEnd
    \/ \E s \in Ids : LoopStream(s)
    \/ startFrameWrite \/ startPushWrite \/ wroteFrame \/ replyToWriter \/ resetStream \/ resetQueued
    \/ sendWindowUpdate \/ closeStream \/ closeStreamRest \/ goAway \/ endOfIteration \/ finished
    \/ noteBodyRead \/ processOther \/ processSettings \/ processTrailerHeaders \/ processHeaders
    \/ processDataUnwanted \/ processData \/ endStream \/ processWindowUpdate \/ processResetStream \/ processRest

Handler(s) ==
    \/ handlerHeaders(s) \/ handlerReturn(s) \/ handlerPanics(s) \/ handlerAnswered(s)
    \/ handlerContinue(s) \/ handlerCloseBody(s) \/ handlerPush(s) \/ handlerOver(s)
    \/ \E n \in 1 .. 2 : handlerData(s, n) \/ handlerRead(s, n)

Next ==
    \/ Select \/ Call \/ writeFrameAsync
    \/ \E s \in Ids : Handler(s) \/ streamTimeout(s)
    \/ \E e \in Timers : timerFires(e)

\* The serve loop and the write goroutine always run on; the shutdown timer, once
\* set, fires.  Nothing is assumed of the client or of a handler.
Spec == /\ Init /\ [][Next]_vars
        /\ WF_vars(Select \/ Call) /\ WF_vars(writeFrameAsync) /\ WF_vars(timerFires("shutdown"))

-----------------------------------------------------------------------------
(***************************************************************************)
(* Properties                                                              *)
(***************************************************************************)
Quiescent == phase = "serving" /\ todo = <<>>
Total(f) == FoldFunction(+, 0, f)
Started(s) == h[s].pc \notin {"none", "queued"}

\* The counters of serverConn agree with the streams and the handlers there are:
\* curClientStreams and curPushedStreams with the map of streams, at most
\* advMaxStreams and clientMaxStreams of them; curHandlers with the goroutines
\* whose handlerDoneMsg is still to come.  Only a push exceeds advMaxStreams.
StreamsCounted ==
    Quiescent =>
        /\ sc.nClient = Cardinality({s \in liveIds : Odd(s)}) /\ sc.nClient <= AdvMax
        /\ sc.nPushed = Cardinality({s \in liveIds : ~Odd(s)}) /\ sc.nPushed <= ClientMax
        /\ sc.handlers = Cardinality({s \in Ids : Started(s) /\ h[s].pc # "gone"})
                         + Cardinality({i \in DOMAIN msgs : msgs[i][1] = "done"})
        /\ Cardinality({s \in Ids : Odd(s) /\ Started(s) /\ h[s].pc # "gone"}) <= AdvMax

\* A stream whose handler waits for a slot is never forgotten: it is in
\* unstartedHandlers, and a handlerDoneMsg is still to come that will look there.
NoForgottenHandler ==
    Quiescent => \A s \in liveIds :
        h[s].pc = "queued" => /\ \E i \in DOMAIN sc.unstarted : sc.unstarted[i] = s
                              /\ sc.handlers > 0

\* The peer never sees HEADERS, DATA or a PUSH_PROMISE on a stream that the server
\* has ended or reset, nor DATA before HEADERS (writeFrame, startFrameWrite).
WireOrder == wire.bad = {}

\* The bytes of the connection's receive window are never lost: those not
\* available to the client are still to be announced, buffered in a live stream,
\* or on their way from a handler (processData, noteBodyRead, closeStream).
ConnWindowNotLost ==
    Quiescent =>
        sc.avail + sc.unsent + Total([s \in Ids |-> IF live(s) THEN str[s].len ELSE 0])
            + Total([s \in Ids |-> h[s].n]) >= ConnRecv

\* A GOAWAY names a last stream at or above every request that was started: the
\* client may retry the ones above it (goAway, processHeaders).
GoAwayHonest ==
    wire.last # None => \A s \in Ids : Odd(s) /\ Started(s) => s <= wire.last

\* A handler that waits for its frame to be written is never left waiting: the
\* frame is in the channel, queued, being written or about to be answered, or one
\* of the channels the handler selects on is ready (writeFrame drops frames of
\* closed streams without a reply, closeStream drops queued ones).
Pending(s) ==
    \/ \E i \in DOMAIN want : want[i].s = s /\ want[i].wait
    \/ \E i \in DOMAIN msgs : msgs[i] = <<"push", s>>
    \/ \E i \in DOMAIN out.q[s] : out.q[s][i].wait
    \/ out.cur # None /\ out.cur.s = s
WritersAnswered ==
    Quiescent => \A s \in Ids : h[s].pc = "wait" => h[s].done \/ str[s].cw \/ Pending(s)

\* With an error code the connection ends: the GOAWAY is written, the shutdown
\* timer is set and serve returns (goAway, scheduleFrameWrite, serve).
ErrorGoAwayEnds == (sc.inGoAway /\ sc.code # "no") ~> phase \in {"done", "panic"}

\* startFrameWrite and closeStream assert what they expect of the stream's state
\* and panic otherwise, which ends the process.
NoInternalPanic == phase # "panic"
=============================================================================
