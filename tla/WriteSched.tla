----------------------------- MODULE WriteSched -----------------------------
(***************************************************************************)
(* The write schedulers of the HTTP/2 server: the round robin one (the     *)
(* default), the random one and the one of RFC 9218, with the two-stage    *)
(* writeQueue and FrameWriteRequest.Consume they share.  A ring of linked  *)
(* queues is the sequence that starts at its head, so "insert before the   *)
(* head" is Append.  The round robin scheduler is a single ring, the one   *)
(* of class <<0, 1>>.  Which scheduler runs is chosen in Init.             *)
(***************************************************************************)
EXTENDS Integers, Sequences, FiniteSets

CONSTANTS
    Streams, Conn,
    NoFrame,        \* the last call was not a Pop
    Nothing,        \* Pop returned false
    Kinds,          \* subset of {"roundRobin", "random", "rfc9218"}
    Classes,        \* <<urgency, incremental>>: (0..7) \X {0, 1} in the code
    maxFrameSize,   \* sc.maxFrameSize
    Windows,        \* values the peer may set a stream's window to
    ConnWindows,    \* and the connection's
    Payloads,       \* <<payload size, END_STREAM>> of pushed frames
    MaxPush         \* bound: frames pushed in one behaviour

ASSUME SizesAssumption == Payloads \subseteq Nat \X BOOLEAN /\ maxFrameSize \in Nat \ {0}
ASSUME WindowsAssumption == Windows \subseteq Int /\ ConnWindows \subseteq Int
ASSUME ClassesAssumption == Classes \subseteq Nat \X {0, 1} /\ <<0, 1>> \in Classes
ASSUME StreamsAssumption == IsFiniteSet(Streams) /\ Conn \notin Streams
ASSUME PushAssumption == MaxPush \in Nat

VARIABLES
    kind,
    life,      \* a stream id is opened once and closed once
    control,   \* ws.control / ws.zero
    q,         \* the writeQueue of each stream (empty when ws has none)
    rings,     \* ws.head / ws.heads[u][i]
    prio,      \* streams[id].priority
    buf,       \* priorityUpdateBuf: <<stream, class>>, or <<>> when empty
    incFirst,  \* prioritizeIncremental
    win, conn, \* outflow windows
    pushed,    \* frames pushed so far
    popped,    \* what the last call returned: a frame or Nothing if it was a Pop
    wait       \* history: pops of the own ring that passed a ready stream over

queues == <<control, q>>
order == <<rings, prio, buf, incFirst>>
env == <<win, conn, pushed>>
vars == <<kind, life, control, q, rings, prio, buf, incFirst, win, conn, pushed, popped, wait>>

Frames == [id : 1 .. MaxPush, s : Streams \cup {Conn}, n : Nat, end : BOOLEAN]

(***************************************************************************)
(* writeQueue.  Variants of definitions ("Mutant" in their names) are bugs *)
(* the properties are shown to catch; nothing uses them.                   *)
(***************************************************************************)
EmptyQueue == [curr |-> <<>>, next |-> <<>>]

contents(w) == w.curr \o w.next

empty(w) == w.curr = <<>> /\ w.next = <<>>

push(w, f) == [w EXCEPT !.next = Append(@, f)]

peek(w) == IF w.curr # <<>> THEN Head(w.curr) ELSE Head(w.next)

shiftMutant(w) ==                                     \* currPos is not advanced
    IF w.curr # <<>> THEN [w EXCEPT !.curr = Tail(@)]
                     ELSE [curr |-> w.next, next |-> <<>>]

shift(w) ==
    IF w.curr # <<>> THEN [w EXCEPT !.curr = Tail(@)]
                     ELSE [curr |-> Tail(w.next), next |-> <<>>]

\* *q.peek() = rest
replaceHead(w, f) ==
    IF w.curr # <<>> THEN [w EXCEPT !.curr = [@ EXCEPT ![1] = f]]
                     ELSE [w EXCEPT !.next = [@ EXCEPT ![1] = f]]

Least(a, b) == IF a < b THEN a ELSE b

available(s) == Least(win[s], conn)

Allowed(s) == Least(available(s), maxFrameSize)

ConsumeMutant(f) ==                                   \* more than the frame holds
    IF f.n = 0 THEN 0 ELSE IF Allowed(f.s) <= 0 THEN -1 ELSE Allowed(f.s)

\* How many bytes Consume takes of f; negative when it returns no frame.
Consume(f) ==
    CASE f.n = 0 -> 0
      [] f.n > 0 /\ Allowed(f.s) <= 0 -> -1
      [] OTHER -> Least(f.n, Allowed(f.s))

Ready(s) == ~empty(q[s]) /\ Consume(peek(q[s])) >= 0

\* q.consume on the queue of s: split or shift its first frame, take the window.
\* Only the rest of a split DATA frame keeps END_STREAM.
consume(s) ==
    LET f == peek(q[s])
        k == Consume(f) IN
    /\ popped' = [f EXCEPT !.n = k, !.end = f.end /\ k = f.n]
    /\ q' = [q EXCEPT ![s] = IF k = f.n THEN shift(@)
                                        ELSE replaceHead(@, [f EXCEPT !.n = f.n - k])]
    /\ win' = [win EXCEPT ![s] = @ - k]
    /\ conn' = conn - k
    /\ UNCHANGED <<kind, life, control, prio, buf, pushed>>

-----------------------------------------------------------------------------
(***************************************************************************)
(* Rings                                                                   *)
(***************************************************************************)
Place(r, s) == CHOOSE i \in 1 .. Len(r) : r[i] = s

\* The ring without its i-th member.
Cut(r, i) == SubSeq(r, 1, i - 1) \o SubSeq(r, i + 1, Len(r))

Without(r, s) ==
    IF \E i \in 1 .. Len(r) : r[i] = s THEN Cut(r, Place(r, s)) ELSE r

UnlinkMutant(rs, s) == [rs EXCEPT ![<<0, 1>>] = Without(@, s)]  \* the default ring

Unlink(rs, s) == [rs EXCEPT ![prio[s]] = Without(@, s)]

Link(rs, c, s) == [rs EXCEPT ![c] = Append(@, s)]

\* The ring whose head is its i-th member.
RotateTo(r, i) == SubSeq(r, i, Len(r)) \o SubSeq(r, 1, i - 1)

ServedMutant(r, c, s) ==                              \* no class takes turns
    RotateTo(r, Place(r, s))

\* After serving s the head is s itself, or the next one for a class that
\* takes turns.
Served(r, c, s) ==
    LET at == RotateTo(r, Place(r, s)) IN
    IF c[2] = 1 THEN Append(Tail(at), s) ELSE at

FirstReady(r) == r[CHOOSE i \in 1 .. Len(r) : /\ Ready(r[i])
                                             /\ \A j \in 1 .. i - 1 : ~Ready(r[j])]

ReadyClassesMutant ==                                 \* the last urgency is left out
    {c \in Classes : /\ \E d \in Classes : d[1] > c[1]
                     /\ \E i \in 1 .. Len(rings[c]) : Ready(rings[c][i])}

ReadyClasses == {c \in Classes : \E i \in 1 .. Len(rings[c]) : Ready(rings[c][i])}

\* The place of class c in a Pop's double loop over urgencies and flags.
Rank(c, inc) == 2 * c[1] + (IF inc THEN 1 - c[2] ELSE c[2])

Preferred(inc) ==
    CHOOSE c \in ReadyClasses : \A d \in ReadyClasses : Rank(c, inc) <= Rank(d, inc)

-----------------------------------------------------------------------------
Init ==
    /\ kind \in Kinds
    /\ life = [s \in Streams |-> "idle"]
    /\ control = EmptyQueue
    /\ q = [s \in Streams |-> EmptyQueue]
    /\ rings = [c \in Classes |-> <<>>]
    /\ prio = [s \in Streams |-> <<0, 1>>]
    /\ buf = <<>>
    /\ incFirst = FALSE
    /\ win \in [Streams -> Windows]
    /\ conn \in ConnWindows
    /\ pushed = 0
    /\ popped = NoFrame
    /\ wait = [s \in Streams |-> 0]

\* RFC 9218 uses the buffered PRIORITY_UPDATE of the stream, if it has one.
OpenClass(s, c) ==
    CASE kind = "roundRobin" -> <<0, 1>>
      [] kind = "rfc9218" /\ buf # <<>> /\ buf[1] = s -> buf[2]
      [] OTHER -> c

OpenStream(s, c) ==
    /\ life[s] = "idle"
    /\ life' = [life EXCEPT ![s] = "open"]
    /\ IF kind = "random"
       THEN UNCHANGED order
       ELSE /\ prio' = [prio EXCEPT ![s] = OpenClass(s, c)]
            /\ rings' = Link(rings, OpenClass(s, c), s)
            /\ buf' = IF buf # <<>> /\ buf[1] = s THEN <<>> ELSE buf
            /\ UNCHANGED incFirst
    /\ wait' = [wait EXCEPT ![s] = 0]
    /\ UNCHANGED <<kind, queues, env>>
    /\ popped' = NoFrame

CloseStream(s) ==
    /\ life[s] = "open"
    /\ life' = [life EXCEPT ![s] = "closed"]
    /\ q' = [q EXCEPT ![s] = EmptyQueue]
    /\ rings' = Unlink(rings, s)
    /\ wait' = [wait EXCEPT ![s] = 0]
    /\ UNCHANGED <<kind, control, prio, buf, incFirst, env>>
    /\ popped' = NoFrame

AdjustStream(s, c) ==
    /\ kind = "rfc9218"
    /\ IF life[s] # "open"
       THEN buf' = <<s, c>> /\ UNCHANGED <<rings, prio, wait>>
       ELSE /\ rings' = Link(Unlink(rings, s), c, s)
            /\ prio' = [prio EXCEPT ![s] = c]
            /\ wait' = [wait EXCEPT ![s] = 0]
            /\ UNCHANGED buf
    /\ UNCHANGED <<kind, life, queues, incFirst, env>>
    /\ popped' = NoFrame

\* Whether a frame of s gets a queue of its own.  The random scheduler makes one
\* whenever there is none; the others send stray frames with the connection's.
HasQueue(s) == s # Conn /\ (kind = "random" \/ life[s] = "open")

\* s = Conn stands for a request without stream: SETTINGS, PING, RST_STREAM.
\* Callers push DATA on open streams only: the code panics otherwise.
Push(s, p) ==
    LET f == [id |-> pushed + 1, s |-> s, n |-> p[1], end |-> p[2]] IN
    /\ pushed < MaxPush
    /\ f.n = 0 \/ (s \in Streams /\ life[s] = "open")
    /\ IF HasQueue(s)
       THEN q' = [q EXCEPT ![s] = push(@, f)] /\ UNCHANGED control
       ELSE control' = push(control, f) /\ UNCHANGED q
    /\ pushed' = pushed + 1
    /\ UNCHANGED <<kind, life, order, win, conn, wait>>
    /\ popped' = NoFrame

PopControl ==
    /\ ~empty(control)
    /\ popped' = peek(control)
    /\ control' = shift(control)
    /\ UNCHANGED <<kind, life, q, order, env, wait>>

\* Map iteration: any stream with a frame that can be consumed.
PopRandom(s) ==
    /\ kind = "random"
    /\ empty(control)
    /\ Ready(s)
    /\ consume(s)
    /\ UNCHANGED <<rings, incFirst, wait>>

\* The RFC 9218 scheduler flips its flag first, served or not.
PopRing ==
    LET inc == kind = "rfc9218" /\ ~incFirst
        c == Preferred(inc)
        s == FirstReady(rings[c]) IN
    /\ kind # "random"
    /\ empty(control)
    /\ ReadyClasses # {}
    /\ consume(s)
    /\ rings' = [rings EXCEPT ![c] = Served(@, c, s)]
    /\ incFirst' = inc
    /\ wait' = [t \in Streams |-> IF t = s \/ ~Ready(t) THEN 0
                                  ELSE IF prio[t] = c THEN wait[t] + 1 ELSE wait[t]]

\* Only the queues that Pop walks are looked at: the map's or the rings'.
PopNothing ==
    /\ empty(control)
    /\ IF kind = "random" THEN \A s \in Streams : ~Ready(s) ELSE ReadyClasses = {}
    /\ popped' = Nothing
    /\ incFirst' = (kind = "rfc9218" /\ ~incFirst)
    /\ UNCHANGED <<kind, life, queues, rings, prio, buf, env, wait>>

SetWindow ==
    /\ \/ \E s \in Streams, w \in Windows : win' = [win EXCEPT ![s] = w] /\ UNCHANGED conn
       \/ conn' \in ConnWindows /\ UNCHANGED win
    /\ UNCHANGED <<kind, life, queues, order, pushed, wait>>
    /\ popped' = NoFrame

Next ==
    \/ \E s \in Streams, c \in Classes : OpenStream(s, c) \/ AdjustStream(s, c)
    \/ \E s \in Streams : CloseStream(s) \/ PopRandom(s)
    \/ \E s \in Streams \cup {Conn}, p \in Payloads : Push(s, p)
    \/ PopControl
    \/ PopRing
    \/ PopNothing
    \/ SetWindow

Spec == Init /\ [][Next]_vars

-----------------------------------------------------------------------------
(***************************************************************************)
(* Properties                                                              *)
(***************************************************************************)
\* Types of the variables.
TypeOK ==
    /\ kind \in Kinds
    /\ life \in [Streams -> {"idle", "open", "closed"}]
    /\ control \in [curr : Seq(Frames), next : Seq(Frames)]
    /\ q \in [Streams -> [curr : Seq(Frames), next : Seq(Frames)]]
    /\ rings \in [Classes -> Seq(Streams)]
    /\ prio \in [Streams -> Classes]
    /\ buf = <<>> \/ buf \in Streams \X Classes
    /\ incFirst \in BOOLEAN
    /\ win \in [Streams -> Int]
    /\ conn \in Int
    /\ pushed \in 0 .. MaxPush
    /\ popped \in Frames \cup {NoFrame, Nothing}
    /\ wait \in [Streams -> Nat]

\* The schedulers keep every promise of the WriteScheduler interface, whatever
\* the order in which streams are opened, closed, reprioritised and blocked
\* (writesched.go:9-39).
Queues == INSTANCE StreamQueues WITH
    open <- {s \in Streams : life[s] = "open"},
    control <- contents(control),
    queue <- [s \in Streams |-> contents(q[s])]

ImplementsQueues == Queues!Spec

\* A stream that is open is in exactly one ring, once, the ring of its current
\* priority: unlinking it there is what CloseStream and AdjustStream rely on.
RingsSound ==
    kind # "random" =>
        \A s \in Streams, c \in Classes :
            Cardinality({i \in 1 .. Len(rings[c]) : rings[c][i] = s})
                = (IF life[s] = "open" /\ prio[s] = c THEN 1 ELSE 0)

\* Streams of a class that takes turns do take turns: a stream that can write is
\* passed over at most once by each other stream of its ring, even while streams
\* come, go and change class (writesched_roundrobin.go:99, rfc9218.go:169).
NoStarvation ==
    \A s \in Streams : prio[s][2] = 1 => wait[s] < Cardinality(Streams)
=============================================================================
