---------------------------- MODULE StreamQueues ----------------------------
(***************************************************************************)
(* What the WriteScheduler interface promises (src/http2/writesched.go,    *)
(* lines 9-39), whatever order a scheduler picks: frames of one stream     *)
(* leave in the order they were pushed, connection frames leave first, no  *)
(* frame is lost, invented or repeated except by the close of its stream,  *)
(* DATA is split but never written beyond the windows, and Pop refuses     *)
(* only when nothing at all may be written.                                *)
(***************************************************************************)
EXTENDS Integers, Sequences

CONSTANTS Streams, Conn, NoFrame, Nothing

VARIABLES
    open,     \* streams opened and not yet closed
    control,  \* frames of the connection itself
    queue,    \* frames waiting on each stream
    win,      \* send window of each stream
    conn,     \* send window of the connection
    popped    \* what the last Pop returned, a frame or Nothing; NoFrame after another call

vars == <<open, control, queue, win, conn, popped>>

Room(s) == IF win[s] < conn THEN win[s] ELSE conn

\* A frame without payload is never held back by flow control.
Writable(s) ==
    /\ queue[s] # <<>>
    /\ Head(queue[s]).n = 0 \/ Room(s) > 0

Init ==
    /\ open = {}
    /\ control = <<>>
    /\ queue = [s \in Streams |-> <<>>]
    /\ win \in [Streams -> Int]
    /\ conn \in Int
    /\ popped = NoFrame

OpenStream(s) ==
    /\ s \notin open
    /\ open' = open \cup {s}
    /\ UNCHANGED <<control, queue, win, conn>>
    /\ popped' = NoFrame

CloseStream(s) ==
    /\ s \in open
    /\ open' = open \ {s}
    /\ queue' = [queue EXCEPT ![s] = <<>>]
    /\ UNCHANGED <<control, win, conn>>
    /\ popped' = NoFrame

\* A frame of a stream that is not open has no payload; it may be queued with
\* the connection's frames.
Push(s, f) ==
    /\ \/ s = Conn /\ f.n = 0
       \/ s \in open
       \/ s \in Streams \ open /\ f.n = 0
    /\ \/ s \notin open /\ control' = Append(control, f) /\ UNCHANGED queue
       \/ s # Conn /\ queue' = [queue EXCEPT ![s] = Append(@, f)] /\ UNCHANGED control
    /\ UNCHANGED <<open, win, conn>>
    /\ popped' = NoFrame

PopControl ==
    /\ control # <<>>
    /\ popped' = Head(control)
    /\ control' = Tail(control)
    /\ UNCHANGED <<open, queue, win, conn>>

\* k bytes of the oldest frame of s leave. END_STREAM leaves with the last.
PopStream(s, k) ==
    LET f == Head(queue[s]) IN
    /\ control = <<>>
    /\ Writable(s)
    /\ IF f.n = 0 THEN k = 0 ELSE k \in 1 .. f.n /\ k <= Room(s)
    /\ popped' = [f EXCEPT !.n = k, !.end = f.end /\ k = f.n]
    /\ queue' = [queue EXCEPT ![s] = (IF k = f.n THEN <<>> ELSE <<[f EXCEPT !.n = f.n - k]>>)
                                     \o Tail(@)]
    /\ win' = [win EXCEPT ![s] = @ - k]
    /\ conn' = conn - k
    /\ UNCHANGED <<open, control>>

PopNothing ==
    /\ control = <<>>
    /\ \A s \in Streams : ~Writable(s)
    /\ popped' = Nothing
    /\ UNCHANGED <<open, control, queue, win, conn>>

\* A priority changes the order of frames of different streams only.
AdjustStream ==
    /\ popped' = NoFrame
    /\ UNCHANGED <<open, control, queue, win, conn>>

\* WINDOW_UPDATE and SETTINGS frames of the peer.
SetWindow ==
    /\ win' \in [Streams -> Int]
    /\ conn' \in Int
    /\ UNCHANGED <<open, control, queue>>
    /\ popped' = NoFrame

Next ==
    \/ \E s \in Streams : OpenStream(s) \/ CloseStream(s)
    \/ \E s \in Streams \cup {Conn} :
         \/ Len(control') > Len(control) /\ Push(s, control'[Len(control')])
         \/ s # Conn /\ Len(queue'[s]) > Len(queue[s]) /\ Push(s, queue'[s][Len(queue'[s])])
    \/ PopControl
    \/ \E s \in Streams : queue[s] # <<>> /\ \E k \in 0 .. Head(queue[s]).n : PopStream(s, k)
    \/ PopNothing
    \/ AdjustStream
    \/ SetWindow

Spec == Init /\ [][Next]_vars
=============================================================================
