---------------------------- MODULE PriorityTree ----------------------------
(***************************************************************************)
(* The write scheduler of RFC 7540 (NewPriorityWriteScheduler): a tree of  *)
(* streams whose queues are served parents first.  The tree keeps nodes of *)
(* closed and of idle streams in two bounded lists.                        *)
(*                                                                         *)
(* Weights and byte counts only order siblings; that order is left open:   *)
(* Pop may descend into any of them.  A frame is its stream and whether it *)
(* has payload, or Zero for a FrameWriteRequest{} that queuePool.put left  *)
(* behind; how DATA is split and throttled is left out.                    *)
(***************************************************************************)
EXTENDS Integers, Sequences, FiniteSets

CONSTANTS
    Streams,                \* stream ids, positive integers
    Zero, NoFrame,
    MaxClosedNodesInTree,
    MaxIdleNodesInTree,
    MaxPush                 \* bound: frames pushed in one behaviour

ASSUME StreamsAssumption == IsFiniteSet(Streams) /\ Streams \subseteq Nat \ {0}
ASSUME ListsAssumption == MaxClosedNodesInTree \in Nat /\ MaxIdleNodesInTree \in Nat

VARIABLES
    life,          \* the server's view of a stream: idle, open, closed
    state,         \* state of the node: open, closed, idle, or absent from nodes
    parent,        \* parent of the node; Root is 0
    q,             \* writeQueue of a node
    closedNodes, idleNodes, maxID,
    pushed, popped,
    panicked

vars == <<life, state, parent, q, closedNodes, idleNodes, maxID, pushed, popped, panicked>>
queues == <<q, pushed>>

Root == 0
Nodes == {s \in Streams : state[s] # "absent"} \cup {Root}

\* The parent of n along par; Root is above itself.
Above(par, n) == IF n = Root THEN Root ELSE par[n]

\* The k-th ancestor of s along par.
Up(par, s) ==
    LET up[k \in 0 .. Cardinality(Streams) + 1] == IF k = 0 THEN s ELSE Above(par, up[k - 1])
    IN up

\* Proper ancestors of s.
Ancestors(par, s) == {Up(par, s)[k] : k \in 1 .. Cardinality(Streams) + 1} \ {s}

Kids(par, n) == {s \in Nodes \ {Root} : par[s] = n}

setParent(par, ns, p) == [s \in Streams |-> IF s \in ns THEN p ELSE par[s]]

-----------------------------------------------------------------------------
Init ==
    /\ life = [s \in Streams |-> "idle"]
    /\ state = [s \in Streams |-> "absent"]
    /\ parent = [s \in Streams |-> Root]
    /\ q = [n \in Streams \cup {Root} |-> <<>>]
    /\ closedNodes = <<>>
    /\ idleNodes = <<>>
    /\ maxID = 0
    /\ pushed = 0
    /\ popped = NoFrame
    /\ panicked = FALSE

EvictedMutant(list, max) == IF Len(list) > max THEN {list[1]} ELSE {}  \* one too late

\* addClosedOrIdleNode: the nodes it evicts, and the list it leaves.
Evicted(list, max) == IF Len(list) = max /\ max > 0 THEN {list[1]} ELSE {}
Added(list, max, s) == Append(IF Len(list) = max THEN Tail(list) ELSE list, s)

\* removeNode: kids move to the parent of the node that goes.
removeNode(par, gone) ==
    [s \in Streams |-> IF s \notin gone /\ par[s] \in gone THEN par[par[s]] ELSE par[s]]

Remove(st, gone) == [s \in Streams |-> IF s \in gone THEN "absent" ELSE st[s]]

\* A stream is pushed by an open one, or opened by the client (pusher is Root).
OpenStream(s, pusher) ==
    /\ life[s] = "idle"
    /\ pusher # Root => life[pusher] = "open"
    /\ life' = [life EXCEPT ![s] = "open"]
    /\ panicked' = (state[s] \in {"open", "closed"})
    /\ IF state[s] # "absent"
       THEN UNCHANGED <<parent, maxID>>
       ELSE /\ parent' = [parent EXCEPT ![s] = IF pusher \in Nodes THEN pusher ELSE Root]
            /\ maxID' = IF s > maxID THEN s ELSE maxID
    /\ state' = [state EXCEPT ![s] = "open"]
    /\ popped' = NoFrame
    /\ UNCHANGED <<queues, closedNodes, idleNodes>>

\* queuePool.put gets a copy of the queue: it clears the entries the node still
\* counts, and the node keeps that many zero requests.
CloseStream(s) ==
    /\ life[s] = "open"
    /\ life' = [life EXCEPT ![s] = "closed"]
    /\ panicked' = (state[s] # "open")
    /\ IF panicked'
       THEN UNCHANGED <<state, parent, q, closedNodes>>
       ELSE LET gone == IF MaxClosedNodesInTree > 0
                        THEN Evicted(closedNodes, MaxClosedNodesInTree) ELSE {s} IN
            /\ state' = Remove([state EXCEPT ![s] = "closed"], gone)
            /\ parent' = removeNode(parent, gone)
            /\ q' = [q EXCEPT ![s] = [i \in 1 .. Len(@) |-> Zero]]
            /\ closedNodes' = IF MaxClosedNodesInTree > 0
                              THEN Added(closedNodes, MaxClosedNodesInTree, s) ELSE closedNodes
    /\ popped' = NoFrame
    /\ UNCHANGED <<idleNodes, maxID, pushed>>

ReparentMutant(par, s, dep, exclusive) ==             \* the dependency is not moved
    setParent(par, {s} \cup (IF exclusive THEN Kids(par, dep) ELSE {}), dep)

\* RFC 7540 section 5.3.3: s comes under dep.  When dep depends on s it first
\* takes the place of s; an exclusive s adopts the other kids of dep.
Reparent(par, s, dep, exclusive) ==
    LET moved == IF s \in Ancestors(par, dep) THEN setParent(par, {dep}, par[s]) ELSE par
        adopted == IF exclusive THEN setParent(moved, Kids(moved, dep) \ {s}, s) ELSE moved
    IN setParent(adopted, {s}, dep)

\* PRIORITY for a stream in any state; a new node is made for grouping only.
AdjustStream(s, dep, exclusive) ==
    LET new == state[s] = "absent"
        gone == IF new THEN Evicted(idleNodes, MaxIdleNodesInTree) ELSE {}
        base == removeNode(IF new THEN setParent(parent, {s}, Root) ELSE parent, gone)
        known == dep = Root \/ (dep \in Nodes \cup {s} /\ dep \notin gone) IN
    /\ new => s > maxID /\ MaxIdleNodesInTree > 0
    /\ state' = Remove([state EXCEPT ![s] = IF new THEN "idle" ELSE @], gone)
    /\ maxID' = IF new THEN s ELSE maxID
    /\ idleNodes' = IF new THEN Added(idleNodes, MaxIdleNodesInTree, s) ELSE idleNodes
    /\ parent' = IF ~known THEN setParent(base, {s}, Root)
                 ELSE IF dep = s THEN base ELSE Reparent(base, s, dep, exclusive)
    /\ popped' = NoFrame
    /\ UNCHANGED <<life, queues, closedNodes, panicked>>

\* s = Root for a frame without stream.
Push(s, data) ==
    /\ pushed < MaxPush
    /\ s # Root => life[s] = "open"
    /\ s = Root => ~data
    /\ panicked' = (s \notin Nodes /\ data)
    /\ q' = [q EXCEPT ![IF s \in Nodes THEN s ELSE Root] = Append(@, <<s, data>>)]
    /\ pushed' = pushed + 1
    /\ popped' = NoFrame
    /\ UNCHANGED <<life, state, parent, closedNodes, idleNodes, maxID>>

\* What flow control may hold back: DATA.
MayBlock(n) == q[n] # <<>> /\ Head(q[n]) \in Streams \X {TRUE}

\* walkReadyInOrder tries a node before everything below it.
Pop(n) ==
    /\ q[n] # <<>>
    /\ \A a \in Ancestors(parent, n) : q[a] = <<>> \/ MayBlock(a)
    /\ popped' = Head(q[n])
    /\ q' = [q EXCEPT ![n] = Tail(@)]
    /\ UNCHANGED <<life, state, parent, closedNodes, idleNodes, maxID, pushed, panicked>>

Next ==
    /\ ~panicked
    /\ \/ \E s \in Streams :
            \/ CloseStream(s)
            \/ \E p \in Streams \cup {Root} : OpenStream(s, p)
            \/ \E dep \in Streams \cup {Root}, x \in BOOLEAN : AdjustStream(s, dep, x)
       \/ \E s \in Streams \cup {Root}, data \in BOOLEAN : Push(s, data)
       \/ \E n \in Nodes : Pop(n)

Spec == Init /\ [][Next]_vars

-----------------------------------------------------------------------------
\* Whatever dependencies the client declares, the nodes form a tree: each one
\* reaches the root through nodes of the tree.  walkReadyInOrder would never end
\* on a cycle, and never reach a node that hangs on a removed one.
TreeSound ==
    \A s \in Nodes \ {Root} :
        /\ Up(parent, s)[Cardinality(Streams) + 1] = Root
        /\ Ancestors(parent, s) \subseteq Nodes

\* The tree keeps at most the configured number of nodes of streams that are not
\* open, although a stream may be in both lists.
KeptBounded ==
    /\ Cardinality({s \in Streams : state[s] = "closed"}) <= MaxClosedNodesInTree
    /\ Cardinality({s \in Streams : state[s] = "idle"}) <= MaxIdleNodesInTree

\* CloseStream discards the frames queued on its stream (writesched.go:16): Pop
\* never returns the emptied request one of them left.
ClosedIsDiscarded == popped # Zero
=============================================================================
