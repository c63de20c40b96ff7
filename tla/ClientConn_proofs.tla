-------------------------- MODULE ClientConn_proofs --------------------------
(***************************************************************************)
(* Proofs about ClientConn, for any number of requests, any modes, limits  *)
(* and events.                                                             *)
(***************************************************************************)
EXTENDS ClientConn, FiniteSetTheorems, TLAPS

Early == {"new", "lock", "wait", "woken"}           \* no stream was created yet
Late == {"reset", "resetPing", "forget", "werr", "done"}   \* after CleanupSettle

(* reqHeaderMu is held from the first look for a slot to the end of the    *)
(* HEADERS write.                                                          *)
HeaderMuHeld ==
    \A r \in Requests : headerMu = r <=> pc[r] \in Waiting \cup {"headers"}

(* Stream IDs are distinct and below nextStreamID; who is about to write   *)
(* HEADERS has the last one; nothing is sent without one.                  *)
Numbered ==
    /\ nextStreamID >= 1
    /\ \A r \in Requests :
          /\ pc[r] \in Early => id[r] = 0
          /\ pc[r] \in {"headers", "await"} => id[r] # 0
          /\ pc[r] = "headers" => ~Sent(r) /\ id[r] + 2 = nextStreamID
          /\ id[r] # 0 => id[r] + 2 <= nextStreamID
          /\ Sent(r) => id[r] # 0
    /\ \A q, r \in Requests : q # r /\ id[q] # 0 => id[q] # id[r]

(* cc.streams holds the streams from their creation to forgetStreamID.     *)
Registered ==
    \A r \in Requests : r \in streams <=> id[r] # 0 /\ pc[r] \notin {"werr", "done"}

(* What is closed without an error has no streams left.                    *)
ClosedIsIdle ==
    /\ closed /\ reader = "run" /\ tconn \in {"open", "graceful"} => streams = {}
    /\ tconn = "graceful" => closed
    /\ shut = "over" => closed

(* What an error that RoundTripOpt retries says about the stream: it was   *)
(* never created, is beyond the last stream of the GOAWAY, or was refused. *)
Excused(r, e) ==
    /\ e = "unusable" => id[r] = 0 /\ pc[r] \notin Early
    /\ e = "goaway" => id[r] > peerLast
    /\ e = "refused" => peer[r] = "refused"

Retries ==
    \A r \in Requests :
        /\ Excused(r, err[r]) /\ Excused(r, abortErr[r]) /\ Excused(r, result[r])
        /\ peer[r] \in {"processed", "reset"} => id[r] <= peerLast

(* While nothing was read but SETTINGS, no stream ended and none was reset *)
(* by the peer, and a reset goes uncounted only when the connection takes  *)
(* no more requests.                                                       *)
Unread ==
    /\ limit \in Limits \cup {InitialLimit, DefaultLimit}
    /\ \A r \in Requests : pc[r] = "settle" /\ skipPing[r] => CloseOnIdle \/ readBefore > 0
    /\ readBefore = 0 =>
          \A r \in Requests :
             /\ ~ended[r]
             /\ {err[r], abortErr[r]} \cap (FromPeer \cup {"malformed"}) = {}
             /\ pc[r] \in {"clean", "settle"} => err[r] # Nil

Quiet == readBefore = 0 /\ ~pingsBlocked

(* Requests that were sent and given up.                                   *)
Lingering == {r \in Requests : Sent(r) /\ pc[r] \in Late}

ResetsCounted == Quiet /\ ~CloseOnIdle => Cardinality(Lingering) <= pendingResets

(* Requests that have or had a stream which the peer knows, or will.       *)
Occupied == streams \cup {r \in Requests : Sent(r)}

SlotsBounded ==
    Quiet => \E m \in Limits \cup {InitialLimit, DefaultLimit} : Cardinality(Occupied) <= m

ConnInv ==
    /\ TypeOK /\ HeaderMuHeld /\ Numbered /\ Registered /\ ClosedIsIdle /\ Retries
    /\ NoStrandedReset /\ NoLeakedReservation
    /\ Unread /\ ResetsCounted /\ SlotsBounded

-----------------------------------------------------------------------------
(* The tuples of variables are always expanded.                            *)
USE DEF flagVars, slotVars, peerSetVars, readVars, wireVars, streamVars, envVars

(* Cardinalities of sets of requests.                                      *)
LEMMA CardSub ==
    ASSUME NEW S, NEW T, S \subseteq T, T \subseteq Requests
    PROVE  /\ Cardinality(S) \in Nat /\ Cardinality(T) \in Nat
           /\ Cardinality(S) <= Cardinality(T)
<1>1. IsFiniteSet(T)
  BY FS_Subset, RequestAssumption
<1> QED BY <1>1, FS_Subset, FS_CardinalityType

LEMMA CardAdd ==
    ASSUME NEW S, NEW x \in Requests, S \subseteq Requests
    PROVE  /\ Cardinality(S) \in Nat /\ Cardinality(S \cup {x}) \in Nat
           /\ Cardinality(S \cup {x}) <= Cardinality(S) + 1
           /\ x \notin S => Cardinality(S \cup {x}) = Cardinality(S) + 1
           /\ Cardinality(S \ {x}) \in Nat
           /\ Cardinality(S \ {x}) >= Cardinality(S) - 1
           /\ x \in S => Cardinality(S \ {x}) = Cardinality(S) - 1
<1>1. IsFiniteSet(S)
  BY FS_Subset, RequestAssumption
<1>2. Cardinality(S) \in Nat
  BY <1>1, FS_CardinalityType
<1>3. /\ IsFiniteSet(S \cup {x})
      /\ Cardinality(S \cup {x}) = IF x \in S THEN Cardinality(S) ELSE Cardinality(S) + 1
  BY <1>1, FS_AddElement
<1>4. /\ IsFiniteSet(S \ {x})
      /\ Cardinality(S \ {x}) = IF x \in S THEN Cardinality(S) - 1 ELSE Cardinality(S)
  BY <1>1, FS_RemoveElement
<1>5. Cardinality(S \cup {x}) \in Nat /\ Cardinality(S \ {x}) \in Nat
  BY <1>3, <1>4, FS_CardinalityType
<1> QED BY <1>2, <1>3, <1>4, <1>5

LEMMA CardUnion ==
    ASSUME NEW S, NEW T, S \subseteq Requests, T \subseteq Requests
    PROVE  /\ Cardinality(S) \in Nat /\ Cardinality(T) \in Nat
           /\ Cardinality(S \cup T) <= Cardinality(S) + Cardinality(T)
<1>1. IsFiniteSet(S) /\ IsFiniteSet(T)
  BY FS_Subset, RequestAssumption
<1>2. Cardinality(S \cap T) \in Nat
  <2>1. IsFiniteSet(S \cap T)
    BY <1>1, FS_Subset
  <2> QED BY <2>1, FS_CardinalityType
<1>3. Cardinality(S) \in Nat /\ Cardinality(T) \in Nat
  BY <1>1, FS_CardinalityType
<1>4. Cardinality(S \cup T) = Cardinality(S) + Cardinality(T) - Cardinality(S \cap T)
  BY <1>1, FS_Union
<1> QED BY <1>2, <1>3, <1>4

(* How a write can end.                                                    *)
LEMMA WriteEndsFacts ==
    ASSUME TypeOK
    PROVE  /\ WriteEnds \subseteq {"fails", "swallowed", "arrives"}
           /\ "arrives" \in WriteEnds => tconn = "open"
           /\ "swallowed" \in WriteEnds => tconn = "lost"
<1>1. werr \in BOOLEAN /\ tconn \in {"open", "graceful", "forced", "lost"}
  BY DEF TypeOK
<1>2. CASE werr \/ tconn \in {"graceful", "forced"}
  BY <1>2 DEF WriteEnds
<1>3. CASE ~werr /\ tconn = "lost"
  BY <1>3 DEF WriteEnds
<1>4. CASE ~werr /\ tconn = "open"
  BY <1>4 DEF WriteEnds
<1> QED BY <1>1, <1>2, <1>3, <1>4

(* newClientConn establishes the invariant.                                *)
LEMMA InitConnInv == Init => ConnInv
<1> SUFFICES ASSUME Init PROVE ConnInv
  OBVIOUS
<1>1. Far \in Nat
  <2>1. Cardinality(Requests) \in Nat
    BY RequestAssumption, FS_CardinalityType
  <2> QED BY <2>1 DEF Far
<1>2. TypeOK
  BY <1>1, ConnAssumption DEF Init, TypeOK
<1>3. HeaderMuHeld /\ Numbered /\ Registered
  BY RequestAssumption DEF Init, HeaderMuHeld, Numbered, Registered, Waiting, Early, Sent
<1>4. ClosedIsIdle /\ Retries
  BY NilAssumption DEF Init, ClosedIsIdle, Retries, Excused, Errors
<1>5. NoStrandedReset /\ Unread
  BY NilAssumption DEF Init, NoStrandedReset, Unread, Errors, FromPeer
<1>6. NoLeakedReservation
  <2>1. Cardinality({r \in Requests : pc[r] = "lock" \/ (pc[r] = "clean" /\ id[r] = 0)}) \in Nat
    BY CardSub
  <2> QED BY <2>1 DEF Init, NoLeakedReservation
<1>7. ResetsCounted /\ SlotsBounded
  <2>1. Lingering = {} /\ Occupied = {}
    BY DEF Init, Lingering, Occupied, Sent
  <2>2. Cardinality({}) = 0
    BY FS_EmptySet
  <2> QED BY <2>1, <2>2, ConnAssumption DEF Init, ResetsCounted, SlotsBounded
<1> QED BY <1>2, <1>3, <1>4, <1>5, <1>6, <1>7 DEF ConnInv

(* What a step leaves alone that only wakes waiters: the places of the     *)
(* requests, their streams and their reservations.                         *)
Woke == pc' = pc \/ pc' = [r \in Requests |-> IF pc[r] = "wait" THEN "woken" ELSE pc[r]]

KeepsSent == \A r \in Requests : Sent(r)' <=> Sent(r)

LEMMA WokeFrame ==
    ASSUME ConnInv, Woke, KeepsSent,
           UNCHANGED <<streams, reserved, nextStreamID, headerMu, id>>
    PROVE  /\ HeaderMuHeld' /\ Numbered' /\ Registered' /\ NoLeakedReservation'
           /\ Lingering' = Lingering /\ Occupied' = Occupied
           /\ \A r \in Requests : /\ pc'[r] \in Early <=> pc[r] \in Early
                                  /\ pc[r] \notin Waiting => pc'[r] = pc[r]
                                  /\ pc'[r] \notin Waiting => pc'[r] = pc[r]
                                  /\ pc[r] \in Waiting => pc'[r] \in Waiting
<1> USE DEF ConnInv
<1>1. \A r \in Requests : /\ pc'[r] \in Early <=> pc[r] \in Early
                          /\ pc[r] \notin Waiting => pc'[r] = pc[r]
                          /\ pc'[r] \notin Waiting => pc'[r] = pc[r]
                          /\ pc[r] \in Waiting => pc'[r] \in Waiting
  BY DEF Woke, Early, Waiting
<1>2. HeaderMuHeld'
  BY <1>1 DEF HeaderMuHeld, Waiting
<1>3. Numbered'
  BY <1>1 DEF Numbered, KeepsSent, Waiting
<1>4. Registered'
  BY <1>1 DEF Registered, Waiting
<1>5. NoLeakedReservation'
  <2>1. {r \in Requests : pc[r] = "lock" \/ (pc[r] = "clean" /\ id[r] = 0)}'
          = {r \in Requests : pc[r] = "lock" \/ (pc[r] = "clean" /\ id[r] = 0)}
    BY <1>1 DEF Waiting
  <2> QED BY <2>1 DEF NoLeakedReservation
<1>6. Lingering' = Lingering
  BY <1>1 DEF Lingering, KeepsSent, Late, Waiting
<1>7. Occupied' = Occupied
  BY DEF Occupied, KeepsSent
<1> QED BY <1>1, <1>2, <1>3, <1>4, <1>5, <1>6, <1>7
-----------------------------------------------------------------------------
(* The end of a context changes nothing else.                              *)
LEMMA CancelKeeps ==
    ASSUME ConnInv, NEW r \in Requests, Cancel(r)
    PROVE  ConnInv'
<1> USE DEF ConnInv, Cancel
<1>1. TypeOK'
  BY DEF TypeOK
<1>2. Woke /\ KeepsSent /\ UNCHANGED <<streams, reserved, nextStreamID, headerMu, id>>
  BY DEF TypeOK, Woke, KeepsSent, Sent
<1>3. ClosedIsIdle'
  BY DEF TypeOK, ClosedIsIdle
<1>4. Retries'
  BY <1>2, WokeFrame, NilAssumption DEF TypeOK, Retries, Excused, Errors
<1>5. NoStrandedReset'
  BY <1>2, WokeFrame DEF TypeOK, NoStrandedReset, Waiting
<1>6. Unread'
  BY <1>2, WokeFrame DEF TypeOK, Numbered, Unread, CloseOnIdle, FromPeer, Waiting
<1>7. ResetsCounted' /\ SlotsBounded'
  BY <1>2, WokeFrame DEF TypeOK, Numbered, ResetsCounted, SlotsBounded, Quiet, CloseOnIdle
<1> QED BY <1>1, <1>2, <1>3, <1>4, <1>5, <1>6, <1>7, WokeFrame

(* The caller leaves its select, aborting the stream if its context ended. *)
LEMMA CallerSelectKeeps ==
    ASSUME ConnInv, NEW r \in Requests, CallerSelect(r)
    PROVE  ConnInv'
<1> USE DEF ConnInv, CallerSelect, Answer, Abort, Broadcast
<1>1. TypeOK'
  BY NilAssumption DEF TypeOK, Errors
<1>2. Woke /\ KeepsSent /\ UNCHANGED <<streams, reserved, nextStreamID, headerMu, id>>
  BY DEF TypeOK, Woke, KeepsSent, Sent
<1>3. ClosedIsIdle'
  BY DEF TypeOK, ClosedIsIdle
<1>4. Retries'
  BY <1>2, WokeFrame, NilAssumption DEF TypeOK, Retries, Excused, Errors
<1>5. NoStrandedReset'
  BY <1>2, WokeFrame DEF TypeOK, NoStrandedReset, Waiting
<1>6. Unread'
  BY <1>2, WokeFrame DEF TypeOK, Numbered, Unread, CloseOnIdle, FromPeer, Waiting
<1>7. ResetsCounted' /\ SlotsBounded'
  BY <1>2, WokeFrame DEF TypeOK, Numbered, ResetsCounted, SlotsBounded, Quiet, CloseOnIdle
<1> QED BY <1>1, <1>2, <1>3, <1>4, <1>5, <1>6, <1>7, WokeFrame

(* What waitDone returns is the error of the stream.                       *)
LEMMA CallerWaitDoneKeeps ==
    ASSUME ConnInv, NEW r \in Requests, CallerWaitDone(r)
    PROVE  ConnInv'
<1> USE DEF ConnInv, CallerWaitDone, Answer
<1>1. TypeOK'
  BY DEF TypeOK, Errors
<1>2. Woke /\ KeepsSent /\ UNCHANGED <<streams, reserved, nextStreamID, headerMu, id>>
  BY DEF TypeOK, Woke, KeepsSent, Sent
<1>3. ClosedIsIdle'
  BY DEF TypeOK, ClosedIsIdle
<1>4. Retries'
  BY <1>2, WokeFrame, NilAssumption DEF TypeOK, Retries, Excused, Errors
<1>5. NoStrandedReset'
  BY <1>2, WokeFrame DEF TypeOK, NoStrandedReset, Waiting
<1>6. Unread'
  BY <1>2, WokeFrame DEF TypeOK, Numbered, Unread, CloseOnIdle, FromPeer, Waiting
<1>7. ResetsCounted' /\ SlotsBounded'
  BY <1>2, WokeFrame DEF TypeOK, Numbered, ResetsCounted, SlotsBounded, Quiet, CloseOnIdle
<1> QED BY <1>1, <1>2, <1>3, <1>4, <1>5, <1>6, <1>7, WokeFrame

(* Closing the body aborts the stream.                                     *)
LEMMA CloseBodyKeeps ==
    ASSUME ConnInv, NEW r \in Requests, CloseBody(r)
    PROVE  ConnInv'
<1> USE DEF ConnInv, CloseBody, Abort, Broadcast
<1>1. TypeOK'
  BY DEF TypeOK, Errors
<1>2. Woke /\ KeepsSent /\ UNCHANGED <<streams, reserved, nextStreamID, headerMu, id>>
  BY DEF TypeOK, Woke, KeepsSent, Sent
<1>3. ClosedIsIdle'
  BY DEF TypeOK, ClosedIsIdle
<1>4. Retries'
  BY <1>2, WokeFrame, NilAssumption DEF TypeOK, Retries, Excused, Errors
<1>5. NoStrandedReset'
  BY <1>2, WokeFrame DEF TypeOK, NoStrandedReset, Waiting
<1>6. Unread'
  BY <1>2, WokeFrame DEF TypeOK, Numbered, Unread, CloseOnIdle, FromPeer, Waiting
<1>7. ResetsCounted' /\ SlotsBounded'
  BY <1>2, WokeFrame DEF TypeOK, Numbered, ResetsCounted, SlotsBounded, Quiet, CloseOnIdle
<1> QED BY <1>1, <1>2, <1>3, <1>4, <1>5, <1>6, <1>7, WokeFrame

(* The peer takes up only streams below the last of its GOAWAY.            *)
LEMMA AcceptKeeps ==
    ASSUME ConnInv, NEW r \in Requests, Accept(r)
    PROVE  ConnInv'
<1> USE DEF ConnInv, Accept
<1>1. TypeOK'
  BY DEF TypeOK
<1>2. Woke /\ KeepsSent /\ UNCHANGED <<streams, reserved, nextStreamID, headerMu, id>>
  BY DEF TypeOK, Woke, KeepsSent, Sent
<1>3. ClosedIsIdle'
  BY DEF TypeOK, ClosedIsIdle
<1>4. Retries'
  BY <1>2, WokeFrame, NilAssumption DEF TypeOK, Retries, Excused, Errors
<1>5. NoStrandedReset'
  BY <1>2, WokeFrame DEF TypeOK, NoStrandedReset, Waiting
<1>6. Unread'
  BY <1>2, WokeFrame DEF TypeOK, Numbered, Unread, CloseOnIdle, FromPeer, Waiting
<1>7. ResetsCounted' /\ SlotsBounded'
  BY <1>2, WokeFrame DEF TypeOK, Numbered, ResetsCounted, SlotsBounded, Quiet, CloseOnIdle
<1> QED BY <1>1, <1>2, <1>3, <1>4, <1>5, <1>6, <1>7, WokeFrame

(* A response.                                                             *)
LEMMA RecvHeadersKeeps ==
    ASSUME ConnInv, NEW r \in Requests, RecvHeaders(r)
    PROVE  ConnInv'
<1> USE DEF ConnInv, RecvHeaders, SeeFrame
<1>1. TypeOK'
  BY ConnAssumption DEF TypeOK
<1>2. Woke /\ KeepsSent /\ UNCHANGED <<streams, reserved, nextStreamID, headerMu, id>>
  BY DEF TypeOK, Woke, KeepsSent, Sent
<1>3. ClosedIsIdle'
  BY DEF TypeOK, ClosedIsIdle
<1>4. Retries'
  BY <1>2, WokeFrame, NilAssumption DEF TypeOK, Retries, Excused, Errors
<1>5. NoStrandedReset'
  BY <1>2, WokeFrame DEF TypeOK, NoStrandedReset, Waiting
<1>6. Unread'
  BY <1>2, WokeFrame DEF TypeOK, Numbered, Unread, CloseOnIdle, FromPeer, Waiting
<1>7. ResetsCounted' /\ SlotsBounded'
  BY <1>2, WokeFrame DEF TypeOK, Numbered, ResetsCounted, SlotsBounded, Quiet, CloseOnIdle
<1> QED BY <1>1, <1>2, <1>3, <1>4, <1>5, <1>6, <1>7, WokeFrame

(* The end of a response.                                                  *)
LEMMA RecvEndKeeps ==
    ASSUME ConnInv, NEW r \in Requests, RecvEnd(r)
    PROVE  ConnInv'
<1> USE DEF ConnInv, RecvEnd, SeeFrame
<1>1. TypeOK'
  BY DEF TypeOK
<1>2. Woke /\ KeepsSent /\ UNCHANGED <<streams, reserved, nextStreamID, headerMu, id>>
  BY DEF TypeOK, Woke, KeepsSent, Sent
<1>3. ClosedIsIdle'
  BY DEF TypeOK, ClosedIsIdle
<1>4. Retries'
  BY <1>2, WokeFrame, NilAssumption DEF TypeOK, Retries, Excused, Errors
<1>5. NoStrandedReset'
  BY <1>2, WokeFrame DEF TypeOK, NoStrandedReset, Waiting
<1>6. Unread'
  BY <1>2, WokeFrame DEF TypeOK, Numbered, Unread, CloseOnIdle, FromPeer, Waiting
<1>7. ResetsCounted' /\ SlotsBounded'
  BY <1>2, WokeFrame DEF TypeOK, Numbered, ResetsCounted, SlotsBounded, Quiet, CloseOnIdle
<1> QED BY <1>1, <1>2, <1>3, <1>4, <1>5, <1>6, <1>7, WokeFrame

(* A malformed frame aborts its stream.                                    *)
LEMMA RecvMalformedKeeps ==
    ASSUME ConnInv, NEW r \in Requests, RecvMalformed(r)
    PROVE  ConnInv'
<1> USE DEF ConnInv, RecvMalformed, SeeFrame, Abort, Broadcast
<1>1. TypeOK'
  BY DEF TypeOK, Errors
<1>2. Woke /\ KeepsSent /\ UNCHANGED <<streams, reserved, nextStreamID, headerMu, id>>
  BY DEF TypeOK, Woke, KeepsSent, Sent
<1>3. ClosedIsIdle'
  BY DEF TypeOK, ClosedIsIdle
<1>4. Retries'
  BY <1>2, WokeFrame, NilAssumption DEF TypeOK, Retries, Excused, Errors
<1>5. NoStrandedReset'
  BY <1>2, WokeFrame DEF TypeOK, NoStrandedReset, Waiting
<1>6. Unread'
  BY <1>2, WokeFrame DEF TypeOK, Numbered, Unread, CloseOnIdle, FromPeer, Waiting
<1>7. ResetsCounted' /\ SlotsBounded'
  BY <1>2, WokeFrame DEF TypeOK, Numbered, ResetsCounted, SlotsBounded, Quiet, CloseOnIdle
<1> QED BY <1>1, <1>2, <1>3, <1>4, <1>5, <1>6, <1>7, WokeFrame

(* RST_STREAM from the peer: a refusal came before the peer took it up.    *)
LEMMA RecvResetKeeps ==
    ASSUME ConnInv, NEW r \in Requests, NEW e \in FromPeer, RecvReset(r, e)
    PROVE  ConnInv'
<1> USE DEF ConnInv, RecvReset, SeeFrame, FromPeer, Abort, Broadcast
<1>1. TypeOK'
  <2>1. CASE Readable(r)
    BY <2>1 DEF TypeOK, Errors
  <2>2. CASE ~Readable(r)
    BY <2>2 DEF TypeOK, Errors
  <2> QED BY <2>1, <2>2
<1>2. Woke /\ KeepsSent /\ UNCHANGED <<streams, reserved, nextStreamID, headerMu, id>>
  BY DEF TypeOK, Woke, KeepsSent, Sent
<1>3. ClosedIsIdle'
  BY DEF TypeOK, ClosedIsIdle
<1>4. Retries'
  BY <1>2, WokeFrame, NilAssumption DEF TypeOK, Retries, Excused, Errors
<1>5. NoStrandedReset'
  BY <1>2, WokeFrame DEF TypeOK, NoStrandedReset, Waiting
<1>6. Unread'
  BY <1>2, WokeFrame DEF TypeOK, Numbered, Unread, CloseOnIdle, FromPeer, Waiting
<1>7. ResetsCounted' /\ SlotsBounded'
  BY <1>2, WokeFrame DEF TypeOK, Numbered, ResetsCounted, SlotsBounded, Quiet, CloseOnIdle
<1> QED BY <1>1, <1>2, <1>3, <1>4, <1>5, <1>6, <1>7, WokeFrame

(* A GOAWAY aborts the streams the peer did not take up.                   *)
LEMMA RecvGoAwayKeeps ==
    ASSUME ConnInv, NEW last \in Nat, NEW code \in {"graceful", "error"}, RecvGoAway(last, code)
    PROVE  ConnInv'
<1> USE DEF ConnInv, RecvGoAway, NotTaken, Broadcast
<1>1. TypeOK'
  BY DEF TypeOK, Errors
<1>2. Woke /\ KeepsSent /\ UNCHANGED <<streams, reserved, nextStreamID, headerMu, id>>
  BY DEF TypeOK, Woke, KeepsSent, Sent
<1>3. ClosedIsIdle'
  BY DEF TypeOK, ClosedIsIdle
<1>4. Retries'
  BY <1>2, WokeFrame, NilAssumption DEF TypeOK, Retries, Excused, Errors
<1>5. NoStrandedReset'
  BY <1>2, WokeFrame DEF TypeOK, NoStrandedReset, Waiting
<1>6. Unread'
  BY <1>2, WokeFrame DEF TypeOK, Numbered, Unread, CloseOnIdle, FromPeer, Waiting
<1>7. ResetsCounted' /\ SlotsBounded'
  BY <1>2, WokeFrame DEF TypeOK, Numbered, ResetsCounted, SlotsBounded, Quiet, CloseOnIdle
<1> QED BY <1>1, <1>2, <1>3, <1>4, <1>5, <1>6, <1>7, WokeFrame

(* SETTINGS replace the limit.                                             *)
LEMMA RecvSettingsKeeps ==
    ASSUME ConnInv, NEW max \in Limits \cup {Nil}, NEW hasWindow \in BOOLEAN,
           RecvSettings(max, hasWindow)
    PROVE  ConnInv'
<1> USE DEF ConnInv, RecvSettings, Abort, Broadcast
<1>1. TypeOK'
  BY ConnAssumption DEF TypeOK, Errors
<1>2. Woke /\ KeepsSent /\ UNCHANGED <<streams, reserved, nextStreamID, headerMu, id>>
  BY DEF TypeOK, Woke, KeepsSent, Sent
<1>3. ClosedIsIdle'
  BY DEF TypeOK, ClosedIsIdle
<1>4. Retries'
  BY <1>2, WokeFrame, NilAssumption DEF TypeOK, Retries, Excused, Errors
<1>5. NoStrandedReset'
  BY <1>2, WokeFrame DEF TypeOK, NoStrandedReset, Waiting
<1>6. Unread'
  BY <1>2, WokeFrame DEF TypeOK, Numbered, Unread, CloseOnIdle, FromPeer, Waiting
<1>7. ResetsCounted' /\ SlotsBounded'
  BY <1>2, WokeFrame DEF TypeOK, Numbered, ResetsCounted, SlotsBounded, Quiet, CloseOnIdle
<1> QED BY <1>1, <1>2, <1>3, <1>4, <1>5, <1>6, <1>7, WokeFrame

(* WINDOW_UPDATE wakes everyone.                                           *)
LEMMA RecvWindowUpdateKeeps ==
    ASSUME ConnInv, RecvWindowUpdate
    PROVE  ConnInv'
<1> USE DEF ConnInv, RecvWindowUpdate, SeeFrame, Abort, Broadcast
<1>1. TypeOK'
  BY DEF TypeOK, Errors
<1>2. Woke /\ KeepsSent /\ UNCHANGED <<streams, reserved, nextStreamID, headerMu, id>>
  BY DEF TypeOK, Woke, KeepsSent, Sent
<1>3. ClosedIsIdle'
  BY DEF TypeOK, ClosedIsIdle
<1>4. Retries'
  BY <1>2, WokeFrame, NilAssumption DEF TypeOK, Retries, Excused, Errors
<1>5. NoStrandedReset'
  BY <1>2, WokeFrame DEF TypeOK, NoStrandedReset, Waiting
<1>6. Unread'
  BY <1>2, WokeFrame DEF TypeOK, Numbered, Unread, CloseOnIdle, FromPeer, Waiting
<1>7. ResetsCounted' /\ SlotsBounded'
  BY <1>2, WokeFrame DEF TypeOK, Numbered, ResetsCounted, SlotsBounded, Quiet, CloseOnIdle
<1> QED BY <1>1, <1>2, <1>3, <1>4, <1>5, <1>6, <1>7, WokeFrame

(* An acknowledged PING confirms every reset; from then on pings are blocked. *)
LEMMA RecvPingAckKeeps ==
    ASSUME ConnInv, RecvPingAck
    PROVE  ConnInv'
<1> USE DEF ConnInv, RecvPingAck, Abort, Broadcast
<1>1. TypeOK'
  <2>1. CASE pendingResets > 0
    BY <2>1 DEF TypeOK
  <2>2. CASE ~(pendingResets > 0)
    BY <2>2 DEF TypeOK
  <2> QED BY <2>1, <2>2
<1>2. Woke /\ KeepsSent /\ UNCHANGED <<streams, reserved, nextStreamID, headerMu, id>>
  BY DEF TypeOK, Woke, KeepsSent, Sent
<1>3. ClosedIsIdle'
  BY DEF TypeOK, ClosedIsIdle
<1>4. Retries'
  BY <1>2, WokeFrame, NilAssumption DEF TypeOK, Retries, Excused, Errors
<1>5. NoStrandedReset'
  BY <1>2, WokeFrame DEF TypeOK, NoStrandedReset, Waiting
<1>6. Unread'
  BY <1>2, WokeFrame DEF TypeOK, Numbered, Unread, CloseOnIdle, FromPeer, Waiting
<1>7. ResetsCounted' /\ SlotsBounded'
  BY <1>2, WokeFrame DEF TypeOK, Numbered, ResetsCounted, SlotsBounded, Quiet, CloseOnIdle
<1> QED BY <1>1, <1>2, <1>3, <1>4, <1>5, <1>6, <1>7, WokeFrame

(* The read loop ends.                                                     *)
LEMMA ReadFailsKeeps ==
    ASSUME ConnInv, ReadFails
    PROVE  ConnInv'
<1> USE DEF ConnInv, ReadFails
<1>1. TypeOK'
  BY DEF TypeOK
<1>2. Woke /\ KeepsSent /\ UNCHANGED <<streams, reserved, nextStreamID, headerMu, id>>
  BY DEF TypeOK, Woke, KeepsSent, Sent
<1>3. ClosedIsIdle'
  BY DEF TypeOK, ClosedIsIdle
<1>4. Retries'
  BY <1>2, WokeFrame, NilAssumption DEF TypeOK, Retries, Excused, Errors
<1>5. NoStrandedReset'
  BY <1>2, WokeFrame DEF TypeOK, NoStrandedReset, Waiting
<1>6. Unread'
  BY <1>2, WokeFrame DEF TypeOK, Numbered, Unread, CloseOnIdle, FromPeer, Waiting
<1>7. ResetsCounted' /\ SlotsBounded'
  BY <1>2, WokeFrame DEF TypeOK, Numbered, ResetsCounted, SlotsBounded, Quiet, CloseOnIdle
<1> QED BY <1>1, <1>2, <1>3, <1>4, <1>5, <1>6, <1>7, WokeFrame

(* The streams that are left are aborted.                                  *)
LEMMA ReaderCleanupKeeps ==
    ASSUME ConnInv, ReaderCleanup
    PROVE  ConnInv'
<1> USE DEF ConnInv, ReaderCleanup, CloseConn, Abort, Broadcast
<1>1. TypeOK'
  BY DEF TypeOK, Errors
<1>2. Woke /\ KeepsSent /\ UNCHANGED <<streams, reserved, nextStreamID, headerMu, id>>
  BY DEF TypeOK, Woke, KeepsSent, Sent
<1>3. ClosedIsIdle'
  BY DEF TypeOK, ClosedIsIdle
<1>4. Retries'
  BY <1>2, WokeFrame, NilAssumption DEF TypeOK, Retries, Excused, Errors
<1>5. NoStrandedReset'
  BY <1>2, WokeFrame DEF TypeOK, NoStrandedReset, Waiting
<1>6. Unread'
  BY <1>2, WokeFrame DEF TypeOK, Numbered, Unread, CloseOnIdle, FromPeer, Waiting
<1>7. ResetsCounted' /\ SlotsBounded'
  BY <1>2, WokeFrame DEF TypeOK, Numbered, ResetsCounted, SlotsBounded, Quiet, CloseOnIdle
<1> QED BY <1>1, <1>2, <1>3, <1>4, <1>5, <1>6, <1>7, WokeFrame

(* Close aborts every stream.                                              *)
LEMMA CloseKeeps ==
    ASSUME ConnInv, Close
    PROVE  ConnInv'
<1> USE DEF ConnInv, Close, CloseForError, CloseConn, Abort, Broadcast
<1>1. TypeOK'
  BY DEF TypeOK, Errors
<1>2. Woke /\ KeepsSent /\ UNCHANGED <<streams, reserved, nextStreamID, headerMu, id>>
  BY DEF TypeOK, Woke, KeepsSent, Sent
<1>3. ClosedIsIdle'
  BY DEF TypeOK, ClosedIsIdle
<1>4. Retries'
  BY <1>2, WokeFrame, NilAssumption DEF TypeOK, Retries, Excused, Errors
<1>5. NoStrandedReset'
  BY <1>2, WokeFrame DEF TypeOK, NoStrandedReset, Waiting
<1>6. Unread'
  BY <1>2, WokeFrame DEF TypeOK, Numbered, Unread, CloseOnIdle, FromPeer, Waiting
<1>7. ResetsCounted' /\ SlotsBounded'
  BY <1>2, WokeFrame DEF TypeOK, Numbered, ResetsCounted, SlotsBounded, Quiet, CloseOnIdle
<1> QED BY <1>1, <1>2, <1>3, <1>4, <1>5, <1>6, <1>7, WokeFrame

(* An idle connection is closed.                                           *)
LEMMA CloseIfIdleKeeps ==
    ASSUME ConnInv, CloseIfIdle
    PROVE  ConnInv'
<1> USE DEF ConnInv, CloseIfIdle, IsIdle, CloseConn
<1>1. TypeOK'
  BY DEF TypeOK
<1>2. Woke /\ KeepsSent /\ UNCHANGED <<streams, reserved, nextStreamID, headerMu, id>>
  BY DEF TypeOK, Woke, KeepsSent, Sent
<1>3. ClosedIsIdle'
  BY DEF TypeOK, ClosedIsIdle
<1>4. Retries'
  BY <1>2, WokeFrame, NilAssumption DEF TypeOK, Retries, Excused, Errors
<1>5. NoStrandedReset'
  BY <1>2, WokeFrame DEF TypeOK, NoStrandedReset, Waiting
<1>6. Unread'
  BY <1>2, WokeFrame DEF TypeOK, Numbered, Unread, CloseOnIdle, FromPeer, Waiting
<1>7. ResetsCounted' /\ SlotsBounded'
  BY <1>2, WokeFrame DEF TypeOK, Numbered, ResetsCounted, SlotsBounded, Quiet, CloseOnIdle
<1> QED BY <1>1, <1>2, <1>3, <1>4, <1>5, <1>6, <1>7, WokeFrame

(* Shutdown turns new requests away,                                       *)
LEMMA ShutdownStartKeeps ==
    ASSUME ConnInv, ShutdownStart
    PROVE  ConnInv'
<1> USE DEF ConnInv, ShutdownStart
<1>1. TypeOK'
  BY DEF TypeOK
<1>2. Woke /\ KeepsSent /\ UNCHANGED <<streams, reserved, nextStreamID, headerMu, id>>
  BY DEF TypeOK, Woke, KeepsSent, Sent
<1>3. ClosedIsIdle'
  BY DEF TypeOK, ClosedIsIdle
<1>4. Retries'
  BY <1>2, WokeFrame, NilAssumption DEF TypeOK, Retries, Excused, Errors
<1>5. NoStrandedReset'
  BY <1>2, WokeFrame DEF TypeOK, NoStrandedReset, Waiting
<1>6. Unread'
  BY <1>2, WokeFrame DEF TypeOK, Numbered, Unread, CloseOnIdle, FromPeer, Waiting
<1>7. ResetsCounted' /\ SlotsBounded'
  BY <1>2, WokeFrame DEF TypeOK, Numbered, ResetsCounted, SlotsBounded, Quiet, CloseOnIdle
<1> QED BY <1>1, <1>2, <1>3, <1>4, <1>5, <1>6, <1>7, WokeFrame

(* sends GOAWAY,                                                           *)
LEMMA ShutdownGoAwayKeeps ==
    ASSUME ConnInv, ShutdownGoAway
    PROVE  ConnInv'
<1> USE DEF ConnInv, ShutdownGoAway
<1>1. TypeOK'
  BY WriteEndsFacts DEF TypeOK
<1>2. Woke /\ KeepsSent /\ UNCHANGED <<streams, reserved, nextStreamID, headerMu, id>>
  BY DEF TypeOK, Woke, KeepsSent, Sent
<1>3. ClosedIsIdle'
  BY DEF TypeOK, ClosedIsIdle
<1>4. Retries'
  BY <1>2, WokeFrame, NilAssumption DEF TypeOK, Retries, Excused, Errors
<1>5. NoStrandedReset'
  BY <1>2, WokeFrame DEF TypeOK, NoStrandedReset, Waiting
<1>6. Unread'
  BY <1>2, WokeFrame DEF TypeOK, Numbered, Unread, CloseOnIdle, FromPeer, Waiting
<1>7. ResetsCounted' /\ SlotsBounded'
  BY <1>2, WokeFrame DEF TypeOK, Numbered, ResetsCounted, SlotsBounded, Quiet, CloseOnIdle
<1> QED BY <1>1, <1>2, <1>3, <1>4, <1>5, <1>6, <1>7, WokeFrame

(* looks for streams,                                                      *)
LEMMA ShutdownCheckKeeps ==
    ASSUME ConnInv, ShutdownCheck
    PROVE  ConnInv'
<1> USE DEF ConnInv, ShutdownCheck
<1>1. TypeOK'
  BY DEF TypeOK
<1>2. Woke /\ KeepsSent /\ UNCHANGED <<streams, reserved, nextStreamID, headerMu, id>>
  BY DEF TypeOK, Woke, KeepsSent, Sent
<1>3. ClosedIsIdle'
  BY DEF TypeOK, ClosedIsIdle
<1>4. Retries'
  BY <1>2, WokeFrame, NilAssumption DEF TypeOK, Retries, Excused, Errors
<1>5. NoStrandedReset'
  BY <1>2, WokeFrame DEF TypeOK, NoStrandedReset, Waiting
<1>6. Unread'
  BY <1>2, WokeFrame DEF TypeOK, Numbered, Unread, CloseOnIdle, FromPeer, Waiting
<1>7. ResetsCounted' /\ SlotsBounded'
  BY <1>2, WokeFrame DEF TypeOK, Numbered, ResetsCounted, SlotsBounded, Quiet, CloseOnIdle
<1> QED BY <1>1, <1>2, <1>3, <1>4, <1>5, <1>6, <1>7, WokeFrame

(* and closes the connection once there are none;                          *)
LEMMA ShutdownClosesKeeps ==
    ASSUME ConnInv, ShutdownCloses
    PROVE  ConnInv'
<1> USE DEF ConnInv, ShutdownCloses, CloseConn
<1>1. TypeOK'
  BY DEF TypeOK
<1>2. Woke /\ KeepsSent /\ UNCHANGED <<streams, reserved, nextStreamID, headerMu, id>>
  BY DEF TypeOK, Woke, KeepsSent, Sent
<1>3. ClosedIsIdle'
  BY DEF TypeOK, ClosedIsIdle
<1>4. Retries'
  BY <1>2, WokeFrame, NilAssumption DEF TypeOK, Retries, Excused, Errors
<1>5. NoStrandedReset'
  BY <1>2, WokeFrame DEF TypeOK, NoStrandedReset, Waiting
<1>6. Unread'
  BY <1>2, WokeFrame DEF TypeOK, Numbered, Unread, CloseOnIdle, FromPeer, Waiting
<1>7. ResetsCounted' /\ SlotsBounded'
  BY <1>2, WokeFrame DEF TypeOK, Numbered, ResetsCounted, SlotsBounded, Quiet, CloseOnIdle
<1> QED BY <1>1, <1>2, <1>3, <1>4, <1>5, <1>6, <1>7, WokeFrame

(* or stops waiting.                                                       *)
LEMMA ShutdownGivesUpKeeps ==
    ASSUME ConnInv, ShutdownGivesUp
    PROVE  ConnInv'
<1> USE DEF ConnInv, ShutdownGivesUp
<1>1. TypeOK'
  BY DEF TypeOK
<1>2. Woke /\ KeepsSent /\ UNCHANGED <<streams, reserved, nextStreamID, headerMu, id>>
  BY DEF TypeOK, Woke, KeepsSent, Sent
<1>3. ClosedIsIdle'
  BY DEF TypeOK, ClosedIsIdle
<1>4. Retries'
  BY <1>2, WokeFrame, NilAssumption DEF TypeOK, Retries, Excused, Errors
<1>5. NoStrandedReset'
  BY <1>2, WokeFrame DEF TypeOK, NoStrandedReset, Waiting
<1>6. Unread'
  BY <1>2, WokeFrame DEF TypeOK, Numbered, Unread, CloseOnIdle, FromPeer, Waiting
<1>7. ResetsCounted' /\ SlotsBounded'
  BY <1>2, WokeFrame DEF TypeOK, Numbered, ResetsCounted, SlotsBounded, Quiet, CloseOnIdle
<1> QED BY <1>1, <1>2, <1>3, <1>4, <1>5, <1>6, <1>7, WokeFrame

(* A health check.                                                         *)
LEMMA SendPingKeeps ==
    ASSUME ConnInv, SendPing
    PROVE  ConnInv'
<1> USE DEF ConnInv, SendPing
<1>1. TypeOK'
  BY WriteEndsFacts DEF TypeOK
<1>2. Woke /\ KeepsSent /\ UNCHANGED <<streams, reserved, nextStreamID, headerMu, id>>
  BY DEF TypeOK, Woke, KeepsSent, Sent
<1>3. ClosedIsIdle'
  BY DEF TypeOK, ClosedIsIdle
<1>4. Retries'
  BY <1>2, WokeFrame, NilAssumption DEF TypeOK, Retries, Excused, Errors
<1>5. NoStrandedReset'
  BY <1>2, WokeFrame DEF TypeOK, NoStrandedReset, Waiting
<1>6. Unread'
  BY <1>2, WokeFrame DEF TypeOK, Numbered, Unread, CloseOnIdle, FromPeer, Waiting
<1>7. ResetsCounted' /\ SlotsBounded'
  BY <1>2, WokeFrame DEF TypeOK, Numbered, ResetsCounted, SlotsBounded, Quiet, CloseOnIdle
<1> QED BY <1>1, <1>2, <1>3, <1>4, <1>5, <1>6, <1>7, WokeFrame

(* The peer drops the connection.                                          *)
LEMMA PeerDropsKeeps ==
    ASSUME ConnInv, PeerDrops
    PROVE  ConnInv'
<1> USE DEF ConnInv, PeerDrops
<1>1. TypeOK'
  BY DEF TypeOK
<1>2. Woke /\ KeepsSent /\ UNCHANGED <<streams, reserved, nextStreamID, headerMu, id>>
  BY DEF TypeOK, Woke, KeepsSent, Sent
<1>3. ClosedIsIdle'
  BY DEF TypeOK, ClosedIsIdle
<1>4. Retries'
  BY <1>2, WokeFrame, NilAssumption DEF TypeOK, Retries, Excused, Errors
<1>5. NoStrandedReset'
  BY <1>2, WokeFrame DEF TypeOK, NoStrandedReset, Waiting
<1>6. Unread'
  BY <1>2, WokeFrame DEF TypeOK, Numbered, Unread, CloseOnIdle, FromPeer, Waiting
<1>7. ResetsCounted' /\ SlotsBounded'
  BY <1>2, WokeFrame DEF TypeOK, Numbered, ResetsCounted, SlotsBounded, Quiet, CloseOnIdle
<1> QED BY <1>1, <1>2, <1>3, <1>4, <1>5, <1>6, <1>7, WokeFrame

-----------------------------------------------------------------------------
(* The requests whose reservation is still held.                           *)
OnTheWay == {r \in Requests : pc[r] = "lock" \/ (pc[r] = "clean" /\ id[r] = 0)}

(* The pool reserves a slot for a request on its way.                      *)
LEMMA GetClientConnKeeps ==
    ASSUME ConnInv, NEW r \in Requests, GetClientConn(r)
    PROVE  ConnInv'
<1> USE DEF ConnInv, GetClientConn
<1>0. reserved' \in Nat /\ reserved' <= reserved + 1
  <2>1. reserved' = reserved \/ reserved' = reserved + 1
    <3>1. CASE mode.singleUse
      BY <3>1
    <3>2. CASE ~mode.singleUse
      BY <3>2
    <3> QED BY <3>1, <3>2
  <2> QED BY <2>1 DEF TypeOK
<1>1. TypeOK'
  BY <1>0 DEF TypeOK
<1>2. HeaderMuHeld' /\ Numbered' /\ Registered'
  BY DEF TypeOK, HeaderMuHeld, Numbered, Registered, Waiting, Early, Sent
<1>3. ClosedIsIdle'
  BY DEF ClosedIsIdle
<1>4. Retries'
  BY DEF TypeOK, Retries, Excused, Early
<1>5. NoStrandedReset'
  BY DEF TypeOK, NoStrandedReset
<1>6. NoLeakedReservation'
  <2>1. OnTheWay' = OnTheWay \cup {r} /\ r \notin OnTheWay /\ OnTheWay \subseteq Requests
    BY DEF TypeOK, OnTheWay
  <2>2. Cardinality(OnTheWay') = Cardinality(OnTheWay) + 1 /\ Cardinality(OnTheWay) \in Nat
    BY <2>1, CardAdd
  <2> QED BY <1>0, <2>2 DEF TypeOK, NoLeakedReservation, OnTheWay
<1>7. Unread'
  BY DEF TypeOK, Unread, CloseOnIdle
<1>8. Lingering' = Lingering /\ Occupied' = Occupied
  BY DEF TypeOK, Lingering, Occupied, Late, Sent
<1>9. ResetsCounted' /\ SlotsBounded'
  BY <1>8 DEF ResetsCounted, SlotsBounded, Quiet, CloseOnIdle
<1> QED BY <1>1, <1>2, <1>3, <1>4, <1>5, <1>6, <1>7, <1>9

(* A cancelled request still has its reservation to give back.             *)
LEMMA GiveUpBeforeLockKeeps ==
    ASSUME ConnInv, NEW r \in Requests, GiveUpBeforeLock(r)
    PROVE  ConnInv'
<1> USE DEF ConnInv, GiveUpBeforeLock, Return
<1>1. TypeOK'
  BY DEF TypeOK, Errors
<1>2. HeaderMuHeld' /\ Numbered' /\ Registered'
  BY DEF TypeOK, HeaderMuHeld, Numbered, Registered, Waiting, Early, Sent
<1>3. ClosedIsIdle'
  BY DEF ClosedIsIdle
<1>4. Retries'
  BY DEF TypeOK, Retries, Excused, Early
<1>5. NoStrandedReset'
  BY DEF TypeOK, NoStrandedReset
<1>6. NoLeakedReservation'
  <2>1. OnTheWay' = OnTheWay
    BY DEF TypeOK, OnTheWay, Numbered, Early
  <2> QED BY <2>1 DEF NoLeakedReservation, OnTheWay
<1>7. Unread'
  BY NilAssumption DEF TypeOK, Unread, CloseOnIdle, FromPeer, Errors
<1>8. Lingering' = Lingering /\ Occupied' = Occupied
  BY DEF TypeOK, Lingering, Occupied, Late, Sent
<1>9. ResetsCounted' /\ SlotsBounded'
  BY <1>8 DEF ResetsCounted, SlotsBounded, Quiet, CloseOnIdle
<1> QED BY <1>1, <1>2, <1>3, <1>4, <1>5, <1>6, <1>7, <1>9

(* A turn of awaitOpenSlotForStreamLocked, with the reservation given up.  *)
LEMMA TrySlotKeeps ==
    ASSUME ConnInv, NEW r \in Requests, NEW tooIdle \in BOOLEAN, NEW n \in Nat,
           \/ pc[r] = "lock" /\ headerMu = Nil /\ n = DecrReservations
           \/ pc[r] = "woken" /\ n = reserved,
           TrySlot(r, n, tooIdle)
    PROVE  ConnInv'
<1> USE DEF ConnInv, TrySlot, Return
<1>0. headerMu \in {Nil, r}
  BY DEF HeaderMuHeld, Waiting
<1>a. \A q \in Requests \ {r} : pc[q] \notin Waiting \cup {"headers"}
  BY <1>0, RequestAssumption DEF HeaderMuHeld
<1>b. id[r] = 0 /\ ~Sent(r) /\ r \notin streams /\ pc[r] \in Early
  BY DEF Numbered, Registered, Early
<1>1. ASSUME NEW e \in {"notEstablished", "unusable"}, Return(r, e), headerMu' = Nil,
             UNCHANGED <<doNotReuse, streams, nextStreamID, lastIdle, id>>
      PROVE  ConnInv'
  <2>1. TypeOK'
    BY <1>1 DEF TypeOK, Errors
  <2>2. HeaderMuHeld' /\ Numbered' /\ Registered'
    BY <1>1, <1>a, <1>b, RequestAssumption
       DEF TypeOK, HeaderMuHeld, Numbered, Registered, Waiting, Early, Sent
  <2>3. ClosedIsIdle'
    BY <1>1 DEF ClosedIsIdle
  <2>4. Retries'
    BY <1>1, <1>b DEF TypeOK, Retries, Excused, Early
  <2>5. NoStrandedReset'
    BY <1>1 DEF TypeOK, NoStrandedReset
  <2>6. Unread'
    BY <1>1, NilAssumption DEF TypeOK, Unread, CloseOnIdle, FromPeer, Errors
  <2>7. Lingering' = Lingering /\ Occupied' = Occupied
    BY <1>1, <1>b DEF TypeOK, Lingering, Occupied, Late, Sent
  <2>8. ResetsCounted' /\ SlotsBounded'
    BY <1>1, <2>7 DEF ResetsCounted, SlotsBounded, Quiet, CloseOnIdle
  <2>9. NoLeakedReservation'
    <3>1. OnTheWay \subseteq OnTheWay' /\ OnTheWay' \subseteq Requests
      BY <1>1, <1>b DEF TypeOK, OnTheWay
    <3>2. Cardinality(OnTheWay) <= Cardinality(OnTheWay')
          /\ Cardinality(OnTheWay) \in Nat /\ Cardinality(OnTheWay') \in Nat
      BY <3>1, CardSub
    <3>3. n <= reserved
      BY DEF DecrReservations, TypeOK
    <3> QED BY <3>2, <3>3 DEF TypeOK, NoLeakedReservation, OnTheWay
  <2> QED BY <2>1, <2>2, <2>3, <2>4, <2>5, <2>6, <2>8, <2>9
<1>c. pc'[r] \in {"headers", "wait"} /\ (\A q \in Requests \ {r} : pc'[q] = pc[q] /\ id'[q] = id[q])
        => NoLeakedReservation'
  <2> SUFFICES ASSUME pc'[r] \in {"headers", "wait"},
                      \A q \in Requests \ {r} : pc'[q] = pc[q] /\ id'[q] = id[q]
               PROVE  NoLeakedReservation'
    OBVIOUS
  <2>1. OnTheWay' = OnTheWay \ {r} /\ OnTheWay \subseteq Requests
    BY DEF OnTheWay
  <2>2. Cardinality(OnTheWay') >= Cardinality(OnTheWay) - 1 /\ Cardinality(OnTheWay) \in Nat
        /\ Cardinality(OnTheWay') \in Nat
        /\ (r \notin OnTheWay => Cardinality(OnTheWay') = Cardinality(OnTheWay))
    <3>1. r \notin OnTheWay => OnTheWay' = OnTheWay
      BY <2>1
    <3> QED BY <2>1, <3>1, CardAdd
  <2>3. CASE pc[r] = "lock" /\ n = DecrReservations
    BY <2>2, <2>3 DEF TypeOK, NoLeakedReservation, OnTheWay, DecrReservations
  <2>4. CASE pc[r] = "woken" /\ n = reserved
    <3>1. r \notin OnTheWay
      BY <2>4 DEF OnTheWay
    <3> QED BY <2>2, <2>4, <3>1 DEF TypeOK, NoLeakedReservation, OnTheWay
  <2> QED BY <2>3, <2>4
<1>2. CASE /\ ~closed /\ CanTakeNewRequest(r, n, tooIdle) /\ RequestCount(n) < limit
           /\ id' = [id EXCEPT ![r] = nextStreamID]
           /\ nextStreamID' = nextStreamID + 2
           /\ streams' = streams \cup {r}
           /\ doNotReuse' = (doNotReuse \/ r \in CloseRequests)
           /\ pc' = [pc EXCEPT ![r] = "headers"]
           /\ headerMu' = r /\ lastIdle' = FALSE
           /\ UNCHANGED err
  <2>0. doNotReuse' \in BOOLEAN
    BY <1>2
  <2>1. TypeOK'
    <3>1. {closed, closedOnIdle, closing, doNotReuse, pingsBlocked, lastIdle, werr}'
             \subseteq BOOLEAN
      BY <1>2, <2>0 DEF TypeOK
    <3>2. /\ streams' \subseteq Requests /\ nextStreamID' \in Nat
          /\ id' \in [Requests -> Nat] /\ headerMu' \in Requests \cup {Nil}
      BY <1>2 DEF TypeOK
    <3>3. pc' \in [Requests -> {"new", "lock", "wait", "woken", "headers", "await", "clean",
                            "settle", "reset", "resetPing", "forget", "werr", "done"}]
      BY <1>2 DEF TypeOK
    <3> QED BY <1>2, <3>1, <3>2, <3>3 DEF TypeOK
  <2>2. HeaderMuHeld'
    BY <1>2, <1>a DEF TypeOK, HeaderMuHeld, Waiting
  <2>3. Numbered'
    BY <1>2, <1>a, <1>b DEF TypeOK, Numbered, Waiting, Early, Sent
  <2>4. Registered'
    BY <1>2 DEF TypeOK, Registered, Numbered
  <2>5. ClosedIsIdle'
    BY <1>2 DEF ClosedIsIdle
  <2>6. Retries'
    BY <1>2, <1>b DEF TypeOK, Retries, Excused, Early, Numbered, Sent
  <2>7. NoStrandedReset'
    BY <1>2 DEF TypeOK, NoStrandedReset
  <2>8. Unread'
    BY <1>2 DEF TypeOK, Unread, CloseOnIdle
  <2>9. NoLeakedReservation'
    BY <1>2, <1>c DEF TypeOK
  <2>10. goAway = "none" /\ ~doNotReuse /\ ~(mode.singleUse /\ nextStreamID > 1)
    BY <1>2 DEF CanTakeNewRequest, Usable
  <2>11. Lingering' = Lingering /\ Occupied' = Occupied \cup {r}
    BY <1>2, <1>b DEF TypeOK, Lingering, Occupied, Late, Sent
  <2>12. Occupied \subseteq Requests /\ Lingering \subseteq Requests /\ streams \subseteq Requests
    BY DEF Occupied, Lingering, TypeOK
  <2>13. ResetsCounted'
    BY <1>2, <2>10, <2>11 DEF ResetsCounted, Quiet, CloseOnIdle
  <2>14. SlotsBounded'
    <3> SUFFICES ASSUME Quiet PROVE Cardinality(Occupied') <= limit
      BY DEF SlotsBounded, Quiet, Unread
    <3>1. Cardinality(Occupied') <= Cardinality(Occupied) + 1
          /\ Cardinality(Occupied) \in Nat /\ Cardinality(Occupied') \in Nat
      BY <2>11, <2>12, CardAdd
    <3>2. Cardinality(Occupied) <= Cardinality(streams) + pendingResets
          /\ Cardinality(streams) \in Nat
      <4>1. CASE mode.singleUse
        <5>1. \A q \in Requests : id[q] = 0
          BY <4>1, <2>10 DEF TypeOK, Numbered
        <5>2. Occupied = {}
          BY <5>1 DEF Occupied, Numbered, Registered, TypeOK
        <5> QED BY <5>2, <2>12, CardSub, FS_EmptySet DEF TypeOK
      <4>2. CASE ~mode.singleUse
        <5>1. Cardinality(Lingering) <= pendingResets
          BY <4>2, <2>10 DEF ResetsCounted, CloseOnIdle
        <5>2. Occupied \subseteq streams \cup Lingering
          <6> SUFFICES ASSUME NEW q \in Requests, Sent(q), q \notin streams PROVE q \in Lingering
            BY DEF Occupied
          <6>1. id[q] # 0 /\ pc[q] \in {"werr", "done"}
            BY DEF Numbered, Registered
          <6> QED BY <6>1 DEF Lingering, Late
        <5>3. Cardinality(streams \cup Lingering) <= Cardinality(streams) + Cardinality(Lingering)
              /\ Cardinality(streams) \in Nat /\ Cardinality(Lingering) \in Nat
          BY <2>12, CardUnion
        <5>4. Cardinality(Occupied) <= Cardinality(streams \cup Lingering)
              /\ Cardinality(streams \cup Lingering) \in Nat
          BY <2>12, <5>2, CardSub
        <5> QED BY <5>1, <5>3, <5>4, <3>1 DEF TypeOK
      <4> QED BY <4>1, <4>2
    <3>3. Cardinality(streams) + n + pendingResets < limit
      BY <1>2 DEF RequestCount
    <3> QED BY <3>1, <3>2, <3>3 DEF TypeOK
  <2> QED BY <2>1, <2>2, <2>3, <2>4, <2>5, <2>6, <2>7, <2>8, <2>9, <2>13, <2>14
<1>3. CASE /\ pc' = [pc EXCEPT ![r] = "wait"]
           /\ headerMu' = r /\ lastIdle' = FALSE
           /\ UNCHANGED <<doNotReuse, streams, nextStreamID, id, err>>
  <2>1. TypeOK'
    BY <1>3, ZenonT(60) DEF TypeOK
  <2>2. HeaderMuHeld' /\ Numbered' /\ Registered'
    BY <1>3, <1>a, <1>b DEF TypeOK, HeaderMuHeld, Numbered, Registered, Waiting, Early, Sent
  <2>3. ClosedIsIdle'
    BY <1>3 DEF ClosedIsIdle
  <2>4. Retries'
    BY <1>3, <1>b DEF TypeOK, Retries, Excused, Early
  <2>5. NoStrandedReset'
    BY <1>3 DEF TypeOK, NoStrandedReset
  <2>6. Unread'
    BY <1>3 DEF TypeOK, Unread, CloseOnIdle
  <2>7. Lingering' = Lingering /\ Occupied' = Occupied
    BY <1>3, <1>b DEF TypeOK, Lingering, Occupied, Late, Sent
  <2>8. ResetsCounted' /\ SlotsBounded'
    BY <1>3, <2>7 DEF ResetsCounted, SlotsBounded, Quiet, CloseOnIdle
  <2>9. NoLeakedReservation'
    BY <1>3, <1>c DEF TypeOK
  <2> QED BY <2>1, <2>2, <2>3, <2>4, <2>5, <2>6, <2>8, <2>9
<1> QED BY <1>1, <1>2, <1>3

(* The first look for a slot uses up the reservation.                      *)
LEMMA AwaitOpenSlotKeeps ==
    ASSUME ConnInv, NEW r \in Requests, AwaitOpenSlot(r)
    PROVE  ConnInv'
<1>1. PICK tooIdle \in {FALSE, lastIdle} : TrySlot(r, DecrReservations, tooIdle)
  BY DEF AwaitOpenSlot
<1>2. tooIdle \in BOOLEAN
  BY DEF ConnInv, TypeOK
<1>3. DecrReservations \in Nat
  BY DEF ConnInv, TypeOK, DecrReservations
<1> QED BY <1>1, <1>2, <1>3, TrySlotKeeps DEF AwaitOpenSlot

(* The request leaves the wait, with an error or for another look.         *)
LEMMA WakeUpKeeps ==
    ASSUME ConnInv, NEW r \in Requests, WakeUp(r)
    PROVE  ConnInv'
<1>1. CASE abortErr[r] = Nil
  <2>1. PICK tooIdle \in {FALSE, lastIdle} : TrySlot(r, reserved, tooIdle)
    BY <1>1 DEF WakeUp
  <2>2. tooIdle \in BOOLEAN /\ reserved \in Nat
    BY DEF ConnInv, TypeOK
  <2> QED BY <2>1, <2>2, TrySlotKeeps DEF WakeUp
<1>2. CASE abortErr[r] # Nil
  <2> USE <1>2 DEF ConnInv, WakeUp, Return
  <2>a. headerMu = r /\ id[r] = 0
    BY DEF HeaderMuHeld, Waiting, Numbered, Early
  <2>1. TypeOK'
    BY DEF TypeOK
  <2>2. HeaderMuHeld' /\ Numbered' /\ Registered'
    BY <2>a, RequestAssumption
       DEF TypeOK, HeaderMuHeld, Numbered, Registered, Waiting, Early, Sent
  <2>3. ClosedIsIdle'
    BY DEF ClosedIsIdle
  <2>4. Retries'
    BY <2>a DEF TypeOK, Retries, Excused, Early
  <2>5. NoStrandedReset'
    BY DEF TypeOK, NoStrandedReset
  <2>6. NoLeakedReservation'
    <3>1. OnTheWay \subseteq OnTheWay' /\ OnTheWay' \subseteq Requests
      BY DEF TypeOK, OnTheWay
    <3>2. Cardinality(OnTheWay) <= Cardinality(OnTheWay')
          /\ Cardinality(OnTheWay) \in Nat /\ Cardinality(OnTheWay') \in Nat
      BY <3>1, CardSub
    <3> QED BY <3>2 DEF TypeOK, NoLeakedReservation, OnTheWay
  <2>7. Unread'
    BY DEF TypeOK, Unread, CloseOnIdle
  <2>8. Lingering' = Lingering /\ Occupied' = Occupied
    BY DEF TypeOK, Lingering, Occupied, Late, Sent
  <2>9. ResetsCounted' /\ SlotsBounded'
    BY <2>8 DEF ResetsCounted, SlotsBounded, Quiet, CloseOnIdle
  <2> QED BY <2>1, <2>2, <2>3, <2>4, <2>5, <2>6, <2>7, <2>9
<1> QED BY <1>1, <1>2

(* HEADERS are written, or not, and reqHeaderMu is released.               *)
LEMMA WriteHeadersKeeps ==
    ASSUME ConnInv, NEW r \in Requests, WriteHeaders(r)
    PROVE  ConnInv'
<1> USE DEF ConnInv
<1>0. /\ pc[r] = "headers" /\ headerMu' = Nil
      /\ UNCHANGED <<flagVars, streams, reserved, nextStreamID, pendingResets, lastIdle,
                     peerSetVars, readVars, tconn, reader, shut, id, abortErr, streamVars,
                     skipPing, ctxDone, result, peerLast, pings>>
  BY DEF WriteHeaders
<1>a. headerMu = r /\ id[r] # 0 /\ r \in streams /\ peer[r] = "idle"
  BY <1>0 DEF HeaderMuHeld, Waiting, Numbered, Registered, Sent
<1>b. PICK to \in {"clean", "await"}, e \in Errors \cup {Nil}, p \in {"idle", "lost", "sent"} :
          /\ pc' = [pc EXCEPT ![r] = to] /\ peer' = [peer EXCEPT ![r] = p]
          /\ err' = [err EXCEPT ![r] = e]
          /\ werr' \in BOOLEAN /\ (werr => werr')
          /\ to = "clean" => e # Nil /\ e \in {abortErr[r], "ctx", "write"}
          /\ to = "await" => e = err[r]
  <2>0. /\ peer = [peer EXCEPT ![r] = "idle"] /\ err = [err EXCEPT ![r] = err[r]]
        /\ werr \in BOOLEAN /\ err[r] \in Errors \cup {Nil}
        /\ abortErr[r] \in Errors \cup {Nil}
    BY <1>a DEF TypeOK
  <2>1. CASE abortErr[r] # Nil /\ Return(r, abortErr[r]) /\ UNCHANGED <<peer, werr>>
    BY <2>0, <2>1, NilAssumption DEF Return
  <2>2. CASE Return(r, "ctx") /\ UNCHANGED <<peer, werr>>
    BY <2>0, <2>2, NilAssumption DEF Return, Errors
  <2>3. CASE Return(r, "write") /\ UNCHANGED <<peer, werr>>
    BY <2>0, <2>3, NilAssumption DEF Return, Errors
  <2>4. CASE Return(r, "write") /\ peer' = [peer EXCEPT ![r] = "lost"] /\ werr' = TRUE
    BY <2>4, NilAssumption DEF Return, Errors
  <2>5. CASE \E how \in WriteEnds \ {"fails"} :
          /\ pc' = [pc EXCEPT ![r] = "await"]
          /\ peer' = [peer EXCEPT ![r] = IF how = "arrives" THEN "sent" ELSE "lost"]
          /\ UNCHANGED <<err, werr>>
    <3>1. PICK how \in WriteEnds \ {"fails"} :
             /\ pc' = [pc EXCEPT ![r] = "await"]
             /\ peer' = [peer EXCEPT ![r] = IF how = "arrives" THEN "sent" ELSE "lost"]
             /\ UNCHANGED <<err, werr>>
      BY <2>5
    <3>2. CASE how = "arrives"
      BY <2>0, <3>1, <3>2
    <3>3. CASE how # "arrives"
      BY <2>0, <3>1, <3>3
    <3> QED BY <3>2, <3>3
  <2> QED BY <2>1, <2>2, <2>3, <2>4, <2>5 DEF WriteHeaders
<1>1. TypeOK'
  BY <1>0, <1>b DEF TypeOK
<1>2. HeaderMuHeld' /\ Registered'
  BY <1>0, <1>a, <1>b, RequestAssumption DEF TypeOK, HeaderMuHeld, Registered, Waiting
<1>3. Numbered'
  BY <1>0, <1>a, <1>b DEF TypeOK, Numbered, Early, Sent
<1>4. ClosedIsIdle'
  BY <1>0 DEF ClosedIsIdle
<1>5. Retries'
  BY <1>0, <1>a, <1>b DEF TypeOK, Retries, Excused, Early
<1>6. NoStrandedReset'
  BY <1>0, <1>b DEF TypeOK, NoStrandedReset
<1>7. NoLeakedReservation'
  <2>1. OnTheWay' = OnTheWay
    BY <1>0, <1>a, <1>b DEF TypeOK, OnTheWay
  <2> QED BY <1>0, <2>1 DEF NoLeakedReservation, OnTheWay
<1>8. Unread'
  BY <1>0, <1>b DEF TypeOK, Unread, CloseOnIdle, FromPeer
<1>9. Lingering' = Lingering /\ Occupied' = Occupied
  BY <1>0, <1>a, <1>b DEF TypeOK, Lingering, Occupied, Late, Sent
<1>10. ResetsCounted' /\ SlotsBounded'
  BY <1>0, <1>9 DEF ResetsCounted, SlotsBounded, Quiet, CloseOnIdle
<1> QED BY <1>1, <1>2, <1>3, <1>4, <1>5, <1>6, <1>7, <1>8, <1>10

(* writeRequest returns nil only for a stream that ended.                  *)
LEMMA AwaitEndKeeps ==
    ASSUME ConnInv, NEW r \in Requests, AwaitEnd(r)
    PROVE  ConnInv'
<1> USE DEF ConnInv, AwaitEnd, Return
<1>0. id[r] # 0
  BY DEF Numbered
<1>1. TypeOK'
  BY DEF TypeOK, Errors
<1>2. HeaderMuHeld' /\ Numbered' /\ Registered'
  BY DEF TypeOK, HeaderMuHeld, Numbered, Registered, Waiting, Early, Sent
<1>3. ClosedIsIdle'
  BY DEF ClosedIsIdle
<1>4. Retries'
  BY NilAssumption DEF TypeOK, Retries, Excused, Early, Errors
<1>5. NoStrandedReset'
  BY DEF TypeOK, NoStrandedReset
<1>6. NoLeakedReservation'
  <2>1. OnTheWay' = OnTheWay
    BY <1>0 DEF TypeOK, OnTheWay
  <2> QED BY <2>1 DEF NoLeakedReservation, OnTheWay
<1>7. Unread'
  BY NilAssumption DEF TypeOK, Unread, CloseOnIdle, FromPeer, Errors
<1>8. Lingering' = Lingering /\ Occupied' = Occupied
  BY DEF TypeOK, Lingering, Occupied, Late, Sent
<1>9. ResetsCounted' /\ SlotsBounded'
  BY <1>8 DEF ResetsCounted, SlotsBounded, Quiet, CloseOnIdle
<1> QED BY <1>1, <1>2, <1>3, <1>4, <1>5, <1>6, <1>7, <1>9

(* The reservation is given back exactly when no stream used it up.        *)
LEMMA CleanupNoteKeeps ==
    ASSUME ConnInv, NEW r \in Requests, CleanupNote(r)
    PROVE  ConnInv'
<1> USE DEF ConnInv, CleanupNote
<1>0. reserved' \in Nat /\ (CloseOnIdle \/ readBefore > id[r]) \in BOOLEAN
  BY DEF TypeOK, GiveBack, DecrReservations
<1>1. TypeOK'
  BY <1>0 DEF TypeOK
<1>2. HeaderMuHeld' /\ Numbered' /\ Registered'
  BY DEF TypeOK, HeaderMuHeld, Numbered, Registered, Waiting, Early, Sent
<1>3. ClosedIsIdle'
  BY DEF ClosedIsIdle
<1>4. Retries'
  BY DEF TypeOK, Retries, Excused, Early
<1>5. NoStrandedReset'
  BY DEF TypeOK, NoStrandedReset
<1>6. NoLeakedReservation'
  <2>1. OnTheWay' = OnTheWay \ {r} /\ OnTheWay \subseteq Requests
    BY DEF TypeOK, OnTheWay
  <2>2. CASE id[r] = 0
    <3>1. Cardinality(OnTheWay') = Cardinality(OnTheWay) - 1
          /\ Cardinality(OnTheWay) \in Nat /\ Cardinality(OnTheWay') \in Nat
      <4>1. r \in OnTheWay
        BY <2>2 DEF OnTheWay
      <4> QED BY <2>1, <4>1, CardAdd
    <3> QED BY <2>2, <3>1 DEF TypeOK, NoLeakedReservation, OnTheWay, GiveBack, DecrReservations
  <2>3. CASE id[r] # 0
    <3>1. OnTheWay' = OnTheWay
      BY <2>1, <2>3 DEF OnTheWay
    <3> QED BY <2>3, <3>1 DEF NoLeakedReservation, OnTheWay, GiveBack
  <2> QED BY <2>2, <2>3
<1>7. Unread'
  BY DEF TypeOK, Unread, CloseOnIdle, FromPeer
<1>8. Lingering' = Lingering /\ Occupied' = Occupied
  BY DEF TypeOK, Lingering, Occupied, Late, Sent
<1>9. ResetsCounted' /\ SlotsBounded'
  BY <1>8 DEF ResetsCounted, SlotsBounded, Quiet, CloseOnIdle
<1> QED BY <1>1, <1>2, <1>3, <1>4, <1>5, <1>6, <1>7, <1>9

(* A stream that failed is counted as a reset to be confirmed, and the     *)
(* first of them takes the ping along.                                     *)
LEMMA CleanupSettleKeeps ==
    ASSUME ConnInv, NEW r \in Requests, CleanupSettle(r)
    PROVE  ConnInv'
<1> USE DEF ConnInv
<1>0. /\ pc[r] = "settle"
      /\ err' = [err EXCEPT ![r] = Nil] /\ skipPing' = [skipPing EXCEPT ![r] = FALSE]
      /\ UNCHANGED <<flagVars, streams, reserved, nextStreamID, lastIdle, headerMu,
                     peerSetVars, readVars, wireVars, reader, id, streamVars, ctxDone,
                     result, envVars>>
  BY DEF CleanupSettle
<1> DEFINE Counts == /\ Sent(r) /\ err[r] \notin FromPeer \cup {"malformed"}
                     /\ ~skipPing[r] /\ ~pingsBlocked
           Clean == err[r] = Nil \/ (Sent(r) /\ ended[r])
<1>a. PICK to \in {"forget", "reset", "resetPing"} :
          /\ pc' = [q \in Requests |-> IF q = r THEN to
                                       ELSE IF ~Clean /\ pc[q] = "wait" THEN "woken" ELSE pc[q]]
          /\ shut' \in {shut, "check"} /\ (shut' = "check" => shut \in {"wait", "check"})
          /\ ~Clean /\ Counts /\ pendingResets = 0 => to = "resetPing"
          /\ abortErr' = IF ~Clean /\ abortErr[r] = Nil
                         THEN [abortErr EXCEPT ![r] = err[r]] ELSE abortErr
          /\ pendingResets' = IF ~Clean /\ Counts THEN pendingResets + 1 ELSE pendingResets
  <2>1. CASE Clean
    <3>1. pc' = [pc EXCEPT ![r] = "forget"] /\ UNCHANGED <<shut, abortErr, pendingResets>>
      BY <2>1 DEF CleanupSettle
    <3> QED BY <2>1, <3>1 DEF TypeOK
  <2>2. CASE ~Clean
    <3>1. /\ Abort({r}, err[r])
          /\ Broadcast([pc EXCEPT ![r] = Farewell(r, err[r])])
          /\ pendingResets' = IF Counts THEN pendingResets + 1 ELSE pendingResets
      BY <2>2 DEF CleanupSettle
    <3>2. Farewell(r, err[r]) \in {"forget", "reset", "resetPing"}
      <4>1. CASE ~Sent(r) \/ err[r] \in FromPeer
        BY <4>1 DEF Farewell, FromPeer
      <4>2. CASE Sent(r) /\ err[r] \notin FromPeer /\ err[r] = "malformed"
        BY <4>2 DEF Farewell
      <4>3. CASE Sent(r) /\ err[r] \notin FromPeer /\ err[r] # "malformed"
        BY <4>3 DEF Farewell
      <4> QED BY <4>1, <4>2, <4>3
    <3>3. Counts /\ pendingResets = 0 => Farewell(r, err[r]) = "resetPing"
      BY DEF Farewell
    <3>4. abortErr' = IF abortErr[r] = Nil
                      THEN [abortErr EXCEPT ![r] = err[r]] ELSE abortErr
      BY <3>1 DEF Abort, TypeOK
    <3>5. /\ pc' = [q \in Requests |-> IF q = r THEN Farewell(r, err[r])
                                      ELSE IF pc[q] = "wait" THEN "woken" ELSE pc[q]]
          /\ shut' \in {shut, "check"} /\ (shut' = "check" => shut \in {"wait", "check"})
      BY <3>1, <3>2 DEF Broadcast, TypeOK
    <3> QED BY <2>2, <3>1, <3>2, <3>3, <3>4, <3>5
  <2> QED BY <2>1, <2>2
<1>b. pendingResets' \in Nat /\ pendingResets' >= pendingResets
  BY <1>a DEF TypeOK
<1> HIDE DEF Counts, Clean
<1>1. TypeOK'
  <2>1. pc' \in [Requests -> {"new", "lock", "wait", "woken", "headers", "await", "clean",
                              "settle", "reset", "resetPing", "forget", "werr", "done"}]
    BY <1>a DEF TypeOK
  <2>2. abortErr' \in [Requests -> Errors \cup {Nil}]
    BY <1>a DEF TypeOK
  <2>3. shut' \in {"off", "goaway", "check", "wait", "freed", "over", "done"}
    BY <1>a DEF TypeOK
  <2> QED BY <1>0, <1>b, <2>1, <2>2, <2>3 DEF TypeOK
<1>2. HeaderMuHeld' /\ Numbered' /\ Registered'
  BY <1>0, <1>a DEF TypeOK, HeaderMuHeld, Numbered, Registered, Waiting, Early, Sent
<1>3. ClosedIsIdle'
  BY <1>0, <1>a DEF ClosedIsIdle
<1>4. Retries'
  BY <1>0, <1>a, NilAssumption DEF TypeOK, Retries, Excused, Early, Errors
<1>5. NoStrandedReset'
  BY <1>0, <1>a DEF TypeOK, NoStrandedReset
<1>6. NoLeakedReservation'
  <2>1. OnTheWay' = OnTheWay
    BY <1>0, <1>a DEF TypeOK, OnTheWay
  <2> QED BY <1>0, <2>1 DEF NoLeakedReservation, OnTheWay
<1>7. Unread'
  BY <1>0, <1>a, NilAssumption DEF TypeOK, Unread, CloseOnIdle, FromPeer, Errors
<1>8. Occupied' = Occupied
  BY <1>0 DEF Occupied, Sent
<1>9. SlotsBounded'
  BY <1>0, <1>8 DEF SlotsBounded, Quiet
<1>10. ResetsCounted'
  <2> SUFFICES ASSUME Quiet, ~CloseOnIdle PROVE Cardinality(Lingering') <= pendingResets'
    BY <1>0 DEF ResetsCounted, Quiet, CloseOnIdle
  <2>1. Lingering \subseteq Requests /\ Cardinality(Lingering) <= pendingResets
    BY DEF Lingering, ResetsCounted
  <2>2. CASE Sent(r)
    <3>1. Lingering' = Lingering \cup {r}
      BY <1>0, <1>a, <2>2 DEF TypeOK, Lingering, Late, Sent
    <3>2. ~Clean /\ Counts
      BY <1>0, <2>2 DEF Unread, Quiet, Clean, Counts, TypeOK
    <3>3. /\ Cardinality(Lingering') <= Cardinality(Lingering) + 1
          /\ Cardinality(Lingering) \in Nat /\ Cardinality(Lingering') \in Nat
      BY <2>1, <3>1, CardAdd
    <3> QED BY <1>a, <2>1, <3>2, <3>3 DEF TypeOK
  <2>3. CASE ~Sent(r)
    <3>1. Lingering' = Lingering
      BY <1>0, <1>a, <2>3 DEF TypeOK, Lingering, Late, Sent
    <3>2. Cardinality(Lingering) \in Nat
      BY <2>1, CardSub
    <3> QED BY <1>b, <2>1, <3>1, <3>2 DEF TypeOK
  <2> QED BY <2>2, <2>3
<1> QED BY <1>1, <1>2, <1>3, <1>4, <1>5, <1>6, <1>7, <1>9, <1>10

(* The ping leaves with the reset, unless the write fails.                 *)
LEMMA WriteResetKeeps ==
    ASSUME ConnInv, NEW r \in Requests, WriteReset(r)
    PROVE  ConnInv'
<1> USE DEF ConnInv, WriteReset
<1>1. TypeOK'
  BY DEF TypeOK
<1>2. HeaderMuHeld' /\ Numbered' /\ Registered'
  BY DEF TypeOK, HeaderMuHeld, Numbered, Registered, Waiting, Early, Sent
<1>3. ClosedIsIdle'
  BY DEF ClosedIsIdle
<1>4. Retries'
  BY DEF TypeOK, Retries, Excused, Early
<1>5. NoStrandedReset'
  <2>1. /\ pc' = [pc EXCEPT ![r] = "forget"] /\ (werr => werr') /\ pings' >= pings
        /\ pc[r] = "resetPing" => werr' \/ tconn # "open" \/ pings' > 0
    <3>1. PICK how \in WriteEnds :
             /\ werr' = (werr \/ how = "fails")
             /\ pings' = IF pc[r] = "resetPing" /\ how = "arrives" THEN pings + 1 ELSE pings
      OBVIOUS
    <3>2. pings' >= pings /\ (how = "arrives" /\ pc[r] = "resetPing" => pings' > 0)
      BY <3>1 DEF TypeOK
    <3>3. how \in {"fails", "swallowed", "arrives"} /\ (how = "swallowed" => tconn = "lost")
      BY WriteEndsFacts
    <3> QED BY <3>1, <3>2, <3>3
  <2> QED BY <2>1 DEF TypeOK, NoStrandedReset
<1>6. NoLeakedReservation'
  <2>1. OnTheWay' = OnTheWay
    BY DEF TypeOK, OnTheWay
  <2> QED BY <2>1 DEF NoLeakedReservation, OnTheWay
<1>7. Unread'
  BY DEF TypeOK, Unread, CloseOnIdle
<1>8. Lingering' = Lingering /\ Occupied' = Occupied
  BY DEF TypeOK, Lingering, Occupied, Late, Sent
<1>9. ResetsCounted' /\ SlotsBounded'
  BY <1>8 DEF ResetsCounted, SlotsBounded, Quiet, CloseOnIdle
<1> QED BY <1>1, <1>2, <1>3, <1>4, <1>5, <1>6, <1>7, <1>9

(* forgetStreamID closes the connection only with its last stream.         *)
LEMMA ForgetKeeps ==
    ASSUME ConnInv, NEW r \in Requests, Forget(r)
    PROVE  ConnInv'
<1> USE DEF ConnInv
<1>0. /\ pc[r] = "forget"
      /\ UNCHANGED <<closedOnIdle, closing, doNotReuse, goAway, reserved, nextStreamID,
                     pendingResets, headerMu, peerSetVars, readVars, werr, reader, id, err,
                     abortErr, streamVars, skipPing, ctxDone, result, envVars>>
  BY DEF Forget
<1>a. PICK to \in {"werr", "done"}, wake \in BOOLEAN :
          /\ pc' = [q \in Requests |-> IF q = r THEN to
                                       ELSE IF wake /\ pc[q] = "wait" THEN "woken" ELSE pc[q]]
          /\ shut' \in {shut, "check"} /\ streams' = streams \ {r}
          /\ lastIdle' \in BOOLEAN
          /\ \/ closed' = closed /\ tconn' = tconn
             \/ /\ closed' = TRUE /\ streams' = {}
                /\ tconn' = IF tconn = "open" THEN "graceful" ELSE tconn
  <2>1. CASE id[r] = 0
    <3>1. /\ pc' = [pc EXCEPT ![r] = IF werr THEN "werr" ELSE "done"]
          /\ UNCHANGED <<closed, tconn, streams, lastIdle, shut>>
      BY <2>1 DEF Forget
    <3>2. r \notin streams
      BY <2>1 DEF Registered
    <3>3. streams' = streams \ {r} /\ lastIdle' \in BOOLEAN
      BY <3>1, <3>2 DEF TypeOK
    <3>4. pc' = [q \in Requests |-> IF q = r THEN IF werr THEN "werr" ELSE "done"
                                    ELSE IF FALSE /\ pc[q] = "wait" THEN "woken" ELSE pc[q]]
      BY <3>1 DEF TypeOK
    <3> QED BY <3>1, <3>3, <3>4
  <2>2. CASE id[r] # 0
    <3>1. /\ streams' = streams \ {r}
          /\ lastIdle' = (lastIdle \/ streams \ {r} = {})
          /\ Broadcast([pc EXCEPT ![r] = IF werr THEN "werr" ELSE "done"])
          /\ \/ streams \ {r} = {} /\ closed' = TRUE /\ CloseConn("graceful")
             \/ UNCHANGED <<closed, tconn>>
      BY <2>2 DEF Forget
    <3>2. lastIdle' \in BOOLEAN
      BY <3>1
    <3>3. /\ pc' = [q \in Requests |-> IF q = r THEN IF werr THEN "werr" ELSE "done"
                                    ELSE IF TRUE /\ pc[q] = "wait" THEN "woken" ELSE pc[q]]
          /\ shut' \in {shut, "check"}
      BY <3>1 DEF Broadcast, TypeOK
    <3> QED BY <3>1, <3>2, <3>3 DEF CloseConn
  <2> QED BY <2>1, <2>2
<1>1. TypeOK'
  <2>1. {closed, closedOnIdle, closing, doNotReuse, pingsBlocked, lastIdle, werr}'
             \subseteq BOOLEAN
    BY <1>0, <1>a DEF TypeOK
  <2>2. /\ pc' \in [Requests -> {"new", "lock", "wait", "woken", "headers", "await", "clean",
                              "settle", "reset", "resetPing", "forget", "werr", "done"}]
        /\ shut' \in {"off", "goaway", "check", "wait", "freed", "over", "done"}
        /\ streams' \subseteq Requests /\ tconn' \in {"open", "graceful", "forced", "lost"}
    BY <1>a DEF TypeOK
  <2> QED BY <1>0, <2>1, <2>2 DEF TypeOK
<1>2. HeaderMuHeld' /\ Numbered' /\ Registered'
  BY <1>0, <1>a DEF TypeOK, HeaderMuHeld, Numbered, Registered, Waiting, Early, Sent
<1>3. ClosedIsIdle'
  BY <1>0, <1>a DEF ClosedIsIdle, TypeOK
<1>4. Retries'
  BY <1>0, <1>a DEF TypeOK, Retries, Excused, Early
<1>5. NoStrandedReset'
  BY <1>0, <1>a DEF TypeOK, NoStrandedReset
<1>6. NoLeakedReservation'
  <2>1. OnTheWay' = OnTheWay
    BY <1>0, <1>a DEF TypeOK, OnTheWay
  <2> QED BY <1>0, <2>1 DEF NoLeakedReservation, OnTheWay
<1>7. Unread'
  BY <1>0, <1>a DEF TypeOK, Unread, CloseOnIdle
<1>8. Lingering' = Lingering /\ Occupied' \subseteq Occupied /\ Occupied \subseteq Requests
  BY <1>0, <1>a DEF TypeOK, Lingering, Occupied, Late, Sent
<1>9. ResetsCounted'
  BY <1>0, <1>8 DEF ResetsCounted, Quiet, CloseOnIdle
<1>10. SlotsBounded'
  <2>1. Cardinality(Occupied') <= Cardinality(Occupied)
        /\ Cardinality(Occupied') \in Nat /\ Cardinality(Occupied) \in Nat
    BY <1>8, CardSub
  <2> QED BY <1>0, <2>1, ConnAssumption DEF SlotsBounded, Quiet
<1> QED BY <1>1, <1>2, <1>3, <1>4, <1>5, <1>6, <1>7, <1>9, <1>10

(* closeForError after a write error.                                      *)
LEMMA CloseAfterWriteErrorKeeps ==
    ASSUME ConnInv, NEW r \in Requests, CloseAfterWriteError(r)
    PROVE  ConnInv'
<1> USE DEF ConnInv
<1>0. /\ pc[r] = "werr" /\ closed' = TRUE
      /\ UNCHANGED <<closedOnIdle, closing, doNotReuse, goAway, slotVars, peerSetVars,
                     readVars, werr, reader, id, err, streamVars, skipPing, ctxDone, result,
                     envVars>>
      /\ abortErr' = [q \in Requests |-> IF q \in streams /\ abortErr[q] = Nil
                                         THEN "forced" ELSE abortErr[q]]
      /\ tconn' = IF tconn = "open" THEN "forced" ELSE tconn
      /\ shut' = IF shut = "wait" THEN "check" ELSE shut
  BY DEF CloseAfterWriteError, CloseForError, Abort, Broadcast, CloseConn
<1>a. pc' = [q \in Requests |-> IF q = r THEN "done"
                                ELSE IF pc[q] = "wait" THEN "woken" ELSE pc[q]]
  BY DEF CloseAfterWriteError, CloseForError, Broadcast, TypeOK
<1>1. TypeOK'
  BY <1>0, <1>a DEF TypeOK, Errors
<1>2. HeaderMuHeld' /\ Numbered' /\ Registered'
  BY <1>0, <1>a DEF TypeOK, HeaderMuHeld, Numbered, Registered, Waiting, Early, Sent
<1>3. ClosedIsIdle'
  BY <1>0 DEF ClosedIsIdle, TypeOK
<1>4. Retries'
  BY <1>0, <1>a DEF TypeOK, Retries, Excused, Early
<1>5. NoStrandedReset'
  BY <1>0 DEF NoStrandedReset
<1>6. NoLeakedReservation'
  <2>1. OnTheWay' = OnTheWay
    BY <1>0, <1>a DEF TypeOK, OnTheWay
  <2> QED BY <1>0, <2>1 DEF NoLeakedReservation, OnTheWay
<1>7. Unread'
  BY <1>0, <1>a DEF TypeOK, Unread, CloseOnIdle, FromPeer
<1>8. Lingering' = Lingering /\ Occupied' = Occupied
  BY <1>0, <1>a DEF TypeOK, Lingering, Occupied, Late, Sent
<1>9. ResetsCounted' /\ SlotsBounded'
  BY <1>0, <1>8 DEF ResetsCounted, SlotsBounded, Quiet, CloseOnIdle
<1> QED BY <1>1, <1>2, <1>3, <1>4, <1>5, <1>6, <1>7, <1>9

-----------------------------------------------------------------------------
LEMMA StutterKeeps ==
    ASSUME ConnInv, UNCHANGED vars PROVE ConnInv'
<1> USE DEF ConnInv, vars
<1>1. TypeOK' /\ ClosedIsIdle' /\ Retries' /\ NoStrandedReset' /\ Unread'
  BY DEF TypeOK, ClosedIsIdle, Retries, Excused, NoStrandedReset, Unread, CloseOnIdle, Early
<1>2. Woke /\ KeepsSent /\ UNCHANGED <<streams, reserved, nextStreamID, headerMu, id>>
  BY DEF Woke, KeepsSent, Sent
<1>3. ResetsCounted' /\ SlotsBounded'
  BY <1>2, WokeFrame DEF ResetsCounted, SlotsBounded, Quiet, CloseOnIdle
<1> QED BY <1>1, <1>2, <1>3, WokeFrame

LEMMA NextKeeps == ConnInv /\ [Next]_vars => ConnInv'
<1> SUFFICES ASSUME ConnInv, [Next]_vars PROVE ConnInv'
  OBVIOUS
<1>1. ASSUME NEW r \in Requests, RequestStep(r) PROVE ConnInv'
  BY <1>1, GiveUpBeforeLockKeeps, AwaitOpenSlotKeeps, WakeUpKeeps, WriteHeadersKeeps,
     AwaitEndKeeps, CleanupNoteKeeps, CleanupSettleKeeps, WriteResetKeeps, ForgetKeeps,
     CloseAfterWriteErrorKeeps DEF RequestStep
<1>2. ASSUME NEW r \in Requests,
             \/ GetClientConn(r) \/ Cancel(r) \/ CallerStep(r) \/ CloseBody(r)
             \/ Accept(r) \/ RecvHeaders(r) \/ RecvEnd(r) \/ RecvMalformed(r)
             \/ \E e \in FromPeer \cap Events : RecvReset(r, e)
      PROVE  ConnInv'
  BY <1>2, GetClientConnKeeps, CancelKeeps, CallerSelectKeeps, CallerWaitDoneKeeps,
     CloseBodyKeeps, AcceptKeeps, RecvHeadersKeeps, RecvEndKeeps, RecvMalformedKeeps,
     RecvResetKeeps DEF CallerStep
<1>3. ASSUME NEW last \in {0, Far} \cup {id[r] : r \in Requests},
             NEW code \in {"graceful", "error"} \cap Events, RecvGoAway(last, code)
      PROVE  ConnInv'
  <2>1. Far \in Nat
    <3>1. Cardinality(Requests) \in Nat
      BY RequestAssumption, FS_CardinalityType
    <3> QED BY <3>1 DEF Far
  <2>2. last \in Nat
    BY <2>1 DEF ConnInv, TypeOK
  <2> QED BY <1>3, <2>2, RecvGoAwayKeeps
<1>4. ASSUME NEW max \in Limits \cup {Nil}, NEW hasWindow \in BOOLEAN,
             RecvSettings(max, hasWindow)
      PROVE  ConnInv'
  BY <1>4, RecvSettingsKeeps
<1>5. ASSUME \/ RecvWindowUpdate \/ RecvPingAck \/ ReadFails \/ ReaderCleanup
             \/ Close \/ CloseIfIdle \/ ShutdownStart \/ ShutdownGoAway \/ ShutdownCheck
             \/ ShutdownCloses \/ ShutdownGivesUp \/ SendPing \/ PeerDrops
      PROVE  ConnInv'
  BY <1>5, RecvWindowUpdateKeeps, RecvPingAckKeeps, ReadFailsKeeps, ReaderCleanupKeeps,
     CloseKeeps, CloseIfIdleKeeps, ShutdownStartKeeps, ShutdownGoAwayKeeps,
     ShutdownCheckKeeps, ShutdownClosesKeeps, ShutdownGivesUpKeeps, SendPingKeeps,
     PeerDropsKeeps
<1>6. CASE UNCHANGED vars
  BY <1>6, StutterKeeps
<1> QED BY <1>1, <1>2, <1>3, <1>4, <1>5, <1>6 DEF Next

LEMMA ConnInvAlways == Spec => []ConnInv
BY InitConnInv, NextKeeps, PTL DEF Spec

(* Type correctness of the connection: its counters of reservations and of *)
(* unconfirmed resets never become negative.                               *)
THEOREM ConnTypeCorrect == Spec => []TypeOK
<1>1. ConnInv => TypeOK
  BY DEF ConnInv
<1> QED BY <1>1, ConnInvAlways, PTL

(* HEADERS leave in the order of their stream IDs, because reqHeaderMu is  *)
(* held from the allocation of an ID to the end of the write.              *)
THEOREM HeadersInOrderAlways == Spec => []HeadersInOrder
<1>1. ConnInv => HeadersInOrder
  BY DEF ConnInv, TypeOK, Numbered, HeadersInOrder
<1> QED BY <1>1, ConnInvAlways, PTL

(* While resets wait for their confirmation, the PING that brings it is    *)
(* under way, or the connection is beyond use.                             *)
THEOREM NoStrandedResetAlways == Spec => []NoStrandedReset
<1>1. ConnInv => NoStrandedReset
  BY DEF ConnInv
<1> QED BY <1>1, ConnInvAlways, PTL

(* No order of cancellations and failures leaks a reservation.             *)
THEOREM NoLeakedReservationAlways == Spec => []NoLeakedReservation
<1>1. ConnInv => NoLeakedReservation
  BY DEF ConnInv
<1> QED BY <1>1, ConnInvAlways, PTL

(* Closing for idleness, after GOAWAY or by Shutdown cuts no stream.       *)
THEOREM GracefulCutsNothingAlways == Spec => []GracefulCutsNothing
<1>1. ConnInv => GracefulCutsNothing
  BY DEF ConnInv, ClosedIsIdle, GracefulCutsNothing
<1> QED BY <1>1, ConnInvAlways, PTL

(* What RoundTripOpt retries was not acted on by the peer.                 *)
THEOREM RetrySafeAlways == Spec => []RetrySafe
<1>1. ConnInv => RetrySafe
  BY DEF ConnInv, TypeOK, Retries, Excused, RetrySafe, Numbered, Sent
<1> QED BY <1>1, ConnInvAlways, PTL

(* A peer that answers nothing is sent no more requests than its largest   *)
(* limit, however many are cancelled.                                      *)
THEOREM UnresponsiveBoundedAlways == Spec => []UnresponsiveBounded
<1>1. ASSUME ConnInv PROVE UnresponsiveBounded
  <2> SUFFICES ASSUME Quiet
               PROVE  \E m \in Limits \cup {InitialLimit, DefaultLimit} :
                          Cardinality({r \in Requests : Sent(r)}) <= m
    BY DEF UnresponsiveBounded, Quiet
  <2>1. {r \in Requests : Sent(r)} \subseteq Occupied /\ Occupied \subseteq Requests
    BY <1>1 DEF ConnInv, TypeOK, Occupied
  <2>2. /\ Cardinality({r \in Requests : Sent(r)}) <= Cardinality(Occupied)
        /\ Cardinality({r \in Requests : Sent(r)}) \in Nat /\ Cardinality(Occupied) \in Nat
    BY <2>1, CardSub
  <2>3. PICK m \in Limits \cup {InitialLimit, DefaultLimit} : Cardinality(Occupied) <= m
    BY <1>1 DEF ConnInv, SlotsBounded
  <2> QED BY <2>2, <2>3, ConnAssumption, SMTT(30)
<1>2. ConnInv => UnresponsiveBounded
  BY <1>1
<1> QED BY <1>2, ConnInvAlways, PTL
=============================================================================
