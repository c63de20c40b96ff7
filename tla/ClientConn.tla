----------------------------- MODULE ClientConn -----------------------------
(***************************************************************************)
(* One HTTP/2 client connection (http2/transport.go) and the requests that *)
(* share it: reservations and concurrency slots, the life of each request  *)
(* from ReserveNewRequest to the end of cleanupWriteRequest, the read      *)
(* loop, GOAWAY, resets and the pings that confirm them, and the ways the  *)
(* connection is closed.                                                   *)
(*                                                                         *)
(* An action is one critical section of cc.mu, or one write under cc.wmu.  *)
(* A frame is sent by the peer and read by the read loop in one step: what *)
(* the peer may say depends only on what it has received.  Response bodies *)
(* and their flow control are the module RecvFlow; requests carry no body, *)
(* so HEADERS ends the client's side of the stream.  The peer keeps to the *)
(* protocol: it does not act on a stream it refused or put beyond the      *)
(* last stream of its GOAWAY.                                              *)
(***************************************************************************)
EXTENDS Integers, FiniteSets

CONSTANTS
    Requests,         \* RoundTrip calls that may use this connection
    CloseRequests,    \* those with "Connection: close"
    Cancellable,      \* those whose context may end
    Modes,            \* [strict, singleUse] settings a connection may have
    InitialLimit,     \* initialMaxConcurrentStreams
    DefaultLimit,     \* defaultMaxConcurrentStreams
    Limits,           \* values of SETTINGS_MAX_CONCURRENT_STREAMS
    MaxSettings,      \* bound on the SETTINGS frames the peer sends
    MaxStreamID,      \* math.MaxInt32
    MaxPings,         \* bound on health-check pings
    Responses,        \* kinds of responses: "body", "nobody"
    Events,           \* what befalls the connection in this instance
    Nil               \* no error, no holder of reqHeaderMu

ASSUME RequestAssumption ==
    /\ IsFiniteSet(Requests) /\ Nil \notin Requests
    /\ CloseRequests \subseteq Requests /\ Cancellable \subseteq Requests

ASSUME ConnAssumption ==
    /\ Modes \subseteq [strict : BOOLEAN, singleUse : BOOLEAN] /\ Modes # {}
    /\ InitialLimit \in Nat /\ DefaultLimit \in Nat /\ Limits \subseteq Nat
    /\ MaxSettings \in Nat /\ MaxStreamID \in Nat /\ MaxPings \in Nat
    /\ Responses \subseteq {"body", "nobody"}
    /\ Events \subseteq {"closeBody", "encodeError", "refused", "protocol", "peerReset",
                          "malformed", "graceful", "error", "windowUpdate",
                          "ping", "drop", "idle", "shutdown", "close"}

(* Errors a stream may be aborted with, or writeRequest may return.        *)
Errors ==
    {"unusable",       \* errClientConnUnusable
     "notEstablished", \* errClientConnNotEstablished
     "goaway",         \* errClientConnGotGoAway
     "goawayErr",      \* GOAWAY with an error code, on the first stream
     "refused",        \* RST_STREAM(REFUSED_STREAM) from the peer
     "protocol",       \* RST_STREAM(PROTOCOL_ERROR) from the peer
     "peerReset",      \* RST_STREAM with another code from the peer
     "malformed",      \* StreamError of the read loop
     "ctx",            \* the request's context is done
     "bodyClosed",     \* errClosedResponseBody
     "write",          \* encoding or writing the headers failed
     "connLost",       \* the read loop's error
     "forced"}         \* errClientConnForceClosed, or a lost ping

ASSUME NilAssumption == Nil \notin Errors \cup {"aborting", "finishing", "ok"}

VARIABLES
    mode,          \* cc.strictMaxConcurrentStreams, cc.singleUse
    closed, closedOnIdle, closing, doNotReuse,
    goAway,        \* "none", or the code of cc.goAway: "graceful" or "error"
    streams,       \* the requests in cc.streams
    reserved,      \* cc.streamsReserved
    nextStreamID,
    limit,         \* cc.maxConcurrentStreams
    settings,      \* SETTINGS frames read; cc.seenSettings is settings > 0
    pendingResets,
    pingsBlocked,  \* cc.rstStreamPingsBlocked
    readBefore,    \* cc.readBeforeStreamID
    lastIdle,      \* whether cc.lastIdle is set
    headerMu,      \* the request that holds cc.reqHeaderMu, or Nil
    tconn,         \* "open", closed by us ("graceful", "forced"), or "lost"
    werr,          \* cc.werr # nil
    reader,        \* the read loop: "run", "cleanup" or "done"
    shut,          \* where Shutdown and its goroutine are
    pc,            \* where doRequest is
    id,            \* cs.ID
    err,           \* what writeRequest returned
    abortErr,      \* cs.abortErr; cs.abort is closed iff it is not Nil
    hdrs,          \* cs.respHeaderRecv and cs.res: "no", "body" or "nobody"
    ended,         \* cs.peerClosed is closed
    readAborted,   \* cs.readAborted
    skipPing,      \* closeOnIdle or readSinceStream, as cleanup read them
    ctxDone,       \* the request's context is done
    result,        \* what RoundTrip returned, "ok" or an error; Nil in its select,
                   \* "aborting" or "finishing" in waitDone
    peer,          \* "idle", "lost" or "sent" HEADERS; "processed" or "refused" by
                   \* the peer, or "reset" while it was processed
    peerLast,      \* the last stream the peer may still act on
    pings          \* PINGs the peer has not acknowledged

flagVars == <<closed, closedOnIdle, closing, doNotReuse, goAway>>
slotVars == <<streams, reserved, nextStreamID, pendingResets, lastIdle, headerMu>>
peerSetVars == <<mode, limit, settings>>
readVars == <<pingsBlocked, readBefore>>
wireVars == <<tconn, werr>>
streamVars == <<hdrs, ended, readAborted>>
envVars == <<peer, peerLast, pings>>
vars == <<flagVars, slotVars, peerSetVars, readVars, wireVars, reader, shut, pc, id,
          err, abortErr, streamVars, skipPing, ctxDone, result, envVars>>

Far == 2 * Cardinality(Requests) + 1      \* beyond every stream ID

Waiting == {"wait", "woken"}
Sent(r) == peer[r] # "idle"               \* cs.sentHeaders
Done(r) == pc[r] = "done"                 \* cs.donec is closed

(* Type invariant of the connection and its requests; the counters of      *)
(* reservations and unconfirmed resets never become negative.              *)
TypeOK ==
    /\ mode \in Modes
    /\ {closed, closedOnIdle, closing, doNotReuse, pingsBlocked, lastIdle, werr}
           \subseteq BOOLEAN
    /\ goAway \in {"none", "graceful", "error"}
    /\ streams \subseteq Requests
    /\ reserved \in Nat /\ pendingResets \in Nat /\ limit \in Nat /\ settings \in Nat
    /\ nextStreamID \in Nat /\ readBefore \in Nat /\ peerLast \in Nat /\ pings \in Nat
    /\ headerMu \in Requests \cup {Nil}
    /\ tconn \in {"open", "graceful", "forced", "lost"}
    /\ reader \in {"run", "cleanup", "done"}
    /\ shut \in {"off", "goaway", "check", "wait", "freed", "over", "done"}
    /\ pc \in [Requests -> {"new", "lock", "wait", "woken", "headers", "await", "clean",
                            "settle", "reset", "resetPing", "forget", "werr", "done"}]
    /\ id \in [Requests -> Nat]
    /\ err \in [Requests -> Errors \cup {Nil}]
    /\ abortErr \in [Requests -> Errors \cup {Nil}]
    /\ hdrs \in [Requests -> {"no", "body", "nobody"}]
    /\ ended \in [Requests -> BOOLEAN] /\ readAborted \in [Requests -> BOOLEAN]
    /\ skipPing \in [Requests -> BOOLEAN] /\ ctxDone \in [Requests -> BOOLEAN]
    /\ result \in [Requests -> Errors \cup {Nil, "aborting", "finishing", "ok"}]
    /\ peer \in [Requests -> {"idle", "lost", "sent", "processed", "reset", "refused"}]

(* newClientConn.                                                          *)
Init ==
    /\ mode \in Modes
    /\ closed = FALSE /\ closedOnIdle = FALSE /\ closing = FALSE /\ doNotReuse = FALSE
    /\ goAway = "none"
    /\ streams = {} /\ reserved = 0 /\ nextStreamID = 1 /\ pendingResets = 0
    /\ limit = InitialLimit /\ settings = 0
    /\ pingsBlocked = FALSE /\ readBefore = 0 /\ lastIdle = FALSE /\ headerMu = Nil
    /\ tconn = "open" /\ werr = FALSE /\ reader = "run" /\ shut = "off"
    /\ pc = [r \in Requests |-> "new"]
    /\ id = [r \in Requests |-> 0]
    /\ err = [r \in Requests |-> Nil] /\ abortErr = [r \in Requests |-> Nil]
    /\ hdrs = [r \in Requests |-> "no"]
    /\ ended = [r \in Requests |-> FALSE] /\ readAborted = [r \in Requests |-> FALSE]
    /\ skipPing = [r \in Requests |-> FALSE] /\ ctxDone = [r \in Requests |-> FALSE]
    /\ result = [r \in Requests |-> Nil]
    /\ peer = [r \in Requests |-> "idle"] /\ peerLast = Far /\ pings = 0

-----------------------------------------------------------------------------
(* cc.cond.Broadcast, on the requests' program counters p.                 *)
Broadcast(p) ==
    /\ pc' = [r \in Requests |-> IF p[r] = "wait" THEN "woken" ELSE p[r]]
    /\ shut' = IF shut = "wait" THEN "check" ELSE shut

(* abortStreamLocked: the first error stays.                               *)
Abort(rs, e) ==
    abortErr' = [r \in Requests |->
                    IF r \in rs /\ abortErr[r] = Nil THEN e ELSE abortErr[r]]

(* Variants of the definitions below ("Mutant" in their names) are         *)
(* plausible slips of the code: each breaks a property the runs check.     *)
RequestCountMutant(n) == Cardinality(streams) + n    \* resets are not counted

(* currentRequestCountLocked, when n slots are reserved.                   *)
RequestCount(n) == Cardinality(streams) + n + pendingResets

(* cc.pendingRequests, of the other requests.                              *)
PendingRequests(r) == Cardinality({q \in Requests \ {r} : pc[q] \in Waiting})

(* isUsableLocked; tooIdle is what the clock says to tooIdleLocked.        *)
Usable(r, tooIdle) ==
    /\ goAway = "none" /\ ~closed /\ ~closing /\ ~doNotReuse
    /\ nextStreamID + 2 * PendingRequests(r) < MaxStreamID
    /\ ~tooIdle

(* idleStateLocked.                                                        *)
CanTakeNewRequest(r, n, tooIdle) ==
    /\ ~(mode.singleUse /\ nextStreamID > 1)
    /\ \/ (mode.strict \/ RequestCount(n) < limit) /\ Usable(r, tooIdle)
       \/ nextStreamID = 1 /\ n = 0 /\ closed /\ ~closedOnIdle

CloseOnIdle == mode.singleUse \/ doNotReuse \/ goAway # "none"

DecrReservationsMutant == reserved - 1               \* without the check for 0

(* decrStreamReservationsLocked.                                           *)
DecrReservations == IF reserved > 0 THEN reserved - 1 ELSE 0

(* How a write ends: a connection closed on this side fails, one the peer  *)
(* dropped may swallow the bytes first.                                    *)
WriteEnds ==
    CASE werr \/ tconn \in {"graceful", "forced"} -> {"fails"}
      [] ~werr /\ tconn = "lost" -> {"fails", "swallowed"}
      [] ~werr /\ tconn = "open" -> {"arrives"}

(* closeConn, when no other close came first.                              *)
CloseConn(how) == tconn' = IF tconn = "open" THEN how ELSE tconn

-----------------------------------------------------------------------------
(* getClientConn and RoundTrip: the pool reserves a slot on a shared       *)
(* connection; a single-use one goes to the request that dialled it.       *)
GetClientConn(r) ==
    /\ pc[r] = "new"
    /\ IF mode.singleUse
       THEN (\A q \in Requests : pc[q] = "new") /\ reserved' = reserved
       ELSE /\ \E tooIdle \in {FALSE, lastIdle} : CanTakeNewRequest(r, reserved, tooIdle)
            /\ reserved' = reserved + 1
    /\ pc' = [pc EXCEPT ![r] = "lock"]
    /\ UNCHANGED <<flagVars, streams, nextStreamID, pendingResets, lastIdle, headerMu,
                   peerSetVars, readVars, wireVars, reader, shut, id, err, abortErr,
                   streamVars, skipPing, ctxDone, result, envVars>>

(* The request's context ends, at any time.                                *)
Cancel(r) ==
    /\ r \in Cancellable
    /\ ~ctxDone[r] /\ pc[r] \notin {"new", "done"}
    /\ ctxDone' = [ctxDone EXCEPT ![r] = TRUE]
    /\ UNCHANGED <<flagVars, slotVars, peerSetVars, readVars, wireVars, reader, shut, pc,
                   id, err, abortErr, streamVars, skipPing, result, envVars>>

(* writeRequest returns e.                                                 *)
Return(r, e) ==
    pc' = [pc EXCEPT ![r] = "clean"] /\ err' = [err EXCEPT ![r] = e]

(* The select on reqHeaderMu, when the context is done.                    *)
GiveUpBeforeLock(r) ==
    /\ pc[r] = "lock" /\ ctxDone[r]
    /\ Return(r, "ctx")
    /\ UNCHANGED <<flagVars, slotVars, peerSetVars, readVars, wireVars, reader, shut, id,
                   abortErr, streamVars, skipPing, ctxDone, result, envVars>>

(* One turn of awaitOpenSlotForStreamLocked with n slots reserved, and     *)
(* addStreamLocked when it finds a slot.                                   *)
TrySlot(r, n, tooIdle) ==
    /\ reserved' = n
    /\ \/ /\ closed /\ nextStreamID = 1 /\ n = 0
          /\ Return(r, "notEstablished") /\ headerMu' = Nil
          /\ UNCHANGED <<doNotReuse, streams, nextStreamID, lastIdle, id>>
       \/ /\ ~(closed /\ nextStreamID = 1 /\ n = 0)
          /\ closed \/ ~CanTakeNewRequest(r, n, tooIdle)
          /\ Return(r, "unusable") /\ headerMu' = Nil
          /\ UNCHANGED <<doNotReuse, streams, nextStreamID, lastIdle, id>>
       \/ /\ ~closed /\ CanTakeNewRequest(r, n, tooIdle) /\ RequestCount(n) < limit
          /\ id' = [id EXCEPT ![r] = nextStreamID]
          /\ nextStreamID' = nextStreamID + 2
          /\ streams' = streams \cup {r}
          /\ doNotReuse' = (doNotReuse \/ r \in CloseRequests)
          /\ pc' = [pc EXCEPT ![r] = "headers"]
          /\ headerMu' = r /\ lastIdle' = FALSE
          /\ UNCHANGED err
       \/ /\ ~closed /\ CanTakeNewRequest(r, n, tooIdle) /\ RequestCount(n) >= limit
          /\ pc' = [pc EXCEPT ![r] = "wait"]
          /\ headerMu' = r /\ lastIdle' = FALSE
          /\ UNCHANGED <<doNotReuse, streams, nextStreamID, id, err>>
    /\ UNCHANGED <<closed, closedOnIdle, closing, goAway, pendingResets, peerSetVars,
                   readVars, wireVars, reader, shut, abortErr, streamVars, skipPing,
                   ctxDone, result, envVars>>

AwaitOpenSlotMutant(r) ==                            \* reqHeaderMu is not taken
    /\ pc[r] = "lock"
    /\ \E tooIdle \in {FALSE, lastIdle} : TrySlot(r, DecrReservations, tooIdle)

(* writeRequest from taking reqHeaderMu to the first look for a slot; the  *)
(* reservation is consumed here.                                           *)
AwaitOpenSlot(r) ==
    /\ pc[r] = "lock" /\ headerMu = Nil
    /\ \E tooIdle \in {FALSE, lastIdle} : TrySlot(r, DecrReservations, tooIdle)

(* cond.Wait returns.                                                      *)
WakeUp(r) ==
    /\ pc[r] = "woken"
    /\ IF abortErr[r] # Nil
       THEN /\ Return(r, abortErr[r]) /\ headerMu' = Nil
            /\ UNCHANGED <<flagVars, streams, reserved, nextStreamID, pendingResets,
                           lastIdle, peerSetVars, readVars, wireVars, reader, shut, id,
                           abortErr, streamVars, skipPing, ctxDone, result, envVars>>
       ELSE \E tooIdle \in {FALSE, lastIdle} : TrySlot(r, reserved, tooIdle)

(* encodeAndWriteHeaders, and the release of reqHeaderMu.                  *)
WriteHeaders(r) ==
    /\ pc[r] = "headers"
    /\ headerMu' = Nil
    /\ \/ /\ abortErr[r] # Nil
          /\ Return(r, abortErr[r]) /\ UNCHANGED <<peer, werr>>
       \/ /\ ctxDone[r]
          /\ Return(r, "ctx") /\ UNCHANGED <<peer, werr>>
       \/ /\ "encodeError" \in Events /\ abortErr[r] = Nil /\ ~ctxDone[r]
          /\ Return(r, "write") /\ UNCHANGED <<peer, werr>>
       \/ /\ abortErr[r] = Nil /\ ~ctxDone[r] /\ "fails" \in WriteEnds
          /\ Return(r, "write")
          /\ peer' = [peer EXCEPT ![r] = "lost"] /\ werr' = TRUE
       \/ \E how \in WriteEnds \ {"fails"} :
          /\ abortErr[r] = Nil /\ ~ctxDone[r]
          /\ pc' = [pc EXCEPT ![r] = "await"]
          /\ peer' = [peer EXCEPT ![r] = IF how = "arrives" THEN "sent" ELSE "lost"]
          /\ UNCHANGED <<err, werr>>
    /\ UNCHANGED <<flagVars, streams, reserved, nextStreamID, pendingResets, lastIdle,
                   peerSetVars, readVars, tconn, reader, shut, id, abortErr, streamVars,
                   skipPing, ctxDone, result, peerLast, pings>>

(* The last select of writeRequest.                                        *)
AwaitEnd(r) ==
    /\ pc[r] = "await"
    /\ \/ ended[r] /\ Return(r, Nil)
       \/ abortErr[r] # Nil /\ Return(r, abortErr[r])
       \/ ctxDone[r] /\ Return(r, "ctx")
    /\ UNCHANGED <<flagVars, slotVars, peerSetVars, readVars, wireVars, reader, shut, id,
                   abortErr, streamVars, skipPing, ctxDone, result, envVars>>

-----------------------------------------------------------------------------
GiveBackMutant(r) == reserved                        \* the reservation is kept

(* cleanupWriteRequest gives back the reservation of a stream that was     *)
(* never created.                                                          *)
GiveBack(r) == IF id[r] = 0 THEN DecrReservations ELSE reserved

(* The first critical sections of cleanupWriteRequest, which also note     *)
(* whether a ping is needed.                                               *)
CleanupNote(r) ==
    /\ pc[r] = "clean"
    /\ reserved' = GiveBack(r)
    /\ skipPing' = [skipPing EXCEPT ![r] = CloseOnIdle \/ readBefore > id[r]]
    /\ pc' = [pc EXCEPT ![r] = "settle"]
    /\ UNCHANGED <<flagVars, streams, nextStreamID, pendingResets, lastIdle, headerMu,
                   peerSetVars, readVars, wireVars, reader, shut, id, err, abortErr,
                   streamVars, ctxDone, result, envVars>>

FromPeer == {"refused", "protocol", "peerReset"}     \* se.Cause = errFromPeer

FarewellMutant(r, e) ==                              \* pings for the second reset
    IF ~Sent(r) \/ e \in FromPeer THEN "forget"
    ELSE IF e # "malformed" /\ ~skipPing[r] /\ ~pingsBlocked /\ pendingResets = 1
         THEN "resetPing" ELSE "reset"

(* What cleanupWriteRequest still has to send for a stream that failed     *)
(* with e; a cancelled stream keeps its slot until a ping is answered.     *)
Farewell(r, e) ==
    CASE ~Sent(r) \/ e \in FromPeer -> "forget"
      [] Sent(r) /\ e = "malformed" -> "reset"
      [] OTHER -> IF ~skipPing[r] /\ ~pingsBlocked /\ pendingResets = 0
                  THEN "resetPing" ELSE "reset"

(* A stream closed cleanly on both sides has no error; any other error     *)
(* aborts the stream.  The locals err and skipPing are dead from here on.  *)
CleanupSettle(r) ==
    /\ pc[r] = "settle"
    /\ IF err[r] = Nil \/ (Sent(r) /\ ended[r])
       THEN /\ pc' = [pc EXCEPT ![r] = "forget"]
            /\ UNCHANGED <<shut, abortErr, pendingResets>>
       ELSE /\ Abort({r}, err[r])
            /\ Broadcast([pc EXCEPT ![r] = Farewell(r, err[r])])
            /\ pendingResets' =
                   IF /\ Sent(r) /\ err[r] \notin FromPeer \cup {"malformed"}
                      /\ ~skipPing[r] /\ ~pingsBlocked
                   THEN pendingResets + 1 ELSE pendingResets
    /\ err' = [err EXCEPT ![r] = Nil] /\ skipPing' = [skipPing EXCEPT ![r] = FALSE]
    /\ UNCHANGED <<flagVars, streams, reserved, nextStreamID, lastIdle, headerMu,
                   peerSetVars, readVars, wireVars, reader, id, streamVars, ctxDone, result,
                   envVars>>

(* writeStreamReset.                                                       *)
WriteReset(r) ==
    /\ pc[r] \in {"reset", "resetPing"}
    /\ \E how \in WriteEnds :
          /\ werr' = (werr \/ how = "fails")
          /\ pings' = IF pc[r] = "resetPing" /\ how = "arrives" THEN pings + 1 ELSE pings
    /\ pc' = [pc EXCEPT ![r] = "forget"]
    /\ UNCHANGED <<flagVars, slotVars, peerSetVars, readVars, tconn, reader, shut, id, err,
                   abortErr, streamVars, skipPing, ctxDone, result, peer, peerLast>>

(* forgetStreamID, if there is a stream, and the look at cc.werr.          *)
Forget(r) ==
    LET rest == streams \ {r}
        next == [pc EXCEPT ![r] = IF werr THEN "werr" ELSE "done"]
    IN
    /\ pc[r] = "forget"
    /\ IF id[r] = 0
       THEN pc' = next /\ UNCHANGED <<closed, tconn, streams, lastIdle, shut>>
       ELSE /\ streams' = rest
            /\ lastIdle' = (lastIdle \/ rest = {})
            /\ Broadcast(next)
            /\ IF CloseOnIdle /\ reserved = 0 /\ rest = {}
               THEN closed' = TRUE /\ CloseConn("graceful")
               ELSE UNCHANGED <<closed, tconn>>
    /\ UNCHANGED <<closedOnIdle, closing, doNotReuse, goAway, reserved, nextStreamID,
                   pendingResets, headerMu, peerSetVars, readVars, werr, reader, id, err,
                   abortErr, streamVars, skipPing, ctxDone, result, envVars>>

(* closeForError, when the requests' program counters are p.               *)
CloseForError(p) ==
    /\ closed' = TRUE
    /\ Abort(streams, "forced")
    /\ Broadcast(p)
    /\ CloseConn("forced")
    /\ UNCHANGED <<closedOnIdle, closing, doNotReuse, goAway, slotVars, peerSetVars,
                   readVars, werr, reader, id, err, streamVars, skipPing, ctxDone, result,
                   envVars>>

(* The end of cleanupWriteRequest after a write error.                     *)
CloseAfterWriteError(r) ==
    pc[r] = "werr" /\ CloseForError([pc EXCEPT ![r] = "done"])

(* ClientConn.Close, or a health-check ping that timed out.                *)
Close == "close" \in Events /\ CloseForError(pc)

-----------------------------------------------------------------------------
(* The goroutine of the caller, in roundTrip.                              *)
Answer(r, v) == result' = [result EXCEPT ![r] = v]

CallerSelect(r) ==
    /\ pc[r] # "new" /\ result[r] = Nil
    /\ \/ /\ hdrs[r] # "no"
          /\ Answer(r, IF hdrs[r] = "nobody" THEN "finishing" ELSE "ok")
          /\ UNCHANGED <<pc, shut, abortErr>>
       \/ /\ abortErr[r] # Nil /\ hdrs[r] = "no"
          /\ Answer(r, "aborting") /\ UNCHANGED <<pc, shut, abortErr>>
       \/ /\ ctxDone[r]
          /\ Abort({r}, "ctx") /\ Broadcast(pc) /\ Answer(r, "ctx")
    /\ UNCHANGED <<flagVars, slotVars, peerSetVars, readVars, wireVars, reader, id, err,
                   streamVars, skipPing, ctxDone, envVars>>

(* waitDone, before a response without body or an error is returned.       *)
CallerWaitDone(r) ==
    /\ \/ result[r] = "finishing" /\ Done(r) /\ Answer(r, "ok")
       \/ result[r] = "finishing" /\ ctxDone[r] /\ Answer(r, "ctx")
       \/ result[r] = "aborting" /\ (Done(r) \/ ctxDone[r]) /\ Answer(r, abortErr[r])
    /\ UNCHANGED <<flagVars, slotVars, peerSetVars, readVars, wireVars, reader, shut, pc,
                   id, err, abortErr, streamVars, skipPing, ctxDone, envVars>>

(* transportResponseBody.Close aborts the stream.                          *)
CloseBody(r) ==
    /\ "closeBody" \in Events
    /\ result[r] = "ok" /\ hdrs[r] = "body" /\ abortErr[r] = Nil /\ ~Done(r)
    /\ Abort({r}, "bodyClosed") /\ Broadcast(pc)
    /\ UNCHANGED <<flagVars, slotVars, peerSetVars, readVars, wireVars, reader, id, err,
                   streamVars, skipPing, ctxDone, result, envVars>>

-----------------------------------------------------------------------------
(* The read loop.  streamByID notes that a frame was read and finds the    *)
(* stream unless it is forgotten or readAborted.                           *)
SeeFrame(headerOrData) ==
    /\ reader = "run" /\ settings > 0
    /\ readBefore' = nextStreamID
    /\ pingsBlocked' = (pingsBlocked /\ ~headerOrData)

Readable(r) == r \in streams /\ ~readAborted[r]

(* processHeaders: the response; late for a request that is forgotten.     *)
RecvHeaders(r) ==
    /\ SeeFrame(TRUE)
    /\ peer[r] = "processed" /\ hdrs[r] = "no"
    /\ \E res \in Responses :
          hdrs' = IF Readable(r) THEN [hdrs EXCEPT ![r] = res] ELSE hdrs
    /\ UNCHANGED <<flagVars, slotVars, peerSetVars, wireVars, reader, shut, pc, id, err,
                   abortErr, ended, readAborted, skipPing, ctxDone, result, envVars>>

(* END_STREAM, on the HEADERS, on DATA or on trailers: endStream.          *)
RecvEnd(r) ==
    /\ SeeFrame(TRUE)
    /\ peer[r] = "processed" /\ hdrs[r] # "no" /\ ~ended[r]
    /\ ended' = IF Readable(r) THEN [ended EXCEPT ![r] = TRUE] ELSE ended
    /\ UNCHANGED <<flagVars, slotVars, peerSetVars, wireVars, reader, shut, pc, id, err,
                   abortErr, hdrs, readAborted, skipPing, ctxDone, result, envVars>>

(* A malformed HEADERS or DATA frame: endStreamError.                      *)
RecvMalformed(r) ==
    /\ "malformed" \in Events /\ SeeFrame(TRUE)
    /\ peer[r] = "processed" /\ Readable(r)
    /\ readAborted' = [readAborted EXCEPT ![r] = TRUE]
    /\ Abort({r}, "malformed") /\ Broadcast(pc)
    /\ UNCHANGED <<flagVars, slotVars, peerSetVars, wireVars, reader, id, err, hdrs, ended,
                   skipPing, ctxDone, result, envVars>>

(* processResetStream; a peer that refuses a stream has not acted on it.   *)
RecvReset(r, e) ==
    /\ SeeFrame(FALSE)
    /\ IF e = "refused" THEN peer[r] = "sent" ELSE peer[r] \in {"sent", "processed"}
    /\ peer' = [peer EXCEPT ![r] = IF @ = "sent" THEN "refused" ELSE "reset"]
    /\ IF Readable(r)
       THEN /\ doNotReuse' = (doNotReuse \/ e = "protocol")
            /\ Abort({r}, e) /\ Broadcast(pc)
       ELSE UNCHANGED <<doNotReuse, abortErr, pc, shut>>
    /\ UNCHANGED <<closed, closedOnIdle, closing, goAway, slotVars, peerSetVars, wireVars,
                   reader, id, err, streamVars, skipPing, ctxDone, result, peerLast, pings>>

NotTakenMutant(last) == {r \in streams : id[r] >= last}  \* the last one, too

(* The streams a GOAWAY says the peer did not take up (setGoAway).         *)
NotTaken(last) == {r \in streams : id[r] > last}

(* processGoAway and setGoAway.                                            *)
RecvGoAway(last, code) ==
    LET code2 == IF goAway = "error" THEN "error" ELSE code
        after == NotTaken(last)
        fatal == {r \in after : id[r] = 1 /\ code2 = "error"}
    IN
    /\ reader = "run" /\ settings > 0
    /\ last <= peerLast
    /\ \A r \in Requests : peer[r] \in {"processed", "reset"} => id[r] <= last
    /\ peerLast' = last
    /\ goAway' = code2
    /\ abortErr' = [r \in Requests |->
                      IF r \in after /\ abortErr[r] = Nil
                      THEN IF r \in fatal THEN "goawayErr" ELSE "goaway"
                      ELSE abortErr[r]]
    /\ IF after # {} THEN Broadcast(pc) ELSE UNCHANGED <<pc, shut>>
    /\ UNCHANGED <<closed, closedOnIdle, closing, doNotReuse, slotVars, peerSetVars,
                   readVars, wireVars, reader, id, err, streamVars, skipPing, ctxDone,
                   result, peer, pings>>

(* processSettings; only a new initial window size wakes the waiters.      *)
RecvSettings(max, hasWindow) ==
    /\ reader = "run" /\ settings < MaxSettings
    /\ settings' = settings + 1
    /\ limit' = IF max # Nil THEN max
                ELSE IF settings = 0 THEN DefaultLimit ELSE limit
    /\ IF hasWindow THEN Broadcast(pc) ELSE UNCHANGED <<pc, shut>>
    /\ UNCHANGED <<flagVars, slotVars, mode, readVars, wireVars, reader, id, err, abortErr,
                   streamVars, skipPing, ctxDone, result, envVars>>

(* processWindowUpdate, for the connection.                                *)
RecvWindowUpdate ==
    /\ "windowUpdate" \in Events /\ SeeFrame(FALSE)
    /\ Broadcast(pc)
    /\ UNCHANGED <<flagVars, slotVars, peerSetVars, wireVars, reader, id, err, abortErr,
                   streamVars, skipPing, ctxDone, result, envVars>>

(* processPing, for an acknowledgement: every reset is confirmed.          *)
RecvPingAck ==
    /\ reader = "run" /\ settings > 0 /\ pings > 0
    /\ pings' = pings - 1
    /\ IF pendingResets > 0
       THEN pendingResets' = 0 /\ pingsBlocked' = TRUE /\ Broadcast(pc)
       ELSE UNCHANGED <<pendingResets, pingsBlocked, pc, shut>>
    /\ UNCHANGED <<flagVars, streams, reserved, nextStreamID, lastIdle, headerMu,
                   peerSetVars, readBefore, wireVars, reader, id, err, abortErr, streamVars,
                   skipPing, ctxDone, result, peer, peerLast>>

(* rl.run returns an error (end of file, read error, ConnectionError), and *)
(* cleanup up to the point where it unlocks cc.mu to call MarkDead.        *)
ReadFails ==
    /\ reader = "run" /\ (tconn # "open" \/ "drop" \in Events)
    /\ reader' = "cleanup" /\ closed' = TRUE
    /\ UNCHANGED <<closedOnIdle, closing, doNotReuse, goAway, slotVars, peerSetVars,
                   readVars, wireVars, shut, pc, id, err, abortErr, streamVars, skipPing,
                   ctxDone, result, envVars>>

ReaderCleanupMutant ==                               \* waiters are not woken
    /\ reader = "cleanup"
    /\ reader' = "done"
    /\ Abort({r \in streams : ~ended[r]}, "connLost")
    /\ CloseConn("forced")
    /\ UNCHANGED <<flagVars, slotVars, peerSetVars, readVars, werr, shut, pc, id, err,
                   streamVars, skipPing, ctxDone, result, envVars>>

(* The rest of cleanup, and closeConn.                                     *)
ReaderCleanup ==
    /\ reader = "cleanup"
    /\ reader' = "done"
    /\ Abort({r \in streams : ~ended[r]}, "connLost")
    /\ Broadcast(pc)
    /\ CloseConn("forced")
    /\ UNCHANGED <<flagVars, slotVars, peerSetVars, readVars, werr, id, err, streamVars,
                   skipPing, ctxDone, result, envVars>>

-----------------------------------------------------------------------------
IsIdleMutant == reserved = 0                         \* streams are forgotten

(* The test of closeIfIdle.                                                *)
IsIdle == streams = {} /\ reserved = 0

(* closeIfIdle: the idle timer, or CloseIdleConnections.                   *)
CloseIfIdle ==
    /\ "idle" \in Events /\ IsIdle
    /\ closed' = TRUE /\ closedOnIdle' = TRUE
    /\ CloseConn("graceful")
    /\ UNCHANGED <<closing, doNotReuse, goAway, slotVars, peerSetVars, readVars, werr,
                   reader, shut, pc, id, err, abortErr, streamVars, skipPing, ctxDone,
                   result, envVars>>

(* Shutdown: sendGoAway.                                                   *)
ShutdownStart ==
    /\ "shutdown" \in Events /\ shut = "off"
    /\ closing' = TRUE /\ shut' = "goaway"
    /\ UNCHANGED <<closed, closedOnIdle, doNotReuse, goAway, slotVars, peerSetVars,
                   readVars, wireVars, reader, pc, id, err, abortErr, streamVars, skipPing,
                   ctxDone, result, envVars>>

ShutdownGoAway ==
    /\ shut = "goaway"
    /\ \E how \in WriteEnds :
          /\ werr' = (werr \/ how = "fails")
          /\ shut' = IF how = "fails" THEN "done" ELSE "check"
    /\ UNCHANGED <<flagVars, slotVars, peerSetVars, readVars, tconn, reader, pc, id, err,
                   abortErr, streamVars, skipPing, ctxDone, result, envVars>>

(* Shutdown's goroutine looks for streams; once its caller gave up, it     *)
(* still looks one last time but no longer waits.                          *)
ShutdownCheck ==
    LET over == streams = {} \/ closed
    IN
    /\ shut \in {"check", "freed"}
    /\ closed' = over
    /\ shut' = CASE shut = "freed" -> "done"
                 [] shut = "check" -> IF over THEN "over" ELSE "wait"
    /\ UNCHANGED <<closedOnIdle, closing, doNotReuse, goAway, slotVars, peerSetVars,
                   readVars, wireVars, reader, pc, id, err, abortErr, streamVars, skipPing,
                   ctxDone, result, envVars>>

ShutdownCloses ==
    /\ shut = "over"
    /\ shut' = "done" /\ CloseConn("graceful")
    /\ UNCHANGED <<flagVars, slotVars, peerSetVars, readVars, werr, reader, pc, id, err,
                   abortErr, streamVars, skipPing, ctxDone, result, envVars>>

(* The context of Shutdown ends: the goroutine is freed, if it still waits. *)
ShutdownGivesUp ==
    /\ shut \in {"check", "wait", "over"}
    /\ shut' = IF shut = "over" THEN "done" ELSE "freed"
    /\ pc' = [r \in Requests |-> IF pc[r] = "wait" THEN "woken" ELSE pc[r]]
    /\ UNCHANGED <<flagVars, slotVars, peerSetVars, readVars, wireVars, reader, id, err,
                   abortErr, streamVars, skipPing, ctxDone, result, envVars>>

(* Ping, of a health check or a user.                                      *)
SendPing ==
    /\ "ping" \in Events /\ pings < MaxPings
    /\ \E how \in WriteEnds :
          /\ werr' = (werr \/ how = "fails")
          /\ pings' = IF how = "arrives" THEN pings + 1 ELSE pings
    /\ UNCHANGED <<flagVars, slotVars, peerSetVars, readVars, tconn, reader, shut, pc, id,
                   err, abortErr, streamVars, skipPing, ctxDone, result, peer, peerLast>>

(* The peer takes up a request, or drops the connection.                   *)
Accept(r) ==
    /\ peer[r] = "sent" /\ id[r] <= peerLast
    /\ peer' = [peer EXCEPT ![r] = "processed"]
    /\ UNCHANGED <<flagVars, slotVars, peerSetVars, readVars, wireVars, reader, shut, pc,
                   id, err, abortErr, streamVars, skipPing, ctxDone, result, peerLast,
                   pings>>

PeerDrops ==
    /\ "drop" \in Events /\ tconn = "open"
    /\ tconn' = "lost"
    /\ UNCHANGED <<flagVars, slotVars, peerSetVars, readVars, werr, reader, shut, pc, id,
                   err, abortErr, streamVars, skipPing, ctxDone, result, envVars>>

-----------------------------------------------------------------------------
RequestStep(r) ==
    \/ GiveUpBeforeLock(r) \/ AwaitOpenSlot(r) \/ WakeUp(r) \/ WriteHeaders(r)
    \/ AwaitEnd(r) \/ CleanupNote(r) \/ CleanupSettle(r) \/ WriteReset(r) \/ Forget(r)
    \/ CloseAfterWriteError(r)

CallerStep(r) == CallerSelect(r) \/ CallerWaitDone(r)

Next ==
    \/ \E r \in Requests :
          \/ GetClientConn(r) \/ Cancel(r) \/ RequestStep(r) \/ CallerStep(r) \/ CloseBody(r)
          \/ Accept(r) \/ RecvHeaders(r) \/ RecvEnd(r) \/ RecvMalformed(r)
          \/ \E e \in FromPeer \cap Events : RecvReset(r, e)
    \/ \E last \in {0, Far} \cup {id[r] : r \in Requests} :
       \E code \in {"graceful", "error"} \cap Events :
          RecvGoAway(last, code)
    \/ \E max \in Limits \cup {Nil}, hasWindow \in BOOLEAN : RecvSettings(max, hasWindow)
    \/ RecvWindowUpdate \/ RecvPingAck \/ ReadFails \/ ReaderCleanup
    \/ Close \/ CloseIfIdle \/ ShutdownStart \/ ShutdownGoAway \/ ShutdownCheck
    \/ ShutdownCloses \/ ShutdownGivesUp
    \/ SendPing \/ PeerDrops

Spec == Init /\ [][Next]_vars

(* Some goroutine of the client that can run does; a read on a connection  *)
(* that is closed or lost fails.  No goroutine keeps the others from       *)
(* running for ever: each takes finitely many steps unless it is woken.    *)
ClientStep ==
    \/ \E r \in Requests : RequestStep(r) \/ CallerStep(r)
    \/ tconn # "open" /\ ReadFails
    \/ ReaderCleanup

Fairness == WF_vars(ClientStep)

FairSpec == Spec /\ Fairness

(* A peer that answers: it sends SETTINGS, takes up every request it may,  *)
(* finishes its responses and acknowledges pings.                          *)
AnsweringSpec ==
    /\ FairSpec
    /\ WF_vars(\E max \in Limits : RecvSettings(max, FALSE))
    /\ WF_vars(RecvPingAck)
    /\ \A r \in Requests : WF_vars(Accept(r)) /\ WF_vars(RecvHeaders(r)) /\ WF_vars(RecvEnd(r))

-----------------------------------------------------------------------------
(* A request whose RoundTrip failed with an error that RoundTripOpt        *)
(* retries (canRetryError) was not acted on by the peer, whatever GOAWAY,  *)
(* RST_STREAM, cancellation and response crossed on the way; a reset with  *)
(* PROTOCOL_ERROR is retried on purpose and is left out.                   *)
RetrySafe ==
    \A r \in Requests :
        result[r] \in {"unusable", "goaway", "refused"} =>
            peer[r] \notin {"processed", "reset"}

(* HEADERS leave in the order of their stream IDs: no request still has to *)
(* write its HEADERS under an ID below one already written (reqHeaderMu    *)
(* guards the allocation of an ID together with the write).                *)
HeadersInOrder ==
    \A q, r \in Requests : Sent(q) /\ pc[r] = "headers" => id[q] < id[r]

(* While resets are counted as unconfirmed, a PING that will confirm them  *)
(* is in flight or about to be written (cleanupWriteRequest sends one only *)
(* with the first), or the connection is beyond use.                       *)
NoStrandedReset ==
    pendingResets > 0 =>
        \/ pings > 0 \/ \E r \in Requests : pc[r] = "resetPing"
        \/ werr \/ tconn # "open" \/ closed

(* On a connection from which nothing but SETTINGS was read, cancelled     *)
(* requests keep their slots: no more HEADERS were sent than the largest   *)
(* limit the peer ever had allows (pendingResets).                         *)
UnresponsiveBounded ==
    readBefore = 0 /\ ~pingsBlocked =>
        \E m \in Limits \cup {InitialLimit, DefaultLimit} :
            Cardinality({r \in Requests : Sent(r)}) <= m

(* A reservation is held only for a request on its way to a stream: no     *)
(* order of cancellations and failures leaks one, which would keep the     *)
(* connection from ever being idle.                                        *)
NoLeakedReservation ==
    reserved <= Cardinality({r \in Requests : pc[r] = "lock" \/ (pc[r] = "clean" /\ id[r] = 0)})

(* Closing for idleness, after GOAWAY or by Shutdown cuts no stream: while *)
(* the read loop runs, a gracefully closed connection has none.            *)
GracefulCutsNothing == tconn = "graceful" /\ reader = "run" => streams = {}

(* A request comes to its end, and its RoundTrip returns, once the         *)
(* connection is closed or lost, or once its context is done.  In strict   *)
(* mode a request cancelled just before it waits for a slot misses the     *)
(* wake-up (awaitOpenSlotForStreamLocked looks at cs.abort only after      *)
(* cond.Wait), so the second promise is made for the default mode only.    *)
Finished(r) == Done(r) /\ result[r] \notin {Nil, "aborting", "finishing"}

RequestsEnd ==
    \A r \in Requests :
        (pc[r] # "new" /\ (tconn # "open" \/ (ctxDone[r] /\ ~mode.strict))) ~> Finished(r)

(* Transport.StrictMaxConcurrentStreams: "callers of RoundTrip block when  *)
(* needed, waiting for their turn": the turn comes when the peer answers.  *)
TurnComes == \A r \in Requests : pc[r] = "wait" ~> pc[r] # "wait"
=============================================================================
