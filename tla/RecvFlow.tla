------------------------------ MODULE RecvFlow ------------------------------
(***************************************************************************)
(* Inbound flow control of the HTTP/2 client (http2/flow.go, the DATA and  *)
(* body-reading paths of http2/transport.go, http2/pipe.go): what          *)
(* newClientConn advertises in its preface, what processData enforces, and *)
(* how bytes that were read, padded, discarded or left unread come back to *)
(* the server as WINDOW_UPDATE frames.                                     *)
(*                                                                         *)
(* Actors: the read loop (Recv...), one doRequest goroutine per stream     *)
(* (Cleanup...), the caller of RoundTrip that owns the response body       *)
(* (Caller..., Body...), and the server (its half of every Recv action, and *)
(* the delivery of the WINDOW_UPDATE frames).  A DATA frame is sent and    *)
(* received in one step: the windows the server sees only grow between the *)
(* two, so every real receipt is a receipt of this model.                  *)
(*                                                                         *)
(* Sizes are byte counts scaled down by the instance.                      *)
(***************************************************************************)
EXTENDS Integers, FiniteSets, FiniteSetsExt

CONSTANTS
    Streams,             \* the requests of one connection
    MayBeHead,           \* bound: those whose method may be HEAD
    SpecWindow,          \* initialWindowSize, 65535
    StreamFlow,          \* conf.MaxUploadBufferPerStream, 4 << 20
    ConnFlow,            \* conf.MaxUploadBufferPerConnection, 1 << 30
    MinRefresh,          \* inflowMinRefresh, 4 << 10
    MaxWindow,           \* 1<<31 - 1
    FpHasSettings,       \* len(t.Fingerprint.Settings) > 0
    FpHasInitialWindow,  \* one of them is INITIAL_WINDOW_SIZE,
    FpInitialWindow,     \* with this value
    FpWindowUpdate,      \* t.Fingerprint.WindowUpdate, 0 when unset
    BodyLengths,         \* bound: the response bodies
    FrameData,           \* bound: len(data) of a DATA frame
    FramePads,           \* bound: padding of a DATA frame
    Unruly               \* bound: streams whose request may be cancelled,
                         \* whose body may be closed twice, and whose server
                         \* may send DATA at a wrong time, more of it than
                         \* its Content-Length, or RST_STREAM

ASSUME StreamsAssumption == 
    MayBeHead \subseteq Streams /\ Unruly \subseteq Streams /\ IsFiniteSet(Streams)

ASSUME WindowAssumption ==
    /\ SpecWindow \in Nat /\ StreamFlow \in Nat /\ ConnFlow \in Nat
    /\ MinRefresh \in Nat /\ MaxWindow \in Nat
    /\ FpHasSettings \in BOOLEAN /\ FpHasInitialWindow \in BOOLEAN
    /\ FpInitialWindow \in Nat /\ FpWindowUpdate \in Nat

ASSUME BoundsAssumption ==
    BodyLengths \subseteq Nat /\ FrameData \subseteq Nat /\ FramePads \subseteq Nat

-----------------------------------------------------------------------------
(* What the preface tells the server, and what the code will enforce.      *)

AdvertisedStream ==
    IF ~FpHasSettings THEN StreamFlow
    ELSE IF FpHasInitialWindow THEN FpInitialWindow ELSE SpecWindow

AdvertisedConn ==
    SpecWindow + (IF FpWindowUpdate # 0 THEN FpWindowUpdate ELSE ConnFlow)

EnforcedStream == StreamFlow

EnforcedConn == ConnFlow + SpecWindow

-----------------------------------------------------------------------------
(* inflow: a window of avail bytes and unsent bytes not yet returned.      *)

(* Variants of the definitions below ("Mutant" in their names) are         *)
(* plausible slips of the code: each breaks a property the runs check.     *)
FlushesMutant(a, u) == u > MinRefresh             \* looks at the threshold only

(* add flushes when the saved-up credit is large or would double avail.    *)
Flushes(a, u) == ~(u < MinRefresh /\ u < a)

(* What add(n) puts into a WINDOW_UPDATE, and the window it leaves.        *)
AddSends(a, u, n) == IF Flushes(a, u + n) THEN u + n ELSE 0

AddAvailMutant1(a, u, n) == a                     \* sends, but does not open

AddAvailMutant2(a, u, n) == IF Flushes(a, u + n) THEN a + n ELSE a  \* forgets unsent

AddAvail(a, u, n) == a + AddSends(a, u, n)

AddUnsentMutant1(a, u, n) == u - AddSends(a, u, n)            \* n is not saved up

AddUnsentMutant2(a, u, n) == u + n                \* sends, but does not reset

AddUnsent(a, u, n) == u + n - AddSends(a, u, n)

AddPanics(a, u, n) == u + n + a > MaxWindow

-----------------------------------------------------------------------------
VARIABLES
    connAvail, connUnsent,  \* cc.inflow
    avail, unsent,          \* cs.inflow
    isHead,                 \* streams with cs.isHead
    phase,                  \* "idle", "open" (in cc.streams), "closing" (its
                            \* pipe closed by cleanupWriteRequest), "gone"
    pastHeaders,            \* streams with cs.pastHeaders
    readClosed,             \* streams with cs.readClosed and peerClosed closed
    readAborted,            \* streams with cs.readAborted
    aborted,                \* streams with cs.abort closed
    cancelled,              \* streams whose request context is done
    hasBuf, buf,            \* cs.bufPipe.b is not nil, and its Len()
    unread,                 \* cs.bufPipe.unread
    perr,                   \* cs.bufPipe.err: "nil", "eof" or "err"
    broken,                 \* streams with cs.bufPipe.breakErr set
    hasBody,                \* streams whose res.Body is a transportResponseBody
    bytesRemain,            \* cs.bytesRemain, -1 unknown
    readErr,                \* cs.readErr: "nil", "overrun" or "short"
    inHand,                 \* taken out of the pipe by Read, not yet credited
    caller,                 \* "waiting" in RoundTrip, "reading" the body,
                            \* "closing" it, "closed" and waiting for the
                            \* stream to end, "done"
    closes,                 \* calls of Body.Close
    peerConn, peerStream,   \* the server's view of the windows
    wuConn, wuStream,       \* WINDOW_UPDATE bytes on their way to it
    toSend,                 \* body bytes it still has
    stage,                  \* "idle", "request", "body", "ended"
    fault                   \* "none", "flowControl" (the connection error),
                            \* "panic" (inflow.add)

connVars == <<connAvail, connUnsent, peerConn, wuConn>>
windowVars == <<avail, unsent, peerStream, wuStream>>
pipeVars == <<hasBuf, buf, unread, perr, broken>>
streamVars == <<isHead, phase, pastHeaders, readClosed, readAborted, aborted, cancelled>>
bodyVars == <<hasBody, bytesRemain, readErr, inHand, caller, closes>>
serverVars == <<toSend, stage>>
vars == <<connVars, windowVars, pipeVars, streamVars, bodyVars, serverVars, fault>>

Init ==
    /\ connAvail = EnforcedConn /\ connUnsent = 0
    /\ avail = [s \in Streams |-> 0] /\ unsent = [s \in Streams |-> 0]
    /\ isHead \in SUBSET MayBeHead
    /\ phase = [s \in Streams |-> "idle"]
    /\ pastHeaders = {} /\ readClosed = {} /\ readAborted = {}
    /\ aborted = {} /\ cancelled = {}
    /\ hasBuf = {} /\ broken = {}
    /\ buf = [s \in Streams |-> 0] /\ unread = [s \in Streams |-> 0]
    /\ perr = [s \in Streams |-> "nil"]
    /\ hasBody = {} /\ bytesRemain = [s \in Streams |-> 0]
    /\ readErr = [s \in Streams |-> "nil"]
    /\ inHand = [s \in Streams |-> 0]
    /\ caller = [s \in Streams |-> "waiting"] /\ closes = [s \in Streams |-> 0]
    /\ peerConn = AdvertisedConn /\ wuConn = 0
    /\ peerStream = [s \in Streams |-> 0] /\ wuStream = [s \in Streams |-> 0]
    /\ toSend \in [Streams -> BodyLengths]
    /\ stage = [s \in Streams |-> "idle"]
    /\ fault = "none"

-----------------------------------------------------------------------------
(* Effects shared by the handlers.                                         *)

(* cc.inflow.add(n) on a window whose avail is a; the frame is written.    *)
ConnAdd(a, n) ==
    /\ connAvail' = AddAvail(a, connUnsent, n)
    /\ connUnsent' = AddUnsent(a, connUnsent, n)
    /\ wuConn' = wuConn + AddSends(a, connUnsent, n)

ConnPanics(a, n) == AddPanics(a, connUnsent, n)

(* cs.inflow.add(n) likewise.                                              *)
StreamAdd(s, a, n) ==
    /\ avail' = [avail EXCEPT ![s] = AddAvail(a, unsent[s], n)]
    /\ unsent' = [unsent EXCEPT ![s] = AddUnsent(a, unsent[s], n)]
    /\ wuStream' = [wuStream EXCEPT ![s] = @ + AddSends(a, unsent[s], n)]

StreamPanics(s, a, n) == AddPanics(a, unsent[s], n)

FaultIf(panics) == fault' = IF panics THEN "panic" ELSE fault

(* pipe.closeWithError on p.err: only the first error is kept.             *)
PipeClose(s, e) == perr' = [perr EXCEPT ![s] = IF @ = "nil" THEN e ELSE @]

PipeWritableMutant(s) == perr[s] = "nil"          \* breakErr is not looked at

PipeWritable(s) == s \in hasBuf /\ perr[s] = "nil" /\ s \notin broken

InStreams(s) == phase[s] \in {"open", "closing"}

(* streamByID finds the stream.                                            *)
Visible(s) == InStreams(s) /\ s \notin readAborted

(* endStream.                                                              *)
EndStream(s, ends) ==
    IF ends /\ s \notin readClosed
    THEN readClosed' = readClosed \cup {s} /\ PipeClose(s, "eof")
    ELSE UNCHANGED <<readClosed, perr>>

(* endStreamError: readAborted and abortStream.                            *)
EndStreamError(s) ==
    readAborted' = readAborted \cup {s} /\ aborted' = aborted \cup {s}

Running == fault = "none"

-----------------------------------------------------------------------------
(* addStreamLocked, and the request HEADERS reach the server.              *)
Open(s) ==
    /\ Running /\ phase[s] = "idle" /\ s \notin cancelled
    /\ phase' = [phase EXCEPT ![s] = "open"]
    /\ avail' = [avail EXCEPT ![s] = EnforcedStream]
    /\ peerStream' = [peerStream EXCEPT ![s] = AdvertisedStream]
    /\ stage' = [stage EXCEPT ![s] = "request"]
    /\ UNCHANGED <<connVars, unsent, wuStream, pipeVars, isHead, pastHeaders, readClosed,
                   readAborted, aborted, cancelled, bodyVars, toSend, fault>>

(* The Content-Length a server declares; -1 when it declares none.         *)
Declared(s) ==
    {-1, toSend[s]} \cup (IF s \in Unruly THEN 0 .. toSend[s] ELSE {})

(* processHeaders and handleResponse.  END_STREAM comes with the headers of *)
(* an empty body; nil body and HEAD get no buffer.  A 1xx response leaves  *)
(* this state as it was (pastHeaders is set and reset).                    *)
RecvHeaders(s, cl) ==
    LET ends == toSend[s] = 0 \/ s \in isHead
    IN  /\ Running /\ stage[s] = "request"
        /\ stage' = [stage EXCEPT ![s] = IF ends THEN "ended" ELSE "body"]
        /\ IF Visible(s)
           THEN /\ pastHeaders' = pastHeaders \cup {s}
                /\ IF ends
                   THEN UNCHANGED <<hasBuf, hasBody, bytesRemain>>
                   ELSE /\ hasBuf' = IF perr[s] = "nil" /\ s \notin broken
                                     THEN hasBuf \cup {s} ELSE hasBuf
                        /\ hasBody' = hasBody \cup {s}
                        /\ bytesRemain' = [bytesRemain EXCEPT ![s] = cl]
                /\ EndStream(s, ends)
           ELSE UNCHANGED <<pastHeaders, hasBuf, hasBody, bytesRemain, readClosed, perr>>
        /\ UNCHANGED <<connVars, windowVars, buf, unread, broken, isHead, phase,
                       readAborted, aborted, cancelled, readErr, inHand, caller,
                       closes, toSend, fault>>

(* processHeaders with a response that handleResponse refuses (no status,  *)
(* too many header bytes, a 1xx response with END_STREAM).  pastHeaders    *)
(* stands for respHeaderRecv too, which is not closed.                     *)
RecvMalformed(s) ==
    /\ Running /\ s \in Unruly /\ stage[s] = "request"
    /\ stage' = [stage EXCEPT ![s] = "body"]
    /\ IF Visible(s) THEN EndStreamError(s) ELSE UNCHANGED <<readAborted, aborted>>
    /\ UNCHANGED <<connVars, windowVars, pipeVars, isHead, phase, pastHeaders, readClosed,
                   cancelled, bodyVars, toSend, fault>>

(* processHeaders after the response: trailers end the stream              *)
(* (processTrailers), after END_STREAM they are an error.                  *)
RecvTrailers(s) ==
    /\ Running
    /\ stage[s] = "body" \/ (stage[s] = "ended" /\ s \in Unruly)
    /\ toSend[s] = 0 \/ s \in Unruly
    /\ stage' = [stage EXCEPT ![s] = "ended"]
    /\ IF Visible(s) /\ s \in readClosed
       THEN EndStreamError(s) ELSE UNCHANGED <<readAborted, aborted>>
    /\ EndStream(s, Visible(s))
    /\ UNCHANGED <<connVars, windowVars, hasBuf, buf, unread, broken, isHead, phase,
                   pastHeaders, cancelled, bodyVars, toSend, fault>>

-----------------------------------------------------------------------------
(* The server sends n body bytes and pad padding within its windows.       *)
ServerSends(s, n, pad, ends) ==
    /\ stage[s] \in (IF s \in Unruly THEN {"request", "body", "ended"} ELSE {"body"})
    /\ n <= toSend[s]
    /\ n + pad <= peerConn /\ n + pad <= peerStream[s]
    /\ ends => n = toSend[s]
    /\ n + pad > 0 \/ ends
    /\ toSend' = [toSend EXCEPT ![s] = @ - n]
    /\ stage' = IF ends THEN [stage EXCEPT ![s] = "ended"] ELSE stage
    /\ peerConn' = peerConn - (n + pad)
    /\ peerStream' = [peerStream EXCEPT ![s] = @ - (n + pad)]

DataIgnoredMutant(s, len) ==                      \* nothing is given back
    /\ ~Visible(s) /\ len <= connAvail
    /\ connAvail' = connAvail - len
    /\ UNCHANGED <<connUnsent, wuConn, fault, avail, unsent, wuStream, pipeVars,
                   readClosed, readAborted, aborted>>

(* processData: the stream is no longer known, its bytes are given back,   *)
(* also when take refused them; that error is looked at afterwards.        *)
DataIgnored(s, len) ==
    /\ ~Visible(s)
    /\ IF len = 0
       THEN UNCHANGED <<connAvail, connUnsent, wuConn, fault>>
       ELSE IF len > connAvail
       THEN /\ connAvail' = AddAvail(connAvail, connUnsent, len)
            /\ connUnsent' = AddUnsent(connAvail, connUnsent, len)
            /\ wuConn' = wuConn
            /\ fault' = IF ConnPanics(connAvail, len) THEN "panic" ELSE "flowControl"
       ELSE ConnAdd(connAvail - len, len) /\ FaultIf(ConnPanics(connAvail - len, len))
    /\ UNCHANGED <<avail, unsent, wuStream, pipeVars, readClosed, readAborted, aborted>>

(* DATA after END_STREAM, before HEADERS, or in answer to HEAD.            *)
Misplaced(s, n) ==
    s \in readClosed \/ s \notin pastHeaders \/ (s \in isHead /\ n > 0)

(* processData: a stream error, the flow-control windows are not touched.  *)
DataMisplaced(s, n) ==
    /\ Visible(s) /\ Misplaced(s, n)
    /\ EndStreamError(s)
    /\ UNCHANGED <<connAvail, connUnsent, wuConn, avail, unsent, wuStream,
                   pipeVars, readClosed, fault>>

(* processData: takeInflows fails.                                         *)
DataOverWindow(s, n, len) ==
    /\ Visible(s) /\ ~Misplaced(s, n)
    /\ len > 0 /\ (len > connAvail \/ len > avail[s])
    /\ fault' = "flowControl"
    /\ UNCHANGED <<connAvail, connUnsent, wuConn, avail, unsent, wuStream,
                   pipeVars, readClosed, readAborted, aborted>>

(* processData: the data go into the pipe and padding is given back.       *)
DataTaken(s, n, len, ends) ==
    /\ Visible(s) /\ ~Misplaced(s, n)
    /\ len <= connAvail /\ len <= avail[s]
    /\ n = 0 \/ PipeWritable(s)
    /\ buf' = [buf EXCEPT ![s] = @ + n]
    /\ IF len = 0
       THEN UNCHANGED <<connAvail, connUnsent, wuConn, avail, unsent, wuStream, fault>>
       ELSE /\ ConnAdd(connAvail - len, len - n)
            /\ StreamAdd(s, avail[s] - len, len - n)
            /\ FaultIf(\/ ConnPanics(connAvail - len, len - n)
                       \/ StreamPanics(s, avail[s] - len, len - n))
    /\ EndStream(s, ends)
    /\ UNCHANGED <<hasBuf, unread, broken, readAborted, aborted>>

(* processData: the pipe refuses the data, so they are given back at once, *)
(* and the handler returns before it looks at END_STREAM.                  *)
DataRefused(s, n, len) ==
    /\ Visible(s) /\ ~Misplaced(s, n)
    /\ len <= connAvail /\ len <= avail[s]
    /\ n > 0 /\ ~PipeWritable(s)
    /\ ConnAdd(connAvail - len, len)
    /\ FaultIf(ConnPanics(connAvail - len, len))
    /\ avail' = [avail EXCEPT ![s] = @ - len]
    /\ EndStreamError(s)
    /\ UNCHANGED <<unsent, wuStream, pipeVars, readClosed>>

(* processData.  endStream runs after cc.mu is released; an empty DATA frame *)
(* with END_STREAM as a step of its own shows what may happen in between.  *)
RecvData(s, n, pad, ends) ==
    /\ Running
    /\ ServerSends(s, n, pad, ends)
    /\ \/ DataIgnored(s, n + pad)
       \/ DataMisplaced(s, n)
       \/ DataOverWindow(s, n, n + pad)
       \/ DataTaken(s, n, n + pad, ends)
       \/ DataRefused(s, n, n + pad)
    /\ UNCHANGED <<isHead, phase, pastHeaders, cancelled, bodyVars>>

(* processResetStream; the server is done with the stream.                 *)
RecvRst(s) ==
    /\ Running /\ s \in Unruly /\ stage[s] \in {"request", "body"}
    /\ stage' = [stage EXCEPT ![s] = "ended"]
    /\ IF Visible(s)
       THEN aborted' = aborted \cup {s} /\ PipeClose(s, "err")
       ELSE UNCHANGED <<aborted, perr>>
    /\ UNCHANGED <<connVars, windowVars, hasBuf, buf, unread, broken, isHead, phase,
                   pastHeaders, readClosed, readAborted, cancelled, bodyVars,
                   toSend, fault>>

-----------------------------------------------------------------------------
(* The request's context is cancelled or its deadline passes.              *)
Cancel(s) ==
    /\ Running /\ s \in Unruly \ cancelled /\ phase[s] \in {"open", "closing"}
    /\ cancelled' = cancelled \cup {s}
    /\ UNCHANGED <<connVars, windowVars, pipeVars, isHead, phase, pastHeaders, readClosed,
                   readAborted, aborted, bodyVars, serverVars, fault>>

(* roundTrip takes <-cs.respHeaderRecv: the caller owns the body.  Without *)
(* one (noBody) it waits for the stream and nothing is left to close.      *)
CallerGetsResponse(s) ==
    /\ Running /\ caller[s] = "waiting" /\ s \in pastHeaders
    /\ s \in hasBody \/ phase[s] = "gone" \/ s \in cancelled
    /\ caller' = [caller EXCEPT ![s] = IF s \in hasBody THEN "reading" ELSE "done"]
    /\ UNCHANGED <<connVars, windowVars, pipeVars, streamVars, hasBody, bytesRemain,
                   readErr, inHand, closes, serverVars, fault>>

(* roundTrip takes <-ctx.Done(): nobody will ever read this stream's pipe. *)
CallerGivesUp(s) ==
    /\ Running /\ caller[s] = "waiting" /\ s \in cancelled
    /\ caller' = [caller EXCEPT ![s] = "done"]
    /\ aborted' = aborted \cup {s}
    /\ UNCHANGED <<connVars, windowVars, pipeVars, isHead, phase, pastHeaders, readClosed,
                   readAborted, cancelled, hasBody, bytesRemain, readErr, inHand, closes,
                   serverVars, fault>>

(* roundTrip takes <-cs.abort, no response having come.                    *)
CallerAborted(s) ==
    /\ Running /\ caller[s] = "waiting"
    /\ s \in aborted /\ s \notin pastHeaders
    /\ phase[s] = "gone" \/ s \in cancelled         \* waitDone
    /\ caller' = [caller EXCEPT ![s] = "done"]
    /\ UNCHANGED <<connVars, windowVars, pipeVars, streamVars, hasBody, bytesRemain,
                   readErr, inHand, closes, serverVars, fault>>

(* writeRequest has returned (peerClosed, abort or ctx.Done()), and        *)
(* cleanupWriteRequest closes the pipe,                                    *)
CleanupClosePipe(s) ==
    /\ Running /\ phase[s] = "open"
    /\ s \in readClosed \cup aborted \cup cancelled
    /\ phase' = [phase EXCEPT ![s] = "closing"]
    /\ PipeClose(s, "err")
    /\ aborted' = IF s \in readClosed THEN aborted ELSE aborted \cup {s}
    /\ UNCHANGED <<connVars, windowVars, hasBuf, buf, unread, broken, isHead, pastHeaders,
                   readClosed, readAborted, cancelled, bodyVars, serverVars, fault>>

(* then forgets the stream.                                                *)
CleanupForget(s) ==
    /\ Running /\ phase[s] = "closing"
    /\ phase' = [phase EXCEPT ![s] = "gone"]
    /\ UNCHANGED <<connVars, windowVars, pipeVars, isHead, pastHeaders, readClosed,
                   readAborted, aborted, cancelled, bodyVars, serverVars, fault>>

-----------------------------------------------------------------------------
(* transportResponseBody.Read up to cc.mu: n bytes leave the pipe.         *)
BodyRead(s, n) ==
    /\ Running /\ caller[s] = "reading" /\ inHand[s] = 0
    /\ readErr[s] = "nil" /\ s \notin broken
    /\ n \in 1 .. buf[s]
    /\ buf' = [buf EXCEPT ![s] = @ - n]
    /\ IF bytesRemain[s] # -1 /\ n > bytesRemain[s]
       THEN /\ readErr' = [readErr EXCEPT ![s] = "overrun"]
            /\ aborted' = aborted \cup {s}
            /\ UNCHANGED <<bytesRemain, inHand>>
       ELSE /\ bytesRemain' = [bytesRemain EXCEPT ![s] = IF @ = -1 THEN -1 ELSE @ - n]
            /\ inHand' = [inHand EXCEPT ![s] = n]
            /\ UNCHANGED <<readErr, aborted>>
    /\ UNCHANGED <<connVars, windowVars, hasBuf, unread, perr, broken, isHead, phase,
                   pastHeaders, readClosed, readAborted, cancelled, hasBody, caller,
                   closes, serverVars, fault>>

(* The rest of Read: the bytes are credited to both windows.               *)
BodyCredit(s) ==
    /\ Running /\ inHand[s] > 0
    /\ inHand' = [inHand EXCEPT ![s] = 0]
    /\ ConnAdd(connAvail, inHand[s])
    /\ StreamAdd(s, avail[s], inHand[s])
    /\ FaultIf(\/ ConnPanics(connAvail, inHand[s])
               \/ StreamPanics(s, avail[s], inHand[s]))
    /\ UNCHANGED <<peerConn, peerStream, pipeVars, streamVars, hasBody, bytesRemain, readErr,
                   caller, closes, serverVars>>

(* Read finds the pipe empty and closed.                                   *)
BodyEnds(s) ==
    /\ Running /\ caller[s] = "reading" /\ inHand[s] = 0
    /\ readErr[s] = "nil" /\ s \notin broken /\ buf[s] = 0 /\ perr[s] # "nil"
    /\ s \in hasBuf \/ (perr[s] = "eof" /\ bytesRemain[s] > 0)
    /\ hasBuf' = hasBuf \ {s}
    /\ readErr' = [readErr EXCEPT ![s] =
            IF perr[s] = "eof" /\ bytesRemain[s] > 0 THEN "short" ELSE @]
    /\ UNCHANGED <<connVars, windowVars, buf, unread, perr, broken, streamVars,
                   hasBody, bytesRemain, inHand, caller, closes, serverVars, fault>>

(* transportResponseBody.Close up to cc.mu: the pipe is broken, the stream *)
(* aborted;                                                                *)
MaxCloses(s) == IF s \in Unruly THEN 2 ELSE 1

BodyClose(s) ==
    /\ Running /\ closes[s] < MaxCloses(s)
    /\ caller[s] = "reading" \/ (caller[s] = "done" /\ closes[s] > 0)
    /\ caller' = [caller EXCEPT ![s] = "closing"]
    /\ closes' = [closes EXCEPT ![s] = @ + 1]
    /\ broken' = broken \cup {s}
    /\ unread' = IF s \in broken THEN unread ELSE [unread EXCEPT ![s] = buf[s]]
    /\ buf' = [buf EXCEPT ![s] = 0]
    /\ hasBuf' = hasBuf \ {s}
    /\ aborted' = aborted \cup {s}
    /\ UNCHANGED <<connVars, windowVars, perr, isHead, phase, pastHeaders, readClosed,
                   readAborted, cancelled, hasBody, bytesRemain, readErr, inHand, serverVars,
                   fault>>

(* then what was left unread is credited to the connection,                *)
BodyRefund(s) ==
    /\ Running /\ caller[s] = "closing"
    /\ caller' = [caller EXCEPT ![s] = "closed"]
    /\ IF unread[s] > 0
       THEN ConnAdd(connAvail, unread[s]) /\ FaultIf(ConnPanics(connAvail, unread[s]))
       ELSE UNCHANGED <<connAvail, connUnsent, wuConn, fault>>
    /\ UNCHANGED <<peerConn, windowVars, pipeVars, streamVars, hasBody, bytesRemain, readErr,
                   inHand, closes, serverVars>>

(* and Close waits for the stream (donec) or the request's context.        *)
CloseReturns(s) ==
    /\ Running /\ caller[s] = "closed"
    /\ phase[s] = "gone" \/ s \in cancelled
    /\ caller' = [caller EXCEPT ![s] = "done"]
    /\ UNCHANGED <<connVars, windowVars, pipeVars, streamVars, hasBody, bytesRemain, readErr,
                   inHand, closes, serverVars, fault>>

-----------------------------------------------------------------------------
(* The server receives the WINDOW_UPDATE frames written so far.            *)
DeliverConnUpdate ==
    /\ Running /\ wuConn > 0
    /\ peerConn' = peerConn + wuConn /\ wuConn' = 0
    /\ UNCHANGED <<connAvail, connUnsent, windowVars, pipeVars, streamVars, bodyVars,
                   serverVars, fault>>

DeliverStreamUpdate(s) ==
    /\ Running /\ wuStream[s] > 0
    /\ peerStream' = [peerStream EXCEPT ![s] = @ + wuStream[s]]
    /\ wuStream' = [wuStream EXCEPT ![s] = 0]
    /\ UNCHANGED <<connVars, avail, unsent, pipeVars, streamVars, bodyVars,
                   serverVars, fault>>

-----------------------------------------------------------------------------
StreamStep(s) ==
    \/ Open(s)
    \/ \E cl \in Declared(s) : RecvHeaders(s, cl)
    \/ \E n \in FrameData, pad \in FramePads, ends \in BOOLEAN : RecvData(s, n, pad, ends)
    \/ RecvMalformed(s) \/ RecvTrailers(s) \/ RecvRst(s)
    \/ Cancel(s) \/ CallerGetsResponse(s) \/ CallerGivesUp(s) \/ CallerAborted(s)
    \/ CleanupClosePipe(s) \/ CleanupForget(s)
    \/ \E n \in 1 .. buf[s] : BodyRead(s, n)
    \/ BodyCredit(s) \/ BodyEnds(s)
    \/ BodyClose(s) \/ BodyRefund(s) \/ CloseReturns(s)
    \/ DeliverStreamUpdate(s)

Next == DeliverConnUpdate \/ \E s \in Streams : StreamStep(s)

(* The goroutines of the client and the network make progress; the server  *)
(* goes on with a response whenever its windows let it (strongly: padding  *)
(* may close a window for a moment); a caller reads until Read fails and   *)
(* then closes the body.                                                   *)
ReadFails(s) ==
    readErr[s] # "nil" \/ s \in broken \/ (buf[s] = 0 /\ perr[s] # "nil")

Fairness ==
    /\ WF_vars(DeliverConnUpdate)
    /\ \A s \in Streams :
        /\ SF_vars(\E n \in FrameData, ends \in BOOLEAN :
                        (n > 0 \/ ends) /\ RecvData(s, n, 0, ends))
        /\ WF_vars(CallerGetsResponse(s) \/ CallerGivesUp(s) \/ CallerAborted(s))
        /\ WF_vars(CleanupClosePipe(s)) /\ WF_vars(CleanupForget(s))
        /\ WF_vars(\E n \in 1 .. buf[s] : BodyRead(s, n))
        /\ WF_vars(BodyCredit(s)) /\ WF_vars(BodyEnds(s))
        /\ WF_vars(ReadFails(s) /\ BodyClose(s))
        /\ WF_vars(BodyRefund(s)) /\ WF_vars(CloseReturns(s))
        /\ WF_vars(DeliverStreamUpdate(s))

Spec == Init /\ [][Next]_vars

FairSpec == Spec /\ Fairness

-----------------------------------------------------------------------------
(* Properties.                                                             *)

TypeConn ==
    connAvail \in Nat /\ connUnsent \in Nat /\ peerConn \in Nat /\ wuConn \in Nat

TypeWindow ==
    /\ avail \in [Streams -> Nat] /\ unsent \in [Streams -> Nat]
    /\ peerStream \in [Streams -> Nat] /\ wuStream \in [Streams -> Nat]

TypePipe ==
    /\ hasBuf \subseteq Streams /\ broken \subseteq Streams
    /\ buf \in [Streams -> Nat] /\ unread \in [Streams -> Nat]
    /\ perr \in [Streams -> {"nil", "eof", "err"}]

TypeStream ==
    /\ phase \in [Streams -> {"idle", "open", "closing", "gone"}]
    /\ isHead \subseteq Streams /\ pastHeaders \subseteq Streams
    /\ readClosed \subseteq Streams /\ readAborted \subseteq Streams
    /\ aborted \subseteq Streams /\ cancelled \subseteq Streams

TypeBody ==
    /\ hasBody \subseteq Streams
    /\ bytesRemain \in [Streams -> Nat \cup {-1}]
    /\ readErr \in [Streams -> {"nil", "overrun", "short"}]
    /\ inHand \in [Streams -> Nat]
    /\ caller \in [Streams -> {"waiting", "reading", "closing", "closed", "done"}]
    /\ closes \in [Streams -> 0 .. 2]

TypeServer ==
    /\ toSend \in [Streams -> Nat]
    /\ stage \in [Streams -> {"idle", "request", "body", "ended"}]

(* Type invariant: every variable stays in its set; the windows and the    *)
(* buffered byte counts of flow.go and pipe.go never go negative.          *)
TypeOK ==
    /\ TypeConn /\ TypeWindow /\ TypePipe /\ TypeStream /\ TypeBody /\ TypeServer
    /\ fault \in {"none", "flowControl", "panic"}

(* A server that stays within the windows it was given is never accused of *)
(* a flow-control violation by processData ("the latest window sent to the *)
(* peer (used for enforcement)", flow.go).  It holds as long as the preface *)
(* announces no larger a stream window than addStreamLocked will enforce;  *)
(* a fingerprint that announces more breaks it (RecvFlowChrome.cfg).       *)
NoFalseFlowControlError == fault # "flowControl"

(* The enforced windows track the server's: while no error was raised, the *)
(* window of a stream the read loop still serves differs from the server's *)
(* view, updates in flight included, by exactly what the preface           *)
(* mis-announced, and the server never has more connection window than     *)
(* cc.inflow allows it on top of that.                                     *)
WindowsAgree ==
    /\ peerConn + wuConn - AdvertisedConn <= connAvail - EnforcedConn
    /\ \A s \in Streams : Running /\ Visible(s) =>
            peerStream[s] + wuStream[s] - AdvertisedStream = avail[s] - EnforcedStream

(* Bytes of stream s that were charged to the connection window and are    *)
(* still to be given back.                                                 *)
Held(s) == buf[s] + inHand[s] + (IF caller[s] = "closing" THEN unread[s] ELSE 0)

(* No caller closed a body twice and no server overran its Content-Length. *)
Orderly == \A s \in Streams : closes[s] < 2 /\ readErr[s] # "overrun"

(* Whatever mixture of reads, padding, resets, cancellations, refused      *)
(* writes, ignored frames and early closes happened, the connection's      *)
(* window plus what is owed to it is the initial window: nothing is        *)
(* credited twice or lost, as long as no body is closed twice (the second  *)
(* Close would refund unread bytes again), no Content-Length is overrun    *)
(* (Read forgets the bytes) and the connection is up.                      *)
ConnWindowConserved ==
    Running /\ Orderly => connAvail + connUnsent + MapThenSumSet(Held, Streams) = EnforcedConn

(* A stream that is over for the read loop and for its caller holds no     *)
(* connection window, unless RoundTrip was cancelled before the caller     *)
(* got hold of the body; inHand is a Read that is about to credit it.      *)
NoStrandedBytes ==
    \A s \in Streams :
        phase[s] = "gone" /\ caller[s] = "done" /\ s \notin cancelled
            => Held(s) = inHand[s]

(* Saving up small credits never starves the server: once everything       *)
(* received on a stream was consumed and the updates arrived, the stream   *)
(* window of a stream that was not aborted is open.                        *)
StreamNotStarved ==
    \A s \in Streams :
        Visible(s) /\ s \notin aborted /\ Held(s) = 0 /\ wuStream[s] = 0
            => peerStream[s] > 0

(* Nor does it starve the connection: with nothing held by any stream and  *)
(* no update in flight, the connection window is open.                     *)
ConnNotStarved ==
    Running /\ Orderly /\ readAborted = {} /\ wuConn = 0 /\ (\A s \in Streams : Held(s) = 0)
        => peerConn > 0

(* A response body that is being read comes to an end and its Close        *)
(* returns: neither the saved-up credits nor a pipe nobody closes leaves   *)
(* the reader hanging.                                                     *)
BodyCompletes ==
    \A s \in Streams : caller[s] = "reading" ~> (caller[s] = "done" \/ fault # "none")
=============================================================================
