-------------------------- MODULE RecvFlow_proofs --------------------------
(***************************************************************************)
(* Proofs about RecvFlow, for every set of streams, every window size and  *)
(* every fingerprint.                                                      *)
(***************************************************************************)
EXTENDS RecvFlow, DataLemmas, TLAPS

(* What inflow.add returns and leaves behind: nothing is created or lost,  *)
(* and afterwards the saved-up credit is zero or below both thresholds.    *)
LEMMA AddFacts ==
    ASSUME NEW a \in Nat, NEW u \in Nat, NEW n \in Nat
    PROVE  /\ AddSends(a, u, n) \in Nat
           /\ AddAvail(a, u, n) \in Nat
           /\ AddUnsent(a, u, n) \in Nat
           /\ AddAvail(a, u, n) = a + AddSends(a, u, n)
           /\ AddAvail(a, u, n) + AddUnsent(a, u, n) = a + u + n
           /\ \/ AddUnsent(a, u, n) = 0
              \/ /\ AddUnsent(a, u, n) < MinRefresh
                 /\ AddUnsent(a, u, n) < AddAvail(a, u, n)
<1>1. CASE Flushes(a, u + n)
  BY <1>1 DEF AddSends, AddAvail, AddUnsent
<1>2. CASE ~Flushes(a, u + n)
  BY <1>2, WindowAssumption DEF AddSends, AddAvail, AddUnsent, Flushes
<1> QED BY <1>1, <1>2

(* The windows the preface announces and the ones the code enforces.       *)
LEMMA WindowTypes ==
    /\ AdvertisedStream \in Nat /\ AdvertisedConn \in Nat
    /\ EnforcedStream \in Nat /\ EnforcedConn \in Nat
BY WindowAssumption DEF AdvertisedStream, AdvertisedConn, EnforcedStream, EnforcedConn

-----------------------------------------------------------------------------
(* A stream that was not opened has no state at all.                       *)
IdleIsClean ==
    \A s \in Streams : phase[s] = "idle" =>
        /\ stage[s] = "idle" /\ wuStream[s] = 0 /\ unsent[s] = 0
        /\ buf[s] = 0 /\ inHand[s] = 0

(* The initial state is well typed.                                        *)
LEMMA InitTypeOK == Init => TypeOK
<1> SUFFICES ASSUME Init PROVE TypeOK
  OBVIOUS
<1>1. TypeConn
  BY WindowTypes DEF Init, TypeConn
<1>2. TypeWindow
  BY DEF Init, TypeWindow
<1>3. TypePipe
  BY DEF Init, TypePipe
<1>4. TypeStream
  BY StreamsAssumption DEF Init, TypeStream
<1>5. TypeBody
  BY DEF Init, TypeBody
<1>6. TypeServer
  BY BoundsAssumption DEF Init, TypeServer
<1>7. fault = "none"
  BY DEF Init
<1> QED BY <1>1, <1>2, <1>3, <1>4, <1>5, <1>6, <1>7 DEF TypeOK

-----------------------------------------------------------------------------
(* Open keeps the type invariant.                                          *)
LEMMA OpenType ==
    ASSUME TypeOK, NEW s \in Streams, Open(s)
    PROVE  TypeOK'
<1>1. TypeConn'
  BY DEF TypeOK, Open, TypeConn, connVars
<1>2. TypeWindow'
  BY WindowTypes DEF TypeOK, Open, TypeWindow
<1>3. TypePipe'
  BY DEF TypeOK, Open, TypePipe, pipeVars
<1>4. TypeStream'
  BY DEF TypeOK, Open, TypeStream
<1>5. TypeBody'
  BY DEF TypeOK, Open, TypeBody, bodyVars
<1>6. TypeServer'
  BY DEF TypeOK, Open, TypeServer
<1>7. fault' \in {"none", "flowControl", "panic"}
  BY DEF TypeOK, Open
<1> QED BY <1>1, <1>2, <1>3, <1>4, <1>5, <1>6, <1>7 DEF TypeOK

(* RecvHeaders keeps the type invariant.                                   *)
LEMMA RecvHeadersType ==
    ASSUME TypeOK, NEW s \in Streams, NEW cl \in Declared(s), RecvHeaders(s, cl)
    PROVE  TypeOK'
<1>1. TypeConn'
  BY DEF TypeOK, RecvHeaders, TypeConn, connVars
<1>2. TypeWindow'
  BY DEF TypeOK, RecvHeaders, TypeWindow, windowVars
<1>3. TypePipe'
  BY DEF TypeOK, RecvHeaders, TypePipe, EndStream, PipeClose
<1>4. TypeStream'
  BY DEF TypeOK, RecvHeaders, TypeStream, EndStream
<1>5. TypeBody'
  BY DEF TypeOK, RecvHeaders, TypeBody, Declared, TypeServer
<1>6. TypeServer'
  BY DEF TypeOK, RecvHeaders, TypeServer
<1>7. fault' \in {"none", "flowControl", "panic"}
  BY DEF TypeOK, RecvHeaders
<1> QED BY <1>1, <1>2, <1>3, <1>4, <1>5, <1>6, <1>7 DEF TypeOK

(* RecvRst keeps the type invariant.                                       *)
LEMMA RecvRstType ==
    ASSUME TypeOK, NEW s \in Streams, RecvRst(s)
    PROVE  TypeOK'
<1>1. TypeConn'
  BY DEF TypeOK, RecvRst, TypeConn, connVars
<1>2. TypeWindow'
  BY DEF TypeOK, RecvRst, TypeWindow, windowVars
<1>3. TypePipe'
  BY DEF TypeOK, RecvRst, TypePipe, PipeClose
<1>4. TypeStream'
  BY DEF TypeOK, RecvRst, TypeStream
<1>5. TypeBody'
  BY DEF TypeOK, RecvRst, TypeBody, bodyVars
<1>6. TypeServer'
  BY DEF TypeOK, RecvRst, TypeServer
<1>7. fault' \in {"none", "flowControl", "panic"}
  BY DEF TypeOK, RecvRst
<1> QED BY <1>1, <1>2, <1>3, <1>4, <1>5, <1>6, <1>7 DEF TypeOK

(* RecvMalformed keeps the type invariant.                                 *)
LEMMA RecvMalformedType ==
    ASSUME TypeOK, NEW s \in Streams, RecvMalformed(s)
    PROVE  TypeOK'
<1>1. TypeConn' /\ TypeWindow'
  BY DEF TypeOK, RecvMalformed, TypeConn, TypeWindow, connVars, windowVars
<1>2. TypePipe'
  BY DEF TypeOK, RecvMalformed, TypePipe, pipeVars
<1>3. TypeStream'
  BY DEF TypeOK, RecvMalformed, TypeStream, EndStreamError
<1>4. TypeBody' /\ TypeServer' /\ fault' \in {"none", "flowControl", "panic"}
  BY DEF TypeOK, RecvMalformed, TypeBody, TypeServer, bodyVars
<1> QED BY <1>1, <1>2, <1>3, <1>4 DEF TypeOK

(* RecvTrailers keeps the type invariant.                                  *)
LEMMA RecvTrailersType ==
    ASSUME TypeOK, NEW s \in Streams, RecvTrailers(s)
    PROVE  TypeOK'
<1>1. TypeConn' /\ TypeWindow'
  BY DEF TypeOK, RecvTrailers, TypeConn, TypeWindow, connVars, windowVars
<1>2. TypePipe'
  BY DEF TypeOK, RecvTrailers, TypePipe, EndStream, PipeClose
<1>3. TypeStream'
  BY DEF TypeOK, RecvTrailers, TypeStream, EndStream, EndStreamError
<1>4. TypeBody' /\ TypeServer' /\ fault' \in {"none", "flowControl", "panic"}
  BY DEF TypeOK, RecvTrailers, TypeBody, TypeServer, bodyVars
<1> QED BY <1>1, <1>2, <1>3, <1>4 DEF TypeOK

(* Cancel keeps the type invariant.                                        *)
LEMMA CancelType ==
    ASSUME TypeOK, NEW s \in Streams, Cancel(s)
    PROVE  TypeOK'
<1>1. TypeConn'
  BY DEF TypeOK, Cancel, TypeConn, connVars
<1>2. TypeWindow'
  BY DEF TypeOK, Cancel, TypeWindow, windowVars
<1>3. TypePipe'
  BY DEF TypeOK, Cancel, TypePipe, pipeVars
<1>4. TypeStream'
  BY DEF TypeOK, Cancel, TypeStream
<1>5. TypeBody'
  BY DEF TypeOK, Cancel, TypeBody, bodyVars
<1>6. TypeServer'
  BY DEF TypeOK, Cancel, TypeServer, serverVars
<1>7. fault' \in {"none", "flowControl", "panic"}
  BY DEF TypeOK, Cancel
<1> QED BY <1>1, <1>2, <1>3, <1>4, <1>5, <1>6, <1>7 DEF TypeOK

(* CallerGetsResponse keeps the type invariant.                            *)
LEMMA CallerGetsResponseType ==
    ASSUME TypeOK, NEW s \in Streams, CallerGetsResponse(s)
    PROVE  TypeOK'
<1>1. TypeConn'
  BY DEF TypeOK, CallerGetsResponse, TypeConn, connVars
<1>2. TypeWindow'
  BY DEF TypeOK, CallerGetsResponse, TypeWindow, windowVars
<1>3. TypePipe'
  BY DEF TypeOK, CallerGetsResponse, TypePipe, pipeVars
<1>4. TypeStream'
  BY DEF TypeOK, CallerGetsResponse, TypeStream, streamVars
<1>5. TypeBody'
  BY DEF TypeOK, CallerGetsResponse, TypeBody
<1>6. TypeServer'
  BY DEF TypeOK, CallerGetsResponse, TypeServer, serverVars
<1>7. fault' \in {"none", "flowControl", "panic"}
  BY DEF TypeOK, CallerGetsResponse
<1> QED BY <1>1, <1>2, <1>3, <1>4, <1>5, <1>6, <1>7 DEF TypeOK

(* CallerAborted keeps the type invariant.                                 *)
LEMMA CallerAbortedType ==
    ASSUME TypeOK, NEW s \in Streams, CallerAborted(s)
    PROVE  TypeOK'
<1>1. TypeConn'
  BY DEF TypeOK, CallerAborted, TypeConn, connVars
<1>2. TypeWindow'
  BY DEF TypeOK, CallerAborted, TypeWindow, windowVars
<1>3. TypePipe'
  BY DEF TypeOK, CallerAborted, TypePipe, pipeVars
<1>4. TypeStream'
  BY DEF TypeOK, CallerAborted, TypeStream, streamVars
<1>5. TypeBody'
  BY DEF TypeOK, CallerAborted, TypeBody
<1>6. TypeServer'
  BY DEF TypeOK, CallerAborted, TypeServer, serverVars
<1>7. fault' \in {"none", "flowControl", "panic"}
  BY DEF TypeOK, CallerAborted
<1> QED BY <1>1, <1>2, <1>3, <1>4, <1>5, <1>6, <1>7 DEF TypeOK

(* CloseReturns keeps the type invariant.                                  *)
LEMMA CloseReturnsType ==
    ASSUME TypeOK, NEW s \in Streams, CloseReturns(s)
    PROVE  TypeOK'
<1>1. TypeConn'
  BY DEF TypeOK, CloseReturns, TypeConn, connVars
<1>2. TypeWindow'
  BY DEF TypeOK, CloseReturns, TypeWindow, windowVars
<1>3. TypePipe'
  BY DEF TypeOK, CloseReturns, TypePipe, pipeVars
<1>4. TypeStream'
  BY DEF TypeOK, CloseReturns, TypeStream, streamVars
<1>5. TypeBody'
  BY DEF TypeOK, CloseReturns, TypeBody
<1>6. TypeServer'
  BY DEF TypeOK, CloseReturns, TypeServer, serverVars
<1>7. fault' \in {"none", "flowControl", "panic"}
  BY DEF TypeOK, CloseReturns
<1> QED BY <1>1, <1>2, <1>3, <1>4, <1>5, <1>6, <1>7 DEF TypeOK

(* CallerGivesUp keeps the type invariant.                                 *)
LEMMA CallerGivesUpType ==
    ASSUME TypeOK, NEW s \in Streams, CallerGivesUp(s)
    PROVE  TypeOK'
<1>1. TypeConn'
  BY DEF TypeOK, CallerGivesUp, TypeConn, connVars
<1>2. TypeWindow'
  BY DEF TypeOK, CallerGivesUp, TypeWindow, windowVars
<1>3. TypePipe'
  BY DEF TypeOK, CallerGivesUp, TypePipe, pipeVars
<1>4. TypeStream'
  BY DEF TypeOK, CallerGivesUp, TypeStream
<1>5. TypeBody'
  BY DEF TypeOK, CallerGivesUp, TypeBody
<1>6. TypeServer'
  BY DEF TypeOK, CallerGivesUp, TypeServer, serverVars
<1>7. fault' \in {"none", "flowControl", "panic"}
  BY DEF TypeOK, CallerGivesUp
<1> QED BY <1>1, <1>2, <1>3, <1>4, <1>5, <1>6, <1>7 DEF TypeOK

(* CleanupClosePipe keeps the type invariant.                              *)
LEMMA CleanupClosePipeType ==
    ASSUME TypeOK, NEW s \in Streams, CleanupClosePipe(s)
    PROVE  TypeOK'
<1>1. TypeConn'
  BY DEF TypeOK, CleanupClosePipe, TypeConn, connVars
<1>2. TypeWindow'
  BY DEF TypeOK, CleanupClosePipe, TypeWindow, windowVars
<1>3. TypePipe'
  BY DEF TypeOK, CleanupClosePipe, TypePipe, PipeClose
<1>4. TypeStream'
  BY DEF TypeOK, CleanupClosePipe, TypeStream
<1>5. TypeBody'
  BY DEF TypeOK, CleanupClosePipe, TypeBody, bodyVars
<1>6. TypeServer'
  BY DEF TypeOK, CleanupClosePipe, TypeServer, serverVars
<1>7. fault' \in {"none", "flowControl", "panic"}
  BY DEF TypeOK, CleanupClosePipe
<1> QED BY <1>1, <1>2, <1>3, <1>4, <1>5, <1>6, <1>7 DEF TypeOK

(* CleanupForget keeps the type invariant.                                 *)
LEMMA CleanupForgetType ==
    ASSUME TypeOK, NEW s \in Streams, CleanupForget(s)
    PROVE  TypeOK'
<1>1. TypeConn'
  BY DEF TypeOK, CleanupForget, TypeConn, connVars
<1>2. TypeWindow'
  BY DEF TypeOK, CleanupForget, TypeWindow, windowVars
<1>3. TypePipe'
  BY DEF TypeOK, CleanupForget, TypePipe, pipeVars
<1>4. TypeStream'
  BY DEF TypeOK, CleanupForget, TypeStream
<1>5. TypeBody'
  BY DEF TypeOK, CleanupForget, TypeBody, bodyVars
<1>6. TypeServer'
  BY DEF TypeOK, CleanupForget, TypeServer, serverVars
<1>7. fault' \in {"none", "flowControl", "panic"}
  BY DEF TypeOK, CleanupForget
<1> QED BY <1>1, <1>2, <1>3, <1>4, <1>5, <1>6, <1>7 DEF TypeOK

(* BodyRead keeps the type invariant.                                      *)
LEMMA BodyReadType ==
    ASSUME TypeOK, NEW s \in Streams, NEW n \in 1 .. buf[s], BodyRead(s, n)
    PROVE  TypeOK'
<1>1. TypeConn'
  BY DEF TypeOK, BodyRead, TypeConn, connVars
<1>2. TypeWindow'
  BY DEF TypeOK, BodyRead, TypeWindow, windowVars
<1>3. TypePipe'
  BY DEF TypeOK, BodyRead, TypePipe
<1>4. TypeStream'
  BY DEF TypeOK, BodyRead, TypeStream
<1>5. TypeBody'
  <2>1. CASE bytesRemain[s] # -1 /\ n > bytesRemain[s]
    BY <2>1 DEF TypeOK, BodyRead, TypeBody
  <2>2. CASE bytesRemain[s] # -1 /\ n <= bytesRemain[s]
    <3>1. bytesRemain[s] - n \in Nat /\ n \in Nat
      BY <2>2 DEF TypeOK, TypeBody, TypePipe
    <3> QED BY <2>2, <3>1 DEF TypeOK, BodyRead, TypeBody, TypePipe
  <2>3. CASE bytesRemain[s] = -1
    BY <2>3 DEF TypeOK, BodyRead, TypeBody, TypePipe
  <2>4. bytesRemain[s] \in Int /\ n \in Int
    BY DEF TypeOK, TypeBody, TypePipe
  <2> QED BY <2>1, <2>2, <2>3, <2>4
<1>6. TypeServer'
  BY DEF TypeOK, BodyRead, TypeServer, serverVars
<1>7. fault' \in {"none", "flowControl", "panic"}
  BY DEF TypeOK, BodyRead
<1> QED BY <1>1, <1>2, <1>3, <1>4, <1>5, <1>6, <1>7 DEF TypeOK

(* BodyEnds keeps the type invariant.                                      *)
LEMMA BodyEndsType ==
    ASSUME TypeOK, NEW s \in Streams, BodyEnds(s)
    PROVE  TypeOK'
<1>1. TypeConn'
  BY DEF TypeOK, BodyEnds, TypeConn, connVars
<1>2. TypeWindow'
  BY DEF TypeOK, BodyEnds, TypeWindow, windowVars
<1>3. TypePipe'
  BY DEF TypeOK, BodyEnds, TypePipe
<1>4. TypeStream'
  BY DEF TypeOK, BodyEnds, TypeStream, streamVars
<1>5. TypeBody'
  BY DEF TypeOK, BodyEnds, TypeBody
<1>6. TypeServer'
  BY DEF TypeOK, BodyEnds, TypeServer, serverVars
<1>7. fault' \in {"none", "flowControl", "panic"}
  BY DEF TypeOK, BodyEnds
<1> QED BY <1>1, <1>2, <1>3, <1>4, <1>5, <1>6, <1>7 DEF TypeOK

(* BodyClose keeps the type invariant.                                     *)
LEMMA BodyCloseType ==
    ASSUME TypeOK, NEW s \in Streams, BodyClose(s)
    PROVE  TypeOK'
<1>1. TypeConn'
  BY DEF TypeOK, BodyClose, MaxCloses, TypeConn, connVars
<1>2. TypeWindow'
  BY DEF TypeOK, BodyClose, MaxCloses, TypeWindow, windowVars
<1>3. TypePipe'
  BY DEF TypeOK, BodyClose, MaxCloses, TypePipe
<1>4. TypeStream'
  BY DEF TypeOK, BodyClose, MaxCloses, TypeStream
<1>5. TypeBody'
  BY DEF TypeOK, BodyClose, MaxCloses, TypeBody
<1>6. TypeServer'
  BY DEF TypeOK, BodyClose, MaxCloses, TypeServer, serverVars
<1>7. fault' \in {"none", "flowControl", "panic"}
  BY DEF TypeOK, BodyClose, MaxCloses
<1> QED BY <1>1, <1>2, <1>3, <1>4, <1>5, <1>6, <1>7 DEF TypeOK

(* DeliverConnUpdate keeps the type invariant.                             *)
LEMMA DeliverConnUpdateType ==
    ASSUME TypeOK, DeliverConnUpdate
    PROVE  TypeOK'
<1>1. TypeConn'
  BY DEF TypeOK, DeliverConnUpdate, TypeConn
<1>2. TypeWindow'
  BY DEF TypeOK, DeliverConnUpdate, TypeWindow, windowVars
<1>3. TypePipe'
  BY DEF TypeOK, DeliverConnUpdate, TypePipe, pipeVars
<1>4. TypeStream'
  BY DEF TypeOK, DeliverConnUpdate, TypeStream, streamVars
<1>5. TypeBody'
  BY DEF TypeOK, DeliverConnUpdate, TypeBody, bodyVars
<1>6. TypeServer'
  BY DEF TypeOK, DeliverConnUpdate, TypeServer, serverVars
<1>7. fault' \in {"none", "flowControl", "panic"}
  BY DEF TypeOK, DeliverConnUpdate
<1> QED BY <1>1, <1>2, <1>3, <1>4, <1>5, <1>6, <1>7 DEF TypeOK

(* DeliverStreamUpdate keeps the type invariant.                           *)
LEMMA DeliverStreamUpdateType ==
    ASSUME TypeOK, NEW s \in Streams, DeliverStreamUpdate(s)
    PROVE  TypeOK'
<1>1. TypeConn'
  BY DEF TypeOK, DeliverStreamUpdate, TypeConn, connVars
<1>2. TypeWindow'
  BY DEF TypeOK, DeliverStreamUpdate, TypeWindow
<1>3. TypePipe'
  BY DEF TypeOK, DeliverStreamUpdate, TypePipe, pipeVars
<1>4. TypeStream'
  BY DEF TypeOK, DeliverStreamUpdate, TypeStream, streamVars
<1>5. TypeBody'
  BY DEF TypeOK, DeliverStreamUpdate, TypeBody, bodyVars
<1>6. TypeServer'
  BY DEF TypeOK, DeliverStreamUpdate, TypeServer, serverVars
<1>7. fault' \in {"none", "flowControl", "panic"}
  BY DEF TypeOK, DeliverStreamUpdate
<1> QED BY <1>1, <1>2, <1>3, <1>4, <1>5, <1>6, <1>7 DEF TypeOK

(* The server's half of a DATA frame, common to all branches.              *)
LEMMA ServerSendsFacts ==
    ASSUME TypeOK, NEW s \in Streams, NEW n \in FrameData, NEW pad \in FramePads,
           NEW ends \in BOOLEAN, ServerSends(s, n, pad, ends)
    PROVE  /\ n \in Nat /\ pad \in Nat /\ n + pad \in Nat
           /\ peerConn' \in Nat /\ peerConn' = peerConn - (n + pad)
           /\ peerStream' \in [Streams -> Nat]
           /\ peerStream' = [peerStream EXCEPT ![s] = @ - (n + pad)]
           /\ n + pad <= peerConn /\ n + pad <= peerStream[s]
           /\ stage[s] # "idle"
           /\ TypeServer'
<1>1. n \in Nat /\ pad \in Nat
  BY BoundsAssumption
<1>2. toSend[s] - n \in Nat /\ peerConn - (n + pad) \in Nat /\ peerStream[s] - (n + pad) \in Nat
  BY <1>1 DEF TypeOK, TypeServer, TypeConn, TypeWindow, ServerSends
<1>3. TypeServer'
  BY <1>2 DEF TypeOK, TypeServer, ServerSends
<1>4. stage[s] # "idle"
  BY DEF ServerSends
<1> QED BY <1>1, <1>2, <1>3, <1>4 DEF TypeOK, TypeConn, TypeWindow, ServerSends

(* Types after cc.inflow.add and cs.inflow.add.                            *)
LEMMA ConnAddType ==
    ASSUME TypeConn, NEW a \in Nat, NEW m \in Nat, ConnAdd(a, m)
    PROVE  connAvail' \in Nat /\ connUnsent' \in Nat /\ wuConn' \in Nat
<1>1. AddAvail(a, connUnsent, m) \in Nat /\ AddUnsent(a, connUnsent, m) \in Nat
      /\ AddSends(a, connUnsent, m) \in Nat
  BY AddFacts DEF TypeConn
<1> QED BY <1>1 DEF ConnAdd, TypeConn

(* StreamAdd keeps the type invariant.                                     *)
LEMMA StreamAddType ==
    ASSUME TypeWindow, NEW s \in Streams, NEW a \in Nat, NEW m \in Nat, StreamAdd(s, a, m)
    PROVE  avail' \in [Streams -> Nat] /\ unsent' \in [Streams -> Nat]
           /\ wuStream' \in [Streams -> Nat]
<1>1. AddAvail(a, unsent[s], m) \in Nat /\ AddUnsent(a, unsent[s], m) \in Nat
      /\ AddSends(a, unsent[s], m) \in Nat
  BY AddFacts DEF TypeWindow
<1> QED BY <1>1 DEF StreamAdd, TypeWindow

(* RecvData keeps the type invariant.                                      *)
LEMMA RecvDataType ==
    ASSUME TypeOK, NEW s \in Streams, NEW n \in FrameData, NEW pad \in FramePads,
           NEW ends \in BOOLEAN, RecvData(s, n, pad, ends)
    PROVE  TypeOK'
<1> DEFINE len == n + pad
<1>1. /\ n \in Nat /\ len \in Nat /\ len - n \in Nat
      /\ peerConn' \in Nat /\ peerStream' \in [Streams -> Nat] /\ TypeServer'
  BY ServerSendsFacts, BoundsAssumption DEF RecvData
<1>2. TypeBody'
  BY DEF TypeOK, RecvData, TypeBody, bodyVars
<1>3. CASE DataIgnored(s, len)
  <2>1. len <= connAvail => connAvail - len \in Nat
    BY <1>1 DEF TypeOK, TypeConn
  <2>2. connAvail \in Nat
    BY DEF TypeOK, TypeConn
  <2>3. TypeConn'
    <3>1. CASE len # 0 /\ len > connAvail
      <4>1. /\ AddAvail(connAvail, connUnsent, len) \in Nat
            /\ AddUnsent(connAvail, connUnsent, len) \in Nat
        BY <1>1, <2>2, AddFacts DEF TypeOK, TypeConn
      <4> QED BY <1>1, <1>3, <3>1, <4>1 DEF TypeOK, DataIgnored, TypeConn
    <3>2. CASE len = 0 \/ len <= connAvail
      BY <1>1, <1>3, <2>1, <2>2, <3>2, ConnAddType DEF TypeOK, DataIgnored, TypeConn
    <3> QED BY <1>1, <2>2, <3>1, <3>2
  <2>4. TypeWindow' /\ TypePipe' /\ TypeStream'
    BY <1>1, <1>3 DEF TypeOK, RecvData, DataIgnored, TypeWindow, TypePipe, pipeVars, TypeStream
  <2>5. fault' \in {"none", "flowControl", "panic"}
    BY <1>3 DEF TypeOK, DataIgnored, FaultIf
  <2> QED BY <1>1, <1>2, <2>3, <2>4, <2>5 DEF TypeOK
<1>4. CASE DataMisplaced(s, n)
  <2>1. TypeConn' /\ TypeWindow' /\ TypePipe'
    BY <1>1, <1>4 DEF TypeOK, DataMisplaced, TypeConn, TypeWindow, TypePipe, pipeVars
  <2>2. TypeStream' /\ fault' \in {"none", "flowControl", "panic"}
    BY <1>4 DEF TypeOK, RecvData, DataMisplaced, EndStreamError, TypeStream
  <2> QED BY <1>1, <1>2, <2>1, <2>2 DEF TypeOK
<1>5. CASE DataOverWindow(s, n, len)
  <2>1. TypeConn' /\ TypeWindow' /\ TypePipe'
    BY <1>1, <1>5 DEF TypeOK, DataOverWindow, TypeConn, TypeWindow, TypePipe, pipeVars
  <2>2. TypeStream' /\ fault' \in {"none", "flowControl", "panic"}
    BY <1>5 DEF TypeOK, RecvData, DataOverWindow, TypeStream
  <2> QED BY <1>1, <1>2, <2>1, <2>2 DEF TypeOK
<1>6. CASE DataTaken(s, n, len, ends)
  <2>1. connAvail - len \in Nat /\ avail[s] - len \in Nat
    BY <1>1, <1>6 DEF TypeOK, TypeConn, TypeWindow, DataTaken
  <2>2. TypeConn'
    BY <1>1, <1>6, <2>1, ConnAddType DEF TypeOK, DataTaken, TypeConn
  <2>3. TypeWindow'
    BY <1>1, <1>6, <2>1, StreamAddType DEF TypeOK, DataTaken, TypeWindow
  <2>4. TypePipe'
    BY <1>1, <1>6 DEF TypeOK, DataTaken, TypePipe, EndStream, PipeClose
  <2>5. TypeStream' /\ fault' \in {"none", "flowControl", "panic"}
    BY <1>6 DEF TypeOK, RecvData, DataTaken, TypeStream, EndStream, FaultIf
  <2> QED BY <1>1, <1>2, <2>2, <2>3, <2>4, <2>5 DEF TypeOK
<1>7. CASE DataRefused(s, n, len)
  <2>1. connAvail - len \in Nat /\ avail[s] - len \in Nat
    BY <1>1, <1>7 DEF TypeOK, TypeConn, TypeWindow, DataRefused
  <2>2. TypeConn'
    BY <1>1, <1>7, <2>1, ConnAddType DEF TypeOK, DataRefused, TypeConn
  <2>3. TypeWindow'
    BY <1>1, <1>7, <2>1 DEF TypeOK, DataRefused, TypeWindow
  <2>4. TypePipe'
    BY <1>7 DEF TypeOK, DataRefused, TypePipe, pipeVars
  <2>5. TypeStream' /\ fault' \in {"none", "flowControl", "panic"}
    BY <1>7 DEF TypeOK, RecvData, DataRefused, TypeStream, EndStreamError, FaultIf
  <2> QED BY <1>1, <1>2, <2>2, <2>3, <2>4, <2>5 DEF TypeOK
<1> QED BY <1>3, <1>4, <1>5, <1>6, <1>7 DEF RecvData

(* BodyCredit keeps the type invariant.                                    *)
LEMMA BodyCreditType ==
    ASSUME TypeOK, NEW s \in Streams, BodyCredit(s)
    PROVE  TypeOK'
<1>1. inHand[s] \in Nat /\ connAvail \in Nat /\ avail[s] \in Nat
  BY DEF TypeOK, TypeBody, TypeConn, TypeWindow
<1>2. TypeConn'
  BY <1>1, ConnAddType DEF TypeOK, BodyCredit, TypeConn
<1>3. TypeWindow'
  BY <1>1, StreamAddType DEF TypeOK, BodyCredit, TypeWindow
<1>4. TypePipe' /\ TypeStream' /\ TypeServer'
  BY DEF TypeOK, BodyCredit, TypePipe, TypeStream, TypeServer, pipeVars, streamVars, serverVars
<1>5. TypeBody'
  BY DEF TypeOK, BodyCredit, TypeBody
<1>6. fault' \in {"none", "flowControl", "panic"}
  BY DEF TypeOK, BodyCredit, FaultIf
<1> QED BY <1>2, <1>3, <1>4, <1>5, <1>6 DEF TypeOK

(* BodyRefund keeps the type invariant.                                    *)
LEMMA BodyRefundType ==
    ASSUME TypeOK, NEW s \in Streams, BodyRefund(s)
    PROVE  TypeOK'
<1>1. unread[s] \in Nat /\ connAvail \in Nat
  BY DEF TypeOK, TypePipe, TypeConn
<1>2. TypeConn'
  BY <1>1, ConnAddType DEF TypeOK, BodyRefund, TypeConn
<1>3. TypeWindow' /\ TypePipe'
  BY DEF TypeOK, BodyRefund, TypeWindow, TypePipe, windowVars, pipeVars
<1>4. TypeStream' /\ TypeServer'
  BY DEF TypeOK, BodyRefund, TypeStream, TypeServer, streamVars, serverVars
<1>5. TypeBody'
  BY DEF TypeOK, BodyRefund, TypeBody
<1>6. fault' \in {"none", "flowControl", "panic"}
  BY DEF TypeOK, BodyRefund, FaultIf
<1> QED BY <1>2, <1>3, <1>4, <1>5, <1>6 DEF TypeOK

(* So does a stuttering step.                                              *)
LEMMA StutterType == ASSUME TypeOK, UNCHANGED vars PROVE TypeOK'
<1>1. TypeConn' /\ TypeWindow' /\ TypePipe'
  BY DEF TypeOK, TypeConn, TypeWindow, TypePipe, vars, connVars, windowVars, pipeVars
<1>2. TypeStream' /\ TypeBody' /\ TypeServer'
  BY DEF TypeOK, TypeStream, TypeBody, TypeServer, vars, streamVars, bodyVars, serverVars
<1> QED BY <1>1, <1>2 DEF TypeOK, vars

(* Every step keeps the type invariant.                                    *)
LEMMA NextType == ASSUME TypeOK, [Next]_vars PROVE TypeOK'
<1>1. CASE DeliverConnUpdate
  BY <1>1, DeliverConnUpdateType
<1>2. ASSUME NEW s \in Streams, StreamStep(s) PROVE TypeOK'
  <2>1. ASSUME NEW cl \in Declared(s), RecvHeaders(s, cl) PROVE TypeOK'
    BY <2>1, RecvHeadersType
  <2>2. ASSUME NEW n \in FrameData, NEW pad \in FramePads, NEW ends \in BOOLEAN,
               RecvData(s, n, pad, ends)
        PROVE  TypeOK'
    BY <2>2, RecvDataType
  <2>3. ASSUME NEW n \in 1 .. buf[s], BodyRead(s, n) PROVE TypeOK'
    BY <2>3, BodyReadType
  <2>4. CASE \/ Open(s) \/ RecvMalformed(s) \/ RecvTrailers(s) \/ RecvRst(s) \/ Cancel(s)
             \/ DeliverStreamUpdate(s)
    BY <2>4, OpenType, RecvMalformedType, RecvTrailersType, RecvRstType, CancelType,
        DeliverStreamUpdateType
  <2>5. CASE CallerGetsResponse(s) \/ CallerGivesUp(s) \/ CallerAborted(s)
    BY <2>5, CallerGetsResponseType, CallerGivesUpType, CallerAbortedType
  <2>6. CASE CleanupClosePipe(s) \/ CleanupForget(s)
    BY <2>6, CleanupClosePipeType, CleanupForgetType
  <2>7. CASE BodyCredit(s) \/ BodyEnds(s)
    BY <2>7, BodyCreditType, BodyEndsType
  <2>8. CASE BodyClose(s) \/ BodyRefund(s) \/ CloseReturns(s)
    BY <2>8, BodyCloseType, BodyRefundType, CloseReturnsType
  <2> QED BY <1>2, <2>1, <2>2, <2>3, <2>4, <2>5, <2>6, <2>7, <2>8 DEF StreamStep
<1>3. CASE UNCHANGED vars
  BY <1>3, StutterType
<1> QED BY <1>1, <1>2, <1>3 DEF Next

(* The type invariant holds of every behaviour: in particular no window    *)
(* and no byte count of flow.go or pipe.go ever goes below zero.           *)
THEOREM TypeCorrect == Spec => []TypeOK
<1>1. Init => TypeOK
  BY InitTypeOK
<1>2. TypeOK /\ [Next]_vars => TypeOK'
  BY NextType
<1> QED BY <1>1, <1>2, PTL DEF Spec

-----------------------------------------------------------------------------
(* The inductive invariant.  On top of WindowsAgree: streams not opened    *)
(* yet are clean, and the window of a live stream is split between avail,  *)
(* unsent and the bytes its reader has not consumed, where consumed bytes  *)
(* are never saved up beyond add's thresholds.                             *)
StreamAccount ==
    \A s \in Streams : Visible(s) /\ s \notin aborted =>
        /\ avail[s] + unsent[s] + buf[s] + inHand[s] = EnforcedStream
        /\ buf[s] = 0 /\ inHand[s] = 0 =>
                \/ unsent[s] = 0
                \/ unsent[s] < MinRefresh /\ unsent[s] < avail[s]

FlowInv == TypeOK /\ IdleIsClean /\ WindowsAgree /\ StreamAccount

(* The initial state satisfies the flow invariant.                         *)
LEMMA InitFlowInv == Init => FlowInv
<1> SUFFICES ASSUME Init PROVE FlowInv
  OBVIOUS
<1>1. TypeOK
  BY InitTypeOK
<1>2. IdleIsClean
  BY DEF Init, IdleIsClean
<1>3. WindowsAgree /\ StreamAccount
  BY WindowTypes DEF Init, WindowsAgree, StreamAccount, Visible, InStreams
<1> QED BY <1>1, <1>2, <1>3 DEF FlowInv

(* Steps that move no bytes: the windows and the buffers stay, no stream   *)
(* comes back to life and none is un-aborted.                              *)
Quiet ==
    /\ UNCHANGED <<connVars, windowVars, buf, inHand, fault>>
    /\ \A s \in Streams :
        /\ Visible(s)' => Visible(s)
        /\ s \in aborted => s \in aborted'
        /\ phase'[s] = "idle" => phase[s] = "idle" /\ stage'[s] = stage[s]

(* A step that moves no byte and no credit keeps the invariant.            *)
LEMMA QuietKeepsFlowInv ==
    ASSUME FlowInv, Quiet, TypeOK'
    PROVE  FlowInv'
<1>1. IdleIsClean'
  BY DEF FlowInv, Quiet, IdleIsClean, windowVars
<1>2. WindowsAgree'
  BY DEF FlowInv, Quiet, WindowsAgree, Running, connVars, windowVars
<1>3. StreamAccount'
  BY DEF FlowInv, Quiet, StreamAccount, windowVars
<1> QED BY <1>1, <1>2, <1>3 DEF FlowInv

(* The caller's steps outside Read and Close move no byte.                 *)
LEMMA QuietCaller ==
    ASSUME FlowInv, NEW s \in Streams,
           \/ Cancel(s) \/ CallerGetsResponse(s) \/ CallerGivesUp(s) \/ CallerAborted(s)
           \/ CloseReturns(s) \/ BodyEnds(s)
    PROVE  Quiet
<1>1. CASE Cancel(s)
  BY <1>1 DEF Cancel, Quiet, Visible, InStreams, pipeVars, bodyVars, serverVars
<1>2. CASE CallerGetsResponse(s)
  BY <1>2 DEF CallerGetsResponse, Quiet, Visible, InStreams, pipeVars, streamVars, serverVars
<1>3. CASE CallerGivesUp(s)
  BY <1>3 DEF CallerGivesUp, Quiet, Visible, InStreams, pipeVars, serverVars
<1>4. CASE CallerAborted(s)
  BY <1>4 DEF CallerAborted, Quiet, Visible, InStreams, pipeVars, streamVars, serverVars
<1>5. CASE CloseReturns(s)
  BY <1>5 DEF CloseReturns, Quiet, Visible, InStreams, pipeVars, streamVars, serverVars
<1>6. CASE BodyEnds(s)
  BY <1>6 DEF BodyEnds, Quiet, Visible, InStreams, streamVars, serverVars
<1> QED BY <1>1, <1>2, <1>3, <1>4, <1>5, <1>6

(* HEADERS, RST_STREAM and the cleanup move no byte.                       *)
LEMMA QuietReadLoop ==
    ASSUME FlowInv, NEW s \in Streams,
           \/ \E cl \in Declared(s) : RecvHeaders(s, cl)
           \/ RecvMalformed(s) \/ RecvTrailers(s)
           \/ RecvRst(s) \/ CleanupClosePipe(s) \/ CleanupForget(s)
    PROVE  Quiet
<1> USE DEF FlowInv, TypeOK
<1>1. ASSUME NEW cl \in Declared(s), RecvHeaders(s, cl) PROVE Quiet
  BY <1>1 DEF RecvHeaders, Quiet, Visible, InStreams, TypeServer, IdleIsClean
<1>2. CASE RecvRst(s)
  BY <1>2 DEF RecvRst, Quiet, Visible, InStreams, TypeServer, IdleIsClean, bodyVars
<1>3. CASE CleanupClosePipe(s)
  BY <1>3 DEF CleanupClosePipe, Quiet, Visible, InStreams, TypeStream, bodyVars, serverVars
<1>4. CASE CleanupForget(s)
  BY <1>4 DEF CleanupForget, Quiet, Visible, InStreams, TypeStream, pipeVars, bodyVars, serverVars
<1>5. CASE RecvMalformed(s)
  BY <1>5 DEF RecvMalformed, Quiet, Visible, InStreams, EndStreamError, TypeServer, IdleIsClean, pipeVars, bodyVars
<1>6. CASE RecvTrailers(s)
  BY <1>6 DEF RecvTrailers, Quiet, Visible, InStreams, EndStreamError, TypeServer, IdleIsClean, bodyVars
<1> QED BY <1>1, <1>2, <1>3, <1>4, <1>5, <1>6

(* Neither does a stuttering step.                                         *)
LEMMA StutterQuiet == ASSUME UNCHANGED vars PROVE Quiet
BY DEF vars, connVars, windowVars, pipeVars, streamVars, bodyVars, serverVars, Quiet,
       Visible, InStreams

-----------------------------------------------------------------------------
(* Steps that move bytes.                                                  *)

(* A new stream starts with the whole window in avail.                     *)
LEMMA OpenFlow ==
    ASSUME FlowInv, TypeOK', NEW s \in Streams, Open(s)
    PROVE  FlowInv'
<1> USE DEF FlowInv, TypeOK, Running
<1>1. IdleIsClean'
  BY DEF Open, IdleIsClean, pipeVars, bodyVars, TypeStream, TypeServer
<1>2. WindowsAgree'
  BY WindowTypes DEF Open, WindowsAgree, Visible, InStreams, IdleIsClean, connVars,
                     TypeStream, TypeWindow
<1>3. StreamAccount'
  BY WindowTypes DEF Open, StreamAccount, Visible, InStreams, IdleIsClean, pipeVars,
                     bodyVars, TypeStream, TypeWindow
<1> QED BY <1>1, <1>2, <1>3

(* A connection WINDOW_UPDATE moves from the wire to the server.           *)
LEMMA DeliverConnFlow ==
    ASSUME FlowInv, TypeOK', DeliverConnUpdate
    PROVE  FlowInv'
<1> USE DEF FlowInv, TypeOK, Running
<1>1. IdleIsClean' /\ StreamAccount'
  BY DEF DeliverConnUpdate, IdleIsClean, StreamAccount, Visible, InStreams, windowVars,
         pipeVars, streamVars, bodyVars, serverVars
<1>2. WindowsAgree'
  BY WindowTypes DEF DeliverConnUpdate, WindowsAgree, Visible, InStreams, windowVars,
                     streamVars, TypeConn
<1> QED BY <1>1, <1>2

(* A stream WINDOW_UPDATE moves from the wire to the server.               *)
LEMMA DeliverStreamFlow ==
    ASSUME FlowInv, TypeOK', NEW s \in Streams, DeliverStreamUpdate(s)
    PROVE  FlowInv'
<1> USE DEF FlowInv, TypeOK, Running
<1>1. IdleIsClean' /\ StreamAccount'
  BY DEF DeliverStreamUpdate, IdleIsClean, StreamAccount, Visible, InStreams,
         pipeVars, streamVars, bodyVars, serverVars, TypeWindow
<1>2. WindowsAgree'
  BY WindowTypes DEF DeliverStreamUpdate, WindowsAgree, Visible, InStreams, connVars,
                     streamVars, TypeWindow
<1> QED BY <1>1, <1>2

(* Any cc.inflow.add keeps the connection's part of WindowsAgree.          *)
LEMMA ConnAddAgrees ==
    ASSUME TypeConn, NEW k \in Nat, NEW m \in Nat, k <= connAvail,
           ConnAdd(connAvail - k, m), peerConn' = peerConn - k,
           peerConn + wuConn - AdvertisedConn <= connAvail - EnforcedConn
    PROVE  peerConn' + wuConn' - AdvertisedConn <= connAvail' - EnforcedConn
<1> DEFINE sent == AddSends(connAvail - k, connUnsent, m)
<1>1. connAvail - k \in Nat
  BY DEF TypeConn
<1>2. sent \in Nat /\ connAvail' = connAvail - k + sent /\ wuConn' = wuConn + sent
  BY <1>1, AddFacts DEF TypeConn, ConnAdd
<1> HIDE DEF sent
<1> QED BY <1>2, WindowTypes DEF TypeConn

(* Any cs.inflow.add moves the same amount into avail and onto the wire,   *)
(* and leaves the credit settled.                                          *)
LEMMA StreamAddAgrees ==
    ASSUME TypeWindow, NEW s \in Streams, NEW k \in Nat, NEW m \in Nat, k <= avail[s],
           StreamAdd(s, avail[s] - k, m)
    PROVE  /\ avail'[s] - wuStream'[s] = avail[s] - k - wuStream[s]
           /\ avail'[s] + unsent'[s] = avail[s] - k + unsent[s] + m
           /\ \/ unsent'[s] = 0
              \/ unsent'[s] < MinRefresh /\ unsent'[s] < avail'[s]
           /\ \A r \in Streams \ {s} :
                /\ avail'[r] = avail[r] /\ unsent'[r] = unsent[r]
                /\ wuStream'[r] = wuStream[r]
<1>1. avail[s] - k \in Nat /\ unsent[s] \in Nat /\ avail[s] \in Nat /\ wuStream[s] \in Nat
  BY DEF TypeWindow
<1>2. PICK a \in Nat, u \in Nat : a = avail[s] - k /\ u = unsent[s]
  BY <1>1
<1>3. /\ avail'[s] = AddAvail(a, u, m) /\ unsent'[s] = AddUnsent(a, u, m)
      /\ wuStream'[s] = wuStream[s] + AddSends(a, u, m)
  BY <1>2 DEF StreamAdd, TypeWindow
<1>4. /\ AddSends(a, u, m) \in Nat
      /\ AddAvail(a, u, m) \in Nat
      /\ AddUnsent(a, u, m) \in Nat
      /\ AddAvail(a, u, m) = a + AddSends(a, u, m)
      /\ AddAvail(a, u, m) + AddUnsent(a, u, m) = a + u + m
      /\ \/ AddUnsent(a, u, m) = 0
         \/ /\ AddUnsent(a, u, m) < MinRefresh
            /\ AddUnsent(a, u, m) < AddAvail(a, u, m)
  BY ONLY AddFacts, a \in Nat, u \in Nat, m \in Nat
<1>5. \A r \in Streams \ {s} :
          avail'[r] = avail[r] /\ unsent'[r] = unsent[r] /\ wuStream'[r] = wuStream[r]
  BY DEF StreamAdd, TypeWindow
<1> QED BY <1>1, <1>2, <1>3, <1>4, <1>5

(* Read moves bytes from the pipe to the reader's hand.                    *)
LEMMA BodyReadFlow ==
    ASSUME FlowInv, TypeOK', NEW s \in Streams, NEW n \in 1 .. buf[s], BodyRead(s, n)
    PROVE  FlowInv'
<1> USE DEF FlowInv, TypeOK, Running
<1>1. buf[s] \in Nat /\ n \in Nat /\ n > 0 /\ inHand[s] = 0 /\ phase[s] # "idle"
  BY DEF TypePipe, BodyRead, IdleIsClean
<1>2. IdleIsClean'
  BY <1>1 DEF BodyRead, IdleIsClean, TypePipe, TypeBody, serverVars, windowVars
<1>3. WindowsAgree'
  BY DEF BodyRead, WindowsAgree, Visible, InStreams, connVars, windowVars
<1>4. StreamAccount'
  <2> SUFFICES ASSUME NEW r \in Streams, Visible(r)', r \notin aborted'
               PROVE  /\ avail'[r] + unsent'[r] + buf'[r] + inHand'[r] = EnforcedStream
                      /\ buf'[r] = 0 /\ inHand'[r] = 0 =>
                            \/ unsent'[r] = 0
                            \/ unsent'[r] < MinRefresh /\ unsent'[r] < avail'[r]
    BY DEF StreamAccount
  <2>1. Visible(r) /\ r \notin aborted
    BY DEF BodyRead, Visible, InStreams
  <2>2. avail'[r] = avail[r] /\ unsent'[r] = unsent[r] /\ avail[r] \in Nat /\ unsent[r] \in Nat
    BY DEF BodyRead, windowVars, TypeWindow
  <2>3. CASE r = s
    BY <1>1, <2>1, <2>2, <2>3 DEF BodyRead, StreamAccount, TypePipe, TypeBody
  <2>4. CASE r # s
    BY <2>1, <2>2, <2>4 DEF BodyRead, StreamAccount, TypePipe, TypeBody
  <2> QED BY <2>3, <2>4
<1> QED BY <1>2, <1>3, <1>4

(* Crediting consumed bytes keeps both windows accounted for.              *)
LEMMA BodyCreditFlow ==
    ASSUME FlowInv, TypeOK', NEW s \in Streams, BodyCredit(s)
    PROVE  FlowInv'
<1> USE DEF FlowInv, TypeOK, Running
<1>1. inHand[s] \in Nat /\ inHand[s] > 0 /\ phase[s] # "idle" /\ fault = "none"
      /\ connAvail \in Nat /\ avail[s] \in Nat /\ peerConn \in Nat
  BY DEF TypeBody, BodyCredit, IdleIsClean, TypeConn, TypeWindow
<1>2. ConnAdd(connAvail - 0, inHand[s]) /\ StreamAdd(s, avail[s] - 0, inHand[s])
      /\ peerConn' = peerConn - 0
  BY <1>1 DEF BodyCredit
<1>3. IdleIsClean'
  BY <1>1 DEF BodyCredit, StreamAdd, IdleIsClean, TypeWindow, TypeBody, pipeVars,
              streamVars, serverVars
<1>4. peerConn' + wuConn' - AdvertisedConn <= connAvail' - EnforcedConn
  BY <1>1, <1>2, ConnAddAgrees DEF WindowsAgree
<1>5. /\ avail'[s] - wuStream'[s] = avail[s] - 0 - wuStream[s]
      /\ avail'[s] + unsent'[s] = avail[s] - 0 + unsent[s] + inHand[s]
      /\ unsent'[s] = 0 \/ (unsent'[s] < MinRefresh /\ unsent'[s] < avail'[s])
      /\ \A r \in Streams \ {s} :
            avail'[r] = avail[r] /\ unsent'[r] = unsent[r] /\ wuStream'[r] = wuStream[r]
  BY <1>1, <1>2, StreamAddAgrees
<1>6. \A r \in Streams : Visible(r)' = Visible(r) /\ (r \in aborted' <=> r \in aborted)
                         /\ peerStream'[r] = peerStream[r] /\ buf'[r] = buf[r]
  BY DEF BodyCredit, Visible, InStreams, streamVars, pipeVars
<1>7. inHand'[s] = 0 /\ \A r \in Streams \ {s} : inHand'[r] = inHand[r]
  BY DEF BodyCredit, TypeBody
<1>8. WindowsAgree'
  <2> SUFFICES ASSUME NEW r \in Streams, Visible(r)
               PROVE  peerStream'[r] + wuStream'[r] - AdvertisedStream
                        = avail'[r] - EnforcedStream
    BY <1>4, <1>6 DEF WindowsAgree
  <2>1. peerStream[r] + wuStream[r] - AdvertisedStream = avail[r] - EnforcedStream
    BY <1>1 DEF WindowsAgree
  <2>2. /\ avail[r] \in Nat /\ wuStream[r] \in Nat /\ peerStream[r] \in Nat
        /\ avail'[r] \in Nat /\ wuStream'[r] \in Nat /\ peerStream'[r] = peerStream[r]
    BY <1>6 DEF TypeWindow
  <2>3. avail'[r] - wuStream'[r] = avail[r] - wuStream[r]
    BY <1>5, <2>2
  <2> QED BY ONLY <2>1, <2>2, <2>3, WindowTypes
<1>9. StreamAccount'
  BY <1>1, <1>5, <1>6, <1>7, WindowTypes DEF StreamAccount, TypeWindow, TypePipe, TypeBody
<1> QED BY <1>3, <1>8, <1>9

(* Close drops a pipe whose stream is aborted by the same step.            *)
LEMMA BodyCloseFlow ==
    ASSUME FlowInv, TypeOK', NEW s \in Streams, BodyClose(s)
    PROVE  FlowInv'
<1> USE DEF FlowInv, TypeOK, Running
<1>1. IdleIsClean'
  BY DEF BodyClose, IdleIsClean, TypePipe, windowVars, serverVars
<1>2. WindowsAgree'
  BY DEF BodyClose, WindowsAgree, Visible, InStreams, connVars, windowVars
<1>3. StreamAccount'
  BY DEF BodyClose, StreamAccount, Visible, InStreams, windowVars, TypePipe
<1> QED BY <1>1, <1>2, <1>3

(* Close's refund of unread bytes reaches the connection window.           *)
LEMMA BodyRefundFlow ==
    ASSUME FlowInv, TypeOK', NEW s \in Streams, BodyRefund(s)
    PROVE  FlowInv'
<1> USE DEF FlowInv, TypeOK, Running
<1>1. IdleIsClean' /\ StreamAccount'
  BY DEF BodyRefund, IdleIsClean, StreamAccount, Visible, InStreams, windowVars,
         pipeVars, streamVars, serverVars
<1>2. unread[s] \in Nat /\ connAvail \in Nat /\ peerConn \in Nat
  BY DEF TypePipe, TypeConn
<1>3. peerConn' = peerConn /\ peerConn - 0 = peerConn /\ connAvail - 0 = connAvail
  BY <1>2 DEF BodyRefund
<1>4. peerConn' + wuConn' - AdvertisedConn <= connAvail' - EnforcedConn
  <2>1. CASE unread[s] > 0
    <3>1. ConnAdd(connAvail - 0, unread[s])
      BY <1>3, <2>1 DEF BodyRefund
    <3> QED BY <1>2, <1>3, <3>1, ConnAddAgrees DEF WindowsAgree
  <2>2. CASE ~(unread[s] > 0)
    BY <1>3, <2>2 DEF BodyRefund, WindowsAgree
  <2> QED BY <2>1, <2>2
<1>5. WindowsAgree'
  BY <1>4 DEF BodyRefund, WindowsAgree, Visible, InStreams, windowVars, streamVars
<1> QED BY <1>1, <1>5

(* What the branches of processData have in common: the server's windows   *)
(* shrink by the frame, no other stream is concerned.                      *)
LEMMA RecvDataFrame ==
    ASSUME FlowInv, NEW s \in Streams, NEW n \in FrameData, NEW pad \in FramePads,
           NEW ends \in BOOLEAN, RecvData(s, n, pad, ends)
    PROVE  /\ n \in Nat /\ pad \in Nat /\ n + pad \in Nat
           /\ peerConn' = peerConn - (n + pad)
           /\ n + pad <= peerConn /\ n + pad <= peerStream[s]
           /\ peerStream'[s] = peerStream[s] - (n + pad)
           /\ \A r \in Streams \ {s} : peerStream'[r] = peerStream[r]
           /\ phase[s] # "idle"
           /\ \A r \in Streams : phase'[r] = phase[r] /\ inHand'[r] = inHand[r]
           /\ \A r \in Streams \ {s} : stage'[r] = stage[r]
<1> USE DEF FlowInv, TypeOK, Running
<1>1. ServerSends(s, n, pad, ends)
  BY DEF RecvData
<1>2. /\ n \in Nat /\ pad \in Nat /\ n + pad \in Nat
      /\ peerConn' = peerConn - (n + pad)
      /\ n + pad <= peerConn /\ n + pad <= peerStream[s]
      /\ peerStream' = [peerStream EXCEPT ![s] = @ - (n + pad)]
      /\ stage[s] # "idle"
  BY <1>1, ServerSendsFacts
<1>3. phase[s] # "idle"
  BY <1>2 DEF IdleIsClean
<1>4. \A r \in Streams : phase'[r] = phase[r] /\ inHand'[r] = inHand[r]
  BY DEF RecvData, bodyVars
<1>5. \A r \in Streams \ {s} : stage'[r] = stage[r]
  BY <1>1 DEF ServerSends, TypeServer
<1> QED BY <1>2, <1>3, <1>4, <1>5 DEF TypeWindow

(* processData keeps the invariant, branch by branch.                      *)
LEMMA RecvDataFlow ==
    ASSUME FlowInv, TypeOK', NEW s \in Streams, NEW n \in FrameData, NEW pad \in FramePads,
           NEW ends \in BOOLEAN, RecvData(s, n, pad, ends)
    PROVE  FlowInv'
<1> DEFINE len == n + pad
<1> USE DEF FlowInv, TypeOK, Running
<1>1. /\ n \in Nat /\ pad \in Nat /\ len \in Nat /\ len - n \in Nat
      /\ peerConn' = peerConn - len
      /\ len <= peerConn /\ len <= peerStream[s]
      /\ peerStream'[s] = peerStream[s] - len
      /\ \A r \in Streams \ {s} : peerStream'[r] = peerStream[r]
      /\ phase[s] # "idle" /\ fault = "none"
      /\ \A r \in Streams : phase'[r] = phase[r] /\ inHand'[r] = inHand[r]
      /\ \A r \in Streams \ {s} : stage'[r] = stage[r]
  BY RecvDataFrame DEF RecvData
<1>0. /\ connAvail \in Nat /\ wuConn \in Nat /\ peerConn \in Nat
      /\ \A r \in Streams : /\ avail[r] \in Nat /\ unsent[r] \in Nat
                            /\ wuStream[r] \in Nat /\ peerStream[r] \in Nat
                            /\ buf[r] \in Nat /\ inHand[r] \in Nat
  BY DEF TypeConn, TypeWindow, TypePipe, TypeBody
<1>2. peerConn + wuConn - AdvertisedConn <= connAvail - EnforcedConn
  BY DEF WindowsAgree
<1> HIDE DEF len
<1>3. CASE DataIgnored(s, len)
  <2>1. ~Visible(s) /\ UNCHANGED <<avail, unsent, wuStream, buf>>
        /\ \A r \in Streams : (Visible(r)' <=> Visible(r)) /\ (r \in aborted' <=> r \in aborted)
    BY <1>1, <1>3 DEF DataIgnored, pipeVars, Visible, InStreams
  <2>2. peerConn' + wuConn' - AdvertisedConn <= connAvail' - EnforcedConn
    <3>1. CASE len = 0
      BY <1>0, <1>1, <1>2, <1>3, <3>1, WindowTypes DEF DataIgnored
    <3>3. CASE len # 0 /\ len > connAvail
      <4>1. /\ AddAvail(connAvail, connUnsent, len) \in Nat
            /\ AddAvail(connAvail, connUnsent, len) >= connAvail
        <5>1. connUnsent \in Nat /\ connAvail \in Nat /\ len \in Nat
          BY <1>1 DEF TypeConn
        <5>2. /\ AddSends(connAvail, connUnsent, len) \in Nat
              /\ AddAvail(connAvail, connUnsent, len) = connAvail + AddSends(connAvail, connUnsent, len)
          BY <5>1, AddFacts
        <5> QED BY <5>1, <5>2
      <4>2. connAvail' = AddAvail(connAvail, connUnsent, len) /\ wuConn' = wuConn
        BY <1>3, <3>3 DEF DataIgnored
      <4> QED BY <1>0, <1>1, <1>2, <4>1, <4>2, WindowTypes
    <3>2. CASE len # 0 /\ len <= connAvail
      BY <1>0, <1>1, <1>2, <1>3, <3>2, ConnAddAgrees DEF DataIgnored
    <3> QED BY <1>0, <1>1, <3>1, <3>2, <3>3
  <2>3. IdleIsClean'
    BY <1>1, <2>1 DEF IdleIsClean
  <2>4. WindowsAgree'
    BY <1>1, <2>1, <2>2 DEF WindowsAgree
  <2>5. StreamAccount'
    BY <1>1, <2>1 DEF StreamAccount
  <2> QED BY <2>3, <2>4, <2>5
<1>4. CASE DataMisplaced(s, n)
  <2>1. /\ UNCHANGED <<connAvail, wuConn, avail, unsent, wuStream, buf>>
        /\ \A r \in Streams \ {s} : (Visible(r)' <=> Visible(r)) /\ (r \in aborted' <=> r \in aborted)
        /\ s \in aborted' /\ ~Visible(s)'
    BY <1>1, <1>4 DEF DataMisplaced, EndStreamError, pipeVars, Visible, InStreams
  <2>2. IdleIsClean'
    BY <1>1, <2>1 DEF IdleIsClean
  <2>3. WindowsAgree'
    BY <1>0, <1>1, <1>2, <2>1, WindowTypes DEF WindowsAgree
  <2>4. StreamAccount'
    BY <1>1, <2>1 DEF StreamAccount
  <2> QED BY <2>2, <2>3, <2>4
<1>5. CASE DataOverWindow(s, n, len)
  <2>1. /\ UNCHANGED <<connAvail, connUnsent, wuConn, avail, unsent, wuStream, buf>>
        /\ \A r \in Streams : (Visible(r)' <=> Visible(r)) /\ (r \in aborted' <=> r \in aborted)
        /\ fault' = "flowControl"
    BY <1>1, <1>5 DEF DataOverWindow, pipeVars, Visible, InStreams
  <2>2. IdleIsClean'
    BY <1>1, <2>1 DEF IdleIsClean
  <2>3. WindowsAgree'
    BY <1>0, <1>1, <1>2, <2>1, WindowTypes DEF WindowsAgree
  <2>4. StreamAccount'
    BY <1>1, <2>1 DEF StreamAccount
  <2> QED BY <2>2, <2>3, <2>4
<1>6. CASE DataTaken(s, n, len, ends)
  <2>1. /\ \A r \in Streams : (Visible(r)' <=> Visible(r)) /\ (r \in aborted' <=> r \in aborted)
        /\ buf'[s] = buf[s] + n /\ \A r \in Streams \ {s} : buf'[r] = buf[r]
        /\ len <= connAvail /\ len <= avail[s] /\ Visible(s)
    BY <1>1, <1>6 DEF DataTaken, Visible, InStreams, TypePipe
  <2>2. /\ peerConn' + wuConn' - AdvertisedConn <= connAvail' - EnforcedConn
        /\ avail'[s] - wuStream'[s] = avail[s] - len - wuStream[s]
        /\ avail'[s] + unsent'[s] = avail[s] - len + unsent[s] + (len - n)
        /\ len # 0 => unsent'[s] = 0 \/ (unsent'[s] < MinRefresh /\ unsent'[s] < avail'[s])
        /\ len = 0 => unsent'[s] = unsent[s] /\ avail'[s] = avail[s]
        /\ \A r \in Streams \ {s} :
              avail'[r] = avail[r] /\ unsent'[r] = unsent[r] /\ wuStream'[r] = wuStream[r]
    <3>1. CASE len = 0
      <4>1. UNCHANGED <<connAvail, wuConn, avail, unsent, wuStream>> /\ n = 0
        BY <1>1, <1>6, <3>1 DEF DataTaken, len
      <4> QED BY <1>0, <1>1, <1>2, <3>1, <4>1, WindowTypes
    <3>2. CASE len # 0
      <4>1. ConnAdd(connAvail - len, len - n) /\ StreamAdd(s, avail[s] - len, len - n)
        BY <1>6, <3>2 DEF DataTaken
      <4>2. peerConn' + wuConn' - AdvertisedConn <= connAvail' - EnforcedConn
        BY <1>1, <1>2, <2>1, <4>1, ConnAddAgrees
      <4> QED BY <1>1, <2>1, <3>2, <4>1, <4>2, StreamAddAgrees
    <3> QED BY <3>1, <3>2
  <2>3. /\ \A r \in Streams : avail'[r] \in Nat /\ unsent'[r] \in Nat /\ wuStream'[r] \in Nat
        /\ len = 0 => n = 0
    BY <1>1 DEF TypeWindow, len
  <2>4. IdleIsClean'
    BY <1>1, <2>1, <2>2 DEF IdleIsClean
  <2>5. WindowsAgree'
    <3> SUFFICES ASSUME NEW r \in Streams, Visible(r)
                 PROVE  peerStream'[r] + wuStream'[r] - AdvertisedStream
                          = avail'[r] - EnforcedStream
      BY <2>1, <2>2 DEF WindowsAgree
    <3>1. peerStream[r] + wuStream[r] - AdvertisedStream = avail[r] - EnforcedStream
      BY <1>1 DEF WindowsAgree
    <3>2. CASE r = s
      BY <1>0, <1>1, <2>2, <2>3, <3>1, <3>2, WindowTypes
    <3>3. CASE r # s
      BY <1>1, <2>2, <3>1, <3>3
    <3> QED BY <3>2, <3>3
  <2>6. StreamAccount'
    BY <1>0, <1>1, <2>1, <2>2, <2>3, WindowTypes DEF StreamAccount
  <2> QED BY <2>4, <2>5, <2>6
<1>7. CASE DataRefused(s, n, len)
  <2>1. /\ s \in aborted' /\ ~Visible(s)' /\ UNCHANGED <<unsent, wuStream, buf>>
        /\ \A r \in Streams \ {s} : /\ Visible(r)' <=> Visible(r)
                                    /\ r \in aborted' <=> r \in aborted
                                    /\ avail'[r] = avail[r]
    BY <1>1, <1>7 DEF DataRefused, EndStreamError, pipeVars, Visible, InStreams, TypeWindow
  <2>2. peerConn' + wuConn' - AdvertisedConn <= connAvail' - EnforcedConn
    BY <1>0, <1>1, <1>2, <1>7, ConnAddAgrees DEF DataRefused
  <2>3. IdleIsClean'
    BY <1>1, <2>1 DEF IdleIsClean
  <2>4. WindowsAgree'
    BY <1>1, <2>1, <2>2 DEF WindowsAgree
  <2>5. StreamAccount'
    BY <1>1, <2>1 DEF StreamAccount
  <2> QED BY <2>3, <2>4, <2>5
<1> QED BY <1>3, <1>4, <1>5, <1>6, <1>7 DEF RecvData, len

-----------------------------------------------------------------------------
(* The flow invariant is inductive.                                        *)
LEMMA NextFlowInv == ASSUME FlowInv, [Next]_vars PROVE FlowInv'
<1>0. TypeOK'
  BY NextType DEF FlowInv
<1>1. CASE DeliverConnUpdate
  BY <1>0, <1>1, DeliverConnFlow
<1>2. ASSUME NEW s \in Streams, StreamStep(s) PROVE FlowInv'
  <2>1. CASE Open(s) \/ DeliverStreamUpdate(s)
    BY <1>0, <2>1, OpenFlow, DeliverStreamFlow
  <2>2. ASSUME NEW n \in FrameData, NEW pad \in FramePads, NEW ends \in BOOLEAN,
               RecvData(s, n, pad, ends)
        PROVE  FlowInv'
    BY <1>0, <2>2, RecvDataFlow
  <2>3. ASSUME NEW n \in 1 .. buf[s], BodyRead(s, n) PROVE FlowInv'
    BY <1>0, <2>3, BodyReadFlow
  <2>4. CASE BodyCredit(s) \/ BodyClose(s) \/ BodyRefund(s)
    BY <1>0, <2>4, BodyCreditFlow, BodyCloseFlow, BodyRefundFlow
  <2>5. CASE \/ Cancel(s) \/ CallerGetsResponse(s) \/ CallerGivesUp(s) \/ CallerAborted(s)
             \/ CloseReturns(s) \/ BodyEnds(s)
    BY <1>0, <2>5, QuietCaller, QuietKeepsFlowInv
  <2>6. CASE \/ \E cl \in Declared(s) : RecvHeaders(s, cl)
             \/ RecvMalformed(s) \/ RecvTrailers(s)
             \/ RecvRst(s) \/ CleanupClosePipe(s) \/ CleanupForget(s)
    BY <1>0, <2>6, QuietReadLoop, QuietKeepsFlowInv
  <2> QED BY <1>2, <2>1, <2>2, <2>3, <2>4, <2>5, <2>6 DEF StreamStep
<1>3. CASE UNCHANGED vars
  BY <1>0, <1>3, StutterQuiet, QuietKeepsFlowInv
<1> QED BY <1>1, <1>2, <1>3 DEF Next

(* The flow invariant holds in every reachable state.                      *)
LEMMA FlowInvHolds == Spec => []FlowInv
<1>1. Init => FlowInv
  BY InitFlowInv
<1>2. FlowInv /\ [Next]_vars => FlowInv'
  BY NextFlowInv
<1> QED BY <1>1, <1>2, PTL DEF Spec

(* For every fingerprint, the enforced windows follow the announced ones:  *)
(* processData, Read and Close never let the two drift apart.              *)
THEOREM WindowsAgreeAlways == Spec => []WindowsAgree
<1>1. FlowInv => WindowsAgree
  BY DEF FlowInv
<1> QED BY <1>1, FlowInvHolds, PTL

(* A fingerprint that announces no more than the code enforces.            *)
AnnouncesAtMostEnforced ==
    AdvertisedStream <= EnforcedStream /\ AdvertisedConn <= EnforcedConn

(* No step accuses a server that stays within the windows.                 *)
LEMMA NoFaultStep ==
    ASSUME AnnouncesAtMostEnforced, FlowInv, NoFalseFlowControlError, [Next]_vars
    PROVE  NoFalseFlowControlError'
<1> USE DEF NoFalseFlowControlError, FaultIf
<1>1. CASE DeliverConnUpdate
  BY <1>1 DEF DeliverConnUpdate
<1>2. ASSUME NEW s \in Streams, StreamStep(s) PROVE fault' # "flowControl"
  <2>1. ASSUME NEW n \in FrameData, NEW pad \in FramePads, NEW ends \in BOOLEAN,
               RecvData(s, n, pad, ends)
        PROVE  fault' # "flowControl"
    <3>1. /\ n + pad \in Nat /\ n + pad <= peerConn /\ n + pad <= peerStream[s]
      BY <2>1, RecvDataFrame
    <3>2. n + pad <= connAvail
      BY <3>1, WindowTypes DEF AnnouncesAtMostEnforced, FlowInv, TypeOK, TypeConn, WindowsAgree
    <3>3. Visible(s) => n + pad <= avail[s]
      BY <2>1, <3>1, WindowTypes DEF AnnouncesAtMostEnforced, FlowInv, TypeOK, TypeWindow,
                                     WindowsAgree, RecvData
    <3>4. ~DataOverWindow(s, n, n + pad)
      BY <3>1, <3>2, <3>3 DEF DataOverWindow, FlowInv, TypeOK, TypeConn, TypeWindow
    <3>5. DataIgnored(s, n + pad) => fault' # "flowControl"
      BY <3>1, <3>2 DEF DataIgnored, FlowInv, TypeOK, TypeConn
    <3>6. CASE DataMisplaced(s, n)
      BY <3>6 DEF DataMisplaced
    <3>7. CASE DataTaken(s, n, n + pad, ends)
      BY <3>7 DEF DataTaken
    <3>8. CASE DataRefused(s, n, n + pad)
      BY <3>8 DEF DataRefused
    <3> QED BY <2>1, <3>4, <3>5, <3>6, <3>7, <3>8 DEF RecvData
  <2>2. CASE BodyCredit(s) \/ BodyClose(s) \/ BodyRefund(s)
    BY <2>2 DEF BodyCredit, BodyClose, BodyRefund
  <2>3. CASE \/ Cancel(s) \/ CallerGetsResponse(s) \/ CallerGivesUp(s) \/ CallerAborted(s)
             \/ CloseReturns(s) \/ BodyEnds(s)
    BY <2>3, QuietCaller DEF Quiet
  <2>4. CASE \/ \E cl \in Declared(s) : RecvHeaders(s, cl)
             \/ RecvMalformed(s) \/ RecvTrailers(s)
             \/ RecvRst(s) \/ CleanupClosePipe(s) \/ CleanupForget(s)
    BY <2>4, QuietReadLoop DEF Quiet
  <2>5. CASE Open(s) \/ DeliverStreamUpdate(s) \/ \E n \in 1 .. buf[s] : BodyRead(s, n)
    BY <2>5 DEF Open, DeliverStreamUpdate, BodyRead
  <2> QED BY <1>2, <2>1, <2>2, <2>3, <2>4, <2>5 DEF StreamStep
<1>3. CASE UNCHANGED vars
  BY <1>3 DEF vars
<1> QED BY <1>1, <1>2, <1>3 DEF Next

(* If the fingerprint's SETTINGS and WINDOW_UPDATE announce at most what   *)
(* cc.inflow and cs.inflow enforce, processData never closes the           *)
(* connection on a server that respects its windows, whatever the callers  *)
(* and the server otherwise do.                                            *)
THEOREM NoFalseError == AnnouncesAtMostEnforced => (Spec => []NoFalseFlowControlError)
<1> SUFFICES ASSUME AnnouncesAtMostEnforced PROVE Spec => []NoFalseFlowControlError
  OBVIOUS
<1>1. Init => NoFalseFlowControlError
  BY DEF Init, NoFalseFlowControlError
<1>2. FlowInv /\ NoFalseFlowControlError /\ [Next]_vars => NoFalseFlowControlError'
  BY NoFaultStep
<1> QED BY <1>1, <1>2, FlowInvHolds, PTL DEF Spec

(* The announced stream window is open at first and survives the credit    *)
(* that inflow.add may withhold.                                           *)
AnnouncesEnough ==
    AdvertisedStream > 0 /\ (AdvertisedStream = EnforcedStream \/ AdvertisedStream >= MinRefresh)

(* With such a fingerprint a stream whose bytes were all consumed always   *)
(* has its window open: withheld credits cannot stall a response.          *)
THEOREM NeverStarved ==
    AnnouncesEnough => (Spec => [](Running => StreamNotStarved))
<1> SUFFICES ASSUME AnnouncesEnough PROVE Spec => [](Running => StreamNotStarved)
  OBVIOUS
<1>1. FlowInv => (Running => StreamNotStarved)
  <2> SUFFICES ASSUME FlowInv, Running, NEW s \in Streams, Visible(s), s \notin aborted,
                      Held(s) = 0, wuStream[s] = 0
               PROVE  peerStream[s] > 0
    BY DEF StreamNotStarved
  <2>1. /\ avail[s] \in Nat /\ unsent[s] \in Nat /\ buf[s] \in Nat /\ inHand[s] \in Nat
        /\ unread[s] \in Nat /\ peerStream[s] \in Nat
    BY DEF FlowInv, TypeOK, TypeWindow, TypePipe, TypeBody
  <2>2. buf[s] = 0 /\ inHand[s] = 0
    BY <2>1 DEF Held
  <2>3. /\ avail[s] + unsent[s] = EnforcedStream
        /\ unsent[s] = 0 \/ (unsent[s] < MinRefresh /\ unsent[s] < avail[s])
    BY <2>1, <2>2 DEF FlowInv, StreamAccount
  <2>4. peerStream[s] - AdvertisedStream = avail[s] - EnforcedStream
    BY <2>1, WindowTypes DEF FlowInv, WindowsAgree
  <2> QED BY <2>1, <2>3, <2>4, WindowTypes, WindowAssumption DEF AnnouncesEnough
<1> QED BY <1>1, FlowInvHolds, PTL

-----------------------------------------------------------------------------
(* The bytes of the connection window that the streams hold.               *)
TotalHeld == MapThenSumSet(Held, Streams)

(* Held counts bytes.                                                      *)
LEMMA HeldNat ==
    ASSUME TypeOK, NEW s \in Streams
    PROVE  Held(s) \in Nat
BY DEF TypeOK, TypePipe, TypeBody, Held

(* TotalHeld is a sum in the sense of DataLemmas, before and after a step.  *)
LEMMA TotalIsSum ==
    /\ \E g : IsSum(g, [s \in Streams |-> Held(s)], Streams) /\ TotalHeld = g[Streams]
    /\ \E g : IsSum(g, [s \in Streams |-> Held(s)'], Streams) /\ TotalHeld' = g[Streams]
<1> DEFINE F(iter) == iter = [T \in SUBSET Streams |->
              IF T = {} THEN 0 ELSE LET x == CHOOSE x \in T : TRUE IN Held(x) + iter[T \ {x}]]
           G(iter) == iter = [T \in SUBSET Streams |->
              IF T = {} THEN 0 ELSE LET x == CHOOSE x \in T : TRUE IN Held(x)' + iter[T \ {x}]]
           f == [s \in Streams |-> Held(s)]
           e == [s \in Streams |-> Held(s)']
<1>1. TotalHeld = (CHOOSE iter : F(iter))[Streams]
  BY DEF TotalHeld, MapThenSumSet, MapThenFoldSet
<1>2. TotalHeld' = (CHOOSE iter : G(iter))[Streams]
  BY DEF TotalHeld, MapThenSumSet, MapThenFoldSet
<1>3. \A T \in SUBSET Streams : T # {} => (CHOOSE x \in T : TRUE) \in Streams
  OBVIOUS
<1>4. \A iter : IsSum(iter, f, Streams) <=> F(iter)
  BY <1>3 DEF IsSum
<1>5. \A iter : IsSum(iter, e, Streams) <=> G(iter)
  BY <1>3 DEF IsSum
<1> HIDE DEF f, e, F, G
<1>6. PICK g : IsSum(g, f, Streams)
  BY SumExists, StreamsAssumption
<1>7. PICK k : IsSum(k, e, Streams)
  BY SumExists, StreamsAssumption
<1>8. F(CHOOSE iter : F(iter))
  BY <1>4, <1>6
<1>9. G(CHOOSE iter : G(iter))
  BY <1>5, <1>7
<1>10. \E i : IsSum(i, f, Streams) /\ TotalHeld = i[Streams]
  BY <1>1, <1>4, <1>8
<1>11. \E i : IsSum(i, e, Streams) /\ TotalHeld' = i[Streams]
  BY <1>2, <1>5, <1>9
<1> QED BY <1>10, <1>11 DEF f, e

(* A step that changes what one stream holds changes the total by as much. *)
LEMMA TotalChange ==
    ASSUME TypeOK, TypeOK', NEW s \in Streams, \A r \in Streams \ {s} : Held(r)' = Held(r)
    PROVE  /\ TotalHeld \in Nat /\ TotalHeld' \in Nat
           /\ TotalHeld' = TotalHeld - Held(s) + Held(s)'
<1> DEFINE f == [r \in Streams |-> Held(r)]
           e == [r \in Streams |-> Held(r)']
<1>1. \A r \in Streams : f[r] = Held(r) /\ e[r] = Held(r)' /\ f[r] \in Nat /\ e[r] \in Nat
  <2>1. \A r \in Streams : Held(r) \in Nat
    BY HeldNat
  <2>2. \A r \in Streams : Held(r)' \in Nat
    BY DEF TypeOK, TypePipe, TypeBody, Held
  <2> QED BY <2>1, <2>2
<1>2. PICK g : IsSum(g, f, Streams) /\ TotalHeld = g[Streams]
  BY TotalIsSum
<1>3. PICK k : IsSum(k, e, Streams) /\ TotalHeld' = k[Streams]
  BY TotalIsSum
<1> HIDE DEF f, e
<1>4. IsFiniteSet(Streams)
  BY StreamsAssumption
<1>5. \A r \in Streams : f[r] \in Int /\ e[r] \in Int
  BY <1>1
<1>6. \A r \in Streams \ {s} : e[r] = f[r]
  BY <1>1
<1>7. k[Streams] = g[Streams] - f[s] + e[s]
  BY <1>2, <1>3, <1>4, <1>5, <1>6, SumChange
<1>8. g[Streams] \in Nat /\ k[Streams] \in Nat
  BY <1>1, <1>2, <1>3, <1>4, SumNat
<1> QED BY <1>1, <1>2, <1>3, <1>7, <1>8

(* And one that changes nothing keeps it.                                  *)
LEMMA TotalSame ==
    ASSUME \A r \in Streams : Held(r)' = Held(r)
    PROVE  TotalHeld' = TotalHeld
<1> DEFINE f == [r \in Streams |-> Held(r)]
           e == [r \in Streams |-> Held(r)']
<1>1. \A r \in Streams : e[r] = f[r]
  OBVIOUS
<1>2. PICK g : IsSum(g, f, Streams) /\ TotalHeld = g[Streams]
  BY TotalIsSum
<1>3. PICK k : IsSum(k, e, Streams) /\ TotalHeld' = k[Streams]
  BY TotalIsSum
<1> HIDE DEF f, e
<1> QED BY <1>1, <1>2, <1>3, SumSame, StreamsAssumption

-----------------------------------------------------------------------------
(* Who may have bytes in his pipe: a stream with a buffer has a body, its  *)
(* headers have come, and its caller has it, unless he gave up.            *)
BufferedAt(s) ==
    /\ phase[s] = "idle" => stage[s] = "idle"
    /\ closes[s] = 0 <=> s \notin broken
    /\ caller[s] \in {"waiting", "reading"} => closes[s] = 0
    /\ caller[s] \in {"closing", "closed"} => closes[s] > 0
    /\ caller[s] = "reading" \/ closes[s] > 0 => s \in pastHeaders
    /\ s \in broken => buf[s] = 0
    /\ s \in hasBuf => s \in hasBody /\ s \notin broken
    /\ s \in hasBody => s \in pastHeaders
    /\ s \in pastHeaders => stage[s] \in {"body", "ended"}
    /\ buf[s] > 0 => s \in hasBuf
    /\ caller[s] = "done" /\ s \notin cancelled => s \notin hasBuf
    /\ caller[s] = "done" /\ s \notin cancelled /\ s \notin pastHeaders => phase[s] = "gone"

Buffered == \A s \in Streams : BufferedAt(s)

(* Credit saved up for the connection is below both thresholds of add.     *)
SavedLittle ==
    Running /\ Orderly =>
        \/ connUnsent = 0
        \/ connUnsent < MinRefresh /\ connUnsent + connUnsent < EnforcedConn

(* As long as no DATA was answered with a stream error, the connection's   *)
(* enforced window and the server's differ by what was announced too much. *)
ConnTracks ==
    readAborted = {} /\ Running =>
        peerConn + wuConn - AdvertisedConn = connAvail - EnforcedConn

(* What the three properties at the end of the module rest on.             *)
LedgerInv == FlowInv /\ Buffered /\ ConnWindowConserved /\ SavedLittle /\ ConnTracks

(* The initial state satisfies the ledger.                                 *)
LEMMA InitLedger == Init => LedgerInv
<1> SUFFICES ASSUME Init PROVE LedgerInv
  OBVIOUS
<1>1. FlowInv
  BY InitFlowInv
<1>2. Buffered
  BY DEF Init, Buffered, BufferedAt
<1>3. SavedLittle /\ ConnTracks
  BY WindowTypes DEF Init, SavedLittle, ConnTracks
<1>4. TotalHeld = 0
  <2> DEFINE f == [s \in Streams |-> Held(s)]
  <2>1. PICK g : IsSum(g, f, Streams) /\ TotalHeld = g[Streams]
    BY TotalIsSum
  <2>2. \A s \in Streams : f[s] = 0
    BY DEF Init, Held
  <2> HIDE DEF f
  <2> QED BY <2>1, <2>2, SumZero, StreamsAssumption
<1>5. ConnWindowConserved
  BY <1>4, WindowTypes DEF Init, ConnWindowConserved, TotalHeld
<1> QED BY <1>1, <1>2, <1>3, <1>5 DEF LedgerInv

-----------------------------------------------------------------------------
(* A step of stream s keeps the books: what the connection's window and    *)
(* the saved-up credit lose, the stream holds, and the other way round.    *)
Booked(s) ==
    /\ \A r \in Streams \ {s} : Held(r)' = Held(r)
    /\ Running' => Running
    /\ Running' /\ Orderly' =>
            /\ Orderly
            /\ connAvail' + connUnsent' + Held(s)' = connAvail + connUnsent + Held(s)
    /\ \/ ~Running' \/ connUnsent' = connUnsent \/ connUnsent' = 0
       \/ connUnsent' < MinRefresh /\ connUnsent' < connAvail'
    /\ readAborted' = {} /\ Running' =>
          /\ readAborted = {}
          /\ peerConn' + wuConn' - connAvail' = peerConn + wuConn - connAvail

(* Such a step keeps the three parts about the connection.                 *)
LEMMA BookedKeeps ==
    ASSUME LedgerInv, FlowInv', NEW s \in Streams, Booked(s)
    PROVE  ConnWindowConserved' /\ SavedLittle' /\ ConnTracks'
<1>0. TypeOK /\ TypeOK'
  BY DEF LedgerInv, FlowInv
<1>1. /\ TotalHeld \in Nat /\ TotalHeld' \in Nat
      /\ TotalHeld' = TotalHeld - Held(s) + Held(s)'
  BY <1>0, TotalChange DEF Booked
<1>2. Held(s) \in Nat
  BY <1>0, HeldNat
<1>3. Held(s)' \in Nat
  BY <1>0 DEF TypeOK, TypePipe, TypeBody, Held
<1>4. /\ connAvail \in Nat /\ connUnsent \in Nat /\ peerConn \in Nat /\ wuConn \in Nat
      /\ connAvail' \in Nat /\ connUnsent' \in Nat /\ peerConn' \in Nat /\ wuConn' \in Nat
  BY <1>0 DEF TypeOK, TypeConn
<1>5. PICK a \in Nat, u \in Nat, p \in Nat, w \in Nat, t \in Nat, k \in Nat,
           a2 \in Nat, u2 \in Nat, p2 \in Nat, w2 \in Nat, t2 \in Nat, k2 \in Nat :
        /\ a = connAvail /\ u = connUnsent /\ p = peerConn /\ w = wuConn
        /\ t = TotalHeld /\ k = Held(s)
        /\ a2 = connAvail' /\ u2 = connUnsent' /\ p2 = peerConn' /\ w2 = wuConn'
        /\ t2 = TotalHeld' /\ k2 = Held(s)'
  BY <1>1, <1>2, <1>3, <1>4
<1>6. PICK e \in Nat, d \in Nat : e = EnforcedConn /\ d = AdvertisedConn
  BY WindowTypes
<1>7. t2 = t - k + k2
  BY <1>1, <1>5
<1>8. Running' /\ Orderly' => a2 + u2 + t2 = e
  <2>1. Running' /\ Orderly' => a2 + u2 + k2 = a + u + k
    BY <1>5 DEF Booked
  <2>2. Running' /\ Orderly' => a + u + t = e
    BY <1>5, <1>6 DEF Booked, LedgerInv, ConnWindowConserved, TotalHeld
  <2> QED BY ONLY <1>7, <2>1, <2>2, a \in Nat, u \in Nat, t \in Nat, k \in Nat,
                  a2 \in Nat, u2 \in Nat, t2 \in Nat, k2 \in Nat
<1>9. ConnWindowConserved'
  BY <1>5, <1>6, <1>8 DEF ConnWindowConserved, TotalHeld, EnforcedConn
<1>10. SavedLittle'
  <2>1. Running' /\ Orderly' => u2 = 0 \/ (u2 < MinRefresh /\ u2 + u2 < e)
    <3>1. CASE u2 = u
      <4>1. Running' /\ Orderly' => u = 0 \/ (u < MinRefresh /\ u + u < e)
        BY <1>5, <1>6 DEF Booked, LedgerInv, SavedLittle
      <4> QED BY <3>1, <4>1
    <3>2. CASE u2 < MinRefresh /\ u2 < a2
      BY ONLY <1>8, <3>2, u2 \in Nat, a2 \in Nat, t2 \in Nat
    <3> QED BY <1>5, <3>1, <3>2 DEF Booked
  <2> QED BY <1>5, <1>6, <2>1 DEF SavedLittle, EnforcedConn
<1>11. ConnTracks'
  <2>1. readAborted' = {} /\ Running' => p2 + w2 - a2 = p + w - a
    BY <1>5 DEF Booked
  <2>2. readAborted' = {} /\ Running' => p + w - d = a - e
    BY <1>5, <1>6 DEF Booked, LedgerInv, ConnTracks
  <2>3. readAborted' = {} /\ Running' => p2 + w2 - d = a2 - e
    BY ONLY <2>1, <2>2, a \in Nat, p \in Nat, w \in Nat, a2 \in Nat, p2 \in Nat, w2 \in Nat,
            d \in Nat, e \in Nat
  <2> QED BY <1>5, <1>6, <2>3 DEF ConnTracks, AdvertisedConn, EnforcedConn
<1> QED BY <1>9, <1>10, <1>11

(* Steps that leave the connection's window and what streams hold alone.   *)
Aside ==
    /\ UNCHANGED connVars
    /\ \A r \in Streams : Held(r)' = Held(r)
    /\ Running' => Running
    /\ Orderly' => Orderly
    /\ readAborted' = {} => readAborted = {}

(* They keep them too.                                                     *)
LEMMA AsideKeeps ==
    ASSUME LedgerInv, Aside
    PROVE  ConnWindowConserved' /\ SavedLittle' /\ ConnTracks'
<1>1. TotalHeld' = TotalHeld
  BY TotalSame DEF Aside
<1>2. UNCHANGED <<connAvail, connUnsent, peerConn, wuConn>>
  BY DEF Aside, connVars
<1>3. ConnWindowConserved'
  BY <1>1, <1>2 DEF Aside, LedgerInv, ConnWindowConserved, TotalHeld, EnforcedConn
<1>4. SavedLittle'
  BY <1>2 DEF Aside, LedgerInv, SavedLittle, EnforcedConn
<1>5. ConnTracks'
  BY <1>2 DEF Aside, LedgerInv, ConnTracks, AdvertisedConn, EnforcedConn
<1> QED BY <1>3, <1>4, <1>5

(* Cancellation, the waiting caller's steps and the end of Close.          *)
LEMMA AsideCaller ==
    ASSUME LedgerInv, NEW s \in Streams,
           \/ Cancel(s) \/ CallerGetsResponse(s) \/ CallerGivesUp(s) \/ CallerAborted(s)
           \/ CloseReturns(s) \/ BodyEnds(s)
    PROVE  Aside
<1> USE DEF Aside, Held, Orderly, Running
<1>0. /\ caller \in [Streams -> {"waiting", "reading", "closing", "closed", "done"}]
      /\ readErr \in [Streams -> {"nil", "overrun", "short"}]
  BY DEF LedgerInv, FlowInv, TypeOK, TypeBody
<1>1. CASE Cancel(s)
  BY <1>1 DEF Cancel, pipeVars, bodyVars
<1>2. CASE CallerGetsResponse(s)
  BY <1>0, <1>2 DEF CallerGetsResponse, pipeVars, streamVars
<1>3. CASE CallerGivesUp(s)
  BY <1>0, <1>3 DEF CallerGivesUp, pipeVars
<1>4. CASE CallerAborted(s)
  BY <1>0, <1>4 DEF CallerAborted, pipeVars, streamVars
<1>5. CASE CloseReturns(s)
  BY <1>0, <1>5 DEF CloseReturns, pipeVars, streamVars
<1>6. CASE BodyEnds(s)
  BY <1>0, <1>6 DEF BodyEnds, streamVars
<1> QED BY <1>1, <1>2, <1>3, <1>4, <1>5, <1>6

(* Opening, HEADERS, RST_STREAM, the cleanup and a stream's update.        *)
LEMMA AsideReadLoop ==
    ASSUME LedgerInv, NEW s \in Streams,
           \/ Open(s) \/ \E cl \in Declared(s) : RecvHeaders(s, cl)
           \/ RecvMalformed(s) \/ RecvTrailers(s)
           \/ RecvRst(s) \/ CleanupClosePipe(s) \/ CleanupForget(s) \/ DeliverStreamUpdate(s)
    PROVE  Aside
<1> USE DEF Aside, Held, Orderly, Running
<1>1. CASE Open(s)
  BY <1>1 DEF Open, pipeVars, bodyVars
<1>2. ASSUME NEW cl \in Declared(s), RecvHeaders(s, cl) PROVE Aside
  BY <1>2 DEF RecvHeaders
<1>3. CASE RecvRst(s)
  BY <1>3 DEF RecvRst, bodyVars
<1>4. CASE CleanupClosePipe(s)
  BY <1>4 DEF CleanupClosePipe, bodyVars
<1>5. CASE CleanupForget(s)
  BY <1>5 DEF CleanupForget, pipeVars, bodyVars
<1>6. CASE DeliverStreamUpdate(s)
  BY <1>6 DEF DeliverStreamUpdate, connVars, pipeVars, streamVars, bodyVars
<1>7. CASE RecvMalformed(s)
  BY <1>7 DEF RecvMalformed, EndStreamError, pipeVars, bodyVars
<1>8. CASE RecvTrailers(s)
  BY <1>8 DEF RecvTrailers, EndStreamError, bodyVars
<1> QED BY <1>1, <1>2, <1>3, <1>4, <1>5, <1>6, <1>7, <1>8

-----------------------------------------------------------------------------
(* What cc.inflow.add does to the books, for k bytes taken and m given back. *)
LEMMA ConnAddBooks ==
    ASSUME TypeConn, NEW k \in Nat, NEW m \in Nat, k <= connAvail,
           ConnAdd(connAvail - k, m)
    PROVE  /\ connAvail' + connUnsent' = connAvail + connUnsent - k + m
           /\ connUnsent' = 0 \/ (connUnsent' < MinRefresh /\ connUnsent' < connAvail')
           /\ wuConn' - connAvail' = wuConn - connAvail + k
<1>1. PICK a \in Nat, u \in Nat : a = connAvail - k /\ u = connUnsent
  BY DEF TypeConn
<1>2. /\ connAvail' = AddAvail(a, u, m) /\ connUnsent' = AddUnsent(a, u, m)
      /\ wuConn' = wuConn + AddSends(a, u, m)
  BY <1>1 DEF ConnAdd
<1>3. /\ AddSends(a, u, m) \in Nat
      /\ AddAvail(a, u, m) \in Nat
      /\ AddUnsent(a, u, m) \in Nat
      /\ AddAvail(a, u, m) = a + AddSends(a, u, m)
      /\ AddAvail(a, u, m) + AddUnsent(a, u, m) = a + u + m
      /\ \/ AddUnsent(a, u, m) = 0
         \/ /\ AddUnsent(a, u, m) < MinRefresh
            /\ AddUnsent(a, u, m) < AddAvail(a, u, m)
  BY ONLY AddFacts, a \in Nat, u \in Nat, m \in Nat
<1>4. wuConn \in Nat /\ connAvail \in Nat /\ connUnsent \in Nat
  BY DEF TypeConn
<1> QED BY <1>1, <1>2, <1>3, <1>4

(* A step that takes k bytes from the connection's window, gives m back    *)
(* and leaves the difference with stream s keeps the books.                *)
LEMMA AddIsBooked ==
    ASSUME TypeOK, TypeOK', NEW s \in Streams, NEW k \in Nat, NEW m \in Nat,
           k <= connAvail, ConnAdd(connAvail - k, m), peerConn' = peerConn - k,
           \A r \in Streams \ {s} : Held(r)' = Held(r),
           Orderly' => Orderly /\ Held(s)' = Held(s) + k - m,
           readAborted' = {} => readAborted = {}, Running
    PROVE  Booked(s)
<1>1. /\ connAvail' + connUnsent' = connAvail + connUnsent - k + m
      /\ connUnsent' = 0 \/ (connUnsent' < MinRefresh /\ connUnsent' < connAvail')
      /\ wuConn' - connAvail' = wuConn - connAvail + k
  BY ConnAddBooks DEF TypeOK
<1>2. /\ connAvail' \in Int /\ connUnsent' \in Int /\ wuConn' \in Int
      /\ connAvail \in Int /\ connUnsent \in Int /\ wuConn \in Int /\ peerConn \in Int
  BY DEF TypeOK, TypeConn
<1>3. Held(s) \in Int
  BY HeldNat
<1>4. PICK a \in Int, u \in Int, p \in Int, w \in Int, x \in Int, a2 \in Int, u2 \in Int, w2 \in Int :
         /\ a = connAvail /\ u = connUnsent /\ p = peerConn /\ w = wuConn /\ x = Held(s)
         /\ a2 = connAvail' /\ u2 = connUnsent' /\ w2 = wuConn'
  BY <1>2, <1>3
<1>5. a2 + u2 = a + u - k + m /\ w2 - a2 = w - a + k
  BY <1>1, <1>4
<1>6. a2 + u2 + (x + k - m) = a + u + x /\ (p - k) + w2 - a2 = p + w - a
  BY ONLY <1>5, a \in Int, u \in Int, p \in Int, w \in Int, x \in Int, a2 \in Int, u2 \in Int,
          w2 \in Int, m \in Nat, k \in Nat
<1>7. Orderly' => connAvail' + connUnsent' + Held(s)' = connAvail + connUnsent + Held(s)
  BY <1>4, <1>6
<1>8. peerConn' + wuConn' - connAvail' = peerConn + wuConn - connAvail
  BY <1>4, <1>6
<1> QED BY <1>1, <1>7, <1>8 DEF Booked, Running

(* Read takes bytes out of the pipe into its hand, or gives the stream up. *)
LEMMA BodyReadBooks ==
    ASSUME LedgerInv, NEW s \in Streams, NEW n \in 1 .. buf[s], BodyRead(s, n)
    PROVE  Booked(s)
<1>1. /\ buf \in [Streams -> Nat] /\ inHand \in [Streams -> Nat] /\ unread \in [Streams -> Nat]
      /\ readErr \in [Streams -> {"nil", "overrun", "short"}]
  BY DEF LedgerInv, FlowInv, TypeOK, TypePipe, TypeBody
<1>2. /\ UNCHANGED <<connVars, unread, caller, closes, readAborted, fault>>
      /\ buf' = [buf EXCEPT ![s] = @ - n] /\ inHand[s] = 0 /\ readErr[s] = "nil"
      /\ \/ readErr' = [readErr EXCEPT ![s] = "overrun"] /\ inHand' = inHand
         \/ inHand' = [inHand EXCEPT ![s] = n] /\ readErr' = readErr
  BY DEF BodyRead
<1>3. n \in Nat /\ buf[s] \in Nat /\ inHand[s] \in Nat /\ unread[s] \in Nat
  BY <1>1
<1>4. \A r \in Streams \ {s} : Held(r)' = Held(r)
  BY <1>1, <1>2 DEF Held
<1>5. ASSUME Orderly' PROVE Orderly /\ Held(s)' = Held(s)
  <2>1. inHand' = [inHand EXCEPT ![s] = n] /\ readErr' = readErr
    BY <1>1, <1>2, <1>5 DEF Orderly
  <2>2. Orderly
    BY <1>2, <1>5, <2>1 DEF Orderly
  <2>3. buf'[s] = buf[s] - n /\ inHand'[s] = n
    BY <1>1, <1>2, <2>1
  <2> QED BY <1>2, <1>3, <2>2, <2>3 DEF Held
<1> QED BY <1>2, <1>4, <1>5 DEF Booked, connVars, Running

(* and the rest of Read credits them.                                      *)
LEMMA BodyCreditBooks ==
    ASSUME LedgerInv, NEW s \in Streams, BodyCredit(s)
    PROVE  Booked(s)
<1>0. TypeOK /\ TypeOK'
  BY BodyCreditType DEF LedgerInv, FlowInv
<1>1. PICK m \in Nat : m = inHand[s]
  BY <1>0 DEF TypeOK, TypeBody
<1>2. connAvail - 0 = connAvail /\ peerConn - 0 = peerConn /\ 0 <= connAvail
  BY <1>0 DEF TypeOK, TypeConn
<1>3. /\ UNCHANGED <<peerConn, buf, unread, caller, closes, readErr, readAborted>>
      /\ inHand' = [inHand EXCEPT ![s] = 0] /\ ConnAdd(connAvail - 0, m) /\ Running
  BY <1>1, <1>2 DEF BodyCredit, pipeVars, streamVars
<1>4. /\ \A r \in Streams \ {s} : Held(r)' = Held(r)
      /\ Held(s)' = Held(s) + 0 - m
  BY <1>0, <1>1, <1>3 DEF Held, TypeOK, TypePipe, TypeBody
<1>5. Orderly' => Orderly
  BY <1>3 DEF Orderly
<1>6. 0 \in Nat /\ peerConn' = peerConn - 0
  BY <1>2, <1>3
<1> QED BY <1>0, <1>2, <1>3, <1>4, <1>5, <1>6, AddIsBooked

(* Close empties the pipe; what was left is unread until it is refunded.   *)
(* A second Close would count it again.                                    *)
LEMMA BodyCloseBooks ==
    ASSUME LedgerInv, NEW s \in Streams, BodyClose(s)
    PROVE  Booked(s)
<1>0. /\ TypePipe /\ TypeBody
      /\ closes[s] = 0 <=> s \notin broken
      /\ caller[s] = "reading" => closes[s] = 0
  BY DEF LedgerInv, FlowInv, TypeOK, Buffered, BufferedAt
<1>1. /\ UNCHANGED <<connVars, inHand, readErr, readAborted, fault>>
      /\ buf' = [buf EXCEPT ![s] = 0] /\ closes' = [closes EXCEPT ![s] = @ + 1]
      /\ caller' = [caller EXCEPT ![s] = "closing"]
      /\ unread' = IF s \in broken THEN unread ELSE [unread EXCEPT ![s] = buf[s]]
      /\ caller[s] = "reading" \/ (caller[s] = "done" /\ closes[s] > 0)
  BY DEF BodyClose
<1>2. \A r \in Streams \ {s} : Held(r)' = Held(r)
  BY <1>0, <1>1 DEF Held, TypePipe, TypeBody
<1>3. ASSUME Orderly' PROVE Orderly /\ Held(s)' = Held(s)
  <2>1. closes'[s] = closes[s] + 1 /\ closes[s] \in 0 .. 2
    BY <1>0, <1>1 DEF TypeBody
  <2>2. closes[s] = 0
    BY <1>3, <2>1 DEF Orderly
  <2>3. Orderly
    BY <1>0, <1>1, <1>3, <2>2 DEF Orderly, TypeBody
  <2>4. s \notin broken /\ caller[s] = "reading"
    BY <1>0, <1>1, <2>2
  <2>5. /\ buf'[s] = 0 /\ unread'[s] = buf[s] /\ caller'[s] = "closing" /\ inHand'[s] = inHand[s]
        /\ buf[s] \in Nat /\ inHand[s] \in Nat
    BY <1>0, <1>1, <2>4 DEF TypePipe, TypeBody
  <2> QED BY <2>3, <2>4, <2>5 DEF Held
<1> QED BY <1>1, <1>2, <1>3 DEF Booked, connVars, Running

(* Close refunds it.                                                       *)
LEMMA BodyRefundBooks ==
    ASSUME LedgerInv, NEW s \in Streams, BodyRefund(s)
    PROVE  Booked(s)
<1>0. TypeOK /\ TypeOK'
  BY BodyRefundType DEF LedgerInv, FlowInv
<1>1. PICK m \in Nat : m = unread[s]
  BY <1>0 DEF TypeOK, TypePipe
<1>2. connAvail - 0 = connAvail /\ peerConn - 0 = peerConn /\ 0 <= connAvail
  BY <1>0 DEF TypeOK, TypeConn
<1>3. /\ UNCHANGED <<peerConn, buf, unread, inHand, closes, readErr, readAborted>>
      /\ caller[s] = "closing" /\ caller' = [caller EXCEPT ![s] = "closed"] /\ Running
      /\ \/ m > 0 /\ ConnAdd(connAvail - 0, m)
         \/ ~(m > 0) /\ UNCHANGED <<connAvail, connUnsent, wuConn, fault>>
  BY <1>1, <1>2 DEF BodyRefund, pipeVars, streamVars
<1>4. /\ \A r \in Streams \ {s} : Held(r)' = Held(r)
      /\ Held(s)' = Held(s) + 0 - m
  BY <1>0, <1>1, <1>3 DEF Held, TypeOK, TypePipe, TypeBody
<1>5. Orderly' => Orderly
  BY <1>3 DEF Orderly
<1>6. 0 \in Nat /\ peerConn' = peerConn - 0
  BY <1>2, <1>3
<1>7. CASE ConnAdd(connAvail - 0, m)
  BY <1>0, <1>2, <1>3, <1>4, <1>5, <1>6, <1>7, AddIsBooked
<1>8. CASE m = 0 /\ UNCHANGED <<connAvail, connUnsent, wuConn, fault>>
  <2>1. Held(s)' = Held(s)
    BY <1>0, <1>4, <1>8, HeldNat
  <2> QED BY <1>3, <1>4, <1>5, <1>8, <2>1 DEF Booked, Running
<1> QED BY <1>3, <1>7, <1>8

(* DATA, whatever becomes of them.                                         *)
LEMMA RecvDataBooks ==
    ASSUME LedgerInv, NEW s \in Streams, NEW n \in FrameData, NEW pad \in FramePads,
           NEW ends \in BOOLEAN, RecvData(s, n, pad, ends)
    PROVE  Booked(s)
<1> DEFINE len == n + pad
<1>0. TypeOK /\ TypeOK'
  BY RecvDataType DEF LedgerInv, FlowInv
<1>1. n \in Nat /\ len \in Nat /\ len - n \in Nat
  BY BoundsAssumption
<1>2. /\ UNCHANGED <<inHand, caller, closes, readErr>> /\ peerConn' = peerConn - len /\ Running
  BY DEF RecvData, ServerSends, bodyVars
<1>3. Orderly' => Orderly
  BY <1>2 DEF Orderly
<1>a. connAvail \in Nat /\ peerConn \in Nat /\ connUnsent \in Nat /\ wuConn \in Nat
  BY <1>0 DEF TypeOK, TypeConn
<1>b. Held(s) \in Nat
  BY <1>0, HeldNat
<1> HIDE DEF len
<1>4. CASE DataIgnored(s, len)
  <2>1. UNCHANGED <<buf, unread, readAborted>>
    BY <1>4 DEF DataIgnored, pipeVars
  <2>2. \A r \in Streams : Held(r)' = Held(r)
    BY <1>2, <2>1 DEF Held
  <2>3. Held(s)' = Held(s) + len - len
    BY <1>1, <1>b, <2>2
  <2>4. CASE len = 0
    <3>1. UNCHANGED <<connAvail, connUnsent, wuConn, fault>> /\ peerConn' = peerConn
      BY <1>2, <1>4, <1>a, <2>4 DEF DataIgnored
    <3> QED BY <1>3, <2>1, <2>2, <3>1 DEF Booked, Running
  <2>5. CASE len # 0 /\ len > connAvail
    <3>1. ~Running'
      BY <1>4, <2>5 DEF DataIgnored, Running
    <3> QED BY <2>2, <3>1 DEF Booked
  <2>6. CASE len # 0 /\ len <= connAvail
    <3>1. ConnAdd(connAvail - len, len)
      BY <1>1, <1>4, <1>a, <2>6 DEF DataIgnored
    <3> QED BY <1>0, <1>1, <1>2, <1>3, <2>1, <2>2, <2>3, <2>6, <3>1, AddIsBooked
  <2> QED BY <1>1, <1>a, <2>4, <2>5, <2>6
<1>5. CASE DataMisplaced(s, n)
  <2>1. UNCHANGED <<buf, unread, connAvail, connUnsent>> /\ readAborted' # {}
    BY <1>5 DEF DataMisplaced, EndStreamError, pipeVars
  <2>2. \A r \in Streams : Held(r)' = Held(r)
    BY <1>2, <2>1 DEF Held
  <2> QED BY <1>2, <1>3, <2>1, <2>2 DEF Booked
<1>6. CASE DataOverWindow(s, n, len)
  <2>1. UNCHANGED <<buf, unread, connAvail, connUnsent>> /\ fault' = "flowControl"
    BY <1>6 DEF DataOverWindow, pipeVars
  <2>2. \A r \in Streams : Held(r)' = Held(r)
    BY <1>2, <2>1 DEF Held
  <2> QED BY <1>3, <2>1, <2>2 DEF Booked, Running
<1>7. CASE DataTaken(s, n, len, ends)
  <2>1. /\ UNCHANGED <<unread, readAborted>> /\ buf' = [buf EXCEPT ![s] = @ + n]
        /\ len <= connAvail
        /\ \/ len = 0 /\ UNCHANGED <<connAvail, connUnsent, wuConn, fault>>
           \/ ConnAdd(connAvail - len, len - n)
    BY <1>7 DEF DataTaken
  <2>2. /\ \A r \in Streams \ {s} : Held(r)' = Held(r)
        /\ Held(s)' = Held(s) + n
    BY <1>0, <1>1, <1>2, <2>1 DEF Held, TypeOK, TypePipe, TypeBody
  <2>3. CASE len = 0 /\ UNCHANGED <<connAvail, connUnsent, wuConn, fault>>
    <3>1. n = 0 /\ peerConn' = peerConn
      BY <1>1, <1>2, <1>a, <2>3
    <3>2. Held(s)' = Held(s)
      BY <1>b, <2>2, <3>1
    <3> QED BY <1>3, <2>1, <2>2, <2>3, <3>1, <3>2 DEF Booked, Running
  <2>4. CASE ConnAdd(connAvail - len, len - n)
    <3>1. PICK m \in Nat : m = len - n
      BY <1>1
    <3>2. Held(s)' = Held(s) + len - m
      BY <1>1, <1>b, <2>2, <3>1
    <3>3. ConnAdd(connAvail - len, m)
      BY <2>4, <3>1
    <3> QED BY <1>0, <1>1, <1>2, <1>3, <2>1, <2>2, <3>2, <3>3, AddIsBooked
  <2> QED BY <2>1, <2>3, <2>4
<1>8. CASE DataRefused(s, n, len)
  <2>1. UNCHANGED <<buf, unread>> /\ ConnAdd(connAvail - len, len) /\ len <= connAvail
        /\ readAborted' # {}
    BY <1>8 DEF DataRefused, EndStreamError, pipeVars
  <2>2. \A r \in Streams : Held(r)' = Held(r)
    BY <1>2, <2>1 DEF Held
  <2>3. Held(s)' = Held(s) + len - len
    BY <1>1, <1>b, <2>2
  <2> QED BY <1>0, <1>1, <1>2, <1>3, <2>1, <2>2, <2>3, AddIsBooked
<1> QED BY <1>4, <1>5, <1>6, <1>7, <1>8 DEF RecvData, len

(* A connection WINDOW_UPDATE changes sides.                               *)
LEMMA DeliverConnBooks ==
    ASSUME LedgerInv, DeliverConnUpdate
    PROVE  ConnWindowConserved' /\ SavedLittle' /\ ConnTracks'
<1>1. /\ peerConn' = peerConn + wuConn /\ wuConn' = 0
      /\ UNCHANGED <<connAvail, connUnsent, buf, unread, inHand, caller, closes, readErr,
                     readAborted, fault>>
  BY DEF DeliverConnUpdate, pipeVars, streamVars, bodyVars
<1>2. \A r \in Streams : Held(r)' = Held(r)
  BY <1>1 DEF Held
<1>3. TotalHeld' = TotalHeld
  BY <1>2, TotalSame
<1>4. ConnWindowConserved' /\ SavedLittle'
  BY <1>1, <1>3 DEF LedgerInv, ConnWindowConserved, SavedLittle, Running, Orderly, TotalHeld, EnforcedConn
<1>6. ConnTracks'
  <2>1. PICK x \in Nat, p \in Nat, w \in Nat, d \in Nat, e \in Nat :
           /\ x = connAvail /\ p = peerConn /\ w = wuConn
           /\ d = AdvertisedConn /\ e = EnforcedConn
    BY WindowTypes DEF LedgerInv, FlowInv, TypeOK, TypeConn
  <2>2. readAborted = {} /\ Running => p + w - d = x - e
    BY <2>1 DEF LedgerInv, ConnTracks
  <2>3. (p + w) + 0 = p + w
    BY ONLY p \in Nat, w \in Nat
  <2>4. peerConn' + wuConn' = p + w
    BY <1>1, <2>1, <2>3
  <2> QED BY <1>1, <2>1, <2>2, <2>4 DEF ConnTracks, Running, AdvertisedConn, EnforcedConn
<1> QED BY <1>4, <1>6

-----------------------------------------------------------------------------
(* Buffered is about one stream at a time: a step keeps it for the others. *)
Elsewhere(s) ==
    \A r \in Streams \ {s} :
        /\ closes'[r] = closes[r] /\ caller'[r] = caller[r] /\ buf'[r] = buf[r]
        /\ stage'[r] = stage[r] /\ phase'[r] = phase[r]
        /\ r \in broken' <=> r \in broken
        /\ r \in hasBuf' <=> r \in hasBuf
        /\ r \in hasBody' <=> r \in hasBody
        /\ r \in pastHeaders' <=> r \in pastHeaders
        /\ r \in cancelled' <=> r \in cancelled

(* Steps of stream s may only disturb what Buffered says of s.             *)
LEMMA BufferedStep ==
    ASSUME Buffered, NEW s \in Streams, Elsewhere(s), BufferedAt(s)'
    PROVE  Buffered'
<1> SUFFICES ASSUME NEW r \in Streams PROVE BufferedAt(r)'
  BY DEF Buffered
<1>1. CASE r = s
  BY <1>1
<1>2. CASE r # s
  BY <1>2 DEF Buffered, BufferedAt, Elsewhere
<1> QED BY <1>1, <1>2

(* The caller's steps, but for reading and closing,                        *)
LEMMA BufferedCaller ==
    ASSUME TypeOK, Buffered, NEW s \in Streams,
           \/ Cancel(s) \/ CallerGetsResponse(s) \/ CallerGivesUp(s) \/ CallerAborted(s)
           \/ CloseReturns(s) \/ BodyEnds(s) \/ BodyCredit(s) \/ BodyRefund(s)
    PROVE  Buffered'
<1>0. BufferedAt(s)
  BY DEF Buffered
<1> SUFFICES Elsewhere(s) /\ BufferedAt(s)'
  BY BufferedStep
<1> USE <1>0 DEF TypeOK, TypePipe, TypeStream, TypeBody, TypeServer, BufferedAt, Elsewhere
<1>1. CASE Cancel(s)
  BY <1>1 DEF Cancel, pipeVars, bodyVars, serverVars
<1>2. CASE CallerGetsResponse(s)
  BY <1>2 DEF CallerGetsResponse, pipeVars, streamVars, serverVars
<1>3. CASE CallerGivesUp(s)
  BY <1>3 DEF CallerGivesUp, pipeVars, serverVars
<1>4. CASE CallerAborted(s)
  BY <1>4 DEF CallerAborted, pipeVars, streamVars, serverVars
<1>5. CASE CloseReturns(s)
  BY <1>5 DEF CloseReturns, pipeVars, streamVars, serverVars
<1>6. CASE BodyEnds(s)
  BY <1>6 DEF BodyEnds, streamVars, serverVars
<1>7. CASE BodyCredit(s)
  BY <1>7 DEF BodyCredit, pipeVars, streamVars, serverVars
<1>8. CASE BodyRefund(s)
  BY <1>8 DEF BodyRefund, pipeVars, streamVars, serverVars
<1> QED BY <1>1, <1>2, <1>3, <1>4, <1>5, <1>6, <1>7, <1>8

(* opening, the headers, resets, the cleanup and updates,                  *)
LEMMA BufferedReadLoop ==
    ASSUME TypeOK, Buffered, NEW s \in Streams,
           \/ Open(s) \/ \E cl \in Declared(s) : RecvHeaders(s, cl)
           \/ RecvMalformed(s) \/ RecvTrailers(s)
           \/ RecvRst(s) \/ CleanupClosePipe(s) \/ CleanupForget(s) \/ DeliverStreamUpdate(s)
    PROVE  Buffered'
<1>0. BufferedAt(s)
  BY DEF Buffered
<1> SUFFICES Elsewhere(s) /\ BufferedAt(s)'
  BY BufferedStep
<1> USE <1>0 DEF TypeOK, TypePipe, TypeStream, TypeBody, TypeServer, BufferedAt, Elsewhere
<1>1. CASE Open(s)
  BY <1>1 DEF Open, pipeVars, bodyVars
<1>2. CASE RecvRst(s)
  BY <1>2 DEF RecvRst, bodyVars
<1>3. CASE CleanupClosePipe(s)
  BY <1>3 DEF CleanupClosePipe, bodyVars, serverVars
<1>4. CASE CleanupForget(s)
  BY <1>4 DEF CleanupForget, pipeVars, bodyVars, serverVars
<1>5. CASE DeliverStreamUpdate(s)
  BY <1>5 DEF DeliverStreamUpdate, pipeVars, streamVars, bodyVars, serverVars
<1>6. ASSUME NEW cl \in Declared(s), RecvHeaders(s, cl)
      PROVE  Elsewhere(s) /\ BufferedAt(s)'
  <2>1. /\ UNCHANGED <<buf, broken, phase, cancelled, caller, closes>>
        /\ stage[s] = "request"
        /\ stage'[s] \in {"body", "ended"}
        /\ \A r \in Streams \ {s} : stage'[r] = stage[r]
    BY <1>6 DEF RecvHeaders
  <2>2. s \notin pastHeaders /\ s \notin hasBody /\ s \notin hasBuf /\ s \notin broken
    BY <2>1
  <2>3. CASE ~Visible(s)
    BY <1>6, <2>1, <2>3 DEF RecvHeaders
  <2>4. CASE Visible(s)
    <3>1. /\ pastHeaders' = pastHeaders \cup {s}
          /\ \/ hasBuf' = hasBuf /\ hasBody' = hasBody
             \/ hasBuf' \in {hasBuf, hasBuf \cup {s}} /\ hasBody' = hasBody \cup {s}
      BY <1>6, <2>4 DEF RecvHeaders
    <3>2. phase[s] # "gone"
      BY <2>4 DEF Visible, InStreams
    <3> QED BY <2>1, <2>2, <3>1, <3>2
  <2> QED BY <2>3, <2>4
<1>7. CASE RecvMalformed(s)
  BY <1>7 DEF RecvMalformed, EndStreamError, pipeVars, bodyVars
<1>8. CASE RecvTrailers(s)
  BY <1>8 DEF RecvTrailers, EndStreamError, bodyVars
<1> QED BY <1>1, <1>2, <1>3, <1>4, <1>5, <1>6, <1>7, <1>8

(* DATA,                                                                   *)
LEMMA BufferedData ==
    ASSUME TypeOK, Buffered, NEW s \in Streams, NEW n \in FrameData, NEW pad \in FramePads,
           NEW ends \in BOOLEAN, RecvData(s, n, pad, ends)
    PROVE  Buffered'
<1>0. BufferedAt(s)
  BY DEF Buffered
<1> SUFFICES Elsewhere(s) /\ BufferedAt(s)'
  BY BufferedStep
<1>1. /\ UNCHANGED <<caller, closes, phase, pastHeaders, cancelled, hasBody>>
      /\ stage[s] \in {"request", "body", "ended"}
      /\ stage' \in {stage, [stage EXCEPT ![s] = "ended"]}
  BY DEF RecvData, ServerSends, bodyVars
<1>2. UNCHANGED <<hasBuf, broken>>
  BY DEF RecvData, DataIgnored, DataMisplaced, DataOverWindow, DataTaken, DataRefused, pipeVars
<1>3. \/ buf' = buf
      \/ /\ buf' = [buf EXCEPT ![s] = @ + n]
         /\ n = 0 \/ (s \in hasBuf /\ s \notin broken)
  <2>1. CASE DataTaken(s, n, n + pad, ends)
    BY <2>1 DEF DataTaken, PipeWritable
  <2>2. CASE ~DataTaken(s, n, n + pad, ends)
    BY <2>2 DEF RecvData, DataIgnored, DataMisplaced, DataOverWindow, DataRefused, pipeVars
  <2> QED BY <2>1, <2>2
<1>4. n \in Nat
  BY BoundsAssumption
<1>5. buf' \in [Streams -> Nat] /\ buf \in [Streams -> Nat]
  BY <1>3, <1>4 DEF TypeOK, TypePipe
<1>6. /\ \A r \in Streams \ {s} : buf'[r] = buf[r]
      /\ buf'[s] = buf[s] \/ (s \in hasBuf /\ s \notin broken)
  BY <1>3, <1>4, <1>5
<1>7. /\ \A r \in Streams \ {s} : stage'[r] = stage[r]
      /\ stage[s] \in {"body", "ended"} => stage'[s] \in {"body", "ended"}
  BY <1>1 DEF TypeOK, TypeServer
<1> QED BY <1>0, <1>1, <1>2, <1>6, <1>7 DEF BufferedAt, Elsewhere

(* and reading and closing keep Buffered.                                  *)
LEMMA BufferedBody ==
    ASSUME TypeOK, Buffered, NEW s \in Streams,
           BodyClose(s) \/ \E n \in 1 .. buf[s] : BodyRead(s, n)
    PROVE  Buffered'
<1>0. BufferedAt(s)
  BY DEF Buffered
<1> SUFFICES Elsewhere(s) /\ BufferedAt(s)'
  BY BufferedStep
<1>1. ASSUME NEW n \in 1 .. buf[s], BodyRead(s, n)
      PROVE  Elsewhere(s) /\ BufferedAt(s)'
  <2>1. /\ UNCHANGED <<closes, caller, broken, hasBuf, hasBody, pastHeaders, stage, phase, cancelled>>
        /\ buf' = [buf EXCEPT ![s] = @ - n]
    BY <1>1 DEF BodyRead, serverVars
  <2>2. /\ \A r \in Streams \ {s} : buf'[r] = buf[r]
        /\ buf[s] > 0 /\ buf[s] \in Nat
    BY <2>1 DEF TypeOK, TypePipe
  <2> QED BY <1>0, <2>1, <2>2 DEF BufferedAt, Elsewhere
<1>2. CASE BodyClose(s)
  <2>1. /\ caller' = [caller EXCEPT ![s] = "closing"]
        /\ closes' = [closes EXCEPT ![s] = @ + 1]
        /\ broken' = broken \cup {s} /\ buf' = [buf EXCEPT ![s] = 0] /\ hasBuf' = hasBuf \ {s}
        /\ UNCHANGED <<hasBody, pastHeaders, stage, phase, cancelled>>
        /\ caller[s] = "reading" \/ closes[s] > 0
    BY <1>2 DEF BodyClose, serverVars
  <2>2. /\ \A r \in Streams \ {s} : /\ buf'[r] = buf[r] /\ caller'[r] = caller[r]
                                    /\ closes'[r] = closes[r]
        /\ buf'[s] = 0 /\ caller'[s] = "closing" /\ closes'[s] > 0
    BY <2>1 DEF TypeOK, TypePipe, TypeBody
  <2> QED BY <1>0, <2>1, <2>2 DEF BufferedAt, Elsewhere
<1> QED BY <1>1, <1>2

-----------------------------------------------------------------------------
(* Every step keeps the ledger.                                            *)
LEMMA NextLedger == LedgerInv /\ [Next]_vars => LedgerInv'
<1> SUFFICES ASSUME LedgerInv, [Next]_vars PROVE LedgerInv'
  OBVIOUS
<1>0. FlowInv' /\ TypeOK
  BY NextFlowInv DEF LedgerInv, FlowInv
<1>1. CASE UNCHANGED vars
  <2>1. /\ UNCHANGED <<connVars, pipeVars, streamVars, bodyVars, serverVars, fault>>
    BY <1>1 DEF vars
  <2>2. Aside
    BY <2>1 DEF Aside, Held, Orderly, Running, pipeVars, bodyVars, streamVars
  <2>3. Buffered'
    BY <2>1 DEF LedgerInv, Buffered, BufferedAt, pipeVars, bodyVars, streamVars, serverVars
  <2> QED BY <1>0, <2>2, <2>3, AsideKeeps DEF LedgerInv
<1>2. CASE DeliverConnUpdate
  <2>1. Buffered'
    BY <1>2 DEF DeliverConnUpdate, LedgerInv, Buffered, BufferedAt, pipeVars, bodyVars,
                streamVars, serverVars
  <2> QED BY <1>0, <1>2, <2>1, DeliverConnBooks DEF LedgerInv
<1>3. ASSUME NEW s \in Streams, StreamStep(s) PROVE LedgerInv'
  <2>1. CASE \/ Cancel(s) \/ CallerGetsResponse(s) \/ CallerGivesUp(s) \/ CallerAborted(s)
             \/ CloseReturns(s) \/ BodyEnds(s)
    BY <1>0, <2>1, BufferedCaller, AsideCaller, AsideKeeps DEF LedgerInv
  <2>2. CASE \/ Open(s) \/ \E cl \in Declared(s) : RecvHeaders(s, cl)
             \/ RecvMalformed(s) \/ RecvTrailers(s)
             \/ RecvRst(s) \/ CleanupClosePipe(s) \/ CleanupForget(s) \/ DeliverStreamUpdate(s)
    BY <1>0, <2>2, BufferedReadLoop, AsideReadLoop, AsideKeeps DEF LedgerInv
  <2>3. CASE \E n \in FrameData, pad \in FramePads, ends \in BOOLEAN : RecvData(s, n, pad, ends)
    BY <1>0, <2>3, BufferedData, RecvDataBooks, BookedKeeps DEF LedgerInv
  <2>4. CASE \E n \in 1 .. buf[s] : BodyRead(s, n)
    BY <1>0, <2>4, BufferedBody, BodyReadBooks, BookedKeeps DEF LedgerInv
  <2>5. CASE BodyClose(s)
    BY <1>0, <2>5, BufferedBody, BodyCloseBooks, BookedKeeps DEF LedgerInv
  <2>6. CASE BodyCredit(s)
    BY <1>0, <2>6, BufferedCaller, BodyCreditBooks, BookedKeeps DEF LedgerInv
  <2>7. CASE BodyRefund(s)
    BY <1>0, <2>7, BufferedCaller, BodyRefundBooks, BookedKeeps DEF LedgerInv
  <2> QED BY <1>3, <2>1, <2>2, <2>3, <2>4, <2>5, <2>6, <2>7 DEF StreamStep
<1> QED BY <1>1, <1>2, <1>3 DEF Next

(* So it holds in every reachable state.                                   *)
LEMMA LedgerInvHolds == Spec => []LedgerInv
BY InitLedger, NextLedger, PTL DEF Spec

(* No credit for received bytes is lost or given twice: the read loop,     *)
(* Read, Close and the cleanup of any number of streams, interleaved in    *)
(* any way, leave cc.inflow, the credit it saves up and the bytes in pipes *)
(* and in readers' hands adding up to the window the client enforces.      *)
THEOREM ConnWindowConservedAlways == Spec => []ConnWindowConserved
BY LedgerInvHolds, PTL DEF LedgerInv

(* A stream that RoundTrip's caller and cleanupWriteRequest are done with  *)
(* leaves nothing in its pipe that the server is never given back, unless  *)
(* its request was cancelled.                                              *)
THEOREM NoStrandedBytesAlways == Spec => []NoStrandedBytes
<1>1. LedgerInv => NoStrandedBytes
  <2> SUFFICES ASSUME LedgerInv, NEW s \in Streams, caller[s] = "done", s \notin cancelled
               PROVE  Held(s) = inHand[s]
    BY DEF NoStrandedBytes
  <2>1. buf[s] \in Nat /\ inHand[s] \in Nat
    BY DEF LedgerInv, FlowInv, TypeOK, TypePipe, TypeBody
  <2>2. ~(buf[s] > 0)
    BY DEF LedgerInv, Buffered, BufferedAt
  <2> QED BY <2>1, <2>2 DEF Held
<1> QED BY <1>1, LedgerInvHolds, PTL

(* inflowMinRefresh is no more than the protocol's initial window: 4096    *)
(* and 65535 in the code.                                                  *)
RefreshIsSmall == SpecWindow > 0 /\ MinRefresh <= SpecWindow

(* Saving up credit never closes the connection's window for good: when no *)
(* stream holds bytes and no WINDOW_UPDATE is on its way, the server may   *)
(* send, whatever the fingerprint announces.                               *)
THEOREM ConnNeverStarved ==
    ASSUME RefreshIsSmall
    PROVE  Spec => []ConnNotStarved
<1>1. LedgerInv => ConnNotStarved
  <2> SUFFICES ASSUME LedgerInv, Running, Orderly, readAborted = {}, wuConn = 0,
                      \A s \in Streams : Held(s) = 0
               PROVE  peerConn > 0
    BY DEF ConnNotStarved
  <2>1. TotalHeld = 0
    <3> DEFINE f == [s \in Streams |-> Held(s)]
    <3>1. PICK g : IsSum(g, f, Streams) /\ TotalHeld = g[Streams]
      BY TotalIsSum
    <3>2. \A s \in Streams : f[s] = 0
      OBVIOUS
    <3> HIDE DEF f
    <3> QED BY <3>1, <3>2, SumZero, StreamsAssumption
  <2>2. PICK a \in Nat, u \in Nat, p \in Nat, e \in Nat, d \in Nat :
           /\ a = connAvail /\ u = connUnsent /\ p = peerConn
           /\ e = EnforcedConn /\ d = AdvertisedConn
    BY WindowTypes DEF LedgerInv, FlowInv, TypeOK, TypeConn
  <2>3. a + u + 0 = e
    BY <2>1, <2>2 DEF LedgerInv, ConnWindowConserved, TotalHeld
  <2>4. p + 0 - d = a - e
    BY <2>2 DEF LedgerInv, ConnTracks
  <2>5. u = 0 \/ u < MinRefresh
    BY <2>2 DEF LedgerInv, SavedLittle
  <2>6. d >= SpecWindow
    BY <2>2, WindowAssumption DEF AdvertisedConn
  <2>7. SpecWindow \in Nat /\ MinRefresh \in Nat
    BY WindowAssumption
  <2>8. p > 0
    BY ONLY <2>3, <2>4, <2>5, <2>6, <2>7, RefreshIsSmall, a \in Nat, u \in Nat, p \in Nat,
            e \in Nat, d \in Nat DEF RefreshIsSmall
  <2> QED BY <2>2, <2>8
<1> QED BY <1>1, LedgerInvHolds, PTL
=============================================================================
