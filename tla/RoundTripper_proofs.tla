------------------------ MODULE RoundTripper_proofs ------------------------
(***************************************************************************)
(* Proofs about RoundTripper, for any number of requests, hosts, presets   *)
(* and calls of the setters.                                               *)
(***************************************************************************)
EXTENDS RoundTripper, TLAPS

Labels ==
    {"new", "snapshot", "route", "getH2", "inH2", "remember", "getH1", "inH1", "done"}

(* The type invariant but for the bound on processed, which is not         *)
(* inductive by itself.                                                    *)
Types ==
    /\ ctor \in {"NewClient", "call"} /\ preset \in Presets
    /\ forceProto \in Protos
    /\ defaultHeaders \in [HeaderNames -> Presets \cup {Nil, User}]
    /\ explicitHeaders \subseteq HeaderNames
    /\ h1 \in Snapshots \cup {Nil} /\ h2 \in Snapshots \cup {Nil}
    /\ noH2 \subseteq Hosts /\ epoch \in Nat /\ raced \in BOOLEAN
    /\ pc \in [Requests -> Labels]
    /\ host \in [Requests -> Hosts \cup {Nil}]
    /\ idempotent \in [Requests -> BOOLEAN] /\ hasBody \in [Requests -> BOOLEAN]
    /\ snap \in [Requests -> Snapshots \cup {Nil}]
    /\ via \in [Requests -> Snapshots \cup {Nil}]
    /\ consumed \in [Requests -> BOOLEAN] /\ replayed \in [Requests -> BOOLEAN]
    /\ processed \in [Requests -> Nat]
    /\ outcome \in [Requests -> {Nil, "ok", "error", "notNegotiated"}]

(* A request knows its host once built, and its snapshot once taken.       *)
Equipped ==
    \A r \in Requests :
        /\ pc[r] # "new" => host[r] \in Hosts
        /\ pc[r] \notin {"new", "snapshot"} => snap[r] \in Snapshots

(* How often a server may have acted on a request, by its position.        *)
Attempts ==
    \A r \in Requests :
        /\ pc[r] \in {"new", "snapshot", "route", "getH2", "inH2"} => processed[r] = 0
        /\ pc[r] \in {"remember", "getH1", "inH1"} =>
               processed[r] = 0 \/ (processed[r] = 1 /\ idempotent[r])
        /\ processed[r] \in 0 .. 2

(* Only requests that are not forced to HTTP/1.1 use HTTP/2, and only a    *)
(* finished one may have been told that it was not negotiated.             *)
Negotiation ==
    \A r \in Requests :
        /\ pc[r] \in {"getH2", "inH2"} => snap[r].proto # "h1"
        /\ outcome[r] = "notNegotiated" => pc[r] = "done"

(* Until a setter races a request, everything cached or held is current.   *)
Current ==
    ~raced =>
        /\ h1 # Nil => h1.epoch = epoch
        /\ h2 # Nil => h2.epoch = epoch
        /\ \A r \in Requests : HoldsSnapshot(r) => snap[r].epoch = epoch

(* A request that took no snapshot yet used no transport.                  *)
ViaLater == \A r \in Requests : pc[r] \in {"new", "snapshot"} => via[r] = Nil

TripInv ==
    /\ Types /\ Equipped /\ Attempts /\ Negotiation /\ Current /\ ViaLater
    /\ NonIdempotentOnce /\ FallbackHidden /\ StaleOnlyAfterRace /\ HeadersFollowPreset

-----------------------------------------------------------------------------
(* NewClient establishes the invariant.                                    *)
LEMMA InitTripInv == Init => TripInv
<1> SUFFICES ASSUME Init PROVE TripInv
  OBVIOUS
<1>0. preset \in Presets
  BY PresetAssumption DEF Init
<1>1. Types
  BY <1>0, PresetAssumption
     DEF Init, Types, Labels, Protos, ApplyDefaults
<1>2. Equipped /\ Negotiation /\ ViaLater
  BY NilAssumption DEF Init, Equipped, Negotiation, ViaLater
<1>3. Attempts /\ NonIdempotentOnce
  BY DEF Init, Attempts, NonIdempotentOnce
<1>4. Current /\ StaleOnlyAfterRace
  BY DEF Init, Current, StaleOnlyAfterRace, HoldsSnapshot
<1>5. FallbackHidden
  BY NilAssumption DEF Init, FallbackHidden
<1>6. HeadersFollowPreset
  BY <1>0, PresetAssumption DEF Init, HeadersFollowPreset, ApplyDefaults
<1> QED BY <1>1, <1>2, <1>3, <1>4, <1>5, <1>6 DEF TripInv
(* SetBrowser replaces preset and headers together and empties the caches. *)
LEMMA SetBrowserKeeps ==
    ASSUME TripInv, NEW p \in Presets, SetBrowser(p)
    PROVE  TripInv'
<1> USE DEF TripInv, SetBrowser, Invalidate, MaySet, requestVars, tripVars
<1>1. Types'
  BY PresetAssumption DEF Types, Equipped, Attempts, Labels, Protos, Snapshots, ApplyDefaults
<1>2. Equipped' /\ ViaLater'
  BY DEF Types, Equipped, ViaLater, Labels
<1>3. Attempts' /\ NonIdempotentOnce'
  BY DEF Types, Attempts, NonIdempotentOnce, Labels
<1>4. Negotiation' /\ FallbackHidden'
  BY DEF Types, Equipped, Negotiation, FallbackHidden, Labels, Protos, Snapshots
<1>5. Current'
  BY DEF Types, Equipped, Current, HoldsSnapshot, Labels, Snapshots
<1>6. StaleOnlyAfterRace'
  BY DEF Types, Equipped, Current, ViaLater, StaleOnlyAfterRace, HoldsSnapshot, Labels, Snapshots
<1>7. HeadersFollowPreset'
  BY PresetAssumption DEF Types, HeadersFollowPreset, ApplyDefaults
<1> QED BY <1>1, <1>2, <1>3, <1>4, <1>5, <1>6, <1>7

(* The protocol setters empty the caches.                                  *)
LEMMA SetProtoKeeps ==
    ASSUME TripInv, NEW p \in Protos, SetProto(p)
    PROVE  TripInv'
<1> USE DEF TripInv, SetProto, Invalidate, MaySet, requestVars, tripVars
<1>1. Types'
  BY DEF Types, Equipped, Attempts, Labels, Protos, Snapshots
<1>2. Equipped' /\ ViaLater'
  BY DEF Types, Equipped, ViaLater, Labels
<1>3. Attempts' /\ NonIdempotentOnce'
  BY DEF Types, Attempts, NonIdempotentOnce, Labels
<1>4. Negotiation' /\ FallbackHidden'
  BY DEF Types, Equipped, Negotiation, FallbackHidden, Labels, Protos, Snapshots
<1>5. Current'
  BY DEF Types, Equipped, Current, HoldsSnapshot, Labels, Snapshots
<1>6. StaleOnlyAfterRace'
  BY DEF Types, Equipped, Current, ViaLater, StaleOnlyAfterRace, HoldsSnapshot, Labels, Snapshots
<1>7. HeadersFollowPreset'
  BY DEF Types, HeadersFollowPreset
<1> QED BY <1>1, <1>2, <1>3, <1>4, <1>5, <1>6, <1>7

(* So do the network setters.                                              *)
LEMMA SetNetworkKeeps ==
    ASSUME TripInv, SetNetwork
    PROVE  TripInv'
<1> USE DEF TripInv, SetNetwork, Invalidate, MaySet, requestVars, tripVars
<1>1. Types'
  BY DEF Types, Equipped, Attempts, Labels, Protos, Snapshots
<1>2. Equipped' /\ ViaLater'
  BY DEF Types, Equipped, ViaLater, Labels
<1>3. Attempts' /\ NonIdempotentOnce'
  BY DEF Types, Attempts, NonIdempotentOnce, Labels
<1>4. Negotiation' /\ FallbackHidden'
  BY DEF Types, Equipped, Negotiation, FallbackHidden, Labels, Protos, Snapshots
<1>5. Current'
  BY DEF Types, Equipped, Current, HoldsSnapshot, Labels, Snapshots
<1>6. StaleOnlyAfterRace'
  BY DEF Types, Equipped, Current, ViaLater, StaleOnlyAfterRace, HoldsSnapshot, Labels, Snapshots
<1>7. HeadersFollowPreset'
  BY DEF Types, HeadersFollowPreset
<1> QED BY <1>1, <1>2, <1>3, <1>4, <1>5, <1>6, <1>7

(* SetHeader makes a header the user's.                                    *)
LEMMA SetHeaderKeeps ==
    ASSUME TripInv, NEW n \in HeaderNames, SetHeader(n)
    PROVE  TripInv'
<1> USE DEF TripInv, SetHeader, cacheVars, requestVars, tripVars
<1>1. Types'
  BY DEF Types, Equipped, Attempts, Labels, Protos, Snapshots
<1>2. Equipped' /\ ViaLater'
  BY DEF Types, Equipped, ViaLater, Labels
<1>3. Attempts' /\ NonIdempotentOnce'
  BY DEF Types, Attempts, NonIdempotentOnce, Labels
<1>4. Negotiation' /\ FallbackHidden'
  BY DEF Types, Equipped, Negotiation, FallbackHidden, Labels, Protos, Snapshots
<1>5. Current'
  BY DEF Types, Equipped, Current, HoldsSnapshot, Labels, Snapshots
<1>6. StaleOnlyAfterRace'
  BY DEF Types, Equipped, Current, ViaLater, StaleOnlyAfterRace, HoldsSnapshot, Labels, Snapshots
<1>7. HeadersFollowPreset'
  BY DEF Types, HeadersFollowPreset
<1> QED BY <1>1, <1>2, <1>3, <1>4, <1>5, <1>6, <1>7

(* Impersonate, in call(), changes the preset alone.                       *)
LEMMA ImpersonateKeeps ==
    ASSUME TripInv, NEW p \in Presets, Impersonate(p)
    PROVE  TripInv'
<1> USE DEF TripInv, Impersonate, cacheVars, requestVars, tripVars
<1>1. Types'
  BY PresetAssumption DEF Types, Equipped, Attempts, Labels, Protos, Snapshots
<1>2. Equipped' /\ ViaLater'
  BY DEF Types, Equipped, ViaLater, Labels
<1>3. Attempts' /\ NonIdempotentOnce'
  BY DEF Types, Attempts, NonIdempotentOnce, Labels
<1>4. Negotiation' /\ FallbackHidden'
  BY DEF Types, Equipped, Negotiation, FallbackHidden, Labels, Protos, Snapshots
<1>5. Current'
  BY DEF Types, Equipped, Current, HoldsSnapshot, Labels, Snapshots
<1>6. StaleOnlyAfterRace'
  BY DEF Types, Equipped, Current, ViaLater, StaleOnlyAfterRace, HoldsSnapshot, Labels, Snapshots
<1>7. HeadersFollowPreset'
  BY PresetAssumption DEF Types, HeadersFollowPreset
<1> QED BY <1>1, <1>2, <1>3, <1>4, <1>5, <1>6, <1>7

(* A request that is built has a host and was not sent.                    *)
LEMMA BuildKeeps ==
    ASSUME TripInv, NEW r \in Requests, NEW h \in Hosts, NEW idem \in BOOLEAN, NEW body \in BOOLEAN, Build(r, h, idem, body)
    PROVE  TripInv'
<1> USE DEF TripInv, Build, Goto, clientVars, cacheVars, tripVars
<1>1. Types'
  BY DEF Types, Equipped, Attempts, Labels, Protos, Snapshots
<1>2. Equipped' /\ ViaLater'
  BY DEF Types, Equipped, ViaLater, Labels
<1>3. Attempts' /\ NonIdempotentOnce'
  BY DEF Types, Attempts, NonIdempotentOnce, Labels
<1>4. Negotiation' /\ FallbackHidden'
  BY DEF Types, Equipped, Negotiation, FallbackHidden, Labels, Protos, Snapshots
<1>5. Current'
  BY DEF Types, Equipped, Current, HoldsSnapshot, Labels, Snapshots
<1>6. StaleOnlyAfterRace'
  BY DEF Types, Equipped, Current, ViaLater, StaleOnlyAfterRace, HoldsSnapshot, Labels, Snapshots
<1>7. HeadersFollowPreset'
  BY DEF Types, HeadersFollowPreset
<1> QED BY <1>1, <1>2, <1>3, <1>4, <1>5, <1>6, <1>7

(* A snapshot is current when it is taken.                                 *)
LEMMA SnapshotKeeps ==
    ASSUME TripInv, NEW r \in Requests, Snapshot(r)
    PROVE  TripInv'
<1> USE DEF TripInv, Snapshot, Goto, clientVars, cacheVars, requestVars
<1>1. Types'
  BY DEF Types, Equipped, Attempts, Labels, Protos, Snapshots
<1>2. Equipped' /\ ViaLater'
  BY DEF Types, Equipped, ViaLater, Labels, Snapshots, Protos
<1>3. Attempts' /\ NonIdempotentOnce'
  BY DEF Types, Attempts, NonIdempotentOnce, Labels
<1>4. Negotiation' /\ FallbackHidden'
  BY DEF Types, Equipped, Negotiation, FallbackHidden, Labels, Protos, Snapshots
<1>5. Current'
  BY DEF Types, Equipped, Current, HoldsSnapshot, Labels, Snapshots
<1>6. StaleOnlyAfterRace'
  BY DEF Types, Equipped, Current, ViaLater, StaleOnlyAfterRace, HoldsSnapshot, Labels, Snapshots
<1>7. HeadersFollowPreset'
  BY DEF Types, HeadersFollowPreset
<1> QED BY <1>1, <1>2, <1>3, <1>4, <1>5, <1>6, <1>7

(* Routing sends no request forced to HTTP/1.1 to HTTP/2.                  *)
LEMMA RouteKeeps ==
    ASSUME TripInv, NEW r \in Requests, Route(r)
    PROVE  TripInv'
<1> USE DEF TripInv, Route, Goto, clientVars, cacheVars, requestVars, tripVars
<1>1. Types'
  BY DEF Types, Equipped, Attempts, Labels, Protos, Snapshots
<1>2. Equipped' /\ ViaLater'
  BY DEF Types, Equipped, ViaLater, Labels
<1>3. Attempts' /\ NonIdempotentOnce'
  BY DEF Types, Attempts, NonIdempotentOnce, Labels
<1>4. Negotiation' /\ FallbackHidden'
  BY DEF Types, Equipped, Negotiation, FallbackHidden, Labels, Protos, Snapshots
<1>5. Current'
  BY DEF Types, Equipped, Current, HoldsSnapshot, Labels, Snapshots
<1>6. StaleOnlyAfterRace'
  BY DEF Types, Equipped, Current, ViaLater, StaleOnlyAfterRace, HoldsSnapshot, Labels, Snapshots
<1>7. HeadersFollowPreset'
  BY DEF Types, HeadersFollowPreset
<1> QED BY <1>1, <1>2, <1>3, <1>4, <1>5, <1>6, <1>7

(* A cached or new HTTP/2 transport is as current as the snapshot.         *)
LEMMA GetH2Keeps ==
    ASSUME TripInv, NEW r \in Requests, GetH2(r)
    PROVE  TripInv'
<1> USE DEF TripInv, GetH2, Goto, clientVars, requestVars
<1>1. Types'
  BY DEF Types, Equipped, Attempts, Labels, Protos, Snapshots
<1>2. Equipped' /\ ViaLater'
  BY DEF Types, Equipped, ViaLater, Labels
<1>3. Attempts' /\ NonIdempotentOnce'
  BY DEF Types, Attempts, NonIdempotentOnce, Labels
<1>4. Negotiation' /\ FallbackHidden'
  BY DEF Types, Equipped, Negotiation, FallbackHidden, Labels, Protos, Snapshots
<1>5. Current'
  BY DEF Types, Equipped, Current, HoldsSnapshot, Labels, Snapshots
<1>6. StaleOnlyAfterRace'
  BY DEF Types, Equipped, Current, ViaLater, StaleOnlyAfterRace, HoldsSnapshot, Labels, Snapshots
<1>7. HeadersFollowPreset'
  BY DEF Types, HeadersFollowPreset
<1> QED BY <1>1, <1>2, <1>3, <1>4, <1>5, <1>6, <1>7

(* So is a cached or new HTTP/1.1 transport.                               *)
LEMMA GetH1Keeps ==
    ASSUME TripInv, NEW r \in Requests, GetH1(r)
    PROVE  TripInv'
<1> USE DEF TripInv, GetH1, Goto, clientVars, requestVars
<1>1. Types'
  BY DEF Types, Equipped, Attempts, Labels, Protos, Snapshots
<1>2. Equipped' /\ ViaLater'
  BY DEF Types, Equipped, ViaLater, Labels
<1>3. Attempts' /\ NonIdempotentOnce'
  BY DEF Types, Attempts, NonIdempotentOnce, Labels
<1>4. Negotiation' /\ FallbackHidden'
  BY DEF Types, Equipped, Negotiation, FallbackHidden, Labels, Protos, Snapshots
<1>5. Current'
  BY DEF Types, Equipped, Current, HoldsSnapshot, Labels, Snapshots
<1>6. StaleOnlyAfterRace'
  BY DEF Types, Equipped, Current, ViaLater, StaleOnlyAfterRace, HoldsSnapshot, Labels, Snapshots
<1>7. HeadersFollowPreset'
  BY DEF Types, HeadersFollowPreset
<1> QED BY <1>1, <1>2, <1>3, <1>4, <1>5, <1>6, <1>7

(* A fallback happens before anything was sent.                            *)
LEMMA H2NotNegotiatedKeeps ==
    ASSUME TripInv, NEW r \in Requests, H2NotNegotiated(r)
    PROVE  TripInv'
<1> USE DEF TripInv, H2NotNegotiated, AfterH2Error, Retries, Return, Goto, clientVars, cacheVars, requestVars
<1>1. Types'
  BY NilAssumption DEF Types, Equipped, Attempts, Labels, Protos, Snapshots
<1>2. Equipped' /\ ViaLater'
  BY DEF Types, Equipped, ViaLater, Labels
<1>3. Attempts' /\ NonIdempotentOnce'
  BY DEF Types, Attempts, NonIdempotentOnce, Labels
<1>4. Negotiation' /\ FallbackHidden'
  BY NilAssumption DEF Types, Equipped, Negotiation, FallbackHidden, Labels, Protos, Snapshots
<1>5. Current'
  BY DEF Types, Equipped, Current, HoldsSnapshot, Labels, Snapshots
<1>6. StaleOnlyAfterRace'
  BY DEF Types, Equipped, Current, ViaLater, StaleOnlyAfterRace, HoldsSnapshot, Labels, Snapshots
<1>7. HeadersFollowPreset'
  BY DEF Types, HeadersFollowPreset
<1> QED BY <1>1, <1>2, <1>3, <1>4, <1>5, <1>6, <1>7

(* An answered request was acted on once.                                  *)
LEMMA H2AnsweredKeeps ==
    ASSUME TripInv, NEW r \in Requests, H2Answered(r)
    PROVE  TripInv'
<1> USE DEF TripInv, H2Answered, Return, Goto, clientVars, cacheVars, requestVars
<1>1. Types'
  BY NilAssumption DEF Types, Equipped, Attempts, Labels, Protos, Snapshots
<1>2. Equipped' /\ ViaLater'
  BY DEF Types, Equipped, ViaLater, Labels
<1>3. Attempts' /\ NonIdempotentOnce'
  BY DEF Types, Attempts, NonIdempotentOnce, Labels
<1>4. Negotiation' /\ FallbackHidden'
  BY NilAssumption DEF Types, Equipped, Negotiation, FallbackHidden, Labels, Protos, Snapshots
<1>5. Current'
  BY DEF Types, Equipped, Current, HoldsSnapshot, Labels, Snapshots
<1>6. StaleOnlyAfterRace'
  BY DEF Types, Equipped, Current, ViaLater, StaleOnlyAfterRace, HoldsSnapshot, Labels, Snapshots
<1>7. HeadersFollowPreset'
  BY DEF Types, HeadersFollowPreset
<1> QED BY <1>1, <1>2, <1>3, <1>4, <1>5, <1>6, <1>7

(* After another failure only idempotent requests go on.                   *)
LEMMA H2FailedKeeps ==
    ASSUME TripInv, NEW r \in Requests, NEW sent \in BOOLEAN, NEW acted \in BOOLEAN, H2Failed(r, sent, acted)
    PROVE  TripInv'
<1> USE DEF TripInv, H2Failed, AfterH2Error, Retries, Return, Goto, clientVars, cacheVars, requestVars
<1>1. Types'
  BY NilAssumption DEF Types, Equipped, Attempts, Labels, Protos, Snapshots
<1>2. Equipped' /\ ViaLater'
  BY DEF Types, Equipped, ViaLater, Labels
<1>3. Attempts' /\ NonIdempotentOnce'
  BY DEF Types, Attempts, NonIdempotentOnce, Labels
<1>4. Negotiation' /\ FallbackHidden'
  BY NilAssumption DEF Types, Equipped, Negotiation, FallbackHidden, Labels, Protos, Snapshots
<1>5. Current'
  BY DEF Types, Equipped, Current, HoldsSnapshot, Labels, Snapshots
<1>6. StaleOnlyAfterRace'
  BY DEF Types, Equipped, Current, ViaLater, StaleOnlyAfterRace, HoldsSnapshot, Labels, Snapshots
<1>7. HeadersFollowPreset'
  BY DEF Types, HeadersFollowPreset
<1> QED BY <1>1, <1>2, <1>3, <1>4, <1>5, <1>6, <1>7

(* Remembering a host changes no request's account.                        *)
LEMMA RememberNoH2Keeps ==
    ASSUME TripInv, NEW r \in Requests, RememberNoH2(r)
    PROVE  TripInv'
<1> USE DEF TripInv, RememberNoH2, Goto, clientVars, requestVars, tripVars
<1>1. Types'
  BY DEF Types, Equipped, Attempts, Labels, Protos, Snapshots
<1>2. Equipped' /\ ViaLater'
  BY DEF Types, Equipped, ViaLater, Labels
<1>3. Attempts' /\ NonIdempotentOnce'
  BY DEF Types, Attempts, NonIdempotentOnce, Labels
<1>4. Negotiation' /\ FallbackHidden'
  BY DEF Types, Equipped, Negotiation, FallbackHidden, Labels, Protos, Snapshots
<1>5. Current'
  BY DEF Types, Equipped, Current, HoldsSnapshot, Labels, Snapshots
<1>6. StaleOnlyAfterRace'
  BY DEF Types, Equipped, Current, ViaLater, StaleOnlyAfterRace, HoldsSnapshot, Labels, Snapshots
<1>7. HeadersFollowPreset'
  BY DEF Types, HeadersFollowPreset
<1> QED BY <1>1, <1>2, <1>3, <1>4, <1>5, <1>6, <1>7

(* The HTTP/1.1 attempt is the last one.                                   *)
LEMMA H1RoundTripKeeps ==
    ASSUME TripInv, NEW r \in Requests, NEW ok \in BOOLEAN, NEW acted \in BOOLEAN, H1RoundTrip(r, ok, acted)
    PROVE  TripInv'
<1> USE DEF TripInv, H1RoundTrip, Return, Goto, clientVars, cacheVars, requestVars
<1>1. Types'
  BY NilAssumption DEF Types, Equipped, Attempts, Labels, Protos, Snapshots
<1>2. Equipped' /\ ViaLater'
  BY DEF Types, Equipped, ViaLater, Labels
<1>3. Attempts' /\ NonIdempotentOnce'
  BY DEF Types, Attempts, NonIdempotentOnce, Labels
<1>4. Negotiation' /\ FallbackHidden'
  BY NilAssumption DEF Types, Equipped, Negotiation, FallbackHidden, Labels, Protos, Snapshots
<1>5. Current'
  BY DEF Types, Equipped, Current, HoldsSnapshot, Labels, Snapshots
<1>6. StaleOnlyAfterRace'
  BY DEF Types, Equipped, Current, ViaLater, StaleOnlyAfterRace, HoldsSnapshot, Labels, Snapshots
<1>7. HeadersFollowPreset'
  BY DEF Types, HeadersFollowPreset
<1> QED BY <1>1, <1>2, <1>3, <1>4, <1>5, <1>6, <1>7

-----------------------------------------------------------------------------
(* Every step of a request keeps the invariant.                            *)
LEMMA RequestStepKeeps ==
    ASSUME TripInv, NEW r \in Requests, RequestStep(r)
    PROVE  TripInv'
<1>1. CASE \E h \in Hosts, idem, body \in BOOLEAN : Build(r, h, idem, body)
  BY <1>1, BuildKeeps
<1>2. CASE Snapshot(r) \/ Route(r) \/ GetH2(r) \/ GetH1(r)
  BY <1>2, SnapshotKeeps, RouteKeeps, GetH2Keeps, GetH1Keeps
<1>3. CASE H2NotNegotiated(r) \/ H2Answered(r) \/ RememberNoH2(r)
  BY <1>3, H2NotNegotiatedKeeps, H2AnsweredKeeps, RememberNoH2Keeps
<1>4. CASE \E sent, acted \in BOOLEAN : H2Failed(r, sent, acted)
  BY <1>4, H2FailedKeeps
<1>5. CASE \E ok, acted \in BOOLEAN : H1RoundTrip(r, ok, acted)
  BY <1>5, H1RoundTripKeeps
<1> QED BY <1>1, <1>2, <1>3, <1>4, <1>5 DEF RequestStep

(* The invariant is inductive.                                             *)
LEMMA NextTripInv == ASSUME TripInv, [Next]_vars PROVE TripInv'
<1>1. CASE \E p \in Presets : SetBrowser(p) \/ Impersonate(p)
  BY <1>1, SetBrowserKeeps, ImpersonateKeeps
<1>2. CASE \E p \in Protos : SetProto(p)
  BY <1>2, SetProtoKeeps
<1>3. CASE SetNetwork
  BY <1>3, SetNetworkKeeps
<1>4. CASE \E n \in HeaderNames : SetHeader(n)
  BY <1>4, SetHeaderKeeps
<1>5. CASE \E r \in Requests : RequestStep(r)
  BY <1>5, RequestStepKeeps
<1>6. CASE UNCHANGED vars
  <2> USE <1>6 DEF TripInv, vars, clientVars, cacheVars, requestVars, tripVars
  <2>1. Types' /\ Equipped' /\ Attempts' /\ Negotiation' /\ ViaLater'
    BY DEF Types, Equipped, Attempts, Negotiation, ViaLater
  <2>2. Current' /\ StaleOnlyAfterRace'
    BY DEF Current, HoldsSnapshot, StaleOnlyAfterRace
  <2>3. NonIdempotentOnce' /\ FallbackHidden' /\ HeadersFollowPreset'
    BY DEF NonIdempotentOnce, FallbackHidden, HeadersFollowPreset
  <2> QED BY <2>1, <2>2, <2>3
<1> QED BY <1>1, <1>2, <1>3, <1>4, <1>5, <1>6 DEF Next

(* The invariant holds in every reachable state.                           *)
LEMMA TripInvHolds == Spec => []TripInv
<1> QED BY InitTripInv, NextTripInv, PTL DEF Spec

-----------------------------------------------------------------------------
(* Type correctness of the client and its round tripper; among the types   *)
(* is that at most two attempts of RoundTrip reach a server.               *)
THEOREM TripTypeCorrect == Spec => []TypeOK
<1>1. TripInv => TypeOK
  <2> SUFFICES ASSUME TripInv PROVE TypeOK
    OBVIOUS
  <2>1. processed \in [Requests -> 0 .. 2]
    BY DEF TripInv, Types, Attempts
  <2> QED BY <2>1 DEF TripInv, Types, TypeOK, Labels
<1> QED BY <1>1, TripInvHolds, PTL

(* The retry over HTTP/1.1 never repeats a request that is not idempotent  *)
(* after a server may have acted on it, for any number of requests, hosts  *)
(* and failures.                                                           *)
THEOREM NonIdempotentOnceAlways == Spec => []NonIdempotentOnce
<1>1. TripInv => NonIdempotentOnce
  BY DEF TripInv
<1> QED BY <1>1, TripInvHolds, PTL

(* In automatic mode protocolFallbackError never reaches the caller,       *)
(* whatever the setters do meanwhile.                                      *)
THEOREM FallbackHiddenAlways == Spec => []FallbackHidden
<1>1. TripInv => FallbackHidden
  BY DEF TripInv
<1> QED BY <1>1, TripInvHolds, PTL

(* The race between snapshot() and invalidate() is the only way for a      *)
(* request to go out with settings older than its snapshot.                *)
THEOREM StaleOnlyAfterRaceAlways == Spec => []StaleOnlyAfterRace
<1>1. TripInv => StaleOnlyAfterRace
  BY DEF TripInv
<1> QED BY <1>1, TripInvHolds, PTL

(* No sequence of SetBrowser and SetHeader loses a header of the user or   *)
(* keeps the value of another preset for a name the current one defines.   *)
THEOREM HeadersFollowPresetAlways == Spec => []HeadersFollowPreset
<1>1. TripInv => HeadersFollowPreset
  BY DEF TripInv
<1> QED BY <1>1, TripInvHolds, PTL
=============================================================================
