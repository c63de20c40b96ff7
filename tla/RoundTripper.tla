---------------------------- MODULE RoundTripper ----------------------------
(***************************************************************************)
(* The client's round tripper (client/transport.go) under a Client whose   *)
(* settings other goroutines change meanwhile (client/client.go): the      *)
(* snapshot a request takes, the two transports that are built on demand   *)
(* and cached, the memory of hosts without HTTP/2, and the fallback and    *)
(* retry over HTTP/1.1.                                                    *)
(*                                                                         *)
(* Every action is one critical section of c.mu or rt.mu, or one call into *)
(* a transport.  A transport stands for the snapshot captured by its dial  *)
(* closure and fingerprint; an epoch counter, bumped by every invalidate,  *)
(* dates snapshots and the network settings in them (proxy, roots); the    *)
(* code has no such counter.                                               *)
(***************************************************************************)
EXTENDS Integers, FiniteSets

CONSTANTS
    Requests, Hosts, Presets, HeaderNames,
    PlainHosts,       \* hosts addressed by http:// URLs
    H1OnlyHosts,      \* servers that negotiate http/1.1
    H2Presets,        \* presets with preset.HTTP2 # nil
    DefaultPreset,    \* preset.Builtin().Lookup("chrome")
    HeadersOf,        \* [Presets -> names with a value in Headers.Values]
    MaxSets,          \* bound on calls of the setters
    Nil,              \* no transport, no header, no result yet
    User              \* owner of a header value the user set

ASSUME PresetAssumption ==
    /\ H2Presets \subseteq Presets /\ DefaultPreset \in Presets
    /\ HeadersOf \in [Presets -> SUBSET HeaderNames]

ASSUME HostAssumption ==
    PlainHosts \subseteq Hosts /\ H1OnlyHosts \subseteq Hosts /\ MaxSets \in Nat

ASSUME NilAssumption == Nil \notin {"ok", "error", "notNegotiated"}

Protos == {"auto", "h1", "h2"}    \* c.forceProto: "", "h1", "h2"

VARIABLES
    ctor,            \* "NewClient" or "call" (the module-level helpers)
    preset,          \* c.preset
    forceProto,      \* c.forceProto
    defaultHeaders,  \* c.defaultHeaders: whose value a name carries, or Nil
    explicitHeaders, \* c.explicitHeaders
    h1, h2,          \* rt.h1, rt.h2: the snapshot they were built from, or Nil
    noH2,            \* rt.noH2
    epoch,           \* how often invalidate has run
    raced,           \* invalidate ran while a request held a snapshot
    pc,              \* where each request's RoundTrip is
    host, idempotent, hasBody, \* the request's URL, method and body
    snap,            \* its dialSnapshot
    via,             \* the transport it used last
    consumed,        \* req.Body was read by a failed attempt
    replayed,        \* a later attempt was started with that body
    processed,       \* how often a server may have acted on it
    outcome          \* what RoundTrip returned

clientVars == <<ctor, preset, forceProto, defaultHeaders, explicitHeaders>>
cacheVars == <<h1, h2, noH2, epoch, raced>>
requestVars == <<host, idempotent, hasBody>>
tripVars == <<snap, via, consumed, replayed, processed, outcome>>
vars == <<clientVars, cacheVars, pc, requestVars, tripVars>>

(* Variants of the definitions below ("Mutant" in their names) are         *)
(* plausible slips of the code: each breaks a property the runs check.     *)
ApplyDefaultsMutant(p, hs, explicit) ==       \* explicit headers are overwritten
    [n \in HeaderNames |-> IF n \in HeadersOf[p] THEN p ELSE hs[n]]

(* applyPresetDefaultsLocked.                                              *)
ApplyDefaults(p, hs, explicit) ==
    [n \in HeaderNames |-> IF n \in HeadersOf[p] \ explicit THEN p ELSE hs[n]]

(* NewClient; call() also starts from NewClient() without options.         *)
Init ==
    /\ ctor \in {"NewClient", "call"}
    /\ preset \in IF ctor = "call" THEN {DefaultPreset} ELSE Presets
    /\ forceProto = "auto"
    /\ defaultHeaders = ApplyDefaults(preset, [n \in HeaderNames |-> Nil], {})
    /\ explicitHeaders = {}
    /\ h1 = Nil /\ h2 = Nil /\ noH2 = {} /\ epoch = 0 /\ raced = FALSE
    /\ pc = [r \in Requests |-> "new"]
    /\ host = [r \in Requests |-> Nil]
    /\ idempotent = [r \in Requests |-> FALSE] /\ hasBody = [r \in Requests |-> FALSE]
    /\ snap = [r \in Requests |-> Nil] /\ via = [r \in Requests |-> Nil]
    /\ consumed = [r \in Requests |-> FALSE] /\ replayed = [r \in Requests |-> FALSE]
    /\ processed = [r \in Requests |-> 0]
    /\ outcome = [r \in Requests |-> Nil]

-----------------------------------------------------------------------------
(* The setters.  All of them hold c.mu and, but for SetHeader, end in      *)
(* rt.invalidate().                                                        *)

(* Places where a request works with a snapshot it took earlier.           *)
HoldsSnapshot(r) == pc[r] \in {"route", "getH2", "inH2", "remember", "getH1"}

InvalidateMutant ==                           \* rt.h2 survives
    /\ h1' = Nil /\ h2' = h2 /\ noH2' = {}
    /\ epoch' = epoch + 1
    /\ raced' = (raced \/ \E r \in Requests : HoldsSnapshot(r))

(* rt.invalidate.                                                          *)
Invalidate ==
    /\ h1' = Nil /\ h2' = Nil /\ noH2' = {}
    /\ epoch' = epoch + 1
    /\ raced' = (raced \/ \E r \in Requests : HoldsSnapshot(r))

MaySet == ctor = "NewClient" /\ epoch < MaxSets

(* SetBrowser, SetPreset and SetRandomBrowser.                             *)
SetBrowser(p) ==
    /\ MaySet
    /\ preset' = p
    /\ defaultHeaders' = ApplyDefaults(p, defaultHeaders, explicitHeaders)
    /\ Invalidate
    /\ UNCHANGED <<ctor, forceProto, explicitHeaders, pc, requestVars, tripVars>>

(* ForceHTTP1, UseHTTP2 and UseAutoProtocol.                               *)
SetProto(p) ==
    /\ MaySet
    /\ forceProto' = p
    /\ Invalidate
    /\ UNCHANGED <<ctor, preset, defaultHeaders, explicitHeaders, pc,
                   requestVars, tripVars>>

(* SetProxy, SetInsecureSkipVerify and SetRootCAs: what they set is only   *)
(* ever read into a snapshot, where the epoch stands for it.               *)
SetNetwork ==
    /\ MaySet
    /\ Invalidate
    /\ UNCHANGED <<ctor, preset, forceProto, defaultHeaders, explicitHeaders, pc,
                   requestVars, tripVars>>

(* SetHeader, SetHeaders.                                                  *)
SetHeader(n) ==
    /\ ctor = "NewClient" /\ n \notin explicitHeaders
    /\ explicitHeaders' = explicitHeaders \cup {n}
    /\ defaultHeaders' = [defaultHeaders EXCEPT ![n] = User]
    /\ UNCHANGED <<ctor, preset, forceProto, cacheVars, pc, requestVars, tripVars>>

(* call() applies Impersonate to the client NewClient() returned.          *)
Impersonate(p) ==
    /\ ctor = "call" /\ \A r \in Requests : pc[r] = "new"
    /\ preset' = p
    /\ UNCHANGED <<ctor, forceProto, defaultHeaders, explicitHeaders,
                   cacheVars, pc, requestVars, tripVars>>

-----------------------------------------------------------------------------
(* One request.                                                            *)

Goto(r, l) == pc' = [pc EXCEPT ![r] = l]

(* RoundTrip returns.                                                      *)
Return(r, o) == Goto(r, "done") /\ outcome' = [outcome EXCEPT ![r] = o]

(* R() and Execute build a request.  A body is always a bytes.Reader, so   *)
(* http.NewRequest gives it a GetBody: it counts as replayable.            *)
Build(r, h, idem, body) ==
    /\ pc[r] = "new" /\ Goto(r, "snapshot")
    /\ host' = [host EXCEPT ![r] = h]
    /\ idempotent' = [idempotent EXCEPT ![r] = idem]
    /\ hasBody' = [hasBody EXCEPT ![r] = body]
    /\ UNCHANGED <<clientVars, cacheVars, tripVars>>

(* rt.snapshot().                                                          *)
Snapshot(r) ==
    /\ pc[r] = "snapshot" /\ Goto(r, "route")
    /\ snap' = [snap EXCEPT ![r] = [preset |-> preset, proto |-> forceProto,
                                    epoch |-> epoch]]
    /\ UNCHANGED <<clientVars, cacheVars, requestVars, via, consumed, replayed,
                   processed, outcome>>

(* The switch of RoundTrip, with hostNoH2.                                 *)
Route(r) ==
    LET overH1 == \/ host[r] \in PlainHosts
                  \/ snap[r].proto = "h1"
                  \/ snap[r].preset \notin H2Presets
                  \/ host[r] \in noH2
    IN  /\ pc[r] = "route" /\ Goto(r, IF overH1 THEN "getH1" ELSE "getH2")
        /\ UNCHANGED <<clientVars, cacheVars, requestVars, tripVars>>

(* h2Transport(snap) builds and caches a transport unless there is one.    *)
GetH2(r) ==
    /\ pc[r] = "getH2" /\ Goto(r, "inH2")
    /\ h2' = IF h2 = Nil THEN snap[r] ELSE h2
    /\ via' = [via EXCEPT ![r] = h2']
    /\ UNCHANGED <<clientVars, h1, noH2, epoch, raced, requestVars, snap, consumed,
                   replayed, processed, outcome>>

(* h1Transport(snap).                                                      *)
GetH1(r) ==
    /\ pc[r] = "getH1" /\ Goto(r, "inH1")
    /\ h1' = IF h1 = Nil THEN snap[r] ELSE h1
    /\ via' = [via EXCEPT ![r] = h1']
    /\ UNCHANGED <<clientVars, h2, noH2, epoch, raced, requestVars, snap, consumed,
                   replayed, processed, outcome>>

-----------------------------------------------------------------------------
RetriesMutant1(r, fallback) == snap[r].proto = "auto"

RetriesMutant2(r, fallback) == snap[r].proto = "auto" /\ idempotent[r]

(* What RoundTrip does when the HTTP/2 attempt fails with fallback (the    *)
(* server did not negotiate h2) or with another error.                     *)
Retries(r, fallback) ==
    snap[r].proto = "auto" /\ (fallback \/ idempotent[r])

AfterH2Error(r, fallback) ==
    IF Retries(r, fallback)
    THEN Goto(r, "remember") /\ UNCHANGED outcome
    ELSE Return(r, IF fallback THEN "notNegotiated" ELSE "error")

(* The dial of the HTTP/2 transport meets an HTTP/1.1 server: the request  *)
(* was not sent.                                                           *)
H2NotNegotiated(r) ==
    /\ pc[r] = "inH2" /\ host[r] \in H1OnlyHosts
    /\ AfterH2Error(r, TRUE)
    /\ UNCHANGED <<clientVars, cacheVars, requestVars, snap, via, consumed, replayed,
                   processed>>

(* The request is answered over HTTP/2.                                    *)
H2Answered(r) ==
    /\ pc[r] = "inH2" /\ host[r] \notin H1OnlyHosts
    /\ Return(r, "ok")
    /\ processed' = [processed EXCEPT ![r] = @ + 1]
    /\ UNCHANGED <<clientVars, cacheVars, requestVars, snap, via, consumed, replayed>>

(* A connection error, a timeout or a cancellation: before the request was *)
(* sent, or after (some of) its body was read and perhaps acted on.        *)
H2Failed(r, sent, acted) ==
    /\ pc[r] = "inH2"
    /\ sent => host[r] \notin H1OnlyHosts
    /\ acted => sent
    /\ AfterH2Error(r, FALSE)
    /\ consumed' = [consumed EXCEPT ![r] = @ \/ (sent /\ hasBody[r])]
    /\ processed' = [processed EXCEPT ![r] = IF acted THEN @ + 1 ELSE @]
    /\ UNCHANGED <<clientVars, cacheVars, requestVars, snap, via, replayed>>

(* rememberNoH2(host).                                                     *)
RememberNoH2(r) ==
    /\ pc[r] = "remember" /\ Goto(r, "getH1")
    /\ noH2' = noH2 \cup {host[r]}
    /\ UNCHANGED <<clientVars, h1, h2, epoch, raced, requestVars, tripVars>>

H1RoundTripMutant(r, ok, acted) ==            \* a failed attempt is made again
    /\ pc[r] = "inH1" /\ Goto(r, IF ok THEN "done" ELSE "getH1")
    /\ processed' = [processed EXCEPT ![r] = IF acted THEN @ + 1 ELSE @]
    /\ UNCHANGED <<clientVars, cacheVars, requestVars, snap, via, consumed, replayed,
                   outcome>>

(* The HTTP/1.1 transport sends the request and reads its body: a body     *)
(* that was read before is short, and the transport fails the request.     *)
H1RoundTrip(r, ok, acted) ==
    /\ pc[r] = "inH1"
    /\ ok => acted /\ ~consumed[r]
    /\ Return(r, IF ok THEN "ok" ELSE "error")
    /\ replayed' = [replayed EXCEPT ![r] = consumed[r]]
    /\ consumed' = [consumed EXCEPT ![r] = hasBody[r]]
    /\ processed' = [processed EXCEPT ![r] = IF acted THEN @ + 1 ELSE @]
    /\ UNCHANGED <<clientVars, cacheVars, requestVars, snap, via>>

RequestStep(r) ==
    \/ \E h \in Hosts, idem, body \in BOOLEAN : Build(r, h, idem, body)
    \/ Snapshot(r) \/ Route(r) \/ GetH2(r) \/ GetH1(r)
    \/ H2NotNegotiated(r) \/ H2Answered(r) \/ RememberNoH2(r)
    \/ \E sent, acted \in BOOLEAN : H2Failed(r, sent, acted)
    \/ \E ok, acted \in BOOLEAN : H1RoundTrip(r, ok, acted)

Next ==
    \/ \E p \in Presets : SetBrowser(p) \/ Impersonate(p)
    \/ \E p \in Protos : SetProto(p)
    \/ SetNetwork
    \/ \E n \in HeaderNames : SetHeader(n)
    \/ \E r \in Requests : RequestStep(r)

Spec == Init /\ [][Next]_vars

-----------------------------------------------------------------------------
(* Properties.                                                             *)

Snapshots == [preset : Presets, proto : Protos, epoch : Nat]

(* Type invariant.                                                         *)
TypeOK ==
    /\ ctor \in {"NewClient", "call"} /\ preset \in Presets
    /\ forceProto \in Protos
    /\ defaultHeaders \in [HeaderNames -> Presets \cup {Nil, User}]
    /\ explicitHeaders \subseteq HeaderNames
    /\ h1 \in Snapshots \cup {Nil} /\ h2 \in Snapshots \cup {Nil}
    /\ noH2 \subseteq Hosts /\ epoch \in Nat /\ raced \in BOOLEAN
    /\ pc \in [Requests -> {"new", "snapshot", "route", "getH2", "inH2", "remember",
                            "getH1", "inH1", "done"}]
    /\ host \in [Requests -> Hosts \cup {Nil}]
    /\ idempotent \in [Requests -> BOOLEAN] /\ hasBody \in [Requests -> BOOLEAN]
    /\ snap \in [Requests -> Snapshots \cup {Nil}]
    /\ via \in [Requests -> Snapshots \cup {Nil}]
    /\ consumed \in [Requests -> BOOLEAN] /\ replayed \in [Requests -> BOOLEAN]
    /\ processed \in [Requests -> 0 .. 2]
    /\ outcome \in [Requests -> {Nil, "ok", "error", "notNegotiated"}]

(* A request whose method is not idempotent is never handed to a server    *)
(* again after one may have acted on it, whatever fails.                   *)
NonIdempotentOnce == \A r \in Requests : processed[r] > 1 => idempotent[r]

(* In automatic mode "the server did not negotiate h2" never reaches the   *)
(* caller: it is answered over HTTP/1.1, or fails there.                   *)
FallbackHidden ==
    \A r \in Requests : outcome[r] = "notNegotiated" => snap[r].proto = "h2"

(* A request goes out with older settings than its snapshot only if some   *)
(* setter ran while another request was between snapshot() and the         *)
(* transports; settings changed in between requests always take effect.    *)
StaleOnlyAfterRace ==
    \A r \in Requests :
        via[r] # Nil /\ via[r].epoch < snap[r].epoch => raced

(* The headers of a Client made by NewClient belong to its preset: every   *)
(* name the preset defines has the preset's value or the user's own, and   *)
(* the user's are never lost to SetBrowser.                                *)
HeadersFollowPreset ==
    ctor = "NewClient" =>
        \A n \in HeaderNames :
            IF n \in explicitHeaders THEN defaultHeaders[n] = User
            ELSE n \in HeadersOf[preset] => defaultHeaders[n] = preset

(* invalidate "drops cached transports and protocol preferences (called    *)
(* when preset/security settings change)": a request never uses a          *)
(* transport built from settings older than its own snapshot.              *)
NoStaleTransport ==
    \A r \in Requests : via[r] # Nil => via[r].epoch >= snap[r].epoch

(* "re-sending would use a corrupt/empty body": no attempt is ever made    *)
(* with a body that a failed attempt already read.                         *)
NoCorruptReplay == \A r \in Requests : ~replayed[r]
=============================================================================
