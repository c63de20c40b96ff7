--------------------------- MODULE MCRoundTripper ---------------------------
(***************************************************************************)
(* Instances of RoundTripper for TLC: a preset chrome with an HTTP/2       *)
(* fingerprint, firefox standing for one without; both define ua.          *)
(***************************************************************************)
EXTENDS RoundTripper, TLC

CONSTANTS r1, r2, old, new, chrome, firefox, ua

MCHeadersOf == [p \in Presets |-> {ua}]

RequestSymmetry == Permutations(Requests)
=============================================================================
