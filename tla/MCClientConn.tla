---------------------------- MODULE MCClientConn ----------------------------
(* Instances of ClientConn for TLC.                                        *)
EXTENDS ClientConn, TLC

CONSTANTS r1, r2

RequestSymmetry == Permutations(Requests)

Shared == {[strict |-> FALSE, singleUse |-> FALSE]}
Strict == {[strict |-> TRUE, singleUse |-> FALSE]}
SingleUse == {[strict |-> FALSE, singleUse |-> TRUE]}
AnyMode == Shared \cup Strict \cup SingleUse
DefaultModes == Shared \cup SingleUse
=============================================================================
