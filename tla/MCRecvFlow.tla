----------------------------- MODULE MCRecvFlow -----------------------------
(***************************************************************************)
(* Instances of RecvFlow for TLC.  No symmetry: only s1 is unruly.         *)
(***************************************************************************)
EXTENDS RecvFlow

CONSTANTS s1, s2
=============================================================================
