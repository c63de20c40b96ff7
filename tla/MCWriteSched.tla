---------------------------- MODULE MCWriteSched ----------------------------
(* Instances of WriteSched for TLC.                                        *)
EXTENDS WriteSched, TLC

CONSTANTS s1, s2, s3

StreamSymmetry == Permutations(Streams)
MCClasses == {<<0, 0>>, <<0, 1>>, <<1, 1>>}
MCPayloads == {<<0, FALSE>>, <<3, TRUE>>}
=============================================================================
