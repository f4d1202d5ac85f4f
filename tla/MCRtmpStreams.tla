---------------------------- MODULE MCRtmpStreams ----------------------------
(* Instances of RtmpStreams for TLC: two or three connections of any kind,     *)
(* alike until they are made.                                                  *)
EXTENDS RtmpStreams, TLC

Symmetry == Permutations(Conns)
=============================================================================
