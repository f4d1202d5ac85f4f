---------------------------- MODULE MCLiveStreams ----------------------------
(***************************************************************************)
(* TLC instance of the two halves of the way of a live stream: how the     *)
(* streams of an application are made and linked, and what becomes of the  *)
(* video of a publisher that is sent as RTP and taken in again.  They      *)
(* share no state: a behaviour is one of a single half, the other stays in *)
(* an initial state.                                                       *)
(***************************************************************************)
EXTENDS RtmpStreams, RtpMedia

VARIABLE part

Symmetry == Permutations(Conns)

LiveInit ==
  /\ part \in {"streams", "rtp"}
  /\ Init /\ RtpInit
  /\ part = "streams" => sent.first = 1

LiveNext ==
  \/ part = "streams" /\ Next /\ UNCHANGED <<rtpVars, part>>
  \/ part = "rtp" /\ RtpNext /\ UNCHANGED <<vars, part>>

LiveSpec == LiveInit /\ [][LiveNext]_<<vars, rtpVars, part>>
=============================================================================
