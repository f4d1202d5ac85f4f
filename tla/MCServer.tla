------------------------------- MODULE MCServer -------------------------------
(***************************************************************************)
(* TLC instance of four parts of the server that share no state: the       *)
(* reactor, the shared objects of an application, the relay of streams to  *)
(* and from other servers, and a client of playlists over HTTP.  A         *)
(* behaviour is one of a single part; the others stay in an initial state. *)
(***************************************************************************)
EXTENDS Reactor, SharedObjects, RtmpRelay, HlsClient

VARIABLE part

\* One rendition twice, two in descending order, one without an item.
MCMasters == {<<>>, <<2000, 1000>>, <<1024000, 1000>>}

ServerInit ==
  /\ part \in {"reactor", "objects", "relay", "hls"}
  /\ ReactorInit /\ SoInit /\ RelayInit /\ HlsInit
  /\ part # "reactor" => timerId = 0

ServerNext ==
  \/ part = "reactor" /\ ReactorNext /\ UNCHANGED <<soVars, relayVars, hlsVars, part>>
  \/ part = "objects" /\ SoNext /\ UNCHANGED <<reactorVars, relayVars, hlsVars, part>>
  \/ part = "relay" /\ RelayNext /\ UNCHANGED <<reactorVars, soVars, hlsVars, part>>
  \/ part = "hls" /\ HlsNext /\ UNCHANGED <<reactorVars, soVars, relayVars, part>>
=============================================================================
