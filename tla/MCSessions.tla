------------------------------ MODULE MCSessions -------------------------------
(***************************************************************************)
(* TLC instance of three kinds of connection that share no state: an RTSP  *)
(* session, an MPEG-TS ingest, and RTMP tunnelled over HTTP.  A behaviour  *)
(* is one of a single part; the others stay in an initial state.           *)
(***************************************************************************)
EXTENDS RtspSession, TsIngest, HttpTunnel

VARIABLE part

\* The audio pid moves between the two tables; an ADTS frame takes two packets.
MCPmts == {[audio |-> 6, video |-> 5], [audio |-> 7, video |-> 5]}
MCVideo == <<<<"sps", "pps">>, <<"slice", "more", "slice">>>>
MCAudio == <<<<"adts", "more">>>>
MCSteps == {-1, 3, NoPts}

SessionInit ==
  /\ part \in {"rtsp", "ts", "tunnel"}
  /\ RtspInit /\ TsInit /\ TunnelInit
  /\ part # "rtsp" => role = "server" /\ publisher

SessionNext ==
  \/ /\ part = "rtsp" /\ RtspNext
     /\ UNCHANGED <<tsVars, tunnelVars, part>>
  \/ /\ part = "ts" /\ TsNext
     /\ UNCHANGED <<rtspVars, tunnelVars, part>>
  \/ /\ part = "tunnel" /\ TunnelNext
     /\ UNCHANGED <<rtspVars, tsVars, part>>
=============================================================================
