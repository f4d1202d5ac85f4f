------------------------------ MODULE RtspSession ------------------------------
(***************************************************************************)
(* One RTSP session: RTSPProtocol, the requests and responses that         *)
(* BaseRTSPAppProtocolHandler handles and sends, and the inbound and       *)
(* outbound connectivity the session owns.  The session serves a player or *)
(* a recorder ("server"), or this server plays from ("pull") or records to *)
(* ("push") another one.  The peer is a mock that sends any request, any   *)
(* response, and sender reports when it likes; strays keeps its conduct.   *)
(***************************************************************************)
EXTENDS Naturals, FiniteSets

CONSTANTS
  MaxBacklog,  \* requests without a response that are tolerated (10)
  MaxRequests  \* bound on _requestSequence

ASSUME RtspAssumption == MaxBacklog \in Nat \ {0} /\ MaxRequests \in Nat

Tracks == {"audio", "video"}
NoTransport == [t \in Tracks |-> "none"]
NoInbound == [there |-> FALSE, added |-> NoTransport, ready |-> FALSE]
NoOutbound == [there |-> FALSE, tcp |-> FALSE, has |-> {}, client |-> NoTransport]
Method(m) == [method |-> m, track |-> "none"]
SetupOf(t) == [method |-> "SETUP", track |-> t]

VARIABLES
  role,      \* whom the session serves, "gone" once it is destroyed
  rtsp,      \* the RTSPProtocol with its custom parameters
  inbound,   \* _pInboundConnectivity: the transport of each added track, and
             \* whether Initialize made its stream
  outbound,  \* _pOutboundConnectivity: its transport, its tracks, and how each
             \* goes to the registered client
  doomed,    \* the UDP receivers that were enqueued and are still read, each
             \* with what became of its connectivity: "cleaned" or "deleted"
  publisher, \* the inbound network stream the session feeds from is there
  asked,     \* history: the transport of the last SETUP of each track
  strays,    \* history: what the peer did that breaks the server
  crashed,   \* history: an object was used that was not there
  misretried \* history: a request was repeated that is not the challenged one

rtspVars == <<role, rtsp, inbound, outbound, doomed, publisher, asked, strays,
              crashed, misretried>>

IsOpen(r) == role = r /\ rtsp.open

-----------------------------------------------------------------------------
(* The session's own operations. *)

\* SendRequestMessage; it fails when the backlog is too long, after the request
\* has joined it.
Sent(s, request) ==
  [s EXCEPT !.sequence = @ + 1, !.last = request,
            !.pending = [n \in DOMAIN @ \cup {s.sequence + 1} |->
                           IF n \in DOMAIN @ THEN @[n] ELSE request]]
Fits(s) == Cardinality(DOMAIN s.pending) <= MaxBacklog

\* The request becomes the session's next step, or the session ends.
Requests(s, request) ==
  LET x == Sent(s, request)
  IN  rtsp' = [x EXCEPT !.open = Fits(x)]

\* GetRequest: the request a response answers is forgotten.
Answered(s, n) ==
  [s EXCEPT !.pending = [k \in DOMAIN @ \ {n} |-> @[k]]]

Closes == rtsp' = [rtsp EXCEPT !.open = FALSE]

\* The UDP receivers a connectivity leaves behind.
LeftBy(conn, what) ==
  {[track |-> t, conn |-> what] : t \in {t \in Tracks : conn.added[t] = "udp"}}

\* GetInboundConnectivity(name, ...): the old one is deleted.
NewInbound ==
  /\ inbound' = [NoInbound EXCEPT !.there = TRUE]
  /\ doomed' = doomed \cup LeftBy(inbound, "deleted")

\* InboundConnectivity::AddTrack: once per track, all by one transport.
CanAdd(t, transport) ==
  /\ inbound.there /\ inbound.added[t] = "none"
  /\ \A u \in Tracks : inbound.added[u] \in {"none", transport}
AddTrack(t, transport) == inbound' = [inbound EXCEPT !.added[t] = transport]

\* Mutant: the connectivity is always made for TCP.
OutboundForTcp(tcp) ==
  IF outbound.there THEN outbound
  ELSE [NoOutbound EXCEPT !.there = TRUE, !.tcp = TRUE]

\* GetOutboundConnectivity: the session keeps the first one it made.
OutboundFor(tcp) ==
  IF outbound.there THEN outbound
  ELSE [NoOutbound EXCEPT !.there = TRUE, !.tcp = tcp]

\* RegisterTCP...Client and RegisterUDP...Client; only a connectivity that was
\* made for UDP has the sockets (_pVideoNATData, _pAudioNATData).
RegisterClient(conn, tracks, tcp) ==
  [conn EXCEPT !.client =
     [t \in Tracks |-> IF t \in tracks THEN (IF tcp THEN "tcp" ELSE "udp") ELSE @[t]]]
LacksSockets(conn, tracks, tcp) == conn.tcp /\ ~tcp /\ tracks # {}

Transport(tcp) == IF tcp THEN "tcp" ELSE "udp"

-----------------------------------------------------------------------------
(* A player or a recorder: HandleRTSPRequest.  The CSeq, the session id and the
   credentials are right, or the session ends (Misses). *)

RtspInit ==
  /\ role \in {"server", "pull", "push"}
  /\ rtsp = [open |-> TRUE, session |-> FALSE, direction |-> "unset",
             waiting |-> {}, ids |-> {}, forceTcp |-> FALSE, ports |-> {},
             channels |-> {}, transports |-> {}, lastSetup |-> "none",
             authenticated |-> FALSE, keepAlive |-> FALSE, sequence |-> 0,
             last |-> Method("none"), pending |-> <<>>]
  /\ inbound = NoInbound /\ outbound = NoOutbound /\ doomed = {}
  /\ publisher \in BOOLEAN /\ asked = NoTransport /\ strays = {}
  /\ crashed = FALSE /\ misretried = FALSE

\* Everything that makes HandleRTSPMessage return false.
Misses ==
  /\ rtsp.open /\ Closes
  /\ UNCHANGED <<role, inbound, outbound, doomed, publisher, asked, strays,
                 crashed, misretried>>

\* TEARDOWN; SetApplication(NULL) takes the handler away, and the loop in
\* SignalInputData goes on to the next message of the same read.
HandleRTSPRequestTearDown(more) ==
  /\ rtsp.open /\ Closes
  /\ strays' = IF more THEN strays \cup {"trailing"} ELSE strays
  /\ crashed' = (crashed \/ more)
  /\ UNCHANGED <<role, inbound, outbound, doomed, publisher, asked, misretried>>

HandleRTSPRequestDescribe ==
  /\ IsOpen("server") /\ publisher
  /\ rtsp' = [rtsp EXCEPT !.direction = "out", !.ids = Tracks]
  /\ UNCHANGED <<role, inbound, outbound, doomed, publisher, asked, strays,
                 crashed, misretried>>

HandleRTSPRequestSetupOutbound(t, tcp) ==
  /\ IsOpen("server") /\ rtsp.direction = "out" /\ publisher
  /\ rtsp' = [rtsp EXCEPT !.session = TRUE, !.forceTcp = tcp,
                          !.channels = IF tcp THEN @ \cup {t} ELSE @,
                          !.ports = IF tcp THEN @ ELSE @ \cup {t}]
  /\ outbound' = [OutboundFor(tcp) EXCEPT !.has = @ \cup {t}]
  /\ asked' = [asked EXCEPT ![t] = Transport(tcp)]
  /\ strays' = IF outbound.there /\ outbound.tcp # tcp
               THEN strays \cup {"mixed"} ELSE strays
  /\ UNCHANGED <<role, inbound, doomed, publisher, crashed, misretried>>

\* A session that was never set up is given a connectivity for TCP.
HandleRTSPRequestPlay ==
  /\ IsOpen("server") /\ rtsp.direction = "out" /\ publisher
  /\ LET conn == OutboundFor(TRUE)
         tracks == IF rtsp.forceTcp THEN rtsp.channels ELSE rtsp.ports
     IN  /\ \A t \in tracks : conn.client[t] = "none"
         /\ outbound' = RegisterClient(conn, tracks, rtsp.forceTcp)
         /\ crashed' = (crashed \/ LacksSockets(conn, tracks, rtsp.forceTcp))
  /\ UNCHANGED <<role, rtsp, inbound, doomed, publisher, asked, strays, misretried>>

HandleRTSPRequestAnnounce(tracks) ==
  /\ IsOpen("server")
  /\ rtsp' = [rtsp EXCEPT !.direction = "in", !.waiting = @ \cup tracks]
  /\ NewInbound
  /\ UNCHANGED <<role, outbound, publisher, asked, strays, crashed, misretried>>

HandleRTSPRequestSetupInbound(t, transport) ==
  /\ IsOpen("server") /\ rtsp.direction = "in"
  /\ t \in rtsp.waiting /\ CanAdd(t, transport)
  /\ AddTrack(t, transport)
  /\ rtsp' = [rtsp EXCEPT !.session = TRUE]
  /\ UNCHANGED <<role, outbound, doomed, publisher, asked, strays, crashed,
                 misretried>>

\* InboundConnectivity::Initialize makes the stream and tells the receivers.
HandleRTSPRequestRecord ==
  /\ IsOpen("server") /\ rtsp.direction = "in" /\ rtsp.waiting # {}
  /\ inbound.there
  /\ inbound' = [inbound EXCEPT !.ready = TRUE]
  /\ UNCHANGED <<role, rtsp, outbound, doomed, publisher, asked, strays, crashed,
                 misretried>>

-----------------------------------------------------------------------------
(* This server as a client: HandleRTSPResponse. *)

\* TriggerPlayOrAnnounce, when the connection is made.
TriggerPlayOrAnnounce ==
  /\ IsOpen("pull") \/ IsOpen("push")
  /\ rtsp.sequence = 0
  /\ \E tcp \in BOOLEAN :
       rtsp' = [Sent(rtsp, Method("OPTIONS")) EXCEPT !.forceTcp = tcp]
  /\ UNCHANGED <<role, inbound, outbound, doomed, publisher, asked, strays,
                 crashed, misretried>>

\* The response with sequence number n is 200 and answers a request for m.
Ok(r, n, m) ==
  /\ IsOpen(r) /\ rtsp.sequence < MaxRequests
  /\ n \in DOMAIN rtsp.pending /\ rtsp.pending[n].method = m

HandleRTSPResponse200Options(n) ==
  /\ Ok(role, n, "OPTIONS")
  /\ LET s == Answered(rtsp, n)
     IN  IF inbound.there \/ outbound.there THEN rtsp' = s
         ELSE \/ role = "pull" /\ Requests(s, Method("DESCRIBE"))
              \/ role = "push" /\ publisher
                 /\ Requests([s EXCEPT !.ids = Tracks], Method("ANNOUNCE"))
  /\ UNCHANGED <<role, inbound, outbound, doomed, publisher, asked, strays,
                 crashed, misretried>>

\* SendSetupTrackMessages: the first waiting track is added, and set up.
SendSetupTrackMessages(s, conn, t) ==
  /\ t \in s.waiting /\ conn.there /\ conn.added[t] = "none"
  /\ inbound' = [conn EXCEPT !.added[t] = Transport(s.forceTcp)]
  /\ Requests([s EXCEPT !.waiting = @ \ {t}], SetupOf(t))

HandleRTSPResponse200Describe(n, tracks) ==
  /\ Ok("pull", n, "DESCRIBE") /\ tracks # {}
  /\ \E t \in tracks :
       SendSetupTrackMessages([Answered(rtsp, n) EXCEPT !.waiting = @ \cup tracks],
                              [NoInbound EXCEPT !.there = TRUE], t)
  /\ doomed' = doomed \cup LeftBy(inbound, "deleted")
  /\ UNCHANGED <<role, outbound, publisher, asked, strays, crashed, misretried>>

\* Mutant: PLAY goes out once one track is left.
NothingWaitsButOne(s) == Cardinality(s.waiting) <= 1

NothingWaits(s) == s.waiting = {}

HandleRTSPResponse200SetupPull(n) ==
  /\ Ok("pull", n, "SETUP")
  /\ LET s == Answered(rtsp, n)
     IN  \/ ~NothingWaits(s) /\ \E t \in Tracks : SendSetupTrackMessages(s, inbound, t)
         \/ NothingWaits(s) /\ Requests(s, Method("PLAY")) /\ UNCHANGED inbound
  /\ UNCHANGED <<role, outbound, doomed, publisher, asked, strays, crashed,
                 misretried>>

\* Initialize, and EnableKeepAlive.
HandleRTSPResponse200Play(n) ==
  /\ Ok("pull", n, "PLAY") /\ inbound.there
  /\ inbound' = [inbound EXCEPT !.ready = TRUE]
  /\ rtsp' = [Answered(rtsp, n) EXCEPT !.keepAlive = TRUE]
  /\ UNCHANGED <<role, outbound, doomed, publisher, asked, strays, crashed,
                 misretried>>

\* The audio track is the first that is set up.
NextId(s) == IF "audio" \in s.ids THEN "audio" ELSE "video"
SetsUpNextId(s, conn) ==
  IF s.ids = {} THEN outbound' = conn /\ Requests(s, Method("RECORD"))
  ELSE LET t == NextId(s)
       IN  /\ outbound' = [conn EXCEPT !.has = @ \cup {t}]
           /\ Requests([s EXCEPT !.ids = @ \ {t}, !.lastSetup = t], SetupOf(t))

HandleRTSPResponse200Announce(n) ==
  /\ Ok("push", n, "ANNOUNCE") /\ publisher /\ rtsp.ids # {}
  /\ SetsUpNextId(Answered(rtsp, n), OutboundFor(rtsp.forceTcp))
  /\ UNCHANGED <<role, inbound, doomed, publisher, asked, strays, crashed,
                 misretried>>

\* The peer's transport must be the one that was proposed.
HandleRTSPResponse200SetupPush(n) ==
  /\ Ok("push", n, "SETUP") /\ publisher
  /\ LET s == [Answered(rtsp, n) EXCEPT
                 !.transports = @ \cup {IF rtsp.lastSetup = "audio" THEN "audio"
                                        ELSE "video"}]
     IN  SetsUpNextId(s, OutboundFor(s.forceTcp))
  /\ asked' = [asked EXCEPT ![rtsp.pending[n].track] = Transport(rtsp.forceTcp)]
  /\ UNCHANGED <<role, inbound, doomed, publisher, strays, crashed, misretried>>

\* Video over TCP alone is registered, and then the session ends all the same.
HandleRTSPResponse200Record(n) ==
  /\ Ok("push", n, "RECORD") /\ publisher
  /\ LET s == Answered(rtsp, n)
         conn == OutboundFor(s.forceTcp)
     IN  /\ \A t \in s.transports : conn.client[t] = "none"
         /\ outbound' = RegisterClient(conn, s.transports, s.forceTcp)
         /\ rtsp' = [s EXCEPT !.open = "audio" \in s.transports
                                       \/ (~s.forceTcp /\ s.transports # {})]
  /\ UNCHANGED <<role, inbound, doomed, publisher, asked, strays, crashed,
                 misretried>>

\* 401, once: SetAuthentication sends the last request again.
HandleRTSPResponse401(n) ==
  /\ IsOpen(role) /\ n \in DOMAIN rtsp.pending /\ rtsp.sequence < MaxRequests
  /\ ~rtsp.authenticated
  /\ Requests([Answered(rtsp, n) EXCEPT !.authenticated = TRUE], rtsp.last)
  /\ misretried' = (misretried \/ rtsp.last # rtsp.pending[n])
  /\ UNCHANGED <<role, inbound, outbound, doomed, publisher, asked, strays, crashed>>

\* RTSPKeepAliveTimer; when it fails the timer ends, not the session.
SendKeepAliveOptions ==
  /\ rtsp.open /\ rtsp.keepAlive /\ rtsp.sequence < MaxRequests
  /\ LET s == Sent(rtsp, Method("OPTIONS"))
     IN  rtsp' = [s EXCEPT !.keepAlive = Fits(s)]
  /\ UNCHANGED <<role, inbound, outbound, doomed, publisher, asked, strays,
                 crashed, misretried>>

-----------------------------------------------------------------------------
(* Media, the other streams, the end of a pulse. *)

\* RTCPProtocol::SignalInputData of a sender report.  _pConnectivity is NULL
\* until Initialize, and it is never cleared.
SenderReport(t) ==
  /\ inbound.added[t] # "none" /\ (rtsp.open \/ inbound.added[t] = "udp")
  /\ crashed' = (crashed \/ ~inbound.ready)
  /\ strays' = IF inbound.ready THEN strays ELSE strays \cup {"early report"}
  /\ UNCHANGED <<role, rtsp, inbound, outbound, doomed, publisher, asked,
                 misretried>>

\* A report to a receiver that is enqueued already; what it reports to is deleted
\* or has no protocols any more (SendRR).
LateReport(d) ==
  /\ d \in doomed
  /\ crashed' = TRUE
  /\ strays' = strays \cup {"late report"}
  /\ UNCHANGED <<role, rtsp, inbound, outbound, doomed, publisher, asked,
                 misretried>>

\* FeedAudioData or FeedVideoData fails: InboundConnectivity::EnqueueForDelete.
FeedFails(t) ==
  /\ inbound.ready /\ inbound.added[t] # "none"
  /\ inbound' = [inbound EXCEPT !.added = NoTransport, !.ready = FALSE]
  /\ doomed' = doomed \cup LeftBy(inbound, "cleaned")
  /\ Closes
  /\ UNCHANGED <<role, outbound, publisher, asked, strays, crashed, misretried>>

\* The inbound stream is deleted: SignalDetachedFromInStream.  The session that
\* has a registered client ends; another notices at its next request.
PublisherLeaves ==
  /\ publisher /\ publisher' = FALSE
  /\ rtsp' = [rtsp EXCEPT !.open = @ /\ outbound.client = NoTransport]
  /\ UNCHANGED <<role, inbound, outbound, doomed, asked, strays, crashed,
                 misretried>>

\* CleanupDeadProtocols: the receivers go, and with a closed session all it owns.
PulseEnds ==
  /\ doomed # {} \/ (~rtsp.open /\ role # "gone")
  /\ doomed' = {}
  /\ IF rtsp.open THEN UNCHANGED <<role, inbound, outbound>>
     ELSE role' = "gone" /\ inbound' = NoInbound /\ outbound' = NoOutbound
  /\ UNCHANGED <<rtsp, publisher, asked, strays, crashed, misretried>>

RtspNext ==
  \/ Misses \/ TriggerPlayOrAnnounce \/ SendKeepAliveOptions
  \/ HandleRTSPRequestDescribe \/ HandleRTSPRequestPlay \/ HandleRTSPRequestRecord
  \/ PublisherLeaves \/ PulseEnds
  \/ \E more \in BOOLEAN : HandleRTSPRequestTearDown(more)
  \/ \E t \in Tracks :
       \/ SenderReport(t) \/ FeedFails(t)
       \/ \E tcp \in BOOLEAN :
            \/ HandleRTSPRequestSetupOutbound(t, tcp)
            \/ HandleRTSPRequestSetupInbound(t, Transport(tcp))
  \/ \E tracks \in SUBSET Tracks : HandleRTSPRequestAnnounce(tracks)
  \/ \E d \in doomed : LateReport(d)
  \/ \E n \in DOMAIN rtsp.pending :
       \/ HandleRTSPResponse200Options(n)
       \/ \E tracks \in SUBSET Tracks : HandleRTSPResponse200Describe(n, tracks)
       \/ HandleRTSPResponse200SetupPull(n) \/ HandleRTSPResponse200Play(n)
       \/ HandleRTSPResponse200Announce(n) \/ HandleRTSPResponse200SetupPush(n)
       \/ HandleRTSPResponse200Record(n) \/ HandleRTSPResponse401(n)

RtspSpec == RtspInit /\ [][RtspNext]_rtspVars

-----------------------------------------------------------------------------
(* Properties. *)

\* The server uses nothing that is not there, in any order of requests, reports,
\* failed feeds, publishers that leave and connectivities that are replaced,
\* unless the peer mixes transports in one session, sends on after TEARDOWN, or
\* reports before the stream is made or in the pulse it is given up.
NothingMissingIsUsed == crashed => strays # {}

\* Each track goes to the client by the transport of its own SETUP, unless the
\* transports were mixed; PLAY waits for the SETUP of all described tracks, and
\* RECORD for that of all announced ones; and a challenged request is the one
\* that is repeated (forceTcp, pendingTracks, lastSetup, _requestHeaders).
NegotiationHolds ==
  LET awaited == {rtsp.pending[n].method : n \in DOMAIN rtsp.pending}
  IN  /\ \A t \in Tracks :
           outbound.client[t] \in {"none", asked[t]} \/ "mixed" \in strays
      /\ role = "pull" /\ "PLAY" \in awaited =>
           rtsp.waiting = {} /\ "SETUP" \notin awaited
      /\ role = "push" /\ "RECORD" \in awaited =>
           rtsp.transports = outbound.has /\ outbound.has = Tracks
      /\ ~misretried

=============================================================================
