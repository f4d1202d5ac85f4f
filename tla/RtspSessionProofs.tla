--------------------------- MODULE RtspSessionProofs ---------------------------
(***************************************************************************)
(* Proofs about RtspSession: for any backlog and any number of requests,   *)
(* the server uses nothing that is not there, and the negotiation holds.   *)
(*                                                                         *)
(* Neither property is inductive.  RtspInv adds how far each session has   *)
(* got.  That of a server, as long as no transports are mixed: what is     *)
(* set up over one transport belongs to a connectivity made for it         *)
(* (ServerHolds).  That of a client: all requests without a response are   *)
(* the last one again, and they are more than one only among the           *)
(* keep-alives, which no step of the negotiation answers (RetriesHold);    *)
(* and each stage of a push has just the tracks of that stage              *)
(* (PushHolds).                                                            *)
(***************************************************************************)
EXTENDS RtspSession, TLAPS

Fields ==
  {"open", "session", "direction", "waiting", "ids", "forceTcp", "ports",
   "channels", "transports", "lastSetup", "authenticated", "keepAlive",
   "sequence", "last", "pending"}

SessionTypes(s) ==
  /\ DOMAIN s = Fields
  /\ s.open \in BOOLEAN /\ s.forceTcp \in BOOLEAN /\ s.keepAlive \in BOOLEAN
  /\ s.sequence \in Nat
  /\ s.ids \in SUBSET Tracks /\ s.waiting \in SUBSET Tracks
  /\ s.transports \in SUBSET Tracks
  /\ s.ports \in SUBSET Tracks /\ s.channels \in SUBSET Tracks

Ways == {"none", "tcp", "udp"}
Inbound == [there : BOOLEAN, added : [Tracks -> Ways], ready : BOOLEAN]
Outbound == [there : BOOLEAN, tcp : BOOLEAN, has : SUBSET Tracks,
             client : [Tracks -> Ways]]

RtspTypes ==
  /\ role \in {"server", "pull", "push", "gone"}
  /\ SessionTypes(rtsp)
  /\ inbound \in Inbound /\ outbound \in Outbound
  /\ asked \in [Tracks -> Ways]

\* What waits for a response is the last request; more than one is keep-alives.
RetriesHold ==
  /\ \A n \in DOMAIN rtsp.pending : rtsp.pending[n] = rtsp.last
  /\ ~misretried
  /\ rtsp.sequence = 0 => DOMAIN rtsp.pending = {} /\ rtsp.last.method = "none"
  /\ role = "server" => DOMAIN rtsp.pending = {}
  /\ role # "gone" =>
       \/ \A m, n \in DOMAIN rtsp.pending : m = n
       \/ rtsp.last = Method("OPTIONS") /\ inbound.there
  /\ rtsp.keepAlive /\ role # "gone" =>
       /\ role = "pull" /\ inbound.there
       /\ \A n \in DOMAIN rtsp.pending : rtsp.pending[n] = Method("OPTIONS")

\* A session that is gone has closed and owns nothing.
GoneHolds == role = "gone" => ~rtsp.open /\ outbound = NoOutbound

PullHolds ==
  role = "pull" =>
    /\ outbound = NoOutbound
    /\ rtsp.last.method = "PLAY" => rtsp.waiting = {}

\* The tracks that are set up at each stage, and by which transport.
PushHolds ==
  role = "push" =>
    /\ rtsp.last.method \in {"none", "OPTIONS", "ANNOUNCE", "SETUP", "RECORD"}
    /\ rtsp.last.method \in {"none", "OPTIONS", "ANNOUNCE"} =>
         ~outbound.there /\ rtsp.transports = {} /\ outbound.has = {}
    /\ rtsp.last.method = "ANNOUNCE" => rtsp.ids = Tracks
    /\ rtsp.last.method = "SETUP" =>
         /\ outbound.there /\ outbound.has = Tracks \ rtsp.ids
         /\ rtsp.last = SetupOf(rtsp.lastSetup) /\ rtsp.lastSetup \in outbound.has
         /\ rtsp.transports = outbound.has \ {rtsp.lastSetup}
         /\ \A t \in Tracks : outbound.client[t] = "none"
    /\ rtsp.last.method = "RECORD" =>
         outbound.there /\ rtsp.transports = Tracks /\ outbound.has = Tracks
    /\ \A t \in Tracks :
         /\ t \in rtsp.transports => asked[t] = Transport(rtsp.forceTcp)
         /\ outbound.client[t] # "none" =>
              t \in rtsp.transports /\ outbound.client[t] = Transport(rtsp.forceTcp)

\* What is set up goes the way of the connectivity, as long as the ways are not mixed.
ServerHolds ==
  role = "server" /\ "mixed" \notin strays =>
    \A t \in Tracks :
      /\ t \in rtsp.channels =>
           outbound.there /\ outbound.tcp /\ asked[t] = "tcp"
      /\ t \in rtsp.ports =>
           outbound.there /\ ~outbound.tcp /\ asked[t] = "udp"
      /\ outbound.client[t] # "none" =>
           /\ outbound.client[t] = asked[t]
           /\ outbound.there /\ asked[t] = Transport(outbound.tcp)

RtspInv ==
  /\ RtspTypes /\ RetriesHold /\ GoneHolds /\ PullHolds /\ PushHolds /\ ServerHolds
  /\ NothingMissingIsUsed

-----------------------------------------------------------------------------
(* The session's own operations. *)

\* The fields that a request does not touch.
SameNegotiation(x, s) ==
  /\ x.waiting = s.waiting /\ x.ids = s.ids /\ x.forceTcp = s.forceTcp
  /\ x.ports = s.ports /\ x.channels = s.channels
  /\ x.transports = s.transports /\ x.lastSetup = s.lastSetup

\* SendRequestMessage: the request is the last one, and waits with the others.
Joined(x, s, request) ==
  /\ x.last = request /\ x.sequence = s.sequence + 1
  /\ DOMAIN x.pending = DOMAIN s.pending \cup {s.sequence + 1}
  /\ \A n \in DOMAIN x.pending :
       \/ x.pending[n] = request
       \/ n \in DOMAIN s.pending /\ x.pending[n] = s.pending[n]

LEMMA SentJoins ==
  ASSUME NEW s, NEW request, SessionTypes(s)
  PROVE  /\ SessionTypes(Sent(s, request)) /\ SameNegotiation(Sent(s, request), s)
         /\ Sent(s, request).keepAlive = s.keepAlive
         /\ Joined(Sent(s, request), s, request)
<1> DEFINE x == Sent(s, request)
           added == [n \in DOMAIN s.pending \cup {s.sequence + 1} |->
                       IF n \in DOMAIN s.pending THEN s.pending[n] ELSE request]
<1>1. DOMAIN s = Fields
  BY DEF SessionTypes
<1>2. x = [s EXCEPT !.sequence = s.sequence + 1, !.last = request, !.pending = added]
  BY DEF Sent
<1>3. /\ DOMAIN added = DOMAIN s.pending \cup {s.sequence + 1}
      /\ \A n \in DOMAIN added :
           \/ added[n] = request
           \/ n \in DOMAIN s.pending /\ added[n] = s.pending[n]
  OBVIOUS
<1> HIDE DEF added, x
<1>4. /\ x.last = request /\ x.sequence = s.sequence + 1 /\ x.pending = added
      /\ DOMAIN x = Fields
  BY <1>1, <1>2 DEF Fields
<1>5. /\ SameNegotiation(x, s)
      /\ x.keepAlive = s.keepAlive /\ x.open = s.open
  BY <1>1, <1>2 DEF Fields, SameNegotiation
<1>6. SessionTypes(x)
  BY <1>4, <1>5 DEF SessionTypes, SameNegotiation
<1>7. Joined(x, s, request)
  BY <1>3, <1>4 DEF Joined
<1> QED BY <1>5, <1>6, <1>7 DEF x

\* A request that becomes the next step.
LEMMA RequestJoins ==
  ASSUME NEW s, NEW request, SessionTypes(s), Requests(s, request)
  PROVE  /\ SessionTypes(rtsp') /\ SameNegotiation(rtsp', s)
         /\ rtsp'.keepAlive = s.keepAlive /\ Joined(rtsp', s, request)
<1> DEFINE x == Sent(s, request)
<1>1. rtsp' = [x EXCEPT !.open = Fits(x)]
  BY DEF Requests
<1>2. Fits(x) \in BOOLEAN
  BY DEF Fits
<1>3. /\ SessionTypes(x) /\ SameNegotiation(x, s) /\ x.keepAlive = s.keepAlive
      /\ Joined(x, s, request)
  BY SentJoins
<1> HIDE DEF x
<1>4. /\ DOMAIN rtsp' = Fields /\ rtsp'.open \in BOOLEAN
      /\ SameNegotiation(rtsp', x) /\ rtsp'.keepAlive = x.keepAlive
      /\ rtsp'.last = x.last /\ rtsp'.sequence = x.sequence
      /\ rtsp'.pending = x.pending
  BY <1>1, <1>2, <1>3 DEF SessionTypes, Fields, SameNegotiation
<1>5. SessionTypes(rtsp')
  BY <1>3, <1>4 DEF SessionTypes, SameNegotiation
<1>6. SameNegotiation(rtsp', s)
  BY <1>3, <1>4 DEF SameNegotiation
<1>7. Joined(rtsp', s, request)
  BY <1>3, <1>4 DEF Joined
<1> QED BY <1>3, <1>4, <1>5, <1>6, <1>7

\* GetRequest: a response takes its request away and leaves the others.
LEMMA AnsweredLeaves ==
  ASSUME NEW s, NEW n, SessionTypes(s)
  PROVE  /\ SessionTypes(Answered(s, n)) /\ SameNegotiation(Answered(s, n), s)
         /\ Answered(s, n).keepAlive = s.keepAlive
         /\ Answered(s, n).last = s.last /\ Answered(s, n).open = s.open
         /\ Answered(s, n).sequence = s.sequence
         /\ DOMAIN Answered(s, n).pending = DOMAIN s.pending \ {n}
         /\ \A k \in DOMAIN s.pending \ {n} : Answered(s, n).pending[k] = s.pending[k]
<1> DEFINE x == Answered(s, n)
           left == [k \in DOMAIN s.pending \ {n} |-> s.pending[k]]
<1>1. DOMAIN s = Fields
  BY DEF SessionTypes
<1>2. x = [s EXCEPT !.pending = left]
  BY DEF Answered
<1>3. /\ DOMAIN left = DOMAIN s.pending \ {n}
      /\ \A k \in DOMAIN s.pending \ {n} : left[k] = s.pending[k]
  OBVIOUS
<1> HIDE DEF left, x
<1>4. /\ x.pending = left /\ DOMAIN x = Fields
      /\ x.last = s.last /\ x.sequence = s.sequence
      /\ x.keepAlive = s.keepAlive /\ x.open = s.open
  BY <1>1, <1>2 DEF Fields
<1>5. SameNegotiation(x, s)
  BY <1>1, <1>2 DEF Fields, SameNegotiation
<1>6. SessionTypes(x)
  BY <1>4, <1>5 DEF SessionTypes, SameNegotiation
<1> QED BY <1>3, <1>4, <1>5, <1>6 DEF x

-----------------------------------------------------------------------------
(* The steps that leave the negotiation alone: they close the session, change  *)
(* what it receives from, or what only a server looks at.                      *)

\* The fields the invariant speaks of are the same, but for what a server has
\* described or announced.
Kept(x, s) ==
  /\ x.forceTcp = s.forceTcp /\ x.ports = s.ports /\ x.channels = s.channels
  /\ x.transports = s.transports /\ x.lastSetup = s.lastSetup
  /\ x.keepAlive = s.keepAlive /\ x.sequence = s.sequence
  /\ x.last = s.last /\ x.pending = s.pending
  /\ x.open => s.open

LEMMA UnaffectedHolds ==
  ASSUME RtspInv, RtspTypes', role' = role, Kept(rtsp', rtsp),
         role # "server" => rtsp'.ids = rtsp.ids /\ rtsp'.waiting = rtsp.waiting,
         inbound.there => inbound'.there, outbound' = outbound, asked' = asked,
         \A x \in strays : x \in strays',
         crashed' => crashed \/ strays' # {}, misretried' = misretried
  PROVE  RtspInv'
<1>1. RetriesHold'
  BY DEF RtspInv, RetriesHold, Kept
<1>2. GoneHolds'
  BY DEF RtspInv, GoneHolds, Kept, NoOutbound, NoTransport
<1>3. PullHolds'
  BY DEF RtspInv, PullHolds, Kept, NoOutbound, NoTransport
<1>4. PushHolds'
  BY DEF RtspInv, PushHolds, Kept
<1>5. ServerHolds'
  BY DEF RtspInv, ServerHolds, Kept
<1>6. NothingMissingIsUsed'
  BY DEF RtspInv, NothingMissingIsUsed
<1> QED BY <1>1, <1>2, <1>3, <1>4, <1>5, <1>6 DEF RtspInv

\* The session closes, or goes on as it is.
LEMMA ClosingKeeps ==
  ASSUME SessionTypes(rtsp), NEW b \in BOOLEAN, b => rtsp.open,
         rtsp' = [rtsp EXCEPT !.open = b]
  PROVE  /\ SessionTypes(rtsp') /\ Kept(rtsp', rtsp)
         /\ rtsp'.ids = rtsp.ids /\ rtsp'.waiting = rtsp.waiting
<1>1. /\ Kept(rtsp', rtsp) /\ rtsp'.open = b /\ DOMAIN rtsp' = Fields
      /\ rtsp'.ids = rtsp.ids /\ rtsp'.waiting = rtsp.waiting
  BY DEF SessionTypes, Fields, Kept
<1>2. SessionTypes(rtsp')
  BY <1>1 DEF SessionTypes, Kept
<1> QED BY <1>1, <1>2

LEMMA SameSession ==
  ASSUME SessionTypes(rtsp), rtsp' = rtsp
  PROVE  /\ SessionTypes(rtsp') /\ Kept(rtsp', rtsp)
         /\ rtsp'.ids = rtsp.ids /\ rtsp'.waiting = rtsp.waiting
BY DEF SessionTypes, Kept

LEMMA ClosesKeeps ==
  ASSUME SessionTypes(rtsp), Closes
  PROVE  /\ SessionTypes(rtsp') /\ Kept(rtsp', rtsp)
         /\ rtsp'.ids = rtsp.ids /\ rtsp'.waiting = rtsp.waiting
<1>1. rtsp' = [rtsp EXCEPT !.open = FALSE]
  BY DEF Closes
<1> QED BY <1>1, ClosingKeeps

\* The members of the invariant that the lemmas below start from.
LEMMA Parts ==
  ASSUME RtspInv
  PROVE  /\ role \in {"server", "pull", "push", "gone"} /\ SessionTypes(rtsp)
         /\ inbound \in Inbound /\ outbound \in Outbound
         /\ asked \in [Tracks -> Ways]
BY DEF RtspInv, RtspTypes

LEMMA MissesHolds ==
  ASSUME RtspInv, Misses PROVE RtspInv'
<1>1. /\ Closes
      /\ UNCHANGED <<role, inbound, outbound, doomed, publisher, asked, strays,
                     crashed, misretried>>
  BY DEF Misses
<1>2. /\ SessionTypes(rtsp') /\ Kept(rtsp', rtsp)
      /\ rtsp'.ids = rtsp.ids /\ rtsp'.waiting = rtsp.waiting
  BY <1>1, Parts, ClosesKeeps
<1>3. RtspTypes'
  BY <1>1, <1>2, Parts DEF RtspTypes
<1> QED BY <1>1, <1>2, <1>3, UnaffectedHolds

LEMMA TearDownHolds ==
  ASSUME RtspInv, NEW more \in BOOLEAN, HandleRTSPRequestTearDown(more)
  PROVE  RtspInv'
<1>1. /\ Closes
      /\ strays' = IF more THEN strays \cup {"trailing"} ELSE strays
      /\ crashed' = (crashed \/ more)
      /\ UNCHANGED <<role, inbound, outbound, doomed, publisher, asked, misretried>>
  BY DEF HandleRTSPRequestTearDown
<1>2. /\ SessionTypes(rtsp') /\ Kept(rtsp', rtsp)
      /\ rtsp'.ids = rtsp.ids /\ rtsp'.waiting = rtsp.waiting
  BY <1>1, Parts, ClosesKeeps
<1>3. RtspTypes'
  BY <1>1, <1>2, Parts DEF RtspTypes
<1>4. \A x \in strays : x \in strays'
  BY <1>1
<1>5. crashed' => crashed \/ strays' # {}
  <2>1. CASE more
    BY <1>1, <2>1
  <2>2. CASE ~more
    BY <1>1, <2>2
  <2> QED BY <2>1, <2>2
<1> QED BY <1>1, <1>2, <1>3, <1>4, <1>5, UnaffectedHolds

LEMMA DescribeHolds ==
  ASSUME RtspInv, HandleRTSPRequestDescribe
  PROVE  RtspInv'
<1>1. /\ role = "server" /\ rtsp.open
      /\ rtsp' = [rtsp EXCEPT !.direction = "out", !.ids = Tracks]
      /\ UNCHANGED <<role, inbound, outbound, doomed, publisher, asked, strays,
                     crashed, misretried>>
  BY DEF HandleRTSPRequestDescribe, IsOpen
<1>2. Kept(rtsp', rtsp) /\ rtsp'.ids = Tracks /\ rtsp'.waiting = rtsp.waiting
      /\ rtsp'.open = rtsp.open /\ DOMAIN rtsp' = Fields
  BY <1>1, Parts DEF SessionTypes, Fields, Kept
<1>3. SessionTypes(rtsp')
  BY <1>2, Parts DEF SessionTypes, Kept
<1>4. RtspTypes'
  BY <1>1, <1>3, Parts DEF RtspTypes
<1> QED BY <1>1, <1>2, <1>4, UnaffectedHolds

LEMMA AnnounceHolds ==
  ASSUME RtspInv, NEW tracks \in SUBSET Tracks, HandleRTSPRequestAnnounce(tracks)
  PROVE  RtspInv'
<1>1. /\ role = "server"
      /\ rtsp' = [rtsp EXCEPT !.direction = "in", !.waiting = rtsp.waiting \cup tracks]
      /\ inbound' = [NoInbound EXCEPT !.there = TRUE]
      /\ UNCHANGED <<role, outbound, publisher, asked, strays, crashed, misretried>>
  BY DEF HandleRTSPRequestAnnounce, IsOpen, NewInbound
<1>2. Kept(rtsp', rtsp) /\ rtsp'.ids = rtsp.ids /\ rtsp'.waiting = rtsp.waiting \cup tracks
      /\ rtsp'.open = rtsp.open /\ DOMAIN rtsp' = Fields
  BY <1>1, Parts DEF SessionTypes, Fields, Kept
<1>3. SessionTypes(rtsp')
  BY <1>2, Parts DEF SessionTypes, Kept
<1>4. inbound' \in Inbound /\ inbound'.there
  BY <1>1 DEF Inbound, NoInbound, NoTransport, Ways
<1>5. RtspTypes'
  BY <1>1, <1>3, <1>4, Parts DEF RtspTypes
<1> QED BY <1>1, <1>2, <1>4, <1>5, UnaffectedHolds

LEMMA SetupInboundHolds ==
  ASSUME RtspInv, NEW t \in Tracks, NEW tcp \in BOOLEAN,
         HandleRTSPRequestSetupInbound(t, Transport(tcp))
  PROVE  RtspInv'
<1>1. /\ role = "server"
      /\ rtsp' = [rtsp EXCEPT !.session = TRUE]
      /\ inbound' = [inbound EXCEPT !.added[t] = Transport(tcp)]
      /\ UNCHANGED <<role, outbound, doomed, publisher, asked, strays, crashed,
                     misretried>>
  BY DEF HandleRTSPRequestSetupInbound, IsOpen, AddTrack
<1>2. Kept(rtsp', rtsp) /\ rtsp'.ids = rtsp.ids /\ rtsp'.waiting = rtsp.waiting
      /\ rtsp'.open = rtsp.open /\ DOMAIN rtsp' = Fields
  BY <1>1, Parts DEF SessionTypes, Fields, Kept
<1>3. SessionTypes(rtsp')
  BY <1>2, Parts DEF SessionTypes, Kept
<1>4. Transport(tcp) \in Ways
  BY DEF Transport, Ways
<1>5. inbound' \in Inbound /\ inbound'.there = inbound.there
  BY <1>1, <1>4, Parts DEF Inbound
<1>6. RtspTypes'
  BY <1>1, <1>3, <1>5, Parts DEF RtspTypes
<1> QED BY <1>1, <1>2, <1>5, <1>6, UnaffectedHolds

LEMMA RecordHolds ==
  ASSUME RtspInv, HandleRTSPRequestRecord
  PROVE  RtspInv'
<1>1. /\ inbound' = [inbound EXCEPT !.ready = TRUE]
      /\ UNCHANGED <<role, rtsp, outbound, doomed, publisher, asked, strays, crashed,
                     misretried>>
  BY DEF HandleRTSPRequestRecord
<1>2. inbound' \in Inbound /\ inbound'.there = inbound.there
  BY <1>1, Parts DEF Inbound
<1>3. /\ SessionTypes(rtsp') /\ Kept(rtsp', rtsp)
      /\ rtsp'.ids = rtsp.ids /\ rtsp'.waiting = rtsp.waiting
  BY <1>1, Parts, SameSession
<1>4. RtspTypes'
  BY <1>1, <1>2, <1>3, Parts DEF RtspTypes
<1> QED BY <1>1, <1>2, <1>3, <1>4, UnaffectedHolds

\* A sender report that comes too early or too late is the peer's doing.
LEMMA ReportHolds ==
  ASSUME RtspInv,
         \/ \E t \in Tracks : SenderReport(t)
         \/ \E d \in doomed : LateReport(d)
  PROVE  RtspInv'
<1>1. /\ UNCHANGED <<role, rtsp, inbound, outbound, doomed, publisher, asked,
                     misretried>>
      /\ \A x \in strays : x \in strays'
  BY DEF SenderReport, LateReport
<1>2. crashed' => crashed \/ strays' # {}
  <2>1. CASE \E d \in doomed : LateReport(d)
    BY <2>1 DEF LateReport
  <2>2. ASSUME NEW t \in Tracks, SenderReport(t)
        PROVE  crashed' => crashed \/ strays' # {}
    <3>1. CASE inbound.ready
      BY <2>2, <3>1 DEF SenderReport
    <3>2. CASE ~inbound.ready
      BY <2>2, <3>2 DEF SenderReport
    <3> QED BY <3>1, <3>2
  <2> QED BY <2>1, <2>2
<1>3. /\ SessionTypes(rtsp') /\ Kept(rtsp', rtsp)
      /\ rtsp'.ids = rtsp.ids /\ rtsp'.waiting = rtsp.waiting
  BY <1>1, Parts, SameSession
<1>4. RtspTypes'
  BY <1>1, <1>3, Parts DEF RtspTypes
<1> QED BY <1>1, <1>2, <1>3, <1>4, UnaffectedHolds

LEMMA FeedFailsHolds ==
  ASSUME RtspInv, NEW t \in Tracks, FeedFails(t)
  PROVE  RtspInv'
<1>1. /\ Closes
      /\ inbound' = [inbound EXCEPT !.added = NoTransport, !.ready = FALSE]
      /\ UNCHANGED <<role, outbound, publisher, asked, strays, crashed, misretried>>
  BY DEF FeedFails
<1>2. /\ SessionTypes(rtsp') /\ Kept(rtsp', rtsp)
      /\ rtsp'.ids = rtsp.ids /\ rtsp'.waiting = rtsp.waiting
  BY <1>1, Parts, ClosesKeeps
<1>3. NoTransport \in [Tracks -> Ways]
  BY DEF NoTransport, Ways
<1>4. inbound' \in Inbound /\ inbound'.there = inbound.there
  BY <1>1, <1>3, Parts DEF Inbound
<1>5. RtspTypes'
  BY <1>1, <1>2, <1>4, Parts DEF RtspTypes
<1> QED BY <1>1, <1>2, <1>4, <1>5, UnaffectedHolds

LEMMA PublisherLeavesHolds ==
  ASSUME RtspInv, PublisherLeaves
  PROVE  RtspInv'
<1> DEFINE b == rtsp.open /\ outbound.client = NoTransport
<1>1. /\ rtsp' = [rtsp EXCEPT !.open = b]
      /\ UNCHANGED <<role, inbound, outbound, doomed, asked, strays, crashed,
                     misretried>>
  BY DEF PublisherLeaves
<1>2. b \in BOOLEAN /\ (b => rtsp.open)
  OBVIOUS
<1> HIDE DEF b
<1>3. /\ SessionTypes(rtsp') /\ Kept(rtsp', rtsp)
      /\ rtsp'.ids = rtsp.ids /\ rtsp'.waiting = rtsp.waiting
  BY <1>1, <1>2, Parts, ClosingKeeps
<1>4. RtspTypes'
  BY <1>1, <1>3, Parts DEF RtspTypes
<1> QED BY <1>1, <1>3, <1>4, UnaffectedHolds

\* The end of a pulse: a closed session is gone with all it owns.
LEMMA PulseEndsHolds ==
  ASSUME RtspInv, PulseEnds
  PROVE  RtspInv'
<1>1. UNCHANGED <<rtsp, publisher, asked, strays, crashed, misretried>>
  BY DEF PulseEnds
<1>2. /\ SessionTypes(rtsp') /\ Kept(rtsp', rtsp)
      /\ rtsp'.ids = rtsp.ids /\ rtsp'.waiting = rtsp.waiting
  BY <1>1, Parts, SameSession
<1>3. CASE rtsp.open
  <2>1. UNCHANGED <<role, inbound, outbound>>
    BY <1>3 DEF PulseEnds
  <2>2. RtspTypes'
    BY <1>1, <1>2, <2>1, Parts DEF RtspTypes
  <2> QED BY <1>1, <1>2, <2>1, <2>2, UnaffectedHolds
<1>4. CASE ~rtsp.open
  <2>1. role' = "gone" /\ inbound' = NoInbound /\ outbound' = NoOutbound
    BY <1>4 DEF PulseEnds
  <2>2. NoTransport \in [Tracks -> Ways]
    BY DEF NoTransport, Ways
  <2>3. NoInbound \in Inbound /\ NoOutbound \in Outbound
    BY <2>2 DEF NoInbound, NoOutbound, Inbound, Outbound
  <2>4. RtspTypes'
    BY <1>1, <1>2, <2>1, <2>3, Parts DEF RtspTypes
  <2>5. RetriesHold'
    BY <1>1, <2>1 DEF RtspInv, RetriesHold
  <2>6. GoneHolds'
    BY <1>1, <1>4, <2>1 DEF GoneHolds, NoOutbound, NoTransport
  <2>7. PullHolds' /\ PushHolds' /\ ServerHolds'
    BY <2>1 DEF PullHolds, PushHolds, ServerHolds
  <2>8. NothingMissingIsUsed'
    BY <1>1 DEF RtspInv, NothingMissingIsUsed
  <2> QED BY <2>4, <2>5, <2>6, <2>7, <2>8 DEF RtspInv
<1> QED BY <1>3, <1>4

-----------------------------------------------------------------------------
(* A player: SETUP and PLAY. *)

\* GetOutboundConnectivity: the first one that was made, with its way.
LEMMA OutboundIsMade ==
  ASSUME NEW tcp \in BOOLEAN, outbound \in Outbound
  PROVE  /\ OutboundFor(tcp) \in Outbound /\ OutboundFor(tcp).there
         /\ outbound.there => OutboundFor(tcp) = outbound
         /\ ~outbound.there => /\ OutboundFor(tcp).tcp = tcp
                               /\ OutboundFor(tcp).has = {}
                               /\ \A t \in Tracks : OutboundFor(tcp).client[t] = "none"
<1>1. NoTransport \in [Tracks -> Ways] /\ \A t \in Tracks : NoTransport[t] = "none"
  BY DEF NoTransport, Ways
<1>2. CASE outbound.there
  BY <1>2 DEF OutboundFor
<1>3. CASE ~outbound.there
  <2>1. OutboundFor(tcp) = [NoOutbound EXCEPT !.there = TRUE, !.tcp = tcp]
    BY <1>3 DEF OutboundFor
  <2>2. OutboundFor(tcp) = [there |-> TRUE, tcp |-> tcp, has |-> {}, client |-> NoTransport]
    BY <2>1 DEF NoOutbound
  <2> QED BY <1>1, <1>3, <2>2 DEF Outbound
<1> QED BY <1>2, <1>3

LEMMA RegisterGives ==
  ASSUME NEW conn \in Outbound, NEW tracks \in SUBSET Tracks, NEW tcp \in BOOLEAN
  PROVE  /\ RegisterClient(conn, tracks, tcp) \in Outbound
         /\ RegisterClient(conn, tracks, tcp).there = conn.there
         /\ RegisterClient(conn, tracks, tcp).tcp = conn.tcp
         /\ RegisterClient(conn, tracks, tcp).has = conn.has
         /\ \A t \in Tracks :
              RegisterClient(conn, tracks, tcp).client[t] =
                IF t \in tracks THEN Transport(tcp) ELSE conn.client[t]
<1> DEFINE given == [t \in Tracks |-> IF t \in tracks THEN (IF tcp THEN "tcp" ELSE "udp")
                                      ELSE conn.client[t]]
<1>1. RegisterClient(conn, tracks, tcp) = [conn EXCEPT !.client = given]
  BY DEF RegisterClient
<1>2. given \in [Tracks -> Ways]
  BY DEF Outbound, Ways
<1>3. \A t \in Tracks : given[t] = IF t \in tracks THEN Transport(tcp) ELSE conn.client[t]
  BY DEF Transport
<1> HIDE DEF given
<1> QED BY <1>1, <1>2, <1>3 DEF Outbound

\* Only a server's own part of the invariant changes.
LEMMA ServerStepHolds ==
  ASSUME RtspInv, role = "server", role' = role, RtspTypes',
         DOMAIN rtsp'.pending = DOMAIN rtsp.pending, rtsp'.pending = rtsp.pending,
         rtsp'.last = rtsp.last, rtsp'.sequence = rtsp.sequence,
         rtsp'.keepAlive = rtsp.keepAlive, misretried' = misretried,
         ServerHolds', NothingMissingIsUsed'
  PROVE  RtspInv'
<1>1. RetriesHold'
  BY DEF RtspInv, RetriesHold
<1>2. GoneHolds' /\ PullHolds' /\ PushHolds'
  BY DEF GoneHolds, PullHolds, PushHolds
<1> QED BY <1>1, <1>2 DEF RtspInv

LEMMA SetupOutboundHolds ==
  ASSUME RtspInv, NEW t \in Tracks, NEW tcp \in BOOLEAN,
         HandleRTSPRequestSetupOutbound(t, tcp)
  PROVE  RtspInv'
<1>1. /\ role = "server"
      /\ rtsp' = [rtsp EXCEPT !.session = TRUE, !.forceTcp = tcp,
                              !.channels = IF tcp THEN rtsp.channels \cup {t} ELSE rtsp.channels,
                              !.ports = IF tcp THEN rtsp.ports ELSE rtsp.ports \cup {t}]
      /\ outbound' = [OutboundFor(tcp) EXCEPT !.has = OutboundFor(tcp).has \cup {t}]
      /\ asked' = [asked EXCEPT ![t] = Transport(tcp)]
      /\ strays' = IF outbound.there /\ outbound.tcp # tcp
                   THEN strays \cup {"mixed"} ELSE strays
      /\ UNCHANGED <<role, inbound, doomed, publisher, crashed, misretried>>
  BY DEF HandleRTSPRequestSetupOutbound, IsOpen
<1>2. /\ rtsp'.forceTcp = tcp
      /\ rtsp'.channels = (IF tcp THEN rtsp.channels \cup {t} ELSE rtsp.channels)
      /\ rtsp'.ports = (IF tcp THEN rtsp.ports ELSE rtsp.ports \cup {t})
      /\ rtsp'.open = rtsp.open /\ rtsp'.ids = rtsp.ids /\ rtsp'.waiting = rtsp.waiting
      /\ DOMAIN rtsp' = Fields
  BY <1>1, Parts DEF SessionTypes, Fields
<1>3. /\ rtsp'.pending = rtsp.pending /\ rtsp'.last = rtsp.last
      /\ rtsp'.sequence = rtsp.sequence /\ rtsp'.keepAlive = rtsp.keepAlive
      /\ rtsp'.transports = rtsp.transports
  BY <1>1, Parts DEF SessionTypes, Fields
<1>4. SessionTypes(rtsp')
  BY <1>2, <1>3, Parts DEF SessionTypes
<1>5. /\ OutboundFor(tcp) \in Outbound /\ OutboundFor(tcp).there
      /\ outbound.there => OutboundFor(tcp) = outbound
      /\ ~outbound.there => /\ OutboundFor(tcp).tcp = tcp
                            /\ \A u \in Tracks : OutboundFor(tcp).client[u] = "none"
  BY Parts, OutboundIsMade
<1> DEFINE conn == OutboundFor(tcp)
<1>6. /\ conn \in Outbound /\ conn.there
      /\ outbound.there => conn = outbound
      /\ ~outbound.there => /\ conn.tcp = tcp
                            /\ \A u \in Tracks : conn.client[u] = "none"
  BY <1>5
<1>7. outbound' = [conn EXCEPT !.has = conn.has \cup {t}]
  BY <1>1
<1> HIDE DEF conn
<1>8. /\ outbound' \in Outbound /\ outbound'.there
      /\ outbound'.tcp = conn.tcp /\ outbound'.client = conn.client
  BY <1>6, <1>7 DEF Outbound
<1>9. /\ asked'[t] = Transport(tcp) /\ asked' \in [Tracks -> Ways]
      /\ \A u \in Tracks \ {t} : asked'[u] = asked[u]
  BY <1>1, Parts DEF Transport, Ways
<1>10. RtspTypes'
  BY <1>1, <1>4, <1>8, <1>9, Parts DEF RtspTypes
<1>11. ServerHolds'
  <2> SUFFICES ASSUME "mixed" \notin strays', NEW u \in Tracks
               PROVE  /\ u \in rtsp'.channels =>
                           outbound'.there /\ outbound'.tcp /\ asked'[u] = "tcp"
                      /\ u \in rtsp'.ports =>
                           outbound'.there /\ ~outbound'.tcp /\ asked'[u] = "udp"
                      /\ outbound'.client[u] # "none" =>
                           /\ outbound'.client[u] = asked'[u]
                           /\ outbound'.there /\ asked'[u] = Transport(outbound'.tcp)
    BY DEF ServerHolds
  <2>1. "mixed" \notin strays /\ (outbound.there => outbound.tcp = tcp)
    BY <1>1
  <2>2. conn.tcp = tcp
    BY <1>6, <2>1
  <2>3. /\ u \in rtsp.channels =>
             outbound.there /\ outbound.tcp /\ asked[u] = "tcp"
        /\ u \in rtsp.ports =>
             outbound.there /\ ~outbound.tcp /\ asked[u] = "udp"
        /\ outbound.client[u] # "none" =>
             /\ outbound.client[u] = asked[u]
             /\ outbound.there /\ asked[u] = Transport(outbound.tcp)
    BY <1>1, <2>1 DEF RtspInv, ServerHolds
  <2>4. conn.client[u] # "none" =>
          conn.client[u] = outbound.client[u] /\ asked[u] = Transport(tcp)
          /\ outbound.client[u] = asked[u]
    BY <1>6, <2>1, <2>3
  <2>5. CASE u = t
    <3>1. asked'[u] = Transport(tcp)
      BY <1>9, <2>5
    <3>2. u \in rtsp'.channels => tcp
      BY <1>2, <2>1, <2>3
    <3>3. u \in rtsp'.ports => ~tcp
      BY <1>2, <2>1, <2>3
    <3> QED BY <1>8, <2>2, <2>4, <3>1, <3>2, <3>3 DEF Transport
  <2>6. CASE u # t
    <3>1. asked'[u] = asked[u]
      BY <1>9, <2>6
    <3>2. u \in rtsp'.channels => u \in rtsp.channels
      BY <1>2, <2>6
    <3>3. u \in rtsp'.ports => u \in rtsp.ports
      BY <1>2, <2>6
    <3> QED BY <1>8, <2>1, <2>2, <2>3, <2>4, <3>1, <3>2, <3>3 DEF Transport
  <2> QED BY <2>5, <2>6
<1>12. NothingMissingIsUsed'
  BY <1>1 DEF RtspInv, NothingMissingIsUsed
<1> QED BY <1>1, <1>3, <1>10, <1>11, <1>12, ServerStepHolds

LEMMA PlayHolds ==
  ASSUME RtspInv, HandleRTSPRequestPlay
  PROVE  RtspInv'
<1> DEFINE conn == OutboundFor(TRUE)
           tracks == IF rtsp.forceTcp THEN rtsp.channels ELSE rtsp.ports
<1>1. /\ role = "server"
      /\ outbound' = RegisterClient(conn, tracks, rtsp.forceTcp)
      /\ crashed' = (crashed \/ LacksSockets(conn, tracks, rtsp.forceTcp))
      /\ UNCHANGED <<role, rtsp, inbound, doomed, publisher, asked, strays, misretried>>
  BY DEF HandleRTSPRequestPlay, IsOpen
<1>2. tracks \in SUBSET Tracks /\ rtsp.forceTcp \in BOOLEAN
  BY Parts DEF SessionTypes
<1>3. /\ conn \in Outbound /\ conn.there
      /\ outbound.there => conn = outbound
      /\ ~outbound.there => \A u \in Tracks : conn.client[u] = "none"
  BY Parts, OutboundIsMade
<1>4. \A u \in tracks : (rtsp.forceTcp => u \in rtsp.channels)
                        /\ (~rtsp.forceTcp => u \in rtsp.ports)
  OBVIOUS
<1> HIDE DEF conn, tracks
<1>5. /\ outbound' \in Outbound /\ outbound'.there = conn.there
      /\ outbound'.tcp = conn.tcp
      /\ \A u \in Tracks : outbound'.client[u] =
           IF u \in tracks THEN Transport(rtsp.forceTcp) ELSE conn.client[u]
  <2> DEFINE made == RegisterClient(conn, tracks, rtsp.forceTcp)
  <2>1. conn \in Outbound /\ tracks \in SUBSET Tracks /\ rtsp.forceTcp \in BOOLEAN
    BY <1>2, <1>3
  <2>2. /\ made \in Outbound /\ made.there = conn.there /\ made.tcp = conn.tcp
        /\ \A u \in Tracks : made.client[u] =
             IF u \in tracks THEN Transport(rtsp.forceTcp) ELSE conn.client[u]
    BY <2>1, RegisterGives
  <2>3. outbound' = made
    BY <1>1
  <2> HIDE DEF made
  <2> QED BY <2>2, <2>3
<1>6. SessionTypes(rtsp')
  BY <1>1, Parts, SameSession
<1>7. RtspTypes'
  BY <1>1, <1>5, <1>6, Parts DEF RtspTypes
<1>8. "mixed" \notin strays => \A u \in Tracks :
        /\ u \in rtsp.channels =>
             outbound.there /\ outbound.tcp /\ asked[u] = "tcp"
        /\ u \in rtsp.ports =>
             outbound.there /\ ~outbound.tcp /\ asked[u] = "udp"
        /\ outbound.client[u] # "none" =>
             /\ outbound.client[u] = asked[u]
             /\ outbound.there /\ asked[u] = Transport(outbound.tcp)
  BY <1>1 DEF RtspInv, ServerHolds
<1>9. "mixed" \notin strays => \A u \in tracks :
        /\ outbound.there /\ outbound.tcp = rtsp.forceTcp
        /\ asked[u] = Transport(rtsp.forceTcp)
  <2> SUFFICES ASSUME "mixed" \notin strays, NEW u \in tracks
               PROVE  /\ outbound.there /\ outbound.tcp = rtsp.forceTcp
                      /\ asked[u] = Transport(rtsp.forceTcp)
    OBVIOUS
  <2>1. outbound.tcp \in BOOLEAN /\ u \in Tracks
    BY <1>2, Parts DEF Outbound
  <2>2. CASE rtsp.forceTcp
    BY <1>4, <1>8, <2>1, <2>2 DEF Transport
  <2>3. CASE ~rtsp.forceTcp
    BY <1>2, <1>4, <1>8, <2>1, <2>3 DEF Transport
  <2> QED BY <2>2, <2>3
<1>10. ServerHolds'
  <2> SUFFICES ASSUME "mixed" \notin strays, NEW u \in Tracks
               PROVE  /\ u \in rtsp.channels =>
                           outbound'.there /\ outbound'.tcp /\ asked[u] = "tcp"
                      /\ u \in rtsp.ports =>
                           outbound'.there /\ ~outbound'.tcp /\ asked[u] = "udp"
                      /\ outbound'.client[u] # "none" =>
                           /\ outbound'.client[u] = asked[u]
                           /\ outbound'.there /\ asked[u] = Transport(outbound'.tcp)
    BY <1>1 DEF ServerHolds
  <2>1. u \in rtsp.channels \cup rtsp.ports => outbound'.tcp = outbound.tcp
    BY <1>3, <1>5, <1>8
  <2>2. CASE u \in tracks
    <3>1. outbound'.client[u] = Transport(rtsp.forceTcp) /\ outbound'.tcp = rtsp.forceTcp
          /\ asked[u] = Transport(rtsp.forceTcp)
      BY <1>3, <1>5, <1>9, <2>2
    <3> QED BY <1>3, <1>5, <1>8, <2>1, <3>1
  <2>3. CASE u \notin tracks
    <3>1. outbound'.client[u] = conn.client[u]
      BY <1>5, <2>3
    <3>2. outbound'.client[u] # "none" => outbound.there /\ outbound' .tcp = outbound.tcp
                                          /\ outbound'.client[u] = outbound.client[u]
      BY <1>3, <1>5, <3>1
    <3> QED BY <1>3, <1>5, <1>8, <2>1, <3>2
  <2> QED BY <2>2, <2>3
<1>11. NothingMissingIsUsed'
  <2>1. "mixed" \notin strays => ~LacksSockets(conn, tracks, rtsp.forceTcp)
    BY <1>3, <1>9 DEF LacksSockets
  <2>2. crashed => strays # {}
    BY DEF RtspInv, NothingMissingIsUsed
  <2>3. crashed' => strays # {}
    BY <1>1, <2>1, <2>2
  <2> QED BY <1>1, <2>3 DEF NothingMissingIsUsed
<1> QED BY <1>1, <1>7, <1>10, <1>11, ServerStepHolds

-----------------------------------------------------------------------------
(* This server as a client. *)

\* The request a step of the negotiation answers was the only one; a server and a
\* session that is gone have none.
LEMMA AnswersTheOnly ==
  ASSUME RtspInv, NEW r, NEW n, NEW m, Ok(r, n, m), m # "OPTIONS" \/ ~inbound.there
  PROVE  /\ role = r /\ role \in {"pull", "push"} /\ n \in DOMAIN rtsp.pending
         /\ rtsp.last.method = m /\ rtsp.pending[n] = rtsp.last
         /\ DOMAIN Answered(rtsp, n).pending = {}
         /\ ~rtsp.keepAlive
<1>1. /\ role = r /\ rtsp.open /\ n \in DOMAIN rtsp.pending
      /\ rtsp.pending[n].method = m
  BY DEF Ok, IsOpen
<1>2. RetriesHold /\ GoneHolds
  BY DEF RtspInv
<1>3. rtsp.pending[n] = rtsp.last /\ rtsp.last.method = m
  BY <1>1, <1>2 DEF RetriesHold
<1>4. role # "gone" /\ role # "server"
  BY <1>1, <1>2 DEF RetriesHold, GoneHolds
<1>5. ~(rtsp.last = Method("OPTIONS") /\ inbound.there)
  BY <1>3 DEF Method
<1>6. \A k \in DOMAIN rtsp.pending : k = n
  BY <1>1, <1>2, <1>4, <1>5 DEF RetriesHold
<1>7. ~rtsp.keepAlive
  BY <1>1, <1>2, <1>3, <1>4, <1>5 DEF RetriesHold
<1>8. DOMAIN Answered(rtsp, n).pending = {}
  BY <1>6, Parts, AnsweredLeaves
<1> QED BY <1>1, <1>3, <1>4, <1>7, <1>8, Parts

\* Only a client's own parts of the invariant change.
LEMMA ClientStepHolds ==
  ASSUME RtspInv, role \in {"pull", "push"}, role' = role,
         strays' = strays, crashed' = crashed,
         RtspTypes', RetriesHold', PullHolds', PushHolds'
  PROVE  RtspInv'
<1>1. GoneHolds' /\ ServerHolds'
  BY DEF GoneHolds, ServerHolds
<1>2. NothingMissingIsUsed'
  BY DEF RtspInv, NothingMissingIsUsed
<1> QED BY <1>1, <1>2 DEF RtspInv

\* The next request after the only one is the only one.
LEMMA NextRequestHolds ==
  ASSUME RtspInv, NEW s, NEW request, SessionTypes(s), DOMAIN s.pending = {},
         ~s.keepAlive, Requests(s, request),
         role \in {"pull", "push"}, role' = role, misretried' = misretried
  PROVE  /\ RetriesHold' /\ SessionTypes(rtsp') /\ SameNegotiation(rtsp', s)
         /\ rtsp'.last = request
<1>1. /\ SessionTypes(rtsp') /\ SameNegotiation(rtsp', s)
      /\ rtsp'.keepAlive = s.keepAlive /\ Joined(rtsp', s, request)
  BY RequestJoins
<1>2. /\ rtsp'.last = request /\ rtsp'.sequence = s.sequence + 1
      /\ DOMAIN rtsp'.pending = {s.sequence + 1}
      /\ \A n \in DOMAIN rtsp'.pending : rtsp'.pending[n] = request
  BY <1>1 DEF Joined
<1>3. rtsp'.sequence # 0
  BY <1>2 DEF SessionTypes
<1>4. ~misretried'
  BY DEF RtspInv, RetriesHold
<1>5. RetriesHold'
  BY <1>1, <1>2, <1>3, <1>4 DEF RetriesHold
<1> QED BY <1>1, <1>2, <1>5

LEMMA TriggerHolds ==
  ASSUME RtspInv, TriggerPlayOrAnnounce
  PROVE  RtspInv'
<1>1. PICK tcp \in BOOLEAN :
        rtsp' = [Sent(rtsp, Method("OPTIONS")) EXCEPT !.forceTcp = tcp]
  BY DEF TriggerPlayOrAnnounce
<1>2. /\ role \in {"pull", "push"} /\ rtsp.sequence = 0
      /\ UNCHANGED <<role, inbound, outbound, doomed, publisher, asked, strays,
                     crashed, misretried>>
  BY DEF TriggerPlayOrAnnounce, IsOpen
<1> DEFINE request == Method("OPTIONS")
           x == Sent(rtsp, request)
<1>3. /\ SessionTypes(x) /\ SameNegotiation(x, rtsp)
      /\ x.keepAlive = rtsp.keepAlive /\ Joined(x, rtsp, request)
  BY Parts, SentJoins
<1>4. request.method = "OPTIONS"
  BY DEF Method
<1>5. rtsp' = [x EXCEPT !.forceTcp = tcp]
  BY <1>1
<1>6. request = Method("OPTIONS")
  OBVIOUS
<1> HIDE DEF x, request
<1>7. /\ DOMAIN rtsp' = Fields /\ rtsp'.forceTcp = tcp /\ rtsp'.open = x.open
      /\ rtsp'.keepAlive = rtsp.keepAlive
      /\ rtsp'.ids = rtsp.ids /\ rtsp'.waiting = rtsp.waiting
      /\ rtsp'.transports = rtsp.transports
      /\ rtsp'.ports = rtsp.ports /\ rtsp'.channels = rtsp.channels
  BY <1>3, <1>5 DEF SessionTypes, Fields, SameNegotiation
<1>8. /\ rtsp'.last = request /\ rtsp'.sequence = 1
      /\ rtsp'.pending = x.pending /\ x.sequence = 1
  BY <1>2, <1>3, <1>5 DEF SessionTypes, Fields, Joined
<1>9. SessionTypes(rtsp')
  BY <1>3, <1>7, <1>8, Parts DEF SessionTypes
<1>10. RtspTypes'
  BY <1>2, <1>9, Parts DEF RtspTypes
<1>11. DOMAIN rtsp.pending = {} /\ rtsp.last.method = "none"
  BY <1>2 DEF RtspInv, RetriesHold
<1>12. /\ DOMAIN rtsp'.pending = {1}
       /\ \A n \in DOMAIN rtsp'.pending : rtsp'.pending[n] = request
  BY <1>2, <1>3, <1>8, <1>11 DEF Joined
<1>13. RetriesHold'
  BY <1>2, <1>6, <1>7, <1>8, <1>12 DEF RtspInv, RetriesHold
<1>14. PullHolds'
  BY <1>2, <1>4, <1>8 DEF RtspInv, PullHolds, NoOutbound, NoTransport
<1>15. PushHolds'
  BY <1>2, <1>4, <1>7, <1>8, <1>11 DEF RtspInv, PushHolds
<1> QED BY <1>2, <1>10, <1>13, <1>14, <1>15, ClientStepHolds

LEMMA KeepAliveHolds ==
  ASSUME RtspInv, SendKeepAliveOptions
  PROVE  RtspInv'
<1> DEFINE request == Method("OPTIONS")
           x == Sent(rtsp, request)
<1>1. /\ rtsp.open /\ rtsp.keepAlive
      /\ rtsp' = [x EXCEPT !.keepAlive = Fits(x)]
      /\ UNCHANGED <<role, inbound, outbound, doomed, publisher, asked, strays,
                     crashed, misretried>>
  BY DEF SendKeepAliveOptions
<1>2. Fits(x) \in BOOLEAN
  BY DEF Fits
<1>3. /\ SessionTypes(x) /\ SameNegotiation(x, rtsp) /\ Joined(x, rtsp, request)
  BY Parts, SentJoins
<1>4. request = Method("OPTIONS") /\ request.method = "OPTIONS"
  BY DEF Method
<1>5. /\ role = "pull" /\ inbound.there
      /\ \A n \in DOMAIN rtsp.pending : rtsp.pending[n] = Method("OPTIONS")
  BY <1>1 DEF RtspInv, RetriesHold, GoneHolds
<1> HIDE DEF x, request
<1>6. /\ DOMAIN rtsp' = Fields /\ rtsp'.keepAlive = Fits(x) /\ rtsp'.open = x.open
      /\ SameNegotiation(rtsp', rtsp)
  BY <1>1, <1>3 DEF SessionTypes, Fields, SameNegotiation
<1>7. /\ rtsp'.last = request /\ rtsp'.sequence = x.sequence /\ rtsp'.pending = x.pending
      /\ x.sequence = rtsp.sequence + 1
  BY <1>1, <1>3 DEF SessionTypes, Fields, Joined
<1>8. SessionTypes(rtsp')
  BY <1>2, <1>3, <1>6, <1>7, Parts DEF SessionTypes, SameNegotiation
<1>9. RtspTypes'
  BY <1>1, <1>8, Parts DEF RtspTypes
<1>10. \A n \in DOMAIN rtsp'.pending : rtsp'.pending[n] = request
  BY <1>3, <1>4, <1>5, <1>7 DEF Joined
<1>11. rtsp'.sequence # 0
  BY <1>7, Parts DEF SessionTypes
<1>12. RetriesHold'
  BY <1>1, <1>4, <1>5, <1>7, <1>10, <1>11 DEF RtspInv, RetriesHold
<1>13. PullHolds'
  BY <1>1, <1>4, <1>7 DEF RtspInv, PullHolds, NoOutbound, NoTransport
<1>14. PushHolds'
  BY <1>1, <1>5 DEF PushHolds
<1> QED BY <1>1, <1>5, <1>9, <1>12, <1>13, <1>14, ClientStepHolds

\* 401: the last request is the one that was challenged.
LEMMA ChallengeHolds ==
  ASSUME RtspInv, NEW n \in DOMAIN rtsp.pending, HandleRTSPResponse401(n)
  PROVE  RtspInv'
<1> DEFINE a == Answered(rtsp, n)
           s == [a EXCEPT !.authenticated = TRUE]
<1>1. /\ rtsp.open /\ Requests(s, rtsp.last)
      /\ misretried' = (misretried \/ rtsp.last # rtsp.pending[n])
      /\ UNCHANGED <<role, inbound, outbound, doomed, publisher, asked, strays, crashed>>
  BY DEF HandleRTSPResponse401, IsOpen
<1>2. RetriesHold /\ GoneHolds /\ PullHolds /\ PushHolds
  BY DEF RtspInv
<1>3. /\ role \in {"pull", "push"} /\ rtsp.pending[n] = rtsp.last
  BY <1>1, <1>2, Parts DEF RetriesHold, GoneHolds
<1>4. /\ SessionTypes(a) /\ SameNegotiation(a, rtsp) /\ a.keepAlive = rtsp.keepAlive
      /\ DOMAIN a.pending = DOMAIN rtsp.pending \ {n}
      /\ \A k \in DOMAIN rtsp.pending \ {n} : a.pending[k] = rtsp.pending[k]
      /\ a.sequence = rtsp.sequence
  BY Parts, AnsweredLeaves
<1>5. s = [a EXCEPT !.authenticated = TRUE]
  OBVIOUS
<1> HIDE DEF a, s
<1>6. /\ DOMAIN s = Fields /\ SameNegotiation(s, rtsp) /\ s.keepAlive = rtsp.keepAlive
      /\ s.pending = a.pending /\ s.sequence = rtsp.sequence /\ s.open = a.open
  BY <1>4, <1>5 DEF SessionTypes, Fields, SameNegotiation
<1>7. SessionTypes(s)
  BY <1>4, <1>6, Parts DEF SessionTypes, SameNegotiation
<1>8. /\ SessionTypes(rtsp') /\ SameNegotiation(rtsp', s)
      /\ rtsp'.keepAlive = s.keepAlive /\ Joined(rtsp', s, rtsp.last)
  BY <1>1, <1>7, RequestJoins
<1>9. /\ rtsp'.last = rtsp.last /\ rtsp'.sequence = rtsp.sequence + 1
      /\ DOMAIN rtsp'.pending = (DOMAIN rtsp.pending \ {n}) \cup {rtsp.sequence + 1}
      /\ \A k \in DOMAIN rtsp'.pending : rtsp'.pending[k] = rtsp.last
  BY <1>2, <1>4, <1>6, <1>8 DEF Joined, RetriesHold
<1>10. rtsp'.sequence # 0
  BY <1>9, Parts DEF SessionTypes
<1>11. RtspTypes'
  BY <1>1, <1>8, Parts DEF RtspTypes
<1>12. \/ \A k, l \in DOMAIN rtsp'.pending : k = l
       \/ rtsp'.last = Method("OPTIONS") /\ inbound'.there
  BY <1>1, <1>2, <1>3, <1>9 DEF RetriesHold
<1>13. rtsp'.keepAlive =>
         /\ role = "pull" /\ inbound'.there
         /\ \A k \in DOMAIN rtsp'.pending : rtsp'.pending[k] = Method("OPTIONS")
  BY <1>1, <1>2, <1>3, <1>6, <1>8, <1>9 DEF RetriesHold
<1>14. RetriesHold'
  BY <1>1, <1>2, <1>3, <1>9, <1>10, <1>12, <1>13 DEF RetriesHold
<1>15. SameNegotiation(rtsp', rtsp)
  BY <1>6, <1>8 DEF SameNegotiation
<1>16. PullHolds'
  BY <1>1, <1>2, <1>9, <1>15 DEF PullHolds, SameNegotiation, NoOutbound, NoTransport
<1>17. PushHolds'
  BY <1>1, <1>2, <1>9, <1>15 DEF PushHolds, SameNegotiation
<1> QED BY <1>1, <1>3, <1>11, <1>14, <1>16, <1>17, ClientStepHolds

LEMMA OptionsHolds ==
  ASSUME RtspInv, NEW n \in DOMAIN rtsp.pending, HandleRTSPResponse200Options(n)
  PROVE  RtspInv'
<1> DEFINE s == Answered(rtsp, n)
<1>1. /\ Ok(role, n, "OPTIONS")
      /\ UNCHANGED <<role, inbound, outbound, doomed, publisher, asked, strays,
                     crashed, misretried>>
      /\ (inbound.there \/ outbound.there) => rtsp' = s
      /\ ~(inbound.there \/ outbound.there) =>
           \/ role = "pull" /\ Requests(s, Method("DESCRIBE"))
           \/ role = "push" /\ Requests([s EXCEPT !.ids = Tracks], Method("ANNOUNCE"))
  BY DEF HandleRTSPResponse200Options
<1>2. RetriesHold /\ GoneHolds /\ PullHolds /\ PushHolds
  BY DEF RtspInv
<1>3. /\ SessionTypes(s) /\ SameNegotiation(s, rtsp) /\ s.keepAlive = rtsp.keepAlive
      /\ s.last = rtsp.last /\ s.open = rtsp.open /\ s.sequence = rtsp.sequence
      /\ DOMAIN s.pending = DOMAIN rtsp.pending \ {n}
      /\ \A k \in DOMAIN rtsp.pending \ {n} : s.pending[k] = rtsp.pending[k]
  BY Parts, AnsweredLeaves
<1>4. /\ role \in {"pull", "push"} /\ rtsp.last.method = "OPTIONS"
  BY <1>1, <1>2, Parts DEF Ok, IsOpen, RetriesHold, GoneHolds
<1> HIDE DEF s
<1>5. CASE inbound.there \/ outbound.there
  <2>1. rtsp' = s
    BY <1>1, <1>5
  <2>2. RtspTypes'
    BY <1>1, <1>3, <2>1, Parts DEF RtspTypes
  <2>3. RetriesHold'
    BY <1>1, <1>2, <1>3, <2>1 DEF RetriesHold
  <2>4. PullHolds'
    BY <1>1, <1>2, <1>3, <2>1 DEF PullHolds, SameNegotiation, NoOutbound, NoTransport
  <2>5. PushHolds'
    BY <1>1, <1>2, <1>3, <2>1 DEF PushHolds, SameNegotiation
  <2> QED BY <1>1, <1>4, <2>2, <2>3, <2>4, <2>5, ClientStepHolds
<1>6. CASE ~(inbound.there \/ outbound.there)
  <2>1. DOMAIN s.pending = {} /\ ~s.keepAlive
    BY <1>1, <1>3, <1>6, AnswersTheOnly DEF s
  <2>2. CASE role = "pull" /\ Requests(s, Method("DESCRIBE"))
    <3>1. /\ RetriesHold' /\ SessionTypes(rtsp') /\ SameNegotiation(rtsp', s)
          /\ rtsp'.last = Method("DESCRIBE")
      BY <1>1, <1>3, <1>4, <2>1, <2>2, NextRequestHolds
    <3>2. RtspTypes'
      BY <1>1, <3>1, Parts DEF RtspTypes
    <3>3. PullHolds' /\ PushHolds'
      BY <1>1, <1>2, <2>2, <3>1 DEF PullHolds, PushHolds, NoOutbound, NoTransport, Method
    <3> QED BY <1>1, <1>4, <3>1, <3>2, <3>3, ClientStepHolds
  <2>3. CASE role = "push" /\ Requests([s EXCEPT !.ids = Tracks], Method("ANNOUNCE"))
    <3> DEFINE x == [s EXCEPT !.ids = Tracks]
    <3>1. /\ DOMAIN x = Fields /\ x.ids = Tracks /\ x.waiting = s.waiting
          /\ x.forceTcp = s.forceTcp /\ x.transports = s.transports
          /\ x.ports = s.ports /\ x.channels = s.channels
      BY <1>3 DEF SessionTypes, Fields
    <3>2. /\ x.open = s.open /\ x.keepAlive = s.keepAlive /\ x.pending = s.pending
          /\ x.sequence = s.sequence
      BY <1>3 DEF SessionTypes, Fields
    <3>3. Requests(x, Method("ANNOUNCE"))
      BY <2>3
    <3> HIDE DEF x
    <3>4. SessionTypes(x) /\ DOMAIN x.pending = {} /\ ~x.keepAlive
      BY <1>3, <2>1, <3>1, <3>2 DEF SessionTypes
    <3>5. /\ RetriesHold' /\ SessionTypes(rtsp') /\ SameNegotiation(rtsp', x)
          /\ rtsp'.last = Method("ANNOUNCE")
      BY <1>1, <1>4, <3>3, <3>4, NextRequestHolds
    <3>6. RtspTypes'
      BY <1>1, <3>5, Parts DEF RtspTypes
    <3>7. PullHolds'
      BY <1>1, <2>3 DEF PullHolds
    <3>8. /\ rtsp'.last.method = "ANNOUNCE" /\ rtsp'.ids = Tracks
          /\ rtsp'.transports = rtsp.transports /\ rtsp'.forceTcp = rtsp.forceTcp
      BY <1>3, <3>1, <3>5 DEF SameNegotiation, Method
    <3>9. PushHolds'
      BY <1>1, <1>2, <1>4, <2>3, <3>8 DEF PushHolds
    <3> QED BY <1>1, <1>4, <3>5, <3>6, <3>7, <3>9, ClientStepHolds
  <2> QED BY <1>1, <1>6, <2>2, <2>3
<1> QED BY <1>5, <1>6

\* A pull adds the next track and sets it up.
LEMMA SendSetupHolds ==
  ASSUME RtspInv, role = "pull", NEW s, NEW conn \in Inbound, NEW t \in Tracks,
         SessionTypes(s), DOMAIN s.pending = {}, ~s.keepAlive,
         SendSetupTrackMessages(s, conn, t),
         UNCHANGED <<role, outbound, asked, strays, crashed, misretried>>
  PROVE  RtspInv'
<1> DEFINE x == [s EXCEPT !.waiting = s.waiting \ {t}]
<1>1. /\ inbound' = [conn EXCEPT !.added[t] = Transport(s.forceTcp)]
      /\ Requests(x, SetupOf(t))
  BY DEF SendSetupTrackMessages
<1>2. /\ DOMAIN x = Fields /\ x.waiting = s.waiting \ {t} /\ x.ids = s.ids
      /\ x.forceTcp = s.forceTcp /\ x.transports = s.transports
      /\ x.ports = s.ports /\ x.channels = s.channels
  BY DEF SessionTypes, Fields
<1>3. /\ x.open = s.open /\ x.keepAlive = s.keepAlive /\ x.pending = s.pending
      /\ x.sequence = s.sequence
  BY DEF SessionTypes, Fields
<1> HIDE DEF x
<1>4. SessionTypes(x) /\ DOMAIN x.pending = {} /\ ~x.keepAlive
  BY <1>2, <1>3 DEF SessionTypes
<1>5. /\ RetriesHold' /\ SessionTypes(rtsp') /\ rtsp'.last = SetupOf(t)
  BY <1>1, <1>4, NextRequestHolds
<1>6. Transport(s.forceTcp) \in Ways
  BY DEF Transport, Ways
<1>7. inbound' \in Inbound
  BY <1>1, <1>6 DEF Inbound
<1>8. RtspTypes'
  BY <1>5, <1>7, Parts DEF RtspTypes
<1>9. PullHolds' /\ PushHolds'
  BY <1>5 DEF RtspInv, PullHolds, PushHolds, NoOutbound, NoTransport, SetupOf
<1> QED BY <1>5, <1>8, <1>9, ClientStepHolds

LEMMA DescribedHolds ==
  ASSUME RtspInv, NEW n \in DOMAIN rtsp.pending, NEW tracks \in SUBSET Tracks,
         HandleRTSPResponse200Describe(n, tracks)
  PROVE  RtspInv'
<1> DEFINE a == Answered(rtsp, n)
           s == [a EXCEPT !.waiting = a.waiting \cup tracks]
           conn == [NoInbound EXCEPT !.there = TRUE]
<1>1. /\ Ok("pull", n, "DESCRIBE")
      /\ UNCHANGED <<role, outbound, publisher, asked, strays, crashed, misretried>>
      /\ \E t \in tracks : SendSetupTrackMessages(s, conn, t)
  BY DEF HandleRTSPResponse200Describe
<1>2. PICK t \in tracks : SendSetupTrackMessages(s, conn, t)
  BY <1>1
<1>3. /\ role = "pull" /\ DOMAIN a.pending = {} /\ ~rtsp.keepAlive
  BY <1>1, AnswersTheOnly
<1>4. SessionTypes(a) /\ a.keepAlive = rtsp.keepAlive
  BY Parts, AnsweredLeaves
<1>5. conn \in Inbound
  BY DEF NoInbound, NoTransport, Inbound, Ways
<1>6. s = [a EXCEPT !.waiting = a.waiting \cup tracks]
  OBVIOUS
<1> HIDE DEF a, s, conn
<1>7. /\ DOMAIN s = Fields /\ s.waiting = a.waiting \cup tracks /\ s.ids = a.ids
      /\ s.forceTcp = a.forceTcp /\ s.transports = a.transports
      /\ s.ports = a.ports /\ s.channels = a.channels
  BY <1>4, <1>6 DEF SessionTypes, Fields
<1>8. /\ s.open = a.open /\ s.keepAlive = a.keepAlive /\ s.pending = a.pending
      /\ s.sequence = a.sequence
  BY <1>4, <1>6 DEF SessionTypes, Fields
<1>9. SessionTypes(s) /\ DOMAIN s.pending = {} /\ ~s.keepAlive
  BY <1>3, <1>4, <1>7, <1>8 DEF SessionTypes
<1>10. t \in Tracks
  OBVIOUS
<1> QED BY <1>1, <1>2, <1>3, <1>5, <1>9, <1>10, SendSetupHolds

\* PLAY follows the SETUP of the last track that waits.
LEMMA SetupPullHolds ==
  ASSUME RtspInv, NEW n \in DOMAIN rtsp.pending, HandleRTSPResponse200SetupPull(n)
  PROVE  RtspInv'
<1> DEFINE s == Answered(rtsp, n)
<1>1. /\ Ok("pull", n, "SETUP")
      /\ UNCHANGED <<role, outbound, doomed, publisher, asked, strays, crashed,
                     misretried>>
      /\ \/ \E t \in Tracks : SendSetupTrackMessages(s, inbound, t)
         \/ NothingWaits(s) /\ Requests(s, Method("PLAY")) /\ UNCHANGED inbound
  BY DEF HandleRTSPResponse200SetupPull
<1>2. /\ role = "pull" /\ DOMAIN s.pending = {} /\ ~rtsp.keepAlive
  BY <1>1, AnswersTheOnly
<1>3. SessionTypes(s) /\ s.keepAlive = rtsp.keepAlive
  BY Parts, AnsweredLeaves
<1> HIDE DEF s
<1>4. ASSUME NEW t \in Tracks, SendSetupTrackMessages(s, inbound, t)
      PROVE  RtspInv'
  BY <1>1, <1>2, <1>3, <1>4, Parts, SendSetupHolds
<1>5. CASE NothingWaits(s) /\ Requests(s, Method("PLAY")) /\ UNCHANGED inbound
  <2>1. /\ RetriesHold' /\ SessionTypes(rtsp') /\ SameNegotiation(rtsp', s)
        /\ rtsp'.last = Method("PLAY")
    BY <1>1, <1>2, <1>3, <1>5, NextRequestHolds
  <2>2. RtspTypes'
    BY <1>1, <1>5, <2>1, Parts DEF RtspTypes
  <2>3. rtsp'.waiting = {}
    BY <1>5, <2>1 DEF NothingWaits, SameNegotiation
  <2>4. PullHolds' /\ PushHolds'
    BY <1>1, <1>2, <2>3 DEF RtspInv, PullHolds, PushHolds, NoOutbound, NoTransport
  <2> QED BY <1>1, <1>2, <2>1, <2>2, <2>4, ClientStepHolds
<1> QED BY <1>1, <1>4, <1>5

LEMMA PlayedHolds ==
  ASSUME RtspInv, NEW n \in DOMAIN rtsp.pending, HandleRTSPResponse200Play(n)
  PROVE  RtspInv'
<1> DEFINE s == Answered(rtsp, n)
<1>1. /\ Ok("pull", n, "PLAY") /\ inbound.there
      /\ inbound' = [inbound EXCEPT !.ready = TRUE]
      /\ rtsp' = [s EXCEPT !.keepAlive = TRUE]
      /\ UNCHANGED <<role, outbound, doomed, publisher, asked, strays, crashed,
                     misretried>>
  BY DEF HandleRTSPResponse200Play
<1>2. /\ role = "pull" /\ DOMAIN s.pending = {} /\ rtsp.last.method = "PLAY"
  BY <1>1, AnswersTheOnly
<1>3. /\ SessionTypes(s) /\ SameNegotiation(s, rtsp) /\ s.last = rtsp.last
      /\ s.sequence = rtsp.sequence
  BY Parts, AnsweredLeaves
<1> HIDE DEF s
<1>4. /\ DOMAIN rtsp' = Fields /\ rtsp'.keepAlive = TRUE /\ rtsp'.open = s.open
      /\ rtsp'.pending = s.pending /\ rtsp'.sequence = s.sequence
      /\ rtsp'.last = s.last
  BY <1>1, <1>3 DEF SessionTypes, Fields
<1>5. SameNegotiation(rtsp', s)
  BY <1>1, <1>3 DEF SessionTypes, Fields, SameNegotiation
<1>6. SessionTypes(rtsp')
  BY <1>3, <1>4, <1>5 DEF SessionTypes, SameNegotiation
<1>7. inbound' \in Inbound /\ inbound'.there
  BY <1>1, Parts DEF Inbound
<1>8. RtspTypes'
  BY <1>1, <1>6, <1>7, Parts DEF RtspTypes
<1>9. rtsp.sequence # 0
  BY DEF RtspInv, RetriesHold
<1>10. RetriesHold'
  BY <1>1, <1>2, <1>3, <1>4, <1>7, <1>9 DEF RtspInv, RetriesHold
<1>11. rtsp'.waiting = rtsp.waiting
  BY <1>3, <1>5 DEF SameNegotiation
<1>12. PullHolds' /\ PushHolds'
  BY <1>1, <1>2, <1>3, <1>4, <1>11
     DEF RtspInv, PullHolds, PushHolds, NoOutbound, NoTransport
<1> QED BY <1>1, <1>2, <1>8, <1>10, <1>12, ClientStepHolds

\* A push sets up the next track, and after the last one it records.
LEMMA SetsUpNextHolds ==
  ASSUME RtspInv, role = "push", NEW s, NEW conn \in Outbound,
         SessionTypes(s), DOMAIN s.pending = {}, ~s.keepAlive,
         SetsUpNextId(s, conn),
         UNCHANGED <<role, inbound, strays, crashed, misretried>>,
         asked' \in [Tracks -> Ways],
         conn.there, conn.has = Tracks \ s.ids, s.transports = conn.has,
         \A t \in Tracks :
           /\ conn.client[t] = "none"
           /\ t \in s.transports => asked'[t] = Transport(s.forceTcp)
  PROVE  RtspInv'
<1>1. CASE s.ids = {}
  <2>1. outbound' = conn /\ Requests(s, Method("RECORD"))
    BY <1>1 DEF SetsUpNextId
  <2>2. /\ RetriesHold' /\ SessionTypes(rtsp') /\ SameNegotiation(rtsp', s)
        /\ rtsp'.last = Method("RECORD")
    BY <2>1, NextRequestHolds
  <2>3. RtspTypes'
    BY <2>1, <2>2, Parts DEF RtspTypes
  <2>4. /\ rtsp'.last.method = "RECORD" /\ rtsp'.transports = s.transports
        /\ rtsp'.forceTcp = s.forceTcp
    BY <2>2 DEF Method, SameNegotiation
  <2>5. PullHolds'
    BY DEF PullHolds
  <2>6. PushHolds'
    BY <1>1, <2>1, <2>4 DEF PushHolds
  <2> QED BY <2>2, <2>3, <2>5, <2>6, ClientStepHolds
<1>2. CASE s.ids # {}
  <2> DEFINE t == NextId(s)
             x == [s EXCEPT !.ids = s.ids \ {t}, !.lastSetup = t]
  <2>1. outbound' = [conn EXCEPT !.has = conn.has \cup {t}] /\ Requests(x, SetupOf(t))
    BY <1>2 DEF SetsUpNextId
  <2>2. t \in s.ids
    BY <1>2 DEF NextId, SessionTypes, Tracks
  <2>3. x = [s EXCEPT !.ids = s.ids \ {t}, !.lastSetup = t]
    OBVIOUS
  <2> HIDE DEF x, t
  <2>4. /\ DOMAIN x = Fields /\ x.ids = s.ids \ {t} /\ x.lastSetup = t
        /\ x.waiting = s.waiting /\ x.forceTcp = s.forceTcp
        /\ x.transports = s.transports /\ x.ports = s.ports /\ x.channels = s.channels
    BY <2>3 DEF SessionTypes, Fields
  <2>5. /\ x.open = s.open /\ x.keepAlive = s.keepAlive /\ x.pending = s.pending
        /\ x.sequence = s.sequence
    BY <2>3 DEF SessionTypes, Fields
  <2>6. SessionTypes(x) /\ DOMAIN x.pending = {} /\ ~x.keepAlive
    BY <2>4, <2>5 DEF SessionTypes
  <2>7. /\ RetriesHold' /\ SessionTypes(rtsp') /\ SameNegotiation(rtsp', x)
        /\ rtsp'.last = SetupOf(t)
    BY <2>1, <2>6, NextRequestHolds
  <2>8. t \in Tracks /\ s.ids \in SUBSET Tracks
    BY <2>2 DEF SessionTypes
  <2>9. /\ outbound' \in Outbound /\ outbound'.there
        /\ outbound'.has = conn.has \cup {t} /\ outbound'.client = conn.client
    BY <2>1, <2>8 DEF Outbound
  <2>10. RtspTypes'
    BY <2>7, <2>9, Parts DEF RtspTypes
  <2>11. /\ rtsp'.last.method = "SETUP" /\ rtsp'.transports = s.transports
         /\ rtsp'.forceTcp = s.forceTcp /\ rtsp'.ids = s.ids \ {t}
         /\ rtsp'.lastSetup = t
    BY <2>4, <2>7 DEF SetupOf, SameNegotiation
  <2>12. PullHolds'
    BY DEF PullHolds
  <2>13. /\ outbound'.has = Tracks \ rtsp'.ids /\ rtsp'.lastSetup \in outbound'.has
         /\ rtsp'.transports = outbound'.has \ {rtsp'.lastSetup}
    BY <2>2, <2>8, <2>9, <2>11
  <2>14. PushHolds'
    BY <2>7, <2>9, <2>11, <2>13 DEF PushHolds
  <2> QED BY <2>7, <2>10, <2>12, <2>14, ClientStepHolds
<1> QED BY <1>1, <1>2

LEMMA AnnouncedHolds ==
  ASSUME RtspInv, NEW n \in DOMAIN rtsp.pending, HandleRTSPResponse200Announce(n)
  PROVE  RtspInv'
<1> DEFINE s == Answered(rtsp, n)
           conn == OutboundFor(rtsp.forceTcp)
<1>1. /\ Ok("push", n, "ANNOUNCE") /\ SetsUpNextId(s, conn)
      /\ UNCHANGED <<role, inbound, doomed, publisher, asked, strays, crashed,
                     misretried>>
  BY DEF HandleRTSPResponse200Announce
<1>2. /\ role = "push" /\ DOMAIN s.pending = {} /\ ~rtsp.keepAlive
      /\ rtsp.last.method = "ANNOUNCE"
  BY <1>1, AnswersTheOnly
<1>3. /\ SessionTypes(s) /\ s.keepAlive = rtsp.keepAlive /\ SameNegotiation(s, rtsp)
  BY Parts, AnsweredLeaves
<1>4. ~outbound.there /\ rtsp.transports = {} /\ rtsp.ids = Tracks
  BY <1>2 DEF RtspInv, PushHolds
<1>5. rtsp.forceTcp \in BOOLEAN
  BY Parts DEF SessionTypes
<1>6. /\ conn \in Outbound /\ conn.there /\ conn.has = {}
      /\ \A t \in Tracks : conn.client[t] = "none"
  BY <1>4, <1>5, Parts, OutboundIsMade
<1> HIDE DEF s, conn
<1>7. s.ids = Tracks /\ s.transports = {} /\ ~s.keepAlive
  BY <1>2, <1>3, <1>4 DEF SameNegotiation
<1>8. conn.has = Tracks \ s.ids /\ s.transports = conn.has
  BY <1>6, <1>7
<1>9. asked' \in [Tracks -> Ways]
  BY <1>1, Parts
<1>10. \A t \in Tracks :
         /\ conn.client[t] = "none"
         /\ t \in s.transports => asked'[t] = Transport(s.forceTcp)
  BY <1>6, <1>7
<1> QED BY <1>1, <1>2, <1>3, <1>6, <1>7, <1>8, <1>9, <1>10, SetsUpNextHolds

LEMMA SetupPushHolds ==
  ASSUME RtspInv, NEW n \in DOMAIN rtsp.pending, HandleRTSPResponse200SetupPush(n)
  PROVE  RtspInv'
<1> DEFINE a == Answered(rtsp, n)
           done == IF rtsp.lastSetup = "audio" THEN "audio" ELSE "video"
           s == [a EXCEPT !.transports = a.transports \cup {done}]
<1>1. /\ Ok("push", n, "SETUP") /\ SetsUpNextId(s, OutboundFor(s.forceTcp))
      /\ asked' = [asked EXCEPT ![rtsp.pending[n].track] = Transport(rtsp.forceTcp)]
      /\ UNCHANGED <<role, inbound, doomed, publisher, strays, crashed, misretried>>
  BY DEF HandleRTSPResponse200SetupPush
<1>2. /\ role = "push" /\ DOMAIN a.pending = {} /\ ~rtsp.keepAlive
      /\ rtsp.last.method = "SETUP" /\ rtsp.pending[n] = rtsp.last
  BY <1>1, AnswersTheOnly
<1>3. /\ SessionTypes(a) /\ a.keepAlive = rtsp.keepAlive /\ SameNegotiation(a, rtsp)
  BY Parts, AnsweredLeaves
<1>4. /\ outbound.there /\ outbound.has = Tracks \ rtsp.ids
      /\ rtsp.last = SetupOf(rtsp.lastSetup) /\ rtsp.lastSetup \in outbound.has
      /\ rtsp.transports = outbound.has \ {rtsp.lastSetup}
  BY <1>2 DEF RtspInv, PushHolds
<1>5. \A t \in Tracks :
        /\ t \in rtsp.transports => asked[t] = Transport(rtsp.forceTcp)
        /\ outbound.client[t] # "none" => t \in rtsp.transports
  BY <1>2 DEF RtspInv, PushHolds
<1>6. rtsp.lastSetup \in Tracks /\ done = rtsp.lastSetup
  BY <1>4, Parts DEF Outbound, Tracks
<1>7. s = [a EXCEPT !.transports = a.transports \cup {done}]
  OBVIOUS
<1> HIDE DEF a, s, done
<1>8. /\ DOMAIN s = Fields /\ s.transports = a.transports \cup {done} /\ s.ids = a.ids
      /\ s.waiting = a.waiting /\ s.forceTcp = a.forceTcp
      /\ s.ports = a.ports /\ s.channels = a.channels
  BY <1>3, <1>7 DEF SessionTypes, Fields
<1>9. /\ s.open = a.open /\ s.keepAlive = a.keepAlive /\ s.pending = a.pending
      /\ s.sequence = a.sequence
  BY <1>3, <1>7 DEF SessionTypes, Fields
<1>10. SessionTypes(s) /\ DOMAIN s.pending = {} /\ ~s.keepAlive
  BY <1>2, <1>3, <1>6, <1>8, <1>9 DEF SessionTypes
<1>11. s.ids = rtsp.ids /\ s.forceTcp = rtsp.forceTcp
       /\ s.transports = rtsp.transports \cup {rtsp.lastSetup}
  BY <1>3, <1>6, <1>8 DEF SameNegotiation
<1>12. s.transports = outbound.has
  BY <1>4, <1>11
<1>13. s.forceTcp \in BOOLEAN
  BY <1>10 DEF SessionTypes
<1>14. OutboundFor(s.forceTcp) = outbound
  BY <1>4, <1>13, Parts, OutboundIsMade
<1>15. rtsp.pending[n].track = rtsp.lastSetup
  BY <1>2, <1>4 DEF SetupOf
<1>16. Transport(rtsp.forceTcp) \in Ways
  BY DEF Transport, Ways
<1>17. /\ asked' \in [Tracks -> Ways]
       /\ asked'[rtsp.lastSetup] = Transport(rtsp.forceTcp)
       /\ \A t \in Tracks \ {rtsp.lastSetup} : asked'[t] = asked[t]
  BY <1>1, <1>6, <1>15, <1>16, Parts
<1>18. \A t \in Tracks : outbound.client[t] = "none"
  BY <1>2 DEF RtspInv, PushHolds
<1>19. \A t \in Tracks :
         /\ outbound.client[t] = "none"
         /\ t \in s.transports => asked'[t] = Transport(s.forceTcp)
  BY <1>5, <1>11, <1>17, <1>18
<1>20. SetsUpNextId(s, outbound) /\ outbound \in Outbound
       /\ outbound.has = Tracks \ s.ids
  BY <1>1, <1>4, <1>11, <1>14, Parts
<1> QED BY <1>1, <1>2, <1>4, <1>10, <1>12, <1>17, <1>19, <1>20, SetsUpNextHolds

\* Each track that was set up is registered by the way it was set up.
LEMMA RecordedHolds ==
  ASSUME RtspInv, NEW n \in DOMAIN rtsp.pending, HandleRTSPResponse200Record(n)
  PROVE  RtspInv'
<1> DEFINE s == Answered(rtsp, n)
           b == "audio" \in s.transports \/ (~s.forceTcp /\ s.transports # {})
<1>1. /\ Ok("push", n, "RECORD")
      /\ outbound' = RegisterClient(OutboundFor(s.forceTcp), s.transports, s.forceTcp)
      /\ rtsp' = [s EXCEPT !.open = b]
      /\ UNCHANGED <<role, inbound, doomed, publisher, asked, strays, crashed,
                     misretried>>
  BY DEF HandleRTSPResponse200Record
<1>2. /\ role = "push" /\ DOMAIN s.pending = {} /\ ~rtsp.keepAlive
      /\ rtsp.last.method = "RECORD"
  BY <1>1, AnswersTheOnly
<1>3. /\ SessionTypes(s) /\ s.keepAlive = rtsp.keepAlive /\ SameNegotiation(s, rtsp)
      /\ s.last = rtsp.last /\ s.sequence = rtsp.sequence
  BY Parts, AnsweredLeaves
<1>4. outbound.there /\ rtsp.transports = Tracks /\ outbound.has = Tracks
  BY <1>2 DEF RtspInv, PushHolds
<1>5. \A t \in Tracks : asked[t] = Transport(rtsp.forceTcp)
  BY <1>2, <1>4 DEF RtspInv, PushHolds
<1>6. b \in BOOLEAN
  OBVIOUS
<1> HIDE DEF s, b
<1>7. s.forceTcp \in BOOLEAN /\ s.forceTcp = rtsp.forceTcp /\ s.transports = Tracks
  BY <1>3, <1>4 DEF SessionTypes, SameNegotiation
<1>8. OutboundFor(s.forceTcp) = outbound
  BY <1>4, <1>7, Parts, OutboundIsMade
<1>9. /\ DOMAIN rtsp' = Fields /\ rtsp'.open = b /\ rtsp'.keepAlive = s.keepAlive
      /\ rtsp'.pending = s.pending /\ rtsp'.sequence = s.sequence
      /\ rtsp'.last = s.last
  BY <1>1, <1>3 DEF SessionTypes, Fields
<1>10. SameNegotiation(rtsp', s)
  BY <1>1, <1>3 DEF SessionTypes, Fields, SameNegotiation
<1>11. SessionTypes(rtsp')
  BY <1>3, <1>6, <1>9, <1>10 DEF SessionTypes, SameNegotiation
<1> DEFINE made == RegisterClient(outbound, Tracks, s.forceTcp)
<1>12. outbound' = made
  BY <1>1, <1>7, <1>8
<1>13. outbound \in Outbound /\ Tracks \in SUBSET Tracks /\ s.forceTcp \in BOOLEAN
  BY <1>7, Parts
<1>14. /\ made \in Outbound /\ made.there = outbound.there /\ made.has = outbound.has
       /\ \A t \in Tracks : made.client[t] =
            IF t \in Tracks THEN Transport(s.forceTcp) ELSE outbound.client[t]
  BY <1>13, RegisterGives
<1> HIDE DEF made
<1>15. /\ outbound' \in Outbound /\ outbound'.there /\ outbound'.has = Tracks
       /\ \A t \in Tracks : outbound'.client[t] = Transport(rtsp.forceTcp)
  BY <1>4, <1>7, <1>12, <1>14
<1>16. RtspTypes'
  BY <1>1, <1>11, <1>15, Parts DEF RtspTypes
<1>17. rtsp.sequence # 0
  BY DEF RtspInv, RetriesHold
<1>18. RetriesHold'
  BY <1>1, <1>2, <1>3, <1>9, <1>17 DEF RtspInv, RetriesHold
<1>19. PullHolds'
  BY <1>1, <1>2 DEF PullHolds
<1>20. /\ rtsp'.last.method = "RECORD" /\ rtsp'.transports = Tracks
       /\ rtsp'.forceTcp = rtsp.forceTcp
  BY <1>2, <1>3, <1>7, <1>9, <1>10 DEF SameNegotiation
<1>21. PushHolds'
  BY <1>1, <1>5, <1>15, <1>20 DEF PushHolds
<1> QED BY <1>1, <1>2, <1>16, <1>18, <1>19, <1>21, ClientStepHolds

-----------------------------------------------------------------------------
(* The theorems. *)

LEMMA RtspInitHolds == RtspInit => RtspInv
<1> SUFFICES ASSUME RtspInit PROVE RtspInv
  OBVIOUS
<1>1. /\ role \in {"server", "pull", "push"}
      /\ inbound = NoInbound /\ outbound = NoOutbound /\ asked = NoTransport
      /\ strays = {} /\ crashed = FALSE /\ misretried = FALSE
  BY DEF RtspInit
<1>2. rtsp = [open |-> TRUE, session |-> FALSE, direction |-> "unset",
              waiting |-> {}, ids |-> {}, forceTcp |-> FALSE, ports |-> {},
              channels |-> {}, transports |-> {}, lastSetup |-> "none",
              authenticated |-> FALSE, keepAlive |-> FALSE, sequence |-> 0,
              last |-> Method("none"), pending |-> <<>>]
  BY DEF RtspInit
<1>3. NoTransport \in [Tracks -> Ways] /\ \A t \in Tracks : NoTransport[t] = "none"
  BY DEF NoTransport, Ways
<1>4. NoInbound \in Inbound /\ NoOutbound \in Outbound
  BY <1>3 DEF NoInbound, NoOutbound, Inbound, Outbound
<1>5. ~outbound.there /\ outbound.has = {} /\ \A t \in Tracks : outbound.client[t] = "none"
  BY <1>1, <1>3 DEF NoOutbound
<1>6. SessionTypes(rtsp)
  BY <1>2 DEF SessionTypes, Fields
<1>7. RtspTypes
  BY <1>1, <1>3, <1>4, <1>6 DEF RtspTypes
<1>8. /\ DOMAIN rtsp.pending = {} /\ rtsp.last.method = "none" /\ rtsp.keepAlive = FALSE
      /\ rtsp.transports = {} /\ rtsp.channels = {} /\ rtsp.ports = {}
  BY <1>2 DEF Method
<1>9. RetriesHold
  BY <1>1, <1>8 DEF RetriesHold
<1>10. GoneHolds /\ PullHolds
  BY <1>1, <1>8 DEF GoneHolds, PullHolds
<1>11. PushHolds
  BY <1>5, <1>8 DEF PushHolds
<1>12. ServerHolds
  BY <1>5, <1>8 DEF ServerHolds
<1>13. NothingMissingIsUsed
  BY <1>1 DEF NothingMissingIsUsed
<1> QED BY <1>7, <1>9, <1>10, <1>11, <1>12, <1>13 DEF RtspInv

LEMMA RtspStepHolds == RtspInv /\ [RtspNext]_rtspVars => RtspInv'
<1> SUFFICES ASSUME RtspInv, [RtspNext]_rtspVars PROVE RtspInv'
  OBVIOUS
<1>1. CASE UNCHANGED rtspVars
  <2>1. UNCHANGED <<role, rtsp, inbound, outbound, doomed, publisher, asked, strays,
                    crashed, misretried>>
    BY <1>1 DEF rtspVars
  <2>2. /\ SessionTypes(rtsp') /\ Kept(rtsp', rtsp)
        /\ rtsp'.ids = rtsp.ids /\ rtsp'.waiting = rtsp.waiting
    BY <2>1, Parts, SameSession
  <2>3. RtspTypes'
    BY <2>1, <2>2, Parts DEF RtspTypes
  <2> QED BY <2>1, <2>2, <2>3, UnaffectedHolds
<1>2. CASE \/ Misses \/ TriggerPlayOrAnnounce \/ SendKeepAliveOptions
           \/ HandleRTSPRequestDescribe \/ HandleRTSPRequestPlay \/ HandleRTSPRequestRecord
           \/ PublisherLeaves \/ PulseEnds
  BY <1>2, MissesHolds, TriggerHolds, KeepAliveHolds, DescribeHolds, PlayHolds,
     RecordHolds, PublisherLeavesHolds, PulseEndsHolds
<1>3. CASE \/ \E more \in BOOLEAN : HandleRTSPRequestTearDown(more)
           \/ \E tracks \in SUBSET Tracks : HandleRTSPRequestAnnounce(tracks)
           \/ \E d \in doomed : LateReport(d)
  BY <1>3, TearDownHolds, AnnounceHolds, ReportHolds
<1>4. CASE \E t \in Tracks :
             \/ SenderReport(t) \/ FeedFails(t)
             \/ \E tcp \in BOOLEAN :
                  \/ HandleRTSPRequestSetupOutbound(t, tcp)
                  \/ HandleRTSPRequestSetupInbound(t, Transport(tcp))
  BY <1>4, ReportHolds, FeedFailsHolds, SetupOutboundHolds, SetupInboundHolds
<1>5. CASE \E n \in DOMAIN rtsp.pending :
             \/ HandleRTSPResponse200Options(n)
             \/ \E tracks \in SUBSET Tracks : HandleRTSPResponse200Describe(n, tracks)
             \/ HandleRTSPResponse200SetupPull(n) \/ HandleRTSPResponse200Play(n)
             \/ HandleRTSPResponse200Announce(n) \/ HandleRTSPResponse200SetupPush(n)
             \/ HandleRTSPResponse200Record(n) \/ HandleRTSPResponse401(n)
  BY <1>5, OptionsHolds, DescribedHolds, SetupPullHolds, PlayedHolds, AnnouncedHolds,
     SetupPushHolds, RecordedHolds, ChallengeHolds
<1> QED BY <1>1, <1>2, <1>3, <1>4, <1>5 DEF RtspNext

\* How far each session has got, in every behaviour.
THEOREM RtspInvariant == RtspSpec => []RtspInv
BY RtspInitHolds, RtspStepHolds, PTL DEF RtspSpec

\* The server uses nothing that is not there in any order of requests, responses,
\* reports and failed feeds, unless the peer mixes transports, goes on after TEARDOWN
\* or reports when there is no stream (BaseRTSPAppProtocolHandler, InboundConnectivity,
\* OutboundConnectivity).
THEOREM NothingMissing == RtspSpec => []NothingMissingIsUsed
<1>1. RtspInv => NothingMissingIsUsed
  BY DEF RtspInv
<1> QED BY <1>1, RtspInvariant, PTL

\* Each track goes by the way of its own SETUP, PLAY and RECORD wait for the SETUP of
\* all tracks, and it is the challenged request that is repeated
\* (HandleRTSPRequestSetupOutbound, HandleRTSPResponse200Setup, SetAuthentication).
THEOREM NegotiationsHold == RtspSpec => []NegotiationHolds
<1>1. RtspInv => NegotiationHolds
  <2> SUFFICES ASSUME RtspInv PROVE NegotiationHolds
    OBVIOUS
  <2> DEFINE awaited == {rtsp.pending[n].method : n \in DOMAIN rtsp.pending}
  <2>1. \A m \in awaited : m = rtsp.last.method
    BY DEF RtspInv, RetriesHold
  <2>2. ASSUME NEW t \in Tracks
        PROVE  outbound.client[t] \in {"none", asked[t]} \/ "mixed" \in strays
    <3>1. CASE role = "server"
      BY <3>1 DEF RtspInv, ServerHolds
    <3>2. CASE role = "push"
      BY <3>2 DEF RtspInv, PushHolds
    <3>3. CASE role \in {"pull", "gone"}
      BY <3>3 DEF RtspInv, PullHolds, GoneHolds, NoOutbound, NoTransport
    <3> QED BY <3>1, <3>2, <3>3, Parts
  <2>3. role = "pull" /\ "PLAY" \in awaited => rtsp.waiting = {} /\ "SETUP" \notin awaited
    BY <2>1 DEF RtspInv, PullHolds
  <2>4. role = "push" /\ "RECORD" \in awaited =>
          rtsp.transports = outbound.has /\ outbound.has = Tracks
    BY <2>1 DEF RtspInv, PushHolds
  <2>5. ~misretried
    BY DEF RtspInv, RetriesHold
  <2> QED BY <2>2, <2>3, <2>4, <2>5 DEF NegotiationHolds
<1> QED BY <1>1, RtspInvariant, PTL
=============================================================================
