------------------------------- MODULE RtmpRelay -------------------------------
(***************************************************************************)
(* The proxypublish application: one external stream it pulls, and the     *)
(* targets it pushes the local stream to, over outbound RTMP connections   *)
(* that are made by the jobs timer and made again when they end.  Pulled   *)
(* or published by a client, the local stream has one name, and duplicate  *)
(* names are not allowed.  The servers are mocks: they answer any request  *)
(* they hold, well or badly, more than once, or never, and they may send   *)
(* an onStatus that nothing asked for.                                     *)
(***************************************************************************)
EXTENDS Naturals, FiniteSets, SequencesExt

CONSTANTS
  Targets,     \* targetServers
  Unnamed,     \* those configured without a localStreamName
  Pull,        \* the external stream, as the destination of a job
  KeepAlive,   \* the destinations configured with keepAlive
  RtmpIds,     \* the stream ids a server hands out
  MaxSources,  \* bound on the local streams
  MaxLinks,    \* bound on the connections of a moment
  MaxInvokes   \* bound on the requests a connection tracks

ASSUME RelayAssumption ==
  /\ IsFiniteSet(Targets) /\ Unnamed \subseteq Targets /\ Pull \notin Targets
  /\ KeepAlive \subseteq Targets \cup {Pull}
  /\ MaxSources \in Nat /\ MaxLinks \in Nat /\ MaxInvokes \in Nat

VARIABLES
  pulls,       \* _pullQueue
  pushes,      \* _pushQueue
  links,       \* the outbound connections and their custom parameters
  source,      \* unique id of the live local stream, 0 if there is none
  registrations, \* unique ids given out so far
  refused      \* history: what a connection was refused to, <<destination, stream>>

relayVars == <<pulls, pushes, links, source, registrations, refused>>

Job(to, auth) == [to |-> to, auth |-> auth]
\* OutboundRTMPProtocol::Connect: a TCPConnector waits for the outcome.
Dialed(job, uid) ==
  [to |-> job.to, auth |-> job.auth, uid |-> uid, stage |-> "dialing",
   tracked |-> <<>>, streams |-> [s \in RtmpIds |-> "none"], feeds |-> FALSE]

\* PullExternalStreams, at the end of Initialize.
RelayInit ==
  /\ pulls = <<>> /\ pushes = <<>> /\ refused = {}
  /\ source = 0 /\ registrations = 0
  /\ links = <<Dialed(Job(Pull, FALSE), 0)>>
-----------------------------------------------------------------------------
(* The local stream *)
SignalStreamRegistered ==
  /\ registrations < MaxSources
  /\ registrations' = registrations + 1
  /\ source' = registrations + 1
  /\ pushes' = pushes \o SetToSeq({Job(t, FALSE) : t \in Targets})

Publish ==
  /\ source = 0
  /\ SignalStreamRegistered
  /\ UNCHANGED <<pulls, links, refused>>

\* The client that publishes ends; its subscribers stay, with nothing to send.
Unpublish ==
  /\ source # 0 /\ \A i \in DOMAIN links : ~links[i].feeds
  /\ source' = 0
  /\ UNCHANGED <<pulls, pushes, links, registrations, refused>>
-----------------------------------------------------------------------------
(* JobsTimerProtocol *)
\* PushLocalStream finds no stream of that name, or has no name to look for.
CanPush(job) == source # 0 /\ job.to \notin Unnamed

\* A bug the project checks for: the pulls stay in their queue.
ClearedPushesOnly == pulls' = pulls /\ pushes' = <<>>
Cleared == pulls' = <<>> /\ pushes' = <<>>

\* All are made before one of them goes on, in whatever order.
TimePeriodElapsed ==
  LET ready == SetToSeq({n \in DOMAIN pushes : CanPush(pushes[n])})
      dialed == [i \in DOMAIN pulls |-> Dialed(pulls[i], 0)]
                \o [i \in DOMAIN ready |-> Dialed(pushes[ready[i]], source)]
  IN  /\ pulls # <<>> \/ pushes # <<>>
      /\ Len(links) + Len(dialed) <= MaxLinks
      /\ links' = links \o dialed
      /\ Cleared
      /\ UNCHANGED <<source, registrations, refused>>
-----------------------------------------------------------------------------
(* The outbound connections *)
Become(i, link) ==
  /\ links' = [links EXCEPT ![i] = link]
  /\ UNCHANGED <<pulls, pushes, source, registrations, refused>>
\* The handler returns FALSE: the carrier enqueues the stack for deletion.
Doomed(i) == Become(i, [links[i] EXCEPT !.stage = "doomed"])

\* TCPConnector ends without success: OutboundConnectionFailed gives up.
OutboundConnectionFailed(i) ==
  /\ links[i].stage = "dialing"
  /\ links' = RemoveAt(links, i)
  /\ refused' = refused \cup {<<links[i].to, links[i].uid>>}
  /\ UNCHANGED <<pulls, pushes, source, registrations>>

SignalProtocolCreated(i) ==
  /\ links[i].stage = "dialing"
  /\ Become(i, [links[i] EXCEPT !.stage = "shaking"])

SendsInvoke(link, invokes) == [link EXCEPT !.tracked = @ \o invokes]

OutboundConnectionEstablished(i) ==
  /\ links[i].stage = "shaking"
  /\ Become(i, SendsInvoke([links[i] EXCEPT !.stage = "up"], <<"connect">>))

Holds(i, invoke) == links[i].stage = "up" /\ Contains(links[i].tracked, invoke)

ProcessInvokeConnectResult(i) ==
  LET invokes == IF links[i].to = Pull THEN <<"FCSubscribe", "createStream">>
                 ELSE <<"createStream">>
  IN  /\ Holds(i, "connect")
      /\ \/ /\ Len(links[i].tracked) + Len(invokes) <= MaxInvokes
            /\ Become(i, SendsInvoke(links[i], invokes))
         \/ Become(i, [links[i] EXCEPT !.stage = "doomed", !.auth = TRUE])
         \/ Doomed(i)

ProcessInvokeCreateStreamResult(i) ==
  /\ Holds(i, "createStream")
  /\ \/ Doomed(i)
     \/ \E s \in RtmpIds :
          IF links[i].streams[s] # "none" THEN Doomed(i)
          ELSE /\ Len(links[i].tracked) < MaxInvokes
               /\ Become(i, SendsInvoke([links[i] EXCEPT !.streams[s] = "neutral"],
                                  <<IF links[i].to = Pull THEN "play" ELSE "publish">>))

\* NetStream.Play.Start of a pull, asked for or not; other codes are ignored.
OnStatusPlayStart(i, s) ==
  /\ links[i].to = Pull /\ links[i].stage = "up"
  /\ IF source # 0 \/ links[i].streams[s] # "neutral" THEN Doomed(i)
     ELSE /\ SignalStreamRegistered
          /\ links' = [links EXCEPT ![i].streams[s] = "in", ![i].feeds = TRUE]
          /\ UNCHANGED <<pulls, refused>>

\* NetStream.Publish.Start of a push; an id with no stream gets one.
OnStatusPublishStart(i, s) ==
  /\ links[i].to # Pull /\ links[i].stage = "up"
  /\ IF links[i].uid # source \/ links[i].streams[s] = "out" THEN Doomed(i)
     ELSE Become(i, [links[i] EXCEPT !.streams[s] = "out"])

\* The server, or the network, ends the connection.
Hangup(i) == links[i].stage \in {"shaking", "up"} /\ Doomed(i)

\* A bug the project checks for: only pulls are made again.
RetriedPulls(link) == link.to \in KeepAlive /\ link.to = Pull
Retried(link) == link.to \in KeepAlive

\* The protocol is deleted, and its streams with it.
UnRegisterProtocol(i) ==
  LET link == links[i]
      again == IF Retried(link) THEN <<Job(link.to, link.auth)>> ELSE <<>>
  IN  /\ link.stage = "doomed"
      /\ pulls' = IF link.to = Pull THEN pulls \o again ELSE pulls
      /\ pushes' = IF link.to # Pull THEN pushes \o again ELSE pushes
      /\ links' = RemoveAt(links, i)
      /\ source' = IF link.feeds THEN 0 ELSE source
      /\ UNCHANGED <<registrations, refused>>

RelayNext ==
  \/ Publish \/ Unpublish \/ TimePeriodElapsed
  \/ \E i \in DOMAIN links :
       \/ OutboundConnectionFailed(i) \/ SignalProtocolCreated(i)
       \/ OutboundConnectionEstablished(i)
       \/ ProcessInvokeConnectResult(i) \/ ProcessInvokeCreateStreamResult(i)
       \/ \E s \in RtmpIds : OnStatusPlayStart(i, s) \/ OnStatusPublishStart(i, s)
       \/ Hangup(i) \/ UnRegisterProtocol(i)

RelaySpec == RelayInit /\ [][RelayNext]_relayVars
-----------------------------------------------------------------------------
\* A local stream that lives is not forgotten: for each target with keepAlive
\* a push waits, or a connection is made for that very stream, whatever became
\* of the connections and streams before it, unless a connection was refused:
\* that push is given up (baseclientapplication.cpp:197).
PushNeverForgotten ==
  source # 0 => \A t \in (Targets \cap KeepAlive) \ Unnamed :
    \/ \E n \in DOMAIN pushes : pushes[n].to = t
    \/ \E i \in DOMAIN links : links[i].to = t /\ links[i].uid = source
    \/ <<t, source>> \in refused

\* The external stream with keepAlive is pulled by exactly one: a job or a
\* connection, until a refused connection ends it.
Pullers == ({"job"} \X DOMAIN pulls)
           \cup ({"link"} \X {i \in DOMAIN links : links[i].to = Pull})
PulledOnce ==
  Pull \in KeepAlive =>
    Cardinality(Pullers) = IF <<Pull, 0>> \in refused THEN 0 ELSE 1

\* What keepAlive asks for is relayed through every end of a connection and
\* every tick of the jobs timer, and the external stream only once.
RelayGoesOn == PushNeverForgotten /\ PulledOnce
=============================================================================
