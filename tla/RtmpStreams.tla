----------------------------- MODULE RtmpStreams -----------------------------
(***************************************************************************)
(* The live streams of one application: the stream slots of the RTMP       *)
(* connections, the StreamsManager that finds streams by name, and the     *)
(* links between publishers and subscribers (BaseInStream, BaseOutStream). *)
(*                                                                         *)
(* A message handler runs to its end, so each is one action.  A connection *)
(* whose handler failed is only cut: it goes in the cleanup that follows   *)
(* the events of a pulse, and other connections are served before that.    *)
(* A connection is enqueued ("dead") when a stream cannot be fed: its      *)
(* streams leave the StreamsManager at once and stay linked until the      *)
(* cleanup.                                                                *)
(*                                                                         *)
(* Status messages are taken to reach the carrier: TCPCarrier queues what  *)
(* it is given.  Only feeding data to a subscriber may fail.               *)
(***************************************************************************)
EXTENDS Integers, FiniteSets

CONSTANTS
  Conns,            \* the connections; a freed one stands for the next to come
  MaxSlots,         \* MAX_STREAMS_COUNT - 1, the stream slots of a connection
  MaxOuts,          \* the channel triples of a connection, one per out stream
  Stems, Endings,   \* a stream name is a stem and a "?..." suffix
  NoSuffix,         \* the suffix of a name without "?"
  Roles,            \* the kinds of connections that are made
  AllowDuplicates,  \* _allowDuplicateInboundNetworkStreams
  CanOverride,      \* authState["canOverrideStreamName"]
  None, File        \* an out stream has no in stream, or the in-file stream
                    \* made for it

Slots == 1 .. MaxSlots
Places == Conns \X Slots
Names == Stems \X Endings

ASSUME ParametersAssumption ==
  /\ IsFiniteSet(Conns)
  /\ MaxSlots \in Nat \ {0} /\ MaxOuts \in Nat
  /\ NoSuffix \in Endings
  /\ Roles \subseteq {"inbound", "pull", "push", "rtsp"}
  /\ AllowDuplicates \in BOOLEAN /\ CanOverride \in BOOLEAN
  /\ None \notin Places /\ File \notin Places /\ None # File

\* What a slot holds.  The type of an in stream is its codec family; an out
\* stream has the type of the publishers it can be linked to.
Types == {"rtmp", "ts"}
Empty == [kind |-> "empty"]
Neutral == [kind |-> "neutral"]
InStream(n, t) == [kind |-> "in", name |-> n, type |-> t]
OutStream(n, t) == [kind |-> "out", name |-> n, type |-> t]
Streams == {Empty, Neutral}
           \cup [kind : {"in", "out"}, name : Names, type : Types]

VARIABLES
  conn,         \* "none", "open", "cut" or "dead"
  role,         \* what a connection was made for, one of Roles
  target,       \* the stream a push was made for, until it is deleted
  streams,      \* BaseRTMPProtocol::_streams of every connection
  feeder,       \* BaseOutStream::_pInStream
  subscribers,  \* BaseInStream::_linkedStreams
  registered,   \* the streams the maps of StreamsManager hold
  signaled,     \* _pSignaledRTMPOutNetStream, by slot
  files         \* _inFileStreams, by the slot each was made for

playback == <<signaled, files>>
vars == <<conn, role, target, streams, feeder, subscribers, registered,
          signaled, files>>

-----------------------------------------------------------------------------
(* Reading the streams. *)

IsKind(p, k) == streams[p].kind = k
Short(n) == <<n[1], NoSuffix>>
PlacesOf(D) == D \X Slots

\* StreamsManager::FindByTypeByName.
Publishers(n) ==
  {p \in registered : IsKind(p, "in") /\ streams[p].name = n}

\* The publishers whose name starts with the short name and a "?".
PublishersOfStem(n) ==
  {p \in registered : /\ IsKind(p, "in")
                      /\ streams[p].name[1] = n[1]
                      /\ streams[p].name[2] # NoSuffix}

\* StreamsManager::StreamNameAvailable.
NameAvailable(n) == AllowDuplicates \/ Publishers(n) = {}

\* TryLinkToLiveStream, for a player at p: the long version of the name first,
\* then the short.  The code takes the oldest of them, here any one is.
Sources(n, p) == LET exact == Publishers(n) \ {p}
                 IN  IF exact # {} THEN exact ELSE PublishersOfStem(n) \ {p}

\* Mutant: only the short version of the name is looked up.
WaitingForShort(n, t, D) ==
  {q \in registered \ D : /\ IsKind(q, "out")
                          /\ feeder[q] \in D \cup {None}
                          /\ streams[q].type = t
                          /\ streams[q].name = Short(n)}

\* StreamsManager::GetWaitingSubscribers, once the streams at D are deleted.
Waiting(n, t, D) ==
  {q \in registered \ D : /\ IsKind(q, "out")
                          /\ feeder[q] \in D \cup {None}
                          /\ streams[q].type = t
                          /\ streams[q].name \in {n, Short(n)}}

\* ReserveChannel: whether a triple is left for one more out stream at p.
HasChannels(c, p) ==
  Cardinality({q \in PlacesOf({c}) \ {p} : IsKind(q, "out")}) < MaxOuts

-----------------------------------------------------------------------------
(* Writing the streams. *)

\* Mutant: the in streams are not told that their subscribers are deleted.
UnlinkedKept(D) == [p \in Places |-> IF p \in D THEN {} ELSE subscribers[p]]

\* The links the in streams keep when the streams at D are deleted:
\* BaseOutStream::UnLink tells the other end.
Unlinked(D) == [p \in Places |-> IF p \in D THEN {} ELSE subscribers[p] \ D]

\* Mutant: the streams of a connection that is enqueued stay registered.
RegistryKept(new, lost) ==
  LET D == DOMAIN new
  IN  (registered \ D) \cup {p \in D : new[p] # Empty}

\* ~BaseStream unregisters a stream and BaseStream() registers one;
\* BaseClientApplication::UnRegisterProtocol unregisters all of a connection.
Registry(new, lost) ==
  LET D == DOMAIN new
  IN  ((registered \ D) \cup {p \in D : new[p] # Empty}) \ PlacesOf(lost)

\* Deletes the streams of the domain of new and puts new there; then links outs
\* to the in stream at src.  The connections of lost are enqueued meanwhile.
Rewrite(new, src, outs, lost) ==
  LET D == DOMAIN new
      left == Unlinked(D)
  IN  /\ streams' = [p \in Places |-> IF p \in D THEN new[p] ELSE streams[p]]
      /\ feeder' = [p \in Places |->
                      IF p \in outs THEN src
                      ELSE IF p \in D \/ feeder[p] \in D THEN None
                      ELSE feeder[p]]
      /\ subscribers' = [p \in Places |->
                           IF p = src THEN left[p] \cup outs ELSE left[p]]
      /\ registered' = Registry(new, lost)

\* The pushes whose stream is deleted with those at D.
Targets(D) == [c \in Conns |-> IF target[c] \in D THEN None ELSE target[c]]

\* One stream of c is deleted and replaced, the common case.
Put(p, what, src, outs, lost) ==
  /\ Rewrite([q \in {p} |-> what], src, outs, lost)
  /\ target' = Targets({p})
  /\ UNCHANGED role

\* Mutant: the in-file stream of an out stream outlives it.
RemoveIFSForgotten(c, s) == UNCHANGED files

\* BaseRTMPProtocol::RemoveIFS.
RemoveIFS(c, s) == files' = [files EXCEPT ![c] = @ \ {s}]

\* CloseStream takes the out stream off the signaled ones.
Unsignal(c, s) == signaled' = [signaled EXCEPT ![c] = @ \ {s}]

Cut(c) == conn' = [conn EXCEPT ![c] = "cut"]
Enqueue(D) == conn' = [c \in Conns |-> IF c \in D THEN "dead" ELSE conn[c]]

Can(c, r) == conn[c] = "open" /\ role[c] = r

-----------------------------------------------------------------------------
Init ==
  /\ conn = [c \in Conns |-> "none"]
  /\ role = [c \in Conns |-> "none"]
  /\ target = [c \in Conns |-> None]
  /\ streams = [p \in Places |-> Empty]
  /\ feeder = [p \in Places |-> None]
  /\ subscribers = [p \in Places |-> {}]
  /\ registered = {}
  /\ signaled = [c \in Conns |-> {}]
  /\ files = [c \in Conns |-> {}]

-----------------------------------------------------------------------------
(* Connections. *)

\* A connection is made; a push for one of the streams that are published then
\* (PushLocalStream).
Connect(c, r, t) ==
  /\ conn[c] = "none"
  /\ IF r = "push" THEN t \in registered /\ IsKind(t, "in") ELSE t = None
  /\ conn' = [conn EXCEPT ![c] = "open"]
  /\ role' = [role EXCEPT ![c] = r]
  /\ target' = [target EXCEPT ![c] = t]
  /\ UNCHANGED <<streams, feeder, subscribers, registered, playback>>

\* The peer closed the connection, or a handler returned false early.
Lose(c) ==
  /\ conn[c] = "open"
  /\ Cut(c)
  /\ UNCHANGED <<role, target, streams, feeder, subscribers, registered,
                 playback>>

\* The cleanup at the end of a pulse: the destructors of every connection that
\* was cut or enqueued delete its streams and then its in-file streams.
Cleanup ==
  LET D == {c \in Conns : conn[c] \in {"cut", "dead"}}
  IN  /\ D # {}
      /\ Rewrite([p \in PlacesOf(D) |-> Empty], None, {}, D)
      /\ conn' = [c \in Conns |-> IF c \in D THEN "none" ELSE conn[c]]
      /\ role' = [c \in Conns |-> IF c \in D THEN "none" ELSE role[c]]
      /\ target' = [c \in Conns |-> IF c \in D \/ target[c] \in PlacesOf(D)
                                    THEN None ELSE target[c]]
      /\ signaled' = [c \in Conns |-> IF c \in D THEN {} ELSE signaled[c]]
      /\ files' = [c \in Conns |-> IF c \in D THEN {} ELSE files[c]]

-----------------------------------------------------------------------------
(* Slots. *)

\* ProcessInvokeCreateStream, the first slot that is free.
CreateStream(c) ==
  /\ Can(c, "inbound")
  /\ \E s \in Slots :
       /\ streams[<<c, s>>] = Empty
       /\ \A r \in 1 .. (s - 1) : streams[<<c, r>>] # Empty
       /\ Put(<<c, s>>, Neutral, None, {}, {})
  /\ UNCHANGED <<conn, playback>>

\* ProcessInvokeCreateStreamResult, the slot the server chose.
CreateStreamResult(c, s) ==
  /\ Can(c, "pull") \/ Can(c, "push")
  /\ streams[<<c, s>>] = Empty
  /\ Put(<<c, s>>, Neutral, None, {}, {})
  /\ UNCHANGED <<conn, playback>>

\* CloseStream of a slot: closeStream, publish(false) and releaseStream leave a
\* neutral stream there, deleteStream leaves nothing.
CloseStream(c, s, what) ==
  /\ Can(c, "inbound")
  /\ streams[<<c, s>>] # Empty
  /\ Put(<<c, s>>, what, None, {}, {})
  /\ Unsignal(c, s) /\ RemoveIFS(c, s)
  /\ UNCHANGED conn

-----------------------------------------------------------------------------
(* Publishing. *)

\* Mutant: the publishers that are overridden go on.
OverriddenNone(n) == {}

\* The publishers a publish of n closes.
Overridden(n) ==
  IF AllowDuplicates THEN {p \in Publishers(n) : streams[p].type = "rtmp"}
  ELSE {}

\* NetStream.Publish.BadName is the answer, and nothing else is done.
BadName(n) == IF AllowDuplicates THEN Overridden(n) # {} /\ ~CanOverride
              ELSE ~NameAvailable(n)

\* ProcessInvokePublish.  CreateINS wants a neutral stream; when it fails, the
\* publishers that are overridden have been closed all the same.  Recording may
\* fail once the stream is published.
Publish(c, s, n) ==
  LET p == <<c, s>>
      closed == Overridden(n)
      D == closed \cup {p}
  IN  /\ Can(c, "inbound")
      /\ ~BadName(n)
      /\ UNCHANGED <<role, playback>>
      /\ IF streams[p] = Neutral \/ p \in closed
         THEN /\ Rewrite([q \in D |-> IF q = p THEN InStream(n, "rtmp")
                                      ELSE Neutral],
                         p, Waiting(n, "rtmp", D), {})
              /\ target' = Targets(D)
              /\ UNCHANGED conn \/ Cut(c)
         ELSE /\ Rewrite([q \in closed |-> Neutral], None, {}, {})
              /\ target' = Targets(closed)
              /\ Cut(c)

\* ProcessInvokeOnStatus of a pull, NetStream.Play.Start.
PullStarted(c, s, n) ==
  LET p == <<c, s>>
  IN  /\ Can(c, "pull")
      /\ NameAvailable(n)
      /\ streams[p] = Neutral
      /\ Put(p, InStream(n, "rtmp"), p, Waiting(n, "rtmp", {p}), {})
      /\ UNCHANGED <<conn, playback>>

\* InboundConnectivity::Initialize, a stream published over RTSP.
Announce(c, n) ==
  LET p == <<c, 1>>
  IN  /\ Can(c, "rtsp")
      /\ NameAvailable(n)
      /\ streams[p] = Empty
      /\ Put(p, InStream(n, "ts"), p, Waiting(n, "ts", {p}), {})
      /\ UNCHANGED <<conn, playback>>

\* InNetRTMPStream::FeedData and SendStreamMessage: the connections of the
\* subscribers that cannot be fed are enqueued.
Feed(p, lost) ==
  /\ conn[p[1]] = "open"
  /\ IsKind(p, "in")
  /\ lost # {}
  /\ lost \subseteq {c \in Conns : /\ conn[c] # "dead"
                                   /\ \E q \in subscribers[p] : q[1] = c}
  /\ Enqueue(lost)
  /\ registered' = Registry(<<>>, lost)
  /\ UNCHANGED <<role, target, streams, feeder, subscribers, playback>>

-----------------------------------------------------------------------------
(* Playing. *)

\* TryLinkToLiveStream.  What the publisher has kept for new subscribers may
\* fail to be sent, which enqueues the player.
PlayLive(c, s, n, src) ==
  LET p == <<c, s>>
  IN  /\ Can(c, "inbound")
      /\ HasChannels(c, p)
      /\ src \in Sources(n, p)
      /\ \E lost \in {{}, {c}} :
           /\ Put(p, OutStream(n, streams[src].type), src, {p}, lost)
           /\ Enqueue(lost)
      /\ Unsignal(c, s) /\ RemoveIFS(c, s)

\* TryLinkToFileStream, which ProcessInvokePlay tries after the live streams
\* or, for a recorded stream, alone.  Play may fail when all is linked.
PlayFile(c, s, n) ==
  LET p == <<c, s>>
  IN  /\ Can(c, "inbound")
      /\ HasChannels(c, p)
      /\ Put(p, OutStream(n, "rtmp"), File, {p}, {})
      /\ signaled' = [signaled EXCEPT ![c] = @ \cup {s}]
      /\ files' = [files EXCEPT ![c] = @ \cup {s}]
      /\ UNCHANGED conn \/ Cut(c)

\* ProcessInvokePlay: no live stream and no file, the player waits.
PlayWait(c, s, n) ==
  LET p == <<c, s>>
  IN  /\ Can(c, "inbound")
      /\ HasChannels(c, p)
      /\ Sources(n, p) = {}
      /\ Put(p, OutStream(n, "rtmp"), None, {}, {})
      /\ Unsignal(c, s) /\ RemoveIFS(c, s)
      /\ UNCHANGED conn

\* ProcessInvokePlay of a recorded stream that has no file: the slot was
\* closed, and the handler fails.
PlayMissing(c, s) ==
  LET p == <<c, s>>
  IN  /\ Can(c, "inbound")
      /\ Put(p, IF streams[p] = Empty THEN Empty ELSE Neutral, None, {}, {})
      /\ Unsignal(c, s) /\ RemoveIFS(c, s)
      /\ Cut(c)

\* CreateONS of a connection that has no channels left deletes the neutral
\* stream and fails.  A file stream made for it stays in _inFileStreams.
PlayWithoutChannels(c, s) ==
  LET p == <<c, s>>
  IN  /\ Can(c, "inbound")
      /\ ~HasChannels(c, p)
      /\ Put(p, Empty, None, {}, {})
      /\ Unsignal(c, s)
      /\ RemoveIFS(c, s) \/ files' = [files EXCEPT ![c] = @ \cup {s}]
      /\ Cut(c)

\* ProcessInvokeOnStatus of a push, NetStream.Publish.Start; it fails, and the
\* connection is lost, when the stream it was made for is gone.
PushStarted(c, s) ==
  LET p == <<c, s>>
      t == target[c]
  IN  /\ Can(c, "push")
      /\ t \in registered
      /\ streams[p] \in {Empty, Neutral}
      /\ IF HasChannels(c, p)
         THEN \E lost \in {{}, {c}} :
                /\ Put(p, OutStream(streams[t].name, streams[t].type), t, {p},
                       lost)
                /\ Enqueue(lost)
         ELSE Put(p, Empty, None, {}, {}) /\ Cut(c)
      /\ UNCHANGED playback

-----------------------------------------------------------------------------
Next ==
  \/ \E c \in Conns, r \in Roles, t \in registered \cup {None} : Connect(c, r, t)
  \/ \E c \in Conns : Lose(c)
  \/ Cleanup
  \/ \E c \in Conns : CreateStream(c)
  \/ \E c \in Conns, s \in Slots : CreateStreamResult(c, s)
  \/ \E c \in Conns, s \in Slots, what \in {Neutral, Empty} :
       CloseStream(c, s, what)
  \/ \E c \in Conns, s \in Slots, n \in Names : Publish(c, s, n)
  \/ \E c \in Conns, s \in Slots, n \in Names : PullStarted(c, s, n)
  \/ \E c \in Conns, n \in Names : Announce(c, n)
  \/ \E p \in Places : \E lost \in SUBSET {q[1] : q \in subscribers[p]} :
       Feed(p, lost)
  \/ \E c \in Conns, s \in Slots, n \in Names, src \in registered :
       PlayLive(c, s, n, src)
  \/ \E c \in Conns, s \in Slots, n \in Names : PlayFile(c, s, n)
  \/ \E c \in Conns, s \in Slots, n \in Names : PlayWait(c, s, n)
  \/ \E c \in Conns, s \in Slots : PlayMissing(c, s)
  \/ \E c \in Conns, s \in Slots : PlayWithoutChannels(c, s)
  \/ \E c \in Conns, s \in Slots : PushStarted(c, s)

Spec == Init /\ [][Next]_vars

-----------------------------------------------------------------------------
(* Properties. *)

TypeOK ==
  /\ conn \in [Conns -> {"none", "open", "cut", "dead"}]
  /\ role \in [Conns -> Roles \cup {"none"}]
  /\ target \in [Conns -> Places \cup {None}]
  /\ streams \in [Places -> Streams]
  /\ feeder \in [Places -> Places \cup {None, File}]
  /\ subscribers \in [Places -> SUBSET Places]
  /\ registered \subseteq Places
  /\ signaled \in [Conns -> SUBSET Slots]
  /\ files \in [Conns -> SUBSET Slots]

\* Both ends of a link know it, and neither outlives the other's knowledge: an
\* out stream is linked to the in stream that lists it, that stream is one, and
\* their types are compatible (BaseInStream::Link, UnLink and the destructors).
LinksAgree ==
  \A p \in Places :
    /\ \A q \in Places : feeder[q] = p <=> q \in subscribers[p]
    /\ feeder[p] # None => IsKind(p, "out")
    /\ feeder[p] = File => streams[p].type = "rtmp"
    /\ feeder[p] \in Places =>
         /\ IsKind(feeder[p], "in")
         /\ streams[feeder[p]].type = streams[p].type

\* StreamsManager knows exactly the streams of the connections that are not
\* enqueued: no handler is given a stream whose connection has left the
\* application (CloseStream would call GetApplication of it).
RegistryExact ==
  registered = {p \in Places : conn[p[1]] # "dead" /\ streams[p] # Empty}

\* Of two streams published under one name, one was pulled or came over RTSP,
\* and the application allows duplicates.
PublishedNamesUnique ==
  \A p, q \in registered :
    /\ p # q
    /\ IsKind(p, "in") /\ IsKind(q, "in")
    /\ streams[p].name = streams[q].name
    => /\ AllowDuplicates
       /\ {role[p[1]], role[q[1]]} \cap {"pull", "rtsp"} # {}

\* The streams ReadyForSend pumps are those fed from a file, each of its own
\* in-file stream; a connection that goes on keeps no in-file stream besides,
\* and one that was freed leaves none.
PlaybackAgrees ==
  \A c \in Conns :
    /\ signaled[c] = {s \in Slots : feeder[<<c, s>>] = File}
    /\ signaled[c] \subseteq files[c]
    /\ conn[c] \in {"none", "open"} => files[c] = signaled[c]

Made(p) == p \in registered' /\ streams'[p] # streams[p]

\* The publisher at p and the player at q, of the same kind, are of one name.
Matching(p, q) ==
  /\ p \in registered /\ q \in registered
  /\ IsKind(p, "in") /\ IsKind(q, "out")
  /\ streams[p].name = streams[q].name

\* A stream that is made meets those of its name: no publish or play leaves a
\* player waiting beside a publisher of its name and type, whatever was closed
\* or overridden on the way.
NewStreamsMeet ==
  [][\A p, q \in Places :
       /\ Matching(p, q)'
       /\ streams'[p].type = streams'[q].type
       /\ Made(p) \/ Made(q)
       => feeder'[q] # None]_vars

\* "7. Pickup all outbound waiting streams" (inboundconnectivity.cpp): a player
\* that waits for the live stream of a name gets the one published under it.
WaitersArePickedUp ==
  [][\A p, q \in Places : Matching(p, q)' /\ Made(p) => feeder'[q] # None]_vars
=============================================================================
