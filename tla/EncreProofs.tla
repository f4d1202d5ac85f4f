------------------------------ MODULE EncreProofs ------------------------------
(***************************************************************************)
(* Proofs about Encre.  EventsArePaired: what the application tells the    *)
(* controller of a stream is paired, and the controller is there.          *)
(* ConnectorIsServed: Encre implements EncreService.  A read is a walk     *)
(* over bytes that carries out commands, and a step of EncreService a walk *)
(* over commands: the walks are functions, so that both unfold, and what a *)
(* read has made of the registry is compared with what the commands whose  *)
(* lines have ended make of it, byte by byte (OnCourse).                   *)
(***************************************************************************)
EXTENDS Encre, TLAPS, WellFoundedInduction, SequenceTheorems

\* What stream.publish says.
Said == [type : {"stream.publish"}, uid : Uids \cup {None},
         room : Rooms \cup {None}, name : StreamNames]

Clients ==
  [open : BOOLEAN, uid : Uids \cup {None}, token : UserTokens \cup {None},
   room : Rooms \cup {None}, publish : BOOLEAN,
   streamName : StreamNames \cup {None}, stream : {"none", "neutral", "live"},
   file : BOOLEAN, told : Said \cup {<<>>}, untold : BOOLEAN]

\* A record of a connection of a controller, whatever it holds.
IsConnection(k) ==
  k \in [open : BOOLEAN, unread : {k.unread}, out : {k.out}]

\* The controller that is sent the events is a live connection.
ClientIsLive == client # None => cli[client].open

\* What the application remembers of a publish is what it said of it.
Paired(p) ==
  rtmp[p].publish =>
    rtmp[p].told = StreamEvent("stream.publish", p, rtmp[p].streamName)

ControllersTyped ==
  /\ client \in Clis \cup {None}
  /\ cli = [c \in Clis |-> cli[c]]
  /\ \A c \in Clis : IsConnection(cli[c])

PairedInv ==
  /\ ControllersTyped
  /\ rtmp \in [RtmpPeers -> Clients]
  /\ ClientIsLive
  /\ \A p \in RtmpPeers : Paired(p)

-----------------------------------------------------------------------------
(* What the handlers have in common *)

\* The events go to the end of what was sent to the controller: no connection
\* opens or closes, and the controller stays the one it was.
LEMMA MessagesKeep ==
  ASSUME ControllersTyped, ClientIsLive, NEW es, SendControllerMessages(es)
  PROVE  ControllersTyped' /\ ClientIsLive'
<1>1. client' = client
  BY DEF SendControllerMessages
<1>2. CASE client = None
  <2>1. cli' = cli
    BY <1>2 DEF SendControllerMessages
  <2> QED
    BY <1>1, <2>1 DEF ControllersTyped, ClientIsLive
<1>3. CASE client # None
  <2>1. client \in Clis
    BY <1>3 DEF ControllersTyped
  <2>2. PICK out : cli' = [cli EXCEPT ![client] = [@ EXCEPT !.out = out]]
    BY <1>3 DEF SendControllerMessages
  <2>3. /\ cli' = [c \in Clis |-> cli'[c]]
        /\ \A c \in Clis \ {client} : cli'[c] = cli[c]
        /\ cli'[client] = [cli[client] EXCEPT !.out = out]
    BY <2>1, <2>2 DEF ControllersTyped
  <2>4. /\ IsConnection(cli'[client])
        /\ cli'[client].open = cli[client].open
    BY <2>1, <2>3 DEF ControllersTyped, IsConnection
  <2> QED
    BY <1>1, <2>1, <2>3, <2>4 DEF ControllersTyped, ClientIsLive
<1> QED
  BY <1>2, <1>3

\* A connection of a client that is closed has published nothing.
LEMMA CloseKeeps ==
  ASSUME PairedInv, NEW p \in RtmpPeers, Close(p)
  PROVE  PairedInv'
<1>1. ControllersTyped' /\ ClientIsLive'
  BY MessagesKeep DEF PairedInv, Close
<1>2. Unnoticed(p) \in BOOLEAN
  BY DEF Unnoticed
<1>3. rtmp' = [rtmp EXCEPT ![p] = [Gone EXCEPT !.untold = Unnoticed(p)]]
  BY DEF Close
<1>4. /\ [Gone EXCEPT !.untold = Unnoticed(p)] \in Clients
      /\ ~[Gone EXCEPT !.untold = Unnoticed(p)].publish
  BY <1>2 DEF Gone, Arrived, Clients
<1>5. rtmp' \in [RtmpPeers -> Clients]
  BY <1>3, <1>4 DEF PairedInv
<1>6. \A q \in RtmpPeers : Paired(q)'
  <2> TAKE q \in RtmpPeers
  <2>1. CASE q = p
    BY <2>1, <1>3, <1>4 DEF PairedInv, Paired
  <2>2. CASE q # p
    BY <2>2, <1>3 DEF PairedInv, Paired, StreamEvent
  <2> QED
    BY <2>1, <2>2
<1> QED
  BY <1>1, <1>5, <1>6 DEF PairedInv

\* A step of one client whose new state is a client that is paired.
LEMMA ClientStep ==
  ASSUME PairedInv, NEW p \in RtmpPeers, NEW k \in Clients,
         rtmp' = [rtmp EXCEPT ![p] = k],
         ControllersTyped', ClientIsLive',
         k.publish => k.told = [type |-> "stream.publish", uid |-> k.uid,
                                room |-> k.room, name |-> k.streamName]
  PROVE  PairedInv'
<1>1. rtmp' \in [RtmpPeers -> Clients]
  BY DEF PairedInv
<1>2. \A q \in RtmpPeers : Paired(q)'
  <2> TAKE q \in RtmpPeers
  <2>1. CASE q = p
    BY <2>1 DEF PairedInv, Paired, StreamEvent
  <2>2. CASE q # p
    BY <2>2 DEF PairedInv, Paired, StreamEvent
  <2> QED
    BY <2>1, <2>2
<1> QED
  BY <1>1, <1>2 DEF PairedInv

-----------------------------------------------------------------------------
(* The controllers *)

LEMMA ControllersKeep ==
  ASSUME PairedInv, ControllersNext
  PROVE  PairedInv'
<1>1. PICK c \in Clis :
        \/ CliConnects(c) \/ CliCloses(c)
        \/ \E cmd \in EncreCommands : ControllerSends(c, cmd)
        \/ \E n \in 1 .. Len(wire[c]) : SignalInputData(c, n)
  BY DEF ControllersNext
<1>2. SUFFICES rtmp' = rtmp /\ ControllersTyped' /\ ClientIsLive'
  BY DEF PairedInv, Paired, StreamEvent
<1>3. IsConnection(Closed) /\ IsConnection([Closed EXCEPT !.open = TRUE])
  <2>1. IsConnection(Closed)
    BY DEF IsConnection, Closed
  <2>2. ASSUME NEW k, IsConnection(k)
        PROVE  IsConnection([k EXCEPT !.open = TRUE])
    BY <2>2 DEF IsConnection
  <2> QED
    BY <2>1, <2>2
<1>4. CASE CliConnects(c)
  <2>1. /\ cli' = [cli EXCEPT ![c] = [Closed EXCEPT !.open = TRUE]]
        /\ client' = c /\ rtmp' = rtmp
    BY <1>4 DEF CliConnects
  <2>2. [Closed EXCEPT !.open = TRUE].open
    BY DEF Closed
  <2> QED
    BY <1>3, <2>1, <2>2 DEF PairedInv, ControllersTyped, ClientIsLive
\* What is closed is not the controller that is sent the events any more.
<1>5. ASSUME cli' = [cli EXCEPT ![c] = Closed], Unregister(c)
      PROVE  ControllersTyped' /\ ClientIsLive'
  <2>1. client' = IF client = c THEN None ELSE client
    BY <1>5 DEF Unregister
  <2> QED
    BY <1>3, <1>5, <2>1 DEF PairedInv, ControllersTyped, ClientIsLive
<1>6. CASE CliCloses(c)
  BY <1>5, <1>6 DEF CliCloses
<1>7. ASSUME NEW cmd \in EncreCommands, ControllerSends(c, cmd)
      PROVE  rtmp' = rtmp /\ ControllersTyped' /\ ClientIsLive'
  BY <1>7 DEF ControllerSends, PairedInv, ControllersTyped, ClientIsLive
<1>8. ASSUME NEW n \in 1 .. Len(wire[c]), SignalInputData(c, n)
      PROVE  rtmp' = rtmp /\ ControllersTyped' /\ ClientIsLive'
  <2>1. rtmp' = rtmp
    BY <1>8 DEF SignalInputData
  <2>2. PICK unread, out :
          \/ cli' = [cli EXCEPT ![c] = Closed] /\ Unregister(c)
          \/ /\ cli' = [cli EXCEPT ![c].unread = unread, ![c].out = out]
             /\ client' = client
    BY <1>8 DEF SignalInputData
  <2>3. CASE cli' = [cli EXCEPT ![c] = Closed] /\ Unregister(c)
    BY <1>5, <2>1, <2>3
  <2>4. CASE /\ cli' = [cli EXCEPT ![c].unread = unread, ![c].out = out]
             /\ client' = client
    <3>1. /\ cli' = [b \in Clis |-> cli'[b]]
          /\ \A b \in Clis \ {c} : cli'[b] = cli[b]
          /\ cli'[c] = [[cli[c] EXCEPT !.unread = unread] EXCEPT !.out = out]
      BY <2>4 DEF PairedInv, ControllersTyped
    <3>2. IsConnection(cli'[c]) /\ cli'[c].open = cli[c].open
      BY <3>1 DEF PairedInv, ControllersTyped, IsConnection
    <3> QED
      BY <2>1, <2>4, <3>1, <3>2 DEF PairedInv, ControllersTyped, ClientIsLive
  <2> QED
    BY <2>2, <2>3, <2>4
<1> QED
  BY <1>1, <1>4, <1>5, <1>6, <1>7, <1>8 DEF CliConnects, CliCloses

-----------------------------------------------------------------------------
(* The clients *)

LEMMA InvokeConnectKeeps ==
  ASSUME PairedInv, NEW p \in RtmpPeers, NEW room \in Rooms, NEW uid \in Uids,
         NEW token \in UserTokens, NEW base \in BOOLEAN,
         InvokeConnect(p, room, uid, token, base)
  PROVE  PairedInv'
<1>1. CASE base /\ Authorized(room, uid, token)
  <2> DEFINE k == Admitted(rtmp[p], room, uid, token)
  <2>1. rtmp' = [rtmp EXCEPT ![p] = k] /\ UNCHANGED <<client, cli>>
    BY <1>1 DEF InvokeConnect
  <2>2. k \in Clients /\ ~k.publish
    <3>1. rtmp[p] \in Clients
      BY DEF PairedInv
    <3> QED
      BY <3>1 DEF Clients, Admitted
  <2>3. ControllersTyped' /\ ClientIsLive'
    BY <2>1 DEF PairedInv, ControllersTyped, ClientIsLive
  <2> HIDE DEF k
  <2> QED
    BY <2>1, <2>2, <2>3, ClientStep
<1>2. CASE ~(base /\ Authorized(room, uid, token))
  BY <1>2, CloseKeeps DEF InvokeConnect
<1> QED
  BY <1>1, <1>2

\* The event is remembered as it is said: the user and the room are those of the
\* connection then, and neither the connection nor the stream is asked again.
LEMMA InvokePublishKeeps ==
  ASSUME PairedInv, NEW p \in RtmpPeers, NEW name \in StreamNames,
         NEW base \in {"made", "told", "fails"}, NEW files \in BOOLEAN,
         NEW valid \in BOOLEAN, InvokePublish(p, name, base, files, valid)
  PROVE  PairedInv'
<1>1. CASE base = "fails" \/ ~valid
  BY <1>1, CloseKeeps DEF InvokePublish
<1>2. CASE ~(base = "fails" \/ ~valid)
  <2> DEFINE e == StreamEvent("stream.publish", p, name)
             k == [rtmp[p] EXCEPT
                     !.stream = IF base = "made" THEN "live" ELSE @,
                     !.file = @ \/ files, !.streamName = name,
                     !.publish = TRUE, !.told = e]
  <2>1. rtmp' = [rtmp EXCEPT ![p] = k] /\ SendControllerMessages(<<e>>)
    BY <1>2 DEF InvokePublish, PairedInv
  <2>2. e \in Said
    BY DEF PairedInv, Clients, StreamEvent, Said
  <2>3. /\ k \in Clients
        /\ k.told = [type |-> "stream.publish", uid |-> k.uid, room |-> k.room,
                     name |-> k.streamName]
    <3>1. rtmp[p] \in Clients
      BY DEF PairedInv
    <3>2. k \in Clients
      <4> DEFINE st == IF base = "made" THEN "live" ELSE rtmp[p].stream
                 fi == rtmp[p].file \/ files
      <4>1. st \in {"none", "neutral", "live"} /\ fi \in BOOLEAN
        BY <3>1 DEF Clients
      <4>2. k = [rtmp[p] EXCEPT !.stream = st, !.file = fi, !.streamName = name,
                                !.publish = TRUE, !.told = e]
        OBVIOUS
      <4> HIDE DEF e, st, fi, k
      <4>3. ASSUME NEW j \in Clients, NEW x \in {"none", "neutral", "live"},
                   NEW y \in BOOLEAN, NEW z \in Said
            PROVE  [j EXCEPT !.stream = x, !.file = y, !.streamName = name,
                             !.publish = TRUE, !.told = z] \in Clients
        BY DEF Clients
      <4> QED
        BY <2>2, <3>1, <4>1, <4>2, <4>3
    <3>3. /\ k.uid = rtmp[p].uid /\ k.room = rtmp[p].room
          /\ k.streamName = name /\ k.told = e
      <4> HIDE DEF e
      <4> QED
        BY <3>1 DEF Clients
    <3> QED
      BY <3>2, <3>3 DEF StreamEvent
  <2>4. ControllersTyped' /\ ClientIsLive'
    BY <2>1, MessagesKeep DEF PairedInv
  <2> HIDE DEF k, e
  <2> QED
    BY <2>1, <2>3, <2>4, ClientStep
<1> QED
  BY <1>1, <1>2

\* publish, streamName and told outlive the stream.
LEMMA DeleteStreamKeeps ==
  ASSUME PairedInv, NEW p \in RtmpPeers, NEW base \in {"closed", "other", "fails"},
         DeleteStream(p, base)
  PROVE  PairedInv'
<1> DEFINE k == CASE base = "closed" ->
                       [rtmp[p] EXCEPT !.stream = "none", !.file = FALSE]
                  [] base = "other" -> rtmp[p]
                  [] base = "fails" -> Gone
<1>1. /\ rtmp' = [rtmp EXCEPT ![p] = k]
      /\ \E es : SendControllerMessages(es)
  BY DEF DeleteStream
<1>2. ControllersTyped' /\ ClientIsLive'
  BY <1>1, MessagesKeep DEF PairedInv
<1>3. k \in Clients
  <2>1. rtmp[p] \in Clients
    BY DEF PairedInv
  <2>2. Gone \in Clients
    BY DEF Clients, Gone, Arrived
  <2>3. [rtmp[p] EXCEPT !.stream = "none", !.file = FALSE] \in Clients
    BY <2>1 DEF Clients
  <2> QED
    BY <2>1, <2>2, <2>3
<1>4. k.publish => /\ rtmp[p].publish
                   /\ k.told = rtmp[p].told /\ k.uid = rtmp[p].uid
                   /\ k.room = rtmp[p].room /\ k.streamName = rtmp[p].streamName
  BY DEF PairedInv, Clients, Gone, Arrived
<1>5. k.publish => k.told = [type |-> "stream.publish", uid |-> k.uid,
                             room |-> k.room, name |-> k.streamName]
  BY <1>4 DEF PairedInv, Paired, StreamEvent
<1> HIDE DEF k
<1> QED
  BY <1>1, <1>2, <1>3, <1>5, ClientStep

LEMMA CloseStreamKeeps ==
  ASSUME PairedInv, NEW p \in RtmpPeers, CloseStream(p)
  PROVE  PairedInv'
<1> DEFINE k == [rtmp[p] EXCEPT !.stream = "neutral", !.file = FALSE,
                                !.untold = Unnoticed(p)]
<1>1. rtmp' = [rtmp EXCEPT ![p] = k] /\ SendControllerMessages(NewRecord(p))
  BY DEF CloseStream, PairedInv
<1>2. ControllersTyped' /\ ClientIsLive'
  BY <1>1, MessagesKeep DEF PairedInv
<1>3. Unnoticed(p) \in BOOLEAN
  BY DEF Unnoticed
<1>4. k \in Clients
  <2>1. rtmp[p] \in Clients
    BY DEF PairedInv
  <2> QED
    BY <1>3, <2>1 DEF Clients
<1>5. k.publish => k.told = [type |-> "stream.publish", uid |-> k.uid,
                             room |-> k.room, name |-> k.streamName]
  BY DEF PairedInv, Clients, Paired, StreamEvent
<1> HIDE DEF k
<1> QED
  BY <1>1, <1>2, <1>4, <1>5, ClientStep

LEMMA ClientsKeep ==
  ASSUME PairedInv, ClientsNext
  PROVE  PairedInv'
<1>1. PICK p \in RtmpPeers :
        \/ PeerArrives(p) \/ PeerLeaves(p) \/ CreateStream(p) \/ PlayRefused(p)
        \/ \E room \in Rooms, uid \in Uids, token \in UserTokens,
              base \in BOOLEAN : InvokeConnect(p, room, uid, token, base)
        \/ \E name \in StreamNames, base \in {"made", "told", "fails"},
              files, valid \in BOOLEAN : InvokePublish(p, name, base, files, valid)
        \/ \E base \in {"closed", "other", "fails"} : DeleteStream(p, base)
        \/ CloseStream(p)
  BY DEF ClientsNext
<1>2. CASE PeerArrives(p)
  <2>1. rtmp' = [rtmp EXCEPT ![p] = Arrived] /\ UNCHANGED <<client, cli>>
    BY <1>2 DEF PeerArrives
  <2>2. Arrived \in Clients /\ ~Arrived.publish
    BY DEF Arrived, Clients
  <2>3. ControllersTyped' /\ ClientIsLive'
    BY <2>1 DEF PairedInv, ControllersTyped, ClientIsLive
  <2> QED
    BY <2>1, <2>2, <2>3, ClientStep
<1>3. CASE PeerLeaves(p)
  BY <1>3, CloseKeeps DEF PeerLeaves
<1>4. CASE CreateStream(p)
  <2> DEFINE k == [rtmp[p] EXCEPT !.stream = "neutral"]
  <2>1. rtmp' = [rtmp EXCEPT ![p] = k] /\ UNCHANGED <<client, cli>>
    BY <1>4 DEF CreateStream, PairedInv
  <2>2. k \in Clients
    <3>1. rtmp[p] \in Clients
      BY DEF PairedInv
    <3> QED
      BY <3>1 DEF Clients
  <2>3. ControllersTyped' /\ ClientIsLive'
    BY <2>1 DEF PairedInv, ControllersTyped, ClientIsLive
  <2>4. k.publish => k.told = [type |-> "stream.publish", uid |-> k.uid,
                               room |-> k.room, name |-> k.streamName]
    BY DEF PairedInv, Clients, Paired, StreamEvent
  <2> HIDE DEF k
  <2> QED
    BY <2>1, <2>2, <2>3, <2>4, ClientStep
<1>5. CASE PlayRefused(p)
  BY <1>5, CloseKeeps DEF PlayRefused
<1> QED
  BY <1>1, <1>2, <1>3, <1>4, <1>5, InvokeConnectKeeps, InvokePublishKeeps,
     DeleteStreamKeeps, CloseStreamKeeps

-----------------------------------------------------------------------------
\* Whatever the commands, the connections and the outcomes of the library's
\* handlers: what a deleteStream says names the user, the room and the stream of
\* the publish that was announced before on that connection, and the controller
\* that is sent the events is a live connection (SendControllerMessage follows
\* the pointer m_client and asks nothing of it).
THEOREM EventsArePaired == EncreSpec => []EventsPaired
<1>1. EncreInit => PairedInv
  <2> SUFFICES ASSUME EncreInit PROVE PairedInv
    OBVIOUS
  <2>1. ControllersTyped /\ ClientIsLive
    BY DEF EncreInit, ControllersTyped, ClientIsLive, IsConnection, Closed
  <2>2. Gone \in Clients /\ ~Gone.publish
    BY DEF Gone, Arrived, Clients
  <2> QED
    BY <2>1, <2>2 DEF EncreInit, PairedInv, Paired
<1>2. PairedInv /\ [EncreNext]_encreVars => PairedInv'
  <2> SUFFICES ASSUME PairedInv, [EncreNext]_encreVars PROVE PairedInv'
    OBVIOUS
  <2>1. CASE UNCHANGED encreVars
    BY <2>1 DEF encreVars, PairedInv, ControllersTyped, ClientIsLive, Paired,
                StreamEvent
  <2> QED
    BY <2>1, ControllersKeep, ClientsKeep DEF EncreNext
<1>3. PairedInv => EventsPaired
  BY DEF PairedInv, ClientIsLive, Paired, EventsPaired
<1> QED
  BY <1>1, <1>2, <1>3, PTL DEF EncreSpec

-----------------------------------------------------------------------------
(* The refinement: recursive functions, and sequences that are flattened *)

\* A set of numbers has a least one.
LEMMA Least ==
  ASSUME NEW T, T \subseteq Nat, T # {}
  PROVE  \E x \in T : \A y \in T : x <= y
<1>1. PICK x \in T : \A y \in T : ~ (<<y, x>> \in OpToRel(<, Nat))
  BY WFMin, NatLessThanWellFounded, Zenon
<1>2. \A y \in T : ~(y < x)
  BY <1>1, Zenon DEF OpToRel
<1> QED
  BY <1>2

\* What holds at 0 and of the next number holds up to n.
LEMMA UpTo ==
  ASSUME NEW n \in Nat, NEW S, 0 \in S,
         \A i \in 0 .. n - 1 : i \in S => i + 1 \in S
  PROVE  \A i \in 0 .. n : i \in S
<1> SUFFICES ASSUME NEW k \in 0 .. n, k \notin S
             PROVE  FALSE
  OBVIOUS
<1> DEFINE T == {i \in 0 .. n : i \notin S}
<1>1. T \subseteq Nat /\ T # {}
  OBVIOUS
<1>2. PICK m \in T : \A i \in T : m <= i
  BY <1>1, Least
<1>3. m - 1 \in 0 .. n - 1 /\ m - 1 \notin T
  BY <1>2
<1> QED
  BY <1>2, <1>3

\* A function on 0 .. n, from b on by the steps of G.
Recursive(f, n, V, b, G) ==
  /\ f \in [0 .. n -> V]
  /\ f[0] = b /\ \A i \in 1 .. n : f[i] = G[<<f[i - 1], i>>]

\* A function may be defined from 0 on.
LEMMA Recursion ==
  ASSUME NEW n \in Nat, NEW V, NEW b \in V, NEW G \in [V \X (1 .. n) -> V]
  PROVE  \E f : Recursive(f, n, V, b, G)
<1> DEFINE Fits(f, k) == \A i \in 0 .. k : f[i] = IF i = 0 THEN b ELSE G[<<f[i - 1], i>>]
           S == {k \in 0 .. n : \E f \in [0 .. k -> V] : Fits(f, k)}
<1>1. 0 \in S
  <2>1. [i \in 0 .. 0 |-> b] \in [0 .. 0 -> V]
    OBVIOUS
  <2>2. Fits([i \in 0 .. 0 |-> b], 0)
    OBVIOUS
  <2>3. \E f \in [0 .. 0 -> V] : Fits(f, 0)
    <3> HIDE DEF Fits
    <3> QED
      BY <2>1, <2>2
  <2> QED
    BY <2>3
<1>2. ASSUME NEW k \in 0 .. n - 1, k \in S
      PROVE  k + 1 \in S
  <2>1. PICK f \in [0 .. k -> V] : Fits(f, k)
    BY <1>2
  <2> DEFINE g == [i \in 0 .. k + 1 |-> IF i = k + 1 THEN G[<<f[k], k + 1>>] ELSE f[i]]
  <2>2. k + 1 \in 1 .. n /\ f[k] \in V
    BY <1>2
  <2>3. G[<<f[k], k + 1>>] \in V
    BY <2>2
  <2>4. g \in [0 .. k + 1 -> V]
    BY <1>2, <2>3
  <2>5. ASSUME NEW i \in 0 .. k + 1
        PROVE  g[i] = IF i = 0 THEN b ELSE G[<<g[i - 1], i>>]
    <3>1. CASE i = k + 1
      <4>1. g[i] = G[<<f[k], k + 1>>] /\ g[i - 1] = f[k] /\ i # 0
        BY <1>2, <3>1
      <4> QED
        BY <3>1, <4>1
    <3>2. CASE i # k + 1
      <4>1. i \in 0 .. k /\ (i # 0 => i - 1 \in 0 .. k)
        BY <1>2, <3>2
      <4>2. g[i] = f[i] /\ (i # 0 => g[i - 1] = f[i - 1])
        BY <1>2, <4>1, <3>2
      <4> QED
        BY <2>1, <4>1, <4>2
    <3> QED
      BY <3>1, <3>2
  <2>6. Fits(g, k + 1)
    BY <2>5
  <2>7. \E h \in [0 .. k + 1 -> V] : Fits(h, k + 1)
    <3> HIDE DEF Fits, g
    <3> QED
      BY <2>4, <2>6
  <2> QED
    BY <2>7
<1>3. n \in S
  <2> HIDE DEF S
  <2> QED
    BY <1>1, <1>2, UpTo
<1>4. PICK f \in [0 .. n -> V] : Fits(f, n)
  BY <1>3
<1>5. f[0] = b
  <2>1. 0 \in 0 .. n
    OBVIOUS
  <2> QED
    BY <1>4, <2>1, Zenon
<1>6. ASSUME NEW i \in 1 .. n
      PROVE  f[i] = G[<<f[i - 1], i>>]
  BY <1>4
<1> QED
  BY <1>5, <1>6 DEF Recursive

\* The concatenation of sequences, one by one.
Accumulates(f, ss, n) ==
  /\ n \in Nat /\ Len(ss) = n
  /\ n = 0 => ss = <<>>
  /\ f[0] = <<>> /\ (n # 0 => f[1] = ss[1])
  /\ \A i \in 2 .. n : f[i] = f[i - 1] \o ss[i]

\* FlattenSeq is the last of what accumulates.
LEMMA FlattenIs ==
  ASSUME NEW n, NEW ss, NEW f, Accumulates(f, ss, n)
  PROVE  FlattenSeq(ss) = f[n]
<1>0. /\ n \in Nat /\ Len(ss) = n
      /\ n = 0 => ss = <<>>
      /\ f[0] = <<>> /\ (n # 0 => f[1] = ss[1])
      /\ \A i \in 2 .. n : f[i] = f[i - 1] \o ss[i]
  BY DEF Accumulates
<1> DEFINE Unfolds(g) == g = [i \in 1 .. n |-> IF i = 1 THEN ss[i] ELSE g[i - 1] \o ss[i]]
           F == CHOOSE g : Unfolds(g)
<1>1. CASE n = 0
  BY <1>0, <1>1 DEF FlattenSeq
<1>2. CASE n # 0
  <2>1. FlattenSeq(ss) = F[n]
    BY <1>0, <1>2 DEF FlattenSeq
  <2> DEFINE h == [i \in 1 .. n |-> f[i]]
  <2>2. Unfolds(h)
    <3>1. ASSUME NEW i \in 1 .. n
          PROVE  h[i] = IF i = 1 THEN ss[i] ELSE h[i - 1] \o ss[i]
      <4>1. i = 1 => f[i] = ss[i]
        BY <1>0, <1>2
      <4>2. i # 1 => i - 1 \in 1 .. n /\ i \in 2 .. n
        BY <1>0, <3>1
      <4>3. h[i] = f[i] /\ (i # 1 => h[i - 1] = f[i - 1])
        BY <1>0, <4>2
      <4> HIDE DEF h
      <4> QED
        BY <1>0, <4>1, <4>2, <4>3
    <3>2. h = [i \in 1 .. n |-> h[i]]
      BY <1>0
    <3> HIDE DEF h
    <3> QED
      BY <1>0, <3>1, <3>2
  <2>3. Unfolds(F)
    <3> HIDE DEF Unfolds, h
    <3> QED BY <1>0, <2>2
  <2>4. F = [i \in 1 .. n |-> IF i = 1 THEN ss[i] ELSE F[i - 1] \o ss[i]]
    <3> HIDE DEF F
    <3> QED BY <1>0, <2>3
  <2> HIDE DEF F, h
  <2>5. ASSUME NEW i \in 1 .. n
        PROVE  F[i] = IF i = 1 THEN ss[i] ELSE F[i - 1] \o ss[i]
    BY <1>0, <2>4
  <2> DEFINE S == {i \in 0 .. n : i = 0 \/ F[i] = f[i]}
  <2>6. ASSUME NEW i \in 0 .. n - 1, i \in S
        PROVE  i + 1 \in S
    <3>1. i + 1 \in 1 .. n /\ (i + 1) - 1 = i /\ (i # 0 => i + 1 \in 2 .. n)
      BY <1>0, <2>6
    <3>2. CASE i = 0
      <4>1. F[i + 1] = ss[i + 1]
        BY <1>0, <2>5, <3>1, <3>2
      <4> QED
        BY <1>0, <1>2, <3>1, <3>2, <4>1
    <3>3. CASE i # 0
      <4>1. F[i + 1] = F[(i + 1) - 1] \o ss[i + 1]
        <5>1. i + 1 # 1
          BY <1>0, <3>3
        <5> HIDE DEF S
        <5> QED
          BY <1>0, <2>5, <3>1, <5>1
      <4>2. f[i + 1] = f[i] \o ss[i + 1]
        BY <1>0, <3>1, <3>3
      <4>3. F[i] = f[i]
        BY <1>0, <2>6, <3>3
      <4>4. F[i + 1] = f[i + 1]
        BY <1>0, <3>1, <4>1, <4>2, <4>3
      <4> QED
        BY <1>0, <3>1, <4>4
    <3> QED
      BY <1>0, <3>2, <3>3
  <2>7. n \in S
    <3>1. 0 \in S
      BY <1>0
    <3>2. \A i \in 0 .. n - 1 : i \in S => i + 1 \in S
      BY <1>0, <2>6
    <3>3. n \in 0 .. n
      BY <1>0
    <3> HIDE DEF S
    <3> QED
      BY <1>0, <3>1, <3>2, <3>3, UpTo
  <2> QED
    BY <1>0, <1>2, <2>1, <2>7
<1> QED
  BY <1>0, <1>1, <1>2

\* Nothing flattens to nothing.
LEMMA FlattenEmpty ==
  FlattenSeq(<<>>) = <<>>
  BY DEF FlattenSeq

\* One sequence more goes to the end.
LEMMA FlattenAppend ==
  ASSUME NEW T, NEW ss \in Seq(Seq(T)), NEW t \in Seq(T)
  PROVE  /\ FlattenSeq(ss) \in Seq(T)
         /\ FlattenSeq(Append(ss, t)) = FlattenSeq(ss) \o t
<1> DEFINE n == Len(ss)
           V == Seq(T)
           G == [p \in V \X (1 .. n) |-> p[1] \o ss[p[2]]]
<1>1. n \in Nat /\ <<>> \in V
  OBVIOUS
<1>2. \A i \in 1 .. n : ss[i] \in V
  OBVIOUS
<1>3. \A x \in V, i \in 1 .. n : x \o ss[i] \in V
  BY <1>2
<1>4. G \in [V \X (1 .. n) -> V]
  <2> HIDE DEF V, n
  <2> QED
    BY <1>3
<1>5. PICK f : Recursive(f, n, V, <<>>, G)
  <2> DEFINE b == <<>>
  <2>1. b \in V
    BY <1>1
  <2> HIDE DEF G, V, n, b
  <2>2. \E f : Recursive(f, n, V, b, G)
    BY <1>1, <2>1, <1>4, Recursion
  <2> QED
    BY <2>2 DEF b
<1>51. f \in [0 .. n -> V]
       /\ f[0] = <<>> /\ \A i \in 1 .. n : f[i] = G[<<f[i - 1], i>>]
  <2> HIDE DEF G, V, n
  <2> QED
    BY <1>5 DEF Recursive
<1>6. \A i \in 0 .. n : f[i] \in V
  <2> HIDE DEF V, n
  <2> QED
    BY <1>51
<1>7. ASSUME NEW i \in 1 .. n
      PROVE  f[i] = f[i - 1] \o ss[i]
  <2>1. f[i] = G[<<f[i - 1], i>>]
    <3> HIDE DEF G, V, n
    <3> QED BY <1>51
  <2>2. f[i - 1] \in V
    <3> HIDE DEF V, n
    <3> QED BY <1>1, <1>6
  <2> HIDE DEF V, n
  <2> QED
    BY <2>1, <2>2
<1>8. /\ n = 0 => ss = <<>>
      /\ Len(ss) = n
  OBVIOUS
<1> DEFINE m == n + 1
           tt == Append(ss, t)
           g == [i \in 0 .. m |-> IF i = m THEN f[n] \o t ELSE f[i]]
<1>9. /\ Len(tt) = m /\ m \in Nat /\ m # 0
      /\ tt[m] = t /\ \A i \in 1 .. n : tt[i] = ss[i]
  OBVIOUS
<1>10. \A x \in V : <<>> \o x = x
  OBVIOUS
<1>11. t \in V
  OBVIOUS
<1> HIDE DEF V, G, tt, n
<1>12. n # 0 => f[1] = ss[1]
  <2> SUFFICES ASSUME n # 0 PROVE f[1] = ss[1]
    OBVIOUS
  <2>1. 1 \in 1 .. n
    BY <1>1
  <2>2. f[1] = f[1 - 1] \o ss[1]
    BY <1>7, <2>1
  <2>3. ss[1] \in V
    BY <1>2, <2>1
  <2>4. f[1 - 1] = <<>>
    BY <1>51
  <2> QED
    BY <1>10, <2>2, <2>3, <2>4
<1>13. FlattenSeq(ss) = f[n]
  <2>1. \A i \in 2 .. n : f[i] = f[i - 1] \o ss[i]
    <3> TAKE i \in 2 .. n
    <3>1. i \in 1 .. n
      BY <1>1
    <3> QED
      BY <1>7, <3>1, Zenon
  <2>2. Accumulates(f, ss, n)
    BY <1>1, <1>51, <1>8, <1>12, <2>1 DEF Accumulates
  <2> QED
    BY <2>2, FlattenIs
<1>14. f[n] \in V
  BY <1>1, <1>6
<1>15. /\ \A i \in 0 .. n : g[i] = f[i]
       /\ g[m] = f[n] \o t
  BY <1>1
<1> HIDE DEF g
<1>16. g[1] = tt[1]
  <2>1. CASE n = 0
    <3>1. m = 1 /\ f[n] = <<>>
      BY <1>51, <2>1
    <3> QED
      BY <1>9, <1>10, <1>11, <1>15, <3>1
  <2>2. CASE n # 0
    <3>1. 1 \in 0 .. n /\ 1 \in 1 .. n
      BY <1>1, <2>2
    <3> QED
      BY <1>9, <1>12, <1>15, <2>2, <3>1
  <2> QED
    BY <2>1, <2>2
<1>17. ASSUME NEW i \in 2 .. m
       PROVE  g[i] = g[i - 1] \o tt[i]
  <2>1. CASE i = m
    <3>1. i - 1 = n /\ n \in 0 .. n
      BY <1>1, <2>1
    <3>2. g[i - 1] = f[n]
      BY <1>15, <3>1
    <3> QED
      BY <1>9, <1>15, <2>1, <3>2
  <2>2. CASE i # m
    <3>1. i \in 1 .. n /\ i \in 0 .. n /\ i - 1 \in 0 .. n
      BY <1>1, <2>2
    <3>2. g[i] = f[i] /\ g[i - 1] = f[i - 1] /\ tt[i] = ss[i]
      BY <1>9, <1>15, <3>1
    <3>3. f[i] = f[i - 1] \o ss[i]
      BY <1>7, <3>1
    <3> QED
      BY <3>2, <3>3
  <2> QED
    BY <2>1, <2>2
<1>18. FlattenSeq(tt) = g[m]
  <2> HIDE DEF m
  <2>1. g[0] = <<>>
    BY <1>1, <1>51, <1>15
  <2>2. Accumulates(g, tt, m)
    BY <1>9, <1>16, <1>17, <2>1 DEF Accumulates
  <2> QED
    BY <2>2, FlattenIs
<1> QED
  BY <1>13, <1>14, <1>15, <1>18 DEF V, tt

\* What a sequence of sequences and one more of them are.
LEMMA SeqFacts ==
  ASSUME NEW T, NEW s \in Seq(T), NEW t \in Seq(T)
  PROVE  /\ s \o <<>> = s /\ <<>> \o s = s
         /\ s \o t \in Seq(T)
         /\ SubSeq(t, 1, 0) = <<>> /\ SubSeq(t, 1, Len(t)) = t
         /\ Len(t) \in Nat
         /\ \A i \in 0 .. Len(t) : SubSeq(t, 1, i) \in Seq(T)
         /\ \A i \in 0 .. Len(t) - 1 :
              /\ t[i + 1] \in T
              /\ SubSeq(t, 1, i + 1) = Append(SubSeq(t, 1, i), t[i + 1])
         /\ \A x \in T : /\ s \o Append(t, x) = Append(s \o t, x)
                         /\ Append(t, x) \in Seq(T)
<1>1. s \o <<>> = s /\ <<>> \o s = s
  OBVIOUS
<1>2. s \o t \in Seq(T)
  OBVIOUS
<1>3. SubSeq(t, 1, 0) = <<>> /\ SubSeq(t, 1, Len(t)) = t /\ Len(t) \in Nat
  OBVIOUS
<1>4. \A i \in 0 .. Len(t) : SubSeq(t, 1, i) \in Seq(T)
  OBVIOUS
<1>5. ASSUME NEW i \in 0 .. Len(t) - 1
      PROVE  /\ t[i + 1] \in T
             /\ SubSeq(t, 1, i + 1) = Append(SubSeq(t, 1, i), t[i + 1])
  OBVIOUS
<1>6. ASSUME NEW x \in T
      PROVE  /\ s \o Append(t, x) = Append(s \o t, x)
             /\ Append(t, x) \in Seq(T)
  OBVIOUS
<1> QED
  BY <1>1, <1>2, <1>3, <1>4, <1>5, <1>6

\* The concatenation of two.
LEMMA FlattenConcat ==
  ASSUME NEW T, NEW ss \in Seq(Seq(T)), NEW tt \in Seq(Seq(T))
  PROVE  FlattenSeq(ss \o tt) = FlattenSeq(ss) \o FlattenSeq(tt)
<1> DEFINE V == Seq(T)
           Part(i) == SubSeq(tt, 1, i)
           n == Len(tt)
           S == {i \in 0 .. n :
                   FlattenSeq(ss \o Part(i)) = FlattenSeq(ss) \o FlattenSeq(Part(i))}
<1>1. /\ ss \o <<>> = ss /\ n \in Nat
      /\ Part(0) = <<>> /\ Part(n) = tt
      /\ \A i \in 0 .. n : Part(i) \in Seq(V) /\ ss \o Part(i) \in Seq(V)
      /\ \A i \in 0 .. n - 1 : /\ tt[i + 1] \in V
                               /\ Part(i + 1) = Append(Part(i), tt[i + 1])
  <2> HIDE DEF V
  <2>1. ss \in Seq(V) /\ tt \in Seq(V)
    BY DEF V
  <2> QED
    BY <2>1, SeqFacts
<1>2. \A x \in V : x \o <<>> = x
  OBVIOUS
<1>3. \A u \in Seq(V), x \in V : 
        /\ FlattenSeq(u) \in V
        /\ FlattenSeq(Append(u, x)) = FlattenSeq(u) \o x
  BY FlattenAppend
<1>4. \A u \in Seq(V), v \in Seq(V), x \in V : u \o Append(v, x) = Append(u \o v, x)
  <2> HIDE DEF V
  <2> QED BY SeqFacts
<1>5. \A x, y, z \in V : x \o (y \o z) = (x \o y) \o z
  OBVIOUS
<1>6. ss \in Seq(V) /\ <<>> \in V
  OBVIOUS
<1> HIDE DEF V, n, Part
<1>7. FlattenSeq(ss) \in V
  BY <1>3, <1>6
<1>8. 0 \in S
  <2>1. FlattenSeq(ss) \o <<>> = FlattenSeq(ss)
    BY <1>2, <1>7
  <2>2. ss \o Part(0) = ss /\ FlattenSeq(Part(0)) = <<>>
    BY <1>1, FlattenEmpty
  <2>3. 0 \in 0 .. n
    BY <1>1
  <2> QED
    BY <2>1, <2>2, <2>3
<1>9. ASSUME NEW i \in 0 .. n - 1, i \in S
      PROVE  i + 1 \in S
  <2>1. /\ i \in 0 .. n /\ i + 1 \in 0 .. n
        /\ FlattenSeq(ss \o Part(i)) = FlattenSeq(ss) \o FlattenSeq(Part(i))
    BY <1>1, <1>9
  <2> DEFINE x == tt[i + 1]
             p == Part(i)
  <2>2. /\ x \in V /\ p \in Seq(V) /\ ss \o p \in Seq(V)
        /\ Part(i + 1) = Append(p, x)
    BY <1>1, <1>9, <2>1
  <2>3. FlattenSeq(ss \o p) = FlattenSeq(ss) \o FlattenSeq(p)
    BY <2>1
  <2> HIDE DEF x, p
  <2>4. ss \o Part(i + 1) = Append(ss \o p, x)
    <3>1. ss \o Append(p, x) = Append(ss \o p, x)
      BY <1>4, <1>6, <2>2, Zenon
    <3> QED
      BY <2>2, <3>1, Zenon
  <2>5. FlattenSeq(Append(ss \o p, x)) = FlattenSeq(ss \o p) \o x
    BY <1>3, <2>2
  <2>6. /\ FlattenSeq(Append(p, x)) = FlattenSeq(p) \o x
        /\ FlattenSeq(p) \in V
    BY <1>3, <2>2
  <2>7. (FlattenSeq(ss) \o FlattenSeq(p)) \o x = FlattenSeq(ss) \o (FlattenSeq(p) \o x)
    BY <1>5, <1>7, <2>2, <2>6
  <2>8. FlattenSeq(ss \o Part(i + 1)) = FlattenSeq(ss) \o FlattenSeq(Part(i + 1))
    BY <2>2, <2>3, <2>4, <2>5, <2>6, <2>7
  <2> QED
    BY <2>1, <2>8
<1>10. n \in S
  <2> HIDE DEF S
  <2>1. \A i \in 0 .. n - 1 : i \in S => i + 1 \in S
    BY <1>9
  <2>2. n \in 0 .. n
    BY <1>1
  <2> QED
    BY <1>1, <1>8, <2>1, <2>2, UpTo
<1> QED
  BY <1>1, <1>10

-----------------------------------------------------------------------------
(* What the connector sees, and the invariant of the lines *)

\* What a wire carries.
Symbols == [part : 0 .. 3, of : EncreCommands]

\* The events, and what a controller is sent.
Announcements ==
  [type : {"stream.publish", "stream.delete"}, uid : Uids \cup {None},
   room : Rooms \cup {None}, name : StreamNames \cup {None}]
    \cup [type : {"new_record"}]

Messages ==
  [status : {"SUCCESS", "FAIL"}] \cup [status : {"EVENT"}, data : Announcements]

\* What may come after a symbol: a line end after the text of the same command,
\* and text after a line end.
Follows(a, b) == IF IsEnd(a) THEN ~IsEnd(b) ELSE b.of = a.of

Chained(s) == \A i \in 1 .. Len(s) - 1 : Follows(s[i], s[i + 1])

\* The bytes left and those not yet read.  They are whole lines, of which a line
\* end stays in the buffer only as its first byte.
Bytes(c) == cli[c].unread \o wire[c]

WholeLines(c) ==
  /\ Chained(Bytes(c))
  /\ Bytes(c) # <<>> => IsEnd(Bytes(c)[Len(Bytes(c))])
  /\ cli[c].unread = <<>> /\ wire[c] # <<>> => ~IsEnd(wire[c][1])
  /\ \A i \in 2 .. Len(cli[c].unread) : ~IsEnd(cli[c].unread[i])

Tables == UNION {[D -> UserTokens] : D \in SUBSET Uids}
Registries == UNION {[D -> Tables] : D \in SUBSET Rooms}

\* A connection that is closed has nothing on its wire.
ControllerTyped(c) ==
  /\ wire[c] \in Seq(Symbols)
  /\ cli[c] \in [open : BOOLEAN, unread : Seq(Symbols), out : Seq(Messages)]
  /\ ~cli[c].open => cli[c] = Closed /\ wire[c] = <<>>

\* The invariant of the refinement: the registry is one, and lines are whole.
ServedInv ==
  /\ meetings \in Registries
  /\ cli = [c \in Clis |-> cli[c]] /\ wire = [c \in Clis |-> wire[c]]
  /\ \A c \in Clis : ControllerTyped(c) /\ WholeLines(c)

-----------------------------------------------------------------------------
(* The registry *)

IsMap(f) == f = [k \in DOMAIN f |-> f[k]]

\* A registry is a function of rooms to tables.
LEMMA RegistryIs ==
  ASSUME NEW ms
  PROVE  ms \in Registries <=> /\ IsMap(ms)
                               /\ DOMAIN ms \subseteq Rooms
                               /\ \A r \in DOMAIN ms : ms[r] \in Tables
  BY DEF Registries, IsMap

\* A table is a function of users to tokens.
LEMMA TableIs ==
  ASSUME NEW t
  PROVE  t \in Tables <=> /\ IsMap(t)
                          /\ DOMAIN t \subseteq Uids
                          /\ \A u \in DOMAIN t : t[u] \in UserTokens
  BY DEF Tables, IsMap

\* Who may connect where, and with what.
LEMMA RightsAre ==
  ASSUME NEW ms, NEW x
  PROVE  x \in RightsOf(ms) <=> \E r \in DOMAIN ms : \E u \in DOMAIN ms[r] : x = <<r, u, ms[r][u]>>
  BY DEF RightsOf

\* A right of a registry.
LEMMA RightIs ==
  ASSUME NEW ms, NEW r, NEW u, NEW t
  PROVE  <<r, u, t>> \in RightsOf(ms) <=> r \in DOMAIN ms /\ u \in DOMAIN ms[r] /\ t = ms[r][u]
  BY RightsAre

\* A room that is there or not, with its table replaced.
LEMMA WithTable ==
  ASSUME NEW ms \in Registries, NEW room \in Rooms, NEW t \in Tables
  PROVE  /\ With(ms, room, t) \in Registries
         /\ RightsOf(With(ms, room, t))
              = {x \in RightsOf(ms) : x[1] # room} \cup {<<room, u, t[u]>> : u \in DOMAIN t}
<1> DEFINE w == With(ms, room, t)
<1>1. /\ IsMap(w)
      /\ DOMAIN w = DOMAIN ms \cup {room} /\ w[room] = t
      /\ \A k \in DOMAIN ms : k # room => w[k] = ms[k]
  BY DEF IsMap, With
<1> HIDE DEF w
<1>2. w \in Registries
  <2>1. \A r \in DOMAIN w : w[r] \in Tables
    BY <1>1, RegistryIs
  <2> QED
    BY <1>1, <2>1, RegistryIs
<1>3. ASSUME NEW x \in RightsOf(w)
      PROVE  x \in {y \in RightsOf(ms) : y[1] # room} \cup {<<room, u, t[u]>> : u \in DOMAIN t}
  <2>1. PICK r \in DOMAIN w : \E u \in DOMAIN w[r] : x = <<r, u, w[r][u]>>
    BY <1>3, RightsAre
  <2>0. PICK u \in DOMAIN w[r] : x = <<r, u, w[r][u]>>
    BY <2>1
  <2>2. CASE r = room
    BY <1>1, <2>1, <2>0, <2>2
  <2>3. CASE r # room
    <3>1. r \in DOMAIN ms /\ u \in DOMAIN ms[r] /\ w[r] = ms[r]
      BY <1>1, <2>1, <2>0, <2>3
    <3>2. x \in RightsOf(ms)
      BY <2>1, <2>0, <3>1, RightsAre
    <3> QED
      BY <2>1, <2>0, <2>3, <3>2
  <2> QED
    BY <2>2, <2>3
<1>4. ASSUME NEW x \in RightsOf(ms), x[1] # room
      PROVE  x \in RightsOf(w)
  <2>1. PICK r \in DOMAIN ms : \E u \in DOMAIN ms[r] : x = <<r, u, ms[r][u]>>
    BY <1>4, RightsAre
  <2>0. PICK u \in DOMAIN ms[r] : x = <<r, u, ms[r][u]>>
    BY <2>1
  <2>2. r \in DOMAIN w /\ w[r] = ms[r]
    BY <1>1, <1>4, <2>1, <2>0
  <2> QED
    BY <2>1, <2>0, <2>2, RightsAre
<1>5. ASSUME NEW u \in DOMAIN t
      PROVE  <<room, u, t[u]>> \in RightsOf(w)
  BY <1>1, RightIs
<1>6. RightsOf(w) = {x \in RightsOf(ms) : x[1] # room} \cup {<<room, u, t[u]>> : u \in DOMAIN t}
  BY <1>3, <1>4, <1>5
<1> QED
  BY <1>2, <1>6 DEF w

\* A room that is deleted takes its rights with it, and no others.
LEMMA WithoutRoom ==
  ASSUME NEW ms \in Registries, NEW room
  PROVE  /\ Without(ms, room) \in Registries
         /\ RightsOf(Without(ms, room)) = {x \in RightsOf(ms) : x[1] # room}
<1> DEFINE w == Without(ms, room)
<1>1. /\ IsMap(w)
      /\ DOMAIN w = DOMAIN ms \ {room}
      /\ \A k \in DOMAIN ms : k # room => w[k] = ms[k]
  BY DEF IsMap, Without, Restrict
<1> HIDE DEF w
<1>2. w \in Registries
  <2>1. \A r \in DOMAIN w : w[r] \in Tables
    BY <1>1, RegistryIs
  <2> QED
    BY <1>1, <2>1, RegistryIs
<1>3. ASSUME NEW x \in RightsOf(w)
      PROVE  x \in {y \in RightsOf(ms) : y[1] # room}
  <2>1. PICK r \in DOMAIN w : \E u \in DOMAIN w[r] : x = <<r, u, w[r][u]>>
    BY <1>3, RightsAre
  <2>0. PICK u \in DOMAIN w[r] : x = <<r, u, w[r][u]>>
    BY <2>1
  <2>2. r \in DOMAIN ms /\ u \in DOMAIN ms[r] /\ w[r] = ms[r] /\ r # room
    BY <1>1, <2>1, <2>0, <2>0
  <2>3. x \in RightsOf(ms)
    BY <2>1, <2>0, <2>2, RightsAre
  <2> QED
    BY <2>1, <2>0, <2>2, <2>3
<1>4. ASSUME NEW x \in RightsOf(ms), x[1] # room
      PROVE  x \in RightsOf(w)
  <2>1. PICK r \in DOMAIN ms : \E u \in DOMAIN ms[r] : x = <<r, u, ms[r][u]>>
    BY <1>4, RightsAre
  <2>0. PICK u \in DOMAIN ms[r] : x = <<r, u, ms[r][u]>>
    BY <2>1
  <2>2. r \in DOMAIN w /\ w[r] = ms[r]
    BY <1>1, <1>4, <2>1, <2>0
  <2> QED
    BY <2>1, <2>0, <2>2, RightsAre
<1>5. RightsOf(w) = {x \in RightsOf(ms) : x[1] # room}
  BY <1>3, <1>4
<1> QED
  BY <1>2, <1>5 DEF w

\* A new room, and a new registry, give nobody a right.
LEMMA EmptyTable == <<>> \in Tables /\ <<>> \in Registries /\ RightsOf(<<>>) = {}
<1>1. IsMap(<<>>) /\ DOMAIN <<>> = {}
  BY DEF IsMap
<1>2. \A x : x \notin RightsOf(<<>>)
  BY <1>1, RightsAre
<1> QED
  BY <1>1, <1>2, TableIs, RegistryIs

\* A user of a room, new or with a new token.
LEMMA TableWith ==
  ASSUME NEW t \in Tables, NEW u \in Uids, NEW x \in UserTokens
  PROVE  /\ With(t, u, x) \in Tables
         /\ DOMAIN With(t, u, x) = DOMAIN t \cup {u}
         /\ With(t, u, x)[u] = x
         /\ \A k \in DOMAIN t : k # u => With(t, u, x)[k] = t[k]
<1> DEFINE w == With(t, u, x)
<1>1. /\ IsMap(w)
      /\ DOMAIN w = DOMAIN t \cup {u} /\ w[u] = x
      /\ \A k \in DOMAIN t : k # u => w[k] = t[k]
  BY DEF IsMap, With
<1> HIDE DEF w
<1>2. w \in Tables
  BY <1>1, TableIs
<1> QED
  BY <1>1, <1>2 DEF w

\* A user that a room does not know any more.
LEMMA TableWithout ==
  ASSUME NEW t \in Tables, NEW u
  PROVE  /\ Without(t, u) \in Tables
         /\ DOMAIN Without(t, u) = DOMAIN t \ {u}
         /\ \A k \in DOMAIN t : k # u => Without(t, u)[k] = t[k]
<1> DEFINE w == Without(t, u)
<1>1. /\ IsMap(w)
      /\ DOMAIN w = DOMAIN t \ {u}
      /\ \A k \in DOMAIN t : k # u => w[k] = t[k]
  BY DEF IsMap, Without, Restrict
<1> HIDE DEF w
<1>2. w \in Tables
  BY <1>1, TableIs
<1> QED
  BY <1>1, <1>2 DEF w

\* The commands, and the keys they have.
LEMMA CommandIs ==
  ASSUME NEW cmd \in EncreCommands
  PROVE  \/ cmd.do \in {"meeting.new", "meeting.del"} /\ cmd.name \in Rooms
         \/ /\ cmd.do = "user.new" /\ HasKeys(cmd, {"uid", "token", "room"})
            /\ HasKeys(cmd, {"uid", "room"})
            /\ cmd.uid \in Uids /\ cmd.token \in UserTokens /\ cmd.room \in Rooms
         \/ cmd.do = "user.new" /\ ~HasKeys(cmd, {"uid", "token", "room"})
         \/ /\ cmd.do = "user.del" /\ HasKeys(cmd, {"uid", "room"})
            /\ cmd.uid \in Uids /\ cmd.room \in Rooms
         \/ cmd.do \in {"stream.mute", "stream.record"}
         \/ cmd.do \in {"stream.new", "long"}
  BY CommandsAssumption DEF AllCommands, HasKeys

-----------------------------------------------------------------------------
\* What the connector sees of the registry.
Seen(ms, answers) ==
  [rooms |-> DOMAIN ms, rights |-> RightsOf(ms), answers |-> answers]

Told(ok) == IF ok THEN "SUCCESS" ELSE "FAIL"

\* meeting.new does what the connector relies on.
LEMMA MeetingNewServes ==
  ASSUME NEW ms \in Registries, NEW cmd \in EncreCommands, NEW answers,
         cmd.do = "meeting.new"
  PROVE  LET done == ProcessInvokeCommand(ms, cmd)
         IN  /\ done.meetings \in Registries
             /\ Seen(done.meetings, Append(answers, Told(done.ok)))
                  = Registry!Served(Seen(ms, answers), cmd)
<1> DEFINE done == ProcessInvokeCommand(ms, cmd)
<1>1. cmd.name \in Rooms
  BY CommandIs
<1>2. done.ok = TRUE
      /\ done.meetings = IF cmd.name \in DOMAIN ms THEN ms ELSE With(ms, cmd.name, <<>>)
  BY DEF ProcessInvokeCommand, MeetingNew
<1>3. done.meetings \in Registries
  BY <1>1, <1>2, EmptyTable, WithTable
<1>4. DOMAIN done.meetings = DOMAIN ms \cup {cmd.name}
  BY <1>2 DEF With
<1>5. RightsOf(done.meetings) = RightsOf(ms)
  <2>1. CASE cmd.name \notin DOMAIN ms
    <3>1. \A x \in RightsOf(ms) : x[1] # cmd.name
      BY <2>1, RightsAre
    <3>2. DOMAIN <<>> = {}
      OBVIOUS
    <3>3. RightsOf(With(ms, cmd.name, <<>>))
            = {x \in RightsOf(ms) : x[1] # cmd.name} \cup {<<cmd.name, u, <<>>[u]>> : u \in DOMAIN <<>>}
      BY <1>1, EmptyTable, WithTable
    <3>4. {<<cmd.name, u, <<>>[u]>> : u \in DOMAIN <<>>} = {}
      BY <3>2
    <3> QED
      BY <1>2, <2>1, <3>1, <3>3, <3>4
  <2> QED
    BY <1>2, <2>1
<1> HIDE DEF done
<1>6. Seen(done.meetings, Append(answers, Told(done.ok)))
        = Registry!Served(Seen(ms, answers), cmd)
  BY <1>2, <1>4, <1>5 DEF Seen, Told, Registry!Served
<1> QED
  BY <1>3, <1>6 DEF done

\* meeting.del does what the connector relies on.
LEMMA MeetingDelServes ==
  ASSUME NEW ms \in Registries, NEW cmd \in EncreCommands, NEW answers,
         cmd.do = "meeting.del"
  PROVE  LET done == ProcessInvokeCommand(ms, cmd)
         IN  /\ done.meetings \in Registries
             /\ Seen(done.meetings, Append(answers, Told(done.ok)))
                  = Registry!Served(Seen(ms, answers), cmd)
<1> DEFINE done == ProcessInvokeCommand(ms, cmd)
<1>1. done.ok = (cmd.name \in DOMAIN ms)
      /\ done.meetings = Without(ms, cmd.name)
  BY DEF ProcessInvokeCommand, MeetingDel
<1>2. /\ done.meetings \in Registries
      /\ RightsOf(done.meetings) = {x \in RightsOf(ms) : x[1] # cmd.name}
  BY <1>1, WithoutRoom
<1>3. DOMAIN done.meetings = DOMAIN ms \ {cmd.name}
  BY <1>1 DEF Without, Restrict
<1>4. cmd.name \notin DOMAIN ms => RightsOf(done.meetings) = RightsOf(ms)
  BY <1>2, RightsAre
<1> HIDE DEF done
<1>5. ASSUME cmd.name \in DOMAIN ms
      PROVE  Seen(done.meetings, Append(answers, Told(done.ok)))
               = Registry!Served(Seen(ms, answers), cmd)
  <2>1. Registry!Served(Seen(ms, answers), cmd)
          = [rooms |-> DOMAIN ms \ {cmd.name},
             rights |-> {x \in RightsOf(ms) : x[1] # cmd.name},
             answers |-> Append(answers, "SUCCESS")]
    BY <1>5 DEF Seen, Registry!Served
  <2>2. Seen(done.meetings, Append(answers, Told(done.ok)))
          = [rooms |-> DOMAIN ms \ {cmd.name},
             rights |-> {x \in RightsOf(ms) : x[1] # cmd.name},
             answers |-> Append(answers, "SUCCESS")]
    BY <1>1, <1>2, <1>3, <1>5 DEF Seen, Told
  <2> QED
    BY <2>1, <2>2
<1>6. ASSUME cmd.name \notin DOMAIN ms
      PROVE  Seen(done.meetings, Append(answers, Told(done.ok)))
               = Registry!Served(Seen(ms, answers), cmd)
  <2>1. DOMAIN done.meetings = DOMAIN ms
    BY <1>3, <1>6
  <2> QED
    <3>1. Registry!Served(Seen(ms, answers), cmd)
            = [rooms |-> DOMAIN ms, rights |-> RightsOf(ms),
               answers |-> Append(answers, "FAIL")]
      BY <1>6 DEF Seen, Registry!Served
    <3> QED
      BY <1>1, <1>4, <1>6, <2>1, <3>1 DEF Seen, Told
<1>7. Seen(done.meetings, Append(answers, Told(done.ok)))
        = Registry!Served(Seen(ms, answers), cmd)
  BY <1>5, <1>6
<1> QED
  BY <1>2, <1>7 DEF done

\* The rights of a user in a room: one at most.
HeldBy(ms, cmd) ==
  {r \in RightsOf(ms) : /\ HasKeys(cmd, {"uid", "room"})
                        /\ r[1] = cmd.room /\ r[2] = cmd.uid}

\* A table whose entry of one user has changed.
DifferAt(uid, s, t) ==
  \A u \in DOMAIN s \cup DOMAIN t : u # uid =>
    /\ u \in DOMAIN s <=> u \in DOMAIN t
    /\ u \in DOMAIN s => s[u] = t[u]

\* Two tables that differ at one user only give the rights of the others.
LEMMA RightsOfTable ==
  ASSUME NEW ms \in Registries, NEW room \in DOMAIN ms, NEW uid, NEW t \in Tables,
         DifferAt(uid, ms[room], t)
  PROVE  /\ With(ms, room, t) \in Registries
         /\ DOMAIN With(ms, room, t) = DOMAIN ms
         /\ RightsOf(With(ms, room, t))
              = {x \in RightsOf(ms) : ~(x[1] = room /\ x[2] = uid)}
                  \cup {<<room, u, t[u]>> : u \in DOMAIN t \cap {uid}}
<1>1. room \in Rooms
  BY RegistryIs
<1>2. /\ With(ms, room, t) \in Registries
      /\ RightsOf(With(ms, room, t))
           = {x \in RightsOf(ms) : x[1] # room} \cup {<<room, u, t[u]>> : u \in DOMAIN t}
  BY <1>1, WithTable
<1>3. DOMAIN With(ms, room, t) = DOMAIN ms
  BY DEF With
<1> DEFINE A == {x \in RightsOf(ms) : x[1] # room}
           B == {<<room, u, t[u]>> : u \in DOMAIN t}
           C == {x \in RightsOf(ms) : ~(x[1] = room /\ x[2] = uid)}
           D == {<<room, u, t[u]>> : u \in DOMAIN t \cap {uid}}
<1>4. ASSUME NEW x \in A PROVE x \in C
  OBVIOUS
<1>5. ASSUME NEW x \in B PROVE x \in C \cup D
  <2>1. PICK u \in DOMAIN t : x = <<room, u, t[u]>>
    BY <1>5
  <2>2. CASE u = uid
    BY <2>1, <2>2
  <2>3. CASE u # uid
    <3>1. u \in DOMAIN ms[room] /\ x = <<room, u, ms[room][u]>>
      BY <2>1, <2>3 DEF DifferAt
    <3>2. x \in RightsOf(ms)
      BY <3>1, RightIs
    <3> QED
      BY <2>1, <2>3, <3>2
  <2> QED
    BY <2>2, <2>3
<1>6. ASSUME NEW x \in C PROVE x \in A \cup B
  <2>1. PICK r \in DOMAIN ms : \E u \in DOMAIN ms[r] : x = <<r, u, ms[r][u]>>
    BY <1>6, RightsAre
  <2>2. PICK u \in DOMAIN ms[r] : x = <<r, u, ms[r][u]>>
    BY <2>1
  <2>3. CASE r = room
    <3>1. u # uid /\ u \in DOMAIN t /\ t[u] = ms[room][u]
      BY <1>6, <2>2, <2>3 DEF DifferAt
    <3> QED
      BY <2>2, <2>3, <3>1
  <2>4. CASE r # room
    BY <1>6, <2>2, <2>4
  <2> QED
    BY <2>3, <2>4
<1>7. ASSUME NEW x \in D PROVE x \in B
  OBVIOUS
<1>8. A \cup B = C \cup D
  <2> HIDE DEF A, B, C, D
  <2> QED
    BY <1>4, <1>5, <1>6, <1>7
<1> QED
  BY <1>2, <1>3, <1>8

\* user.new does what the connector relies on.
LEMMA UserNewServes ==
  ASSUME NEW ms \in Registries, NEW cmd \in EncreCommands, NEW answers,
         cmd.do = "user.new"
  PROVE  LET done == ProcessInvokeCommand(ms, cmd)
         IN  /\ done.meetings \in Registries
             /\ Seen(done.meetings, Append(answers, Told(done.ok)))
                  = Registry!Served(Seen(ms, answers), cmd)
<1> DEFINE done == ProcessInvokeCommand(ms, cmd)
<1>1. done = UserNew(ms, cmd)
  BY DEF ProcessInvokeCommand
<1>2. CASE ~HasKeys(cmd, {"uid", "token", "room"}) \/ cmd.room \notin DOMAIN ms
  <2>1. done.ok = FALSE /\ done.meetings = ms
    BY <1>1, <1>2 DEF UserNew
  <2> HIDE DEF done
  <2>2. Seen(done.meetings, Append(answers, Told(done.ok)))
          = Registry!Served(Seen(ms, answers), cmd)
    BY <1>2, <2>1 DEF Seen, Told, Registry!Served, HasKeys
  <2> QED
    BY <2>1, <2>2 DEF done
<1>3. CASE HasKeys(cmd, {"uid", "token", "room"}) /\ cmd.room \in DOMAIN ms
  <2> DEFINE t == With(ms[cmd.room], cmd.uid, cmd.token)
  <2>1. done.ok = TRUE /\ done.meetings = With(ms, cmd.room, t)
    BY <1>1, <1>3 DEF UserNew
  <2>2. /\ HasKeys(cmd, {"uid", "room"})
        /\ cmd.uid \in Uids /\ cmd.token \in UserTokens /\ cmd.room \in Rooms
    BY <1>3, CommandIs
  <2>3. ms[cmd.room] \in Tables
    BY <1>3, RegistryIs
  <2>4. /\ t \in Tables
        /\ DOMAIN t = DOMAIN ms[cmd.room] \cup {cmd.uid}
        /\ t[cmd.uid] = cmd.token
        /\ \A k \in DOMAIN ms[cmd.room] : k # cmd.uid => t[k] = ms[cmd.room][k]
    <3> DEFINE q == ms[cmd.room]
               u == cmd.uid
               x == cmd.token
    <3>1. q \in Tables /\ u \in Uids /\ x \in UserTokens
      BY <2>2, <2>3
    <3> HIDE DEF done, q, u, x
    <3>2. /\ With(q, u, x) \in Tables
          /\ DOMAIN With(q, u, x) = DOMAIN q \cup {u}
          /\ With(q, u, x)[u] = x
          /\ \A k \in DOMAIN q : k # u => With(q, u, x)[k] = q[k]
      BY <3>1, TableWith, Zenon
    <3> QED
      BY <3>2 DEF q, u, x
  <2> HIDE DEF done, t
  <2>5. /\ With(ms, cmd.room, t) \in Registries
        /\ DOMAIN With(ms, cmd.room, t) = DOMAIN ms
        /\ RightsOf(With(ms, cmd.room, t))
             = {x \in RightsOf(ms) : ~(x[1] = cmd.room /\ x[2] = cmd.uid)}
                 \cup {<<cmd.room, u, t[u]>> : u \in DOMAIN t \cap {cmd.uid}}
    <3>1. DifferAt(cmd.uid, ms[cmd.room], t)
      BY <2>4 DEF DifferAt
    <3> QED
      BY <1>3, <2>4, <3>1, RightsOfTable
  <2>6. {<<cmd.room, u, t[u]>> : u \in DOMAIN t \cap {cmd.uid}}
          = {<<cmd.room, cmd.uid, cmd.token>>}
    BY <2>4
  <2>7. {x \in RightsOf(ms) : ~(x[1] = cmd.room /\ x[2] = cmd.uid)}
          = RightsOf(ms) \ HeldBy(ms, cmd)
    BY <2>2 DEF HeldBy
  <2>8. RightsOf(done.meetings)
          = (RightsOf(ms) \ HeldBy(ms, cmd)) \cup {<<cmd.room, cmd.uid, cmd.token>>}
    BY <2>1, <2>5, <2>6, <2>7
  <2>9. Registry!Served(Seen(ms, answers), cmd)
          = [rooms |-> DOMAIN ms,
             rights |-> (RightsOf(ms) \ HeldBy(ms, cmd))
                          \cup {<<cmd.room, cmd.uid, cmd.token>>},
             answers |-> Append(answers, "SUCCESS")]
    BY <1>3 DEF Seen, Registry!Served, HeldBy, HasKeys
  <2>10. Seen(done.meetings, Append(answers, Told(done.ok)))
           = Registry!Served(Seen(ms, answers), cmd)
    BY <2>1, <2>5, <2>8, <2>9 DEF Seen, Told
  <2> QED
    BY <2>1, <2>5, <2>10 DEF done
<1> QED
  BY <1>2, <1>3

\* user.del does what the connector relies on.
LEMMA UserDelServes ==
  ASSUME NEW ms \in Registries, NEW cmd \in EncreCommands, NEW answers,
         cmd.do = "user.del"
  PROVE  LET done == ProcessInvokeCommand(ms, cmd)
         IN  /\ done.meetings \in Registries
             /\ Seen(done.meetings, Append(answers, Told(done.ok)))
                  = Registry!Served(Seen(ms, answers), cmd)
<1> DEFINE done == ProcessInvokeCommand(ms, cmd)
<1>1. done = UserDel(ms, cmd)
  BY DEF ProcessInvokeCommand
<1>2. /\ HasKeys(cmd, {"uid", "room"})
      /\ cmd.uid \in Uids /\ cmd.room \in Rooms
  BY CommandIs
<1>3. HeldBy(ms, cmd) = {r \in RightsOf(ms) : r[1] = cmd.room /\ r[2] = cmd.uid}
  BY <1>2 DEF HeldBy
<1>4. HeldBy(ms, cmd) = {}
        <=> ~(cmd.room \in DOMAIN ms /\ cmd.uid \in DOMAIN ms[cmd.room])
  <2>1. ASSUME cmd.room \in DOMAIN ms, cmd.uid \in DOMAIN ms[cmd.room]
        PROVE  <<cmd.room, cmd.uid, ms[cmd.room][cmd.uid]>> \in HeldBy(ms, cmd)
    BY <1>3, <2>1, RightIs
  <2>2. ASSUME NEW x \in HeldBy(ms, cmd)
        PROVE  cmd.room \in DOMAIN ms /\ cmd.uid \in DOMAIN ms[cmd.room]
    BY <1>3, <2>2, RightsAre
  <2> QED
    BY <2>1, <2>2
<1>5. CASE ~(cmd.room \in DOMAIN ms /\ cmd.uid \in DOMAIN ms[cmd.room])
  <2>1. done.ok = FALSE /\ done.meetings = ms
    BY <1>1, <1>2, <1>5 DEF UserDel
  <2> HIDE DEF done
  <2>2. Registry!Served(Seen(ms, answers), cmd)
          = [rooms |-> DOMAIN ms, rights |-> RightsOf(ms),
             answers |-> Append(answers, "FAIL")]
    BY <1>4, <1>5 DEF Seen, Registry!Served, HeldBy, HasKeys
  <2>3. Seen(done.meetings, Append(answers, Told(done.ok)))
          = Registry!Served(Seen(ms, answers), cmd)
    BY <2>1, <2>2 DEF Seen, Told
  <2> QED
    BY <2>1, <2>3 DEF done
<1>6. CASE cmd.room \in DOMAIN ms /\ cmd.uid \in DOMAIN ms[cmd.room]
  <2> DEFINE t == Without(ms[cmd.room], cmd.uid)
  <2>1. done.ok = TRUE /\ done.meetings = With(ms, cmd.room, t)
    BY <1>1, <1>2, <1>6 DEF UserDel
  <2>3. ms[cmd.room] \in Tables
    BY <1>6, RegistryIs
  <2>4. /\ t \in Tables
        /\ DOMAIN t = DOMAIN ms[cmd.room] \ {cmd.uid}
        /\ \A k \in DOMAIN ms[cmd.room] : k # cmd.uid => t[k] = ms[cmd.room][k]
    BY <2>3, TableWithout
  <2> HIDE DEF done, t
  <2>5. /\ With(ms, cmd.room, t) \in Registries
        /\ DOMAIN With(ms, cmd.room, t) = DOMAIN ms
        /\ RightsOf(With(ms, cmd.room, t))
             = {x \in RightsOf(ms) : ~(x[1] = cmd.room /\ x[2] = cmd.uid)}
                 \cup {<<cmd.room, u, t[u]>> : u \in DOMAIN t \cap {cmd.uid}}
    <3>1. DifferAt(cmd.uid, ms[cmd.room], t)
      BY <2>4 DEF DifferAt
    <3> QED
      BY <1>6, <2>4, <3>1, RightsOfTable
  <2>6. {<<cmd.room, u, t[u]>> : u \in DOMAIN t \cap {cmd.uid}} = {}
    BY <2>4
  <2>7. {x \in RightsOf(ms) : ~(x[1] = cmd.room /\ x[2] = cmd.uid)}
          = RightsOf(ms) \ HeldBy(ms, cmd)
    BY <1>3
  <2>8. RightsOf(done.meetings) = RightsOf(ms) \ HeldBy(ms, cmd)
    BY <2>1, <2>5, <2>6, <2>7
  <2>9. Registry!Served(Seen(ms, answers), cmd)
          = [rooms |-> DOMAIN ms, rights |-> RightsOf(ms) \ HeldBy(ms, cmd),
             answers |-> Append(answers, "SUCCESS")]
    BY <1>4, <1>6 DEF Seen, Registry!Served, HeldBy, HasKeys
  <2>10. Seen(done.meetings, Append(answers, Told(done.ok)))
           = Registry!Served(Seen(ms, answers), cmd)
    BY <2>1, <2>5, <2>8, <2>9 DEF Seen, Told
  <2> QED
    BY <2>1, <2>5, <2>10 DEF done
<1> QED
  BY <1>5, <1>6

\* Each command does, and is answered by its outcome.
LEMMA CommandServes ==
  ASSUME NEW ms \in Registries, NEW cmd \in EncreCommands, NEW answers
  PROVE  LET done == ProcessInvokeCommand(ms, cmd)
         IN  /\ done.meetings \in Registries
             /\ Seen(done.meetings, Append(answers, Told(done.ok)))
                  = Registry!Served(Seen(ms, answers), cmd)
<1>1. CASE cmd.do \in {"meeting.new", "meeting.del", "user.new", "user.del"}
  BY <1>1, MeetingNewServes, MeetingDelServes, UserNewServes, UserDelServes
<1>2. CASE cmd.do \in {"stream.mute", "stream.record"}
  BY <1>2 DEF ProcessInvokeCommand, Seen, Told, Registry!Served
<1>3. CASE cmd.do \in {"stream.new", "long"}
  BY <1>3 DEF ProcessInvokeCommand, Seen, Told, Registry!Served
<1> QED
  BY <1>1, <1>2, <1>3, CommandIs

-----------------------------------------------------------------------------
(* The commands, one after another *)

\* What a command is answered, and what the connector may see.
Outcomes == {"SUCCESS", "FAIL"}
Sights == {Seen(ms, answers) : ms \in Registries, answers \in Seq(Outcomes)}

\* A command makes of what the connector sees something it may see.
LEMMA ServedSeen ==
  ASSUME NEW s \in Sights, NEW cmd \in EncreCommands
  PROVE  Registry!Served(s, cmd) \in Sights
<1>1. PICK ms \in Registries, answers \in Seq(Outcomes) : s = Seen(ms, answers)
  BY DEF Sights
<1> DEFINE done == ProcessInvokeCommand(ms, cmd)
           more == Append(answers, Told(done.ok))
<1>2. more \in Seq(Outcomes)
  <2>1. Told(done.ok) \in Outcomes
    BY DEF Told, Outcomes
  <2> HIDE DEF done
  <2> QED
    BY <2>1
<1>3. /\ done.meetings \in Registries
      /\ Seen(done.meetings, more) = Registry!Served(Seen(ms, answers), cmd)
  BY CommandServes
<1> HIDE DEF done, more
<1> QED
  BY <1>1, <1>2, <1>3 DEF Sights

\* What is done of the commands of a controller, one by one.
LEMMA DoneIs ==
  ASSUME NEW c \in Clis, NEW cs \in Seq(EncreCommands), cs = Undelivered(wire[c]),
         meetings \in Registries, Answers(cli[c].out) \in Seq(Outcomes)
  PROVE  \A k \in 0 .. Len(cs) :
           Registry!Done(c, k) = IF k = 0 THEN Seen(meetings, Answers(cli[c].out))
                                 ELSE Registry!Served(Registry!Done(c, k - 1), cs[k])
<1> DEFINE N == Len(cs)
           b == Seen(meetings, Answers(cli[c].out))
           G == [p \in Sights \X (1 .. N) |-> Registry!Served(p[1], cs[p[2]])]
<1>1. /\ N \in Nat /\ \A k \in 1 .. N : cs[k] \in EncreCommands
      /\ b \in Sights
  BY DEF Sights
<1>2. G \in [Sights \X (1 .. N) -> Sights]
  <2> HIDE DEF N
  <2> QED
    BY <1>1, ServedSeen
<1>3. PICK F : Recursive(F, N, Sights, b, G)
  <2> HIDE DEF G, N, b
  <2> QED
    BY <1>1, <1>2, Recursion
<1>4. F \in [0 .. N -> Sights]
      /\ F[0] = b /\ \A i \in 1 .. N : F[i] = G[<<F[i - 1], i>>]
  <2> HIDE DEF G, N, b
  <2> QED
    BY <1>3 DEF Recursive
<1>5. ASSUME NEW i \in 1 .. N
      PROVE  F[i] = Registry!Served(F[i - 1], cs[i])
  <2>1. F[i] = G[<<F[i - 1], i>>]
    <3> HIDE DEF G, N, b
    <3> QED BY <1>4
  <2>2. F[i - 1] \in Sights
    <3> HIDE DEF G, N, b
    <3> QED BY <1>1, <1>4
  <2> HIDE DEF N
  <2> QED
    BY <2>1, <2>2
<1>6. ASSUME NEW k \in 0 .. N
      PROVE  Registry!Done(c, k) = F[k]
  <2> DEFINE Unfolds(g) ==
               g = [i \in 0 .. k |->
                      IF i > 0
                      THEN Registry!Served(g[i - 1], [d \in Clis |-> Undelivered(wire[d])][c][i])
                      ELSE [rooms |-> DOMAIN meetings, rights |-> RightsOf(meetings),
                            answers |-> [d \in Clis |-> Answers(cli[d].out)][c]]]
             H == CHOOSE g : Unfolds(g)
  <2>1. Registry!Done(c, k) = H[k]
    BY DEF Registry!Done
  <2>2. [d \in Clis |-> Undelivered(wire[d])][c] = cs
    OBVIOUS
  <2>3. [rooms |-> DOMAIN meetings, rights |-> RightsOf(meetings),
         answers |-> [d \in Clis |-> Answers(cli[d].out)][c]] = b
    BY DEF Seen
  <2> HIDE DEF b, N, G
  <2>4. ASSUME NEW g, g = [i \in 0 .. k |-> g[i]],
               \A i \in 0 .. k :
                 g[i] = IF i > 0 THEN Registry!Served(g[i - 1], cs[i]) ELSE b
        PROVE  Unfolds(g)
    BY <2>2, <2>3, <2>4
  <2>5. ASSUME NEW g, Unfolds(g)
        PROVE  \A i \in 0 .. k :
                 g[i] = IF i > 0 THEN Registry!Served(g[i - 1], cs[i]) ELSE b
    BY <2>2, <2>3, <2>5
  <2> DEFINE h == [i \in 0 .. k |-> F[i]]
  <2>6. ASSUME NEW i \in 0 .. k
        PROVE  h[i] = IF i > 0 THEN Registry!Served(h[i - 1], cs[i]) ELSE b
    <3>1. h[i] = F[i] /\ (i > 0 => h[i - 1] = F[i - 1] /\ i \in 1 .. N)
      BY <1>1
    <3> HIDE DEF h
    <3> QED
      BY <1>4, <1>5, <3>1
  <2>7. h = [i \in 0 .. k |-> h[i]]
    OBVIOUS
  <2> HIDE DEF h, Unfolds
  <2>8. Unfolds(h)
    BY <2>4, <2>6, <2>7
  <2>9. Unfolds(H)
    BY <2>8
  <2> HIDE DEF H
  <2>10. \A i \in 0 .. k : H[i] = IF i > 0 THEN Registry!Served(H[i - 1], cs[i]) ELSE b
    BY <2>5, <2>9
  <2> DEFINE S == {i \in 0 .. k : H[i] = F[i]}
  <2>11. 0 \in S
    BY <1>1, <1>4, <2>10
  <2>12. ASSUME NEW i \in 0 .. k - 1, i \in S
         PROVE  i + 1 \in S
    <3>1. /\ i + 1 \in 0 .. k /\ i + 1 > 0 /\ (i + 1) - 1 = i /\ i + 1 \in 1 .. N
      BY <1>1
    <3>2. H[i + 1] = Registry!Served(H[i], cs[i + 1])
      BY <2>10, <3>1
    <3>3. F[i + 1] = Registry!Served(F[i], cs[i + 1])
      BY <1>5, <3>1
    <3>4. H[i] = F[i]
      BY <2>12
    <3> QED
      BY <3>1, <3>2, <3>3, <3>4
  <2>13. k \in S
    <3>1. \A i \in 0 .. k - 1 : i \in S => i + 1 \in S
      BY <2>12
    <3>2. k \in Nat /\ k \in 0 .. k
      BY <1>1
    <3> HIDE DEF S
    <3> QED
      BY <2>11, <3>1, <3>2, UpTo
  <2> QED
    BY <2>1, <2>13
<1> QED
  <2> SUFFICES ASSUME NEW k \in 0 .. N
      PROVE  Registry!Done(c, k) = IF k = 0 THEN b
                                   ELSE Registry!Served(Registry!Done(c, k - 1), cs[k])
    OBVIOUS
  <2> HIDE DEF b, N
  <2>1. k # 0 => k \in 1 .. N /\ k - 1 \in 0 .. N
    BY <1>1
  <2> QED
    BY <1>4, <1>5, <1>6, <2>1

-----------------------------------------------------------------------------
(* The walk over the bytes *)

\* What the walk carries.
Walks == [command : Seq(Symbols), unread : Seq(Symbols), failed : BOOLEAN,
          meetings : Registries, out : Seq(Messages)]

\* The walk keeps the types of what it carries.
LEMMA ParseIs ==
  ASSUME NEW w \in Walks, NEW x \in Symbols
  PROVE  /\ ParseSymbol(w, x) \in Walks
         /\ w.failed => ParseSymbol(w, x) = w
         /\ ~w.failed /\ ~IsEnd(x) =>
              /\ ParseSymbol(w, x).command = Append(w.command, x)
              /\ ParseSymbol(w, x).unread = Append(w.unread, x)
              /\ ParseSymbol(w, x).meetings = w.meetings
              /\ ParseSymbol(w, x).out = w.out
         /\ ~w.failed /\ IsEnd(x) =>
              /\ ParseSymbol(w, x).command = <<>>
              /\ ParseSymbol(w, x).unread = <<x>>
              /\ ~ParseSymbol(w, x).failed
              /\ w.command = <<>> =>
                   ParseSymbol(w, x).meetings = w.meetings /\ ParseSymbol(w, x).out = w.out
              /\ w.command # <<>> =>
                   LET done == ProcessInvokeCommand(w.meetings, w.command[1].of)
                   IN  /\ ParseSymbol(w, x).meetings = done.meetings
                       /\ ParseSymbol(w, x).out = Append(w.out, Answer(done.ok))
<1>1. /\ w.command \in Seq(Symbols) /\ w.unread \in Seq(Symbols) /\ w.failed \in BOOLEAN
      /\ w.meetings \in Registries /\ w.out \in Seq(Messages)
  BY DEF Walks
<1>2. CASE w.failed
  BY <1>2 DEF ParseSymbol
<1>3. CASE ~w.failed /\ ~IsEnd(x)
  <2>1. ParseSymbol(w, x) =
          [w EXCEPT !.command = Append(@, x), !.unread = Append(@, x),
                    !.failed = Len(w.command) + 1 >= MaxCommandLength]
    BY <1>3 DEF ParseSymbol
  <2>2. (Len(w.command) + 1 >= MaxCommandLength) \in BOOLEAN
    <3> DEFINE a == Len(w.command) + 1
    <3>1. a \in Nat
      BY <1>1
    <3>2. CASE a >= MaxCommandLength
      BY <3>2
    <3>3. CASE ~(a >= MaxCommandLength)
      BY <3>3
    <3> QED
      BY <3>2, <3>3
  <2>3. Append(w.command, x) \in Seq(Symbols) /\ Append(w.unread, x) \in Seq(Symbols)
    BY <1>1
  <2> QED
    BY <1>1, <1>3, <2>1, <2>2, <2>3 DEF Walks
<1>4. CASE ~w.failed /\ IsEnd(x) /\ w.command = <<>>
  <2>1. ParseSymbol(w, x) = [w EXCEPT !.unread = <<x>>]
    BY <1>4 DEF ParseSymbol
  <2> QED
    <3>1. <<x>> \in Seq(Symbols)
      OBVIOUS
    <3>2. w = [command |-> w.command, unread |-> w.unread, failed |-> w.failed,
               meetings |-> w.meetings, out |-> w.out]
      BY DEF Walks
    <3>3. ParseSymbol(w, x)
            = [command |-> w.command, unread |-> <<x>>, failed |-> w.failed,
               meetings |-> w.meetings, out |-> w.out]
      BY <2>1, <3>2
    <3>4. ParseSymbol(w, x) \in Walks
      BY <1>1, <3>1, <3>3 DEF Walks
    <3> QED
      BY <1>1, <1>4, <3>3, <3>4
<1>5. CASE ~w.failed /\ IsEnd(x) /\ w.command # <<>>
  <2> DEFINE done == ProcessInvokeCommand(w.meetings, w.command[1].of)
             more == Append(w.out, Answer(done.ok))
  <2>1. Head(w.command) = w.command[1] /\ w.command[1] \in Symbols
    BY <1>1, <1>5
  <2>2. w.command[1].of \in EncreCommands
    BY <2>1 DEF Symbols
  <2>3. done.meetings \in Registries
    BY <1>1, <2>2, CommandServes
  <2>4. more \in Seq(Messages)
    <3>1. Answer(done.ok) \in Messages
      BY DEF Answer, Messages
    <3> QED
      BY <1>1, <3>1
  <2>5. ParseSymbol(w, x) = [w EXCEPT !.command = <<>>, !.unread = <<x>>,
                                      !.meetings = done.meetings, !.out = more]
    BY <1>5, <2>1 DEF ParseSymbol
  <2> HIDE DEF done, more
  <2>6. /\ ParseSymbol(w, x) \in Walks
        /\ ParseSymbol(w, x).command = <<>>
        /\ ParseSymbol(w, x).unread = <<x>>
        /\ ~ParseSymbol(w, x).failed
        /\ ParseSymbol(w, x).meetings = done.meetings
        /\ ParseSymbol(w, x).out = more
    <3>1. <<x>> \in Seq(Symbols) /\ <<>> \in Seq(Symbols)
      OBVIOUS
    <3>2. w = [command |-> w.command, unread |-> w.unread, failed |-> w.failed,
               meetings |-> w.meetings, out |-> w.out]
      BY DEF Walks
    <3>3. ParseSymbol(w, x)
            = [command |-> <<>>, unread |-> <<x>>, failed |-> w.failed,
               meetings |-> done.meetings, out |-> more]
      BY <2>5, <3>2
    <3>4. ParseSymbol(w, x) \in Walks
      BY <1>1, <2>3, <2>4, <3>1, <3>3 DEF Walks
    <3> QED
      BY <1>5, <3>3, <3>4
  <2> QED
    BY <1>5, <2>6 DEF done, more
<1> QED
  BY <1>1, <1>2, <1>3, <1>4, <1>5

\* The walk, a symbol at a time.
IsWalk(W, n, input, first) ==
  /\ W[0] = first
  /\ \A i \in 0 .. n : W[i] \in Walks
  /\ \A i \in 1 .. n : W[i] = ParseSymbol(W[i - 1], input[i])

\* Parse is the end of a walk, a symbol at a time.
LEMMA WalkIs ==
  ASSUME NEW c, NEW arrived, NEW input \in Seq(Symbols),
         input = cli[c].unread \o arrived,
         meetings \in Registries, cli[c].out \in Seq(Messages)
  PROVE  \E W : /\ IsWalk(W, Len(input), input,
                     [command |-> <<>>, unread |-> <<>>, failed |-> FALSE,
                      meetings |-> meetings, out |-> cli[c].out])
                /\ Parse(c, arrived) = W[Len(input)]
<1> DEFINE N == Len(input)
           b == [command |-> <<>>, unread |-> <<>>, failed |-> FALSE,
                 meetings |-> meetings, out |-> cli[c].out]
           G == [p \in Walks \X (1 .. N) |-> ParseSymbol(p[1], input[p[2]])]
<1>1. /\ N \in Nat /\ \A k \in 1 .. N : input[k] \in Symbols
      /\ b \in Walks
  <2>1. <<>> \in Seq(Symbols) /\ FALSE \in BOOLEAN
    OBVIOUS
  <2>2. b \in Walks
    BY <2>1 DEF Walks
  <2> QED
    BY <2>2
<1>2. G \in [Walks \X (1 .. N) -> Walks]
  <2> HIDE DEF N
  <2> QED
    BY <1>1, ParseIs
<1>3. PICK F : Recursive(F, N, Walks, b, G)
  <2> HIDE DEF G, N, b
  <2> QED
    BY <1>1, <1>2, Recursion
<1>4. F \in [0 .. N -> Walks]
      /\ F[0] = b /\ \A i \in 1 .. N : F[i] = G[<<F[i - 1], i>>]
  <2> HIDE DEF G, N, b
  <2> QED
    BY <1>3 DEF Recursive
<1>5. ASSUME NEW i \in 1 .. N
      PROVE  F[i] = ParseSymbol(F[i - 1], input[i])
  <2>1. F[i] = G[<<F[i - 1], i>>]
    <3> HIDE DEF G, N, b
    <3> QED BY <1>4
  <2>2. F[i - 1] \in Walks
    <3> HIDE DEF G, N, b
    <3> QED BY <1>1, <1>4
  <2> HIDE DEF N
  <2> QED
    BY <2>1, <2>2
<1>6. Parse(c, arrived) = F[N]
  <2> DEFINE Unfolds(g) ==
               g = [i \in 0 .. Len(cli[c].unread \o arrived) |->
                      IF i > 0
                      THEN ParseSymbol(g[i - 1], (cli[c].unread \o arrived)[i])
                      ELSE b]
             H == CHOOSE g : Unfolds(g)
  <2>1. Parse(c, arrived) = H[N]
    BY DEF Parse
  <2>2. cli[c].unread \o arrived = input /\ Len(cli[c].unread \o arrived) = N
    OBVIOUS
  <2> HIDE DEF b, N, G
  <2>4. ASSUME NEW g, g = [i \in 0 .. N |-> g[i]],
               \A i \in 0 .. N :
                 g[i] = IF i > 0 THEN ParseSymbol(g[i - 1], input[i]) ELSE b
        PROVE  Unfolds(g)
    BY <2>2, <2>4
  <2>5. ASSUME NEW g, Unfolds(g)
        PROVE  \A i \in 0 .. N :
                 g[i] = IF i > 0 THEN ParseSymbol(g[i - 1], input[i]) ELSE b
    BY <2>2, <2>5
  <2> DEFINE h == [i \in 0 .. N |-> F[i]]
  <2>6. ASSUME NEW i \in 0 .. N
        PROVE  h[i] = IF i > 0 THEN ParseSymbol(h[i - 1], input[i]) ELSE b
    <3>1. h[i] = F[i] /\ (i > 0 => h[i - 1] = F[i - 1] /\ i \in 1 .. N)
      BY <1>1
    <3> HIDE DEF h
    <3> QED
      <4>1. CASE i = 0
        BY <1>4, <3>1, <4>1
      <4>2. CASE i # 0
        <5>1. i > 0 /\ h[i] = F[i] /\ h[i - 1] = F[i - 1] /\ i \in 1 .. N
          BY <1>1, <3>1, <4>2
        <5>2. F[i] = ParseSymbol(F[i - 1], input[i])
          BY <1>5, <5>1
        <5> QED
          BY <5>1, <5>2
      <4> QED
        BY <4>1, <4>2
  <2>7. h = [i \in 0 .. N |-> h[i]]
    OBVIOUS
  <2> HIDE DEF h, Unfolds
  <2>8. Unfolds(h)
    BY <2>4, <2>6, <2>7
  <2>9. Unfolds(H)
    BY <2>8
  <2> HIDE DEF H
  <2>10. \A i \in 0 .. N : H[i] = IF i > 0 THEN ParseSymbol(H[i - 1], input[i]) ELSE b
    BY <2>5, <2>9
  <2> DEFINE S == {i \in 0 .. N : H[i] = F[i]}
  <2>11. 0 \in S
    BY <1>1, <1>4, <2>10
  <2>12. ASSUME NEW i \in 0 .. N - 1, i \in S
         PROVE  i + 1 \in S
    <3>1. /\ i + 1 \in 0 .. N /\ i + 1 > 0 /\ (i + 1) - 1 = i /\ i + 1 \in 1 .. N
      BY <1>1
    <3>2. H[i + 1] = ParseSymbol(H[i], input[i + 1])
      BY <2>10, <3>1
    <3>3. F[i + 1] = ParseSymbol(F[i], input[i + 1])
      BY <1>5, <3>1
    <3>4. H[i] = F[i]
      BY <2>12
    <3> QED
      BY <3>1, <3>2, <3>3, <3>4
  <2>13. N \in S
    <3>1. \A i \in 0 .. N - 1 : i \in S => i + 1 \in S
      BY <2>12
    <3>2. N \in 0 .. N
      BY <1>1
    <3> HIDE DEF S
    <3> QED
      BY <1>1, <2>11, <3>1, <3>2, UpTo
  <2> QED
    BY <2>1, <2>13
<1>7. \A i \in 0 .. N : F[i] \in Walks
  <2> HIDE DEF N, b, G
  <2> QED BY <1>4
<1>8. IsWalk(F, N, input, b)
  <2> HIDE DEF N, b, G
  <2> QED BY <1>4, <1>5, <1>7 DEF IsWalk
<1> QED
  BY <1>6, <1>8

-----------------------------------------------------------------------------
(* What is left on a wire, and what was answered *)

\* What the elements of a sequence stand for, one after the other.
At(A, x) == A[x]
Each(A, q) == [i \in DOMAIN q |-> At(A, q[i])]
Gathered(A, q) == FlattenSeq(Each(A, q))

\* The images are in V.
Into(A, D, V) == \A y \in D : At(A, y) \in V

\* The images of the elements of a sequence.
LEMMA EachIs ==
  ASSUME NEW D, NEW V, NEW A, Into(A, D, V), NEW q \in Seq(D)
  PROVE  /\ Each(A, q) \in Seq(V)
         /\ Len(Each(A, q)) = Len(q)
         /\ \A i \in 1 .. Len(q) : Each(A, q)[i] = At(A, q[i])
<1>1. \A i \in 1 .. Len(q) : q[i] \in D
  OBVIOUS
<1> QED
  BY <1>1 DEF Each, Into

\* The image of one element more.
LEMMA EachAppend ==
  ASSUME NEW D, NEW V, NEW A, Into(A, D, V), NEW s \in Seq(D),
         NEW x \in D
  PROVE  Each(A, Append(s, x)) = Append(Each(A, s), At(A, x))
<1>1. /\ Append(s, x) \in Seq(D) /\ At(A, x) \in V
      /\ Len(Append(s, x)) = Len(s) + 1 /\ Len(s) \in Nat
      /\ Append(s, x)[Len(s) + 1] = x
      /\ \A i \in 1 .. Len(s) : Append(s, x)[i] = s[i]
  BY DEF Into
<1>2. /\ Each(A, s) \in Seq(V) /\ Len(Each(A, s)) = Len(s)
      /\ \A i \in 1 .. Len(s) : Each(A, s)[i] = At(A, s[i])
  BY EachIs
<1>3. /\ Each(A, Append(s, x)) \in Seq(V) /\ Len(Each(A, Append(s, x))) = Len(s) + 1
      /\ \A i \in 1 .. Len(s) + 1 : Each(A, Append(s, x))[i] = At(A, Append(s, x)[i])
  <2> DEFINE q == Append(s, x)
  <2>1. q \in Seq(D) /\ Len(q) = Len(s) + 1
    BY <1>1
  <2> HIDE DEF q
  <2>2. /\ Each(A, q) \in Seq(V) /\ Len(Each(A, q)) = Len(q)
        /\ \A i \in 1 .. Len(q) : Each(A, q)[i] = At(A, q[i])
    BY <2>1, EachIs
  <2>3. /\ Each(A, q) \in Seq(V) /\ Len(Each(A, q)) = Len(s) + 1
        /\ \A i \in 1 .. Len(s) + 1 : Each(A, q)[i] = At(A, q[i])
    BY <2>1, <2>2
  <2> QED
    BY <2>3 DEF q
<1>4. /\ Append(Each(A, s), At(A, x)) \in Seq(V)
      /\ Len(Append(Each(A, s), At(A, x))) = Len(s) + 1
      /\ Append(Each(A, s), At(A, x))[Len(s) + 1] = At(A, x)
      /\ \A i \in 1 .. Len(s) : Append(Each(A, s), At(A, x))[i] = Each(A, s)[i]
  BY <1>1, <1>2
<1>5. \A i \in 1 .. Len(s) + 1 :
        Each(A, Append(s, x))[i] = Append(Each(A, s), At(A, x))[i]
  <2> TAKE i \in 1 .. Len(s) + 1
  <2>1. CASE i = Len(s) + 1
    BY <1>1, <1>3, <1>4, <2>1
  <2>2. CASE i # Len(s) + 1
    <3>1. i \in 1 .. Len(s)
      BY <1>1, <2>2
    <3> QED
      BY <1>1, <1>2, <1>3, <1>4, <3>1
  <2> QED
    BY <2>1, <2>2
<1> QED
  BY <1>3, <1>4, <1>5, SeqEqual

\* The images of one sequence after another.
LEMMA EachConcat ==
  ASSUME NEW D, NEW V, NEW A, Into(A, D, V), NEW s \in Seq(D),
         NEW t \in Seq(D)
  PROVE  Each(A, s \o t) = Each(A, s) \o Each(A, t)
<1>1. /\ s \o t \in Seq(D) /\ Len(s) \in Nat /\ Len(t) \in Nat
      /\ Len(s \o t) = Len(s) + Len(t)
      /\ \A i \in 1 .. Len(s) : (s \o t)[i] = s[i]
      /\ \A i \in 1 .. Len(t) : (s \o t)[Len(s) + i] = t[i]
  OBVIOUS
<1>2. /\ Each(A, s) \in Seq(V) /\ Len(Each(A, s)) = Len(s)
      /\ \A i \in 1 .. Len(s) : Each(A, s)[i] = At(A, s[i])
  BY EachIs
<1>3. /\ Each(A, t) \in Seq(V) /\ Len(Each(A, t)) = Len(t)
      /\ \A i \in 1 .. Len(t) : Each(A, t)[i] = At(A, t[i])
  BY EachIs
<1>4. /\ Each(A, s \o t) \in Seq(V) /\ Len(Each(A, s \o t)) = Len(s) + Len(t)
      /\ \A i \in 1 .. Len(s) + Len(t) : Each(A, s \o t)[i] = At(A, (s \o t)[i])
  <2> DEFINE q == s \o t
  <2>1. q \in Seq(D) /\ Len(q) = Len(s) + Len(t)
    BY <1>1
  <2> HIDE DEF q
  <2>2. /\ Each(A, q) \in Seq(V) /\ Len(Each(A, q)) = Len(q)
        /\ \A i \in 1 .. Len(q) : Each(A, q)[i] = At(A, q[i])
    BY <2>1, EachIs
  <2>3. /\ Each(A, q) \in Seq(V) /\ Len(Each(A, q)) = Len(s) + Len(t)
        /\ \A i \in 1 .. Len(s) + Len(t) : Each(A, q)[i] = At(A, q[i])
    BY <2>1, <2>2
  <2> QED
    BY <2>3 DEF q
<1>5. /\ Each(A, s) \o Each(A, t) \in Seq(V)
      /\ Len(Each(A, s) \o Each(A, t)) = Len(s) + Len(t)
      /\ \A i \in 1 .. Len(s) : (Each(A, s) \o Each(A, t))[i] = Each(A, s)[i]
      /\ \A i \in 1 .. Len(t) :
           (Each(A, s) \o Each(A, t))[Len(s) + i] = Each(A, t)[i]
  <2> DEFINE a == Each(A, s)
             b == Each(A, t)
  <2>1. a \in Seq(V) /\ b \in Seq(V) /\ Len(a) = Len(s) /\ Len(b) = Len(t)
    BY <1>2, <1>3
  <2> HIDE DEF a, b
  <2>2. /\ a \o b \in Seq(V) /\ Len(a \o b) = Len(a) + Len(b)
        /\ \A i \in 1 .. Len(a) : (a \o b)[i] = a[i]
        /\ \A i \in 1 .. Len(b) : (a \o b)[Len(a) + i] = b[i]
    <3>1. a \in Seq(V) /\ b \in Seq(V)
      BY <2>1
    <3>2. a \o b \in Seq(V) /\ Len(a \o b) = Len(a) + Len(b)
      BY <3>1
    <3>3. \A i \in 1 .. Len(a) : (a \o b)[i] = a[i]
      BY <3>1
    <3>4. \A i \in 1 .. Len(b) : (a \o b)[Len(a) + i] = b[i]
      BY <3>1
    <3> QED
      BY <3>2, <3>3, <3>4
  <2> QED
    BY <2>1, <2>2 DEF a, b
<1>6. \A i \in 1 .. Len(s) + Len(t) :
        Each(A, s \o t)[i] = (Each(A, s) \o Each(A, t))[i]
  <2> TAKE i \in 1 .. Len(s) + Len(t)
  <2>1. CASE i \in 1 .. Len(s)
    BY <1>1, <1>2, <1>4, <1>5, <2>1
  <2>2. CASE i \notin 1 .. Len(s)
    <3>1. i - Len(s) \in 1 .. Len(t) /\ i = Len(s) + (i - Len(s))
      BY <1>1, <2>2
    <3>2. /\ (s \o t)[i] = t[i - Len(s)]
          /\ (Each(A, s) \o Each(A, t))[i] = Each(A, t)[i - Len(s)]
      BY <1>1, <1>5, <3>1
    <3> QED
      BY <1>3, <1>4, <3>1, <3>2
  <2> QED
    BY <2>1, <2>2
<1> QED
  BY <1>4, <1>5, <1>6, SeqEqual

\* What is gathered of one element more.
LEMMA GatheredAppend ==
  ASSUME NEW D, NEW T, NEW A, Into(A, D, Seq(T)), NEW s \in Seq(D),
         NEW x \in D
  PROVE  Gathered(A, Append(s, x)) = Gathered(A, s) \o At(A, x)
<1> DEFINE V == Seq(T)
<1>1. Into(A, D, V)
  OBVIOUS
<1> HIDE DEF V
<1>2. /\ Each(A, Append(s, x)) = Append(Each(A, s), At(A, x))
      /\ Each(A, s) \in Seq(V) /\ At(A, x) \in V
  <2>1. Each(A, Append(s, x)) = Append(Each(A, s), At(A, x))
    BY <1>1, EachAppend
  <2>2. Each(A, s) \in Seq(V)
    BY <1>1, EachIs
  <2>3. At(A, x) \in V
    BY <1>1 DEF Into
  <2> QED
    BY <2>1, <2>2, <2>3
<1> USE DEF V
<1>3. FlattenSeq(Append(Each(A, s), At(A, x))) = FlattenSeq(Each(A, s)) \o At(A, x)
  BY <1>2, FlattenAppend
<1> QED
  BY <1>2, <1>3 DEF Gathered

\* What is gathered of one sequence after another.
LEMMA GatheredConcat ==
  ASSUME NEW D, NEW T, NEW A, Into(A, D, Seq(T)), NEW s \in Seq(D),
         NEW t \in Seq(D)
  PROVE  /\ Gathered(A, s) \in Seq(T)
         /\ Gathered(A, s \o t) = Gathered(A, s) \o Gathered(A, t)
<1> DEFINE V == Seq(T)
<1>1. Into(A, D, V)
  OBVIOUS
<1> HIDE DEF V
<1>2. /\ Each(A, s \o t) = Each(A, s) \o Each(A, t)
      /\ Each(A, s) \in Seq(V) /\ Each(A, t) \in Seq(V)
  BY <1>1, EachIs, EachConcat
<1> USE DEF V
<1>3. FlattenSeq(Each(A, s) \o Each(A, t)) = FlattenSeq(Each(A, s)) \o FlattenSeq(Each(A, t))
  BY <1>2, FlattenConcat
<1>4. FlattenSeq(Each(A, s)) \in Seq(T)
  <2>1. <<>> \in Seq(T)
    OBVIOUS
  <2> QED
    BY <1>2, <2>1, FlattenAppend
<1> QED
  BY <1>2, <1>3, <1>4 DEF Gathered

\* The commands on a wire are gathered from its symbols.
LEMMA UndeliveredGathers ==
  LET A == [y \in Symbols |-> Asks(y)]
  IN  /\ Into(A, Symbols, Seq(EncreCommands)) /\ \A y \in Symbols : At(A, y) = Asks(y)
      /\ \A q \in Seq(Symbols) : Undelivered(q) = Gathered(A, q)
<1> DEFINE A == [y \in Symbols |-> Asks(y)]
<1>1. ASSUME NEW y \in Symbols
      PROVE  At(A, y) \in Seq(EncreCommands) /\ At(A, y) = Asks(y)
  BY DEF Asks, Symbols, At
<1>2. ASSUME NEW q \in Seq(Symbols)
      PROVE  Undelivered(q) = Gathered(A, q)
  <2>1. \A i \in DOMAIN q : q[i] \in Symbols
    OBVIOUS
  <2> HIDE DEF A
  <2>2. [i \in DOMAIN q |-> Asks(q[i])] = [i \in DOMAIN q |-> At(A, q[i])]
    BY <1>1, <2>1
  <2> QED
    BY <2>2 DEF Undelivered, Gathered, Each
<1> QED
  BY <1>1, <1>2 DEF Into

\* A symbol more asks what it asks.
LEMMA UndeliveredAppend ==
  ASSUME NEW s \in Seq(Symbols), NEW x \in Symbols
  PROVE  Undelivered(Append(s, x)) = Undelivered(s) \o Asks(x)
<1> DEFINE A == [y \in Symbols |-> Asks(y)]
<1>1. Append(s, x) \in Seq(Symbols)
  OBVIOUS
<1>2. /\ Into(A, Symbols, Seq(EncreCommands)) /\ \A y \in Symbols : At(A, y) = Asks(y)
      /\ \A q \in Seq(Symbols) : Undelivered(q) = Gathered(A, q)
  BY UndeliveredGathers
<1> HIDE DEF A
<1>3. Gathered(A, Append(s, x)) = Gathered(A, s) \o At(A, x)
  BY <1>2, GatheredAppend
<1> QED
  BY <1>1, <1>2, <1>3

\* The commands of one piece of text after another.
LEMMA UndeliveredConcat ==
  ASSUME NEW s \in Seq(Symbols), NEW t \in Seq(Symbols)
  PROVE  /\ Undelivered(s) \in Seq(EncreCommands)
         /\ Undelivered(s \o t) = Undelivered(s) \o Undelivered(t)
<1> DEFINE A == [y \in Symbols |-> Asks(y)]
<1>1. s \o t \in Seq(Symbols)
  OBVIOUS
<1>2. /\ Into(A, Symbols, Seq(EncreCommands)) /\ \A y \in Symbols : At(A, y) = Asks(y)
      /\ \A q \in Seq(Symbols) : Undelivered(q) = Gathered(A, q)
  BY UndeliveredGathers
<1> HIDE DEF A
<1>3. /\ Gathered(A, s) \in Seq(EncreCommands)
      /\ Gathered(A, s \o t) = Gathered(A, s) \o Gathered(A, t)
  BY <1>2, GatheredConcat
<1> QED
  BY <1>1, <1>2, <1>3

\* The answers to a controller are gathered from the messages.
LEMMA AnswersGather ==
  LET A == [y \in Messages |-> Says(y)]
  IN  /\ Into(A, Messages, Seq(Outcomes)) /\ \A y \in Messages : At(A, y) = Says(y)
      /\ \A q \in Seq(Messages) : Answers(q) = Gathered(A, q)
<1> DEFINE A == [y \in Messages |-> Says(y)]
<1>1. ASSUME NEW y \in Messages
      PROVE  At(A, y) \in Seq(Outcomes) /\ At(A, y) = Says(y)
  <2>1. y.status \in {"SUCCESS", "FAIL", "EVENT"}
    BY DEF Messages
  <2>2. Says(y) \in Seq(Outcomes)
    <3>1. CASE y.status = "EVENT"
      BY <3>1 DEF Says
    <3>2. CASE y.status \in Outcomes /\ y.status # "EVENT"
      BY <3>2 DEF Says
    <3> QED
      BY <2>1, <3>1, <3>2 DEF Outcomes
  <2>3. At(A, y) = Says(y)
    BY DEF At
  <2> QED
    BY <2>2, <2>3
<1>2. ASSUME NEW q \in Seq(Messages)
      PROVE  Answers(q) = Gathered(A, q)
  <2>1. \A i \in DOMAIN q : q[i] \in Messages
    OBVIOUS
  <2> HIDE DEF A
  <2>2. [i \in DOMAIN q |-> Says(q[i])] = [i \in DOMAIN q |-> At(A, q[i])]
    BY <1>1, <2>1
  <2> QED
    BY <2>2 DEF Answers, Gathered, Each
<1> QED
  BY <1>1, <1>2 DEF Into

\* A message more says what it says.
LEMMA AnswersAppend ==
  ASSUME NEW s \in Seq(Messages), NEW x \in Messages
  PROVE  Answers(Append(s, x)) = Answers(s) \o Says(x)
<1> DEFINE A == [y \in Messages |-> Says(y)]
<1>1. Append(s, x) \in Seq(Messages)
  OBVIOUS
<1>2. /\ Into(A, Messages, Seq(Outcomes)) /\ \A y \in Messages : At(A, y) = Says(y)
      /\ \A q \in Seq(Messages) : Answers(q) = Gathered(A, q)
  BY AnswersGather
<1> HIDE DEF A
<1>3. Gathered(A, Append(s, x)) = Gathered(A, s) \o At(A, x)
  BY <1>2, GatheredAppend
<1> QED
  BY <1>1, <1>2, <1>3

\* The answers of some messages after others.
LEMMA AnswersConcat ==
  ASSUME NEW s \in Seq(Messages), NEW t \in Seq(Messages)
  PROVE  /\ Answers(s) \in Seq(Outcomes)
         /\ Answers(s \o t) = Answers(s) \o Answers(t)
<1> DEFINE A == [y \in Messages |-> Says(y)]
<1>1. s \o t \in Seq(Messages)
  OBVIOUS
<1>2. /\ Into(A, Messages, Seq(Outcomes)) /\ \A y \in Messages : At(A, y) = Says(y)
      /\ \A q \in Seq(Messages) : Answers(q) = Gathered(A, q)
  BY AnswersGather
<1> HIDE DEF A
<1>3. /\ Gathered(A, s) \in Seq(Outcomes)
      /\ Gathered(A, s \o t) = Gathered(A, s) \o Gathered(A, t)
  BY <1>2, GatheredConcat
<1> QED
  BY <1>1, <1>2, <1>3

\* An empty wire asks nothing and no message says nothing.
LEMMA NothingGathered == Undelivered(<<>>) = <<>> /\ Answers(<<>>) = <<>>
<1>1. [i \in DOMAIN <<>> |-> Asks(<<>>[i])] = <<>> /\ [i \in DOMAIN <<>> |-> Says(<<>>[i])] = <<>>
  OBVIOUS
<1> QED
  BY <1>1, FlattenEmpty DEF Undelivered, Answers

\* The commands of a prefix are a prefix of the commands.
LEMMA PrefixIs ==
  ASSUME NEW s \in Seq(Symbols), NEW j \in 0 .. Len(s)
  PROVE  LET u == Undelivered(SubSeq(s, 1, j))
         IN  /\ u \in Seq(EncreCommands)
             /\ Undelivered(s) \in Seq(EncreCommands)
             /\ Len(u) \in 0 .. Len(Undelivered(s))
             /\ Undelivered(SubSeq(s, j + 1, Len(s)))
                  = SubSeq(Undelivered(s), Len(u) + 1, Len(Undelivered(s)))
             /\ \A i \in 1 .. Len(u) : Undelivered(s)[i] = u[i]
<1> DEFINE p == SubSeq(s, 1, j)
           q == SubSeq(s, j + 1, Len(s))
           u == Undelivered(p)
           v == Undelivered(q)
<1>1. p \in Seq(Symbols) /\ q \in Seq(Symbols) /\ s = p \o q
  <2>1. p \in Seq(Symbols) /\ q \in Seq(Symbols)
    OBVIOUS
  <2>2. /\ Len(p) = j /\ Len(q) = Len(s) - j /\ Len(s) \in Nat
        /\ \A i \in 1 .. j : p[i] = s[i]
        /\ \A i \in 1 .. Len(s) - j : q[i] = s[j + i]
    OBVIOUS
  <2> HIDE DEF p, q
  <2>3. /\ p \o q \in Seq(Symbols) /\ Len(p \o q) = Len(s)
        /\ \A i \in 1 .. j : (p \o q)[i] = s[i]
        /\ \A i \in j + 1 .. Len(s) : (p \o q)[i] = q[i - j]
    BY <2>1, <2>2
  <2>4. \A i \in 1 .. Len(s) : (p \o q)[i] = s[i]
    BY <2>2, <2>3
  <2> QED
    BY <2>1, <2>3, <2>4, SeqEqual
<1> HIDE DEF p, q
<1>2. /\ u \in Seq(EncreCommands) /\ v \in Seq(EncreCommands)
      /\ Undelivered(s) = u \o v
  BY <1>1, UndeliveredConcat
<1> HIDE DEF u, v
<1>3. /\ Len(u) \in 0 .. Len(u \o v)
      /\ v = SubSeq(u \o v, Len(u) + 1, Len(u \o v))
      /\ u \o v \in Seq(EncreCommands)
      /\ \A i \in 1 .. Len(u) : (u \o v)[i] = u[i]
  <2>1. u \o v \in Seq(EncreCommands) /\ Len(u) \in 0 .. Len(u \o v)
    BY <1>2
  <2>2. v = SubSeq(u \o v, Len(u) + 1, Len(u \o v))
    BY <1>2
  <2>3. \A i \in 1 .. Len(u) : (u \o v)[i] = u[i]
    BY <1>2
  <2> QED
    BY <2>1, <2>2, <2>3
<1> QED
  BY <1>2, <1>3 DEF u, v, p, q

-----------------------------------------------------------------------------
(* What the walk carries out *)

\* The commands that the first symbols end.
Delivered(s, j) == Len(Undelivered(SubSeq(s, 1, j)))

\* A line end, and nothing else, delivers a command: its own.
LEMMA DeliveredIs ==
  ASSUME NEW s \in Seq(Symbols), NEW j \in 0 .. Len(s) - 1
  PROVE  /\ IsEnd(s[j + 1]) =>
              /\ Delivered(s, j + 1) = Delivered(s, j) + 1
              /\ Undelivered(s)[Delivered(s, j) + 1] = s[j + 1].of
         /\ ~IsEnd(s[j + 1]) => Delivered(s, j + 1) = Delivered(s, j)
<1> DEFINE p == SubSeq(s, 1, j)
           x == s[j + 1]
           u == Undelivered(p)
<1>1. /\ p \in Seq(Symbols) /\ x \in Symbols
      /\ SubSeq(s, 1, j + 1) = Append(p, x)
      /\ j \in 0 .. Len(s) /\ j + 1 \in 0 .. Len(s)
  OBVIOUS
<1>2. Delivered(s, j) = Len(u)
  BY DEF Delivered
<1>3. u \in Seq(EncreCommands)
  <2> HIDE DEF p
  <2> QED BY <1>1, UndeliveredConcat
<1>4. Undelivered(SubSeq(s, 1, j + 1)) = u \o Asks(x)
  <2> HIDE DEF p, x
  <2> QED BY <1>1, UndeliveredAppend
<1>5. Delivered(s, j + 1) = Len(u \o Asks(x))
  BY <1>4 DEF Delivered
<1>6. \A i \in 1 .. Len(u \o Asks(x)) : Undelivered(s)[i] = (u \o Asks(x))[i]
  <2>1. \A i \in 1 .. Len(Undelivered(SubSeq(s, 1, j + 1))) :
          Undelivered(s)[i] = Undelivered(SubSeq(s, 1, j + 1))[i]
    BY <1>1, PrefixIs
  <2> QED
    BY <1>4, <2>1
<1>7. x.of \in EncreCommands
  BY <1>1 DEF Symbols
<1> HIDE DEF p, x, u
<1>8. CASE IsEnd(x)
  <2>1. Asks(x) = <<x.of>>
    BY <1>8 DEF Asks
  <2>2. /\ Len(u \o <<x.of>>) = Len(u) + 1
        /\ (u \o <<x.of>>)[Len(u) + 1] = x.of
        /\ Len(u) + 1 \in 1 .. Len(u \o <<x.of>>)
    BY <1>3, <1>7
  <2> QED
    BY <1>2, <1>5, <1>6, <1>8, <2>1, <2>2 DEF x
<1>9. CASE ~IsEnd(x)
  <2>1. Asks(x) = <<>>
    BY <1>9 DEF Asks
  <2>2. Len(u \o <<>>) = Len(u)
    BY <1>3
  <2> QED
    BY <1>2, <1>5, <1>9, <2>1, <2>2 DEF x
<1> QED
  BY <1>8, <1>9

\* The commands carried out once i bytes are read.
Progress(c, i) ==
  IF i <= Len(cli[c].unread) THEN 0 ELSE Delivered(wire[c], i - Len(cli[c].unread))

\* The walk has carried out the first k commands.
Matches(w, c, k) == Seen(w.meetings, Answers(w.out)) = Registry!Done(c, k)

\* What the walk has kept of the bytes before i.
Keeps(w, i, input) ==
  /\ i = 0 => w.command = <<>> /\ w.unread = <<>>
  /\ i # 0 => /\ w.command = <<>> <=> IsEnd(input[i])
              /\ \A j \in 1 .. Len(w.command) : w.command[j].of = input[i].of
              /\ w.unread # <<>> /\ w.unread[Len(w.unread)] = input[i]
  /\ Chained(w.unread)
  /\ \A j \in 2 .. Len(w.unread) : ~IsEnd(w.unread[j])

\* After i bytes the walk has carried out what was delivered and kept the rest;
\* when it has failed, it has carried out some of the commands.
OnCourse(w, c, i, input) ==
  IF w.failed THEN \E k \in 0 .. Len(Undelivered(wire[c])) : Matches(w, c, k)
  ELSE Keeps(w, i, input) /\ Matches(w, c, Progress(c, i))

\* The bytes that are read: those that were kept and the next n.
IsInput(c, n, input) ==
  LET u == Len(cli[c].unread)
  IN  /\ u \in Nat
      /\ input \in Seq(Symbols) /\ Len(input) = u + n
      /\ \A i \in 1 .. n : input[u + i] = wire[c][i]
      /\ \A i \in 1 .. u + n - 1 : Follows(input[i], input[i + 1])
      /\ \A i \in 2 .. u : ~IsEnd(input[i])
      /\ u = 0 => ~IsEnd(input[1])

\* What a read walks over: the bytes left, whose line end may only be the
\* first of them, and the next ones of the wire.
LEMMA InputIs ==
  ASSUME NEW c \in Clis, ControllerTyped(c), WholeLines(c),
         NEW n \in 1 .. Len(wire[c])
  PROVE  IsInput(c, n, cli[c].unread \o SubSeq(wire[c], 1, n))
<1> DEFINE u == cli[c].unread
           a == SubSeq(wire[c], 1, n)
           s == wire[c]
<1>1. /\ u \in Seq(Symbols) /\ s \in Seq(Symbols) /\ n \in Nat /\ n >= 1 /\ n <= Len(s)
  BY DEF ControllerTyped
<1>2. /\ a \in Seq(Symbols) /\ Len(a) = n /\ \A i \in 1 .. n : a[i] = s[i]
  BY <1>1
<1>3. /\ Chained(u \o s)
      /\ u = <<>> /\ s # <<>> => ~IsEnd(s[1])
      /\ \A i \in 2 .. Len(u) : ~IsEnd(u[i])
  BY DEF WholeLines, Bytes
<1> HIDE DEF u, a, s
<1>4. /\ u \o a \in Seq(Symbols) /\ Len(u \o a) = Len(u) + n
      /\ Len(u) \in Nat
      /\ \A i \in 1 .. Len(u) : (u \o a)[i] = u[i]
      /\ \A i \in 1 .. n : (u \o a)[Len(u) + i] = s[i]
  BY <1>1, <1>2
<1>5. \A i \in 1 .. Len(u) + n : (u \o a)[i] = (u \o s)[i]
  <2> TAKE i \in 1 .. Len(u) + n
  <2>1. CASE i <= Len(u)
    BY <1>1, <1>2, <2>1
  <2>2. CASE i > Len(u)
    BY <1>1, <1>2, <2>2
  <2> QED
    <3>1. i <= Len(u) \/ i > Len(u)
      BY <1>4
    <3> QED
      BY <2>1, <2>2, <3>1, Zenon
<1>6. ASSUME NEW i \in 1 .. Len(u) + n - 1
      PROVE  Follows((u \o a)[i], (u \o a)[i + 1])
  <2>1. i \in 1 .. Len(u \o s) - 1 /\ i \in 1 .. Len(u) + n /\ i + 1 \in 1 .. Len(u) + n
    BY <1>1, <1>4
  <2> QED
    BY <1>3, <1>5, <2>1 DEF Chained
<1>7. Len(u) = 0 => ~IsEnd((u \o a)[1])
  <2> SUFFICES ASSUME Len(u) = 0 PROVE ~IsEnd((u \o a)[1])
    OBVIOUS
  <2>1. u = <<>> /\ s # <<>>
    BY <1>1
  <2>2. (u \o a)[1] = s[1]
    BY <1>1, <1>4
  <2> QED
    BY <1>3, <2>1, <2>2
<1>8. \A i \in 2 .. Len(u) : ~IsEnd((u \o a)[i])
  BY <1>3, <1>4
<1>9. /\ \A i \in 1 .. n : (u \o a)[Len(u) + i] = wire[c][i]
      /\ Len(u) = Len(cli[c].unread)
  BY <1>4 DEF s, u
<1>10. IsInput(c, n, u \o a)
  BY <1>4, <1>6, <1>7, <1>8, <1>9 DEF IsInput
<1> QED
  BY <1>10 DEF u, a

\* The walk sets out on course.
LEMMA FirstByte ==
  ASSUME NEW c \in Clis, ControllerTyped(c), NEW w \in Walks, ~w.failed, w.command = <<>>, w.unread = <<>>,
         Matches(w, c, 0), NEW input
  PROVE  OnCourse(w, c, 0, input)
<1>1. Progress(c, 0) = 0
  <2>1. 0 <= Len(cli[c].unread)
    BY DEF ControllerTyped
  <2> QED
    BY <2>1 DEF Progress
<1>2. Keeps(w, 0, input)
  BY DEF Keeps, Chained
<1> QED
  BY <1>1, <1>2 DEF OnCourse

\* Text is kept, as a part of the command and of what stays in the buffer.
LEMMA TextKept ==
  ASSUME NEW c \in Clis, NEW n \in Nat, NEW input, IsInput(c, n, input),
         NEW i \in 0 .. Len(input) - 1,
         NEW w \in Walks, ~w.failed, Keeps(w, i, input),
         NEW v \in Walks, ~IsEnd(input[i + 1]),
         v.command = Append(w.command, input[i + 1]),
         v.unread = Append(w.unread, input[i + 1])
  PROVE  Keeps(v, i + 1, input)
<1> DEFINE x == input[i + 1]
           u == Len(cli[c].unread)
<1>1. /\ x \in Symbols /\ i + 1 # 0 /\ i \in Nat
      /\ w.command \in Seq(Symbols) /\ w.unread \in Seq(Symbols)
  BY DEF IsInput, Walks
<1>2. i # 0 => Follows(input[i], x)
  <2>1. i # 0 => i \in 1 .. u + n - 1
    BY DEF IsInput
  <2> QED
    BY <2>1 DEF IsInput
<1> HIDE DEF x, u
<1>3. /\ v.command = Append(w.command, x) /\ v.unread = Append(w.unread, x)
      /\ ~IsEnd(x) /\ x = input[i + 1]
  BY DEF x
<1>4. ASSUME NEW j \in 1 .. Len(v.command)
      PROVE  v.command[j].of = x.of
  <2>1. CASE j = Len(w.command) + 1
    BY <1>1, <1>3, <2>1
  <2>2. CASE j # Len(w.command) + 1
    <3>1. j \in 1 .. Len(w.command) /\ v.command[j] = w.command[j]
      BY <1>1, <1>3, <2>2
    <3>2. i # 0 /\ ~IsEnd(input[i])
      BY <1>1, <3>1 DEF Keeps
    <3>3. x.of = input[i].of
      BY <1>2, <3>2 DEF Follows
    <3> QED
      BY <3>1, <3>2, <3>3 DEF Keeps
  <2> QED
    BY <2>1, <2>2
<1>5. v.command # <<>> /\ v.unread # <<>> /\ v.unread[Len(v.unread)] = x
  <2>1. Append(w.command, x) # <<>>
    <3>1. Len(Append(w.command, x)) = Len(w.command) + 1 /\ Len(w.command) \in Nat
      BY <1>1
    <3> QED
      BY <3>1
  <2>2. Append(w.unread, x) # <<>>
    <3>1. Len(Append(w.unread, x)) = Len(w.unread) + 1 /\ Len(w.unread) \in Nat
      BY <1>1
    <3> QED
      BY <3>1
  <2>3. Append(w.unread, x)[Len(Append(w.unread, x))] = x
    BY <1>1
  <2> QED
    BY <1>3, <2>1, <2>2, <2>3
<1>6. ASSUME NEW j \in 1 .. Len(v.unread) - 1
      PROVE  Follows(v.unread[j], v.unread[j + 1])
  <2>1. j \in 1 .. Len(w.unread) /\ v.unread[j] = w.unread[j] /\ Len(w.unread) \in Nat
    BY <1>1, <1>3
  <2>2. CASE j = Len(w.unread)
    <3>1. v.unread[j + 1] = x /\ i # 0 /\ w.unread[j] = input[i]
      BY <1>1, <1>3, <2>1, <2>2 DEF Keeps
    <3> QED
      BY <1>2, <2>1, <3>1
  <2>3. CASE j # Len(w.unread)
    <3>1. j \in 1 .. Len(w.unread) - 1 /\ v.unread[j + 1] = w.unread[j + 1]
      BY <1>1, <1>3, <2>1, <2>3
    <3> QED
      BY <2>1, <3>1 DEF Keeps, Chained
  <2> QED
    BY <2>2, <2>3
<1>7. ASSUME NEW j \in 2 .. Len(v.unread)
      PROVE  ~IsEnd(v.unread[j])
  <2>1. CASE j = Len(w.unread) + 1
    BY <1>1, <1>3, <2>1
  <2>2. CASE j # Len(w.unread) + 1
    <3>1. j \in 2 .. Len(w.unread) /\ v.unread[j] = w.unread[j]
      BY <1>1, <1>3, <2>2
    <3> QED
      BY <3>1 DEF Keeps
  <2> QED
    BY <2>1, <2>2
<1> QED
  BY <1>1, <1>3, <1>4, <1>5, <1>6, <1>7 DEF Keeps, Chained

\* After a line end only the line end is kept.
LEMMA EndKept ==
  ASSUME NEW i \in Nat, NEW input, NEW x \in Symbols, x = input[i + 1], IsEnd(x),
         NEW v \in Walks, v.command = <<>>, v.unread = <<x>>
  PROVE  Keeps(v, i + 1, input)
<1>1. Len(v.unread) = 1 /\ v.unread[1] = x /\ v.unread # <<>> /\ Len(v.command) = 0
  OBVIOUS
<1>2. i + 1 # 0
  OBVIOUS
<1> QED
  BY <1>1, <1>2 DEF Keeps, Chained

\* Only a line end on the wire makes progress.
LEMMA ProgressIs ==
  ASSUME NEW c \in Clis, ControllerTyped(c), NEW n \in 1 .. Len(wire[c]),
         NEW input, IsInput(c, n, input), NEW i \in 0 .. Len(input) - 1
  PROVE  /\ Progress(c, i) \in 0 .. Len(Undelivered(wire[c]))
         /\ ~IsEnd(input[i + 1]) => Progress(c, i + 1) = Progress(c, i)
         /\ IsEnd(input[i + 1]) /\ i + 1 > Len(cli[c].unread) =>
              /\ Progress(c, i) + 1 = Progress(c, i + 1)
              /\ Progress(c, i + 1) \in 0 .. Len(Undelivered(wire[c]))
              /\ Undelivered(wire[c])[Progress(c, i + 1)] = input[i + 1].of
<1> DEFINE u == Len(cli[c].unread)
           s == wire[c]
<1>1. /\ u \in Nat /\ s \in Seq(Symbols) /\ n \in Nat /\ n <= Len(s) /\ Len(input) = u + n
      /\ \A j \in 1 .. n : input[u + j] = s[j]
  BY DEF IsInput, ControllerTyped
<1>2. \A k \in Nat : Progress(c, k) = IF k <= u THEN 0 ELSE Delivered(s, k - u)
  BY DEF Progress
<1>3. \A j \in 0 .. Len(s) : Delivered(s, j) \in 0 .. Len(Undelivered(s))
  BY <1>1, PrefixIs DEF Delivered
<1>4. Delivered(s, 0) = 0
  <2>1. SubSeq(s, 1, 0) = <<>>
    BY <1>1
  <2>2. Len(<<>>) = 0
    OBVIOUS
  <2> QED
    BY <2>1, <2>2, NothingGathered DEF Delivered
<1> HIDE DEF u, s
<1>5. \A k \in u .. u + n : Progress(c, k) = Delivered(s, k - u)
  BY <1>1, <1>2, <1>4
<1>6. Progress(c, i) \in 0 .. Len(Undelivered(s))
  <2>1. CASE i <= u
    <3>1. Progress(c, i) = 0 /\ 0 \in 0 .. Len(s)
      BY <1>1, <1>2, <2>1
    <3> QED
      BY <1>3, <1>4, <3>1
  <2>2. CASE ~(i <= u)
    <3>1. Progress(c, i) = Delivered(s, i - u) /\ i - u \in 0 .. Len(s)
      BY <1>1, <1>2, <2>2
    <3> QED
      BY <1>3, <3>1
  <2> QED
    BY <2>1, <2>2
<1>7. CASE i + 1 <= u
  <2>1. Progress(c, i) = 0 /\ Progress(c, i + 1) = 0 /\ ~(i + 1 > u)
    BY <1>1, <1>2, <1>7
  <2> QED
    BY <1>6, <2>1 DEF u, s
<1>8. CASE i + 1 > u
  <2> DEFINE j == i - u
  <2>1. /\ j \in 0 .. Len(s) - 1 /\ j + 1 \in 1 .. n
        /\ i \in u .. u + n /\ i + 1 \in u .. u + n
        /\ i + 1 - u = j + 1 /\ u + (j + 1) = i + 1 /\ j + 1 \in 0 .. Len(s)
    BY <1>1, <1>8
  <2>2. Progress(c, i) = Delivered(s, j) /\ Progress(c, i + 1) = Delivered(s, j + 1)
    <3>1. Progress(c, i) = Delivered(s, i - u)
      BY <1>5, <2>1
    <3>2. Progress(c, i + 1) = Delivered(s, (i + 1) - u)
      BY <1>5, <2>1
    <3>3. (i + 1) - u = j + 1 /\ i - u = j
      BY <1>1, <2>1
    <3> HIDE DEF j
    <3> QED
      BY <3>1, <3>2, <3>3
  <2>3. input[i + 1] = s[j + 1]
    BY <1>1, <2>1
  <2> HIDE DEF j
  <2>4. /\ IsEnd(s[j + 1]) =>
             /\ Delivered(s, j + 1) = Delivered(s, j) + 1
             /\ Undelivered(s)[Delivered(s, j) + 1] = s[j + 1].of
        /\ ~IsEnd(s[j + 1]) => Delivered(s, j + 1) = Delivered(s, j)
    BY <1>1, <2>1, DeliveredIs
  <2>5. Delivered(s, j + 1) \in 0 .. Len(Undelivered(s))
    BY <1>3, <2>1
  <2> QED
    BY <1>6, <2>2, <2>3, <2>4, <2>5 DEF u, s
<1>9. i + 1 <= u \/ i + 1 > u
  BY <1>1
<1> QED
  BY <1>7, <1>8, <1>9, Zenon

\* One byte more: the walk stays on course, or has failed.
LEMMA ByteServes ==
  ASSUME NEW c \in Clis, ControllerTyped(c), meetings \in Registries,
         NEW n \in 1 .. Len(wire[c]), NEW input, IsInput(c, n, input),
         NEW i \in 0 .. Len(input) - 1, NEW w \in Walks, OnCourse(w, c, i, input)
  PROVE  OnCourse(ParseSymbol(w, input[i + 1]), c, i + 1, input)
<1> DEFINE x == input[i + 1]
           v == ParseSymbol(w, x)
           cs == Undelivered(wire[c])
           p == Progress(c, i)
<1>1. x \in Symbols /\ n \in Nat /\ i \in Nat /\ Len(input) = Len(cli[c].unread) + n
  BY DEF IsInput
<1>2. /\ v \in Walks
      /\ w.failed => v = w
      /\ ~w.failed /\ ~IsEnd(x) =>
           /\ v.command = Append(w.command, x)
           /\ v.unread = Append(w.unread, x)
           /\ v.meetings = w.meetings
           /\ v.out = w.out
      /\ ~w.failed /\ IsEnd(x) =>
           /\ v.command = <<>>
           /\ v.unread = <<x>>
           /\ ~v.failed
           /\ w.command = <<>> => v.meetings = w.meetings /\ v.out = w.out
           /\ w.command # <<>> =>
                LET done == ProcessInvokeCommand(w.meetings, w.command[1].of)
                IN  /\ v.meetings = done.meetings
                    /\ v.out = Append(w.out, Answer(done.ok))
  <2> HIDE DEF x
  <2> QED
    BY <1>1, ParseIs
<1>3. /\ p \in 0 .. Len(cs)
      /\ ~IsEnd(x) => Progress(c, i + 1) = p
      /\ IsEnd(x) /\ i + 1 > Len(cli[c].unread) =>
           /\ p + 1 = Progress(c, i + 1)
           /\ Progress(c, i + 1) \in 0 .. Len(cs)
           /\ cs[Progress(c, i + 1)] = x.of
  BY ProgressIs
<1>4. /\ w.command \in Seq(Symbols) /\ w.meetings \in Registries
      /\ w.out \in Seq(Messages)
  BY DEF Walks
<1>5. x = input[i + 1]
  OBVIOUS
<1> HIDE DEF x, v, p, cs
<1>6. CASE w.failed
  BY <1>2, <1>6 DEF OnCourse, Matches, v, x
<1>7. CASE ~w.failed /\ ~IsEnd(x)
  <2>1. Keeps(w, i, input) /\ Matches(w, c, p)
    BY <1>7 DEF OnCourse, p
  <2>2. Matches(v, c, p)
    BY <1>2, <1>7, <2>1 DEF Matches
  <2>3. Keeps(v, i + 1, input)
    BY <1>1, <1>2, <1>5, <1>7, <2>1, TextKept
  <2>4. OnCourse(v, c, i + 1, input)
    BY <1>3, <1>7, <2>2, <2>3 DEF OnCourse, cs
  <2> QED
    BY <2>4 DEF v, x
<1>8. CASE ~w.failed /\ IsEnd(x)
  <2>1. Keeps(w, i, input) /\ Matches(w, c, p)
    BY <1>8 DEF OnCourse, p
  <2>2. Keeps(v, i + 1, input)
    BY <1>1, <1>2, <1>5, <1>8, EndKept
  <2>3. i # 0 => Follows(input[i], x)
    <3>1. i # 0 => i \in 1 .. Len(cli[c].unread) + n - 1
      BY <1>1
    <3> QED
      BY <3>1, <1>5 DEF IsInput
  \* A line end that is skipped is the one that was kept.
  <2>4. CASE w.command = <<>>
    <3>1. i = 0
      BY <1>8, <2>1, <2>3, <2>4 DEF Keeps, Follows
    <3>2. Progress(c, i + 1) = 0 /\ p = 0
      <4>1. Len(cli[c].unread) \in Nat /\ Len(cli[c].unread) # 0
        BY <1>5, <1>8, <3>1 DEF IsInput
      <4> QED
        BY <3>1, <4>1 DEF Progress, p
    <3>3. Matches(v, c, Progress(c, i + 1))
      BY <1>2, <1>8, <2>1, <2>4, <3>2 DEF Matches
    <3>4. OnCourse(v, c, i + 1, input)
      BY <1>2, <1>8, <2>2, <3>3 DEF OnCourse
    <3> QED
      BY <3>4 DEF v, x
  <2>5. CASE w.command # <<>>
    <3> DEFINE cmd == w.command[1].of
               done == ProcessInvokeCommand(w.meetings, cmd)
    <3>1. 1 \in 1 .. Len(w.command) /\ w.command[1] \in Symbols
      BY <1>4, <2>5
    <3>2. i # 0 /\ ~IsEnd(input[i]) /\ cmd = input[i].of
      BY <2>1, <2>5, <3>1 DEF Keeps
    <3>3. cmd = x.of /\ cmd \in EncreCommands
      BY <2>3, <3>1, <3>2 DEF Follows, Symbols
    <3>4. i + 1 > Len(cli[c].unread)
      <4>1. Len(cli[c].unread) \in Nat /\ i + 1 \notin 2 .. Len(cli[c].unread)
        BY <1>5, <1>8 DEF IsInput
      <4> QED
        BY <1>1, <3>2, <4>1
    <3>5. v.meetings = done.meetings /\ v.out = Append(w.out, Answer(done.ok))
      BY <1>2, <1>8, <2>5
    <3>6. /\ p + 1 = Progress(c, i + 1) /\ p + 1 \in 0 .. Len(cs) /\ p \in Nat
          /\ cs[p + 1] = cmd
      BY <1>3, <1>8, <3>3, <3>4
    <3> HIDE DEF cmd, done
    <3>7. Answers(v.out) = Append(Answers(w.out), Told(done.ok))
      <4>1. /\ Answer(done.ok) \in Messages
            /\ Says(Answer(done.ok)) = <<Told(done.ok)>>
        BY DEF Answer, Messages, Says, Told
      <4>2. Answers(Append(w.out, Answer(done.ok))) = Answers(w.out) \o <<Told(done.ok)>>
        BY <1>4, <4>1, AnswersAppend
      <4>3. Answers(w.out) \in Seq(Outcomes) /\ Told(done.ok) \in Outcomes
        BY <1>4, AnswersConcat DEF Told, Outcomes
      <4>4. Answers(w.out) \o <<Told(done.ok)>> = Append(Answers(w.out), Told(done.ok))
        BY <4>3
      <4> QED
        BY <3>5, <4>2, <4>4
    <3>8. Seen(v.meetings, Answers(v.out))
            = Registry!Served(Seen(w.meetings, Answers(w.out)), cmd)
      <4>1. Seen(done.meetings, Append(Answers(w.out), Told(done.ok)))
              = Registry!Served(Seen(w.meetings, Answers(w.out)), cmd)
        BY <1>4, <3>3, CommandServes DEF done
      <4> QED
        BY <3>5, <3>7, <4>1
    <3>9. Registry!Done(c, p + 1) = Registry!Served(Registry!Done(c, p), cmd)
      <4>1. cs \in Seq(EncreCommands) /\ cs = Undelivered(wire[c])
        BY UndeliveredConcat DEF ControllerTyped, cs
      <4>2. Answers(cli[c].out) \in Seq(Outcomes)
        BY AnswersConcat DEF ControllerTyped
      <4>3. \A k \in 0 .. Len(cs) :
              Registry!Done(c, k) = IF k = 0 THEN Seen(meetings, Answers(cli[c].out))
                                    ELSE Registry!Served(Registry!Done(c, k - 1), cs[k])
        BY <4>1, <4>2, DoneIs
      <4>4. p + 1 # 0 /\ (p + 1) - 1 = p
        BY <3>6
      <4> QED
        BY <3>6, <4>3, <4>4
    <3>10. Matches(v, c, Progress(c, i + 1))
      BY <2>1, <3>6, <3>8, <3>9 DEF Matches
    <3>11. OnCourse(v, c, i + 1, input)
      BY <1>2, <1>8, <2>2, <3>10 DEF OnCourse
    <3> QED
      BY <3>11 DEF v, x
  <2> QED
    BY <2>4, <2>5
<1> QED
  BY <1>6, <1>7, <1>8

\* What a read makes of the registry is what a number of commands make of it, in
\* their order: those whose lines ended in it, unless the connection is closed.
LEMMA ReadServes ==
  ASSUME NEW c \in Clis, ControllerTyped(c), WholeLines(c), meetings \in Registries,
         NEW n \in 1 .. Len(wire[c])
  PROVE  LET w == Parse(c, SubSeq(wire[c], 1, n))
         IN  /\ w \in Walks
             /\ OnCourse(w, c, Len(cli[c].unread) + n,
                         cli[c].unread \o SubSeq(wire[c], 1, n))
<1> DEFINE a == SubSeq(wire[c], 1, n)
           input == cli[c].unread \o a
           N == Len(input)
           b == [command |-> <<>>, unread |-> <<>>, failed |-> FALSE,
                 meetings |-> meetings, out |-> cli[c].out]
<1>1. IsInput(c, n, input)
  BY InputIs
<1>2. /\ input \in Seq(Symbols) /\ N \in Nat /\ N = Len(cli[c].unread) + n
  <2> HIDE DEF input
  <2> QED BY <1>1 DEF IsInput
<1>3. cli[c].out \in Seq(Messages)
  BY DEF ControllerTyped
<1>4. PICK W : IsWalk(W, N, input, b) /\ Parse(c, a) = W[N]
  <2> HIDE DEF a
  <2> QED BY <1>2, <1>3, WalkIs
<1> HIDE DEF N, input
<1> DEFINE S == {i \in 0 .. N : OnCourse(W[i], c, i, input)}
<1>5. 0 \in S
  <2>1. W[0] = b /\ W[0] \in Walks
    BY <1>2, <1>4 DEF IsWalk
  <2>2. Matches(W[0], c, 0)
    <3>1. Undelivered(wire[c]) \in Seq(EncreCommands)
      BY UndeliveredConcat DEF ControllerTyped
    <3>2. Answers(cli[c].out) \in Seq(Outcomes)
      BY AnswersConcat DEF ControllerTyped
    <3>3. 0 \in 0 .. Len(Undelivered(wire[c]))
      BY <3>1
    <3>4. Registry!Done(c, 0) = Seen(meetings, Answers(cli[c].out))
      <4>1. \A k \in 0 .. Len(Undelivered(wire[c])) :
              Registry!Done(c, k) = IF k = 0 THEN Seen(meetings, Answers(cli[c].out))
                                    ELSE Registry!Served(Registry!Done(c, k - 1), Undelivered(wire[c])[k])
        BY <3>1, <3>2, DoneIs
      <4> QED
        BY <3>3, <4>1
    <3>5. W[0].meetings = meetings /\ W[0].out = cli[c].out
      BY <2>1
    <3> QED
      BY <3>4, <3>5 DEF Matches
  <2>3. ~W[0].failed /\ W[0].command = <<>> /\ W[0].unread = <<>>
    BY <2>1
  <2>4. OnCourse(W[0], c, 0, input)
    BY <2>1, <2>2, <2>3, FirstByte
  <2> QED
    BY <1>2, <2>4
<1>6. ASSUME NEW i \in 0 .. N - 1, i \in S
      PROVE  i + 1 \in S
  <2>1. i \in 0 .. N /\ i + 1 \in 1 .. N /\ i + 1 \in 0 .. N /\ (i + 1) - 1 = i
    BY <1>2
  <2>2. OnCourse(W[i], c, i, input)
    BY <1>6
  <2>3. W[i] \in Walks /\ W[i + 1] = ParseSymbol(W[i], input[i + 1])
    BY <1>4, <2>1 DEF IsWalk
  <2>4. OnCourse(ParseSymbol(W[i], input[i + 1]), c, i + 1, input)
    BY <1>1, <2>2, <2>3, ByteServes DEF N
  <2> QED
    BY <2>1, <2>3, <2>4
<1>7. N \in S
  <2>1. \A i \in 0 .. N - 1 : i \in S => i + 1 \in S
    BY <1>6
  <2>2. N \in 0 .. N
    BY <1>2
  <2> HIDE DEF S
  <2> QED
    BY <1>2, <1>5, <2>1, <2>2, UpTo
<1>8. W[N] \in Walks /\ OnCourse(W[N], c, N, input)
  BY <1>2, <1>4, <1>7 DEF IsWalk
<1> QED
  BY <1>2, <1>4, <1>8 DEF input

-----------------------------------------------------------------------------
(* The controllers *)

\* The line of a command: its text, which has no line end, and a line end.
LEMMA LineIs ==
  ASSUME NEW cmd \in EncreCommands
  PROVE  /\ Line(cmd) \in Seq(Symbols) /\ Len(Line(cmd)) = Halves(cmd) + 1
         /\ Halves(cmd) \in {2, 3}
         /\ \A i \in 1 .. Halves(cmd) : ~IsEnd(Line(cmd)[i])
         /\ IsEnd(Line(cmd)[Halves(cmd) + 1])
         /\ \A i \in 1 .. Halves(cmd) + 1 : Line(cmd)[i].of = cmd
<1> DEFINE h == Halves(cmd)
           t == Text(cmd)
           e == [part |-> 0, of |-> cmd]
<1>1. h \in {2, 3}
  BY DEF Halves
<1>2. e \in Symbols /\ IsEnd(e) /\ e.of = cmd
  BY DEF Symbols, IsEnd
<1>3. \A i \in 1 .. h : /\ [part |-> i, of |-> cmd] \in Symbols
                        /\ ~IsEnd([part |-> i, of |-> cmd])
                        /\ [part |-> i, of |-> cmd].of = cmd
  BY <1>1 DEF Symbols, IsEnd
<1> HIDE DEF h
<1>4. t = [i \in 1 .. h |-> [part |-> i, of |-> cmd]]
  BY DEF Text, h
<1> HIDE DEF t, e
<1>5. /\ t \in Seq(Symbols) /\ Len(t) = h
      /\ \A i \in 1 .. h : ~IsEnd(t[i]) /\ t[i].of = cmd
  BY <1>1, <1>3, <1>4
<1>6. Line(cmd) = Append(t, e)
  BY DEF Line, t, e
<1>7. /\ Append(t, e) \in Seq(Symbols) /\ Len(Append(t, e)) = h + 1
      /\ Append(t, e)[h + 1] = e
      /\ \A i \in 1 .. h : Append(t, e)[i] = t[i]
  BY <1>1, <1>2, <1>5
<1> HIDE DEF h
<1>8. \A i \in 1 .. h + 1 : i \in 1 .. h \/ i = h + 1
  BY <1>1
<1> QED
  BY <1>1, <1>2, <1>5, <1>6, <1>7, <1>8 DEF h

\* The line of a command asks for the command, once.
LEMMA LineAsks ==
  ASSUME NEW cmd \in EncreCommands
  PROVE  Undelivered(Line(cmd)) = <<cmd>>
<1> DEFINE h == Halves(cmd)
           s == Line(cmd)
           S == {j \in 0 .. h : Delivered(s, j) = 0}
<1>1. /\ s \in Seq(Symbols) /\ Len(s) = h + 1 /\ h \in Nat
      /\ \A i \in 1 .. h : ~IsEnd(s[i])
      /\ IsEnd(s[h + 1]) /\ s[h + 1].of = cmd
  BY LineIs
<1> HIDE DEF h, s
<1>2. 0 \in S
  <2>1. SubSeq(s, 1, 0) = <<>>
    BY <1>1
  <2>2. Len(<<>>) = 0
    OBVIOUS
  <2> QED
    <3>1. Delivered(s, 0) = 0
      BY <2>1, <2>2, NothingGathered DEF Delivered
    <3> QED
      BY <1>1, <3>1
<1>3. ASSUME NEW j \in 0 .. h - 1, j \in S
      PROVE  j + 1 \in S
  <2>1. j \in 0 .. Len(s) - 1 /\ ~IsEnd(s[j + 1]) /\ j + 1 \in 0 .. h
    BY <1>1
  <2>2. Delivered(s, j + 1) = Delivered(s, j)
    BY <1>1, <2>1, DeliveredIs
  <2> QED
    BY <1>3, <2>1, <2>2
<1>4. h \in S
  <2>1. \A j \in 0 .. h - 1 : j \in S => j + 1 \in S
    BY <1>3
  <2>2. h \in 0 .. h
    BY <1>1
  <2> HIDE DEF S
  <2> QED
    BY <1>1, <1>2, <2>1, <2>2, UpTo
<1>5. h \in 0 .. Len(s) - 1 /\ Delivered(s, h) = 0
  BY <1>1, <1>4
<1>6. Delivered(s, h + 1) = 1 /\ Undelivered(s)[1] = cmd
  <2>1. /\ Delivered(s, h + 1) = Delivered(s, h) + 1
        /\ Undelivered(s)[Delivered(s, h) + 1] = s[h + 1].of
    BY <1>1, <1>5, DeliveredIs
  <2> QED
    BY <1>1, <1>5, <2>1
<1>7. Undelivered(s) \in Seq(EncreCommands) /\ Len(Undelivered(s)) = 1
  <2>1. SubSeq(s, 1, h + 1) = s
    BY <1>1
  <2>2. Undelivered(s) \in Seq(EncreCommands)
    BY <1>1, UndeliveredConcat
  <2> QED
    BY <1>6, <2>1, <2>2 DEF Delivered
<1>8. Undelivered(s) = <<cmd>>
  BY <1>6, <1>7
<1> QED
  BY <1>8 DEF s

\* A chain after another.
LEMMA ChainedConcat ==
  ASSUME NEW s \in Seq(Symbols), NEW t \in Seq(Symbols), Chained(s), Chained(t),
         s # <<>> /\ t # <<>> => Follows(s[Len(s)], t[1])
  PROVE  Chained(s \o t)
<1>1. /\ Len(s) \in Nat /\ Len(t) \in Nat /\ Len(s \o t) = Len(s) + Len(t)
      /\ \A i \in 1 .. Len(s) : (s \o t)[i] = s[i]
      /\ \A i \in 1 .. Len(t) : (s \o t)[Len(s) + i] = t[i]
  OBVIOUS
<1> SUFFICES ASSUME NEW i \in 1 .. Len(s) + Len(t) - 1
             PROVE  Follows((s \o t)[i], (s \o t)[i + 1])
  BY <1>1 DEF Chained
<1>2. CASE i < Len(s)
  <2>1. i \in 1 .. Len(s) - 1 /\ (s \o t)[i] = s[i] /\ (s \o t)[i + 1] = s[i + 1]
    BY <1>1, <1>2
  <2> QED
    BY <2>1 DEF Chained
<1>3. CASE i = Len(s)
  <2>1. s # <<>> /\ t # <<>>
    BY <1>1, <1>3
  <2>2. (s \o t)[i] = s[Len(s)] /\ (s \o t)[i + 1] = t[1]
    BY <1>1, <1>3
  <2> QED
    BY <2>1, <2>2
<1>4. CASE i > Len(s)
  <2> DEFINE j == i - Len(s)
  <2>1. j \in 1 .. Len(t) - 1 /\ i = Len(s) + j /\ i + 1 = Len(s) + (j + 1)
    BY <1>1, <1>4
  <2>2. (s \o t)[i] = t[j] /\ (s \o t)[i + 1] = t[j + 1]
    BY <1>1, <2>1
  <2> QED
    BY <2>1, <2>2 DEF Chained
<1>5. i < Len(s) \/ i = Len(s) \/ i > Len(s)
  BY <1>1
<1> QED
  BY <1>2, <1>3, <1>4, <1>5, Zenon

\* What the lines of a connection are, put so that each part is named.
Lines(u, s) ==
  /\ u \in Seq(Symbols) /\ s \in Seq(Symbols)
  /\ Chained(u \o s)
  /\ u \o s # <<>> => IsEnd((u \o s)[Len(u \o s)])
  /\ u = <<>> /\ s # <<>> => ~IsEnd(s[1])
  /\ \A i \in 2 .. Len(u) : ~IsEnd(u[i])

\* The lines of a controller that is typed.
LEMMA LinesAre ==
  ASSUME NEW c, ControllerTyped(c)
  PROVE  WholeLines(c) <=> Lines(cli[c].unread, wire[c])
  BY DEF ControllerTyped, WholeLines, Bytes, Lines

\* A connection that is new has no lines.
LEMMA NoLines == Lines(<<>>, <<>>)
<1>1. <<>> \o <<>> = <<>> /\ Len(<<>>) = 0 /\ <<>> \in Seq(Symbols)
  OBVIOUS
<1> QED
  BY <1>1 DEF Lines, Chained

\* A controller sends whole lines.
LEMMA LinesSent ==
  ASSUME NEW u, NEW s, Lines(u, s), NEW cmd \in EncreCommands
  PROVE  Lines(u, s \o Line(cmd))
<1> DEFINE l == Line(cmd)
           b == u \o s
<1>1. /\ l \in Seq(Symbols) /\ Len(l) \in {3, 4}
      /\ ~IsEnd(l[1]) /\ IsEnd(l[Len(l)])
      /\ \A i \in 1 .. Len(l) - 1 : ~IsEnd(l[i])
      /\ \A i \in 1 .. Len(l) : l[i].of = cmd
  <2> DEFINE h == Halves(cmd)
  <2>1. /\ l \in Seq(Symbols) /\ Len(l) = h + 1 /\ h \in {2, 3}
        /\ \A i \in 1 .. h : ~IsEnd(l[i])
        /\ IsEnd(l[h + 1]) /\ \A i \in 1 .. h + 1 : l[i].of = cmd
    BY LineIs
  <2> HIDE DEF l, h
  <2>2. 1 \in 1 .. h /\ Len(l) - 1 = h
    BY <2>1
  <2> QED
    BY <2>1, <2>2
<1> HIDE DEF l
<1>2. /\ u \in Seq(Symbols) /\ s \in Seq(Symbols) /\ Chained(b)
      /\ b # <<>> => IsEnd(b[Len(b)])
  BY DEF Lines
<1>3. b \in Seq(Symbols) /\ u \o (s \o l) = b \o l
  BY <1>1, <1>2
<1>4. Chained(l)
  BY <1>1 DEF Chained, Follows
<1> HIDE DEF b
<1>5. b # <<>> => Follows(b[Len(b)], l[1])
  BY <1>1, <1>2 DEF Follows
<1>6. Chained(b \o l)
  BY <1>1, <1>2, <1>3, <1>4, <1>5, ChainedConcat
<1>7. b \o l # <<>> /\ (b \o l)[Len(b \o l)] = l[Len(l)]
  <2>1. Len(b \o l) = Len(b) + Len(l) /\ Len(b) \in Nat
    BY <1>1, <1>3
  <2>2. (b \o l)[Len(b) + Len(l)] = l[Len(l)]
    BY <1>1, <1>3
  <2>3. b \o l # <<>>
    BY <1>1, <2>1
  <2> QED
    BY <2>1, <2>2, <2>3
<1>8. u = <<>> => ~IsEnd((s \o l)[1])
  <2>1. CASE s = <<>>
    <3>1. s \o l = l
      BY <1>1, <2>1
    <3> QED
      BY <1>1, <3>1
  <2>2. CASE s # <<>>
    <3>1. (s \o l)[1] = s[1]
      BY <1>1, <1>2, <2>2
    <3> QED
      BY <2>2, <3>1 DEF Lines
  <2> QED
    BY <2>1, <2>2
<1>9. s \o l \in Seq(Symbols) /\ \A i \in 2 .. Len(u) : ~IsEnd(u[i])
  BY <1>1, <1>2 DEF Lines
<1>10. IsEnd((b \o l)[Len(b \o l)])
  BY <1>1, <1>7
<1> QED
  BY <1>2, <1>3, <1>6, <1>8, <1>9, <1>10 DEF Lines, l

\* A read that stays open leaves the lines whole: the line end that it ends
\* in, or the text of the line it ends in, stays in the buffer.
LEMMA LinesRead ==
  ASSUME NEW u, NEW s, Lines(u, s), NEW n \in 1 .. Len(s), NEW v \in Seq(Symbols),
         v # <<>>, v[Len(v)] = s[n], Chained(v), \A i \in 2 .. Len(v) : ~IsEnd(v[i])
  PROVE  Lines(v, SubSeq(s, n + 1, Len(s)))
<1> DEFINE a == u \o SubSeq(s, 1, n)
           t == SubSeq(s, n + 1, Len(s))
           N == Len(s)
<1>1. u \in Seq(Symbols) /\ s \in Seq(Symbols) /\ N \in Nat /\ n \in Nat /\ n >= 1 /\ n <= N
  BY DEF Lines
<1>2. /\ t \in Seq(Symbols) /\ Len(t) = N - n
      /\ \A i \in 1 .. N - n : t[i] = s[n + i]
  BY <1>1
<1>3. /\ SubSeq(s, 1, n) \in Seq(Symbols) /\ Len(SubSeq(s, 1, n)) = n
      /\ \A i \in 1 .. n : SubSeq(s, 1, n)[i] = s[i]
  BY <1>1
<1>4. /\ Len(u) \in Nat /\ Len(u \o s) = Len(u) + N
      /\ \A i \in 1 .. N : (u \o s)[Len(u) + i] = s[i]
  BY <1>1
<1>5. \A k \in 1 .. N - 1 : Follows(s[k], s[k + 1])
  <2> TAKE k \in 1 .. N - 1
  <2> DEFINE j == Len(u) + k
  <2>1. /\ j \in 1 .. Len(u \o s) - 1 /\ j + 1 = Len(u) + (k + 1)
        /\ k \in 1 .. N /\ k + 1 \in 1 .. N
    BY <1>1, <1>4
  <2>2. (u \o s)[j] = s[k] /\ (u \o s)[j + 1] = s[k + 1]
    BY <1>4, <2>1
  <2>3. Follows((u \o s)[j], (u \o s)[j + 1])
    BY <2>1 DEF Lines, Chained
  <2> QED
    BY <2>2, <2>3
<1>6. IsEnd(s[N])
  <2>1. u \o s # <<>> /\ (u \o s)[Len(u \o s)] = s[N]
    BY <1>1, <1>4
  <2> QED
    BY <2>1 DEF Lines
<1> HIDE DEF a, t, N
<1>7. Chained(t)
  <2> SUFFICES ASSUME NEW i \in 1 .. Len(t) - 1 PROVE Follows(t[i], t[i + 1])
    BY DEF Chained
  <2>1. /\ t[i] = s[n + i] /\ t[i + 1] = s[(n + i) + 1]
        /\ n + i \in 1 .. N - 1
    BY <1>1, <1>2
  <2> QED
    BY <1>5, <2>1
<1>8. t # <<>> => n \in 1 .. N - 1 /\ t[1] = s[n + 1]
  <2>1. t # <<>> => Len(t) # 0
    BY <1>2, EmptySeq
  <2> QED
    BY <1>1, <1>2, <2>1
<1>9. Chained(v \o t)
  <2>1. t # <<>> => Follows(v[Len(v)], t[1])
    BY <1>5, <1>8
  <2> QED
    BY <1>2, <1>7, <2>1, ChainedConcat
<1>10. IsEnd((v \o t)[Len(v \o t)])
  <2>1. /\ Len(v) \in Nat /\ Len(v) # 0 /\ Len(v \o t) = Len(v) + Len(t)
        /\ \A i \in 1 .. Len(v) : (v \o t)[i] = v[i]
        /\ \A i \in 1 .. Len(t) : (v \o t)[Len(v) + i] = t[i]
    <3>1. Len(v) \in Nat /\ Len(v) # 0
      BY EmptySeq
    <3>2. /\ Len(v \o t) = Len(v) + Len(t)
          /\ \A i \in 1 .. Len(v) : (v \o t)[i] = v[i]
          /\ \A i \in 1 .. Len(t) : (v \o t)[Len(v) + i] = t[i]
      BY <1>2
    <3> QED
      BY <3>1, <3>2
  <2>2. CASE n = N
    <3>1. Len(t) = 0 /\ (v \o t)[Len(v \o t)] = v[Len(v)]
      BY <1>1, <1>2, <2>1, <2>2
    <3> QED
      BY <1>6, <2>2, <3>1
  <2>3. CASE n # N
    <3>1. Len(t) \in 1 .. Len(t) /\ Len(t) \in 1 .. N - n /\ n + Len(t) = N
      BY <1>1, <1>2, <2>3
    <3>2. (v \o t)[Len(v \o t)] = t[Len(t)] /\ t[Len(t)] = s[N]
      BY <1>2, <2>1, <3>1
    <3> QED
      BY <1>6, <3>2
  <2> QED
    BY <2>2, <2>3
<1> QED
  BY <1>2, <1>9, <1>10 DEF Lines, t, N

-----------------------------------------------------------------------------
(* The steps *)

\* What holds of every state, and what a step may do.
ServesInv == PairedInv /\ ServedInv
Serves == [Registry!ServiceNext]_(Registry!serviceVars)

\* A connection of a controller that is closed.
LEMMA ClosedIs ==
  /\ Closed \in [open : BOOLEAN, unread : Seq(Symbols), out : Seq(Messages)]
  /\ ~Closed.open /\ Closed.unread = <<>> /\ Closed.out = <<>>
  /\ [Closed EXCEPT !.open = TRUE]
       \in [open : BOOLEAN, unread : Seq(Symbols), out : Seq(Messages)]
  /\ [Closed EXCEPT !.open = TRUE].open
  /\ [Closed EXCEPT !.open = TRUE].unread = <<>> /\ [Closed EXCEPT !.open = TRUE].out = <<>>
<1>1. <<>> \in Seq(Symbols) /\ <<>> \in Seq(Messages)
  OBVIOUS
<1>2. Closed = [open |-> FALSE, unread |-> <<>>, out |-> <<>>]
  BY DEF Closed
<1>3. ASSUME NEW k, k \in [open : BOOLEAN, unread : Seq(Symbols), out : Seq(Messages)]
      PROVE  /\ [k EXCEPT !.open = TRUE]
                  \in [open : BOOLEAN, unread : Seq(Symbols), out : Seq(Messages)]
             /\ [k EXCEPT !.open = TRUE].open
             /\ [k EXCEPT !.open = TRUE].unread = k.unread
             /\ [k EXCEPT !.open = TRUE].out = k.out
  BY <1>3
<1>4. /\ Closed \in [open : BOOLEAN, unread : Seq(Symbols), out : Seq(Messages)]
      /\ ~Closed.open /\ Closed.unread = <<>> /\ Closed.out = <<>>
  BY <1>1, <1>2
<1> QED
  BY <1>3, <1>4

\* A step of one controller.
LEMMA ControllerStep ==
  ASSUME ServedInv, NEW c \in Clis, NEW k, NEW s, NEW m \in Registries,
         k \in [open : BOOLEAN, unread : Seq(Symbols), out : Seq(Messages)],
         ~k.open => k = Closed /\ s = <<>>, Lines(k.unread, s),
         meetings' = m, cli' = [cli EXCEPT ![c] = k], wire' = [wire EXCEPT ![c] = s]
  PROVE  ServedInv'
<1>1. /\ cli' = [d \in Clis |-> cli'[d]] /\ cli'[c] = k
      /\ wire' = [d \in Clis |-> wire'[d]] /\ wire'[c] = s
      /\ \A d \in Clis : d # c => cli'[d] = cli[d] /\ wire'[d] = wire[d]
  BY DEF ServedInv
<1>2. ControllerTyped(c)' /\ WholeLines(c)'
  <2>1. s \in Seq(Symbols)
    BY DEF Lines
  <2> QED
    BY <1>1, <2>1 DEF ControllerTyped, WholeLines, Bytes, Lines
<1>3. ASSUME NEW d \in Clis, d # c
      PROVE  ControllerTyped(d)' /\ WholeLines(d)'
  BY <1>1, <1>3 DEF ServedInv, ControllerTyped, WholeLines, Bytes
<1> QED
  BY <1>1, <1>2, <1>3 DEF ServedInv

\* The server of the registry sees the same.
LEMMA NothingSeen ==
  ASSUME meetings' = meetings,
         \A c \in Clis : /\ Undelivered(wire'[c]) = Undelivered(wire[c])
                         /\ Answers(cli'[c].out) = Answers(cli[c].out)
  PROVE  /\ UNCHANGED <<DOMAIN meetings, RightsOf(meetings)>>
         /\ UNCHANGED [c \in Clis |-> Undelivered(wire[c])]
         /\ UNCHANGED [c \in Clis |-> Answers(cli[c].out)]
  BY DEF RightsOf

\* Who the clients were admitted as.
Sessions == [p \in RtmpPeers |->
               IF rtmp[p].uid = None THEN <<>>
               ELSE <<rtmp[p].room, rtmp[p].uid, rtmp[p].token>>]

\* A controller that arrives asks nothing yet.
LEMMA CliConnectsServes ==
  ASSUME ServesInv, NEW c \in Clis, CliConnects(c)
  PROVE  ServedInv' /\ Serves
<1>1. /\ ~cli[c].open /\ cli' = [cli EXCEPT ![c] = [Closed EXCEPT !.open = TRUE]]
      /\ meetings' = meetings /\ wire' = wire /\ rtmp' = rtmp
  BY DEF CliConnects
<1>2. cli[c] = Closed /\ wire[c] = <<>>
  BY <1>1 DEF ServesInv, ServedInv, ControllerTyped
<1>3. wire' = [wire EXCEPT ![c] = <<>>]
  BY <1>1, <1>2 DEF ServesInv, ServedInv
<1>4. ServedInv'
  <2> DEFINE k == [Closed EXCEPT !.open = TRUE]
  <2>1. /\ k \in [open : BOOLEAN, unread : Seq(Symbols), out : Seq(Messages)]
        /\ k.open /\ k.unread = <<>>
    BY ClosedIs
  <2> HIDE DEF k
  <2>2. cli' = [cli EXCEPT ![c] = k]
    BY <1>1 DEF k
  <2>3. meetings \in Registries
    BY DEF ServesInv, ServedInv
  <2>4. Lines(k.unread, <<>>) /\ (~k.open => k = Closed /\ <<>> = <<>>)
    BY <2>1, NoLines
  <2>5. ServedInv
    BY DEF ServesInv
  <2>6. meetings' = meetings
    BY <1>1
  <2> QED
    BY <1>3, <2>1, <2>2, <2>3, <2>4, <2>5, <2>6, ControllerStep
<1>5. ASSUME NEW d \in Clis
      PROVE  /\ Undelivered(wire'[d]) = Undelivered(wire[d])
             /\ Answers(cli'[d].out) = Answers(cli[d].out)
  <2>1. CASE d = c
    <3>1. cli'[d].out = <<>> /\ cli[d].out = <<>>
      BY <1>1, <1>2, <2>1, ClosedIs DEF ServesInv, ServedInv
    <3> QED
      BY <1>1, <3>1
  <2>2. CASE d # c
    BY <1>1, <2>2 DEF ServesInv, ServedInv
  <2> QED
    BY <2>1, <2>2
<1>6. Serves
  <2>1. UNCHANGED Sessions
    BY <1>1 DEF Sessions
  <2>2. /\ UNCHANGED <<DOMAIN meetings, RightsOf(meetings)>>
        /\ UNCHANGED [d \in Clis |-> Undelivered(wire[d])]
        /\ UNCHANGED [d \in Clis |-> Answers(cli[d].out)]
    BY <1>1, <1>5, NothingSeen
  <2> QED
    BY <2>1, <2>2 DEF Serves, Registry!serviceVars, Sessions
<1> QED
  BY <1>4, <1>6

\* The lines and the answers of the others stay.
Moves(c, k, s) ==
  cli' = [cli EXCEPT ![c] = k] /\ wire' = [wire EXCEPT ![c] = s]

\* What the connector sees of the wires and the answers after a step of one.
Views(c, commands, outcomes) ==
  /\ [d \in Clis |-> Undelivered(wire'[d])]
       = [[d \in Clis |-> Undelivered(wire[d])] EXCEPT ![c] = commands]
  /\ [d \in Clis |-> Answers(cli'[d].out)]
       = [[d \in Clis |-> Answers(cli[d].out)] EXCEPT ![c] = outcomes]

\* What the others have asked and were answered stays.
LEMMA OthersSee ==
  ASSUME ServedInv, NEW c \in Clis, NEW k, NEW s, Moves(c, k, s)
  PROVE  Views(c, Undelivered(s), Answers(k.out))
<1>1. /\ cli'[c] = k /\ wire'[c] = s
      /\ \A d \in Clis : d # c => cli'[d] = cli[d] /\ wire'[d] = wire[d]
  BY DEF ServedInv, Moves
<1>2. \A d \in Clis : /\ Undelivered(wire'[d]) = IF d = c THEN Undelivered(s)
                                                ELSE Undelivered(wire[d])
                      /\ Answers(cli'[d].out) = IF d = c THEN Answers(k.out)
                                                ELSE Answers(cli[d].out)
  BY <1>1
<1>3. [d \in Clis |-> Undelivered(wire'[d])]
       = [[d \in Clis |-> Undelivered(wire[d])] EXCEPT ![c] = Undelivered(s)]
  BY <1>2
<1>4. [d \in Clis |-> Answers(cli'[d].out)]
       = [[d \in Clis |-> Answers(cli[d].out)] EXCEPT ![c] = Answers(k.out)]
  BY <1>2
<1> QED
  BY <1>3, <1>4 DEF Views

\* A controller goes, and as many of its commands as the walk came to are done.
LEMMA LeaveServes ==
  ASSUME ServedInv, NEW c \in Clis, NEW n \in 0 .. Len(Undelivered(wire[c])),
         NEW a, Seen(meetings', a) = Registry!Done(c, n), rtmp' = rtmp,
         cli' = [cli EXCEPT ![c] = Closed], wire' = [wire EXCEPT ![c] = <<>>]
  PROVE  Serves
<1>1. UNCHANGED Sessions
  BY DEF Sessions
<1>2. /\ [d \in Clis |-> Undelivered(wire'[d])]
           = [[d \in Clis |-> Undelivered(wire[d])] EXCEPT ![c] = <<>>]
      /\ [d \in Clis |-> Answers(cli'[d].out)]
           = [[d \in Clis |-> Answers(cli[d].out)] EXCEPT ![c] = <<>>]
  <2>1. Closed.out = <<>>
    BY ClosedIs
  <2>2. Views(c, Undelivered(<<>>), Answers(Closed.out))
    <3>1. Moves(c, Closed, <<>>)
      BY DEF Moves
    <3> QED
      BY <3>1, OthersSee
  <2> QED
    BY <2>1, <2>2, NothingGathered DEF Views
<1>3. DOMAIN meetings' = Registry!Done(c, n).rooms /\ RightsOf(meetings)' = Registry!Done(c, n).rights
  <2>1. Seen(meetings', a).rooms = DOMAIN meetings' /\ Seen(meetings', a).rights = RightsOf(meetings')
    BY DEF Seen
  <2>2. RightsOf(meetings)' = RightsOf(meetings')
    BY DEF RightsOf
  <2> QED
    BY <2>1, <2>2
<1>4. Registry!Leave(c, n)
  BY <1>1, <1>2, <1>3 DEF Registry!Leave, Sessions
<1>5. n \in 0 .. Len([d \in Clis |-> Undelivered(wire[d])][c])
  OBVIOUS
<1> QED
  BY <1>4, <1>5 DEF Serves, Registry!ServiceNext

\* The commands whose lines were read are done and answered.
LEMMA ServeServes ==
  ASSUME ServedInv, NEW c \in Clis, NEW n \in 0 .. Len(Undelivered(wire[c])),
         NEW k, NEW s, Seen(meetings', Answers(k.out)) = Registry!Done(c, n), rtmp' = rtmp,
         cli' = [cli EXCEPT ![c] = k], wire' = [wire EXCEPT ![c] = s],
         Undelivered(s) = SubSeq(Undelivered(wire[c]), n + 1, Len(Undelivered(wire[c])))
  PROVE  Serves
<1>1. UNCHANGED Sessions
  BY DEF Sessions
<1>2. /\ [d \in Clis |-> Undelivered(wire'[d])]
           = [[d \in Clis |-> Undelivered(wire[d])] EXCEPT ![c] = SubSeq(@, n + 1, Len(@))]
      /\ [d \in Clis |-> Answers(cli'[d].out)]
           = [[d \in Clis |-> Answers(cli[d].out)] EXCEPT ![c] = Registry!Done(c, n).answers]
  <2>1. Seen(meetings', Answers(k.out)).answers = Answers(k.out)
    BY DEF Seen
  <2>2. Views(c, Undelivered(s), Answers(k.out))
    <3>1. Moves(c, k, s)
      BY DEF Moves
    <3> QED
      BY <3>1, OthersSee
  <2> QED
    BY <2>1, <2>2 DEF Views
<1>3. DOMAIN meetings' = Registry!Done(c, n).rooms /\ RightsOf(meetings)' = Registry!Done(c, n).rights
  <2>1. /\ Seen(meetings', Answers(k.out)).rooms = DOMAIN meetings'
        /\ Seen(meetings', Answers(k.out)).rights = RightsOf(meetings')
    BY DEF Seen
  <2>2. RightsOf(meetings)' = RightsOf(meetings')
    BY DEF RightsOf
  <2> QED
    BY <2>1, <2>2
<1>4. Registry!Serve(c, n)
  BY <1>1, <1>2, <1>3 DEF Registry!Serve, Sessions
<1>5. n \in 0 .. Len([d \in Clis |-> Undelivered(wire[d])][c])
  OBVIOUS
<1> QED
  BY <1>4, <1>5 DEF Serves, Registry!ServiceNext

\* The wire of a controller that is closed is closed with it.
LEMMA ClosesKeeps ==
  ASSUME ServedInv, NEW c \in Clis, meetings' \in Registries,
         cli' = [cli EXCEPT ![c] = Closed], wire' = [wire EXCEPT ![c] = <<>>]
  PROVE  ServedInv'
<1> DEFINE k == Closed
           m == meetings'
<1>1. /\ k \in [open : BOOLEAN, unread : Seq(Symbols), out : Seq(Messages)]
      /\ k.unread = <<>>
  BY ClosedIs
<1>2. Lines(k.unread, <<>>) /\ (~k.open => k = Closed /\ <<>> = <<>>)
  BY <1>1, NoLines
<1>3. meetings' = m /\ m \in Registries /\ cli' = [cli EXCEPT ![c] = k]
  OBVIOUS
<1> HIDE DEF k, m
<1> QED
  BY <1>1, <1>2, <1>3, ControllerStep

\* A controller that closes leaves with what it asked.
LEMMA CliClosesServes ==
  ASSUME ServesInv, NEW c \in Clis, CliCloses(c)
  PROVE  ServedInv' /\ Serves
<1>1. /\ cli' = [cli EXCEPT ![c] = Closed] /\ wire' = [wire EXCEPT ![c] = <<>>]
      /\ meetings' = meetings /\ rtmp' = rtmp
  BY DEF CliCloses
<1>2. ServedInv /\ meetings' \in Registries
  BY <1>1 DEF ServesInv, ServedInv
<1>3. ServedInv'
  BY <1>1, <1>2, ClosesKeeps
<1>4. Undelivered(wire[c]) \in Seq(EncreCommands) /\ Answers(cli[c].out) \in Seq(Outcomes)
  BY <1>2, UndeliveredConcat, AnswersConcat DEF ServedInv, ControllerTyped
<1>5. 0 \in 0 .. Len(Undelivered(wire[c]))
  BY <1>4
<1>6. Seen(meetings', Answers(cli[c].out)) = Registry!Done(c, 0)
  <2>1. \A k \in 0 .. Len(Undelivered(wire[c])) :
          Registry!Done(c, k) = IF k = 0 THEN Seen(meetings, Answers(cli[c].out))
                                ELSE Registry!Served(Registry!Done(c, k - 1), Undelivered(wire[c])[k])
    BY <1>1, <1>2, <1>4, DoneIs
  <2> QED
    BY <1>1, <1>5, <2>1
<1> QED
  BY <1>1, <1>2, <1>3, <1>5, <1>6, LeaveServes

\* A line that is written is a command that is asked.
LEMMA ControllerSendsServes ==
  ASSUME ServesInv, NEW c \in Clis, NEW cmd \in EncreCommands, ControllerSends(c, cmd)
  PROVE  ServedInv' /\ Serves
<1> DEFINE k == cli[c]
           l == Line(cmd)
           s == wire[c] \o l
           m == meetings
<1>1. /\ wire' = [wire EXCEPT ![c] = s] /\ cli' = cli /\ k.open
      /\ meetings' = m /\ rtmp' = rtmp
  BY DEF ControllerSends
<1>2. ServedInv /\ m \in Registries /\ ControllerTyped(c) /\ WholeLines(c)
  BY DEF ServesInv, ServedInv
<1>3. cli' = [cli EXCEPT ![c] = k]
  BY <1>1, <1>2 DEF ServedInv
<1>4. k \in [open : BOOLEAN, unread : Seq(Symbols), out : Seq(Messages)] /\ wire[c] \in Seq(Symbols)
  BY <1>2 DEF ControllerTyped
<1>5. Lines(k.unread, s)
  <2>1. Lines(k.unread, wire[c])
    BY <1>2, LinesAre
  <2> QED
    BY <2>1, LinesSent
<1>6. l \in Seq(Symbols) /\ Undelivered(l) = <<cmd>>
  BY LineIs, LineAsks
<1>7. /\ Undelivered(wire[c]) \in Seq(EncreCommands)
      /\ Undelivered(s) = Append(Undelivered(wire[c]), cmd)
  <2> HIDE DEF l
  <2>1. /\ Undelivered(wire[c]) \in Seq(EncreCommands)
        /\ Undelivered(wire[c] \o l) = Undelivered(wire[c]) \o <<cmd>>
    BY <1>4, <1>6, UndeliveredConcat
  <2> QED
    BY <2>1
<1> HIDE DEF k, s, l, m
<1>8. ServedInv'
  <2>1. ~k.open => k = Closed /\ s = <<>>
    BY <1>1
  <2> QED
    BY <1>1, <1>2, <1>3, <1>4, <1>5, <2>1, ControllerStep
<1>9. /\ [d \in Clis |-> Undelivered(wire'[d])]
           = [[d \in Clis |-> Undelivered(wire[d])] EXCEPT ![c] = Append(@, cmd)]
      /\ UNCHANGED [d \in Clis |-> Answers(cli[d].out)]
  <2>1. Views(c, Undelivered(s), Answers(k.out))
    <3>1. Moves(c, k, s)
      BY <1>1, <1>3 DEF Moves
    <3> QED
      BY <1>2, <3>1, OthersSee
  <2> QED
    BY <1>1, <1>7, <2>1 DEF Views
<1>10. UNCHANGED Sessions /\ UNCHANGED <<DOMAIN meetings, RightsOf(meetings)>>
  BY <1>1 DEF Sessions, RightsOf, m
<1>11. Registry!Ask(c, cmd)
  BY <1>9, <1>10 DEF Registry!Ask, Sessions
<1>12. Serves
  BY <1>11 DEF Serves, Registry!ServiceNext
<1> QED
  BY <1>8, <1>12

-----------------------------------------------------------------------------
(* A read *)

\* A read carries out the commands whose lines end in it and answers them, or
\* the connection is closed after some of them.
LEMMA SignalInputDataServes ==
  ASSUME ServesInv, NEW c \in Clis, NEW n \in 1 .. Len(wire[c]), SignalInputData(c, n)
  PROVE  ServedInv' /\ Serves
<1> DEFINE w == Parse(c, SubSeq(wire[c], 1, n))
           u == cli[c].unread
           input == u \o SubSeq(wire[c], 1, n)
           N == Len(u) + n
           cs == Undelivered(wire[c])
<1>1. /\ ServedInv /\ meetings \in Registries /\ ControllerTyped(c) /\ WholeLines(c)
  BY DEF ServesInv, ServedInv
<1>2. /\ cli[c] \in [open : BOOLEAN, unread : Seq(Symbols), out : Seq(Messages)]
      /\ wire[c] \in Seq(Symbols) /\ u \in Seq(Symbols)
  BY <1>1 DEF ControllerTyped
<1>3. w \in Walks /\ OnCourse(w, c, N, input)
  BY <1>1, ReadServes
<1>4. /\ IsInput(c, n, input) /\ N \in Nat /\ N > Len(u) /\ N - Len(u) = n /\ N # 0
  BY <1>1, <1>2, InputIs
<1>5. /\ cli[c].open /\ meetings' = w.meetings /\ rtmp' = rtmp
      /\ IF w.failed
         THEN cli' = [cli EXCEPT ![c] = Closed] /\ wire' = [wire EXCEPT ![c] = <<>>]
         ELSE /\ cli' = [cli EXCEPT ![c].unread = w.unread, ![c].out = w.out]
              /\ wire' = [wire EXCEPT ![c] = SubSeq(@, n + 1, Len(@))]
  <2> HIDE DEF w
  <2> QED BY DEF SignalInputData, w
<1> HIDE DEF w, N, input
<1>6. /\ w.meetings \in Registries /\ w.unread \in Seq(Symbols) /\ w.out \in Seq(Messages)
      /\ w.failed \in BOOLEAN
  BY <1>3 DEF Walks
<1>7. CASE w.failed
  <2>1. PICK k \in 0 .. Len(cs) : Matches(w, c, k)
    BY <1>3, <1>7 DEF OnCourse
  <2>2. Seen(meetings', Answers(w.out)) = Registry!Done(c, k)
    BY <1>5, <2>1 DEF Matches
  <2>3. cli' = [cli EXCEPT ![c] = Closed] /\ wire' = [wire EXCEPT ![c] = <<>>] /\ meetings' \in Registries
    BY <1>5, <1>6, <1>7
  <2>4. ServedInv'
    BY <1>1, <2>3, ClosesKeeps
  <2>5. Serves
    <3>1. rtmp' = rtmp
      BY <1>5
    <3> QED
      BY <1>1, <2>1, <2>2, <2>3, <3>1, LeaveServes
  <2> QED
    BY <2>4, <2>5
<1>8. CASE ~w.failed
  <2> DEFINE k == [[cli[c] EXCEPT !.unread = w.unread] EXCEPT !.out = w.out]
             s == SubSeq(wire[c], n + 1, Len(wire[c]))
             m == w.meetings
             done == Delivered(wire[c], n)
  <2>1. /\ k \in [open : BOOLEAN, unread : Seq(Symbols), out : Seq(Messages)]
        /\ k.open /\ k.unread = w.unread /\ k.out = w.out
    <3>1. ASSUME NEW j, j \in [open : BOOLEAN, unread : Seq(Symbols), out : Seq(Messages)],
                 NEW x \in Seq(Symbols), NEW y \in Seq(Messages)
          PROVE  /\ [[j EXCEPT !.unread = x] EXCEPT !.out = y]
                      \in [open : BOOLEAN, unread : Seq(Symbols), out : Seq(Messages)]
                 /\ [[j EXCEPT !.unread = x] EXCEPT !.out = y].open = j.open
                 /\ [[j EXCEPT !.unread = x] EXCEPT !.out = y].unread = x
                 /\ [[j EXCEPT !.unread = x] EXCEPT !.out = y].out = y
      BY <3>1
    <3> QED
      BY <1>2, <1>5, <1>6, <3>1
  <2>2. cli' = [cli EXCEPT ![c] = k] /\ wire' = [wire EXCEPT ![c] = s]
    <3>1. /\ cli' = [cli EXCEPT ![c].unread = w.unread, ![c].out = w.out]
          /\ wire' = [wire EXCEPT ![c] = SubSeq(@, n + 1, Len(@))]
      BY <1>5, <1>8
    <3> QED
      BY <1>1, <3>1 DEF ServedInv
  <2>3. meetings' = m /\ m \in Registries
    BY <1>5, <1>6
  <2>4. Keeps(w, N, input) /\ Matches(w, c, Progress(c, N))
    BY <1>3, <1>8 DEF OnCourse
  <2>5. /\ w.unread # <<>> /\ w.unread[Len(w.unread)] = wire[c][n]
        /\ Chained(w.unread) /\ \A j \in 2 .. Len(w.unread) : ~IsEnd(w.unread[j])
    <3>1. n \in 1 .. n
      BY <1>4
    <3>2. input[Len(u) + n] = wire[c][n]
      BY <1>4, <3>1 DEF IsInput, u
    <3> QED
      BY <1>4, <2>4, <3>2 DEF Keeps, N
  <2>6. Lines(k.unread, s)
    <3>1. Lines(u, wire[c])
      BY <1>1, LinesAre
    <3> HIDE DEF k, u
    <3> QED
      BY <1>6, <2>1, <2>5, <3>1, LinesRead
  <2>7. Progress(c, N) = done
    <3>1. ~(N <= Len(u))
      BY <1>2, <1>4
    <3> QED
      BY <1>4, <3>1 DEF Progress, u
  <2>8. /\ done \in 0 .. Len(cs)
        /\ Undelivered(s) = SubSeq(cs, done + 1, Len(cs))
    <3>1. n \in 0 .. Len(wire[c])
      OBVIOUS
    <3> QED
      BY <1>2, <3>1, PrefixIs DEF Delivered
  <2>9. Seen(meetings', Answers(k.out)) = Registry!Done(c, done)
    BY <2>1, <2>3, <2>4, <2>7 DEF Matches
  <2> HIDE DEF k, s, m, done
  <2>10. ServedInv'
    <3>1. ~k.open => k = Closed /\ s = <<>>
      BY <2>1
    <3> QED
      BY <1>1, <2>1, <2>2, <2>3, <2>6, <3>1, ControllerStep
  <2>11. Serves
    <3>1. rtmp' = rtmp
      BY <1>5
    <3> QED
      BY <1>1, <2>2, <2>8, <2>9, <3>1, ServeServes
  <2> QED
    BY <2>10, <2>11
<1> QED
  BY <1>7, <1>8, <1>6

\* Whatever a controller does, the registry serves.
LEMMA ControllersServe ==
  ASSUME ServesInv, ControllersNext
  PROVE  ServedInv' /\ Serves
<1>1. PICK c \in Clis :
        \/ CliConnects(c) \/ CliCloses(c)
        \/ \E cmd \in EncreCommands : ControllerSends(c, cmd)
        \/ \E n \in 1 .. Len(wire[c]) : SignalInputData(c, n)
  BY DEF ControllersNext
<1> QED
  BY <1>1, CliConnectsServes, CliClosesServes, ControllerSendsServes, SignalInputDataServes

-----------------------------------------------------------------------------
(* The events *)

\* An event is no answer.
LEMMA EventsAnswerNothing ==
  ASSUME NEW e \in Seq(Messages), \A i \in 1 .. Len(e) : e[i].status = "EVENT"
  PROVE  Answers(e) = <<>>
<1> DEFINE N == Len(e)
           S == {j \in 0 .. N : Answers(SubSeq(e, 1, j)) = <<>>}
<1>1. N \in Nat
  OBVIOUS
<1>2. 0 \in S
  <2>1. SubSeq(e, 1, 0) = <<>>
    OBVIOUS
  <2>2. Answers(SubSeq(e, 1, 0)) = <<>>
    BY <2>1, NothingGathered, Zenon
  <2> QED
    BY <1>1, <2>2
<1>3. ASSUME NEW j \in 0 .. N - 1, j \in S
      PROVE  j + 1 \in S
  <2> DEFINE q == SubSeq(e, 1, j)
  <2>1. /\ q \in Seq(Messages) /\ j + 1 \in 1 .. N /\ e[j + 1] \in Messages
        /\ SubSeq(e, 1, j + 1) = Append(q, e[j + 1])
    BY <1>1
  <2>2. Answers(q) = <<>>
    BY <1>3
  <2> HIDE DEF q
  <2>3. Says(e[j + 1]) = <<>>
    BY <2>1 DEF Says
  <2>4. Answers(Append(q, e[j + 1])) = Answers(q) \o Says(e[j + 1])
    BY <2>1, AnswersAppend
  <2>5. <<>> \o <<>> = <<>>
    OBVIOUS
  <2>6. Answers(SubSeq(e, 1, j + 1)) = <<>>
    BY <2>1, <2>2, <2>3, <2>4, <2>5, Zenon
  <2> QED
    BY <1>1, <2>6
<1>4. N \in S
  <2>1. \A j \in 0 .. N - 1 : j \in S => j + 1 \in S
    BY <1>3
  <2>2. N \in 0 .. N
    BY <1>1
  <2> HIDE DEF S, N
  <2> QED
    BY <1>1, <1>2, <2>1, <2>2, UpTo
<1>5. SubSeq(e, 1, N) = e
  OBVIOUS
<1> QED
  BY <1>4, <1>5

\* Events are messages, and no answers.
LEMMA AnnouncedIs ==
  ASSUME NEW es \in Seq(Announcements)
  PROVE  /\ [i \in DOMAIN es |-> Event(es[i])] \in Seq(Messages)
         /\ Answers([i \in DOMAIN es |-> Event(es[i])]) = <<>>
<1> DEFINE e == [i \in DOMAIN es |-> Event(es[i])]
<1>1. \A a \in Announcements : Event(a) \in Messages /\ Event(a).status = "EVENT"
  BY DEF Event, Messages
<1>2. DOMAIN es = 1 .. Len(es) /\ \A i \in 1 .. Len(es) : es[i] \in Announcements
  OBVIOUS
<1>3. e \in Seq(Messages) /\ Len(e) = Len(es) /\ \A i \in 1 .. Len(es) : e[i].status = "EVENT"
  BY <1>1, <1>2
<1> HIDE DEF e
<1>4. Answers(e) = <<>>
  BY <1>3, EventsAnswerNothing
<1> QED
  BY <1>3, <1>4 DEF e

\* What the registry and the lines of the controllers are stays.
Unmoved ==
  /\ meetings' = meetings
  /\ \A c \in Clis : /\ Undelivered(wire'[c]) = Undelivered(wire[c])
                     /\ Answers(cli'[c].out) = Answers(cli[c].out)

\* A controller that is told of events is told no more.
LEMMA MessagesServe ==
  ASSUME ServesInv, NEW es \in Seq(Announcements), SendControllerMessages(es)
  PROVE  ServedInv' /\ Unmoved
<1> DEFINE e == [i \in DOMAIN es |-> Event(es[i])]
<1>1. /\ meetings' = meetings /\ wire' = wire
      /\ cli' = IF client = None THEN cli
                ELSE [cli EXCEPT ![client].out = @ \o e]
  BY DEF SendControllerMessages
<1>2. e \in Seq(Messages) /\ Answers(e) = <<>>
  BY AnnouncedIs
<1> HIDE DEF e
<1>3. ServedInv /\ meetings \in Registries
  BY DEF ServesInv, ServedInv
<1>4. CASE client = None
  BY <1>1, <1>3, <1>4 DEF ServedInv, ControllerTyped, WholeLines, Bytes, Unmoved
<1>5. CASE client # None
  <2> DEFINE c == client
             k == [cli[c] EXCEPT !.out = @ \o e]
             s == wire[c]
             m == meetings
  <2>1. c \in Clis /\ cli[c].open
    BY <1>5 DEF ServesInv, PairedInv, ControllersTyped, ClientIsLive
  <2> HIDE DEF c
  <2>2. /\ cli[c] \in [open : BOOLEAN, unread : Seq(Symbols), out : Seq(Messages)]
        /\ ControllerTyped(c) /\ WholeLines(c)
    BY <1>3, <2>1 DEF ServedInv, ControllerTyped
  <2>3. cli[c].out \o e \in Seq(Messages) /\ Answers(cli[c].out \o e) = Answers(cli[c].out)
    <3>1. cli[c].out \in Seq(Messages)
      BY <2>2
    <3>2. /\ Answers(cli[c].out) \in Seq(Outcomes)
          /\ Answers(cli[c].out \o e) = Answers(cli[c].out) \o <<>>
      BY <1>2, <3>1, AnswersConcat
    <3> QED
      BY <1>2, <3>1, <3>2
  <2>4. /\ k \in [open : BOOLEAN, unread : Seq(Symbols), out : Seq(Messages)]
        /\ k.open /\ k.unread = cli[c].unread /\ k.out = cli[c].out \o e
    BY <2>1, <2>2, <2>3
  <2>5. cli' = [cli EXCEPT ![c] = k] /\ wire' = [wire EXCEPT ![c] = s]
    BY <1>1, <1>3, <1>5 DEF c, ServedInv
  <2>6. Lines(k.unread, s)
    <3>1. Lines(cli[c].unread, s)
      BY <2>2, LinesAre
    <3> QED
      BY <2>4, <3>1
  <2> HIDE DEF k, s, m
  <2>7. meetings' = m /\ m \in Registries
    BY <1>1, <1>3 DEF m
  <2>8. ServedInv'
    <3>1. ~k.open => k = Closed /\ s = <<>>
      BY <2>4
    <3> QED
      BY <1>3, <2>1, <2>4, <2>5, <2>6, <2>7, <3>1, ControllerStep
  <2>9. Unmoved
    <3>1. cli'[c] = k /\ \A d \in Clis : d # c => cli'[d] = cli[d]
      BY <1>3, <2>1, <2>5 DEF ServedInv
    <3> QED
      BY <1>1, <2>3, <2>4, <3>1 DEF Unmoved
  <2> QED
    BY <2>8, <2>9
<1> QED
  BY <1>4, <1>5

\* What stays when a handler sends nothing.
LEMMA NothingServes ==
  ASSUME ServesInv, UNCHANGED <<meetings, cli, wire>>
  PROVE  ServedInv' /\ Unmoved
  BY DEF ServesInv, ServedInv, ControllerTyped, WholeLines, Bytes, Unmoved

-----------------------------------------------------------------------------
(* The clients *)

\* The right a client was admitted with.
SessionOf(k) == IF k.uid = None THEN <<>> ELSE <<k.room, k.uid, k.token>>

\* The step of a client that is still the user it was.
LEMMA StaysServes ==
  ASSUME ServesInv, Unmoved, NEW p \in RtmpPeers, NEW k,
         rtmp' = [rtmp EXCEPT ![p] = k], SessionOf(k) = SessionOf(rtmp[p])
  PROVE  Serves
<1>1. UNCHANGED Sessions
  <2>1. \A q \in RtmpPeers : SessionOf(rtmp'[q]) = SessionOf(rtmp[q])
    BY DEF ServesInv, PairedInv
  <2> QED
    BY <2>1 DEF Sessions, SessionOf
<1>2. /\ UNCHANGED <<DOMAIN meetings, RightsOf(meetings)>>
      /\ UNCHANGED [d \in Clis |-> Undelivered(wire[d])]
      /\ UNCHANGED [d \in Clis |-> Answers(cli[d].out)]
  BY NothingSeen DEF Unmoved
<1> QED
  BY <1>1, <1>2 DEF Serves, Registry!serviceVars, Sessions

\* The step of a client after which it is nobody, or somebody else.
LEMMA MovesServes ==
  ASSUME ServesInv, Unmoved, NEW p \in RtmpPeers, NEW k,
         rtmp' = [rtmp EXCEPT ![p] = k],
         SessionOf(k) \in RightsOf(meetings) \cup {<<>>}
  PROVE  Serves
<1> DEFINE r == SessionOf(k)
<1>1. Sessions' = [Sessions EXCEPT ![p] = r]
  <2>1. \A q \in RtmpPeers : SessionOf(rtmp'[q]) = IF q = p THEN r ELSE SessionOf(rtmp[q])
    BY DEF ServesInv, PairedInv
  <2> HIDE DEF r
  <2> QED
    BY <2>1 DEF Sessions, SessionOf
<1>2. /\ UNCHANGED <<DOMAIN meetings, RightsOf(meetings)>>
      /\ UNCHANGED [d \in Clis |-> Undelivered(wire[d])]
      /\ UNCHANGED [d \in Clis |-> Answers(cli[d].out)]
  BY NothingSeen DEF Unmoved
<1> HIDE DEF r
<1>3. CASE r = <<>>
  <2>1. Registry!Depart(p)
    BY <1>1, <1>2, <1>3 DEF Registry!Depart, Sessions
  <2> QED
    BY <2>1 DEF Serves, Registry!ServiceNext
<1>4. CASE r \in RightsOf(meetings)
  <2>1. Registry!Admit(p, r)
    BY <1>1, <1>2, <1>4 DEF Registry!Admit, Sessions
  <2> QED
    BY <1>4, <2>1 DEF Serves, Registry!ServiceNext
<1> QED
  BY <1>3, <1>4 DEF r

\* A client that arrives or is gone was not admitted.
LEMMA NobodyIs ==
  /\ SessionOf(Arrived) = <<>> /\ SessionOf(Gone) = <<>>
  /\ \A b : SessionOf([Gone EXCEPT !.untold = b]) = <<>>
  BY DEF SessionOf, Arrived, Gone

\* A client that is closed departs.
LEMMA CloseServes ==
  ASSUME ServesInv, NEW p \in RtmpPeers, Close(p)
  PROVE  ServedInv' /\ Serves
<1> DEFINE k == [Gone EXCEPT !.untold = Unnoticed(p)]
<1>1. rtmp' = [rtmp EXCEPT ![p] = k] /\ SendControllerMessages(NewRecord(p))
  BY DEF Close
<1>2. NewRecord(p) \in Seq(Announcements)
  <2>1. [type |-> "new_record"] \in Announcements
    BY DEF Announcements
  <2>2. <<>> \in Seq(Announcements) /\ <<[type |-> "new_record"]>> \in Seq(Announcements)
    BY <2>1
  <2> QED
    BY <2>2 DEF NewRecord
<1>3. ServedInv' /\ Unmoved
  BY <1>1, <1>2, MessagesServe
<1>4. SessionOf(k) = <<>>
  BY NobodyIs
<1> HIDE DEF k
<1> QED
  BY <1>1, <1>3, <1>4, MovesServes

\* A client is admitted by a right of the registry, or departs.
LEMMA InvokeConnectServes ==
  ASSUME ServesInv, NEW p \in RtmpPeers, NEW room \in Rooms, NEW uid \in Uids,
         NEW token \in UserTokens, NEW base \in BOOLEAN,
         InvokeConnect(p, room, uid, token, base)
  PROVE  ServedInv' /\ Serves
<1>1. CASE base /\ Authorized(room, uid, token)
  <2> DEFINE k == Admitted(rtmp[p], room, uid, token)
  <2>1. rtmp' = [rtmp EXCEPT ![p] = k] /\ UNCHANGED <<meetings, cli, wire>>
    BY <1>1 DEF InvokeConnect
  <2>2. ServedInv' /\ Unmoved
    BY <2>1, NothingServes
  <2>3. SessionOf(k) = <<room, uid, token>>
    <3>1. k.uid = uid /\ k.room = room /\ k.token = token
      BY DEF ServesInv, PairedInv, Clients, Admitted
    <3> HIDE DEF k
    <3> QED
      BY <3>1, NoneAssumption DEF SessionOf
  <2>4. <<room, uid, token>> \in RightsOf(meetings)
    BY <1>1, RightIs DEF Authorized
  <2> HIDE DEF k
  <2> QED
    BY <2>1, <2>2, <2>3, <2>4, MovesServes
<1>2. CASE ~(base /\ Authorized(room, uid, token))
  BY <1>2, CloseServes DEF InvokeConnect
<1> QED
  BY <1>1, <1>2

\* A publish leaves the client who it was.
LEMMA InvokePublishServes ==
  ASSUME ServesInv, NEW p \in RtmpPeers, NEW name \in StreamNames,
         NEW base \in {"made", "told", "fails"}, NEW files \in BOOLEAN,
         NEW valid \in BOOLEAN, InvokePublish(p, name, base, files, valid)
  PROVE  ServedInv' /\ Serves
<1>1. CASE base = "fails" \/ ~valid
  BY <1>1, CloseServes DEF InvokePublish
<1>2. CASE ~(base = "fails" \/ ~valid)
  <2> DEFINE e == StreamEvent("stream.publish", p, name)
             k == [rtmp[p] EXCEPT
                     !.stream = IF base = "made" THEN "live" ELSE @,
                     !.file = @ \/ files, !.streamName = name,
                     !.publish = TRUE, !.told = e]
  <2>1. rtmp' = [rtmp EXCEPT ![p] = k] /\ SendControllerMessages(<<e>>)
    BY <1>2 DEF InvokePublish, ServesInv, PairedInv
  <2>2. e \in Announcements
    BY DEF ServesInv, PairedInv, Clients, StreamEvent, Announcements
  <2>3. SessionOf(k) = SessionOf(rtmp[p])
    <3>1. k.uid = rtmp[p].uid /\ k.room = rtmp[p].room /\ k.token = rtmp[p].token
      BY DEF ServesInv, PairedInv, Clients
    <3> HIDE DEF k
    <3> QED
      BY <3>1 DEF SessionOf
  <2> HIDE DEF k, e
  <2>4. ServedInv' /\ Unmoved
    <3>1. <<e>> \in Seq(Announcements)
      BY <2>2
    <3> QED
      BY <2>1, <3>1, MessagesServe
  <2> QED
    BY <2>1, <2>3, <2>4, StaysServes
<1> QED
  BY <1>1, <1>2

\* What is said of a record.
LEMMA NewRecordIs ==
  ASSUME NEW p
  PROVE  NewRecord(p) \in Seq(Announcements)
<1>1. [type |-> "new_record"] \in Announcements
  BY DEF Announcements
<1>2. <<>> \in Seq(Announcements) /\ <<[type |-> "new_record"]>> \in Seq(Announcements)
  BY <1>1
<1> QED
  BY <1>2 DEF NewRecord

\* A deleteStream leaves the client who it was, or it departs.
LEMMA DeleteStreamServes ==
  ASSUME ServesInv, NEW p \in RtmpPeers, NEW base \in {"closed", "other", "fails"},
         DeleteStream(p, base)
  PROVE  ServedInv' /\ Serves
<1> DEFINE k == CASE base = "closed" ->
                       [rtmp[p] EXCEPT !.stream = "none", !.file = FALSE]
                  [] base = "other" -> rtmp[p]
                  [] base = "fails" -> Gone
           said == IF rtmp[p].publish
                   THEN <<StreamEvent("stream.delete", p, rtmp[p].streamName)>>
                   ELSE <<>>
           ends == base = "closed" \/ base = "fails"
           es == IF ends THEN said \o NewRecord(p) ELSE said
<1>1. rtmp' = [rtmp EXCEPT ![p] = k] /\ SendControllerMessages(es)
  BY DEF DeleteStream
<1>2. es \in Seq(Announcements)
  <2>1. StreamEvent("stream.delete", p, rtmp[p].streamName) \in Announcements
    BY DEF ServesInv, PairedInv, Clients, StreamEvent, Announcements
  <2>2. said \in Seq(Announcements)
    BY <2>1
  <2> HIDE DEF said
  <2> QED
    BY <2>2, NewRecordIs
<1>3. SessionOf(k) = <<>> \/ SessionOf(k) = SessionOf(rtmp[p])
  <2>1. CASE base = "fails"
    BY <2>1, NobodyIs
  <2>2. CASE base # "fails"
    <3>1. k.uid = rtmp[p].uid /\ k.room = rtmp[p].room /\ k.token = rtmp[p].token
      BY <2>2 DEF ServesInv, PairedInv, Clients
    <3> HIDE DEF k
    <3> QED
      BY <3>1 DEF SessionOf
  <2> QED
    BY <2>1, <2>2
<1> HIDE DEF k, es
<1>4. ServedInv' /\ Unmoved
  BY <1>1, <1>2, MessagesServe
<1> QED
  BY <1>1, <1>3, <1>4, StaysServes, MovesServes

\* A closeStream leaves the client who it was.
LEMMA CloseStreamServes ==
  ASSUME ServesInv, NEW p \in RtmpPeers, CloseStream(p)
  PROVE  ServedInv' /\ Serves
<1> DEFINE k == [rtmp[p] EXCEPT !.stream = "neutral", !.file = FALSE,
                                !.untold = Unnoticed(p)]
<1>1. rtmp' = [rtmp EXCEPT ![p] = k] /\ SendControllerMessages(NewRecord(p))
  BY DEF CloseStream, ServesInv, PairedInv
<1>2. SessionOf(k) = SessionOf(rtmp[p])
  <2>1. k.uid = rtmp[p].uid /\ k.room = rtmp[p].room /\ k.token = rtmp[p].token
    BY DEF ServesInv, PairedInv, Clients
  <2> HIDE DEF k
  <2> QED
    BY <2>1 DEF SessionOf
<1> HIDE DEF k
<1>3. ServedInv' /\ Unmoved
  BY <1>1, NewRecordIs, MessagesServe
<1> QED
  BY <1>1, <1>2, <1>3, StaysServes

\* Whatever a client does, the registry serves.
LEMMA ClientsServe ==
  ASSUME ServesInv, ClientsNext
  PROVE  ServedInv' /\ Serves
<1>1. PICK p \in RtmpPeers :
        \/ PeerArrives(p) \/ PeerLeaves(p) \/ CreateStream(p) \/ PlayRefused(p)
        \/ \E room \in Rooms, uid \in Uids, token \in UserTokens,
              base \in BOOLEAN : InvokeConnect(p, room, uid, token, base)
        \/ \E name \in StreamNames, base \in {"made", "told", "fails"},
              files, valid \in BOOLEAN : InvokePublish(p, name, base, files, valid)
        \/ \E base \in {"closed", "other", "fails"} : DeleteStream(p, base)
        \/ CloseStream(p)
  BY DEF ClientsNext
<1>2. CASE PeerArrives(p)
  <2>1. rtmp' = [rtmp EXCEPT ![p] = Arrived] /\ UNCHANGED <<meetings, cli, wire>>
    BY <1>2 DEF PeerArrives
  <2>2. ServedInv' /\ Unmoved
    BY <2>1, NothingServes
  <2> QED
    BY <2>1, <2>2, NobodyIs, MovesServes
<1>3. CASE PeerLeaves(p)
  BY <1>3, CloseServes DEF PeerLeaves
<1>4. CASE CreateStream(p)
  <2> DEFINE k == [rtmp[p] EXCEPT !.stream = "neutral"]
  <2>1. rtmp' = [rtmp EXCEPT ![p] = k] /\ UNCHANGED <<meetings, cli, wire>>
    BY <1>4 DEF CreateStream, ServesInv, PairedInv
  <2>2. ServedInv' /\ Unmoved
    BY <2>1, NothingServes
  <2>3. SessionOf(k) = SessionOf(rtmp[p])
    <3>1. k.uid = rtmp[p].uid /\ k.room = rtmp[p].room /\ k.token = rtmp[p].token
      BY DEF ServesInv, PairedInv, Clients
    <3> HIDE DEF k
    <3> QED
      BY <3>1 DEF SessionOf
  <2> HIDE DEF k
  <2> QED
    BY <2>1, <2>2, <2>3, StaysServes
<1>5. CASE PlayRefused(p)
  BY <1>5, CloseServes DEF PlayRefused
<1> QED
  BY <1>1, <1>2, <1>3, <1>4, <1>5, InvokeConnectServes, InvokePublishServes,
     DeleteStreamServes, CloseStreamServes

-----------------------------------------------------------------------------
\* However TCP cuts the lines of the controllers, whoever comes and goes and
\* whatever else the server does in between: the commands of a controller are
\* carried out one by one in the order they were sent and answered in that order,
\* and a client is admitted to a room with the token that the last command about
\* that user in that room gave, and with no other.  Encre implements EncreService.
THEOREM ConnectorIsServed == EncreSpec => ServesTheConnector
<1>1. EncreInit => ServesInv /\ Registry!ServiceInit
  <2> SUFFICES ASSUME EncreInit PROVE ServesInv /\ Registry!ServiceInit
    OBVIOUS
  <2>1. PairedInv
    <3>1. ControllersTyped /\ ClientIsLive
      BY DEF EncreInit, ControllersTyped, ClientIsLive, IsConnection, Closed
    <3>2. Gone \in Clients /\ ~Gone.publish
      BY DEF Gone, Arrived, Clients
    <3> QED
      BY <3>1, <3>2 DEF EncreInit, PairedInv, Paired
  <2>2. ServedInv
    <3>1. /\ meetings \in Registries
          /\ cli = [c \in Clis |-> cli[c]] /\ wire = [c \in Clis |-> wire[c]]
      BY EmptyTable DEF EncreInit
    <3>2. ASSUME NEW c \in Clis
          PROVE  ControllerTyped(c) /\ WholeLines(c)
      <4>1. cli[c] = Closed /\ wire[c] = <<>>
        BY DEF EncreInit
      <4>2. <<>> \in Seq(Symbols) /\ Lines(Closed.unread, <<>>)
        BY ClosedIs, NoLines
      <4>3. ControllerTyped(c)
        BY <4>1, <4>2, ClosedIs DEF ControllerTyped
      <4> QED
        BY <4>1, <4>2, <4>3, LinesAre
    <3> QED
      BY <3>1, <3>2 DEF ServedInv
  <2>3. Registry!ServiceInit
    <3>1. DOMAIN meetings = {} /\ RightsOf(meetings) = {}
      BY EmptyTable DEF EncreInit
    <3>2. \A c \in Clis : Undelivered(wire[c]) = <<>> /\ Answers(cli[c].out) = <<>>
      BY NothingGathered, ClosedIs DEF EncreInit
    <3>3. \A p \in RtmpPeers : SessionOf(rtmp[p]) = <<>>
      BY NobodyIs DEF EncreInit
    <3> QED
      BY <3>1, <3>2, <3>3 DEF Registry!ServiceInit, SessionOf
  <2> QED
    BY <2>1, <2>2, <2>3 DEF ServesInv
<1>2. ServesInv /\ [EncreNext]_encreVars => ServesInv' /\ Serves
  <2> SUFFICES ASSUME ServesInv, [EncreNext]_encreVars PROVE ServesInv' /\ Serves
    OBVIOUS
  <2>1. CASE UNCHANGED encreVars
    <3>1. PairedInv'
      BY <2>1 DEF encreVars, ServesInv, PairedInv, ControllersTyped, ClientIsLive,
                  Paired, StreamEvent
    <3>2. ServedInv' /\ Unmoved
      BY <2>1, NothingServes DEF encreVars
    <3>3. UNCHANGED Sessions
      BY <2>1 DEF encreVars, Sessions
    <3>4. Serves
      BY <3>2, <3>3, NothingSeen DEF Unmoved, Serves, Registry!serviceVars, Sessions
    <3> QED
      BY <3>1, <3>2, <3>4 DEF ServesInv
  <2>2. CASE EncreNext
    <3>1. PairedInv'
      BY <2>2, ControllersKeep, ClientsKeep DEF EncreNext, ServesInv
    <3>2. ServedInv' /\ Serves
      BY <2>2, ControllersServe, ClientsServe DEF EncreNext
    <3> QED
      BY <3>1, <3>2 DEF ServesInv
  <2> QED
    BY <2>1, <2>2
<1> QED
  BY <1>1, <1>2, PTL DEF EncreSpec, ServesTheConnector, Registry!Service, Serves

=============================================================================
