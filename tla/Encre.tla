-------------------------------- MODULE Encre ---------------------------------
(***************************************************************************)
(* The application of this repository (applications/encre): the registry   *)
(* of meetings and users that a controller, the connector to UCEngine,     *)
(* keeps over the JSON command line protocol, the RTMP peers it admits,    *)
(* and the events it sends to the controller.  The streams themselves are  *)
(* those of RtmpStreams: here the outcome of the library's handler is free. *)
(***************************************************************************)
EXTENDS Integers, Sequences, FiniteSets, Functions, SequencesExt

CONSTANTS
  Clis,           \* connections of controllers
  RtmpPeers,      \* connections of clients
  Rooms, Uids, UserTokens, StreamNames,
  EncreCommands,    \* the commands that controllers send
  MaxCommandLength, \* in halves of a command, 8192 characters
  MaxAsked,       \* bound on the commands sent
  MaxEvents       \* bound on the events sent

VARIABLES
  meetings,   \* m_meetings: what a room knows of its users, uid -> token
  client,     \* m_client, the controller that is sent the events
  cli,        \* the connections of controllers: open, unread (the bytes left
              \* in the buffer of the carrier) and out (what was sent to it)
  wire,       \* what a controller has written and the server not yet read
  rtmp,       \* the connections of clients
  asked,      \* count of the commands
  events      \* count of the events

encreVars == <<meetings, client, cli, wire, rtmp, asked, events>>

None == "none"

-----------------------------------------------------------------------------
(* Commands and their lines *)

AllCommands ==
  [do : {"meeting.new", "meeting.del"}, name : Rooms]
    \cup [do : {"user.new"}, uid : Uids, token : UserTokens, room : Rooms]
    \cup [do : {"user.new", "user.del"}, uid : Uids, room : Rooms]
    \cup [do : {"stream.mute", "stream.record", "stream.new", "long"}]

ASSUME CommandsAssumption == EncreCommands \subseteq AllCommands
\* MAX_COMMAND_LENGTH is a number; who has not connected is nobody.
ASSUME LengthAssumption == MaxCommandLength \in Nat
ASSUME NoneAssumption == None \notin Uids

\* A command is two pieces of text and a line end; one that is too long is three.
Halves(cmd) == IF cmd.do = "long" THEN 3 ELSE 2
Text(cmd) == [i \in 1 .. Halves(cmd) |-> [part |-> i, of |-> cmd]]
Line(cmd) == Append(Text(cmd), [part |-> 0, of |-> cmd])
IsEnd(symbol) == symbol.part = 0

HasKeys(cmd, keys) == keys \subseteq DOMAIN cmd

-----------------------------------------------------------------------------
(* The registry: the ProcessInvoke... of CLIAppProtocolHandler *)

With(f, key, value) == [k \in DOMAIN f \cup {key} |->
                          IF k = key THEN value ELSE f[k]]
Without(f, key) == Restrict(f, DOMAIN f \ {key})

MeetingNew(ms, cmd) ==
  [ok |-> TRUE,
   meetings |-> IF cmd.name \in DOMAIN ms THEN ms
                ELSE With(ms, cmd.name, <<>>)]

MeetingDel(ms, cmd) ==
  [ok |-> cmd.name \in DOMAIN ms, meetings |-> Without(ms, cmd.name)]

UserNew(ms, cmd) ==
  IF ~HasKeys(cmd, {"uid", "token", "room"}) \/ cmd.room \notin DOMAIN ms
  THEN [ok |-> FALSE, meetings |-> ms]
  ELSE [ok |-> TRUE,
        meetings |-> With(ms, cmd.room,
                          With(ms[cmd.room], cmd.uid, cmd.token))]

UserDel(ms, cmd) ==
  IF \/ ~HasKeys(cmd, {"uid", "room"}) \/ cmd.room \notin DOMAIN ms
     \/ cmd.uid \notin DOMAIN ms[cmd.room]
  THEN [ok |-> FALSE, meetings |-> ms]
  ELSE [ok |-> TRUE,
        meetings |-> With(ms, cmd.room, Without(ms[cmd.room], cmd.uid))]

ProcessInvokeCommand(ms, cmd) ==
  CASE cmd.do = "user.new" -> UserNew(ms, cmd)
    [] cmd.do = "user.del" -> UserDel(ms, cmd)
    [] cmd.do = "meeting.new" -> MeetingNew(ms, cmd)
    [] cmd.do = "meeting.del" -> MeetingDel(ms, cmd)
    [] cmd.do \in {"stream.mute", "stream.record"} ->
         [ok |-> TRUE, meetings |-> ms]
    [] OTHER -> [ok |-> FALSE, meetings |-> ms]

-----------------------------------------------------------------------------
(* The controllers *)

Answer(ok) == [status |-> IF ok THEN "SUCCESS" ELSE "FAIL"]
Event(e) == [status |-> "EVENT", data |-> e]

Closed == [open |-> FALSE, unread |-> <<>>, out |-> <<>>]

\* One character of InboundJSONCLIProtocol::SignalInputData, with ParseCommand
\* and ProcessMessage.  w.command is the local string; a line end that was
\* executed stays in the buffer and is skipped.
ParseSymbolKeeps(w, symbol) ==
  IF w.failed THEN w
  ELSE IF ~IsEnd(symbol)
  THEN [w EXCEPT !.command = Append(@, symbol), !.unread = Append(@, symbol),
                 !.failed = Len(w.command) + 1 >= MaxCommandLength]
  ELSE IF w.command = <<>> THEN [w EXCEPT !.unread = <<symbol>>]
  ELSE LET done == ProcessInvokeCommand(w.meetings, Head(w.command).of)
       IN  [w EXCEPT !.command = <<>>,
                     !.unread = Append(@, symbol),
                     !.meetings = done.meetings,
                     !.out = Append(@, Answer(done.ok))]

ParseSymbol(w, symbol) ==
  IF w.failed THEN w
  ELSE IF ~IsEnd(symbol)
  THEN [w EXCEPT !.command = Append(@, symbol), !.unread = Append(@, symbol),
                 !.failed = Len(w.command) + 1 >= MaxCommandLength]
  ELSE IF w.command = <<>> THEN [w EXCEPT !.unread = <<symbol>>]
  ELSE LET done == ProcessInvokeCommand(w.meetings, Head(w.command).of)
       IN  [w EXCEPT !.command = <<>>, !.unread = <<symbol>>,
                     !.meetings = done.meetings,
                     !.out = Append(@, Answer(done.ok))]

\* The walk starts over at the first byte that was not ignored.
Parse(c, arrived) ==
  LET input == cli[c].unread \o arrived
      Walk[i \in 0 .. Len(input)] ==
        IF i > 0 THEN ParseSymbol(Walk[i - 1], input[i])
        ELSE [command |-> <<>>, unread |-> <<>>, failed |-> FALSE,
              meetings |-> meetings, out |-> cli[c].out]
  IN  Walk[Len(input)]

Unregister(c) == client' = IF client = c THEN None ELSE client

\* SetApplication calls RegisterProtocol: the newest controller is remembered.
CliConnects(c) ==
  /\ ~cli[c].open
  /\ cli' = [cli EXCEPT ![c] = [Closed EXCEPT !.open = TRUE]]
  /\ client' = c
  /\ UNCHANGED <<meetings, wire, rtmp, asked, events>>

ControllerSends(c, cmd) ==
  /\ cli[c].open /\ asked < MaxAsked
  /\ wire' = [wire EXCEPT ![c] = @ \o Line(cmd)]
  /\ asked' = asked + 1
  /\ UNCHANGED <<meetings, client, cli, rtmp, events>>

\* The next n bytes come in one read.
SignalInputData(c, n) ==
  LET w == Parse(c, SubSeq(wire[c], 1, n))
  IN  /\ cli[c].open
      /\ meetings' = w.meetings
      /\ IF w.failed
         THEN /\ cli' = [cli EXCEPT ![c] = Closed]
              /\ wire' = [wire EXCEPT ![c] = <<>>]
              /\ Unregister(c)
         ELSE /\ cli' = [cli EXCEPT ![c].unread = w.unread, ![c].out = w.out]
              /\ wire' = [wire EXCEPT ![c] = SubSeq(@, n + 1, Len(@))]
              /\ UNCHANGED client
      /\ UNCHANGED <<rtmp, asked, events>>

CliCloses(c) ==
  /\ cli[c].open
  /\ cli' = [cli EXCEPT ![c] = Closed]
  /\ wire' = [wire EXCEPT ![c] = <<>>]
  /\ Unregister(c)
  /\ UNCHANGED <<meetings, rtmp, asked, events>>

-----------------------------------------------------------------------------
(* The clients *)

\* The custom parameters of a connection that the application keeps, and its
\* stream: none, "neutral", or published with or without a file that records it.
\* told and untold are history: what the last stream.publish event said, and
\* that a stream ended while a controller was there who was not told.
Arrived == [open |-> TRUE, uid |-> None, token |-> None, room |-> None,
            publish |-> FALSE, streamName |-> None, stream |-> "none",
            file |-> FALSE, told |-> <<>>, untold |-> FALSE]
Gone == [Arrived EXCEPT !.open = FALSE]

\* SendControllerMessage, events in order; without a controller they are lost.
SendControllerMessages(es) ==
  /\ events' = events + Len(es)
  /\ cli' = IF client = None THEN cli
            ELSE [cli EXCEPT ![client].out =
                    @ \o [i \in DOMAIN es |-> Event(es[i])]]
  /\ UNCHANGED <<meetings, client, wire, asked>>

\* SignalStreamUnRegistered of the stream into a file.
NewRecord(p) == IF rtmp[p].file THEN <<[type |-> "new_record"]>> ELSE <<>>

StreamEvent(type, p, name) ==
  [type |-> type, uid |-> rtmp[p].uid, room |-> rtmp[p].room, name |-> name]

Unnoticed(p) == rtmp[p].stream = "live" /\ client # None

\* A handler returns FALSE, or the peer is gone: the connection is enqueued, and
\* its streams are unregistered at once (BaseClientApplication::UnRegisterProtocol).
Close(p) ==
  /\ rtmp' = [rtmp EXCEPT ![p] = [Gone EXCEPT !.untold = Unnoticed(p)]]
  /\ SendControllerMessages(NewRecord(p))

PeerArrives(p) ==
  /\ ~rtmp[p].open
  /\ rtmp' = [rtmp EXCEPT ![p] = Arrived]
  /\ UNCHANGED <<meetings, client, cli, wire, asked, events>>

PeerLeaves(p) == rtmp[p].open /\ events < MaxEvents /\ Close(p)

Authorized(room, uid, token) ==
  /\ room \in DOMAIN meetings /\ uid \in DOMAIN meetings[room]
  /\ meetings[room][uid] = token

\* Mutant: a connection that connects again stays the publisher it was.
AdmittedStill(c, room, uid, token) ==
  [c EXCEPT !.uid = uid, !.token = token, !.room = room]

Admitted(c, room, uid, token) ==
  [c EXCEPT !.uid = uid, !.token = token, !.room = room, !.publish = FALSE]

\* ProcessInvokeConnect; base is what the library's handler returned, after it
\* has told the peer of success.  Nothing keeps a peer from connecting again.
InvokeConnect(p, room, uid, token, base) ==
  /\ rtmp[p].open /\ events < MaxEvents
  /\ IF base /\ Authorized(room, uid, token)
     THEN /\ rtmp' = [rtmp EXCEPT ![p] = Admitted(@, room, uid, token)]
          /\ UNCHANGED <<meetings, client, cli, wire, asked, events>>
     ELSE Close(p)

CreateStream(p) ==
  /\ rtmp[p].open /\ rtmp[p].stream = "none"
  /\ rtmp' = [rtmp EXCEPT ![p].stream = "neutral"]
  /\ UNCHANGED <<meetings, client, cli, wire, asked, events>>

\* ProcessInvokePublish: the library's handler makes the stream and its file, or
\* tells the peer that the name is taken, or fails; the application asks only
\* whether it returned TRUE and whether the request had its third parameter.
InvokePublish(p, name, base, files, valid) ==
  /\ rtmp[p].open /\ events < MaxEvents
  /\ base = "made" => rtmp[p].stream = "neutral"
  /\ files => base = "made" /\ valid
  /\ IF base = "fails" \/ ~valid THEN Close(p)
     ELSE LET e == StreamEvent("stream.publish", p, name)
          IN  /\ rtmp' = [rtmp EXCEPT
                            ![p].stream = IF base = "made" THEN "live" ELSE @,
                            ![p].file = @ \/ files,
                            ![p].streamName = name, ![p].publish = TRUE,
                            ![p].told = e]
              /\ SendControllerMessages(<<e>>)

\* ProcessInvokePlay.
PlayRefused(p) == rtmp[p].open /\ events < MaxEvents /\ Close(p)

\* ProcessInvokeDeleteStream: of this stream, or of another number.
DeleteStream(p, base) ==
  /\ rtmp[p].open /\ events + 1 < MaxEvents
  /\ LET said == IF rtmp[p].publish
                 THEN <<StreamEvent("stream.delete", p, rtmp[p].streamName)>>
                 ELSE <<>>
         ends == base = "closed" \/ base = "fails"
     IN  /\ SendControllerMessages(IF ends THEN said \o NewRecord(p) ELSE said)
         /\ rtmp' = [rtmp EXCEPT
                       ![p] = CASE base = "closed" ->
                                     [@ EXCEPT !.stream = "none", !.file = FALSE]
                                [] base = "other" -> @
                                [] base = "fails" -> Gone]

\* ProcessInvokeCloseStream and ProcessInvokeReleaseStream: the stream is neutral
\* again, and nobody is told.
CloseStream(p) ==
  /\ rtmp[p].open /\ rtmp[p].stream = "live" /\ events < MaxEvents
  /\ rtmp' = [rtmp EXCEPT ![p].stream = "neutral", ![p].file = FALSE,
                        ![p].untold = Unnoticed(p)]
  /\ SendControllerMessages(NewRecord(p))

-----------------------------------------------------------------------------
EncreInit ==
  /\ meetings = <<>> /\ client = None
  /\ cli = [c \in Clis |-> Closed] /\ wire = [c \in Clis |-> <<>>]
  /\ rtmp = [p \in RtmpPeers |-> Gone]
  /\ asked = 0 /\ events = 0

ControllersNext ==
  \E c \in Clis :
    \/ CliConnects(c) \/ CliCloses(c)
    \/ \E cmd \in EncreCommands : ControllerSends(c, cmd)
    \/ \E n \in 1 .. Len(wire[c]) : SignalInputData(c, n)

ClientsNext ==
  \E p \in RtmpPeers :
    \/ PeerArrives(p) \/ PeerLeaves(p) \/ CreateStream(p) \/ PlayRefused(p)
    \/ \E room \in Rooms, uid \in Uids, token \in UserTokens, base \in BOOLEAN :
         InvokeConnect(p, room, uid, token, base)
    \/ \E name \in StreamNames, base \in {"made", "told", "fails"},
          files, valid \in BOOLEAN : InvokePublish(p, name, base, files, valid)
    \/ \E base \in {"closed", "other", "fails"} : DeleteStream(p, base)
    \/ CloseStream(p)

EncreNext == ControllersNext \/ ClientsNext

EncreSpec == EncreInit /\ [][EncreNext]_encreVars

-----------------------------------------------------------------------------
(* Properties *)

\* The registry serves its controllers and admits clients as EncreService says,
\* however TCP cuts the lines of several controllers that come and go: the last
\* line end stays in the buffer, and a line read in part is read again.
RightsOf(ms) == UNION {{<<r, u, ms[r][u]>> : u \in DOMAIN ms[r]} : r \in DOMAIN ms}
Asks(symbol) == IF IsEnd(symbol) THEN <<symbol.of>> ELSE <<>>
Says(m) == IF m.status = "EVENT" THEN <<>> ELSE <<m.status>>
Undelivered(symbols) == FlattenSeq([i \in DOMAIN symbols |-> Asks(symbols[i])])
Answers(out) == FlattenSeq([i \in DOMAIN out |-> Says(out[i])])
Registry == INSTANCE EncreService WITH
  Controllers <- Clis, Peers <- RtmpPeers, Commands <- EncreCommands,
  Tokens <- UserTokens,
  rooms <- DOMAIN meetings, rights <- RightsOf(meetings),
  asked <- [c \in Clis |-> Undelivered(wire[c])],
  answers <- [c \in Clis |-> Answers(cli[c].out)],
  session <- [p \in RtmpPeers |->
                 IF rtmp[p].uid = None THEN <<>>
                 ELSE <<rtmp[p].room, rtmp[p].uid, rtmp[p].token>>]
ServesTheConnector == Registry!Service

\* What a deleteStream says to the controller names the user, the room and the
\* stream of the publish that was announced before on that connection, although
\* publish is never reset by it and connects may come in between; and m_client
\* is a live connection (RegisterProtocol, UnRegisterProtocol).
EventsPaired ==
  /\ client # None => cli[client].open
  /\ \A p \in RtmpPeers :
       rtmp[p].publish =>
         rtmp[p].told = StreamEvent("stream.publish", p, rtmp[p].streamName)

\* "It notifies via UCE your client when new stream are pusblished or when they
\* are stopped" (README.rdoc): no stream ends that the controller is not told of.
StoppedIsAnnounced == \A p \in RtmpPeers : ~rtmp[p].untold

=============================================================================
