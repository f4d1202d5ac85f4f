----------------------------- MODULE RtmpChunks ------------------------------
(***************************************************************************)
(* How an RTMP connection cuts messages into chunks, and how its peer puts *)
(* them together again: RTMPProtocolSerializer::Serialize, Header::Write   *)
(* and Read, BaseOutNetRTMPStream::FeedData and ChunkAndSend, and          *)
(* ProcessBytes of BaseRTMPProtocol and of MonitorRTMPProtocol.            *)
(*                                                                         *)
(* One connection has one player, fed by a publisher on another RTMP       *)
(* connection whose messages arrive in pieces.  The peer gets what is      *)
(* sent token by token, a token being a chunk header or a payload byte.    *)
(*                                                                         *)
(* Some circumstances the code does not provide for: a status message on   *)
(* the channel of a half sent audio message, say.  They are named before   *)
(* the actions, and cut becomes TRUE when one of them occurs.              *)
(***************************************************************************)
EXTENDS Integers, Sequences, FiniteSets

CONSTANTS
  Sizes,        \* chunk sizes; the least one stands for the default, 128
  Lengths,      \* lengths of media messages
  InvokeLength, \* the length of an onStatus or command message
  MaxTs,        \* bound on the timestamps of the publisher
  MaxPlays,     \* bound on the players made
  TsRange,      \* timestamps are computed modulo TsRange, 2^32
  Extended,     \* the least timestamp with an extended field, 0x00ffffff
  AbortedChannels, \* channels on which the peer gives up a message of its own
  FedKinds,     \* the kinds of media the publisher sends
  SetupKinds,   \* those of them that have a codec setup message
  CommandIds,   \* the RTMP stream ids of the commands of the connection
  Offsets,      \* the offsets a client seeks to
  StreamIds     \* the RTMP stream ids a player is created on

Control == 2    \* the channel of protocol messages, stream 0
Commands == 3   \* BaseOutNetRTMPStream::GetCommandsChannelId
Reservable == 20 .. 22   \* _channelsPool, enough for one player
Channels == {Control, Commands} \cup Reservable

ASSUME ParametersAssumption ==
  /\ Sizes \subseteq Nat \ {0} /\ IsFiniteSet(Sizes) /\ Sizes # {}
  /\ Lengths \subseteq Nat /\ InvokeLength \in Nat \ {0}
  /\ SetupKinds \subseteq FedKinds /\ FedKinds \subseteq {"audio", "video"}
  /\ MaxTs \in Nat /\ TsRange \in Nat /\ TsRange > MaxTs
  /\ Extended \in Nat /\ Offsets \subseteq 0 .. TsRange - 1
  /\ StreamIds \subseteq Nat \ {0} /\ CommandIds \subseteq Nat
  /\ MaxPlays \in Nat /\ AbortedChannels \subseteq Channels

Kinds == {"audio", "video"}
DefaultSize == CHOOSE s \in Sizes : \A t \in Sizes : s <= t
NoStream == -1
NoDelta == -1

\* memset of a Header, and Channel::Reset of the two directions.
NoHeader == [mt |-> "none", ml |-> 0, ts |-> 0, si |-> 0]
FreshOut == [hdr |-> NoHeader, proc |-> 0, absTs |-> 0, sid |-> NoStream]
FreshIn == [hdr |-> NoHeader, proc |-> 0, absTs |-> 0]

\* A player that was not created, or whose out stream was deleted.
NoPlayer ==
  [open |-> FALSE, attached |-> FALSE, paused |-> FALSE, si |-> 0,
   feeder |-> 0, delta |-> NoDelta, seek |-> 0,
   chan |-> [k \in Kinds |-> 0],      \* _pChannelAudio, _pChannelVideo
   spare |-> 0,                       \* _pChannelCommands
   first |-> [k \in Kinds |-> TRUE],  \* _isFirstAudioFrame, ...
   dropped |-> [k \in Kinds |-> FALSE],
   ts |-> [k \in Kinds |-> 0],        \* H_TS of _audioHeader, ...
   bucket |-> [k \in Kinds |-> <<>>]]

VARIABLES
  out,        \* the outbound half of the channels of the connection
  outChunk,   \* _outboundChunkSize, the _chunkSize of all its players
  pool,       \* _channelsPool
  player,     \* the BaseOutNetRTMPStream
  feed,       \* the publisher and the messages that arrive from it
  peer,       \* the peer of the connection, as MonitorRTMPProtocol is
  plays,      \* the players made so far
  cut         \* history: a message was cut

vars == <<out, outChunk, pool, player, feed, peer, plays, cut>>

Least(a, b) == IF a < b THEN a ELSE b

\* What a handler works on, until Commit: the state, with the peer as it will be
\* when it has got what was sent.
Work == [chan |-> out, chunk |-> outChunk, player |-> player, peer |-> peer]

-----------------------------------------------------------------------------
(* The peer: ProcessBytes, for one more token in its buffer. *)

\* Header::Read.  A field the type of the chunk leaves out is the last one's.
ReadHeader(old, t) ==
  CASE t.ht = "full" -> t.h
    [] t.ht = "stream" -> [t.h EXCEPT !.si = old.si]
    [] t.ht = "length" -> [old EXCEPT !.ts = t.h.ts]
    [] t.ht = "cont" -> old

\* The timestamp a chunk header makes of the message.
ReadAbsTs(c, t) ==
  LET ts == ReadHeader(c.hdr, t).ts
  IN  CASE t.ht = "full" -> ts
        [] t.ht \in {"stream", "length"} -> (c.absTs + ts) % TsRange
        [] t.ht = "cont" -> IF c.proc = 0 THEN (c.absTs + ts) % TsRange
                            ELSE c.absTs

Garbled(m) == [m EXCEPT !.garbled = TRUE, !.sel = 0, !.buffer = <<>>]

\* CS_HEADER.  A continuation has the extended timestamp field if the last
\* full header of the channel had one.
TakeHeader(m) ==
  LET t == Head(m.buffer)
  IN  IF "ht" \notin DOMAIN t
      THEN Garbled(m)
      ELSE LET c == m.chans[t.ch]
           IN  IF t.ht = "cont" /\ (t.h.ts >= Extended) # (c.hdr.ts >= Extended)
               THEN Garbled(m)
               ELSE [m EXCEPT !.sel = t.ch,
                              !.buffer = Tail(@),
                              !.chans[t.ch].hdr = ReadHeader(c.hdr, t),
                              !.chans[t.ch].absTs = ReadAbsTs(c, t)]

\* The payload that follows: what is left of the message, a chunk at most.
\* The subtraction is unsigned.
PayloadSize(m) ==
  LET c == m.chans[m.sel]
  IN  IF c.hdr.ml < c.proc THEN m.chunk
      ELSE Least(c.hdr.ml - c.proc, m.chunk)

\* The bytes are the next ones of the message the header names, at its time.
Expected(c, bytes) ==
  \A i \in DOMAIN bytes :
    /\ "i" \in DOMAIN bytes[i]
    /\ bytes[i].mt = c.hdr.mt /\ bytes[i].ml = c.hdr.ml
    /\ bytes[i].i = c.proc + i

\* A media message starts at another time than the one it was sent for, and is
\* not a first frame of its player.
Mistimed(c, bytes) ==
  /\ bytes # <<>> /\ bytes[1].mt \in Kinds /\ bytes[1].i = 1
  /\ ~bytes[1].v.first
  /\ bytes[1].v.at # c.absTs

\* InboundMessageAvailable for the two messages about the channels themselves.
Complete(m, bytes) ==
  LET last == bytes[Len(bytes)]
  IN  CASE last.mt = "chunk" -> [m EXCEPT !.chunk = last.v]
        [] last.mt = "abort" -> [m EXCEPT !.chans[last.v] = FreshIn]
        [] OTHER -> m

\* The channel of the header, c, has got size bytes more.
Taken(m, c, size) ==
  LET done == c.proc + size
  IN  [m EXCEPT !.sel = 0,
                !.mistimed = @ \/ Mistimed(c, SubSeq(m.buffer, 1, size)),
                !.buffer = SubSeq(@, size + 1, Len(@)),
                !.chans[m.sel].proc = IF done = c.hdr.ml THEN 0 ELSE done]

TakeBytes(m, c, size, bytes) ==
  IF ~Expected(c, bytes) THEN Garbled(m)
  ELSE IF size > 0 /\ c.proc + size = c.hdr.ml
  THEN Complete(Taken(m, c, size), bytes)
  ELSE Taken(m, c, size)

\* CS_PAYLOAD.
TakePayload(m) ==
  LET size == PayloadSize(m)
  IN  TakeBytes(m, m.chans[m.sel], size, SubSeq(m.buffer, 1, size))

Payload(m) ==
  IF m.sel # 0 /\ Len(m.buffer) >= PayloadSize(m) THEN TakePayload(m) ELSE m

\* One more token has arrived.
Receive(m, token) ==
  LET got == [m EXCEPT !.buffer = Append(@, token)]
  IN  IF m.garbled THEN m
      ELSE Payload(IF got.sel = 0 THEN TakeHeader(got) ELSE got)

\* One by one, the tokens have arrived.
Delivered(m, tokens) ==
  LET got[i \in 0 .. Len(tokens)] ==
        IF i = 0 THEN m ELSE Receive(got[i - 1], tokens[i])
  IN  got[Len(tokens)]

-----------------------------------------------------------------------------
(* The writer. *)

\* The bytes from .. to of a message; v is what they say, for a media message
\* its time and whether it is a first frame.
Bytes(mt, ml, from, to, v) ==
  [j \in 1 .. to - from + 1 |->
     [mt |-> mt, ml |-> ml, i |-> from + j - 1, v |-> v]]

\* Header::Write: how much of the header the channel already has.
HeaderType(o, h) ==
  CASE o.sid # h.si -> "full"
    [] o.sid = h.si /\ o.proc # 0 -> "cont"
    [] o.sid = h.si /\ o.proc = 0 /\ h.ia -> "full"
    [] OTHER -> IF h.mt # o.hdr.mt \/ h.ml # o.hdr.ml THEN "stream"
                ELSE IF h.ts # o.hdr.ts THEN "length" ELSE "cont"

\* The fields of a header that the channel remembers, and the header as it is
\* sent when the channel was in state o.
Header(h) == [mt |-> h.mt, ml |-> h.ml, ts |-> h.ts, si |-> h.si]
Token(o, c, h) == [ht |-> HeaderType(o, h), ch |-> c, h |-> Header(h)]

WriteHeader(w, c, h) ==
  LET o == w.chan[c]
      t == HeaderType(o, h)
      absTs == CASE t = "full" -> h.ts
                 [] t # "full" /\ o.proc = 0 -> (o.absTs + h.ts) % TsRange
                 [] OTHER -> o.absTs
  IN  [w EXCEPT !.chan[c] = [hdr |-> Header(h), proc |-> o.proc,
                             absTs |-> absTs, sid |-> h.si]]

\* SendRawData of one chunk.
SendChunk(w, c, h, bytes) ==
  LET header == Token(w.chan[c], c, h)
  IN  [WriteHeader(w, c, h) EXCEPT !.peer = Delivered(@, <<header>> \o bytes),
                                   !.chan[c].proc = @ + Len(bytes)]

\* One round of the loop over the bytes left: a chunk is sent, if they are enough
\* for one or end the message.
Round(x, c, h, ends) ==
  LET n == Least(x.work.chunk, Len(x.left))
  IN  IF x.left # <<>> /\ (n = x.work.chunk \/ ends)
      THEN [work |-> SendChunk(x.work, c, h, SubSeq(x.left, 1, n)),
            left |-> SubSeq(x.left, n + 1, Len(x.left))]
      ELSE x

\* Each round that does anything sends a byte or more.
Chunked(w, c, h, bytes, ends) ==
  LET round[i \in 0 .. Len(bytes)] ==
        IF i = 0 THEN [work |-> w, left |-> bytes]
        ELSE Round(round[i - 1], c, h, ends)
  IN  round[Len(bytes)]

\* BaseRTMPProtocol::SendMessage and Serialize: the whole message at once.
SendMessage(w, c, h, v) ==
  LET x == Chunked(w, c, h, Bytes(h.mt, h.ml, 1, h.ml, v), TRUE)
  IN  [x.work EXCEPT !.chan[c].proc = 0]

\* GenericMessageFactory: chunk sizes and aborts.
ProtocolHeader(mt) == [mt |-> mt, ml |-> 1, ts |-> 0, si |-> 0, ia |-> TRUE]
CommandHeader(mt, si, ts, ia) ==
  [mt |-> mt, ml |-> InvokeLength, ts |-> ts, si |-> si, ia |-> ia]

\* GetUserControlStream: the begin or the end of the stream, say.
SendUserControl(w) == SendMessage(w, Control, ProtocolHeader("usrctrl"), 0)

\* A status message of the player: its channel is the one of the audio.
SendStatus(w, mt, ts, ia) ==
  SendMessage(w, w.player.chan["audio"],
              CommandHeader(mt, w.player.si, ts, ia), 0)

\* TrySetOutboundChunkSize.
TrySetOutboundChunkSize(w, s) ==
  IF w.chunk >= s THEN w
  ELSE SendMessage([w EXCEPT !.chunk = s], Control, ProtocolHeader("chunk"), s)

-----------------------------------------------------------------------------
(* BaseOutNetRTMPStream: the media. *)

\* The bytes of the current message of k that were sent or are in the bucket.
Forwarded(w, k) ==
  w.chan[w.player.chan[k]].proc + Len(w.player.bucket[k])

\* A message of no bytes is a header alone.
SendEmpty(w, k, h) == SendChunk(w, w.player.chan[k], h, <<>>)

\* ChunkAndSend when the publisher's chunks are as long as the player's: each
\* piece is taken to be one chunk.
PassThrough(w, k, h, bytes) ==
  LET c == w.player.chan[k]
      x == SendChunk(w, c, h, bytes)
  IN  [x EXCEPT !.chan[c].proc = @ % h.ml]

\* After the rounds of x: what is left waits in the bucket.
Bucketed(x, k, c, h) ==
  [x.work EXCEPT !.chan[c].proc = IF @ = h.ml THEN 0 ELSE @,
                 !.player.bucket[k] = x.left]

\* ChunkAndSend otherwise: whole chunks are sent and the rest waits in the
\* bucket, unless it ends the message.
Rechunk(w, k, h, bytes) ==
  LET c == w.player.chan[k]
      all == w.player.bucket[k] \o bytes
  IN  Bucketed(Chunked(w, c, h, all, w.chan[c].proc + Len(all) = h.ml), k, c, h)

ChunkAndSend(w, k, h, bytes) ==
  IF h.ml = 0 THEN SendEmpty(w, k, h)
  ELSE IF w.player.feeder = w.chunk /\ w.player.bucket[k] = <<>>
  THEN PassThrough(w, k, h, bytes)
  ELSE Rechunk(w, k, h, bytes)

\* Mutant: every piece of a message is allowed or dropped on its own.
AllowPiece(w, k, p, full) == ~full

\* AllowExecution: a message is dropped as a whole, and only when it starts
\* while too much waits in the output buffer (full).
AllowExecution(w, k, p, full) ==
  IF p # 0 THEN ~w.player.dropped[k] ELSE ~full

\* The time base is the time of the first frame that was let through.
TimeBase(pl, msg) == IF pl.delta = NoDelta THEN msg.ts ELSE pl.delta

\* When a message is due, for the player.
Due(pl, msg) == (msg.ts - TimeBase(pl, msg) + pl.seek) % TsRange

\* What the player notes of what it sends.
Noted(pl, k, msg, ts) ==
  [pl EXCEPT !.delta = TimeBase(pl, msg), !.dropped[k] = FALSE, !.ts[k] = ts,
             !.first[k] = @ /\ msg.flavor = "setup"]

\* The n bytes of msg after p others are sent or wait, under a header with
\* timestamp ts.
Send(w, k, msg, p, n, ts, ia) ==
  LET first == w.player.first[k]
      bytes == Bytes(k, msg.len, p + 1, p + n,
                     [at |-> Due(w.player, msg), first |-> first])
      h == [mt |-> k, ml |-> msg.len, ts |-> ts, si |-> w.player.si, ia |-> ia]
  IN  ChunkAndSend([w EXCEPT !.player = Noted(@, k, msg, ts)], k, h, bytes)

\* A first frame has to be whole, a key frame and not before the time base.
FirstFrame(w, k, msg, p, n) ==
  LET usable == n # 0 /\ p = 0 /\ (k = "audio" \/ msg.flavor # "inter")
                /\ TimeBase(w.player, msg) <= msg.ts
  IN  IF usable THEN Send(w, k, msg, p, n, Due(w.player, msg), TRUE)
      ELSE [w EXCEPT !.player.dropped[k] = FALSE]

\* Mutant: a timestamp is relative to the first frame.
LaterFrameAbsolute(w, k, msg, p, n, full) ==
  LET ts == IF p # 0 THEN w.player.ts[k] ELSE Due(w.player, msg)
  IN  IF AllowExecution(w, k, p, full)
      THEN Send(w, k, msg, p, n, ts, FALSE)
      ELSE [w EXCEPT !.player.dropped[k] = TRUE]

\* The others have a timestamp relative to what was last sent on the channel.
\* A negative one becomes a uint32_t modulo 2^32, as x86-64 converts it.
LaterFrame(w, k, msg, p, n, full) ==
  LET c == w.player.chan[k]
      ts == IF p # 0 THEN w.player.ts[k]
            ELSE (Due(w.player, msg) - w.chan[c].absTs) % TsRange
  IN  IF AllowExecution(w, k, p, full)
      THEN Send(w, k, msg, p, n, ts, FALSE)
      ELSE [w EXCEPT !.player.dropped[k] = TRUE]

\* FeedData of a piece that starts after p bytes of message msg.
FeedData(w, k, msg, p, n, full) ==
  CASE w.player.paused -> w
    [] ~w.player.paused /\ w.player.first[k] -> FirstFrame(w, k, msg, p, n)
    [] OTHER -> LaterFrame(w, k, msg, p, n, full)

\* InternalReset.  The timestamps of the headers are left, but none of them
\* is used before a first frame sets it.
Reset(pl) == [pl EXCEPT !.delta = NoDelta, !.seek = 0,
                        !.first = NoPlayer.first,
                        !.dropped = NoPlayer.dropped,
                        !.ts = NoPlayer.ts,
                        !.bucket = NoPlayer.bucket]

\* Mutant: the message left half sent is not aborted.
NoAbort(w, k) == w

\* SignalAttachedToInStream: a message left half sent on the channel by the
\* player that had it before is aborted.
Abort(w, k) ==
  LET c == w.player.chan[k]
  IN  IF w.chan[c].proc = 0 THEN w
      ELSE [SendMessage(w, Control, ProtocolHeader("abort"), c)
              EXCEPT !.chan[c] = FreshOut]

\* InNetRTMPStream::SignalOutStreamAttached: the codec setup it has kept.
FeedSetup(w, k) ==
  IF feed.init[k] = 0 THEN w
  ELSE FeedData(w, k, [len |-> feed.init[k], ts |-> feed.last,
                       flavor |-> "setup"], 0, feed.init[k], FALSE)

\* The meta data of a stream with video, once its codec is known.
Described(w) ==
  IF feed.init["video"] = 0 THEN w ELSE SendStatus(w, "notify", 0, FALSE)

\* The message of the publisher, on the stream si of the player.
Told(w, si, told) ==
  IF told
  THEN SendMessage(w, Commands, CommandHeader("invoke", si, 0, FALSE), 0)
  ELSE w

\* SignalAttachedToInStream and InNetRTMPStream::SignalOutStreamAttached.  Of
\* several messages alike one is kept, and whether the publisher has sent a
\* message of its own to pass on (told) is left open.
Attach(w, told) ==
  LET x == [w EXCEPT !.player.attached = TRUE, !.player.feeder = feed.size]
      begun == SendUserControl(Abort(Abort(x, "audio"), "video"))
      started == SendStatus(SendStatus(begun, "invoke", 0, TRUE),
                            "notify", 0, TRUE)
      described == Described(started)
      fed == FeedSetup(FeedSetup(described, "video"), "audio")
  IN  Told(fed, w.player.si, told)

\* SignalDetachedFromInStream.  The chunk size of the feeder is left, and set
\* again by the next Attach.
Detach(w) ==
  LET x == SendUserControl(SendStatus(SendStatus(w, "invoke", 0, TRUE),
                                      "invoke", 0, FALSE))
  IN  [x EXCEPT !.player = Reset([@ EXCEPT !.attached = FALSE, !.feeder = 0])]

\* SignalSeek.  What waits in the buckets is lost, and the rest of a message
\* that was half sent will not be sent.
SeekTo(w, offset) ==
  LET x == SendUserControl(w)
      y == SendStatus(SendStatus(SendStatus(x, "invoke", offset, TRUE),
                                 "invoke", 0, FALSE), "notify", 0, FALSE)
  IN  [y EXCEPT !.player = [Reset(@) EXCEPT !.seek = offset]]

-----------------------------------------------------------------------------
Init ==
  /\ out = [c \in Channels |-> FreshOut]
  /\ outChunk = DefaultSize
  /\ pool = <<20, 21, 22>>
  /\ player = NoPlayer
  /\ feed = [published |-> FALSE, size |-> DefaultSize, last |-> 0,
             msg |-> [k \in Kinds |-> [len |-> 0, ts |-> 0,
                                       flavor |-> "inter"]],
             done |-> [k \in Kinds |-> 0],
             init |-> [k \in Kinds |-> 0]]
  /\ peer = [chunk |-> DefaultSize, sel |-> 0, buffer |-> <<>>,
             chans |-> [c \in Channels |-> FreshIn], garbled |-> FALSE,
             mistimed |-> FALSE]
  /\ plays = 0
  /\ cut = FALSE

(* What cuts a message: the circumstances the code does not provide for. *)

CutIf(test) == cut' = (cut \/ test)

HalfSent(k) == out[player.chan[k]].proc # 0

\* A status message goes out in the middle of an audio message, or the rest of
\* a message that was half sent will not be sent.
Interrupts ==
  player.open /\ \/ HalfSent("audio")
                 \/ player.attached /\ HalfSent("video")

\* PassThrough of a piece that is less than a chunk: the publisher's chunks
\* have become shorter since the player was attached.
Misfit(msg, p) ==
  player.feeder = outChunk /\ feed.size < Least(outChunk, msg.len - p)

\* PassThrough of a codec setup that was kept when the publisher's chunks were
\* longer: it is more than a chunk.
Overlong ==
  /\ feed.published /\ feed.size = outChunk
  /\ \E k \in Kinds : feed.init[k] > outChunk

\* The rest of a codec setup is dropped: the next piece, too, is taken for the
\* beginning of a first frame.
BrokenSetup(k, msg) ==
  player.first[k] /\ msg.flavor = "setup" /\ feed.size < msg.len

\* The end of a handler.
Commit(w) ==
  /\ out' = w.chan /\ outChunk' = w.chunk /\ player' = w.player
  /\ peer' = w.peer

-----------------------------------------------------------------------------
(* The handlers. *)

\* A play: a player is made on the first channels of the pool, and attached
\* if the publisher is there.
Play(si, told) ==
  /\ ~player.open
  /\ plays < MaxPlays
  /\ plays' = plays + 1
  /\ LET pl == [NoPlayer EXCEPT !.open = TRUE, !.si = si,
                  !.chan = [k \in Kinds |-> IF k = "audio" THEN pool[1]
                                            ELSE pool[2]],
                  !.spare = pool[3]]
         w == [Work EXCEPT !.player = pl]
     IN  Commit(IF feed.published THEN Attach(w, told) ELSE w)
  /\ pool' = <<>>
  /\ CutIf(Overlong)
  /\ UNCHANGED feed

\* The out stream is deleted without a word on its channels, which go back to
\* the front of the pool one by one.
Close ==
  /\ player.open
  /\ player' = NoPlayer
  /\ pool' = <<player.spare, player.chan["video"], player.chan["audio"]>>
  /\ UNCHANGED <<out, outChunk, feed, peer, plays, cut>>

Publish ==
  /\ ~feed.published
  /\ feed' = [feed EXCEPT !.published = TRUE]
  /\ Commit(IF player.open THEN Attach(Work, FALSE) ELSE Work)
  /\ UNCHANGED <<pool, plays, cut>>

Unpublish ==
  /\ feed.published
  /\ feed' = [feed EXCEPT !.published = FALSE, !.last = 0,
                          !.init = [k \in Kinds |-> 0]]
  /\ Commit(IF player.attached THEN Detach(Work) ELSE Work)
  /\ CutIf(player.attached /\ HalfSent("audio"))
  /\ UNCHANGED <<pool, plays>>

\* SetInboundChunkSize of the publisher's connection.
PublisherSetsChunkSize(s) ==
  /\ feed.size # s
  /\ feed' = [feed EXCEPT !.size = s]
  /\ Commit(IF player.attached THEN TrySetOutboundChunkSize(Work, s) ELSE Work)
  /\ UNCHANGED <<pool, plays, cut>>

Flavors(k) == {"key"} \cup (IF k = "video" THEN {"inter"} ELSE {})
                      \cup (IF k \in SetupKinds THEN {"setup"} ELSE {})

\* A piece of message msg has arrived: one chunk of the publisher.
Piece(k, msg, full) ==
  LET p == feed.done[k]
      n == Least(feed.size, msg.len - p)
      ends == p + n = msg.len
      sets == p = 0 /\ n > 0 /\ msg.flavor = "setup" /\ feed.published
  IN  /\ feed' = [feed EXCEPT
                    !.msg[k] = IF ends THEN [len |-> 0, ts |-> msg.ts,
                                             flavor |-> "inter"] ELSE msg,
                    !.done[k] = IF ends THEN 0 ELSE p + n,
                    !.last = IF feed.published /\ k = "audio" THEN msg.ts
                             ELSE @,
                    !.init[k] = IF sets THEN n ELSE @]
      /\ Commit(IF player.attached THEN FeedData(Work, k, msg, p, n, full)
                ELSE Work)
      /\ CutIf(/\ player.attached /\ ~player.paused
               /\ Misfit(msg, p) \/ BrokenSetup(k, msg))
      /\ UNCHANGED <<pool, plays>>

MessageStarts(k, full) ==
  /\ feed.done[k] = 0
  /\ \E len \in Lengths, ts \in feed.msg[k].ts .. MaxTs, f \in Flavors(k) :
       /\ len = 0 => f # "setup"
       /\ Piece(k, [len |-> len, ts |-> ts, flavor |-> f], full)

MessageContinues(k, full) ==
  /\ feed.done[k] # 0
  /\ Piece(k, feed.msg[k], full)

\* A command of the connection or a message of the stream, on channel 3.
Command(si, ia) ==
  /\ Commit(SendMessage(Work, Commands, CommandHeader("invoke", si, 0, ia), 0))
  /\ UNCHANGED <<pool, feed, plays, cut>>

\* ProcessInvokePause and ProcessInvokeSeek: what ends a pause seeks first.
Pause ==
  /\ player.open
  /\ Commit(SendStatus([Work EXCEPT !.player.paused = TRUE],
                       "invoke", 0, FALSE))
  /\ CutIf(Interrupts)
  /\ UNCHANGED <<pool, feed, plays>>

Seek(offset) ==
  /\ player.open
  /\ Commit(SeekTo(Work, offset))
  /\ CutIf(Interrupts)
  /\ UNCHANGED <<pool, feed, plays>>

Resume(offset) ==
  /\ player.open
  /\ LET w == SeekTo(Work, offset)
     IN  Commit(SendStatus([w EXCEPT !.player.paused = FALSE],
                           "invoke", 0, FALSE))
  /\ CutIf(Interrupts)
  /\ UNCHANGED <<pool, feed, plays>>

\* ProcessAbortMessage: the peer gives up a message of its own, and ResetChannel
\* forgets both directions of the channel.  A message that waits in the bucket
\* has a timestamp relative to what is forgotten, and counts as cut.
PeerAborts(c) ==
  /\ out' = [out EXCEPT ![c] = FreshOut]
  /\ CutIf(\/ out[c].proc # 0
           \/ \E k \in Kinds : /\ player.open /\ player.chan[k] = c
                              /\ player.bucket[k] # <<>>)
  /\ UNCHANGED <<outChunk, pool, player, feed, peer, plays>>

Next ==
  \/ \E si \in StreamIds, told \in BOOLEAN : Play(si, told)
  \/ Close
  \/ Publish
  \/ Unpublish
  \/ \E s \in Sizes : PublisherSetsChunkSize(s)
  \/ \E k \in FedKinds, full \in BOOLEAN :
       MessageStarts(k, full) \/ MessageContinues(k, full)
  \/ \E si \in CommandIds, ia \in BOOLEAN : Command(si, ia)
  \/ Pause
  \/ \E offset \in Offsets : Seek(offset) \/ Resume(offset)
  \/ \E c \in AbortedChannels : PeerAborts(c)

Spec == Init /\ [][Next]_vars

-----------------------------------------------------------------------------
(* Properties. *)

\* A connection never sends more of a message than its length, a player holds its
\* three channels and no others, and no bucket holds a whole chunk back.
TypeOK ==
  /\ outChunk \in Sizes /\ cut \in BOOLEAN /\ plays \in 0 .. MaxPlays
  /\ \A c \in Channels :
       /\ out[c].sid \in StreamIds \cup CommandIds \cup {NoStream, 0}
       /\ out[c].absTs \in 0 .. TsRange - 1
       /\ peer.chans[c].absTs \in 0 .. TsRange - 1
       /\ ~cut => out[c].proc \in 0 .. out[c].hdr.ml
  /\ player.open <=> pool = <<>>
  /\ player.attached <=> player.open /\ feed.published
  /\ \A k \in Kinds :
       /\ player.open => player.chan[k] \in Reservable
       /\ Len(player.bucket[k]) < outChunk

\* The peer has understood all it was sent: it waits for a header, and agrees
\* with the connection on the chunk size and, for every channel used since it
\* was reset, on the header, the time and the bytes of the message.  What
\* Header::Write elides it takes the peer to know from lastOutHeader,
\* lastOutProcBytes, lastOutAbsTs and lastOutStreamId.
Understood ==
  /\ ~peer.garbled /\ peer.sel = 0 /\ peer.buffer = <<>>
  /\ peer.chunk = outChunk
  /\ \A c \in Channels :
       out[c].sid # NoStream =>
         /\ peer.chans[c].proc = out[c].proc
         /\ peer.chans[c].absTs = out[c].absTs
         /\ peer.chans[c].hdr = out[c].hdr

\* Types are kept and, until a message is cut, the peer and the connection are in
\* step, whatever was dropped, interleaved, aborted or left in a channel before.
InStep == TypeOK /\ (~cut => Understood)

\* Until a message is cut, what ChunkAndSend has sent of the message that
\* arrives for an attached player, and what it keeps in the bucket, are all of
\* it or nothing: AllowExecution and the first frames drop whole messages.
AllOrNothing ==
  ~cut /\ player.attached /\ ~player.paused =>
    \A k \in Kinds : Forwarded(Work, k) \in {0, feed.done[k]}

\* Until a message is cut, every media message but a first frame starts at the
\* time it was sent for, whatever was dropped, sought or said on its channel
\* before: FeedData's timestamps are relative to lastOutAbsTs.
LaterFramesOnTime == ~cut => ~peer.mistimed

\* ASSERT("Server sent invalid data") of SendMessage and SendRawData: the
\* monitor never refuses what the connection sends.
ValidData == ~peer.garbled

\* The runs that ask what holds until a message is cut stop there.
NotCut == ~cut

=============================================================================
