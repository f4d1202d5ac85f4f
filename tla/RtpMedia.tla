------------------------------- MODULE RtpMedia -------------------------------
(***************************************************************************)
(* Video over RTP from one server to another: OutNetRTPUDPH264Stream puts  *)
(* the pieces of an RTMP message together and cuts its NAL units into      *)
(* packets, OutboundConnectivity sends them with a sender report now and   *)
(* then, the network loses, repeats and reorders them, InboundRTPProtocol  *)
(* drops the late ones, and InNetRTPStream rebuilds the NAL units and puts *)
(* them on a time line.  Packets and reports carry their unwrapped number  *)
(* and time; the code sees them modulo SeqRange and TsRange.               *)
(***************************************************************************)
EXTENDS Integers, SequencesExt

CONSTANTS
  SeqRange,     \* 2^16
  TsRange,      \* 2^32
  ReportPeriod, \* packets from one sender report to the next (500)
  MaxMessages,  \* bound on the messages that are fed
  MaxWire,      \* bound on the packets on their way
  MaxFaults     \* bound on the packets lost, repeated or overtaken

ASSUME RtpAssumption ==
  /\ SeqRange \in Nat /\ SeqRange >= 4
  /\ TsRange \in Nat \ {0} /\ TsRange % 2 = 0
  /\ ReportPeriod \in Nat \ {0}

\* An RTMP video message: NAL units by their number of packets, cut into pieces
\* (the chunks of the publisher), composition time after its own.
Messages ==
  [setup : {FALSE}, pieces : {1}, nals : {<<2>>}, offset : {0, 2}]
    \cup [setup : {FALSE}, pieces : {2}, nals : {<<1, 3>>}, offset : {0}]
    \cup [setup : {TRUE}, pieces : {2}, nals : {<<>>}, offset : {0}]

VARIABLES
  feed,     \* the sender: messages so far, the one in progress and its next piece
  held,     \* _videoBuffer: pieces, each with its message
  sent,     \* _videoCounter and packetsCount, as the number of the next packet
  wire,     \* the packets on their way, in the order they were sent
  faults,   \* packets lost, repeated or overtaken so far
  report,   \* the sender report on its way: its time, -1 without one
  filter,   \* InboundRTPProtocol: _lastSeq, _seqRollOver and, as history, the
            \* number of the first packet and of the newest one
  nalu,     \* _currentNalu: the packets whose payload it holds
  synced,   \* _videoSequence
  media,    \* _videoLastRTP (its unwrapped time) and _videoRTPRollCount; the
            \* epoch of the first time as history
  rtcp,     \* presence, _videoNTP with _videoRTP, and the roll count of reports
  out,      \* the last NAL unit fed to the out streams: packets, stamp, time
  trouble   \* history: what happened that the receiver is not made for

rtpVars == <<feed, held, sent, wire, faults, report, filter, nalu, synced, media,
             rtcp, out, trouble>>
receiver == <<filter, nalu, synced, media, rtcp, out>>

Seq16(p) == p.num % SeqRange
Epoch(t) == t \div TsRange
Fresh(epoch) == [time |-> -1, rolls |-> 0, epoch |-> epoch]

-----------------------------------------------------------------------------
(* The sender. *)

RtpInit ==
  /\ feed = [count |-> 0, time |-> TsRange - 3, piece |-> 0, message |-> <<>>]
  /\ held = <<>> /\ wire = <<>> /\ faults = 0 /\ report = -1
  /\ \E first \in {1, SeqRange - 2} : sent = [next |-> first, first |-> first]
  /\ filter = [last |-> 0, rolls |-> 0, first |-> -1, newest |-> -1]
  /\ nalu = <<>> /\ synced = 0 /\ media = Fresh(-1)
  /\ rtcp = [presence |-> "unknown", started |-> FALSE, time |-> -1, rtp |-> 0,
             line |-> Fresh(-1), first |-> -1, firstTime |-> -1]
  /\ out = [packets |-> <<>>, stamp |-> 0, time |-> 0]
  /\ trouble = {}

\* The NAL units of the message the buffer begins with, if it is there whole.
WholeMessage(buffer) ==
  LET m == buffer[1].message
  IN  IF /\ Len(buffer) >= m.pieces
         /\ \A k \in 1..m.pieces : buffer[k] = [message |-> m, piece |-> k]
      THEN <<m>> ELSE <<>>

\* FeedDataVideoFUA: the packets of one NAL unit; the last one has the M bit.
Packetized(m, k, size, first, time) ==
  [i \in 1..size |->
     [num |-> first + i - 1, m |-> i = size, nal |-> <<m.id, k>>, time |-> time,
      part |-> IF size = 1 THEN "whole" ELSE IF i = 1 THEN "start"
               ELSE IF i = size THEN "end" ELSE "middle"]]

\* The packets of a message, or of what follows it in the buffer: bytes that
\* are refused (Bogus packet) or taken for a NAL unit.
CutAll(m, first, time) ==
  LET cut[k \in 0..Len(m.nals)] ==
        IF k = 0 THEN <<>>
        ELSE cut[k - 1] \o Packetized(m, k, m.nals[k], first + Len(cut[k - 1]), time)
  IN  cut[Len(m.nals)]
Garbage(first, time) == Packetized([id |-> -1], 1, 1, first, time)

\* FeedData: a report goes first when its turn has come; nothing at time 0.
Sends(packets) ==
  LET n == Len(packets)
      turns == {p \in Range(packets) : (p.num - sent.first) % ReportPeriod = 0}
  IN  /\ Len(wire) + n <= MaxWire
      /\ wire' = wire \o packets
      /\ sent' = [sent EXCEPT !.next = @ + n]
      /\ report' = IF turns # {} THEN (CHOOSE p \in turns : TRUE).time ELSE report

KeepsPiece(m, k) ==
  (IF k = 1 THEN <<>> ELSE held) \o <<[message |-> m, piece |-> k]>>

\* FeedDataVideo of piece k; only the first piece tells a codec setup.
FeedDataVideo(m, k) ==
  IF k = 1 /\ m.setup THEN UNCHANGED <<held, sent, wire, report, trouble>>
  ELSE LET buffer == KeepsPiece(m, k)
           whole == WholeMessage(buffer)
           time == m.time + buffer[1].message.offset
           body == IF whole = <<>> THEN <<>> ELSE CutAll(whole[1], sent.next, time)
           tail == whole # <<m>>
       IN  /\ held' = buffer
           /\ IF k < m.pieces THEN UNCHANGED <<sent, wire, report, trouble>>
              ELSE /\ trouble' = IF tail THEN trouble \cup {"tail"} ELSE trouble
                   /\ \/ Sends(body)
                      \/ tail /\ Sends(body \o Garbage(sent.next + Len(body), time))

FeedFirstPiece(shape) ==
  /\ feed.piece = 0 /\ feed.count < MaxMessages
  /\ LET m == [id |-> feed.count + 1, time |-> feed.time + 1,
               setup |-> shape.setup, pieces |-> shape.pieces,
               nals |-> shape.nals, offset |-> shape.offset]
     IN  /\ feed' = [count |-> m.id, time |-> m.time,
                     message |-> IF m.pieces > 1 THEN m ELSE <<>>,
                     piece |-> IF m.pieces > 1 THEN 2 ELSE 0]
         /\ FeedDataVideo(m, 1)
  /\ UNCHANGED <<faults, receiver>>

FeedNextPiece ==
  /\ feed.piece = 2
  /\ feed' = [feed EXCEPT !.piece = 0, !.message = <<>>]
  /\ FeedDataVideo(feed.message, 2)
  /\ UNCHANGED <<faults, receiver>>

-----------------------------------------------------------------------------
(* The receiver. *)

\* ComputeRTP: a roll is seen when the top bit falls.
Half(t) == t \div (TsRange \div 2)
High(t) == Half(t) % 2 = 1
ComputeRTP(line, time) ==
  [time |-> time,
   rolls |-> IF line.time # -1 /\ High(line.time) /\ ~High(time)
             THEN line.rolls + 1 ELSE line.rolls,
   epoch |-> IF line.epoch = -1 THEN Epoch(time) ELSE line.epoch]
Unwrapped(line) == line.rolls * TsRange + (line.time % TsRange)
GoesBack(line, time) == line.time # -1 /\ Half(time) < Half(line.time)

\* FeedData: nothing passes until it is known whether there are reports; then a
\* unit whose time goes back is dropped, and so is the one at time 0.
FeedData(packets, line) ==
  LET time == line.time
      raw == Unwrapped(line)
      fresh == rtcp.presence = "absent" /\ rtcp.first = -1
      first == IF fresh THEN raw ELSE rtcp.first
      stamp == IF rtcp.presence = "available" THEN rtcp.time + raw - rtcp.rtp
               ELSE raw - first
  IN  IF rtcp.presence = "unknown"
      THEN /\ \/ rtcp' = [rtcp EXCEPT !.presence = "absent"]
              \/ /\ ~rtcp.started
                 /\ rtcp' = [rtcp EXCEPT !.started = TRUE]
              \/ /\ rtcp.started
                 /\ rtcp' = [rtcp EXCEPT !.presence =
                               IF rtcp.time # -1 THEN "available" ELSE @]
           /\ UNCHANGED out
      ELSE /\ rtcp' = IF fresh THEN [rtcp EXCEPT !.first = raw, !.firstTime = time]
                      ELSE rtcp
           /\ out' = IF stamp < out.stamp \/ stamp = 0 THEN out
                     ELSE [packets |-> packets, stamp |-> stamp, time |-> time]

\* FeedVideoData.  Sequence number 0 doubles as "not in step".
Lost == nalu' = <<>> /\ synced' = 0 /\ UNCHANGED <<media, rtcp, out>>
Skip == UNCHANGED <<nalu, media, rtcp, out>>

\* Mutant: after a gap the packets kept so far stay.
OutOfStepKeeps(p) ==
  /\ synced # 0 /\ Seq16(p) # (synced + 1) % SeqRange
  /\ synced' = 0 /\ UNCHANGED <<nalu, media, rtcp, out>>

OutOfStep(p) ==
  /\ synced # 0 /\ Seq16(p) # (synced + 1) % SeqRange
  /\ Lost

Resync(p) ==
  /\ synced = 0
  /\ synced' = IF p.m THEN Seq16(p) ELSE 0
  /\ Skip

InStepPacket(p) ==
  /\ synced # 0 /\ Seq16(p) = (synced + 1) % SeqRange
  /\ media' = ComputeRTP(media, p.time)
  /\ \/ /\ p.part = "whole" /\ synced' = Seq16(p) /\ UNCHANGED nalu
        /\ FeedData(<<p>>, media')
     \/ /\ p.part # "whole" /\ nalu = <<>>
        /\ IF p.part = "start" THEN nalu' = <<p>> /\ synced' = Seq16(p)
           ELSE nalu' = nalu /\ synced' = 0
        /\ UNCHANGED <<rtcp, out>>
     \/ /\ p.part # "whole" /\ nalu # <<>> /\ synced' = Seq16(p)
        /\ IF p.part = "end" THEN nalu' = <<>> /\ FeedData(nalu \o <<p>>, media')
           ELSE nalu' = nalu \o <<p>> /\ UNCHANGED <<rtcp, out>>

FeedVideoData(p) == OutOfStep(p) \/ Resync(p) \/ InStepPacket(p)

\* Mutant: a smaller number always means a roll.
IsOldNever(p) == FALSE

\* SignalInputData: a packet that is a little older than the newest is dropped,
\* one that seems much older is taken for the first after a roll.
IsOld(p) ==
  Seq16(p) < filter.last /\ filter.last - Seq16(p) <= (SeqRange - 1) \div 4
Counts(p) ==
  [last |-> Seq16(p),
   rolls |-> IF Seq16(p) < filter.last THEN filter.rolls + 1 ELSE filter.rolls,
   first |-> IF filter.first = -1 THEN p.num ELSE filter.first,
   newest |-> IF p.num > filter.newest THEN p.num ELSE filter.newest]

SignalInputData(p) ==
  IF IsOld(p) THEN UNCHANGED <<receiver, trouble>>
  ELSE /\ filter' = Counts(p)
       /\ FeedVideoData(p)
       /\ trouble' = trouble
            \cup {x \in {"late"} : p.num \div SeqRange < filter.newest \div SeqRange}
            \cup {x \in {"zero"} : Seq16(p) = 0 /\ nalu' # <<>>}
            \cup {x \in {"back"} : media' # media /\ GoesBack(media, p.time)}

-----------------------------------------------------------------------------
(* The network: a packet is lost, or arrives, maybe before the one sent ahead of
   it, maybe once more.  No packet is overtaken by more than a quarter of the
   numbers, and no more than half of the numbers are lost in a row, or of the
   time (six hours). *)

NearNewest(p) == filter.newest = -1 \/ p.num - filter.newest <= SeqRange \div 2
NearInTime(line, time) == line.time = -1 \/ time - line.time <= TsRange \div 2

Arrives(i, again) ==
  /\ i \in DOMAIN wire /\ i <= 2
  /\ NearNewest(wire[i]) /\ NearInTime(media, wire[i].time)
  /\ i = 2 => wire[2].num - wire[1].num <= (SeqRange - 1) \div 4
  /\ wire' = IF again THEN wire ELSE RemoveAt(wire, i)
  /\ again => filter.newest # wire[i].num
  /\ faults' = IF again \/ i = 2 THEN faults + 1 ELSE faults
  /\ SignalInputData(wire[i])
  /\ UNCHANGED <<feed, held, sent, report>>

PacketLost ==
  /\ wire # <<>> /\ wire' = Tail(wire) /\ faults' = faults + 1
  /\ UNCHANGED <<feed, held, sent, report, receiver, trouble>>

\* ReportSR.  The reports have a roll count of their own.
ReportArrives ==
  /\ report # -1 /\ report' = -1 /\ NearInTime(rtcp.line, report)
  /\ LET line == ComputeRTP(rtcp.line, report)
     IN  /\ rtcp' = [rtcp EXCEPT !.time = report, !.line = line,
                                 !.rtp = Unwrapped(line)]
         /\ trouble' = trouble
              \cup {x \in {"back"} : GoesBack(rtcp.line, report)}
  /\ UNCHANGED <<feed, held, sent, wire, faults, filter, nalu, synced, media, out>>

ReportLost ==
  /\ report # -1 /\ report' = -1
  /\ UNCHANGED <<feed, held, sent, wire, faults, receiver, trouble>>

RtpNext ==
  \/ \E shape \in Messages : FeedFirstPiece(shape)
  \/ FeedNextPiece
  \/ Arrives(1, FALSE)
  \/ /\ faults < MaxFaults
     /\ Arrives(1, TRUE) \/ Arrives(2, FALSE) \/ PacketLost
  \/ ReportArrives \/ ReportLost

RtpSpec == RtpInit /\ [][RtpNext]_rtpVars

-----------------------------------------------------------------------------
(* Properties. *)

NumberOf(o) == IF o.packets = <<>> THEN 0 ELSE o.packets[1].num

\* Every NAL unit that reaches the out streams is one that was sent, whole and
\* in the order of sending, whatever the network lost, repeated or reordered.  It
\* fails, as the code does, when the sequence passes through 0 within a unit (0 is
\* taken for "not in step" and the kept packets stay), and when the sender began
\* in the middle of a message or met a codec setup of several pieces; and the order
\* when a packet came late across the wrap, which passes for the first of the next
\* round (_videoBuffer, _videoSequence, _currentNalu).
NalsIntact ==
  [][out' # out =>
       \/ {"zero", "tail"} \cap trouble' # {}
       \/ LET ps == out'.packets
          IN  /\ ps[1].part \in {"whole", "start"} /\ ps[1].nal[1] # -1
              /\ ps[Len(ps)].m
              /\ \A i \in 1..Len(ps) - 1 :
                   ~ps[i].m /\ ps[i + 1].nal = ps[1].nal
                   /\ ps[i + 1].num = ps[i].num + 1
              /\ ps[1].num > NumberOf(out) \/ "late" \in trouble']_rtpVars

\* The extended sequence number of the receiver reports is that of the newest
\* packet, unless one came late across the wrap; and the stamp of every unit is
\* its time, counted from the first unit without reports, unless times went back
\* across a half of the range (B frames) or the wrap came before the first report.
CountersExact ==
  /\ filter.first # -1 /\ "late" \notin trouble =>
       filter.rolls * SeqRange + filter.last
         = filter.newest - SeqRange * (filter.first \div SeqRange)
  /\ out.packets # <<>> /\ "back" \notin trouble =>
       \/ rtcp.presence = "absent" /\ out.stamp = out.time - rtcp.firstTime
       \/ rtcp.presence = "available"
          /\ (out.stamp = out.time \/ rtcp.line.epoch # media.epoch)

=============================================================================
