------------------------------ MODULE TsIngest -------------------------------
(***************************************************************************)
(* One MPEG-TS connection: InboundTSProtocol, which maps pids by the PAT   *)
(* and PMT tables, and the InNetTSStream of each program it has set up.    *)
(* The source is a mock that interleaves tables, video and audio; packets  *)
(* may be lost (so is what a resynchronisation skips) or sent twice.  The  *)
(* payload of a packet is one cell, which begins a unit (a NAL, an ADTS    *)
(* frame) or holds more of it.                                             *)
(***************************************************************************)
EXTENDS Integers, SequencesExt, TLC

CONSTANTS
  TsPids,        \* pids of elementary streams
  Pmts,          \* the tables the source may send, [audio |-> pid, video |-> pid]
  VideoShapes,   \* the units, cell by cell, of the first video PES packets, and
                 \* of all that follow
  AudioShapes,   \* the same of audio
  PtsSteps,      \* how the time stamps of a pid may advance; NoPts: none is sent
  CounterRange,  \* continuity counters, 16 in the code
  PtsRange,      \* time stamps, 2^33 in the code
  MaxTables,     \* bound on the tables sent
  MaxTsSent,     \* bound on the other packets sent
  MaxTsFaults,   \* bound on the packets lost or sent twice
  MaxPrograms    \* bound on the streams made

ASSUME TsAssumption ==
  /\ CounterRange \in Nat \ {0} /\ PtsRange \in Nat \ {0}
  /\ MaxTsFaults < CounterRange - 1   \* a loss of all counters is not seen
  /\ MaxTables \in Nat /\ MaxTsSent \in Nat /\ MaxPrograms \in Nat

Kinds == {"audio", "video"}
NoPts == -9
NoTable == [audio |-> 0, video |-> 0]

VARIABLES
  pids,        \* _pidMapping: the kind and the stream (0: NULL) of each pid
  psi,         \* the tables last read, by their crc; NoTable makes a PMT news
  programs,    \* the live InNetTSStreams
  made,        \* streams made so far
  tsEnded,     \* the connection is over, or a packet met a NULL stream
  sources,     \* mock: of each pid the frame, its cells to come, its counter and time
  given,       \* history: units given to players by the last packet
  tables,      \* history: tables sent so far
  tsSent,      \* history: other packets sent so far
  tsFaults     \* history: packets lost or sent twice

tsVars == <<pids, psi, programs, made, tsEnded, sources, given, tables, tsSent, tsFaults>>
-----------------------------------------------------------------------------
(* The source *)
Starts(type) == type # "more"
CellOf(frame, shape, at) ==
  [frame |-> frame, at |-> at, type |-> shape[at],
   ends |-> at = Len(shape) \/ Starts(shape[at + 1])]
Cells(frame, shape) == [at \in DOMAIN shape |-> CellOf(frame, shape, at)]

Idle == [frame |-> 0, cells |-> <<>>, count |-> 0, pts |-> PtsRange - 3, raw |-> NoPts]
Packet(src) ==
  [cell |-> Head(src.cells), start |-> Head(src.cells).at = 1,
   count |-> src.count, raw |-> src.raw]
After(src) == [src EXCEPT !.cells = Tail(@), !.count = (@ + 1) % CounterRange]

ShapeOf(kind, frame) ==
  LET shapes == IF kind = "video" THEN VideoShapes ELSE AudioShapes
  IN  shapes[IF frame <= Len(shapes) THEN frame ELSE Len(shapes)]

\* The states of the source of a pid in which it has a packet to send.
Ready(src, kind) ==
  LET next == [src EXCEPT !.frame = @ + 1, !.raw = NoPts,
                          !.cells = Cells(src.frame + 1, ShapeOf(kind, src.frame + 1))]
  IN  IF src.cells # <<>> THEN {src}
      ELSE (IF kind = "video" /\ NoPts \in PtsSteps THEN {next} ELSE {})
           \cup {[next EXCEPT !.pts = @ + step, !.raw = (src.pts + step) % PtsRange] :
                    step \in PtsSteps \ {NoPts}}
-----------------------------------------------------------------------------
(* InNetTSStream *)
NewSection == [seq |-> -1, raw |-> 0, rolls |-> 0, pts |-> 0, of |-> 0, bucket |-> <<>>]
NewProgram(pmt) ==
  [pmt |-> pmt, delta |-> -1, sps |-> FALSE, avc |-> FALSE,
   audio |-> NewSection, video |-> NewSection]

\* The units of a bucket, from the first cell that begins one.
RECURSIVE Units(_)
Units(bucket) ==
  IF bucket = <<>> THEN <<>>
  ELSE IF ~Starts(Head(bucket).type) THEN Units(Tail(bucket))
  ELSE LET last == CHOOSE n \in DOMAIN bucket :
                     /\ n = Len(bucket) \/ Starts(bucket[n + 1].type)
                     /\ \A m \in 2 .. n : ~Starts(bucket[m].type)
       IN  <<SubSeq(bucket, 1, last)>> \o Units(SubSeq(bucket, last + 1, Len(bucket)))

TooEarly(program, kind) == program.delta < 0 \/ program[kind].pts < program.delta

\* ProcessNal and InitializeVideoCapabilities: nothing is given before a PPS that
\* follows an SPS.
SpsBefore(program, units, n) ==
  program.sps \/ \E m \in 1 .. n - 1 : units[m][1].type = "sps"
HasAvc(program, units) ==
  program.avc \/ \E n \in DOMAIN units :
                   units[n][1].type = "pps" /\ SpsBefore(program, units, n)
HasSps(program, units) == SpsBefore(program, units, Len(units) + 1)
FirstFed(program, units) ==
  IF program.avc THEN 1
  ELSE CHOOSE n \in DOMAIN units : HasAvc(program, SubSeq(units, 1, n))
                                   /\ ~HasAvc(program, SubSeq(units, 1, n - 1))

Stamped(units, section) == [n \in DOMAIN units |-> [cells |-> units[n], of |-> section.of]]

HandleVideoData(program) ==
  LET units == Units(program.video.bucket)
      known == HasAvc(program, units)
      empty == [program EXCEPT !.video.bucket = <<>>]
  IN  IF TooEarly(program, "video") THEN [program |-> empty, given |-> <<>>]
      ELSE [program |-> [empty EXCEPT !.sps = HasSps(program, units), !.avc = known],
            given |-> IF known
                    THEN Stamped(SubSeq(units, FirstFed(program, units), Len(units)), program.video)
                    ELSE <<>>]

\* A frame that its PES packet does not hold to the end is thrown away.
HandleAudioData(program) ==
  LET units == Units(program.audio.bucket)
      empty == [program EXCEPT !.audio.bucket = <<>>]
  IN  IF (~program.avc /\ program.pmt.video # 0) \/ TooEarly(program, "audio")
      THEN [program |-> empty, given |-> <<>>]
      ELSE [program |-> empty,
            given |-> Stamped(SelectSeq(units, LAMBDA unit : Last(unit).ends), program.audio)]

\* A bug the project checks for: a lost packet leaves the bucket as it is.
GapKept(section, packet) == FALSE
Gap(section, packet) ==
  section.seq # -1 /\ (section.seq + 1) % CounterRange # packet.count

DropPacket(program, kind) == [program EXCEPT ![kind].bucket = <<>>]
Take(program, kind, cell) == [program EXCEPT ![kind].bucket = Append(@, cell)]

\* The time stamp, when it went from the upper half to the lower, has rolled.
Rolls(section, raw) ==
  section.rolls + (IF 2 * section.raw >= PtsRange /\ 2 * raw < PtsRange THEN 1 ELSE 0)
Clocked(program, kind, packet) ==
  [program EXCEPT ![kind].raw = packet.raw, ![kind].rolls = Rolls(program[kind], packet.raw)]
PtsOf(section) == section.raw + section.rolls * (PtsRange - 1)

\* What a packet that starts a PES packet does once the bucket is handled.
PesStart(program, kind, packet) ==
  LET clocked == Clocked(program, kind, packet)
      pts == PtsOf(clocked[kind])
      timed == [clocked EXCEPT ![kind].pts = pts, ![kind].of = packet.cell.frame,
                               !.delta = IF @ < 0 THEN pts ELSE @]
  IN  IF packet.raw = NoPts THEN DropPacket(program, kind)
      ELSE IF program[kind].pts > pts THEN DropPacket(clocked, kind)
      ELSE Take(timed, kind, packet.cell)

\* A bug the project checks for: the time stamp is read before the bucket is handled.
HandledLate(program, kind, packet) ==
  LET timed == PesStart(DropPacket(program, kind), kind, packet)
      waiting == [timed EXCEPT ![kind].bucket = program[kind].bucket]
      result == IF kind = "video" THEN HandleVideoData(waiting) ELSE HandleAudioData(waiting)
  IN  [program |-> [result.program EXCEPT ![kind].bucket = timed[kind].bucket],
       given |-> result.given]
BucketHandled(program, kind, packet) ==
  LET result == IF kind = "video" THEN HandleVideoData(program) ELSE HandleAudioData(program)
  IN  [program |-> PesStart(result.program, kind, packet), given |-> result.given]

FeedPayload(program, kind, packet) ==
  LET counted == [program EXCEPT ![kind].seq = packet.count]
  IN  IF Gap(program[kind], packet)
      THEN [program |-> DropPacket(counted, kind), given |-> <<>>]
      ELSE IF packet.start THEN BucketHandled(counted, kind, packet)
      ELSE [program |-> Take(counted, kind, packet.cell), given |-> <<>>]
-----------------------------------------------------------------------------
(* InboundTSProtocol *)
TsInit ==
  /\ pids = [p \in TsPids |-> [kind |-> "unknown", stream |-> 0]]
  /\ psi = [pat |-> 0, pmt |-> NoTable]
  /\ programs = <<>> /\ made = 0 /\ tsEnded = FALSE
  /\ sources = [p \in TsPids |-> Idle]
  /\ given = <<>> /\ tables = 0 /\ tsSent = 0 /\ tsFaults = 0

SendsTable == ~tsEnded /\ tables < MaxTables /\ tables' = tables + 1 /\ UNCHANGED tsSent
MaySend(p) ==
  /\ ~tsEnded /\ pids[p].kind \in Kinds
  /\ tsSent < MaxTsSent /\ tsSent' = tsSent + 1 /\ UNCHANGED tables

\* A new PAT makes the PMT news again, though it may be the same.
ProcessPidTypePAT(pat) ==
  /\ SendsTable
  /\ psi' = IF psi.pat = pat THEN psi ELSE [pat |-> pat, pmt |-> NoTable]
  /\ given' = <<>>
  /\ UNCHANGED <<pids, programs, made, tsEnded, sources, tsFaults>>

\* A bug the project checks for: the other pid of a deleted stream keeps it.
ForgottenOne(map, p) == [map EXCEPT ![p].stream = 0]
\* ~InNetTSStream: both its pids forget it.
Forgotten(map, p) ==
  [q \in TsPids |-> IF map[q].stream = map[p].stream THEN [map[q] EXCEPT !.stream = 0]
                    ELSE map[q]]

\* FreePidDescriptor for the pids of a table, audio first.
Freed(map, p) == IF p = 0 \/ map[p].stream = 0 THEN map ELSE Forgotten(map, p)
Mount(map, p, kind, stream) ==
  IF p = 0 THEN map ELSE [Freed(map, p) EXCEPT ![p] = [kind |-> kind, stream |-> stream]]
StreamsOf(map, table) == {map[p].stream : p \in {table.audio, table.video} \ {0}} \ {0}

\* The name is made of the pids.
NameTaken(pmt) == \E s \in DOMAIN programs : programs[s].pmt = pmt

ProcessPidTypePMT(pmt) ==
  /\ SendsTable /\ psi.pat # 0
  /\ given' = <<>>
  /\ UNCHANGED <<sources, tsFaults>>
  /\ IF psi.pmt = pmt THEN UNCHANGED <<pids, psi, programs, made, tsEnded>>
     ELSE IF NameTaken(pmt)
     THEN tsEnded' = TRUE /\ psi' = [psi EXCEPT !.pmt = pmt] /\ UNCHANGED <<pids, programs, made>>
     ELSE /\ made < MaxPrograms
          /\ made' = made + 1
          /\ psi' = [psi EXCEPT !.pmt = pmt]
          /\ pids' = Mount(Mount(pids, pmt.audio, "audio", made'), pmt.video, "video", made')
          /\ programs' = (made' :> NewProgram(pmt)) @@
               [s \in DOMAIN programs \ StreamsOf(pids, pmt) |-> programs[s]]
          /\ UNCHANGED tsEnded

\* A packet of a mapped pid (others are ignored) arrives; where the stream is
\* NULL that is the end of the process.
PayloadArrives(p, packet) ==
  IF pids[p].stream \notin DOMAIN programs
  THEN tsEnded' = TRUE /\ given' = <<>> /\ UNCHANGED programs
  ELSE LET result == FeedPayload(programs[pids[p].stream], pids[p].kind, packet)
       IN  /\ programs' = [programs EXCEPT ![pids[p].stream] = result.program]
           /\ given' = result.given
           /\ UNCHANGED tsEnded

KindAt(p) == IF \E pmt \in Pmts : pmt.video = p THEN "video" ELSE "audio"

ProcessPacket(p) ==
  /\ MaySend(p)
  /\ \E src \in Ready(sources[p], KindAt(p)) :
       /\ PayloadArrives(p, Packet(src))
       /\ sources' = [sources EXCEPT ![p] = After(src)]
  /\ UNCHANGED <<pids, psi, made, tsFaults>>

LosePacket(p) ==
  /\ MaySend(p) /\ tsFaults < MaxTsFaults
  /\ tsFaults' = tsFaults + 1
  /\ \E src \in Ready(sources[p], KindAt(p)) : sources' = [sources EXCEPT ![p] = After(src)]
  /\ given' = <<>>
  /\ UNCHANGED <<pids, psi, programs, made, tsEnded>>

\* A packet that will be sent again.
RepeatPacket(p) ==
  /\ MaySend(p) /\ tsFaults < MaxTsFaults
  /\ tsFaults' = tsFaults + 1
  /\ \E src \in Ready(sources[p], KindAt(p)) :
       /\ PayloadArrives(p, Packet(src))
       /\ sources' = [sources EXCEPT ![p] = src]
  /\ UNCHANGED <<pids, psi, made>>

TsNext ==
  \/ \E pat \in 1 .. 2 : ProcessPidTypePAT(pat)
  \/ \E pmt \in Pmts : ProcessPidTypePMT(pmt)
  \/ \E p \in TsPids : ProcessPacket(p) \/ LosePacket(p) \/ RepeatPacket(p)
-----------------------------------------------------------------------------
\* A unit is whole when it has all its cells, of one frame and in order.
Whole(cells) ==
  /\ Starts(cells[1].type) /\ Last(cells).ends
  /\ \A n \in 2 .. Len(cells) :
       /\ cells[n].frame = cells[1].frame /\ cells[n].at = cells[1].at + n - 1
       /\ ~Starts(cells[n].type) /\ ~cells[n - 1].ends

\* Whatever is lost or repeated, players get whole units only, and a unit whose
\* frame had its start read has the time stamp of that frame (the units of a
\* frame whose start was lost or dropped carry the one before:
\* innettsstream.cpp:115, 192).
UnitsWhole ==
  \A n \in DOMAIN given :
    LET unit == given[n].cells
    IN  Whole(unit) /\ (unit[1].at = 1 => given[n].of = unit[1].frame)

\* No pid leads to a stream that was deleted with another pid.
PidsLeadToLiveStreams ==
  \A p \in TsPids : pids[p].stream \in DOMAIN programs \cup {0}

\* What comes out of a lossy transport stream is whole units, and no pid leads to a
\* deleted stream (InboundTSProtocol, InNetTSStream).
IngestHolds == UnitsWhole /\ PidsLeadToLiveStreams
=============================================================================
