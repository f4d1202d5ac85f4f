-------------------------- MODULE RtmpChunksProofs ---------------------------
(***************************************************************************)
(* Proofs about RtmpChunks, for any chunk sizes, lengths, timestamps and   *)
(* stream ids.                                                             *)
(*                                                                         *)
(* IInv, the inductive invariant, has two parts.  Types always holds: the  *)
(* parts of the state are of their kinds, no bucket holds a chunk, and     *)
(* every channel is with the player or in the pool.  Sync holds until a    *)
(* message is cut: the peer waits for a header and has on every channel    *)
(* what the connection takes it to have (Same), so that a header the       *)
(* connection leaves out can be filled in; and the player has, sent or in  *)
(* the bucket, all of the message that comes or nothing of it (Has), under *)
(* the header and the time its next chunk will be sent with (Holds).  The  *)
(* last is what makes the invariant inductive: a chunk that is sent later  *)
(* must still be the next one of the message the peer expects.             *)
(*                                                                         *)
(* The proof follows a handler from the bytes up: one token at the peer,   *)
(* a chunk (ChunkArrives), the loops over chunks (ChunkedTouches), whole   *)
(* messages (SendMessageKeeps), pieces of media (ChunkAndSendKeeps,        *)
(* FeedDataKeeps), a player that is attached, detached or sought, and then *)
(* the actions.                                                            *)
(***************************************************************************)
EXTENDS RtmpChunks, FiniteSetTheorems, TLAPS

Ids == StreamIds \cup CommandIds \cup {0}
Times == 0 .. TsRange - 1
MessageTypes == {"none", "audio", "video", "invoke", "notify", "usrctrl", "chunk", "abort"}
Headers == [mt : MessageTypes, ml : Nat, ts : Times, si : Ids]
OutChannels == [hdr : Headers, proc : Nat, absTs : Times, sid : Ids \cup {NoStream}]
InChannels == [hdr : Headers, proc : Nat, absTs : Times]

\* The tokens of the wire, and what bytes may say.
HeaderTokens == [ht : {"full", "stream", "length", "cont"}, ch : Channels, h : Headers]
Stamps == [at : Times, first : BOOLEAN]
Sayings(mt) == CASE mt \in Kinds -> Stamps
                 [] mt = "chunk" -> Sizes
                 [] mt = "abort" -> Channels
                 [] OTHER -> {0}
ByteTokens ==
  UNION {[mt : {mt}, ml : Nat, i : Nat, v : Sayings(mt)] : mt \in MessageTypes}
Tokens == HeaderTokens \cup ByteTokens

Peers == [chunk : Sizes, sel : Channels \cup {0}, buffer : Seq(Tokens),
          chans : [Channels -> InChannels], garbled : BOOLEAN, mistimed : BOOLEAN]
Players ==
  [open : BOOLEAN, attached : BOOLEAN, paused : BOOLEAN, si : Ids,
   feeder : Sizes \cup {0}, delta : Nat \cup {NoDelta}, seek : Times,
   chan : [Kinds -> Reservable \cup {0}], spare : Reservable \cup {0},
   first : [Kinds -> BOOLEAN], dropped : [Kinds -> BOOLEAN], ts : [Kinds -> Times],
   bucket : [Kinds -> Seq(ByteTokens)]]
Works == [chan : [Channels -> OutChannels], chunk : Sizes, player : Players, peer : Peers]
FeedMessages == [len : Nat, ts : 0 .. MaxTs, flavor : {"key", "inter", "setup"}]
Feeds == [published : BOOLEAN, size : Sizes, last : 0 .. MaxTs,
          msg : [Kinds -> FeedMessages], done : [Kinds -> Nat], init : [Kinds -> Nat]]

-----------------------------------------------------------------------------
(* What always holds. *)

\* No bucket holds a chunk.
BucketsSmall(w) == \A k \in Kinds : Len(w.player.bucket[k]) < w.chunk

\* The channels are in the pool (free), or with the player.
ChannelsHeld(pl, free) ==
  IF pl.open
  THEN /\ free = <<>>
       /\ \A k \in Kinds : pl.chan[k] \in Reservable \ {pl.spare}
       /\ pl.chan["audio"] # pl.chan["video"] /\ pl.spare \in Reservable
  ELSE /\ free \in Seq(Reservable) /\ Len(free) = 3
       /\ \A i, j \in 1 .. 3 : free[i] = free[j] => i = j

\* A player that is not attached has nothing of a message.
Unfed(pl) ==
  /\ pl.delta = NoDelta /\ pl.first = NoPlayer.first
  /\ pl.dropped = NoPlayer.dropped /\ pl.bucket = NoPlayer.bucket

\* The player and its publisher.
Fits(w, f) ==
  /\ w.player.attached <=> w.player.open /\ f.published
  /\ ~w.player.attached => Unfed(w.player)
  /\ w.player.attached => f.size <= w.chunk \/ f.size <= w.player.feeder
  /\ \A k \in Kinds : /\ f.done[k] # 0 => f.done[k] < f.msg[k].len
                      /\ ~f.published => f.init[k] = 0

\* All that holds in any state of the connection.
Sound(w, f, free) ==
  /\ w \in Works /\ f \in Feeds
  /\ BucketsSmall(w) /\ ChannelsHeld(w.player, free) /\ Fits(w, f)

Types == Sound(Work, feed, pool) /\ plays \in 0 .. MaxPlays /\ cut \in BOOLEAN

-----------------------------------------------------------------------------
(* What holds until a message is cut. *)

\* The two ends of a channel agree.
Same(o, i) ==
  /\ i.proc = o.proc /\ (o.proc = 0 \/ o.proc < o.hdr.ml)
  /\ IF o.sid = NoStream THEN o = FreshOut
     ELSE i.absTs = o.absTs /\ i.hdr = o.hdr /\ o.hdr.si = o.sid

Waits(m) == ~m.garbled /\ ~m.mistimed /\ m.sel = 0 /\ m.buffer = <<>>

Touches(w) ==
  /\ Waits(w.peer) /\ w.peer.chunk = w.chunk
  /\ \A c \in Channels : Same(w.chan[c], w.peer.chans[c])

\* Nothing is half sent on the channels whose messages are sent at once.
InTouch(w) ==
  Touches(w) /\ w.chan[Control].proc = 0 /\ w.chan[Commands].proc = 0

\* The bytes are those of a message that follow the first p.
Follow(bytes, mt, ml, p) ==
  \A j \in DOMAIN bytes : bytes[j].mt = mt /\ bytes[j].ml = ml /\ bytes[j].i = p + j

\* The next chunk on o is sent under the header of the one before, if there was one; the
\* bytes that wait for it are the next of the message, and begin it in time.
Holds(o, bucket, fresh, si, ts, k, len) ==
  /\ Follow(bucket, k, len, o.proc)
  /\ \/ fresh
     \/ o.sid = si
     \/ o = FreshOut
     \/ bucket # <<>> /\ o.proc = 0 /\ bucket[1].v.first
  /\ o.proc # 0 => o.sid = si /\ o.hdr = [mt |-> k, ml |-> len, ts |-> ts, si |-> si]
  /\ bucket # <<>> /\ o.proc = 0 =>
       bucket[1].v.first \/ bucket[1].v.at = (o.absTs + ts) % TsRange

\* What the player has of the message of kind k, of which done bytes have come:
\* all of it or nothing.
Has(w, k, len, done) ==
  LET pl == w.player
  IN  /\ Forwarded(w, k) = IF pl.first[k] \/ pl.dropped[k] THEN 0 ELSE done
      /\ Holds(w.chan[pl.chan[k]], pl.bucket[k], pl.first[k], pl.si, pl.ts[k], k, len)

Sync(w, f) ==
  /\ InTouch(w)
  /\ w.player.attached /\ ~w.player.paused =>
       \A k \in Kinds : Has(w, k, f.msg[k].len, f.done[k])

IInv == Types /\ (~cut => Sync(Work, feed))

-----------------------------------------------------------------------------
(* Numbers *)

LEMMA LeastIs ==
  ASSUME NEW a \in Nat, NEW b \in Nat
  PROVE  /\ Least(a, b) \in Nat /\ Least(a, b) <= a /\ Least(a, b) <= b
         /\ Least(a, b) = a \/ Least(a, b) = b
         /\ a <= b => Least(a, b) = a
         /\ b <= a => Least(a, b) = b
BY DEF Least

LEMMA Parameters ==
  /\ Sizes \subseteq Nat \ {0} /\ InvokeLength \in Nat \ {0}
  /\ TsRange \in Nat \ {0} /\ MaxTs \in Nat /\ MaxTs < TsRange
  /\ 0 \in Times /\ Offsets \subseteq Times /\ 0 .. MaxTs \subseteq Times
  /\ NoStream \notin Ids /\ Ids \subseteq Nat /\ 0 \in Ids /\ StreamIds \subseteq Ids /\ CommandIds \subseteq Ids
BY ParametersAssumption DEF Times, Ids, NoStream

\* What is taken modulo the range is a timestamp.
LEMMA Wrapped ==
  ASSUME NEW a \in Int
  PROVE  a % TsRange \in Times
BY Parameters DEF Times

\* There are no others below the range.
LEMMA InRange ==
  ASSUME NEW a \in Times
  PROVE  a % TsRange = a
BY Parameters DEF Times

\* A difference that is added again.
LEMMA AddedAgain ==
  ASSUME NEW a \in Times, NEW d \in Times
  PROVE  (a + ((d - a) % TsRange)) % TsRange = d
<1>1. CASE a <= d
  <2>1. d - a \in Times
    BY <1>1, Parameters DEF Times
  <2>2. (d - a) % TsRange = d - a
    BY <2>1, InRange
  <2> QED
    BY <2>2, InRange DEF Times
<1>2. CASE d < a
  <2>1. d - a + TsRange \in Times
    BY <1>2, Parameters DEF Times
  <2>2. (d - a) % TsRange = d - a + TsRange
    BY <1>2, <2>1, Parameters DEF Times
  <2>3. (d + TsRange) % TsRange = d
    BY Parameters DEF Times
  <2>4. a + (d - a + TsRange) = d + TsRange
    BY Parameters DEF Times
  <2> QED
    BY <2>2, <2>3, <2>4
<1> QED
  BY <1>1, <1>2 DEF Times

-----------------------------------------------------------------------------
(* Tokens *)

LEMMA TokenFields ==
  /\ \A t \in HeaderTokens : /\ "ht" \in DOMAIN t /\ t.ch \in Channels /\ t.h \in Headers
                             /\ t.ht \in {"full", "stream", "length", "cont"}
  /\ \A t \in ByteTokens : /\ "ht" \notin DOMAIN t /\ "i" \in DOMAIN t
                           /\ t.mt \in MessageTypes /\ t.ml \in Nat /\ t.i \in Nat
                           /\ t.v \in Sayings(t.mt)
  /\ \A t \in HeaderTokens : "i" \notin DOMAIN t
BY DEF HeaderTokens, ByteTokens

LEMMA ByteIs ==
  ASSUME NEW mt \in MessageTypes, NEW ml \in Nat, NEW i \in Nat, NEW v \in Sayings(mt)
  PROVE  [mt |-> mt, ml |-> ml, i |-> i, v |-> v] \in ByteTokens
BY DEF ByteTokens

LEMMA ChannelsAre ==
  /\ Channels = {2, 3, 20, 21, 22} /\ Reservable = {20, 21, 22}
  /\ Control = 2 /\ Commands = 3 /\ 0 \notin Channels
BY DEF Channels, Reservable, Control, Commands

LEMMA FreshIsTyped ==
  /\ FreshIn \in InChannels /\ FreshOut \in OutChannels /\ NoHeader \in Headers
  /\ FreshOut.proc = 0 /\ FreshOut.absTs = 0 /\ FreshOut.sid = NoStream
  /\ FreshIn.proc = 0 /\ FreshIn.absTs = 0
<1>1. NoHeader \in Headers
  BY Parameters DEF NoHeader, Headers, MessageTypes
<1>2. FreshIn \in InChannels
  BY <1>1, Parameters DEF FreshIn, InChannels
<1>3. FreshOut \in OutChannels
  BY <1>1, Parameters DEF FreshOut, OutChannels
<1> QED
  BY <1>1, <1>2, <1>3 DEF FreshIn, FreshOut

-----------------------------------------------------------------------------
(* The peer keeps its types, whatever it gets. *)

LEMMA ReadHeaderIsTyped ==
  ASSUME NEW old \in Headers, NEW t \in HeaderTokens
  PROVE  ReadHeader(old, t) \in Headers
<1>1. /\ t.ht \in {"full", "stream", "length", "cont"} /\ t.h \in Headers
  BY TokenFields
<1>2. CASE t.ht = "full"
  BY <1>1, <1>2 DEF ReadHeader
<1>3. CASE t.ht = "stream"
  <2>1. ReadHeader(old, t) = [t.h EXCEPT !.si = old.si]
    BY <1>3 DEF ReadHeader
  <2> QED
    BY <1>1, <2>1 DEF Headers
<1>4. CASE t.ht = "length"
  <2>1. ReadHeader(old, t) = [old EXCEPT !.ts = t.h.ts]
    BY <1>4 DEF ReadHeader
  <2> QED
    BY <1>1, <2>1 DEF Headers
<1>5. CASE t.ht = "cont"
  BY <1>5 DEF ReadHeader
<1> QED
  BY <1>1, <1>2, <1>3, <1>4, <1>5

LEMMA ReadAbsTsIsTyped ==
  ASSUME NEW c \in InChannels, NEW t \in HeaderTokens
  PROVE  ReadAbsTs(c, t) \in Times
<1> DEFINE ts == ReadHeader(c.hdr, t).ts
<1>1. t.ht \in {"full", "stream", "length", "cont"}
  BY TokenFields
<1>2. ts \in Times
  BY ReadHeaderIsTyped DEF InChannels, Headers
<1>3. c.absTs \in Times /\ c.proc \in Nat
  BY DEF InChannels
<1>4. (c.absTs + ts) % TsRange \in Times
  <2> HIDE DEF ts
  <2>1. c.absTs + ts \in Int
    BY <1>2, <1>3 DEF Times
  <2> QED
    BY <2>1, Wrapped
<1>5. CASE t.ht = "full"
  BY <1>2, <1>5 DEF ReadAbsTs
<1>6. CASE t.ht \in {"stream", "length"}
  BY <1>4, <1>6 DEF ReadAbsTs
<1>7. CASE t.ht = "cont"
  BY <1>3, <1>4, <1>7 DEF ReadAbsTs
<1> QED
  BY <1>1, <1>5, <1>6, <1>7

LEMMA GarbledIsTyped ==
  ASSUME NEW m \in Peers
  PROVE  Garbled(m) \in Peers
<1>1. <<>> \in Seq(Tokens) /\ 0 \in Channels \cup {0}
  OBVIOUS
<1> QED
  BY <1>1 DEF Garbled, Peers

LEMMA TakeHeaderIsTyped ==
  ASSUME NEW m \in Peers, m.buffer # <<>>
  PROVE  TakeHeader(m) \in Peers
<1> DEFINE t == Head(m.buffer)
           c == m.chans[t.ch]
<1>1. t \in Tokens /\ Tail(m.buffer) \in Seq(Tokens)
  <2>1. m.buffer \in Seq(Tokens)
    BY DEF Peers
  <2> QED
    BY <2>1
<1>2. Garbled(m) \in Peers
  BY GarbledIsTyped
<1>3. CASE "ht" \notin DOMAIN t \/ (t.ht = "cont" /\ (t.h.ts >= Extended) # (c.hdr.ts >= Extended))
  BY <1>2, <1>3 DEF TakeHeader
<1>4. CASE ~("ht" \notin DOMAIN t \/ (t.ht = "cont" /\ (t.h.ts >= Extended) # (c.hdr.ts >= Extended)))
  <2>1. t \in HeaderTokens
    BY <1>1, <1>4, TokenFields DEF Tokens
  <2>2. c \in InChannels /\ t.ch \in Channels
    BY <2>1, TokenFields DEF Peers
  <2>3. c.hdr \in Headers
    BY <2>2 DEF InChannels
  <2> DEFINE d == [c EXCEPT !.hdr = ReadHeader(c.hdr, t), !.absTs = ReadAbsTs(c, t)]
  <2>4. d \in InChannels
    BY <2>1, <2>2, <2>3, ReadHeaderIsTyped, ReadAbsTsIsTyped DEF InChannels
  <2>5. TakeHeader(m) = [m EXCEPT !.sel = t.ch, !.buffer = Tail(@),
                                  !.chans[t.ch].hdr = ReadHeader(c.hdr, t),
                                  !.chans[t.ch].absTs = ReadAbsTs(c, t)]
    BY <1>4 DEF TakeHeader
  <2> HIDE DEF t
  <2>6. TakeHeader(m) = [m EXCEPT !.sel = t.ch, !.buffer = Tail(@), !.chans[t.ch] = d]
    BY <2>2, <2>5, ZenonT(60) DEF Peers
  <2> HIDE DEF d
  <2> DEFINE chans == [m.chans EXCEPT ![t.ch] = d]
             tail == Tail(m.buffer)
  <2>7. chans \in [Channels -> InChannels]
    BY <2>4 DEF Peers
  <2>8. TakeHeader(m) = [m EXCEPT !.sel = t.ch, !.buffer = tail, !.chans = chans]
    BY <2>6
  <2>9. tail \in Seq(Tokens) /\ t.ch \in Channels \cup {0}
    BY <1>1, <2>2 DEF t
  <2> HIDE DEF chans, tail
  <2> QED
    BY <2>7, <2>8, <2>9 DEF Peers
<1> QED
  BY <1>3, <1>4

LEMMA PayloadSizeIsTyped ==
  ASSUME NEW m \in Peers, m.sel # 0
  PROVE  PayloadSize(m) \in Nat /\ PayloadSize(m) <= m.chunk
<1>1. m.chunk \in Nat /\ m.chans[m.sel] \in InChannels
  BY Parameters DEF Peers
<1>2. m.chans[m.sel].hdr.ml \in Nat /\ m.chans[m.sel].proc \in Nat
  BY <1>1 DEF InChannels, Headers
<1> DEFINE a == m.chans[m.sel].hdr.ml
           b == m.chans[m.sel].proc
<1>3. PayloadSize(m) = IF a < b THEN m.chunk ELSE Least(a - b, m.chunk)
  BY DEF PayloadSize
<1> HIDE DEF a, b
<1>4. a \in Nat /\ b \in Nat
  BY <1>2 DEF a, b
<1>5. CASE a < b
  BY <1>1, <1>3, <1>5
<1>6. CASE ~(a < b)
  <2>1. a - b \in Nat
    BY <1>4, <1>6
  <2> QED
    BY <1>1, <1>3, <1>6, <2>1, LeastIs
<1> QED
  BY <1>5, <1>6

\* The messages about the channels say what there is.
LEMMA CompleteIsTyped ==
  ASSUME NEW m \in Peers, NEW bytes \in Seq(ByteTokens), Len(bytes) # 0
  PROVE  Complete(m, bytes) \in Peers
<1> DEFINE last == bytes[Len(bytes)]
<1>1. last \in ByteTokens
  <2>1. Len(bytes) \in 1 .. Len(bytes)
    OBVIOUS
  <2> QED
    BY <2>1
<1> HIDE DEF last
<1>2. CASE last.mt = "chunk"
  <2>1. last.v \in Sizes
    BY <1>1, <1>2, TokenFields DEF Sayings, Kinds
  <2>2. Complete(m, bytes) = [m EXCEPT !.chunk = last.v]
    BY <1>2 DEF Complete, last
  <2> QED
    BY <2>1, <2>2 DEF Peers
<1>3. CASE last.mt = "abort"
  <2>1. last.v \in Channels
    BY <1>1, <1>3, TokenFields DEF Sayings, Kinds
  <2>2. Complete(m, bytes) = [m EXCEPT !.chans[last.v] = FreshIn]
    BY <1>3 DEF Complete, last
  <2> QED
    BY <2>1, <2>2, FreshIsTyped DEF Peers
<1>4. CASE last.mt # "chunk" /\ last.mt # "abort"
  BY <1>4 DEF Complete, last
<1> QED
  BY <1>2, <1>3, <1>4

LEMMA TakePayloadIsTyped ==
  ASSUME NEW m \in Peers, m.sel # 0, Len(m.buffer) >= PayloadSize(m)
  PROVE  TakePayload(m) \in Peers
<1> DEFINE size == PayloadSize(m)
           c == m.chans[m.sel]
           bytes == SubSeq(m.buffer, 1, size)
           done == c.proc + size
           left == SubSeq(m.buffer, size + 1, Len(m.buffer))
           proc == IF done = c.hdr.ml THEN 0 ELSE done
           next == [m EXCEPT !.sel = 0, !.mistimed = @ \/ Mistimed(c, bytes),
                             !.buffer = SubSeq(@, size + 1, Len(@)),
                             !.chans[m.sel].proc = proc]
<1>1. /\ m.buffer \in Seq(Tokens) /\ size \in Nat /\ m.sel \in Channels
      /\ m.chans \in [Channels -> InChannels] /\ m.mistimed \in BOOLEAN
  BY PayloadSizeIsTyped DEF Peers
<1>2. left \in Seq(Tokens)
  <2> HIDE DEF size
  <2> QED
    BY <1>1
<1>3. c \in InChannels
  BY <1>1
<1>4. proc \in Nat
  <2>1. c.proc \in Nat
    BY <1>3 DEF InChannels
  <2> QED
    BY <1>1, <2>1
<1> HIDE DEF size
<1>5. /\ bytes \in Seq(Tokens) /\ Len(bytes) = size
      /\ \A i \in 1 .. size : bytes[i] \in Tokens
  BY <1>1 DEF size
<1>6. next \in Peers
  <2> DEFINE d == [c EXCEPT !.proc = proc]
             late == m.mistimed \/ Mistimed(c, bytes)
  <2>1. d \in InChannels
    BY <1>3, <1>4 DEF InChannels
  <2>2. late \in BOOLEAN
    OBVIOUS
  <2>3. next = [m EXCEPT !.sel = 0, !.mistimed = late, !.buffer = left, !.chans[m.sel] = d]
    BY <1>1 DEF Peers
  <2> HIDE DEF d, late, left, next
  <2> QED
    BY <1>2, <1>1, <2>1, <2>2, <2>3 DEF Peers
<1> HIDE DEF next, bytes, proc
<1>7. TakePayload(m) = IF ~Expected(c, bytes) THEN Garbled(m)
                       ELSE IF size > 0 /\ done = c.hdr.ml THEN Complete(next, bytes)
                       ELSE next
  BY DEF TakePayload, TakeBytes, Taken, next, bytes, proc, size
<1>8. Garbled(m) \in Peers
  BY GarbledIsTyped
<1>9. CASE Expected(c, bytes) /\ size > 0
  <2>1. \A i \in 1 .. size : bytes[i] \in ByteTokens
    BY <1>5, <1>9, TokenFields DEF Expected, Tokens
  <2>2. bytes \in Seq(ByteTokens) /\ Len(bytes) # 0
    BY <1>1, <1>5, <1>9, <2>1
  <2> QED
    BY <1>6, <1>7, <1>9, <2>2, CompleteIsTyped
<1> QED
  BY <1>6, <1>7, <1>8, <1>9

LEMMA ReceiveIsTyped ==
  ASSUME NEW m \in Peers, NEW token \in Tokens
  PROVE  Receive(m, token) \in Peers
<1> DEFINE got == [m EXCEPT !.buffer = Append(@, token)]
<1>1. got \in Peers /\ got.buffer = Append(m.buffer, token) /\ m.buffer \in Seq(Tokens)
  <2>1. m.buffer \in Seq(Tokens)
    BY DEF Peers
  <2>2. Append(m.buffer, token) \in Seq(Tokens)
    BY <2>1
  <2> QED
    BY <2>1, <2>2 DEF Peers
<1>2. got.buffer # <<>>
  BY <1>1
<1>3. ASSUME NEW q \in Peers
      PROVE  Payload(q) \in Peers
  BY TakePayloadIsTyped DEF Payload
<1>4. TakeHeader(got) \in Peers
  BY <1>1, <1>2, TakeHeaderIsTyped
<1> HIDE DEF got
<1>5. Receive(m, token) \in {m, Payload(TakeHeader(got)), Payload(got)}
  BY DEF Receive, got
<1> QED
  BY <1>1, <1>3, <1>4, <1>5

-----------------------------------------------------------------------------
(* Recursive functions *)

\* A set of numbers has a least one.
LEMMA LeastNumber ==
  ASSUME NEW T, T \subseteq Nat, T # {}
  PROVE  \E x \in T : \A y \in T : x <= y
<1>1. PICK x \in T : \A y \in T : ~ (<<y, x>> \in OpToRel(<, Nat))
  BY WFMin, NatLessThanWellFounded, Zenon
<1>2. \A y \in T : ~(y < x)
  BY <1>1, Zenon DEF OpToRel
<1> QED
  BY <1>2

\* What holds at 0 and of the next number holds up to n.
LEMMA UpTo ==
  ASSUME NEW n \in Nat, NEW S, 0 \in S,
         \A i \in 0 .. n - 1 : i \in S => i + 1 \in S
  PROVE  \A i \in 0 .. n : i \in S
<1> SUFFICES ASSUME NEW k \in 0 .. n, k \notin S
             PROVE  FALSE
  OBVIOUS
<1> DEFINE T == {i \in 0 .. n : i \notin S}
<1>1. T \subseteq Nat /\ T # {}
  OBVIOUS
<1>2. PICK m \in T : \A i \in T : m <= i
  BY <1>1, LeastNumber
<1>3. m - 1 \in 0 .. n - 1 /\ m - 1 \notin T
  BY <1>2
<1> QED
  BY <1>2, <1>3

\* A function on 0 .. n, from b on by the steps of G.
Recursive(f, n, V, b, G) ==
  /\ f \in [0 .. n -> V]
  /\ f[0] = b /\ \A i \in 1 .. n : f[i] = G[<<f[i - 1], i>>]

\* A function may be defined from 0 on.
LEMMA Recursion ==
  ASSUME NEW n \in Nat, NEW V, NEW b \in V, NEW G \in [V \X (1 .. n) -> V]
  PROVE  \E f : Recursive(f, n, V, b, G)
<1> DEFINE Walks(f, k) == \A i \in 0 .. k : f[i] = IF i = 0 THEN b ELSE G[<<f[i - 1], i>>]
           S == {k \in 0 .. n : \E f \in [0 .. k -> V] : Walks(f, k)}
<1>1. 0 \in S
  <2>1. [i \in 0 .. 0 |-> b] \in [0 .. 0 -> V]
    OBVIOUS
  <2>2. Walks([i \in 0 .. 0 |-> b], 0)
    OBVIOUS
  <2>3. \E f \in [0 .. 0 -> V] : Walks(f, 0)
    <3> HIDE DEF Walks
    <3> QED
      BY <2>1, <2>2
  <2> QED
    BY <2>3
<1>2. ASSUME NEW k \in 0 .. n - 1, k \in S
      PROVE  k + 1 \in S
  <2>1. PICK f \in [0 .. k -> V] : Walks(f, k)
    BY <1>2
  <2> DEFINE g == [i \in 0 .. k + 1 |-> IF i = k + 1 THEN G[<<f[k], k + 1>>] ELSE f[i]]
  <2>2. k + 1 \in 1 .. n /\ f[k] \in V
    BY <1>2
  <2>3. G[<<f[k], k + 1>>] \in V
    BY <2>2
  <2>4. g \in [0 .. k + 1 -> V]
    BY <1>2, <2>3
  <2>5. ASSUME NEW i \in 0 .. k + 1
        PROVE  g[i] = IF i = 0 THEN b ELSE G[<<g[i - 1], i>>]
    <3>1. CASE i = k + 1
      <4>1. g[i] = G[<<f[k], k + 1>>] /\ g[i - 1] = f[k] /\ i # 0
        BY <1>2, <3>1
      <4> QED
        BY <3>1, <4>1
    <3>2. CASE i # k + 1
      <4>1. i \in 0 .. k /\ (i # 0 => i - 1 \in 0 .. k)
        BY <1>2, <3>2
      <4>2. g[i] = f[i] /\ (i # 0 => g[i - 1] = f[i - 1])
        BY <1>2, <4>1, <3>2
      <4> QED
        BY <2>1, <4>1, <4>2
    <3> QED
      BY <3>1, <3>2
  <2>6. Walks(g, k + 1)
    BY <2>5
  <2>7. \E h \in [0 .. k + 1 -> V] : Walks(h, k + 1)
    <3> HIDE DEF Walks, g
    <3> QED
      BY <2>4, <2>6
  <2> QED
    BY <2>7
<1>3. n \in S
  <2> HIDE DEF S
  <2> QED
    BY <1>1, <1>2, UpTo
<1>4. PICK f \in [0 .. n -> V] : Walks(f, n)
  BY <1>3
<1>5. f[0] = b
  <2>1. 0 \in 0 .. n
    OBVIOUS
  <2> QED
    BY <1>4, <2>1, Zenon
<1>6. ASSUME NEW i \in 1 .. n
      PROVE  f[i] = G[<<f[i - 1], i>>]
  BY <1>4
<1> QED
  BY <1>5, <1>6 DEF Recursive

\* What the tokens make of the peer, one by one.
LEMMA DeliveredIs ==
  ASSUME NEW m \in Peers, NEW tokens \in Seq(Tokens)
  PROVE  \E f \in [0 .. Len(tokens) -> Peers] :
           /\ f[0] = m /\ Delivered(m, tokens) = f[Len(tokens)]
           /\ \A i \in 1 .. Len(tokens) : f[i] = Receive(f[i - 1], tokens[i])
<1> DEFINE N == Len(tokens)
           G == [p \in Peers \X (1 .. N) |-> Receive(p[1], tokens[p[2]])]
<1>1. N \in Nat /\ \A k \in 1 .. N : tokens[k] \in Tokens
  OBVIOUS
<1>2. G \in [Peers \X (1 .. N) -> Peers]
  <2> HIDE DEF N
  <2> QED
    BY <1>1, ReceiveIsTyped
<1>3. PICK F : Recursive(F, N, Peers, m, G)
  <2> HIDE DEF G, N
  <2> QED
    BY <1>1, <1>2, Recursion
<1>4. F \in [0 .. N -> Peers]
      /\ F[0] = m /\ \A i \in 1 .. N : F[i] = G[<<F[i - 1], i>>]
  <2> HIDE DEF G, N
  <2> QED
    BY <1>3 DEF Recursive
<1>5. ASSUME NEW i \in 1 .. N
      PROVE  F[i] = Receive(F[i - 1], tokens[i])
  <2>1. F[i] = G[<<F[i - 1], i>>]
    <3> HIDE DEF G, N
    <3> QED BY <1>4
  <2>2. F[i - 1] \in Peers
    <3> HIDE DEF G, N
    <3> QED BY <1>1, <1>4
  <2> HIDE DEF N
  <2> QED
    BY <2>1, <2>2
<1> DEFINE Unfolds(g) ==
             g = [i \in 0 .. N |-> IF i = 0 THEN m ELSE Receive(g[i - 1], tokens[i])]
           H == CHOOSE g : Unfolds(g)
<1>6. Delivered(m, tokens) = H[N]
  BY DEF Delivered
<1> HIDE DEF N, G
<1>7. Unfolds(F)
  BY <1>1, <1>4, <1>5
<1>8. Unfolds(H)
  <2> HIDE DEF Unfolds
  <2> QED
    BY <1>7
<1> HIDE DEF H
<1>10. ASSUME NEW i \in 1 .. N
       PROVE  H[i] = Receive(H[i - 1], tokens[i])
  <2>1. i \in 0 .. N /\ i # 0
    BY <1>1
  <2> QED
    BY <1>8, <2>1
<1>9. H = F
  <2> DEFINE S == {i \in 0 .. N : H[i] = F[i]}
  <2>1. 0 \in S
    BY <1>1, <1>4, <1>8
  <2>2. ASSUME NEW i \in 0 .. N - 1, i \in S
        PROVE  i + 1 \in S
    <3>1. i + 1 \in 1 .. N /\ (i + 1) - 1 = i
      BY <1>1
    <3>2. H[i + 1] = Receive(H[i], tokens[i + 1])
      BY <1>10, <3>1
    <3>3. F[i + 1] = Receive(F[i], tokens[i + 1])
      BY <1>5, <3>1
    <3> QED
      BY <2>2, <3>1, <3>2, <3>3
  <2>3. \A i \in 0 .. N : i \in S
    <3> HIDE DEF S
    <3> QED
      BY <1>1, <2>1, <2>2, UpTo
  <2>4. H = [i \in 0 .. N |-> H[i]] /\ F = [i \in 0 .. N |-> F[i]]
    <3>1. DOMAIN H = 0 .. N
      BY <1>8
    <3> HIDE DEF Unfolds
    <3> QED
      BY <1>4, <1>8 DEF Unfolds
  <2> QED
    BY <2>3, <2>4
<1> QED
  BY <1>4, <1>5, <1>6, <1>9 DEF N

-----------------------------------------------------------------------------
(* The writer keeps its types. *)

\* Headers of messages to be sent: those of chunks, and whether to be absolute.
Announcements == [mt : MessageTypes, ml : Nat, ts : Times, si : Ids, ia : BOOLEAN]

TimeOf(o, h) ==
  IF HeaderType(o, h) = "full" THEN h.ts
  ELSE IF o.proc = 0 THEN (o.absTs + h.ts) % TsRange ELSE o.absTs

\* A channel on which h was the last header, and n bytes of its message were sent.
Wrote(o, h, n) == [hdr |-> Header(h), proc |-> n, absTs |-> TimeOf(o, h), sid |-> h.si]

LEMMA WorkFields ==
  ASSUME NEW w \in Works
  PROVE  /\ w.chan \in [Channels -> OutChannels] /\ w.chunk \in Sizes
         /\ w.player \in Players /\ w.peer \in Peers
BY DEF Works

LEMMA OutFields ==
  ASSUME NEW o \in OutChannels
  PROVE  /\ o.hdr \in Headers /\ o.proc \in Nat /\ o.absTs \in Times
         /\ o.sid \in Ids \cup {NoStream} /\ o.sid \in Int
         /\ o = [hdr |-> o.hdr, proc |-> o.proc, absTs |-> o.absTs, sid |-> o.sid]
<1>1. o = [hdr |-> o.hdr, proc |-> o.proc, absTs |-> o.absTs, sid |-> o.sid]
  BY DEF OutChannels
<1>2. o.hdr \in Headers /\ o.proc \in Nat /\ o.absTs \in Times /\ o.sid \in Ids \cup {NoStream}
  BY DEF OutChannels
<1>3. o.sid \in Int
  <2>1. NoStream \in Int
    BY DEF NoStream
  <2>2. \A i \in Ids : i \in Int
    BY Parameters
  <2> QED
    BY <1>2, <2>1, <2>2
<1> QED
  BY <1>1, <1>2, <1>3

LEMMA HeaderFields ==
  ASSUME NEW h \in Announcements
  PROVE  /\ h.mt \in MessageTypes /\ h.ml \in Nat /\ h.ts \in Times /\ h.si \in Ids
         /\ h.ia \in BOOLEAN /\ Header(h) \in Headers
         /\ Header(h).mt = h.mt /\ Header(h).ml = h.ml
         /\ Header(h).ts = h.ts /\ Header(h).si = h.si
BY DEF Announcements, Header, Headers

\* A work whose parts have their types.
LEMMA WorkIs ==
  ASSUME NEW chan \in [Channels -> OutChannels], NEW chunk \in Sizes,
         NEW pl \in Players, NEW m \in Peers
  PROVE  [chan |-> chan, chunk |-> chunk, player |-> pl, peer |-> m] \in Works
BY DEF Works

LEMMA WroteIsTyped ==
  ASSUME NEW o \in OutChannels, NEW h \in Announcements, NEW n \in Nat, NEW c \in Channels
  PROVE  /\ Wrote(o, h, n) \in OutChannels /\ TimeOf(o, h) \in Times
         /\ Token(o, c, h) \in HeaderTokens /\ Token(o, c, h) \in Tokens
<1>1. TimeOf(o, h) \in Times
  <2>1. o.absTs + h.ts \in Int /\ o.absTs \in Times /\ h.ts \in Times
    BY OutFields, HeaderFields DEF Times
  <2> QED
    BY <2>1, Wrapped DEF TimeOf
<1>2. Header(h) \in Headers /\ h.si \in Ids
  BY HeaderFields
<1>3. HeaderType(o, h) \in {"full", "stream", "length", "cont"}
  BY DEF HeaderType
<1>4. Token(o, c, h) \in HeaderTokens
  BY <1>2, <1>3 DEF Token, HeaderTokens
<1>5. Wrote(o, h, n) \in OutChannels
  BY <1>1, <1>2 DEF Wrote, OutChannels
<1> QED
  BY <1>1, <1>4, <1>5 DEF Tokens

LEMMA WriteHeaderIs ==
  ASSUME NEW w \in Works, NEW c \in Channels, NEW h \in Announcements
  PROVE  WriteHeader(w, c, h) =
           [chan |-> [w.chan EXCEPT ![c] = Wrote(@, h, @.proc)], chunk |-> w.chunk,
            player |-> w.player, peer |-> w.peer]
<1> DEFINE o == w.chan[c]
           t == HeaderType(o, h)
           absTs == CASE t = "full" -> h.ts
                      [] t # "full" /\ o.proc = 0 -> (o.absTs + h.ts) % TsRange
                      [] OTHER -> o.absTs
<1>1. o \in OutChannels /\ w.chan \in [Channels -> OutChannels]
  BY WorkFields
<1>2. absTs = TimeOf(o, h)
  BY DEF TimeOf
<1>3. [hdr |-> Header(h), proc |-> o.proc, absTs |-> absTs, sid |-> h.si] = Wrote(o, h, o.proc)
  BY <1>2 DEF Wrote
<1>4. WriteHeader(w, c, h) =
        [w EXCEPT !.chan[c] = [hdr |-> Header(h), proc |-> o.proc, absTs |-> absTs, sid |-> h.si]]
  BY DEF WriteHeader
<1> DEFINE chan == [w.chan EXCEPT ![c] = Wrote(o, h, o.proc)]
<1>6. WriteHeader(w, c, h) = [w EXCEPT !.chan = chan]
  BY <1>3, <1>4
<1>7. chan = [w.chan EXCEPT ![c] = Wrote(@, h, @.proc)]
  BY <1>1
<1> HIDE DEF chan
<1>8. WriteHeader(w, c, h) = [chan |-> chan, chunk |-> w.chunk, player |-> w.player, peer |-> w.peer]
  BY <1>6 DEF Works
<1> QED
  BY <1>7, <1>8

LEMMA DeliveredIsTyped ==
  ASSUME NEW m \in Peers, NEW tokens \in Seq(Tokens)
  PROVE  Delivered(m, tokens) \in Peers
<1>1. PICK f \in [0 .. Len(tokens) -> Peers] : Delivered(m, tokens) = f[Len(tokens)]
  BY DeliveredIs
<1>2. Len(tokens) \in 0 .. Len(tokens)
  OBVIOUS
<1> QED
  BY <1>1, <1>2

LEMMA BytesAreTokens ==
  ASSUME NEW bytes \in Seq(ByteTokens)
  PROVE  bytes \in Seq(Tokens) /\ Len(bytes) \in Nat
BY DEF Tokens

\* The first token, then the others.
LEMMA HeaderFirst ==
  ASSUME NEW m \in Peers, NEW token \in Tokens, NEW bytes \in Seq(Tokens)
  PROVE  Delivered(m, <<token>> \o bytes) = Delivered(Receive(m, token), bytes)
<1> DEFINE all == <<token>> \o bytes
           n == Len(bytes)
           r == Receive(m, token)
<1>1. /\ n \in Nat /\ all \in Seq(Tokens) /\ Len(all) = n + 1 /\ all[1] = token
      /\ \A i \in 1 .. n : all[i + 1] = bytes[i]
  OBVIOUS
<1>2. r \in Peers
  BY ReceiveIsTyped
<1> HIDE DEF all, r
<1>3. PICK f \in [0 .. n + 1 -> Peers] :
             /\ f[0] = m /\ Delivered(m, all) = f[n + 1]
             /\ \A i \in 1 .. n + 1 : f[i] = Receive(f[i - 1], all[i])
  <2>1. \E f \in [0 .. Len(all) -> Peers] :
           /\ f[0] = m /\ Delivered(m, all) = f[Len(all)]
           /\ \A i \in 1 .. Len(all) : f[i] = Receive(f[i - 1], all[i])
    BY <1>1, DeliveredIs
  <2>2. Len(all) = n + 1
    BY <1>1
  <2> HIDE DEF n
  <2> QED
    BY <2>1, <2>2, Zenon
<1>4. PICK g \in [0 .. n -> Peers] :
             /\ g[0] = r /\ Delivered(r, bytes) = g[n]
             /\ \A i \in 1 .. n : g[i] = Receive(g[i - 1], bytes[i])
  BY <1>2, DeliveredIs
<1> HIDE DEF n
<1> DEFINE S == {i \in 0 .. n : f[i + 1] = g[i]}
<1>5. 0 \in S
  <2>1. 1 \in 1 .. n + 1 /\ 1 - 1 = 0 /\ 0 + 1 = 1 /\ 0 \in 0 .. n
    BY <1>1
  <2>2. f[1] = Receive(m, token)
    BY <1>1, <1>3, <2>1
  <2> QED
    BY <1>4, <2>1, <2>2 DEF r
<1>6. ASSUME NEW i \in 0 .. n - 1, i \in S
      PROVE  i + 1 \in S
  <2>1. /\ i + 1 \in 1 .. n /\ (i + 1) - 1 = i /\ i + 1 \in 0 .. n
        /\ (i + 1) + 1 \in 1 .. n + 1 /\ ((i + 1) + 1) - 1 = i + 1
    BY <1>1
  <2>2. f[(i + 1) + 1] = Receive(f[i + 1], bytes[i + 1])
    BY <1>1, <1>3, <2>1
  <2>3. g[i + 1] = Receive(g[i], bytes[i + 1])
    BY <1>4, <2>1
  <2> QED
    BY <1>6, <2>1, <2>2, <2>3
<1>7. \A i \in 0 .. n : i \in S
  <2> HIDE DEF S
  <2> QED
    BY <1>1, <1>5, <1>6, UpTo
<1>8. n \in 0 .. n
  BY <1>1
<1> QED
  BY <1>3, <1>4, <1>7, <1>8 DEF all, r

\* What the peer has made of one chunk.
PeerOf(w, c, h, bytes) == Delivered(Receive(w.peer, Token(w.chan[c], c, h)), bytes)

LEMMA SendChunkIs ==
  ASSUME NEW w \in Works, NEW c \in Channels, NEW h \in Announcements,
         NEW bytes \in Seq(ByteTokens)
  PROVE  /\ SendChunk(w, c, h, bytes) =
              [chan |-> [w.chan EXCEPT ![c] = Wrote(@, h, @.proc + Len(bytes))],
               chunk |-> w.chunk, player |-> w.player, peer |-> PeerOf(w, c, h, bytes)]
         /\ SendChunk(w, c, h, bytes) \in Works
<1> DEFINE o == w.chan[c]
           n == Len(bytes)
           x == WriteHeader(w, c, h)
           r == Receive(w.peer, Token(o, c, h))
           d == Delivered(r, bytes)
           mid == [w.chan EXCEPT ![c] = Wrote(o, h, o.proc)]
           chan == [w.chan EXCEPT ![c] = Wrote(o, h, o.proc + n)]
<1>1. o \in OutChannels /\ w.chan \in [Channels -> OutChannels] /\ n \in Nat /\ o.proc \in Nat
  BY WorkFields, OutFields, BytesAreTokens
<1>2. x = [chan |-> mid, chunk |-> w.chunk, player |-> w.player, peer |-> w.peer]
  BY <1>1, WriteHeaderIs
<1>3. d \in Peers
  <2>1. r \in Peers
    BY <1>1, WorkFields, WroteIsTyped, ReceiveIsTyped
  <2> QED
    BY <2>1, BytesAreTokens, DeliveredIsTyped
<1>4. mid \in [Channels -> OutChannels] /\ chan \in [Channels -> OutChannels]
  <2>1. o.proc + n \in Nat
    BY <1>1
  <2>2. Wrote(o, h, o.proc) \in OutChannels /\ Wrote(o, h, o.proc + n) \in OutChannels
    BY <1>1, <2>1, WroteIsTyped
  <2> HIDE DEF o, n
  <2> QED
    BY <1>1, <2>2
<1>5. [mid EXCEPT ![c].proc = @ + n] = chan
  <2>1. mid[c] = Wrote(o, h, o.proc)
    BY <1>1
  <2>2. [Wrote(o, h, o.proc) EXCEPT !.proc = @ + n] = Wrote(o, h, o.proc + n)
    BY DEF Wrote
  <2> HIDE DEF o, n
  <2> QED
    BY <1>1, <1>4, <2>1, <2>2
<1> DEFINE header == Token(o, c, h)
<1>6. SendChunk(w, c, h, bytes) =
        [x EXCEPT !.peer = Delivered(@, <<header>> \o bytes), !.chan[c].proc = @ + n]
  BY DEF SendChunk
<1>11. Delivered(w.peer, <<header>> \o bytes) = d
  BY <1>1, WorkFields, WroteIsTyped, BytesAreTokens, HeaderFirst
<1> HIDE DEF x, mid, chan, r, n, o, d, header
<1>7. SendChunk(w, c, h, bytes) = [chan |-> chan, chunk |-> w.chunk, player |-> w.player, peer |-> d]
  BY <1>2, <1>5, <1>6, <1>11
<1>8. d = PeerOf(w, c, h, bytes)
  BY DEF PeerOf, d, r, o
<1>9. chan = [w.chan EXCEPT ![c] = Wrote(@, h, @.proc + Len(bytes))]
  BY <1>1 DEF chan, o, n
<1>10. SendChunk(w, c, h, bytes) \in Works
  BY <1>3, <1>4, <1>7, WorkFields, WorkIs
<1> QED
  BY <1>7, <1>8, <1>9, <1>10

-----------------------------------------------------------------------------
(* The loop over the bytes left *)

Rounds == [work : Works, left : Seq(ByteTokens)]

LEMMA RoundFields ==
  ASSUME NEW x \in Rounds
  PROVE  /\ x.work \in Works /\ x.left \in Seq(ByteTokens) /\ Len(x.left) \in Nat
         /\ x.work.chunk \in Nat \ {0} /\ x.work.chunk \in Sizes
<1>1. x.work \in Works /\ x.left \in Seq(ByteTokens)
  BY DEF Rounds
<1>2. x.work.chunk \in Sizes
  BY <1>1, WorkFields
<1>3. \A s \in Sizes : s \in Nat \ {0}
  BY Parameters
<1>4. Len(x.left) \in Nat
  BY <1>1
<1> QED
  BY <1>1, <1>2, <1>3, <1>4

\* A round sends a chunk, or does nothing.
Sendable(x, ends) == x.left # <<>> /\ (x.work.chunk <= Len(x.left) \/ ends)

LEMMA RoundIs ==
  ASSUME NEW x \in Rounds, NEW c \in Channels, NEW h \in Announcements,
         NEW ends \in BOOLEAN
  PROVE  LET n == Least(x.work.chunk, Len(x.left))
         IN  /\ Round(x, c, h, ends) =
                   IF Sendable(x, ends)
                   THEN [work |-> SendChunk(x.work, c, h, SubSeq(x.left, 1, n)),
                         left |-> SubSeq(x.left, n + 1, Len(x.left))]
                   ELSE x
             /\ Round(x, c, h, ends) \in Rounds
             /\ n \in Nat /\ n <= Len(x.left) /\ n <= x.work.chunk
             /\ Sendable(x, ends) => n # 0
             /\ SubSeq(x.left, 1, n) \in Seq(ByteTokens) /\ Len(SubSeq(x.left, 1, n)) = n
             /\ SubSeq(x.left, n + 1, Len(x.left)) \in Seq(ByteTokens)
             /\ Len(SubSeq(x.left, n + 1, Len(x.left))) = Len(x.left) - n
<1> DEFINE k == x.work.chunk
           m == Len(x.left)
           n == Least(k, m)
<1>1. k \in Nat \ {0} /\ m \in Nat /\ x.left \in Seq(ByteTokens) /\ x.work \in Works
  BY RoundFields
<1>2. n \in Nat /\ n <= m /\ n <= k /\ (n = k <=> k <= m) /\ (n = k \/ n = m)
  <2>1. k \in Nat /\ m \in Nat
    BY <1>1
  <2> HIDE DEF k, m
  <2>2. n \in Nat /\ n <= m /\ n <= k /\ (n = k \/ n = m) /\ (k <= m => n = k)
    BY <2>1, LeastIs
  <2> HIDE DEF n
  <2> QED
    BY <2>1, <2>2
<1>3. x.left # <<>> <=> m # 0
  BY <1>1
<1>4. Sendable(x, ends) => n # 0
  <2>1. Sendable(x, ends) => m # 0
    BY <1>3 DEF Sendable
  <2> HIDE DEF k, m, n
  <2> QED
    BY <1>1, <1>2, <2>1
<1>5. Round(x, c, h, ends) =
        IF Sendable(x, ends)
        THEN [work |-> SendChunk(x.work, c, h, SubSeq(x.left, 1, n)),
              left |-> SubSeq(x.left, n + 1, Len(x.left))]
        ELSE x
  BY <1>2 DEF Round, Sendable
<1> HIDE DEF n
<1>6. /\ SubSeq(x.left, 1, n) \in Seq(ByteTokens) /\ Len(SubSeq(x.left, 1, n)) = n
      /\ SubSeq(x.left, n + 1, Len(x.left)) \in Seq(ByteTokens)
      /\ Len(SubSeq(x.left, n + 1, Len(x.left))) = Len(x.left) - n
  BY <1>1, <1>2
<1>7. SendChunk(x.work, c, h, SubSeq(x.left, 1, n)) \in Works
  BY <1>1, <1>6, SendChunkIs
<1>8. Round(x, c, h, ends) \in Rounds
  BY <1>5, <1>6, <1>7 DEF Rounds
<1> QED
  BY <1>2, <1>4, <1>5, <1>6, <1>8 DEF n

LEMMA ChunkedIs ==
  ASSUME NEW w \in Works, NEW c \in Channels, NEW h \in Announcements,
         NEW bytes \in Seq(ByteTokens), NEW ends \in BOOLEAN
  PROVE  \E f \in [0 .. Len(bytes) -> Rounds] :
           /\ f[0] = [work |-> w, left |-> bytes]
           /\ Chunked(w, c, h, bytes, ends) = f[Len(bytes)]
           /\ \A i \in 1 .. Len(bytes) : f[i] = Round(f[i - 1], c, h, ends)
<1> DEFINE N == Len(bytes)
           b == [work |-> w, left |-> bytes]
           G == [p \in Rounds \X (1 .. N) |-> Round(p[1], c, h, ends)]
<1>1. N \in Nat /\ b \in Rounds
  BY DEF Rounds
<1>2. G \in [Rounds \X (1 .. N) -> Rounds]
  <2> HIDE DEF N, b
  <2> QED
    BY <1>1, RoundIs
<1>3. PICK F : Recursive(F, N, Rounds, b, G)
  <2> HIDE DEF G, N, b
  <2> QED
    BY <1>1, <1>2, Recursion
<1>4. F \in [0 .. N -> Rounds]
      /\ F[0] = b /\ \A i \in 1 .. N : F[i] = G[<<F[i - 1], i>>]
  <2> HIDE DEF G, N, b
  <2> QED
    BY <1>3 DEF Recursive
<1>5. ASSUME NEW i \in 1 .. N
      PROVE  F[i] = Round(F[i - 1], c, h, ends)
  <2>1. F[i] = G[<<F[i - 1], i>>]
    <3> HIDE DEF G, N, b
    <3> QED BY <1>4
  <2>2. F[i - 1] \in Rounds
    <3> HIDE DEF G, N, b
    <3> QED BY <1>1, <1>4
  <2> HIDE DEF N, b
  <2> QED
    BY <2>1, <2>2
<1> DEFINE Unfolds(g) ==
             g = [i \in 0 .. N |-> IF i = 0 THEN b ELSE Round(g[i - 1], c, h, ends)]
           H == CHOOSE g : Unfolds(g)
<1>6. Chunked(w, c, h, bytes, ends) = H[N]
  BY DEF Chunked
<1> HIDE DEF N, G, b
<1>7. Unfolds(F)
  BY <1>1, <1>4, <1>5
<1>8. Unfolds(H)
  <2> HIDE DEF Unfolds
  <2> QED
    BY <1>7
<1> HIDE DEF H
<1>10. ASSUME NEW i \in 1 .. N
       PROVE  H[i] = Round(H[i - 1], c, h, ends)
  <2>1. i \in 0 .. N /\ i # 0
    BY <1>1
  <2> QED
    BY <1>8, <2>1
<1>9. H = F
  <2> DEFINE S == {i \in 0 .. N : H[i] = F[i]}
  <2>1. 0 \in S
    BY <1>1, <1>4, <1>8
  <2>2. ASSUME NEW i \in 0 .. N - 1, i \in S
        PROVE  i + 1 \in S
    <3>1. i + 1 \in 1 .. N /\ (i + 1) - 1 = i
      BY <1>1
    <3>2. H[i + 1] = Round(H[i], c, h, ends)
      BY <1>10, <3>1
    <3>3. F[i + 1] = Round(F[i], c, h, ends)
      BY <1>5, <3>1
    <3> QED
      BY <2>2, <3>1, <3>2, <3>3
  <2>3. \A i \in 0 .. N : i \in S
    <3> HIDE DEF S
    <3> QED
      BY <1>1, <2>1, <2>2, UpTo
  <2>4. H = [i \in 0 .. N |-> H[i]] /\ F = [i \in 0 .. N |-> F[i]]
    <3>1. DOMAIN H = 0 .. N
      BY <1>8
    <3> HIDE DEF Unfolds
    <3> QED
      BY <1>4, <1>8 DEF Unfolds
  <2> QED
    BY <2>3, <2>4
<1> QED
  BY <1>4, <1>5, <1>6, <1>9 DEF N, b

\* What every round keeps is kept.
LEMMA ChunkedKeeps ==
  ASSUME NEW w \in Works, NEW c \in Channels, NEW h \in Announcements,
         NEW bytes \in Seq(ByteTokens), NEW ends \in BOOLEAN, NEW S,
         [work |-> w, left |-> bytes] \in S,
         \A x \in Rounds : x \in S => Round(x, c, h, ends) \in S
  PROVE  Chunked(w, c, h, bytes, ends) \in S /\ Chunked(w, c, h, bytes, ends) \in Rounds
<1>1. PICK f \in [0 .. Len(bytes) -> Rounds] :
           /\ f[0] = [work |-> w, left |-> bytes]
           /\ Chunked(w, c, h, bytes, ends) = f[Len(bytes)]
           /\ \A i \in 1 .. Len(bytes) : f[i] = Round(f[i - 1], c, h, ends)
  BY ChunkedIs
<1> DEFINE N == Len(bytes)
           A == {i \in 0 .. N : f[i] \in S}
<1>2. N \in Nat
  OBVIOUS
<1>3. 0 \in A
  BY <1>1, <1>2
<1>4. ASSUME NEW i \in 0 .. N - 1, i \in A
      PROVE  i + 1 \in A
  <2>1. i + 1 \in 1 .. N /\ (i + 1) - 1 = i /\ i \in 0 .. N
    BY <1>2
  <2>2. f[i + 1] = Round(f[i], c, h, ends) /\ f[i] \in Rounds /\ f[i] \in S
    BY <1>1, <1>4, <2>1
  <2> QED
    BY <2>1, <2>2
<1>5. \A i \in 0 .. N : i \in A
  <2> HIDE DEF A, N
  <2> QED
    BY <1>2, <1>3, <1>4, UpTo
<1>6. N \in 0 .. N
  BY <1>2
<1> QED
  BY <1>1, <1>5, <1>6

\* The loop goes on until nothing may be sent.
LEMMA ChunkedEnds ==
  ASSUME NEW w \in Works, NEW c \in Channels, NEW h \in Announcements,
         NEW bytes \in Seq(ByteTokens), NEW ends \in BOOLEAN
  PROVE  ~Sendable(Chunked(w, c, h, bytes, ends), ends)
<1>1. PICK f \in [0 .. Len(bytes) -> Rounds] :
           /\ f[0] = [work |-> w, left |-> bytes]
           /\ Chunked(w, c, h, bytes, ends) = f[Len(bytes)]
           /\ \A i \in 1 .. Len(bytes) : f[i] = Round(f[i - 1], c, h, ends)
  BY ChunkedIs
<1> DEFINE N == Len(bytes)
           A == {i \in 0 .. N : ~Sendable(f[i], ends) \/ Len(f[i].left) <= N - i}
<1>2. N \in Nat
  OBVIOUS
<1>3. 0 \in A
  BY <1>1, <1>2
<1>4. ASSUME NEW i \in 0 .. N - 1, i \in A
      PROVE  i + 1 \in A
  <2>1. i + 1 \in 1 .. N /\ (i + 1) - 1 = i /\ i \in 0 .. N
    BY <1>2
  <2>2. f[i + 1] = Round(f[i], c, h, ends) /\ f[i] \in Rounds
    BY <1>1, <2>1
  <2>3. CASE ~Sendable(f[i], ends)
    <3>1. f[i + 1] = f[i]
      BY <2>2, <2>3, RoundIs
    <3> QED
      BY <2>1, <2>3, <3>1
  <2>4. CASE Sendable(f[i], ends)
    <3> DEFINE n == Least(f[i].work.chunk, Len(f[i].left))
               q == SubSeq(f[i].left, n + 1, Len(f[i].left))
    <3>1. /\ f[i + 1] = [work |-> SendChunk(f[i].work, c, h, SubSeq(f[i].left, 1, n)), left |-> q]
          /\ Len(q) = Len(f[i].left) - n /\ n \in Nat /\ n # 0
      BY <2>2, <2>4, RoundIs, ZenonT(60)
    <3>2. f[i + 1].left = q /\ Len(f[i].left) \in Nat /\ Len(f[i].left) <= N - i
      <4>1. f[i + 1].left = q
        <5> HIDE DEF q, n
        <5> QED
          BY <3>1
      <4>2. Len(f[i].left) <= N - i
        BY <1>4, <2>4
      <4>3. Len(f[i].left) \in Nat
        BY <2>2, RoundFields
      <4> QED
        BY <4>1, <4>2, <4>3
    <3> HIDE DEF n, q, N
    <3>3. Len(q) <= N - (i + 1)
      BY <1>2, <3>1, <3>2
    <3> QED
      BY <2>1, <3>2, <3>3
  <2> QED
    BY <2>3, <2>4
<1>5. \A i \in 0 .. N : i \in A
  <2> HIDE DEF A, N
  <2> QED
    BY <1>2, <1>3, <1>4, UpTo
<1>6. N \in A /\ f[N] \in Rounds
  BY <1>1, <1>2, <1>5
<1>7. ASSUME Len(f[N].left) <= N - N
      PROVE  f[N].left = <<>>
  BY <1>2, <1>6, <1>7, RoundFields
<1> QED
  BY <1>1, <1>6, <1>7 DEF Sendable

-----------------------------------------------------------------------------
(* A chunk arrives. *)

PeerWith(m, sel, buffer, chans, late) ==
  [chunk |-> m.chunk, sel |-> sel, buffer |-> buffer, chans |-> chans,
   garbled |-> m.garbled, mistimed |-> late]

LEMMA PeerFields ==
  ASSUME NEW m \in Peers
  PROVE  /\ m.chunk \in Sizes /\ m.sel \in Channels \cup {0} /\ m.buffer \in Seq(Tokens)
         /\ m.chans \in [Channels -> InChannels] /\ m.garbled \in BOOLEAN
         /\ m.mistimed \in BOOLEAN /\ m.chunk \in Nat \ {0}
         /\ m = PeerWith(m, m.sel, m.buffer, m.chans, m.mistimed)
<1>1. m = PeerWith(m, m.sel, m.buffer, m.chans, m.mistimed)
  BY DEF Peers, PeerWith
<1>2. m.chunk \in Sizes
  BY DEF Peers
<1>3. \A s \in Sizes : s \in Nat \ {0}
  BY Parameters
<1> QED
  BY <1>1, <1>2, <1>3 DEF Peers

LEMMA PeerWithIsTyped ==
  ASSUME NEW m \in Peers, NEW sel \in Channels \cup {0}, NEW buffer \in Seq(Tokens),
         NEW chans \in [Channels -> InChannels], NEW late \in BOOLEAN
  PROVE  PeerWith(m, sel, buffer, chans, late) \in Peers
BY PeerFields DEF PeerWith, Peers

LEMMA InFields ==
  ASSUME NEW i \in InChannels
  PROVE  /\ i.hdr \in Headers /\ i.proc \in Nat /\ i.absTs \in Times
         /\ i = [hdr |-> i.hdr, proc |-> i.proc, absTs |-> i.absTs]
BY DEF InChannels

\* What a header does, when it is understood.
LEMMA TakeHeaderIs ==
  ASSUME NEW m \in Peers, NEW t \in HeaderTokens, m.buffer = <<t>>,
         ~(t.ht = "cont" /\ (t.h.ts >= Extended) # (m.chans[t.ch].hdr.ts >= Extended))
  PROVE  LET i == m.chans[t.ch]
         IN  TakeHeader(m) =
               PeerWith(m, t.ch, <<>>,
                        [m.chans EXCEPT ![t.ch] =
                           [hdr |-> ReadHeader(i.hdr, t), proc |-> i.proc,
                            absTs |-> ReadAbsTs(i, t)]], m.mistimed)
<1> DEFINE i == m.chans[t.ch]
           a == ReadHeader(i.hdr, t)
           b == ReadAbsTs(i, t)
           d == [hdr |-> a, proc |-> i.proc, absTs |-> b]
           e == [i EXCEPT !.hdr = a]
           chans == [m.chans EXCEPT ![t.ch] = d]
           s1 == [m EXCEPT !.sel = t.ch]
           s2 == [s1 EXCEPT !.buffer = <<>>]
           s3 == [s2 EXCEPT !.chans[t.ch].hdr = a]
           s4 == [s3 EXCEPT !.chans[t.ch].absTs = b]
<1>1. Head(m.buffer) = t /\ Tail(m.buffer) = <<>> /\ "ht" \in DOMAIN t /\ t.ch \in Channels
  BY TokenFields
<1>2. i \in InChannels /\ m.chans \in [Channels -> InChannels]
  BY <1>1, PeerFields
<1>3. TakeHeader(m) = [m EXCEPT !.sel = t.ch, !.buffer = Tail(@),
                                !.chans[t.ch].hdr = a, !.chans[t.ch].absTs = b]
  BY <1>1 DEF TakeHeader
<1>4. TakeHeader(m) = [m EXCEPT !.sel = t.ch, !.buffer = <<>>,
                                !.chans[t.ch].hdr = a, !.chans[t.ch].absTs = b]
  <2> HIDE DEF a, b
  <2> QED
    BY <1>1, <1>3
<1>5. TakeHeader(m) = s4
  <2> HIDE DEF a, b
  <2> QED
    BY <1>4
<1> HIDE DEF a, b
<1>6. e = [hdr |-> a, proc |-> i.proc, absTs |-> i.absTs]
  BY <1>2, InFields DEF InChannels
<1>7. [e EXCEPT !.absTs = b] = d
  <2> HIDE DEF e, i
  <2> QED
    BY <1>6
<1>8. s1 = PeerWith(m, t.ch, m.buffer, m.chans, m.mistimed)
  BY DEF PeerWith, Peers
<1>9. s2 = PeerWith(m, t.ch, <<>>, m.chans, m.mistimed)
  <2> HIDE DEF s1
  <2> QED
    BY <1>8 DEF PeerWith
<1>10. s3 = [s2 EXCEPT !.chans = [m.chans EXCEPT ![t.ch] = e]]
  <2>1. s2.chans = m.chans
    <3> HIDE DEF s2
    <3> QED
      BY <1>9 DEF PeerWith
  <2> HIDE DEF s2
  <2> QED
    BY <1>2, <2>1
<1>11. s3 = PeerWith(m, t.ch, <<>>, [m.chans EXCEPT ![t.ch] = e], m.mistimed)
  <2> HIDE DEF s2, e
  <2> QED
    BY <1>9, <1>10 DEF PeerWith
<1>12. s4 = [s3 EXCEPT !.chans = chans]
  <2>1. s3.chans = [m.chans EXCEPT ![t.ch] = e]
    <3> HIDE DEF s3, e
    <3> QED
      BY <1>11 DEF PeerWith
  <2>2. s3.chans[t.ch] = e
    <3> HIDE DEF s3, e
    <3> QED
      BY <1>1, <1>2, <2>1
  <2>3. [s3.chans EXCEPT ![t.ch] = d] = chans
    <3> HIDE DEF s3, e, d
    <3> QED
      BY <1>1, <1>2, <2>1 
  <2>4. s4 = [s3 EXCEPT !.chans = [s3.chans EXCEPT ![t.ch] = [s3.chans[t.ch] EXCEPT !.absTs = b]]]
    <3> HIDE DEF s3
    <3> QED
      OBVIOUS
  <2> HIDE DEF s3, s4, e, d, chans
  <2> QED
    BY <1>7, <2>2, <2>3, <2>4
<1>13. s4 = PeerWith(m, t.ch, <<>>, chans, m.mistimed)
  <2> HIDE DEF s3, chans, e
  <2> QED
    BY <1>11, <1>12 DEF PeerWith
<1> HIDE DEF s4
<1> QED
  BY <1>5, <1>13 DEF a, b

\* The peer reads the header that was written.
LEMMA HeaderIsRead ==
  ASSUME NEW o \in OutChannels, NEW i \in InChannels, NEW h \in Announcements,
         NEW c \in Channels, Same(o, i), o.proc # 0 => o.sid = h.si /\ o.hdr = Header(h)
  PROVE  LET t == Token(o, c, h)
         IN  /\ ReadHeader(i.hdr, t) = Header(h)
             /\ ReadAbsTs(i, t) = TimeOf(o, h)
             /\ ~(t.ht = "cont" /\ (t.h.ts >= Extended) # (i.hdr.ts >= Extended))
<1> DEFINE t == Token(o, c, h)
           ht == HeaderType(o, h)
           g == Header(h)
<1>1. t.ht = ht /\ t.h = g /\ ht \in {"full", "stream", "length", "cont"}
  BY DEF Token, HeaderType
<1>2. /\ g \in Headers /\ g.mt = h.mt /\ g.ml = h.ml /\ g.ts = h.ts /\ g.si = h.si
      /\ h.si # NoStream /\ i.proc = o.proc
  BY HeaderFields, Parameters DEF Same
<1>3. ht # "full" => /\ o.sid = h.si /\ i.absTs = o.absTs /\ i.hdr = o.hdr /\ o.hdr.si = h.si
  BY <1>2 DEF HeaderType, Same
<1>4. o.hdr \in Headers
  BY OutFields
<1>5. o.hdr = [mt |-> o.hdr.mt, ml |-> o.hdr.ml, ts |-> o.hdr.ts, si |-> o.hdr.si]
      /\ g = [mt |-> g.mt, ml |-> g.ml, ts |-> g.ts, si |-> g.si]
  BY <1>2, <1>4 DEF Headers
<1>6. ht # "full" /\ o.proc # 0 => ht = "cont"
  BY <1>3 DEF HeaderType
<1>7. CASE ht = "full"
  BY <1>1, <1>2, <1>7 DEF ReadHeader, ReadAbsTs, TimeOf
<1>8. CASE ht = "stream"
  <2>1. ReadHeader(i.hdr, t) = [g EXCEPT !.si = o.hdr.si]
    BY <1>1, <1>3, <1>8 DEF ReadHeader
  <2>2. [g EXCEPT !.si = o.hdr.si] = g
    <3> HIDE DEF g
    <3> QED
      BY <1>2, <1>3, <1>8 DEF Headers
  <2>3. o.proc = 0
    BY <1>6, <1>8
  <2> HIDE DEF t, g, ht
  <2>4. ReadAbsTs(i, t) = TimeOf(o, h)
    BY <1>1, <1>2, <1>3, <1>8, <2>1, <2>2, <2>3 DEF ReadAbsTs, TimeOf, ht
  <2> QED
    BY <1>1, <1>8, <2>1, <2>2, <2>4 DEF t, g
<1>9. CASE ht = "length"
  <2>1. ReadHeader(i.hdr, t) = [o.hdr EXCEPT !.ts = g.ts]
    BY <1>1, <1>3, <1>9 DEF ReadHeader
  <2>2. h.mt = o.hdr.mt /\ h.ml = o.hdr.ml
    BY <1>3, <1>9 DEF HeaderType
  <2>3. [o.hdr EXCEPT !.ts = g.ts] = [mt |-> o.hdr.mt, ml |-> o.hdr.ml, ts |-> g.ts, si |-> o.hdr.si]
    <3> HIDE DEF g
    <3> QED
      BY <1>4 DEF Headers
  <2>4. [o.hdr EXCEPT !.ts = g.ts] = g
    <3> HIDE DEF g
    <3> QED
      BY <1>2, <1>3, <1>5, <1>9, <2>2, <2>3
  <2>5. o.proc = 0
    BY <1>6, <1>9
  <2> HIDE DEF t, g, ht
  <2>6. ReadAbsTs(i, t) = TimeOf(o, h)
    BY <1>1, <1>2, <1>3, <1>9, <2>1, <2>4, <2>5 DEF ReadAbsTs, TimeOf, ht
  <2> QED
    BY <1>1, <1>9, <2>1, <2>4, <2>6 DEF t, g
<1>10. CASE ht = "cont"
  <2>1. ReadHeader(i.hdr, t) = o.hdr
    BY <1>1, <1>3, <1>10 DEF ReadHeader
  <2>2. CASE o.proc = 0
    <3>1. h.mt = o.hdr.mt /\ h.ml = o.hdr.ml /\ h.ts = o.hdr.ts
      BY <1>3, <1>10, <2>2 DEF HeaderType
    <3>2. o.hdr = g
      <4> HIDE DEF g
      <4> QED
        BY <1>2, <1>3, <1>5, <1>10, <3>1
    <3> HIDE DEF t, g, ht
    <3> QED
      BY <1>1, <1>2, <1>3, <1>10, <2>1, <2>2, <3>2 DEF ReadAbsTs, TimeOf, ht, t, g
  <2>3. CASE o.proc # 0
    <3>1. o.hdr = g
      BY <2>3
    <3> HIDE DEF t, g, ht
    <3> QED
      BY <1>1, <1>2, <1>3, <1>10, <2>1, <2>3, <3>1 DEF ReadAbsTs, TimeOf, ht, t, g
  <2> QED
    BY <2>2, <2>3
<1> QED
  BY <1>1, <1>7, <1>8, <1>9, <1>10

\* What a payload does, when it is what the header announces.
LEMMA TakePayloadIs ==
  ASSUME NEW m \in Peers, m.sel \in Channels, NEW bytes \in Seq(ByteTokens),
         m.buffer = bytes, Len(bytes) = PayloadSize(m),
         Expected(m.chans[m.sel], bytes), ~Mistimed(m.chans[m.sel], bytes)
  PROVE  LET i == m.chans[m.sel]
             done == i.proc + Len(bytes)
             next == PeerWith(m, 0, <<>>,
                       [m.chans EXCEPT ![m.sel] =
                          [hdr |-> i.hdr, proc |-> IF done = i.hdr.ml THEN 0 ELSE done,
                           absTs |-> i.absTs]], m.mistimed)
         IN  TakePayload(m) =
               IF Len(bytes) > 0 /\ done = i.hdr.ml THEN Complete(next, bytes) ELSE next
<1> DEFINE i == m.chans[m.sel]
           n == Len(bytes)
           done == i.proc + n
           p == IF done = i.hdr.ml THEN 0 ELSE done
           d == [hdr |-> i.hdr, proc |-> p, absTs |-> i.absTs]
           chans == [m.chans EXCEPT ![m.sel] = d]
           s1 == [m EXCEPT !.sel = 0]
           s2 == [s1 EXCEPT !.mistimed = m.mistimed]
           s3 == [s2 EXCEPT !.buffer = <<>>]
           s4 == [s3 EXCEPT !.chans[m.sel].proc = p]
           next == PeerWith(m, 0, <<>>, chans, m.mistimed)
<1>1. i \in InChannels /\ m.chans \in [Channels -> InChannels] /\ n \in Nat
  BY PeerFields
<1>2. SubSeq(m.buffer, 1, n) = bytes /\ SubSeq(m.buffer, n + 1, Len(m.buffer)) = <<>>
  BY <1>1
<1>3. (m.mistimed \/ Mistimed(i, bytes)) = m.mistimed
  BY PeerFields
<1>4. [i EXCEPT !.proc = p] = d
  <2> HIDE DEF p, i
  <2> QED
    BY <1>1 DEF InChannels
<1>5. [m EXCEPT !.sel = 0,
                !.mistimed = @ \/ Mistimed(i, SubSeq(m.buffer, 1, n)),
                !.buffer = SubSeq(@, n + 1, Len(@)),
                !.chans[m.sel].proc = p] = s4
  <2>1. [m EXCEPT !.sel = 0,
                  !.mistimed = @ \/ Mistimed(i, SubSeq(m.buffer, 1, n)),
                  !.buffer = SubSeq(@, n + 1, Len(@)),
                  !.chans[m.sel].proc = p]
         = [m EXCEPT !.sel = 0,
                  !.mistimed = m.mistimed \/ Mistimed(i, SubSeq(m.buffer, 1, n)),
                  !.buffer = SubSeq(m.buffer, n + 1, Len(m.buffer)),
                  !.chans[m.sel].proc = p]
    <3> HIDE DEF n, p, i
    <3> QED
      OBVIOUS
  <2>2. [m EXCEPT !.sel = 0,
                  !.mistimed = m.mistimed \/ Mistimed(i, SubSeq(m.buffer, 1, n)),
                  !.buffer = SubSeq(m.buffer, n + 1, Len(m.buffer)),
                  !.chans[m.sel].proc = p]
         = [m EXCEPT !.sel = 0, !.mistimed = m.mistimed, !.buffer = <<>>,
                  !.chans[m.sel].proc = p]
    <3> HIDE DEF n, p, i
    <3> QED
      BY <1>2, <1>3
  <2> HIDE DEF p
  <2> QED
    BY <2>1, <2>2
<1>6. s1 = PeerWith(m, 0, m.buffer, m.chans, m.mistimed)
  BY DEF PeerWith, Peers
<1>7. s2 = PeerWith(m, 0, m.buffer, m.chans, m.mistimed)
  <2> HIDE DEF s1
  <2> QED
    BY <1>6 DEF PeerWith
<1>8. s3 = PeerWith(m, 0, <<>>, m.chans, m.mistimed)
  <2> HIDE DEF s2
  <2> QED
    BY <1>7 DEF PeerWith
<1>9. s4 = [s3 EXCEPT !.chans = chans]
  <2>1. s3.chans = m.chans
    <3> HIDE DEF s3
    <3> QED
      BY <1>8 DEF PeerWith
  <2>2. s4 = [s3 EXCEPT !.chans = [s3.chans EXCEPT ![m.sel] = [s3.chans[m.sel] EXCEPT !.proc = p]]]
    <3> HIDE DEF s3, p
    <3> QED
      OBVIOUS
  <2> HIDE DEF s3, s4, d, p
  <2> QED
    BY <1>4, <2>1, <2>2
<1>10. s4 = next
  <2> HIDE DEF s3, chans
  <2> QED
    BY <1>8, <1>9 DEF PeerWith
<1> HIDE DEF s4, next, p
<1>11. TakePayload(m) = IF n > 0 /\ done = i.hdr.ml THEN Complete(next, bytes) ELSE next
  <2> DEFINE k == PayloadSize(m)
             b == SubSeq(m.buffer, 1, k)
             q == [m EXCEPT !.sel = 0,
                            !.mistimed = @ \/ Mistimed(i, b),
                            !.buffer = SubSeq(@, k + 1, Len(@)),
                            !.chans[m.sel].proc = IF i.proc + k = i.hdr.ml THEN 0 ELSE i.proc + k]
  <2>1. TakePayload(m) = IF ~Expected(i, b) THEN Garbled(m)
                         ELSE IF k > 0 /\ i.proc + k = i.hdr.ml THEN Complete(q, b)
                         ELSE q
    BY DEF TakePayload, TakeBytes, Taken
  <2>2. k = n
    OBVIOUS
  <2>3. b = bytes
    BY <1>2, <2>2
  <2>4. q = next
    BY <1>2, <1>5, <1>10, <2>2 DEF p
  <2> HIDE DEF q, b, k
  <2> QED
    BY <2>1, <2>2, <2>3, <2>4
<1> QED
  BY <1>11 DEF next, p

\* A chunk of a message, with its header, to a peer that waits for one.
After(m, c, h, done, absTs) ==
  PeerWith(m, 0, <<>>,
           [m.chans EXCEPT ![c] = [hdr |-> Header(h), proc |-> IF done = h.ml THEN 0 ELSE done,
                                   absTs |-> absTs]], m.mistimed)

\* The bytes are the next of the message, and begin it in time.
NextOf(o, h, bytes) ==
  /\ Follow(bytes, h.mt, h.ml, o.proc)
  /\ h.mt \in Kinds /\ o.proc = 0 /\ bytes # <<>> =>
       bytes[1].v.first \/ bytes[1].v.at = TimeOf(o, h)

LEMMA ChunkArrives ==
  ASSUME NEW m \in Peers, NEW o \in OutChannels, NEW h \in Announcements, NEW c \in Channels,
         NEW bytes \in Seq(ByteTokens), Waits(m), Same(o, m.chans[c]),
         o.proc # 0 => o.sid = h.si /\ o.hdr = Header(h),
         o.proc <= h.ml, Len(bytes) = Least(h.ml - o.proc, m.chunk), NextOf(o, h, bytes)
  PROVE  LET next == After(m, c, h, o.proc + Len(bytes), TimeOf(o, h))
         IN  Delivered(Receive(m, Token(o, c, h)), bytes) =
               IF Len(bytes) > 0 /\ o.proc + Len(bytes) = h.ml THEN Complete(next, bytes)
               ELSE next
<1> DEFINE t == Token(o, c, h)
           i == m.chans[c]
           n == Len(bytes)
           g == Header(h)
           absTs == TimeOf(o, h)
           got == [m EXCEPT !.buffer = Append(@, t)]
           d == [hdr |-> g, proc |-> o.proc, absTs |-> absTs]
           chans == [m.chans EXCEPT ![c] = d]
           W(b) == PeerWith(m, c, b, chans, m.mistimed)
           done == o.proc + n
           p == IF done = h.ml THEN 0 ELSE done
           next == After(m, c, h, done, absTs)
<1>1. /\ i \in InChannels /\ m.chans \in [Channels -> InChannels] /\ n \in Nat
      /\ o.proc \in Nat /\ h.ml \in Nat /\ m.chunk \in Nat \ {0} /\ m.buffer = <<>> /\ m.sel = 0
      /\ m.garbled = FALSE /\ i.proc = o.proc /\ h.ml - o.proc \in Nat /\ m.mistimed \in BOOLEAN
  <2>1. h.ml \in Nat /\ o.proc \in Nat
    BY HeaderFields, OutFields
  <2> QED
    BY <2>1, PeerFields DEF Waits, Same
<1>2. /\ t \in HeaderTokens /\ t \in Tokens /\ t.ch = c /\ g \in Headers /\ absTs \in Times
      /\ g.ml = h.ml /\ g.mt = h.mt
  BY WroteIsTyped, HeaderFields DEF Token
<1>3. d \in InChannels /\ chans \in [Channels -> InChannels] /\ chans[c] = d
  <2>1. d \in InChannels
    BY <1>1, <1>2 DEF InChannels
  <2> HIDE DEF d
  <2> QED
    BY <1>1, <2>1
<1>4. Receive(m, t) = Payload(W(<<>>))
  <2>1. got = PeerWith(m, 0, <<t>>, m.chans, m.mistimed)
    <3>1. Append(m.buffer, t) = <<t>>
      BY <1>1
    <3>2. got = [m EXCEPT !.buffer = <<t>>]
      BY <3>1
    <3> HIDE DEF t, got
    <3> QED
      BY <1>1, <3>2 DEF PeerWith, Peers
  <2>2. <<t>> \in Seq(Tokens)
    BY <1>2
  <2>3. got \in Peers /\ got.buffer = <<t>> /\ got.sel = 0 /\ got.chans = m.chans
    <3>1. PeerWith(m, 0, <<t>>, m.chans, m.mistimed) \in Peers
      BY <1>1, <2>2, PeerWithIsTyped
    <3> HIDE DEF got, t
    <3> QED
      BY <2>1, <3>1 DEF PeerWith
  <2>4. /\ ReadHeader(i.hdr, t) = g /\ ReadAbsTs(i, t) = absTs
        /\ ~(t.ht = "cont" /\ (t.h.ts >= Extended) # (i.hdr.ts >= Extended))
    BY <1>1, HeaderIsRead
  <2> HIDE DEF got, t, g, absTs
  <2>5. TakeHeader(got) =
          PeerWith(got, c, <<>>, [m.chans EXCEPT ![c] = [hdr |-> g, proc |-> i.proc, absTs |-> absTs]],
                   got.mistimed)
    BY <1>2, <2>3, <2>4, TakeHeaderIs
  <2>6. TakeHeader(got) = W(<<>>)
    BY <1>1, <2>1, <2>5 DEF PeerWith
  <2>7. Receive(m, t) = Payload(TakeHeader(got))
    BY <1>1, <2>3 DEF Receive, got
  <2> QED
    BY <2>6, <2>7
<1>5. ASSUME NEW b \in Seq(Tokens)
      PROVE  /\ W(b) \in Peers /\ W(b).sel = c /\ W(b).buffer = b /\ W(b).chans[c] = d
             /\ PayloadSize(W(b)) = n /\ W(b).garbled = FALSE
  <2>1. c \in Channels \cup {0}
    OBVIOUS
  <2>2. W(b) \in Peers
    BY <1>1, <1>3, <2>1, PeerWithIsTyped
  <2>3. W(b).sel = c /\ W(b).buffer = b /\ W(b).chans[c] = d /\ W(b).garbled = FALSE
        /\ W(b).chunk = m.chunk
    BY <1>1, <1>3 DEF PeerWith
  <2>4. d.hdr.ml = h.ml /\ d.proc = o.proc
    BY <1>2
  <2> HIDE DEF d, W
  <2>5. PayloadSize(W(b)) = n
    BY <1>1, <2>3, <2>4 DEF PayloadSize
  <2> QED
    BY <2>2, <2>3, <2>5
<1>6. /\ d.hdr = g /\ d.proc = o.proc /\ d.absTs = absTs
      /\ Expected(d, bytes) /\ ~Mistimed(d, bytes)
  <2>1. d.hdr = g /\ d.proc = o.proc /\ d.absTs = absTs
    OBVIOUS
  <2>2. \A j \in DOMAIN bytes : bytes[j] \in ByteTokens /\ "i" \in DOMAIN bytes[j]
    BY TokenFields
  <2>3. Follow(bytes, h.mt, h.ml, o.proc)
    BY DEF NextOf
  <2> HIDE DEF d, g, absTs
  <2>4. Expected(d, bytes)
    BY <1>2, <2>1, <2>2, <2>3 DEF Expected, Follow
  <2>5. ASSUME Mistimed(d, bytes)
        PROVE  FALSE
    <3>1. 1 \in DOMAIN bytes
      BY <2>5 DEF Mistimed
    <3>2. bytes[1].i = o.proc + 1 /\ bytes[1].mt = h.mt
      BY <2>3, <3>1 DEF Follow
    <3>3. o.proc = 0 /\ h.mt \in Kinds
      BY <1>1, <2>5, <3>2 DEF Mistimed
    <3> QED
      BY <2>1, <2>5, <3>3 DEF Mistimed, NextOf, absTs
  <2> QED
    BY <2>1, <2>4, <2>5
<1>7. TakePayload(W(bytes)) = IF n > 0 /\ done = h.ml THEN Complete(next, bytes) ELSE next
  <2>1. bytes \in Seq(Tokens)
    BY BytesAreTokens
  <2> DEFINE q == W(bytes)
  <2>2. /\ q \in Peers /\ q.sel = c /\ q.buffer = bytes /\ q.chans[c] = d
        /\ PayloadSize(q) = n
    BY <1>5, <2>1
  <2>3. q.chans = chans /\ q.chunk = m.chunk /\ q.garbled = m.garbled /\ q.mistimed = m.mistimed
    BY DEF PeerWith
  <2> DEFINE e == [hdr |-> d.hdr, proc |-> p, absTs |-> d.absTs]
  <2>4. PeerWith(q, 0, <<>>, [q.chans EXCEPT ![c] = e], q.mistimed) = next
    <3>1. e = [hdr |-> g, proc |-> p, absTs |-> absTs]
      BY <1>6
    <3>2. [chans EXCEPT ![c] = e] = [m.chans EXCEPT ![c] = e]
      <4> HIDE DEF d, e
      <4> QED
        BY <1>1
    <3>3. next = PeerWith(m, 0, <<>>, [m.chans EXCEPT ![c] = e], m.mistimed)
      BY <3>1 DEF After
    <3> HIDE DEF q, e, chans, next
    <3> QED
      BY <2>3, <3>2, <3>3 DEF PeerWith
  <2>5. d.proc + n = done /\ d.hdr.ml = h.ml
    BY <1>2, <1>6
  <2> HIDE DEF q, d, next
  <2>6. /\ q.sel \in Channels /\ Expected(q.chans[q.sel], bytes)
        /\ ~Mistimed(q.chans[q.sel], bytes) /\ Len(bytes) = PayloadSize(q)
    BY <1>6, <2>2
  <2>7. TakePayload(q) = IF n > 0 /\ done = h.ml
                         THEN Complete(PeerWith(q, 0, <<>>, [q.chans EXCEPT ![c] = e], q.mistimed), bytes)
                         ELSE PeerWith(q, 0, <<>>, [q.chans EXCEPT ![c] = e], q.mistimed)
    BY <2>2, <2>5, <2>6, TakePayloadIs
  <2> QED
    BY <2>4, <2>7 DEF q
<1> HIDE DEF next, W, d, chans, got, t, g, absTs
<1>9. ASSUME NEW b, NEW b2
      PROVE  [W(b) EXCEPT !.buffer = b2] = W(b2)
  BY DEF W, PeerWith
<1>8. Delivered(Payload(W(<<>>)), bytes) = TakePayload(W(bytes))
  <2>0. <<>> \in Seq(Tokens) /\ Len(<<>>) = 0 /\ bytes \in Seq(Tokens)
    BY BytesAreTokens
  <2>3. /\ W(<<>>) \in Peers /\ W(<<>>).sel = c /\ Len(W(<<>>).buffer) = 0
        /\ PayloadSize(W(<<>>)) = n /\ c # 0
    BY <1>5, <2>0, ChannelsAre
  <2>4. Payload(W(<<>>)) = IF 0 >= n THEN TakePayload(W(<<>>)) ELSE W(<<>>)
    BY <2>3 DEF Payload
  <2>1. CASE n = 0
    <3>1. bytes = <<>>
      BY <2>1
    <3>2. Payload(W(<<>>)) = TakePayload(W(bytes))
      BY <2>1, <2>4, <3>1
    <3>3. TakePayload(W(bytes)) \in Peers
      BY <2>1, <2>3, <3>1, TakePayloadIsTyped
    <3>4. PICK f \in [0 .. n -> Peers] : f[0] = TakePayload(W(bytes))
                                         /\ Delivered(TakePayload(W(bytes)), bytes) = f[n]
      BY <2>0, <3>3, DeliveredIs
    <3> QED
      BY <2>1, <3>2, <3>4
  <2>2. CASE n # 0
    <3>1. Payload(W(<<>>)) = W(<<>>)
      BY <1>1, <2>2, <2>4
    <3>2. PICK f \in [0 .. n -> Peers] :
                 /\ f[0] = W(<<>>) /\ Delivered(W(<<>>), bytes) = f[n]
                 /\ \A k \in 1 .. n : f[k] = Receive(f[k - 1], bytes[k])
      BY <1>5, <2>0, DeliveredIs
    <3> DEFINE B(k) == SubSeq(bytes, 1, k)
               A == {k \in 0 .. n : f[k] = IF k < n THEN W(B(k)) ELSE TakePayload(W(bytes))}
    <3>3. 0 \in A
      <4>1. B(0) = <<>>
        BY <1>1
      <4> QED
        BY <1>1, <2>2, <3>2, <4>1, SMTT(30)
    <3>4. ASSUME NEW k \in 0 .. n - 1, k \in A
          PROVE  k + 1 \in A
      <4>1. k + 1 \in 1 .. n /\ (k + 1) - 1 = k /\ k < n /\ k \in 0 .. n /\ k + 1 \in 0 .. n
        BY <1>1
      <4>2. B(k) \in Seq(Tokens) /\ B(k + 1) \in Seq(Tokens) /\ Len(B(k + 1)) = k + 1
            /\ bytes[k + 1] \in Tokens
        BY <1>1, <2>0, <4>1
      <4>3. Append(B(k), bytes[k + 1]) = B(k + 1)
        BY <1>1, <4>1
      <4>4. f[k + 1] = Receive(W(B(k)), bytes[k + 1])
        BY <3>2, <3>4, <4>1
      <4>5. [W(B(k)) EXCEPT !.buffer = Append(@, bytes[k + 1])] = W(B(k + 1))
        <5> HIDE DEF B
        <5>1. W(B(k)).buffer = B(k)
          BY <1>5, <4>2
        <5> QED
          BY <4>3, <5>1, <1>9
      <4>6. W(B(k)).garbled = FALSE /\ W(B(k + 1)).sel = c /\ W(B(k + 1)).buffer = B(k + 1)
            /\ PayloadSize(W(B(k + 1))) = n /\ c # 0
        <5> HIDE DEF B
        <5> QED
          BY <1>5, <4>2, ChannelsAre
      <4>7. f[k + 1] = Payload(W(B(k + 1)))
        <5> HIDE DEF B
        <5> QED
          BY <4>4, <4>5, <4>6 DEF Receive
      <4>8. f[k + 1] = IF k + 1 >= n THEN TakePayload(W(B(k + 1))) ELSE W(B(k + 1))
        <5> HIDE DEF B
        <5> QED
          BY <4>2, <4>6, <4>7 DEF Payload
      <4>9. k + 1 = n => B(k + 1) = bytes
        BY <1>1
      <4> HIDE DEF B
      <4> QED
        BY <1>1, <4>1, <4>8, <4>9
    <3>5. \A k \in 0 .. n : k \in A
      <4> HIDE DEF A, n
      <4> QED
        BY <1>1, <3>3, <3>4, UpTo
    <3>6. n \in 0 .. n
      BY <1>1
    <3> QED
      BY <3>1, <3>2, <3>5, <3>6
  <2> QED
    BY <2>1, <2>2
<1> QED
  BY <1>4, <1>7, <1>8 DEF next, t, absTs

-----------------------------------------------------------------------------
(* The two ends stay in step. *)

\* A channel on which a message has been sent to its end is between messages.
Ended(o, ml) ==
  [hdr |-> o.hdr, proc |-> IF o.proc = ml THEN 0 ELSE o.proc, absTs |-> o.absTs, sid |-> o.sid]

\* In step, but that the end of the message on c is not noted yet.
Nearly(w, c, ml) ==
  /\ Waits(w.peer) /\ w.peer.chunk = w.chunk
  /\ \A d \in Channels \ {c} : Same(w.chan[d], w.peer.chans[d])
  /\ Same(Ended(w.chan[c], ml), w.peer.chans[c])

\* What may go on with the message of a channel.
Continues(o, h) == o.proc # 0 => o.sid = h.si /\ o.hdr = Header(h)

LEMMA EndedIs ==
  ASSUME NEW o \in OutChannels, NEW ml \in Nat
  PROVE  /\ o.proc # ml => Ended(o, ml) = o
         /\ Ended(o, ml) \in OutChannels
BY OutFields DEF Ended, OutChannels

LEMMA NearlyIs ==
  ASSUME NEW w \in Works, NEW c \in Channels, NEW ml \in Nat
  PROVE  /\ Nearly(w, c, ml) /\ w.chan[c].proc # ml => Touches(w)
         /\ Touches(w) /\ (w.chan[c].proc # ml \/ ml = 0) => Nearly(w, c, ml)
<1> DEFINE o == w.chan[c]
<1>1. o \in OutChannels
  BY WorkFields
<1>2. o.proc # ml => Ended(o, ml) = o
  BY <1>1, EndedIs
<1>3. o.proc = ml /\ ml = 0 => Ended(o, ml) = o
  <2> HIDE DEF o
  <2> QED
    BY <1>1, OutFields DEF Ended
<1> QED
  BY <1>2, <1>3 DEF Nearly, Touches

LEMMA SameAgain ==
  ASSUME NEW o \in OutChannels, NEW h \in Announcements, NEW done \in Nat, done <= h.ml,
         NEW absTs \in Times
  PROVE  Same(Ended([hdr |-> Header(h), proc |-> done, absTs |-> absTs, sid |-> h.si], h.ml),
              [hdr |-> Header(h), proc |-> IF done = h.ml THEN 0 ELSE done, absTs |-> absTs])
<1>1. /\ h.si # NoStream /\ Header(h).ml = h.ml /\ Header(h).si = h.si /\ h.ml \in Nat
  BY HeaderFields, Parameters
<1> QED
  BY <1>1 DEF Same, Ended

\* One chunk of a message about something else than the channels.
LEMMA SendChunkTouches ==
  ASSUME NEW w \in Works, NEW c \in Channels, NEW h \in Announcements,
         NEW bytes \in Seq(ByteTokens), Touches(w), Continues(w.chan[c], h),
         w.chan[c].proc <= h.ml, Len(bytes) = Least(h.ml - w.chan[c].proc, w.chunk),
         NextOf(w.chan[c], h, bytes), h.mt \notin {"chunk", "abort"}
  PROVE  LET o == w.chan[c]
             x == SendChunk(w, c, h, bytes)
         IN  /\ x \in Works /\ x.chunk = w.chunk /\ x.player = w.player
             /\ \A d \in Channels \ {c} : x.chan[d] = w.chan[d]
             /\ x.chan[c] = Wrote(o, h, o.proc + Len(bytes))
             /\ o.proc + Len(bytes) \in Nat /\ o.proc + Len(bytes) <= h.ml
             /\ Nearly(x, c, h.ml)
<1> DEFINE o == w.chan[c]
           n == Len(bytes)
           done == o.proc + n
           absTs == TimeOf(o, h)
           x == SendChunk(w, c, h, bytes)
           m == w.peer
           next == After(m, c, h, done, absTs)
           chan == [w.chan EXCEPT ![c] = Wrote(o, h, done)]
<1>1. /\ w.chan \in [Channels -> OutChannels] /\ m \in Peers /\ o \in OutChannels
      /\ o.proc \in Nat /\ n \in Nat /\ h.ml \in Nat /\ absTs \in Times
      /\ m.chans \in [Channels -> InChannels]
  <2>1. w.chan \in [Channels -> OutChannels] /\ m \in Peers
    BY WorkFields
  <2>2. o \in OutChannels
    BY <2>1
  <2>3. o.proc \in Nat /\ h.ml \in Nat /\ n \in Nat
    BY <2>2, OutFields, HeaderFields, BytesAreTokens
  <2>4. absTs \in Times
    BY <2>2, WroteIsTyped
  <2>5. m.chans \in [Channels -> InChannels]
    BY <2>1, PeerFields
  <2> QED
    BY <2>1, <2>2, <2>3, <2>4, <2>5
<1>2. x = [chan |-> chan, chunk |-> w.chunk, player |-> w.player, peer |-> PeerOf(w, c, h, bytes)]
      /\ x \in Works
  <2>1. chan = [w.chan EXCEPT ![c] = Wrote(@, h, @.proc + n)]
    BY <1>1
  <2> HIDE DEF chan
  <2> QED
    BY <2>1, SendChunkIs
<1>3. m.chunk = w.chunk /\ Waits(m) /\ Same(o, m.chans[c])
  BY DEF Touches
<1>4. PeerOf(w, c, h, bytes) = IF n > 0 /\ done = h.ml THEN Complete(next, bytes) ELSE next
  <2>1. o.proc # 0 => o.sid = h.si /\ o.hdr = Header(h)
    BY DEF Continues
  <2>2. Len(bytes) = Least(h.ml - o.proc, m.chunk) /\ o.proc <= h.ml /\ NextOf(o, h, bytes)
    BY <1>3
  <2> HIDE DEF o, m
  <2>3. Delivered(Receive(m, Token(o, c, h)), bytes) =
               IF Len(bytes) > 0 /\ o.proc + Len(bytes) = h.ml
               THEN Complete(After(m, c, h, o.proc + Len(bytes), TimeOf(o, h)), bytes)
               ELSE After(m, c, h, o.proc + Len(bytes), TimeOf(o, h))
    BY <1>1, <1>3, <2>1, <2>2, ChunkArrives
  <2> QED
    BY <2>3 DEF PeerOf, o, m
<1>5. n > 0 => Complete(next, bytes) = next
  <2>1. ASSUME n > 0
        PROVE  bytes[n].mt = h.mt
    BY <1>1, <2>1 DEF NextOf, Follow
  <2> HIDE DEF next
  <2> QED
    BY <2>1 DEF Complete
<1>6. done \in Nat /\ done <= h.ml
  <2>1. h.ml - o.proc \in Nat /\ w.chunk \in Nat
    BY <1>1, <1>3, PeerFields
  <2>2. n <= h.ml - o.proc
    BY <2>1, LeastIs
  <2> HIDE DEF o, n
  <2> QED
    BY <1>1, <2>2
<1> DEFINE e == [hdr |-> Header(h), proc |-> IF done = h.ml THEN 0 ELSE done, absTs |-> absTs]
           f == Wrote(o, h, done)
<1>7. x.peer = next /\ x.chan = chan /\ x.chunk = w.chunk /\ x.player = w.player
  <2> HIDE DEF chan, next, x
  <2> QED
    BY <1>2, <1>4, <1>5
<1>8. x.chan[c] = f /\ \A d \in Channels \ {c} : x.chan[d] = w.chan[d]
  <2> HIDE DEF x, o
  <2> QED
    BY <1>1, <1>7
<1>9. Nearly(x, c, h.ml)
  <2>1. next = PeerWith(m, 0, <<>>, [m.chans EXCEPT ![c] = e], m.mistimed)
    BY DEF After
  <2>2. /\ next.chunk = m.chunk /\ next.garbled = m.garbled /\ next.mistimed = m.mistimed
        /\ next.sel = 0 /\ next.buffer = <<>> /\ next.chans = [m.chans EXCEPT ![c] = e]
    <3> HIDE DEF next, e
    <3> QED
      BY <2>1 DEF PeerWith
  <2>3. next.chans[c] = e /\ \A d \in Channels \ {c} : next.chans[d] = m.chans[d]
    <3> HIDE DEF next, e
    <3> QED
      BY <1>1, <2>2
  <2>4. Same(Ended(f, h.ml), e)
    <3>1. f = [hdr |-> Header(h), proc |-> done, absTs |-> absTs, sid |-> h.si]
      BY DEF Wrote
    <3> HIDE DEF f, done, absTs
    <3> QED
      BY <1>1, <1>6, <3>1, SameAgain
  <2>5. Waits(next)
    <3> HIDE DEF next
    <3> QED
      BY <1>3, <2>2 DEF Waits
  <2>6. \A d \in Channels \ {c} : Same(w.chan[d], m.chans[d])
    BY DEF Touches
  <2> HIDE DEF next, e, f, x
  <2> QED
    BY <1>3, <1>7, <1>8, <2>2, <2>3, <2>4, <2>5, <2>6 DEF Nearly
<1> HIDE DEF x, f
<1> QED
  BY <1>2, <1>6, <1>7, <1>8, <1>9 DEF f, x

-----------------------------------------------------------------------------
(* The loop *)

\* What every round keeps: bytes were left when the work was w.
Loop(x, w, c, h, bytes) ==
  LET o == x.work.chan[c]
  IN  /\ x.work.player = w.player /\ x.work.chunk = w.chunk
      /\ \A d \in Channels \ {c} : x.work.chan[d] = w.chan[d]
      /\ o.proc + Len(x.left) = w.chan[c].proc + Len(bytes)
      /\ Follow(x.left, h.mt, h.ml, o.proc)
      /\ \/ o = w.chan[c] /\ x.left = bytes
         \/ o = Wrote(w.chan[c], h, o.proc) /\ o.proc # 0
      /\ Nearly(x.work, c, h.ml)

\* A header after the first of a message says nothing new.
LEMMA WroteAgain ==
  ASSUME NEW o \in OutChannels, NEW h \in Announcements, NEW n \in Nat \ {0}, NEW k \in Nat
  PROVE  Wrote(Wrote(o, h, n), h, k) = Wrote(o, h, k)
<1> DEFINE q == Wrote(o, h, n)
<1>1. q.sid = h.si /\ q.proc = n /\ q.absTs = TimeOf(o, h)
  BY DEF Wrote
<1>2. HeaderType(q, h) = "cont"
  <2> HIDE DEF q
  <2> QED
    BY <1>1 DEF HeaderType
<1>3. TimeOf(q, h) = TimeOf(o, h)
  <2> HIDE DEF q
  <2> QED
    BY <1>1, <1>2 DEF TimeOf
<1> QED
  BY <1>3 DEF Wrote

LEMMA RoundKeepsLoop ==
  ASSUME NEW w \in Works, NEW c \in Channels, NEW h \in Announcements,
         NEW bytes \in Seq(ByteTokens), NEW ends \in BOOLEAN, NEW x \in Rounds,
         Continues(w.chan[c], h), NextOf(w.chan[c], h, bytes), h.mt \notin {"chunk", "abort"},
         w.chan[c].proc + Len(bytes) <= h.ml, ends => w.chan[c].proc + Len(bytes) = h.ml,
         Loop(x, w, c, h, bytes)
  PROVE  Loop(Round(x, c, h, ends), w, c, h, bytes)
<1>1. CASE ~Sendable(x, ends)
  <2>1. Round(x, c, h, ends) = x
    BY <1>1, RoundIs
  <2> QED
    BY <2>1
<1>2. CASE Sendable(x, ends)
  <2> DEFINE u == x.work
             o == u.chan[c]
             o1 == w.chan[c]
             n == Least(u.chunk, Len(x.left))
             piece == SubSeq(x.left, 1, n)
             rest == SubSeq(x.left, n + 1, Len(x.left))
             y == SendChunk(u, c, h, piece)
             z == Round(x, c, h, ends)
  <2>1. /\ z = [work |-> y, left |-> rest] /\ n \in Nat /\ n <= Len(x.left) /\ n # 0
        /\ piece \in Seq(ByteTokens) /\ Len(piece) = n
        /\ rest \in Seq(ByteTokens) /\ Len(rest) = Len(x.left) - n
    BY <1>2, RoundIs
  <2>2. /\ u \in Works /\ x.left \in Seq(ByteTokens) /\ Len(x.left) \in Nat /\ u.chunk \in Nat \ {0}
        /\ o \in OutChannels /\ o1 \in OutChannels /\ o.proc \in Nat /\ o1.proc \in Nat
        /\ h.ml \in Nat /\ Len(bytes) \in Nat
    BY RoundFields, WorkFields, OutFields, HeaderFields
  <2>3. /\ o.proc + Len(x.left) = o1.proc + Len(bytes) /\ Follow(x.left, h.mt, h.ml, o.proc)
        /\ (o = o1 /\ x.left = bytes) \/ (o = Wrote(o1, h, o.proc) /\ o.proc # 0)
        /\ Nearly(u, c, h.ml)
    BY DEF Loop
  <2>4. o.proc < h.ml /\ h.ml - o.proc \in Nat
        /\ Len(x.left) <= h.ml - o.proc /\ (ends => Len(x.left) = h.ml - o.proc)
    <3> DEFINE a == Len(x.left)
               b == Len(bytes)
    <3>1. a \in Nat /\ b \in Nat /\ n <= a /\ o.proc + a = o1.proc + b /\ o1.proc + b <= h.ml
          /\ (ends => o1.proc + b = h.ml)
      BY <2>1, <2>2, <2>3
    <3> HIDE DEF a, b, n, o, o1
    <3> QED
      BY <2>1, <2>2, <3>1 DEF a
  <2>5. n = Least(h.ml - o.proc, u.chunk)
    <3>1. u.chunk <= Len(x.left) \/ ends
      BY <1>2 DEF Sendable
    <3> DEFINE a == Len(x.left)
               b == h.ml - o.proc
               k == u.chunk
    <3>2. a \in Nat /\ b \in Nat /\ k \in Nat /\ a <= b /\ (ends => a = b) /\ (k <= a \/ ends)
      BY <2>2, <2>4, <3>1
    <3>3. n = Least(k, a)
      OBVIOUS
    <3> HIDE DEF a, b, n, k
    <3>4. n = Least(b, k)
      BY <3>2, <3>3 DEF Least
    <3> QED
      BY <3>4 DEF b, k
  <2>6. Touches(u) /\ Continues(o, h) /\ NextOf(o, h, piece)
    <3>1. Touches(u)
      BY <2>2, <2>3, <2>4, NearlyIs
    <3>2. Continues(o, h)
      <4>1. CASE o = o1
        BY <4>1
      <4>2. CASE o = Wrote(o1, h, o.proc)
        <5>1. Wrote(o1, h, o.proc).sid = h.si /\ Wrote(o1, h, o.proc).hdr = Header(h)
          BY DEF Wrote
        <5> HIDE DEF o
        <5> QED
          BY <4>2, <5>1 DEF Continues
      <4> QED
        BY <2>3, <4>1, <4>2
    <3>3. Follow(piece, h.mt, h.ml, o.proc)
      <4>1. \A j \in 1 .. n : piece[j] = x.left[j] /\ j \in DOMAIN x.left
        BY <2>1, <2>2
      <4>2. DOMAIN piece = 1 .. n
        BY <2>1
      <4> HIDE DEF piece, n
      <4> QED
        BY <2>3, <4>1, <4>2 DEF Follow
    <3>4. ASSUME h.mt \in Kinds, o.proc = 0
          PROVE  piece[1].v.first \/ piece[1].v.at = TimeOf(o, h)
      <4>1. o = o1 /\ x.left = bytes
        BY <2>3, <3>4
      <4>2. piece[1] = bytes[1] /\ bytes # <<>>
        BY <2>1, <2>2, <4>1
      <4> QED
        BY <3>4, <4>1, <4>2 DEF NextOf
    <3> QED
      BY <3>1, <3>2, <3>3, <3>4 DEF NextOf
  <2> DEFINE done == o.proc + n
  <2>7. /\ y \in Works /\ y.chunk = u.chunk /\ y.player = u.player
        /\ \A d \in Channels \ {c} : y.chan[d] = u.chan[d]
        /\ y.chan[c] = Wrote(o, h, done) /\ done \in Nat /\ Nearly(y, c, h.ml)
    <3> HIDE DEF piece, n, y
    <3>1. Len(piece) = Least(h.ml - u.chan[c].proc, u.chunk) /\ u.chan[c].proc <= h.ml
      BY <2>1, <2>2, <2>4, <2>5
    <3> DEFINE k == u.chan[c].proc + Len(piece)
    <3>2. /\ SendChunk(u, c, h, piece) \in Works /\ SendChunk(u, c, h, piece).chunk = u.chunk
          /\ SendChunk(u, c, h, piece).player = u.player
          /\ \A d \in Channels \ {c} : SendChunk(u, c, h, piece).chan[d] = u.chan[d]
          /\ SendChunk(u, c, h, piece).chan[c] = Wrote(u.chan[c], h, k) /\ k \in Nat
          /\ Nearly(SendChunk(u, c, h, piece), c, h.ml)
      <4>1. Continues(u.chan[c], h) /\ NextOf(u.chan[c], h, piece) /\ Touches(u)
            /\ u \in Works /\ piece \in Seq(ByteTokens)
        BY <2>1, <2>2, <2>6
      <4> HIDE DEF u, o
      <4> QED
        BY <3>1, <4>1, SendChunkTouches
    <3>3. k = done
      BY <2>1
    <3> HIDE DEF k, done
    <3> QED
      BY <3>2, <3>3 DEF y
  <2>8. Wrote(o, h, done) = Wrote(o1, h, done)
    <3>1. CASE o = o1
      BY <3>1
    <3>2. CASE o = Wrote(o1, h, o.proc) /\ o.proc # 0
      <4>1. Wrote(Wrote(o1, h, o.proc), h, done) = Wrote(o1, h, done)
        <5> HIDE DEF done, o
        <5> QED
          BY <2>2, <2>7, <3>2, WroteAgain
      <4> HIDE DEF done, o
      <4> QED
        BY <3>2, <4>1
    <3> QED
      BY <2>3, <3>1, <3>2
  <2>9. Wrote(o1, h, done).proc = done
    BY DEF Wrote
  <2>10. Follow(rest, h.mt, h.ml, done)
    <3>1. \A j \in 1 .. Len(rest) : rest[j] = x.left[n + j] /\ n + j \in DOMAIN x.left
      BY <2>1, <2>2, SMTT(30)
    <3>2. DOMAIN rest = 1 .. Len(rest) /\ Len(rest) \in Nat
      BY <2>1
    <3> HIDE DEF rest, n
    <3>3. \A j \in 1 .. Len(rest) : o.proc + (n + j) = done + j
      BY <2>1, <2>2
    <3> QED
      BY <2>3, <3>1, <3>2, <3>3 DEF Follow
  <2>11. done + Len(rest) = o1.proc + Len(bytes) /\ done # 0
    <3> DEFINE a == Len(x.left)
               b == Len(bytes)
               r == Len(rest)
    <3>1. a \in Nat /\ b \in Nat /\ r = a - n /\ o.proc + a = o1.proc + b /\ n \in Nat /\ n # 0
      BY <2>1, <2>2, <2>3
    <3> HIDE DEF a, b, n, o, o1, r
    <3>2. done + r = o1.proc + b /\ done # 0
      BY <2>2, <3>1
    <3> QED
      BY <3>2 DEF r, b
  <2>12. u.player = w.player /\ u.chunk = w.chunk /\ \A d \in Channels \ {c} : u.chan[d] = w.chan[d]
    BY DEF Loop
  <2> HIDE DEF y, z, rest, done, piece, n
  <2>13. z.work = y /\ z.left = rest
    BY <2>1
  <2>14. y.chan[c] = Wrote(o1, h, done) /\ y.chan[c].proc = done
    BY <2>7, <2>8, <2>9
  <2>15. Loop(z, w, c, h, bytes)
    BY <2>7, <2>10, <2>11, <2>12, <2>13, <2>14 DEF Loop
  <2> QED
    BY <2>15 DEF z
<1> QED
  BY <1>1, <1>2

LEMMA ChunkedIsTyped ==
  ASSUME NEW w \in Works, NEW c \in Channels, NEW h \in Announcements,
         NEW bytes \in Seq(ByteTokens), NEW ends \in BOOLEAN
  PROVE  LET x == Chunked(w, c, h, bytes, ends)
         IN  /\ x \in Rounds /\ x.work \in Works /\ x.left \in Seq(ByteTokens)
             /\ x.work.chunk = w.chunk /\ x.work.player = w.player
             /\ ends => x.left = <<>>
             /\ ~ends => Len(x.left) < w.chunk
<1> DEFINE S == {x \in Rounds : x.work.chunk = w.chunk /\ x.work.player = w.player}
           b == [work |-> w, left |-> bytes]
           x == Chunked(w, c, h, bytes, ends)
<1>1. b \in S
  BY DEF Rounds
<1>2. ASSUME NEW y \in Rounds, y \in S
      PROVE  Round(y, c, h, ends) \in S
  <2>1. Round(y, c, h, ends) \in Rounds
    BY RoundIs
  <2>2. CASE ~Sendable(y, ends)
    <3>1. Round(y, c, h, ends) = y
      BY <2>2, RoundIs
    <3> QED
      BY <1>2, <3>1
  <2>3. CASE Sendable(y, ends)
    <3> DEFINE piece == SubSeq(y.left, 1, Least(y.work.chunk, Len(y.left)))
               rest == SubSeq(y.left, Least(y.work.chunk, Len(y.left)) + 1, Len(y.left))
               z == SendChunk(y.work, c, h, piece)
    <3>1. Round(y, c, h, ends) = [work |-> z, left |-> rest] /\ piece \in Seq(ByteTokens)
      BY <2>3, RoundIs
    <3>2. y.work \in Works /\ y.work.chunk = w.chunk /\ y.work.player = w.player
      BY <1>2, RoundFields
    <3>3. z = [chan |-> [y.work.chan EXCEPT ![c] = Wrote(@, h, @.proc + Len(piece))],
               chunk |-> y.work.chunk, player |-> y.work.player,
               peer |-> PeerOf(y.work, c, h, piece)]
      <4> HIDE DEF piece
      <4> QED
        BY <3>1, <3>2, SendChunkIs
    <3>4. z.chunk = w.chunk /\ z.player = w.player
      <4> HIDE DEF z, piece
      <4> QED
        BY <3>2, <3>3
    <3> HIDE DEF z, rest, piece
    <3> QED
      BY <2>1, <3>1, <3>4
  <2> QED
    BY <2>2, <2>3
<1>3. x \in S /\ x \in Rounds
  <2> HIDE DEF S
  <2> QED
    BY <1>1, <1>2, ChunkedKeeps
<1>4. ~Sendable(x, ends)
  BY ChunkedEnds
<1> HIDE DEF x
<1>5. x.work.chunk = w.chunk /\ x.work.player = w.player
  BY <1>3
<1>6. x.work \in Works /\ x.left \in Seq(ByteTokens) /\ Len(x.left) \in Nat /\ w.chunk \in Nat \ {0}
  BY <1>3, <1>5, RoundFields
<1>7. ends => x.left = <<>>
  BY <1>4 DEF Sendable
<1>8. ASSUME ~ends
      PROVE  Len(x.left) < w.chunk
  <2>1. x.left = <<>> \/ ~(x.work.chunk <= Len(x.left))
    BY <1>4, <1>8 DEF Sendable
  <2> DEFINE a == Len(x.left)
  <2>2. x.left = <<>> => a = 0
    OBVIOUS
  <2>3. a = 0 \/ ~(w.chunk <= a)
    BY <1>5, <2>1, <2>2
  <2> HIDE DEF a
  <2>4. a < w.chunk
    BY <1>6, <2>3 DEF a
  <2> QED
    BY <2>4 DEF a
<1> QED
  BY <1>3, <1>5, <1>6, <1>7, <1>8 DEF x

\* What the loop has done when it ends.
LEMMA ChunkedTouches ==
  ASSUME NEW w \in Works, NEW c \in Channels, NEW h \in Announcements,
         NEW bytes \in Seq(ByteTokens), NEW ends \in BOOLEAN,
         Touches(w), Continues(w.chan[c], h), NextOf(w.chan[c], h, bytes),
         h.mt \notin {"chunk", "abort"}, w.chan[c].proc # h.ml,
         w.chan[c].proc + Len(bytes) <= h.ml, ends => w.chan[c].proc + Len(bytes) = h.ml
  PROVE  Loop(Chunked(w, c, h, bytes, ends), w, c, h, bytes)
<1> DEFINE b == [work |-> w, left |-> bytes]
           S == {x \in Rounds : Loop(x, w, c, h, bytes)}
<1>1. b \in S
  <2>1. Nearly(w, c, h.ml)
    BY HeaderFields, NearlyIs
  <2>2. Follow(bytes, h.mt, h.ml, w.chan[c].proc)
    BY DEF NextOf
  <2>3. Loop(b, w, c, h, bytes)
    BY <2>1, <2>2 DEF Loop
  <2>4. b \in Rounds
    BY DEF Rounds
  <2> HIDE DEF b
  <2> QED
    BY <2>3, <2>4
<1>2. ASSUME NEW x \in Rounds, x \in S
      PROVE  Round(x, c, h, ends) \in S
  <2>1. Round(x, c, h, ends) \in Rounds
    BY RoundIs
  <2>2. Loop(Round(x, c, h, ends), w, c, h, bytes)
    BY <1>2, RoundKeepsLoop
  <2> QED
    BY <2>1, <2>2
<1>3. Chunked(w, c, h, bytes, ends) \in S
  <2> HIDE DEF S, b
  <2>1. [work |-> w, left |-> bytes] \in S
    BY <1>1 DEF b
  <2> QED
    BY <1>2, <2>1, ChunkedKeeps
<1> QED
  BY <1>3

\* The bytes sent of the message on a channel are noted.
Settled(w, c, v) == [w EXCEPT !.chan[c].proc = v]

\* The end of a message is noted.
LEMMA SettledIs ==
  ASSUME NEW w \in Works, NEW c \in Channels, NEW v \in Nat
  PROVE  LET y == Settled(w, c, v)
             o == w.chan[c]
         IN  /\ y \in Works /\ y.chunk = w.chunk /\ y.player = w.player /\ y.peer = w.peer
             /\ \A d \in Channels \ {c} : y.chan[d] = w.chan[d]
             /\ y.chan[c] = [hdr |-> o.hdr, proc |-> v, absTs |-> o.absTs, sid |-> o.sid]
             /\ \A ml \in Nat : Nearly(w, c, ml) /\ v = (IF o.proc = ml THEN 0 ELSE o.proc)
                                  => Touches(y)
<1> DEFINE o == w.chan[c]
           q == [hdr |-> o.hdr, proc |-> v, absTs |-> o.absTs, sid |-> o.sid]
           chan == [w.chan EXCEPT ![c] = q]
           y == Settled(w, c, v)
<1>1. /\ o \in OutChannels /\ w.chan \in [Channels -> OutChannels] /\ w.chunk \in Sizes
      /\ w.player \in Players /\ w.peer \in Peers
  BY WorkFields
<1>2. [o EXCEPT !.proc = v] = q /\ q \in OutChannels
  <2> HIDE DEF o
  <2> QED
    BY <1>1 DEF OutChannels
<1>3. y = [w EXCEPT !.chan = chan]
  <2>1. y = [w EXCEPT !.chan = [w.chan EXCEPT ![c] = [o EXCEPT !.proc = v]]]
    BY DEF Settled
  <2> HIDE DEF q, y, o
  <2> QED
    BY <1>2, <2>1
<1>4. chan \in [Channels -> OutChannels] /\ chan[c] = q
      /\ \A d \in Channels \ {c} : chan[d] = w.chan[d]
  <2> HIDE DEF q
  <2> QED
    BY <1>1, <1>2
<1>5. y = [chan |-> chan, chunk |-> w.chunk, player |-> w.player, peer |-> w.peer]
  <2> HIDE DEF chan, y
  <2> QED
    BY <1>3 DEF Works
<1>6. y \in Works
  <2> HIDE DEF chan, y
  <2> QED
    BY <1>1, <1>4, <1>5, WorkIs
<1> HIDE DEF chan
<1>7. /\ y.chan = chan /\ y.chunk = w.chunk /\ y.player = w.player /\ y.peer = w.peer
  <2> HIDE DEF y
  <2> QED
    BY <1>5
<1>8. ASSUME NEW ml \in Nat, Nearly(w, c, ml), v = (IF o.proc = ml THEN 0 ELSE o.proc)
      PROVE  Touches(y)
  <2>1. q = Ended(o, ml)
    BY <1>8 DEF Ended
  <2> HIDE DEF q, y, o
  <2> QED
    BY <1>4, <1>7, <1>8, <2>1 DEF Nearly, Touches, o
<1> HIDE DEF y
<1> QED
  BY <1>4, <1>6, <1>7, <1>8 DEF y

LEMMA SettledFields ==
  ASSUME NEW w \in Works, NEW c \in Channels, NEW v \in Nat
  PROVE  /\ Settled(w, c, v) \in Works /\ Settled(w, c, v).chunk = w.chunk
         /\ Settled(w, c, v).player = w.player /\ Settled(w, c, v).peer = w.peer
         /\ \A d \in Channels \ {c} : Settled(w, c, v).chan[d] = w.chan[d]
         /\ Settled(w, c, v).chan[c] = [hdr |-> w.chan[c].hdr, proc |-> v,
                                        absTs |-> w.chan[c].absTs, sid |-> w.chan[c].sid]
BY SettledIs

LEMMA SettledTouches ==
  ASSUME NEW w \in Works, NEW c \in Channels, NEW ml \in Nat, NEW v \in Nat,
         Nearly(w, c, ml), v = IF w.chan[c].proc = ml THEN 0 ELSE w.chan[c].proc
  PROVE  Touches(Settled(w, c, v))
BY SettledIs

-----------------------------------------------------------------------------
(* Messages *)

LEMMA BytesAre ==
  ASSUME NEW mt \in MessageTypes, NEW ml \in Nat, NEW p \in Nat, NEW n \in Nat,
         NEW v \in Sayings(mt)
  PROVE  LET b == Bytes(mt, ml, p + 1, p + n, v)
         IN  /\ b \in Seq(ByteTokens) /\ Len(b) = n /\ Follow(b, mt, ml, p)
             /\ \A j \in 1 .. n : b[j].v = v
             /\ b = <<>> <=> n = 0
<1> DEFINE B == [j \in 1 .. n |-> [mt |-> mt, ml |-> ml, i |-> p + j, v |-> v]]
<1>1. Bytes(mt, ml, p + 1, p + n, v) = B
  <2>1. (p + n) - (p + 1) + 1 = n /\ \A j \in 1 .. n : (p + 1) + j - 1 = p + j
    OBVIOUS
  <2> QED
    BY <2>1 DEF Bytes
<1>2. \A j \in 1 .. n : B[j] \in ByteTokens
  BY ByteIs
<1>3. B \in Seq(ByteTokens) /\ Len(B) = n /\ DOMAIN B = 1 .. n
  BY <1>2
<1>4. \A j \in 1 .. n : B[j].mt = mt /\ B[j].ml = ml /\ B[j].i = p + j /\ B[j].v = v
  OBVIOUS
<1> HIDE DEF B
<1>5. Follow(B, mt, ml, p)
  BY <1>3, <1>4 DEF Follow
<1>6. B = <<>> <=> n = 0
  BY <1>3
<1> QED
  BY <1>1, <1>3, <1>4, <1>5, <1>6

LEMMA FirstBytes ==
  ASSUME NEW mt \in MessageTypes, NEW ml \in Nat, NEW v \in Sayings(mt)
  PROVE  LET b == Bytes(mt, ml, 0 + 1, 0 + ml, v)
         IN  b \in Seq(ByteTokens) /\ Len(b) = ml /\ Follow(b, mt, ml, 0)
BY BytesAre

LEMMA FirstBytesSay ==
  ASSUME NEW mt \in MessageTypes, NEW ml \in Nat, NEW v \in Sayings(mt)
  PROVE  \A j \in 1 .. ml : Bytes(mt, ml, 0 + 1, 0 + ml, v)[j].v = v
<1>1. (0 + ml) - (0 + 1) + 1 = ml
  OBVIOUS
<1> QED
  BY <1>1 DEF Bytes

LEMMA MessageBytes ==
  ASSUME NEW h \in Announcements, NEW v \in Sayings(h.mt)
  PROVE  LET b == Bytes(h.mt, h.ml, 0 + 1, 0 + h.ml, v)
         IN  /\ b \in Seq(ByteTokens) /\ Len(b) = h.ml /\ Follow(b, h.mt, h.ml, 0)
             /\ \A j \in 1 .. h.ml : b[j].v = v
<1>1. h.mt \in MessageTypes /\ h.ml \in Nat
  BY HeaderFields
<1> QED
  BY <1>1, FirstBytes, FirstBytesSay, Zenon

\* A message keeps the types, and all but the channels and the peer.
LEMMA SendMessageIsTyped ==
  ASSUME NEW w \in Works, NEW c \in Channels, NEW h \in Announcements, NEW v \in Sayings(h.mt)
  PROVE  LET x == SendMessage(w, c, h, v)
         IN  x \in Works /\ x.chunk = w.chunk /\ x.player = w.player
<1> DEFINE b == Bytes(h.mt, h.ml, 0 + 1, 0 + h.ml, v)
           y == Chunked(w, c, h, b, TRUE)
<1>1. b \in Seq(ByteTokens) /\ h.ml \in Nat
  BY HeaderFields, BytesAre
<1>2. 0 + 1 = 1 /\ 0 + h.ml = h.ml
  BY <1>1
<1>3. SendMessage(w, c, h, v) = Settled(y.work, c, 0)
  BY <1>2 DEF SendMessage, Settled
<1> HIDE DEF b
<1>4. y.work \in Works /\ y.work.chunk = w.chunk /\ y.work.player = w.player
  BY <1>1, ChunkedIsTyped
<1> DEFINE u == y.work
<1> HIDE DEF y, u
<1>5. u \in Works /\ 0 \in Nat
  BY <1>4 DEF u
<1>6. Settled(u, c, 0) \in Works /\ Settled(u, c, 0).chunk = u.chunk
  BY <1>5, SettledFields
<1>7. Settled(u, c, 0).player = u.player
  BY <1>5, SettledFields
<1> QED
  BY <1>3, <1>4, <1>6, <1>7 DEF u

\* A message about something else than the channels is sent, and the two ends stay in
\* step.
LEMMA SendMessageKeeps ==
  ASSUME NEW w \in Works, NEW c \in Channels, NEW h \in Announcements, NEW v \in Sayings(h.mt),
         Touches(w), w.chan[c].proc = 0, h.ml # 0, h.mt \notin Kinds \cup {"chunk", "abort"}
  PROVE  LET x == SendMessage(w, c, h, v)
         IN  /\ Touches(x) /\ x.chan[c].proc = 0 /\ x.chan[c].sid = h.si
             /\ \A d \in Channels \ {c} : x.chan[d] = w.chan[d]
<1> DEFINE b == Bytes(h.mt, h.ml, 0 + 1, 0 + h.ml, v)
           y == Chunked(w, c, h, b, TRUE)
           o == w.chan[c]
<1>1. b \in Seq(ByteTokens) /\ h.ml \in Nat /\ Len(b) = h.ml /\ Follow(b, h.mt, h.ml, 0)
  BY HeaderFields, MessageBytes, ZenonT(30)
<1>2. 0 + 1 = 1 /\ 0 + h.ml = h.ml
  BY <1>1
<1>3. SendMessage(w, c, h, v) = Settled(y.work, c, 0)
  BY <1>2 DEF SendMessage, Settled
<1> HIDE DEF b
<1>4. y \in Rounds /\ y.work \in Works /\ y.left = <<>>
  BY <1>1, ChunkedIsTyped
<1>5. Loop(y, w, c, h, b)
  <2>1. Continues(o, h) /\ NextOf(o, h, b)
    BY <1>1 DEF Continues, NextOf
  <2>2. o.proc + Len(b) = h.ml /\ o.proc + Len(b) <= h.ml /\ o.proc # h.ml
    BY <1>1
  <2> QED
    BY <1>1, <2>1, <2>2, ChunkedTouches
<1> HIDE DEF y
<1>6. y.work.chan[c].proc = h.ml
  <2>1. y.work.chan[c].proc + Len(y.left) = 0 + h.ml /\ y.work.chan[c] \in OutChannels
    BY <1>1, <1>4, <1>5, WorkFields DEF Loop
  <2>2. Len(y.left) = 0 /\ y.work.chan[c].proc \in Nat
    BY <1>4, <2>1, OutFields
  <2> QED
    BY <1>1, <2>1, <2>2
<1>7. Nearly(y.work, c, h.ml) /\ y.work.chan[c].sid = h.si
  <2>1. Wrote(o, h, y.work.chan[c].proc).sid = h.si
    BY DEF Wrote
  <2> QED
    BY <1>6, <1>5, <2>1 DEF Loop
<1>8. \A d \in Channels \ {c} : y.work.chan[d] = w.chan[d]
  BY <1>5 DEF Loop
<1> DEFINE z == Settled(y.work, c, 0)
<1>9. /\ \A d \in Channels \ {c} : z.chan[d] = y.work.chan[d]
      /\ z.chan[c].proc = 0 /\ z.chan[c].sid = y.work.chan[c].sid
      /\ Touches(z)
  <2>1. 0 \in Nat /\ 0 = IF y.work.chan[c].proc = h.ml THEN 0 ELSE y.work.chan[c].proc
    BY <1>6
  <2>2. Touches(z)
    BY <1>1, <1>4, <1>7, <2>1, SettledTouches
  <2> HIDE DEF z
  <2> QED
    <3> DEFINE u == y.work
    <3> HIDE DEF u
    <3>1. u \in Works
      BY <1>4 DEF u
    <3>2. \A d \in Channels \ {c} : Settled(u, c, 0).chan[d] = u.chan[d]
      BY <2>1, <3>1, SettledFields
    <3>3. Settled(u, c, 0).chan[c] = [hdr |-> u.chan[c].hdr, proc |-> 0,
                                      absTs |-> u.chan[c].absTs, sid |-> u.chan[c].sid]
      BY <2>1, <3>1, SettledFields
    <3> QED
      BY <2>2, <3>2, <3>3 DEF z, u
<1> HIDE DEF z
<1> QED
  BY <1>3, <1>7, <1>8, <1>9 DEF z

LEMMA EmptyIs ==
  ASSUME NEW S, NEW q \in Seq(S)
  PROVE  q = <<>> <=> Len(q) = 0
OBVIOUS

\* A message of one byte is one chunk, whatever the chunk size.
LEMMA OneRound ==
  ASSUME NEW w \in Works, NEW c \in Channels, NEW h \in Announcements,
         NEW bytes \in Seq(ByteTokens), NEW ends \in BOOLEAN
  PROVE  Len(bytes) = 1 => Chunked(w, c, h, bytes, ends) =
                             Round([work |-> w, left |-> bytes], c, h, ends)
<1>1. PICK f \in [0 .. Len(bytes) -> Rounds] :
           /\ f[0] = [work |-> w, left |-> bytes]
           /\ Chunked(w, c, h, bytes, ends) = f[Len(bytes)]
           /\ \A i \in 1 .. Len(bytes) : f[i] = Round(f[i - 1], c, h, ends)
  BY ChunkedIs
<1> SUFFICES ASSUME Len(bytes) = 1
             PROVE  Chunked(w, c, h, bytes, ends) = Round([work |-> w, left |-> bytes], c, h, ends)
  OBVIOUS
<1>2. 1 \in 1 .. Len(bytes) /\ 1 - 1 = 0
  OBVIOUS
<1>3. f[1] = Round(f[0], c, h, ends)
  BY <1>1, <1>2
<1> QED
  BY <1>1, <1>3

LEMMA ShortIsOneChunk ==
  ASSUME NEW w \in Works, NEW c \in Channels, NEW h \in Announcements,
         NEW bytes \in Seq(ByteTokens), Len(bytes) = 1
  PROVE  Chunked(w, c, h, bytes, TRUE) = [work |-> SendChunk(w, c, h, bytes), left |-> <<>>]
<1> DEFINE b == [work |-> w, left |-> bytes]
<1>2. Chunked(w, c, h, bytes, TRUE) = Round(b, c, h, TRUE)
  BY OneRound
<1>3. b \in Rounds /\ b.work = w /\ b.left = bytes /\ w.chunk \in Nat \ {0}
  <2>1. b \in Rounds
    BY DEF Rounds
  <2> QED
    BY <2>1, RoundFields
<1>8. bytes # <<>>
  <2>1. Len(bytes) # 0
    OBVIOUS
  <2> QED
    BY <2>1, EmptyIs, Zenon
<1> HIDE DEF b
<1>4. Sendable(b, TRUE) /\ Least(w.chunk, Len(bytes)) = 1
  <2>1. Sendable(b, TRUE)
    BY <1>3, <1>8 DEF Sendable
  <2>2. Least(w.chunk, 1) = 1
    BY <1>3 DEF Least
  <2> QED
    BY <2>1, <2>2
<1>5. Round(b, c, h, TRUE) =
        [work |-> SendChunk(b.work, c, h, SubSeq(b.left, 1, Least(b.work.chunk, Len(b.left)))),
         left |-> SubSeq(b.left, Least(b.work.chunk, Len(b.left)) + 1, Len(b.left))]
  BY <1>3, <1>4, RoundIs
<1>6. SubSeq(bytes, 1, 1) = bytes /\ SubSeq(bytes, 1 + 1, Len(bytes)) = <<>>
  OBVIOUS
<1>7. Round(b, c, h, TRUE) = [work |-> SendChunk(w, c, h, SubSeq(bytes, 1, 1)),
                              left |-> SubSeq(bytes, 1 + 1, Len(bytes))]
  BY <1>3, <1>4, <1>5
<1> QED
  BY <1>2, <1>6, <1>7

\* The channel, and its end at the peer, after a message was sent on it at once.
LEMMA ShortIsSame ==
  ASSUME NEW o \in OutChannels, NEW h \in Announcements
  PROVE  Same(Wrote(o, h, 0), [hdr |-> Header(h), proc |-> 0, absTs |-> TimeOf(o, h)])
BY HeaderFields, Parameters DEF Same, Wrote

\* A message of one byte that is sent on a channel, and that the peer completes.
LEMMA ShortMessage ==
  ASSUME NEW w \in Works, NEW c \in Channels, NEW h \in Announcements, NEW v \in Sayings(h.mt),
         Waits(w.peer), Same(w.chan[c], w.peer.chans[c]), w.chan[c].proc = 0, h.ml = 1,
         h.mt \notin Kinds
  PROVE  LET x == SendMessage(w, c, h, v)
             o == w.chan[c]
         IN  /\ x \in Works /\ x.chunk = w.chunk /\ x.player = w.player
             /\ \A d \in Channels \ {c} : x.chan[d] = w.chan[d]
             /\ x.chan[c] = Wrote(o, h, 0)
             /\ \E b \in Seq(ByteTokens) :
                  /\ b[Len(b)].mt = h.mt /\ b[Len(b)].v = v
                  /\ x.peer = Complete(After(w.peer, c, h, 1, TimeOf(o, h)), b)
<1> DEFINE b == Bytes(h.mt, h.ml, 0 + 1, 0 + h.ml, v)
           o == w.chan[c]
           y == SendChunk(w, c, h, b)
           x == SendMessage(w, c, h, v)
           e == Wrote(o, h, 1)
<1>1. /\ b \in Seq(ByteTokens) /\ Len(b) = 1 /\ Follow(b, h.mt, h.ml, 0) /\ b[1].v = v
      /\ DOMAIN b = 1 .. 1
  <2>1. h.mt \in MessageTypes /\ h.ml \in Nat /\ 0 \in Nat
    BY HeaderFields
  <2>2. /\ b \in Seq(ByteTokens) /\ Len(b) = h.ml /\ Follow(b, h.mt, h.ml, 0)
        /\ \A j \in 1 .. h.ml : b[j].v = v
    BY MessageBytes
  <2> HIDE DEF b
  <2> QED
    BY <2>2
<1>2. 0 + 1 = 1 /\ 0 + h.ml = h.ml
  OBVIOUS
<1>3. x = Settled(Chunked(w, c, h, b, TRUE).work, c, 0)
  BY <1>2 DEF SendMessage, Settled
<1> HIDE DEF b
<1>4. x = Settled(y, c, 0)
  <2>1. Chunked(w, c, h, b, TRUE) = [work |-> y, left |-> <<>>]
    BY <1>1, ShortIsOneChunk
  <2>2. Chunked(w, c, h, b, TRUE).work = y
    <3> HIDE DEF y
    <3>1. [work |-> y, left |-> <<>>].work = y
      OBVIOUS
    <3> QED
      BY <2>1, <3>1
  <2> HIDE DEF x, y
  <2> QED
    BY <1>3, <2>2
<1>5. /\ y = [chan |-> [w.chan EXCEPT ![c] = Wrote(@, h, @.proc + Len(b))],
              chunk |-> w.chunk, player |-> w.player, peer |-> PeerOf(w, c, h, b)]
  BY <1>1, SendChunkIs
<1>15. y \in Works
  BY <1>1, SendChunkIs
<1>6. /\ w.chan \in [Channels -> OutChannels] /\ o \in OutChannels /\ w.peer \in Peers
      /\ w.peer.chunk \in Nat \ {0}
  BY WorkFields, PeerFields
<1>7. y.chan = [w.chan EXCEPT ![c] = e] /\ y.chunk = w.chunk /\ y.player = w.player
      /\ y.peer = PeerOf(w, c, h, b)
  <2>1. [w.chan EXCEPT ![c] = Wrote(@, h, @.proc + Len(b))] = [w.chan EXCEPT ![c] = e]
    BY <1>1, <1>6
  <2> HIDE DEF y, e, o
  <2> QED
    BY <1>5, <2>1
<1>8. y.chan[c] = e /\ \A d \in Channels \ {c} : y.chan[d] = w.chan[d]
  <2> HIDE DEF y, e
  <2> QED
    BY <1>6, <1>7
<1>9. e.hdr = Header(h) /\ e.absTs = TimeOf(o, h) /\ e.sid = h.si
  BY DEF Wrote
<1> HIDE DEF y, x, e
<1>10. /\ x \in Works /\ x.chunk = w.chunk /\ x.player = w.player /\ x.peer = y.peer
       /\ \A d \in Channels \ {c} : x.chan[d] = w.chan[d]
  <2>1. 0 \in Nat
    OBVIOUS
  <2>2. /\ Settled(y, c, 0) \in Works /\ Settled(y, c, 0).chunk = y.chunk
        /\ Settled(y, c, 0).player = y.player /\ Settled(y, c, 0).peer = y.peer
    BY <1>15, <2>1, SettledFields
  <2>3. \A d \in Channels \ {c} : Settled(y, c, 0).chan[d] = y.chan[d]
    BY <1>15, <2>1, SettledFields
  <2> QED
    BY <1>4, <1>7, <1>8, <2>2, <2>3
<1>11. x.chan[c] = Wrote(o, h, 0)
  <2>1. 0 \in Nat
    OBVIOUS
  <2>2. x.chan[c] = [hdr |-> y.chan[c].hdr, proc |-> 0, absTs |-> y.chan[c].absTs,
                     sid |-> y.chan[c].sid]
    <3>1. Settled(y, c, 0).chan[c] = [hdr |-> y.chan[c].hdr, proc |-> 0,
                                      absTs |-> y.chan[c].absTs, sid |-> y.chan[c].sid]
      BY <1>15, <2>1, SettledFields
    <3> QED
      BY <1>4, <3>1
  <2> QED
    BY <1>8, <1>9, <2>2 DEF Wrote
<1>12. PeerOf(w, c, h, b) = Complete(After(w.peer, c, h, 1, TimeOf(o, h)), b)
  <2> DEFINE m == w.peer
             next == After(m, c, h, o.proc + Len(b), TimeOf(o, h))
  <2>1. /\ m \in Peers /\ o \in OutChannels /\ Waits(m) /\ Same(o, m.chans[c]) /\ o.proc <= h.ml
        /\ (o.proc # 0 => o.sid = h.si /\ o.hdr = Header(h)) /\ NextOf(o, h, b)
        /\ b \in Seq(ByteTokens)
    BY <1>1, <1>6 DEF NextOf
  <2>2. Len(b) = Least(h.ml - o.proc, m.chunk) /\ h.ml - o.proc = 1
    BY <1>1, <1>6 DEF Least
  <2> HIDE DEF m, o
  <2>3. Delivered(Receive(m, Token(o, c, h)), b) =
               IF Len(b) > 0 /\ o.proc + Len(b) = h.ml THEN Complete(next, b) ELSE next
    BY <2>1, <2>2, ChunkArrives
  <2>4. o.proc + Len(b) = 1 /\ Len(b) > 0
    BY <1>1 DEF o
  <2> QED
    BY <2>3, <2>4 DEF PeerOf, m, o
<1>13. b[Len(b)].mt = h.mt /\ b[Len(b)].v = v
  BY <1>1 DEF Follow
<1> HIDE DEF o
<1>14. \E q \in Seq(ByteTokens) :
          /\ q[Len(q)].mt = h.mt /\ q[Len(q)].v = v
          /\ x.peer = Complete(After(w.peer, c, h, 1, TimeOf(o, h)), q)
  BY <1>1, <1>7, <1>10, <1>12, <1>13
<1> QED
  BY <1>10, <1>11, <1>14 DEF x, o

-----------------------------------------------------------------------------
(* What is said on a channel. *)

LEMMA ProtocolHeaderIs ==
  ASSUME NEW mt \in MessageTypes
  PROVE  LET h == ProtocolHeader(mt)
         IN  h \in Announcements /\ h.mt = mt /\ h.ml = 1 /\ h.si = 0
BY Parameters DEF ProtocolHeader, Announcements

LEMMA CommandHeaderIs ==
  ASSUME NEW mt \in MessageTypes, NEW si \in Ids, NEW ts \in Times, NEW ia \in BOOLEAN
  PROVE  LET h == CommandHeader(mt, si, ts, ia)
         IN  h \in Announcements /\ h.mt = mt /\ h.ml # 0 /\ h.si = si
BY Parameters DEF CommandHeader, Announcements

\* x is w after a whole message on channel c.
Said(x, w, c) ==
  /\ x \in Works /\ x.chunk = w.chunk /\ x.player = w.player
  /\ InTouch(w) /\ w.chan[c].proc = 0 =>
       /\ InTouch(x) /\ x.chan[c].proc = 0
       /\ \A d \in Channels \ {c} : x.chan[d] = w.chan[d]

LEMMA MessageIsSaid ==
  ASSUME NEW w \in Works, NEW c \in Channels, NEW h \in Announcements, NEW v \in Sayings(h.mt),
         h.ml # 0, h.mt \notin Kinds \cup {"chunk", "abort"}
  PROVE  Said(SendMessage(w, c, h, v), w, c)
<1> DEFINE x == SendMessage(w, c, h, v)
<1>1. x \in Works /\ x.chunk = w.chunk /\ x.player = w.player
  BY SendMessageIsTyped
<1>2. ASSUME InTouch(w), w.chan[c].proc = 0
      PROVE  /\ Touches(x) /\ x.chan[c].proc = 0
             /\ \A d \in Channels \ {c} : x.chan[d] = w.chan[d]
  BY <1>2, SendMessageKeeps DEF InTouch
<1>3. Control \in Channels /\ Commands \in Channels
  BY ChannelsAre
<1> HIDE DEF x
<1>4. ASSUME InTouch(w), w.chan[c].proc = 0
      PROVE  InTouch(x)
  BY <1>2, <1>3, <1>4 DEF InTouch
<1> QED
  BY <1>1, <1>2, <1>4 DEF Said, x

LEMMA UserControlIsSaid ==
  ASSUME NEW w \in Works
  PROVE  Said(SendUserControl(w), w, Control)
<1> DEFINE h == ProtocolHeader("usrctrl")
<1>1. h \in Announcements /\ h.mt = "usrctrl" /\ h.ml = 1
  BY ProtocolHeaderIs DEF MessageTypes
<1>2. 0 \in Sayings("usrctrl") /\ Control \in Channels /\ "usrctrl" \notin Kinds
  BY ChannelsAre DEF Sayings, Kinds
<1> HIDE DEF h
<1>3. Said(SendMessage(w, Control, h, 0), w, Control)
  BY <1>1, <1>2, MessageIsSaid
<1> QED
  BY <1>3 DEF SendUserControl, h

\* The messages that have no more to say.
LEMMA CommandIsSaid ==
  ASSUME NEW w \in Works, NEW c \in Channels, NEW mt \in {"invoke", "notify"}, NEW si \in Ids,
         NEW ts \in Times, NEW ia \in BOOLEAN
  PROVE  Said(SendMessage(w, c, CommandHeader(mt, si, ts, ia), 0), w, c)
<1> DEFINE h == CommandHeader(mt, si, ts, ia)
<1>0. mt \in MessageTypes
  BY DEF MessageTypes
<1>1. h \in Announcements /\ h.mt = mt /\ h.ml # 0
  BY <1>0, CommandHeaderIs
<1>2. 0 \in Sayings(mt) /\ mt \notin Kinds
  BY DEF Sayings, Kinds
<1> HIDE DEF h
<1>3. Said(SendMessage(w, c, h, 0), w, c)
  BY <1>1, <1>2, MessageIsSaid
<1> QED
  BY <1>3 DEF h

LEMMA StatusIsSaid ==
  ASSUME NEW w \in Works, w.player.chan["audio"] \in Channels, NEW mt \in {"invoke", "notify"},
         NEW ts \in Times, NEW ia \in BOOLEAN
  PROVE  Said(SendStatus(w, mt, ts, ia), w, w.player.chan["audio"])
<1>1. w.player.si \in Ids
  BY WorkFields DEF Players
<1> QED
  BY <1>1, CommandIsSaid DEF SendStatus

\* What is said about the channels.
LEMMA ChunkSizeIsSet ==
  ASSUME NEW w \in Works, NEW s \in Sizes
  PROVE  LET x == TrySetOutboundChunkSize(w, s)
         IN  /\ x \in Works /\ x.player = w.player /\ w.chunk <= x.chunk /\ s <= x.chunk
             /\ InTouch(w) => /\ InTouch(x)
                              /\ \A d \in Channels \ {Control} : x.chan[d] = w.chan[d]
<1>0. w.chunk \in Nat /\ s \in Nat
  BY Parameters, WorkFields
<1>1. CASE w.chunk >= s
  BY <1>0, <1>1 DEF TrySetOutboundChunkSize
<1>2. CASE ~(w.chunk >= s)
  <2> DEFINE u == [w EXCEPT !.chunk = s]
             h == ProtocolHeader("chunk")
             x == SendMessage(u, Control, h, s)
             o == u.chan[Control]
  <2>1. TrySetOutboundChunkSize(w, s) = x
    BY <1>2 DEF TrySetOutboundChunkSize
  <2>2. /\ u \in Works /\ u.chunk = s /\ u.chan = w.chan /\ u.player = w.player
        /\ u.peer = w.peer
    BY DEF Works
  <2>3. /\ h \in Announcements /\ h.mt = "chunk" /\ h.ml = 1 /\ s \in Sayings(h.mt)
        /\ "chunk" \notin Kinds /\ Control \in Channels /\ Commands \in Channels \ {Control}
    <3>1. h \in Announcements /\ h.mt = "chunk" /\ h.ml = 1
      BY ProtocolHeaderIs DEF MessageTypes
    <3>2. s \in Sayings("chunk")
      BY DEF Sayings, Kinds
    <3> HIDE DEF h
    <3> QED
      BY <3>1, <3>2, ChannelsAre DEF Kinds
  <2> HIDE DEF u, h, x
  <2>4. x \in Works /\ x.chunk = s /\ x.player = w.player
    BY <2>2, <2>3, SendMessageIsTyped DEF x
  <2>5. ASSUME InTouch(w)
        PROVE  InTouch(x) /\ \A d \in Channels \ {Control} : x.chan[d] = w.chan[d]
    <3>1. Waits(u.peer) /\ Same(u.chan[Control], u.peer.chans[Control]) /\ o.proc = 0
      BY <2>2, <2>3, <2>5 DEF InTouch, Touches
    <3> DEFINE next == After(u.peer, Control, h, 1, TimeOf(o, h))
               e == [hdr |-> Header(h), proc |-> 0, absTs |-> TimeOf(o, h)]
    <3>2. /\ \A d \in Channels \ {Control} : x.chan[d] = u.chan[d]
          /\ x.chan[Control] = Wrote(o, h, 0)
      BY <2>2, <2>3, <3>1, ShortMessage DEF x
    <3>3. PICK b \in Seq(ByteTokens) : /\ b[Len(b)].mt = h.mt /\ b[Len(b)].v = s
                                       /\ x.peer = Complete(next, b)
      <4>1. u.chan[Control].proc = 0 /\ h.mt \notin Kinds
        BY <2>3, <3>1
      <4>2. u \in Works /\ Control \in Channels /\ h \in Announcements /\ s \in Sayings(h.mt)
            /\ h.ml = 1 /\ Waits(u.peer) /\ Same(u.chan[Control], u.peer.chans[Control])
        BY <2>2, <2>3, <3>1
      <4> QED
        BY <4>1, <4>2, ShortMessage, Zenon DEF x
    <3>4. x.peer = [next EXCEPT !.chunk = s]
      <4> HIDE DEF next
      <4> QED
        BY <2>3, <3>3 DEF Complete
    <3>5. next = PeerWith(w.peer, 0, <<>>, [w.peer.chans EXCEPT ![Control] = e], w.peer.mistimed)
      BY <2>2, <2>3 DEF After
    <3>6. /\ x.peer.chunk = s /\ x.peer.sel = 0 /\ x.peer.buffer = <<>>
          /\ x.peer.garbled = w.peer.garbled /\ x.peer.mistimed = w.peer.mistimed
          /\ x.peer.chans = [w.peer.chans EXCEPT ![Control] = e]
      <4> HIDE DEF next, e
      <4> QED
        BY <3>4, <3>5 DEF PeerWith
    <3>7. o \in OutChannels /\ w.peer.chans \in [Channels -> InChannels]
      BY <2>2, <2>3, WorkFields, PeerFields
    <3>8. Same(x.chan[Control], e)
      <4> HIDE DEF o
      <4> QED
        BY <2>3, <3>2, <3>7, ShortIsSame
    <3>9. Wrote(o, h, 0).proc = 0
      BY DEF Wrote
    <3>10. x.peer.chans[Control] = e /\ \A d \in Channels \ {Control} : x.peer.chans[d] = w.peer.chans[d]
      <4> HIDE DEF e
      <4> QED
        BY <2>3, <3>6, <3>7
    <3> HIDE DEF e, o, next
    <3> QED
      BY <2>2, <2>3, <2>4, <2>5, <3>2, <3>6, <3>8, <3>9, <3>10 DEF InTouch, Touches, Waits
  <2>6. s <= s /\ w.chunk <= s
    BY <1>0, <1>2
  <2> QED
    BY <2>1, <2>4, <2>5, <2>6
<1> QED
  BY <1>1, <1>2

\* A half sent message is given up, by both ends.
LEMMA AbortIs ==
  ASSUME NEW w \in Works, NEW k \in Kinds, w.player.chan[k] \in Reservable
  PROVE  LET x == Abort(w, k)
             c == w.player.chan[k]
         IN  /\ x \in Works /\ x.chunk = w.chunk /\ x.player = w.player
             /\ InTouch(w) => /\ InTouch(x) /\ x.chan[c].proc = 0
                              /\ \A d \in Reservable \ {c} : x.chan[d] = w.chan[d]
<1> DEFINE c == w.player.chan[k]
<1>1. CASE w.chan[c].proc = 0
  BY <1>1 DEF Abort
<1>2. CASE w.chan[c].proc # 0
  <2> DEFINE h == ProtocolHeader("abort")
             y == SendMessage(w, Control, h, c)
             o == w.chan[Control]
             x == [y EXCEPT !.chan[c] = FreshOut]
             chan == [y.chan EXCEPT ![c] = FreshOut]
  <2>1. Abort(w, k) = x
    BY <1>2 DEF Abort
  <2>2. /\ c \in Channels /\ c # Control /\ c # Commands /\ Control \in Channels
        /\ Commands \in Channels \ {Control} /\ "abort" \notin Kinds
        /\ Reservable \subseteq Channels \ {Control, Commands}
    BY ChannelsAre DEF Kinds
  <2> HIDE DEF c
  <2>3. h \in Announcements /\ h.mt = "abort" /\ h.ml = 1 /\ c \in Sayings(h.mt)
    <3>1. h \in Announcements /\ h.mt = "abort" /\ h.ml = 1
      BY ProtocolHeaderIs DEF MessageTypes
    <3>2. c \in Sayings("abort")
      BY <2>2 DEF Sayings, Kinds
    <3> HIDE DEF h
    <3> QED
      BY <3>1, <3>2
  <2> HIDE DEF h, y
  <2>4. y \in Works /\ y.chunk = w.chunk /\ y.player = w.player
    BY <2>2, <2>3, SendMessageIsTyped DEF y
  <2>5. /\ x = [chan |-> chan, chunk |-> y.chunk, player |-> y.player, peer |-> y.peer]
        /\ chan \in [Channels -> OutChannels]
    <3>1. x = [y EXCEPT !.chan = chan]
      OBVIOUS
    <3>2. chan \in [Channels -> OutChannels]
      BY <2>4, WorkFields, FreshIsTyped
    <3> HIDE DEF chan, x
    <3> QED
      BY <2>4, <3>1, <3>2 DEF Works
  <2>6. chan[c] = FreshOut /\ \A d \in Channels \ {c} : chan[d] = y.chan[d]
    BY <2>2, <2>4, WorkFields
  <2> HIDE DEF x, chan
  <2>7. x \in Works /\ x.chunk = w.chunk /\ x.player = w.player /\ x.chan = chan
        /\ x.peer = y.peer
    <3>1. x \in Works
      BY <2>4, <2>5, WorkFields, WorkIs
    <3> QED
      BY <2>4, <2>5, <3>1
  <2>8. ASSUME InTouch(w)
        PROVE  /\ InTouch(x) /\ x.chan[c].proc = 0
               /\ \A d \in Reservable \ {c} : x.chan[d] = w.chan[d]
    <3>1. Waits(w.peer) /\ Same(o, w.peer.chans[Control]) /\ o.proc = 0
      BY <2>2, <2>8 DEF InTouch, Touches
    <3> DEFINE next == After(w.peer, Control, h, 1, TimeOf(o, h))
               e == [hdr |-> Header(h), proc |-> 0, absTs |-> TimeOf(o, h)]
               mid == [w.peer.chans EXCEPT ![Control] = e]
    <3>2. /\ \A d \in Channels \ {Control} : y.chan[d] = w.chan[d]
          /\ y.chan[Control] = Wrote(o, h, 0)
      <4>1. w.chan[Control].proc = 0 /\ h.mt \notin Kinds
        BY <2>2, <2>3, <3>1
      <4>2. Control \in Channels /\ h \in Announcements /\ c \in Sayings(h.mt)
            /\ h.ml = 1 /\ Waits(w.peer) /\ Same(w.chan[Control], w.peer.chans[Control])
        BY <2>2, <2>3, <3>1
      <4> QED
        BY <4>1, <4>2, ShortMessage DEF y
    <3>3. PICK b \in Seq(ByteTokens) : /\ b[Len(b)].mt = h.mt /\ b[Len(b)].v = c
                                       /\ y.peer = Complete(next, b)
      <4>1. w.chan[Control].proc = 0 /\ h.mt \notin Kinds
        BY <2>2, <2>3, <3>1
      <4>2. Control \in Channels /\ h \in Announcements /\ c \in Sayings(h.mt)
            /\ h.ml = 1 /\ Waits(w.peer) /\ Same(w.chan[Control], w.peer.chans[Control])
        BY <2>2, <2>3, <3>1
      <4> QED
        BY <4>1, <4>2, ShortMessage, Zenon DEF y
    <3>4. y.peer = [next EXCEPT !.chans[c] = FreshIn]
      <4> HIDE DEF next
      <4> QED
        BY <2>3, <3>3 DEF Complete
    <3>5. next = PeerWith(w.peer, 0, <<>>, mid, w.peer.mistimed)
      BY <2>3 DEF After
    <3>6. /\ y.peer.chunk = w.peer.chunk /\ y.peer.sel = 0 /\ y.peer.buffer = <<>>
          /\ y.peer.garbled = w.peer.garbled /\ y.peer.mistimed = w.peer.mistimed
          /\ y.peer.chans = [mid EXCEPT ![c] = FreshIn]
      <4>1. y.peer = [next EXCEPT !.chans = [next.chans EXCEPT ![c] = FreshIn]]
        <5> HIDE DEF next
        <5> QED
          BY <3>4
      <4> HIDE DEF next, mid
      <4> QED
        BY <3>5, <4>1 DEF PeerWith
    <3>7. o \in OutChannels /\ w.peer.chans \in [Channels -> InChannels]
      BY <2>2, WorkFields, PeerFields
    <3>8. Same(Wrote(o, h, 0), e) /\ Wrote(o, h, 0).proc = 0
      <4>1. Same(Wrote(o, h, 0), e)
        BY <2>3, <3>7, ShortIsSame
      <4> QED
        BY <4>1 DEF Wrote
    <3>9. /\ y.peer.chans[Control] = e /\ y.peer.chans[c] = FreshIn
          /\ \A d \in Channels \ {Control, c} : y.peer.chans[d] = w.peer.chans[d]
      <4> HIDE DEF e
      <4> QED
        BY <2>2, <3>6, <3>7
    <3>10. Same(FreshOut, FreshIn)
      BY FreshIsTyped DEF Same
    <3> HIDE DEF e, o, next, mid
    <3>11. \A d \in Channels : Same(x.chan[d], x.peer.chans[d])
      <4>1. Same(x.chan[c], x.peer.chans[c])
        BY <2>6, <2>7, <3>9, <3>10
      <4>2. Same(x.chan[Control], x.peer.chans[Control])
        BY <2>2, <2>6, <2>7, <3>2, <3>8, <3>9
      <4>3. ASSUME NEW d \in Channels \ {Control, c}
            PROVE  Same(x.chan[d], x.peer.chans[d])
        <5>1. x.chan[d] = w.chan[d] /\ x.peer.chans[d] = w.peer.chans[d]
          BY <2>6, <2>7, <3>2, <3>9
        <5>2. Same(w.chan[d], w.peer.chans[d])
          BY <2>8 DEF InTouch, Touches
        <5> QED
          BY <5>1, <5>2
      <4> QED
        BY <4>1, <4>2, <4>3
    <3>12. Touches(x)
      BY <2>7, <2>8, <3>6, <3>11 DEF Touches, InTouch, Waits
    <3>13. /\ x.chan[Control].proc = 0 /\ x.chan[Commands].proc = 0
      BY <2>2, <2>6, <2>7, <2>8, <3>2, <3>8 DEF InTouch
    <3>14. x.chan[c].proc = 0
      BY <2>6, <2>7, FreshIsTyped
    <3>15. \A d \in Reservable \ {c} : x.chan[d] = w.chan[d]
      BY <2>2, <2>6, <2>7, <3>2
    <3> QED
      BY <3>12, <3>13, <3>14, <3>15 DEF InTouch
  <2> QED
    BY <2>1, <2>7, <2>8 DEF c
<1> QED
  BY <1>1, <1>2

-----------------------------------------------------------------------------
(* The player *)

LEMMA PlayerFields ==
  ASSUME NEW pl \in Players
  PROVE  /\ pl.open \in BOOLEAN /\ pl.attached \in BOOLEAN /\ pl.paused \in BOOLEAN
         /\ pl.si \in Ids /\ pl.feeder \in Sizes \cup {0} /\ pl.delta \in Nat \cup {NoDelta}
         /\ pl.seek \in Times /\ pl.chan \in [Kinds -> Reservable \cup {0}]
         /\ pl.spare \in Reservable \cup {0} /\ pl.first \in [Kinds -> BOOLEAN]
         /\ pl.dropped \in [Kinds -> BOOLEAN] /\ pl.ts \in [Kinds -> Times]
         /\ pl.bucket \in [Kinds -> Seq(ByteTokens)]
BY DEF Players

\* The same player, whatever it has of the media.
Alike(q, pl) ==
  /\ q.open = pl.open /\ q.attached = pl.attached /\ q.paused = pl.paused /\ q.si = pl.si
  /\ q.feeder = pl.feeder /\ q.seek = pl.seek /\ q.chan = pl.chan /\ q.spare = pl.spare

LEMMA DeltaIsSet ==
  ASSUME NEW pl \in Players, NEW d \in Nat \cup {NoDelta}
  PROVE  LET q == [pl EXCEPT !.delta = d]
         IN  /\ q \in Players /\ Alike(q, pl) /\ q.delta = d /\ q.first = pl.first
             /\ q.dropped = pl.dropped /\ q.ts = pl.ts /\ q.bucket = pl.bucket
BY DEF Players, Alike

LEMMA DroppedIsSet ==
  ASSUME NEW pl \in Players, NEW k \in Kinds, NEW b \in BOOLEAN
  PROVE  LET q == [pl EXCEPT !.dropped[k] = b]
         IN  /\ q \in Players /\ Alike(q, pl) /\ q.delta = pl.delta /\ q.first = pl.first
             /\ q.dropped = [pl.dropped EXCEPT ![k] = b] /\ q.ts = pl.ts
             /\ q.bucket = pl.bucket
BY DEF Players, Alike

LEMMA TsIsSet ==
  ASSUME NEW pl \in Players, NEW k \in Kinds, NEW ts \in Times
  PROVE  LET q == [pl EXCEPT !.ts[k] = ts]
         IN  /\ q \in Players /\ Alike(q, pl) /\ q.delta = pl.delta /\ q.first = pl.first
             /\ q.dropped = pl.dropped /\ q.ts = [pl.ts EXCEPT ![k] = ts]
             /\ q.bucket = pl.bucket
BY DEF Players, Alike

LEMMA FirstIsSet ==
  ASSUME NEW pl \in Players, NEW k \in Kinds, NEW b \in BOOLEAN
  PROVE  LET q == [pl EXCEPT !.first[k] = b]
         IN  /\ q \in Players /\ Alike(q, pl) /\ q.delta = pl.delta
             /\ q.first = [pl.first EXCEPT ![k] = b]
             /\ q.dropped = pl.dropped /\ q.ts = pl.ts /\ q.bucket = pl.bucket
BY DEF Players, Alike

LEMMA BucketIsSet ==
  ASSUME NEW pl \in Players, NEW k \in Kinds, NEW b \in Seq(ByteTokens)
  PROVE  LET q == [pl EXCEPT !.bucket[k] = b]
         IN  /\ q \in Players /\ Alike(q, pl) /\ q.delta = pl.delta /\ q.first = pl.first
             /\ q.dropped = pl.dropped /\ q.ts = pl.ts
             /\ q.bucket = [pl.bucket EXCEPT ![k] = b]
BY DEF Players, Alike

LEMMA PlayerIsSet ==
  ASSUME NEW w \in Works, NEW q \in Players
  PROVE  LET x == [w EXCEPT !.player = q]
         IN  /\ x \in Works /\ x.player = q /\ x.chan = w.chan /\ x.chunk = w.chunk
             /\ x.peer = w.peer
BY DEF Works

LEMMA MessageFields ==
  ASSUME NEW msg \in FeedMessages
  PROVE  /\ msg.len \in Nat /\ msg.ts \in Nat /\ msg.ts \in Times
         /\ msg.flavor \in {"key", "inter", "setup"}
BY Parameters DEF FeedMessages

LEMMA DueIsTyped ==
  ASSUME NEW pl \in Players, NEW msg \in FeedMessages
  PROVE  TimeBase(pl, msg) \in Nat /\ Due(pl, msg) \in Times
<1>1. TimeBase(pl, msg) \in Nat
  BY PlayerFields, MessageFields DEF TimeBase
<1>2. msg.ts - TimeBase(pl, msg) + pl.seek \in Int
  BY <1>1, PlayerFields, MessageFields DEF Times
<1> QED
  BY <1>1, <1>2, Wrapped DEF Due

LEMMA NotedIs ==
  ASSUME NEW pl \in Players, NEW k \in Kinds, NEW msg \in FeedMessages, NEW ts \in Times
  PROVE  LET q == Noted(pl, k, msg, ts)
         IN  /\ q \in Players /\ Alike(q, pl) /\ q.delta = TimeBase(pl, msg)
             /\ q.dropped = [pl.dropped EXCEPT ![k] = FALSE]
             /\ q.ts = [pl.ts EXCEPT ![k] = ts]
             /\ q.first = [pl.first EXCEPT ![k] = pl.first[k] /\ msg.flavor = "setup"]
             /\ q.bucket = pl.bucket
<1> DEFINE d == TimeBase(pl, msg)
           s1 == [pl EXCEPT !.delta = d]
           s2 == [s1 EXCEPT !.dropped[k] = FALSE]
           s3 == [s2 EXCEPT !.ts[k] = ts]
           b == s3.first[k] /\ msg.flavor = "setup"
           s4 == [s3 EXCEPT !.first[k] = b]
<1>1. Noted(pl, k, msg, ts) = s4
  <2> HIDE DEF d
  <2>1. Noted(pl, k, msg, ts) = [pl EXCEPT !.delta = d, !.dropped[k] = FALSE, !.ts[k] = ts,
                                          !.first[k] = @ /\ msg.flavor = "setup"]
    BY DEF Noted, d
  <2> QED
    BY <2>1
<1>2. d \in Nat \cup {NoDelta}
  BY DueIsTyped
<1> HIDE DEF d
<1>3. /\ s1 \in Players /\ Alike(s1, pl) /\ s1.delta = d /\ s1.first = pl.first
      /\ s1.dropped = pl.dropped /\ s1.ts = pl.ts /\ s1.bucket = pl.bucket
  BY <1>2, DeltaIsSet
<1> HIDE DEF s1
<1>4. /\ s2 \in Players /\ Alike(s2, s1) /\ s2.delta = d /\ s2.first = pl.first
      /\ s2.dropped = [pl.dropped EXCEPT ![k] = FALSE] /\ s2.ts = pl.ts /\ s2.bucket = pl.bucket
  <2>1. FALSE \in BOOLEAN
    OBVIOUS
  <2>2. /\ s2 \in Players /\ Alike(s2, s1) /\ s2.delta = s1.delta /\ s2.first = s1.first
        /\ s2.dropped = [s1.dropped EXCEPT ![k] = FALSE] /\ s2.ts = s1.ts
        /\ s2.bucket = s1.bucket
    BY <1>3, <2>1, DroppedIsSet, Zenon
  <2> HIDE DEF s2
  <2> QED
    BY <1>3, <2>2
<1> HIDE DEF s2
<1>5. /\ s3 \in Players /\ Alike(s3, s2) /\ s3.delta = d /\ s3.first = pl.first
      /\ s3.dropped = [pl.dropped EXCEPT ![k] = FALSE] /\ s3.ts = [pl.ts EXCEPT ![k] = ts]
      /\ s3.bucket = pl.bucket
  BY <1>4, TsIsSet
<1> HIDE DEF s3
<1>6. b \in BOOLEAN /\ b = (pl.first[k] /\ msg.flavor = "setup")
  BY <1>5
<1> HIDE DEF b
<1>7. /\ s4 \in Players /\ Alike(s4, s3) /\ s4.delta = d
      /\ s4.first = [pl.first EXCEPT ![k] = b]
      /\ s4.dropped = [pl.dropped EXCEPT ![k] = FALSE] /\ s4.ts = [pl.ts EXCEPT ![k] = ts]
      /\ s4.bucket = pl.bucket
  <2>1. /\ s4 \in Players /\ Alike(s4, s3) /\ s4.delta = s3.delta
        /\ s4.first = [s3.first EXCEPT ![k] = b]
        /\ s4.dropped = s3.dropped /\ s4.ts = s3.ts /\ s4.bucket = s3.bucket
    <3>1. s3 \in Players /\ b \in BOOLEAN
      BY <1>5, <1>6
    <3> QED
      BY <3>1, FirstIsSet
  <2> HIDE DEF s4
  <2> QED
    BY <1>5, <2>1
<1> HIDE DEF s4
<1>8. Alike(s4, pl)
  BY <1>3, <1>4, <1>5, <1>7 DEF Alike
<1> QED
  BY <1>1, <1>6, <1>7, <1>8 DEF d

-----------------------------------------------------------------------------
(* The media keep the types. *)

\* x is w after bytes of kind k were forwarded.
Forwards(x, w, k) ==
  /\ x \in Works /\ x.chunk = w.chunk /\ Alike(x.player, w.player)
  /\ x.player.delta = w.player.delta /\ x.player.first = w.player.first
  /\ x.player.dropped = w.player.dropped /\ x.player.ts = w.player.ts
  /\ \A j \in Kinds \ {k} : x.player.bucket[j] = w.player.bucket[j]
  /\ \/ Len(x.player.bucket[k]) < w.chunk
     \/ x.player.bucket[k] = w.player.bucket[k]

LEMMA SendEmptyIsTyped ==
  ASSUME NEW w \in Works, NEW k \in Kinds, w.player.chan[k] \in Channels, NEW h \in Announcements
  PROVE  Forwards(SendEmpty(w, k, h), w, k)
<1> DEFINE x == SendChunk(w, w.player.chan[k], h, <<>>)
<1>1. <<>> \in Seq(ByteTokens)
  OBVIOUS
<1>2. /\ x = [chan |-> [w.chan EXCEPT ![w.player.chan[k]] = Wrote(@, h, @.proc + Len(<<>>))],
              chunk |-> w.chunk, player |-> w.player,
              peer |-> PeerOf(w, w.player.chan[k], h, <<>>)]
      /\ x \in Works
  BY <1>1, SendChunkIs
<1> HIDE DEF x
<1>3. x.chunk = w.chunk /\ x.player = w.player
  BY <1>2
<1> QED
  BY <1>2, <1>3 DEF Forwards, Alike, SendEmpty, x

LEMMA PassThroughIs ==
  ASSUME NEW w \in Works, NEW k \in Kinds, w.player.chan[k] \in Channels, NEW h \in Announcements,
         NEW bytes \in Seq(ByteTokens), h.ml # 0
  PROVE  LET c == w.player.chan[k]
             y == SendChunk(w, c, h, bytes)
             v == y.chan[c].proc % h.ml
         IN  /\ PassThrough(w, k, h, bytes) = Settled(y, c, v)
             /\ y \in Works /\ v \in Nat /\ y.chunk = w.chunk /\ y.player = w.player
<1> DEFINE c == w.player.chan[k]
           y == SendChunk(w, c, h, bytes)
           v == y.chan[c].proc % h.ml
<1>1. /\ y = [chan |-> [w.chan EXCEPT ![c] = Wrote(@, h, @.proc + Len(bytes))],
              chunk |-> w.chunk, player |-> w.player, peer |-> PeerOf(w, c, h, bytes)]
      /\ y \in Works
  BY SendChunkIs
<1>2. PassThrough(w, k, h, bytes) = [y EXCEPT !.chan[c].proc = @ % h.ml]
  BY DEF PassThrough
<1> HIDE DEF y, c
<1>3. y.chunk = w.chunk /\ y.player = w.player
  BY <1>1
<1>4. PassThrough(w, k, h, bytes) = Settled(y, c, v)
  BY <1>2 DEF Settled
<1>5. v \in Nat
  <2>1. y.chan[c] \in OutChannels
    BY <1>1, WorkFields DEF c
  <2>2. y.chan[c].proc \in Nat
    BY <2>1, OutFields
  <2>3. h.ml \in Nat \ {0}
    BY HeaderFields
  <2> QED
    BY <2>2, <2>3
<1> QED
  BY <1>1, <1>3, <1>4, <1>5 DEF y, c

LEMMA PassThroughIsTyped ==
  ASSUME NEW w \in Works, NEW k \in Kinds, w.player.chan[k] \in Channels, NEW h \in Announcements,
         NEW bytes \in Seq(ByteTokens), h.ml # 0
  PROVE  Forwards(PassThrough(w, k, h, bytes), w, k)
<1> DEFINE c == w.player.chan[k]
           y == SendChunk(w, c, h, bytes)
           v == y.chan[c].proc % h.ml
           x == PassThrough(w, k, h, bytes)
<1>1. /\ x = Settled(y, c, v) /\ y \in Works /\ v \in Nat /\ y.chunk = w.chunk
      /\ y.player = w.player
  BY PassThroughIs
<1> HIDE DEF y, v, x
<1>2. Settled(y, c, v) \in Works /\ Settled(y, c, v).chunk = y.chunk
      /\ Settled(y, c, v).player = y.player
  BY <1>1, SettledFields
<1>3. x \in Works /\ x.chunk = w.chunk /\ x.player = w.player
  BY <1>1, <1>2
<1> QED
  BY <1>3 DEF Forwards, Alike, x

\* The bytes that wait and those that have come, and whether they end the message.
All(w, k, bytes) == w.player.bucket[k] \o bytes
Ends(w, k, h, bytes) == w.chan[w.player.chan[k]].proc + Len(All(w, k, bytes)) = h.ml

\* What the loop has done with them, and the end of the message noted.
Looped(w, k, h, bytes) ==
  Chunked(w, w.player.chan[k], h, All(w, k, bytes), Ends(w, k, h, bytes))
NextProc(w, k, h, bytes) ==
  LET n == Looped(w, k, h, bytes).work.chan[w.player.chan[k]].proc
  IN  IF n = h.ml THEN 0 ELSE n
Rechunked(w, k, h, bytes) ==
  Settled(Looped(w, k, h, bytes).work, w.player.chan[k], NextProc(w, k, h, bytes))

\* x and s differ in the player alone.
SameWire(x, s) == x.chan = s.chan /\ x.peer = s.peer

\* The rest of the bytes is kept.
LEMMA RechunkIs ==
  ASSUME NEW w \in Works, NEW k \in Kinds, w.player.chan[k] \in Channels, NEW h \in Announcements,
         NEW bytes \in Seq(ByteTokens)
  PROVE  /\ All(w, k, bytes) \in Seq(ByteTokens) /\ Ends(w, k, h, bytes) \in BOOLEAN
         /\ Looped(w, k, h, bytes).work \in Works
         /\ Looped(w, k, h, bytes).left \in Seq(ByteTokens)
         /\ Len(Looped(w, k, h, bytes).left) < w.chunk
         /\ (Ends(w, k, h, bytes) => Looped(w, k, h, bytes).left = <<>>)
         /\ NextProc(w, k, h, bytes) \in Nat
         /\ Rechunk(w, k, h, bytes) \in Works /\ Rechunk(w, k, h, bytes).chunk = w.chunk
         /\ SameWire(Rechunk(w, k, h, bytes), Rechunked(w, k, h, bytes))
         /\ Rechunk(w, k, h, bytes).player =
              [w.player EXCEPT !.bucket[k] = Looped(w, k, h, bytes).left]
         /\ Forwards(Rechunk(w, k, h, bytes), w, k)
<1> DEFINE c == w.player.chan[k]
           all == All(w, k, bytes)
           ends == Ends(w, k, h, bytes)
           y == Chunked(w, c, h, all, ends)
           v == IF y.work.chan[c].proc = h.ml THEN 0 ELSE y.work.chan[c].proc
           s == Settled(y.work, c, v)
           x == Rechunk(w, k, h, bytes)
           q == [w.player EXCEPT !.bucket[k] = y.left]
<1>1. all \in Seq(ByteTokens) /\ ends \in BOOLEAN /\ w.player \in Players
  <2>1. w.player \in Players
    BY WorkFields
  <2>2. w.player.bucket[k] \in Seq(ByteTokens)
    BY <2>1, PlayerFields
  <2> QED
    BY <2>1, <2>2 DEF All, Ends
<1>2. x = [y.work EXCEPT !.chan[c].proc = IF @ = h.ml THEN 0 ELSE @, !.player.bucket[k] = y.left]
  BY DEF Rechunk, Bucketed, All, Ends
<1> HIDE DEF all, ends
<1>3. /\ y.work \in Works /\ y.left \in Seq(ByteTokens) /\ y.work.chunk = w.chunk
      /\ y.work.player = w.player /\ (ends => y.left = <<>>) /\ (~ends => Len(y.left) < w.chunk)
  BY <1>1, ChunkedIsTyped
<1> HIDE DEF c, y
<1>4. x = [s EXCEPT !.player.bucket[k] = y.left]
  BY <1>2 DEF Settled
<1>5. v \in Nat /\ c \in Channels
  <2>1. c \in Channels
    BY DEF c
  <2>2. y.work.chan[c] \in OutChannels
    BY <1>3, <2>1, WorkFields
  <2> QED
    BY <2>1, <2>2, OutFields
<1> HIDE DEF v
<1>6. s \in Works /\ s.chunk = w.chunk /\ s.player = w.player
  <2> DEFINE u == y.work
  <2>1. u \in Works /\ u.chunk = w.chunk /\ u.player = w.player
    BY <1>3
  <2> HIDE DEF u
  <2>2. Settled(u, c, v) \in Works /\ Settled(u, c, v).chunk = u.chunk
        /\ Settled(u, c, v).player = u.player
    BY <1>5, <2>1, SettledFields
  <2> QED
    BY <2>1, <2>2 DEF u
<1> HIDE DEF s
<1>7. q \in Players
  BY <1>1, <1>3, BucketIsSet
<1>8. x = [s EXCEPT !.player = q]
  <2>1. x = [s EXCEPT !.player = [s.player EXCEPT !.bucket[k] = y.left]]
    BY <1>4
  <2> HIDE DEF x
  <2> QED
    BY <1>6, <2>1
<1> HIDE DEF q, x
<1>9. x \in Works /\ x.player = q /\ x.chan = s.chan /\ x.chunk = s.chunk /\ x.peer = s.peer
  BY <1>6, <1>7, <1>8, PlayerIsSet
<1>10. Len(y.left) < w.chunk
  <2>1. w.chunk \in Nat \ {0}
    <3>1. w.chunk \in Sizes /\ \A z \in Sizes : z \in Nat \ {0}
      BY Parameters, WorkFields
    <3> QED
      BY <3>1
  <2>2. CASE ends
    <3>1. Len(y.left) = 0
      BY <1>3, <2>2, EmptyIs
    <3> QED
      BY <2>1, <3>1
  <2> QED
    BY <1>3, <2>2
<1>20. Forwards(x, w, k)
  <2> DEFINE left == y.left
  <2>1. /\ Alike(q, w.player) /\ q.delta = w.player.delta
        /\ q.first = w.player.first /\ q.dropped = w.player.dropped /\ q.ts = w.player.ts
        /\ q.bucket = [w.player.bucket EXCEPT ![k] = left]
    BY <1>1, <1>3, BucketIsSet DEF q
  <2>2. w.player.bucket \in [Kinds -> Seq(ByteTokens)]
    BY <1>1, PlayerFields
  <2>3. q.bucket[k] = left /\ \A j \in Kinds \ {k} : q.bucket[j] = w.player.bucket[j]
    <3> HIDE DEF left
    <3> QED
      BY <2>1, <2>2
  <2> QED
    BY <1>6, <1>9, <1>10, <2>1, <2>3 DEF Forwards
<1>11. y = Looped(w, k, h, bytes) /\ c = w.player.chan[k]
  BY DEF y, ends, all, c, Looped
<1>12. v = NextProc(w, k, h, bytes)
  BY <1>11 DEF v, NextProc
<1>13. s = Rechunked(w, k, h, bytes)
  BY <1>11, <1>12 DEF s, Rechunked
<1>14. x.player = [w.player EXCEPT !.bucket[k] = Looped(w, k, h, bytes).left]
  BY <1>9, <1>11 DEF q
<1>15. SameWire(x, Rechunked(w, k, h, bytes))
  BY <1>9, <1>13 DEF SameWire
<1>16. x \in Works /\ x.chunk = w.chunk
  BY <1>6, <1>9
<1>17. /\ Looped(w, k, h, bytes).work \in Works
       /\ Looped(w, k, h, bytes).left \in Seq(ByteTokens)
       /\ Len(Looped(w, k, h, bytes).left) < w.chunk
       /\ (Ends(w, k, h, bytes) => Looped(w, k, h, bytes).left = <<>>)
  BY <1>3, <1>10, <1>11 DEF ends
<1>18. NextProc(w, k, h, bytes) \in Nat
  BY <1>5, <1>12
<1>19. All(w, k, bytes) \in Seq(ByteTokens) /\ Ends(w, k, h, bytes) \in BOOLEAN
  BY <1>1 DEF all, ends
<1> QED
  BY <1>14, <1>15, <1>16, <1>17, <1>18, <1>19, <1>20 DEF x

LEMMA ChunkAndSendIsTyped ==
  ASSUME NEW w \in Works, NEW k \in Kinds, w.player.chan[k] \in Channels, NEW h \in Announcements,
         NEW bytes \in Seq(ByteTokens)
  PROVE  Forwards(ChunkAndSend(w, k, h, bytes), w, k)
<1>1. Forwards(Rechunk(w, k, h, bytes), w, k)
  BY RechunkIs
<1> QED
  BY <1>1, SendEmptyIsTyped, PassThroughIsTyped DEF ChunkAndSend

\* x is w after a piece of kind k was fed, or dropped.
Feeding(x, w, k) ==
  /\ x \in Works /\ x.chunk = w.chunk /\ Alike(x.player, w.player)
  /\ \A j \in Kinds \ {k} : /\ x.player.first[j] = w.player.first[j]
                            /\ x.player.dropped[j] = w.player.dropped[j]
                            /\ x.player.ts[j] = w.player.ts[j]
                            /\ x.player.bucket[j] = w.player.bucket[j]
  /\ \/ Len(x.player.bucket[k]) < w.chunk
     \/ x.player.bucket[k] = w.player.bucket[k]

\* What a message is forwarded from.
LEMMA SendIs ==
  ASSUME NEW w \in Works, NEW k \in Kinds, NEW msg \in FeedMessages, NEW p \in Nat, NEW n \in Nat,
         NEW ts \in Times, NEW ia \in BOOLEAN
  PROVE  LET q == Noted(w.player, k, msg, ts)
             u == [w EXCEPT !.player = q]
             h == [mt |-> k, ml |-> msg.len, ts |-> ts, si |-> w.player.si, ia |-> ia]
             v == [at |-> Due(w.player, msg), first |-> w.player.first[k]]
             bytes == Bytes(k, msg.len, p + 1, p + n, v)
         IN  /\ Send(w, k, msg, p, n, ts, ia) = ChunkAndSend(u, k, h, bytes)
             /\ q \in Players /\ u \in Works /\ u.player = q /\ u.chan = w.chan
             /\ u.chunk = w.chunk /\ u.peer = w.peer
             /\ h \in Announcements /\ v \in Sayings(k)
             /\ k \in MessageTypes /\ msg.len \in Nat
<1> DEFINE q == Noted(w.player, k, msg, ts)
           u == [w EXCEPT !.player = q]
           h == [mt |-> k, ml |-> msg.len, ts |-> ts, si |-> w.player.si, ia |-> ia]
           v == [at |-> Due(w.player, msg), first |-> w.player.first[k]]
           bytes == Bytes(k, msg.len, p + 1, p + n, v)
<1>1. w.player \in Players
  BY WorkFields
<1>2. q \in Players
  BY <1>1, NotedIs
<1>3. /\ u \in Works /\ u.player = q /\ u.chan = w.chan /\ u.chunk = w.chunk /\ u.peer = w.peer
  <2> HIDE DEF q
  <2> QED
    BY <1>2, PlayerIsSet
<1>4. k \in MessageTypes /\ msg.len \in Nat
  BY MessageFields DEF Kinds, MessageTypes
<1>5. h \in Announcements
  <2>1. w.player.si \in Ids
    BY <1>1, PlayerFields
  <2> QED
    BY <1>4, <2>1 DEF Announcements
<1>6. v \in Sayings(k)
  <2>1. Due(w.player, msg) \in Times /\ w.player.first[k] \in BOOLEAN
    BY <1>1, DueIsTyped, PlayerFields
  <2>2. v \in Stamps
    BY <2>1 DEF Stamps
  <2>3. Sayings(k) = Stamps
    BY DEF Sayings, Kinds
  <2> QED
    BY <2>2, <2>3
<1>7. Send(w, k, msg, p, n, ts, ia) = ChunkAndSend(u, k, h, bytes)
  BY DEF Send
<1> QED
  BY <1>2, <1>3, <1>4, <1>5, <1>6, <1>7

\* What the player notes of the message.
Takes(x, w, k, msg, ts) ==
  /\ x.player.first[k] = (w.player.first[k] /\ msg.flavor = "setup")
  /\ x.player.dropped[k] = FALSE /\ x.player.ts[k] = ts

LEMMA SendIsTyped ==
  ASSUME NEW w \in Works, NEW k \in Kinds, w.player.chan[k] \in Channels,
         NEW msg \in FeedMessages, NEW p \in Nat, NEW n \in Nat,
         NEW ts \in Times, NEW ia \in BOOLEAN
  PROVE  LET x == Send(w, k, msg, p, n, ts, ia)
         IN  /\ Feeding(x, w, k)
             /\ Takes(x, w, k, msg, ts)
<1> DEFINE q == Noted(w.player, k, msg, ts)
           u == [w EXCEPT !.player = q]
           h == [mt |-> k, ml |-> msg.len, ts |-> ts, si |-> w.player.si, ia |-> ia]
           v == [at |-> Due(w.player, msg), first |-> w.player.first[k]]
           bytes == Bytes(k, msg.len, p + 1, p + n, v)
           x == Send(w, k, msg, p, n, ts, ia)
<1>1. /\ x = ChunkAndSend(u, k, h, bytes)
      /\ q \in Players /\ u \in Works /\ u.player = q /\ u.chunk = w.chunk
      /\ h \in Announcements /\ v \in Sayings(k) /\ k \in MessageTypes /\ msg.len \in Nat
  BY SendIs
<1> HIDE DEF v
<1>2. bytes \in Seq(ByteTokens)
  BY <1>1, BytesAre
<1>3. w.player \in Players
  BY WorkFields
<1>4. /\ Alike(q, w.player)
      /\ q.dropped = [w.player.dropped EXCEPT ![k] = FALSE]
      /\ q.ts = [w.player.ts EXCEPT ![k] = ts]
      /\ q.first = [w.player.first EXCEPT ![k] = w.player.first[k] /\ msg.flavor = "setup"]
      /\ q.bucket = w.player.bucket
  BY <1>3, NotedIs, SMTT(30)
<1>5. /\ w.player.dropped \in [Kinds -> BOOLEAN] /\ w.player.ts \in [Kinds -> Times]
      /\ w.player.first \in [Kinds -> BOOLEAN]
  BY <1>3, PlayerFields
<1> HIDE DEF q
<1>6. u.player.chan[k] \in Channels
  BY <1>1, <1>4 DEF Alike
<1> HIDE DEF u, h, bytes, x
<1>7. Forwards(x, u, k)
  BY <1>1, <1>2, <1>6, ChunkAndSendIsTyped
<1>8. /\ q.dropped[k] = FALSE /\ q.ts[k] = ts
      /\ q.first[k] = (w.player.first[k] /\ msg.flavor = "setup")
      /\ \A j \in Kinds \ {k} : q.dropped[j] = w.player.dropped[j] /\ q.ts[j] = w.player.ts[j]
                                /\ q.first[j] = w.player.first[j]
  <2> DEFINE b == w.player.first[k] /\ msg.flavor = "setup"
  <2> HIDE DEF b
  <2>1. q.first = [w.player.first EXCEPT ![k] = b]
    BY <1>4 DEF b
  <2>2. q.first[k] = b /\ \A j \in Kinds \ {k} : q.first[j] = w.player.first[j]
    BY <1>5, <2>1
  <2> QED
    BY <1>4, <1>5, <2>2 DEF b
<1>9. Alike(x.player, w.player)
  BY <1>1, <1>4, <1>7 DEF Forwards, Alike
<1>10. Feeding(x, w, k)
  <2>1. x \in Works /\ x.chunk = w.chunk
    BY <1>1, <1>7 DEF Forwards
  <2>2. ASSUME NEW j \in Kinds \ {k}
        PROVE  /\ x.player.first[j] = w.player.first[j] /\ x.player.dropped[j] = w.player.dropped[j]
               /\ x.player.ts[j] = w.player.ts[j] /\ x.player.bucket[j] = w.player.bucket[j]
    <3>1. /\ x.player.first[j] = q.first[j] /\ x.player.dropped[j] = q.dropped[j]
          /\ x.player.ts[j] = q.ts[j] /\ x.player.bucket[j] = q.bucket[j]
      BY <1>1, <1>7 DEF Forwards
    <3> QED
      BY <1>4, <1>8, <3>1
  <2>3. \/ Len(x.player.bucket[k]) < w.chunk
        \/ x.player.bucket[k] = w.player.bucket[k]
    BY <1>1, <1>4, <1>7 DEF Forwards
  <2> QED
    BY <1>9, <2>1, <2>2, <2>3 DEF Feeding
<1>11. /\ x.player.first[k] = q.first[k] /\ x.player.dropped[k] = q.dropped[k]
       /\ x.player.ts[k] = q.ts[k]
  BY <1>1, <1>7 DEF Forwards
<1> QED
  BY <1>8, <1>10, <1>11 DEF x, Takes

LEMMA DroppingIs ==
  ASSUME NEW w \in Works, NEW k \in Kinds, NEW b \in BOOLEAN
  PROVE  LET x == [w EXCEPT !.player.dropped[k] = b]
         IN  /\ Feeding(x, w, k) /\ x.chan = w.chan /\ x.peer = w.peer
             /\ x.player.first = w.player.first /\ x.player.ts = w.player.ts
             /\ x.player.bucket = w.player.bucket /\ x.player.dropped[k] = b
<1> DEFINE q == [w.player EXCEPT !.dropped[k] = b]
           x == [w EXCEPT !.player.dropped[k] = b]
<1>1. w.player \in Players
  BY WorkFields
<1>2. /\ q \in Players /\ Alike(q, w.player) /\ q.first = w.player.first
      /\ q.dropped = [w.player.dropped EXCEPT ![k] = b] /\ q.ts = w.player.ts
      /\ q.bucket = w.player.bucket
  BY <1>1, DroppedIsSet
<1>3. w.player.dropped \in [Kinds -> BOOLEAN]
  BY <1>1, PlayerFields
<1>4. x = [w EXCEPT !.player = q]
  OBVIOUS
<1> HIDE DEF q, x
<1>5. /\ x \in Works /\ x.player = q /\ x.chan = w.chan /\ x.chunk = w.chunk
      /\ x.peer = w.peer
  BY <1>2, <1>4, PlayerIsSet
<1>6. q.dropped[k] = b /\ \A j \in Kinds \ {k} : q.dropped[j] = w.player.dropped[j]
  BY <1>2, <1>3
<1>7. Feeding(x, w, k)
  BY <1>2, <1>5, <1>6 DEF Feeding
<1> QED
  BY <1>2, <1>5, <1>6, <1>7 DEF x

\* The timestamp of the header, and whether it is sent.
LaterTs(w, k, msg, p) ==
  IF p # 0 THEN w.player.ts[k]
  ELSE (Due(w.player, msg) - w.chan[w.player.chan[k]].absTs) % TsRange

LEMMA LaterTsIsTyped ==
  ASSUME NEW w \in Works, NEW k \in Kinds, w.player.chan[k] \in Channels,
         NEW msg \in FeedMessages, NEW p \in Nat
  PROVE  LaterTs(w, k, msg, p) \in Times
<1>1. w.player \in Players /\ w.chan[w.player.chan[k]] \in OutChannels
  BY WorkFields
<1>2. w.player.ts[k] \in Times
  BY <1>1, PlayerFields
<1>3. Due(w.player, msg) \in Times /\ w.chan[w.player.chan[k]].absTs \in Times
  BY <1>1, DueIsTyped, OutFields
<1>4. Due(w.player, msg) - w.chan[w.player.chan[k]].absTs \in Int
  BY <1>3 DEF Times
<1> QED
  BY <1>2, <1>4, Wrapped DEF LaterTs

\* A piece is sent, as the first frame or as a later one, or dropped, or it comes while
\* the player is paused.
Usable(w, k, msg, p, n) ==
  n # 0 /\ p = 0 /\ (k = "audio" \/ msg.flavor # "inter") /\ TimeBase(w.player, msg) <= msg.ts

LEMMA FeedDataIsTyped ==
  ASSUME NEW w \in Works, NEW k \in Kinds, w.player.chan[k] \in Channels,
         NEW msg \in FeedMessages, NEW p \in Nat, NEW n \in Nat, NEW full \in BOOLEAN
  PROVE  Feeding(FeedData(w, k, msg, p, n, full), w, k)
<1> DEFINE x == FeedData(w, k, msg, p, n, full)
           d == Due(w.player, msg)
           l == LaterTs(w, k, msg, p)
<1> SUFFICES Feeding(x, w, k)
  OBVIOUS
<1>1. d \in Times /\ l \in Times
  BY WorkFields, DueIsTyped, LaterTsIsTyped
<1>2. Feeding(w, w, k)
  BY DEF Feeding, Alike
<1>3. \A ts \in Times, ia \in BOOLEAN : Feeding(Send(w, k, msg, p, n, ts, ia), w, k)
  BY SendIsTyped
<1>4. \A b \in BOOLEAN : Feeding([w EXCEPT !.player.dropped[k] = b], w, k)
  BY DroppingIs
<1>5. \/ x = w
      \/ x = Send(w, k, msg, p, n, d, TRUE) \/ x = [w EXCEPT !.player.dropped[k] = FALSE]
      \/ x = Send(w, k, msg, p, n, l, FALSE) \/ x = [w EXCEPT !.player.dropped[k] = TRUE]
  BY DEF FeedData, FirstFrame, LaterFrame, LaterTs
<1>6. TRUE \in BOOLEAN /\ FALSE \in BOOLEAN
  OBVIOUS
<1> HIDE DEF x, d, l
<1>7. CASE x = w
  BY <1>2, <1>7
<1>8. CASE x = Send(w, k, msg, p, n, d, TRUE)
  BY <1>1, <1>3, <1>6, <1>8
<1>9. CASE x = Send(w, k, msg, p, n, l, FALSE)
  BY <1>1, <1>3, <1>6, <1>9
<1>10. CASE x = [w EXCEPT !.player.dropped[k] = FALSE]
  BY <1>4, <1>6, <1>10
<1>11. CASE x = [w EXCEPT !.player.dropped[k] = TRUE]
  BY <1>4, <1>6, <1>11
<1> QED
  BY <1>5, <1>7, <1>8, <1>9, <1>10, <1>11

LEMMA FeedingIsSmall ==
  ASSUME NEW w, NEW x, NEW k \in Kinds, Feeding(x, w, k), BucketsSmall(w)
  PROVE  BucketsSmall(x)
BY DEF Feeding, BucketsSmall

-----------------------------------------------------------------------------
(* The media keep the two ends in step. *)

\* Bytes that may be sent under header h.
Announced(w, k, h, bytes) ==
  LET o == w.chan[w.player.chan[k]]
      all == All(w, k, bytes)
  IN  /\ w.player.chan[k] \in Reservable /\ h.mt = k /\ InTouch(w)
      /\ Continues(o, h) /\ NextOf(o, h, all)
      /\ o.proc + Len(all) <= h.ml /\ (h.ml # 0 => bytes # <<>>)

\* They were sent, or the player keeps them.
Sent(x, w, k, h, bytes) ==
  LET c == w.player.chan[k]
      o == w.chan[c]
      now == x.chan[c]
      all == All(w, k, bytes)
      left == x.player.bucket[k]
  IN  /\ InTouch(x) /\ \A d \in Channels \ {c} : x.chan[d] = w.chan[d]
      /\ IF o.proc + Len(all) = h.ml
         THEN now.proc = 0 /\ left = <<>> /\ now.sid = h.si
         ELSE /\ now.proc + Len(left) = o.proc + Len(all)
              /\ Follow(left, h.mt, h.ml, now.proc)
              /\ \/ now = o /\ left = all
                 \/ now = Wrote(o, h, now.proc) /\ now.proc # 0

LEMMA KindsAre ==
  ASSUME NEW k \in Kinds
  PROVE  k \in MessageTypes /\ k \notin {"chunk", "abort"}
BY DEF Kinds, MessageTypes

\* The channels of protocol messages and of commands are not those of the media.
LEMMA OthersInTouch ==
  ASSUME NEW w, NEW x, NEW c \in Reservable, InTouch(w), Touches(x),
         \A d \in Channels \ {c} : x.chan[d] = w.chan[d]
  PROVE  InTouch(x)
<1>1. Control \in Channels \ {c} /\ Commands \in Channels \ {c}
  BY ChannelsAre
<1> QED
  BY <1>1 DEF InTouch

LEMMA PassThroughKeeps ==
  ASSUME NEW w \in Works, NEW k \in Kinds, NEW h \in Announcements, NEW bytes \in Seq(ByteTokens),
         Announced(w, k, h, bytes), h.ml # 0, w.player.bucket[k] = <<>>,
         Len(bytes) = Least(h.ml - w.chan[w.player.chan[k]].proc, w.chunk)
  PROVE  Sent(PassThrough(w, k, h, bytes), w, k, h, bytes)
<1> DEFINE c == w.player.chan[k]
           o == w.chan[c]
           y == SendChunk(w, c, h, bytes)
           v == y.chan[c].proc % h.ml
           x == PassThrough(w, k, h, bytes)
           total == o.proc + Len(bytes)
<1>1. All(w, k, bytes) = bytes
  BY DEF All
<1>2. /\ c \in Reservable /\ c \in Channels /\ h.mt = k /\ InTouch(w) /\ Touches(w)
      /\ Continues(o, h) /\ NextOf(o, h, bytes) /\ total <= h.ml /\ bytes # <<>>
      /\ h.mt \notin {"chunk", "abort"}
  BY <1>1, ChannelsAre, KindsAre DEF Announced, InTouch
<1>3. o \in OutChannels /\ o.proc \in Nat /\ Len(bytes) \in Nat \ {0} /\ h.ml \in Nat
  <2>1. o \in OutChannels
    BY <1>2, WorkFields
  <2>2. Len(bytes) # 0
    BY <1>2, EmptyIs
  <2> QED
    BY <2>1, <2>2, OutFields, HeaderFields
<1>4. o.proc <= h.ml /\ total \in Nat
  <2> DEFINE a == o.proc
             b == Len(bytes)
             m == h.ml
  <2>1. a \in Nat /\ b \in Nat /\ m \in Nat /\ a + b <= m
    BY <1>2, <1>3
  <2> HIDE DEF a, b, m
  <2>2. a <= m /\ a + b \in Nat
    BY <2>1
  <2> QED
    BY <2>2 DEF a, b, m
<1>5. /\ x = Settled(y, c, v) /\ y \in Works /\ v \in Nat /\ y.chunk = w.chunk
      /\ y.player = w.player
  BY <1>2, PassThroughIs, ZenonT(60)
<1>6. /\ \A d \in Channels \ {c} : y.chan[d] = w.chan[d]
      /\ y.chan[c] = Wrote(o, h, total) /\ Nearly(y, c, h.ml)
  BY <1>2, <1>4, SendChunkTouches, ZenonT(60)
<1>7. Wrote(o, h, total).proc = total /\ Wrote(o, h, total).sid = h.si
  BY DEF Wrote
<1> HIDE DEF y
<1>8. v = IF y.chan[c].proc = h.ml THEN 0 ELSE y.chan[c].proc
  <2> DEFINE t == total
             m == h.ml
  <2>1. y.chan[c].proc = t /\ v = t % m
    BY <1>6, <1>7
  <2>2. t \in Nat /\ m \in Nat \ {0} /\ t <= m
    BY <1>2, <1>3, <1>4
  <2> HIDE DEF t, v
  <2>3. t % m = IF t = m THEN 0 ELSE t
    <3> HIDE DEF m
    <3> QED
      BY <2>2
  <2> QED
    BY <2>1, <2>3
<1> HIDE DEF v, x
<1>9. Touches(Settled(y, c, v))
  BY <1>2, <1>3, <1>5, <1>6, <1>8, SettledTouches
<1>10. /\ Settled(y, c, v) \in Works /\ Settled(y, c, v).player = y.player
       /\ \A d \in Channels \ {c} : Settled(y, c, v).chan[d] = y.chan[d]
       /\ Settled(y, c, v).chan[c] = [hdr |-> y.chan[c].hdr, proc |-> v,
                                      absTs |-> y.chan[c].absTs, sid |-> y.chan[c].sid]
  BY <1>2, <1>5, SettledFields, ZenonT(60)
<1>11. InTouch(x) /\ \A d \in Channels \ {c} : x.chan[d] = w.chan[d]
  <2>1. \A d \in Channels \ {c} : x.chan[d] = w.chan[d]
    BY <1>5, <1>6, <1>10
  <2> HIDE DEF c
  <2> QED
    BY <1>2, <1>5, <1>9, <2>1, OthersInTouch
<1>12. x.player.bucket[k] = <<>>
  BY <1>5, <1>10
<1>15. x.chan[c].proc = v /\ x.chan[c].sid = y.chan[c].sid
  <2>1. x.chan[c] = [hdr |-> y.chan[c].hdr, proc |-> v, absTs |-> y.chan[c].absTs,
                     sid |-> y.chan[c].sid]
    BY <1>5, <1>10
  <2> HIDE DEF c
  <2> QED
    BY <2>1
<1>13. CASE total = h.ml
  <2>1. x.chan[c].proc = 0
    BY <1>6, <1>7, <1>8, <1>13, <1>15
  <2>2. x.chan[c].sid = h.si
    BY <1>6, <1>7, <1>15
  <2> QED
    BY <1>1, <1>11, <1>12, <1>13, <2>1, <2>2 DEF Sent, x
<1>14. CASE total # h.ml
  <2>1. v = total
    BY <1>6, <1>7, <1>8, <1>14
  <2>2. x.chan[c] = Wrote(o, h, total)
    <3>1. x.chan[c] = [hdr |-> Wrote(o, h, total).hdr, proc |-> total,
                       absTs |-> Wrote(o, h, total).absTs, sid |-> Wrote(o, h, total).sid]
      BY <1>5, <1>6, <1>10, <2>1
    <3> HIDE DEF total
    <3> QED
      BY <3>1 DEF Wrote
  <2>3. x.chan[c].proc = total
    BY <1>15, <2>1
  <2>8. total # 0
    BY <1>3
  <2>4. Len(x.player.bucket[k]) = 0
    BY <1>12
  <2>5. total \in Nat
    BY <1>3
  <2>6. total + Len(x.player.bucket[k]) = total
    <3> HIDE DEF total
    <3> QED
      BY <2>4, <2>5
  <2>7. Follow(x.player.bucket[k], h.mt, h.ml, total)
    BY <1>12 DEF Follow
  <2> HIDE DEF total
  <2> QED
    BY <1>1, <1>11, <1>14, <2>2, <2>3, <2>6, <2>7, <2>8 DEF Sent, x, total
<1> QED
  BY <1>13, <1>14

LEMMA EmptyIsTouched ==
  ASSUME NEW x \in Works, NEW c \in Channels, Nearly(x, c, 0), x.chan[c].proc = 0
  PROVE  Touches(x)
<1>1. x.chan[c] \in OutChannels
  BY WorkFields
<1>2. Ended(x.chan[c], 0) = x.chan[c]
  BY <1>1 DEF Ended, OutChannels
<1> QED
  BY <1>2 DEF Nearly, Touches

LEMMA SendEmptyKeeps ==
  ASSUME NEW w \in Works, NEW k \in Kinds, NEW h \in Announcements, NEW bytes \in Seq(ByteTokens),
         Announced(w, k, h, bytes), h.ml = 0
  PROVE  Sent(SendEmpty(w, k, h), w, k, h, bytes)
<1> DEFINE c == w.player.chan[k]
           o == w.chan[c]
           x == SendChunk(w, c, h, <<>>)
           all == All(w, k, bytes)
<1>1. /\ c \in Reservable /\ c \in Channels /\ h.mt = k /\ InTouch(w) /\ Touches(w)
      /\ Continues(o, h) /\ NextOf(o, h, all) /\ o.proc + Len(all) <= h.ml
      /\ h.mt \notin {"chunk", "abort"}
  BY ChannelsAre, KindsAre DEF Announced, InTouch
<1>2. o.proc \in Nat /\ all \in Seq(ByteTokens) /\ Len(all) \in Nat
  <2>1. w.player.bucket[k] \in Seq(ByteTokens)
    BY WorkFields, PlayerFields
  <2>2. all \in Seq(ByteTokens)
    BY <2>1 DEF All
  <2>3. o \in OutChannels
    BY <1>1, WorkFields
  <2> QED
    BY <2>2, <2>3, OutFields
<1>3. o.proc = 0 /\ Len(all) = 0
  <2> HIDE DEF all, o
  <2> QED
    BY <1>1, <1>2
<1>4. all = <<>>
  BY <1>2, <1>3, EmptyIs
<1>5. w.chunk \in Nat \ {0}
  <2>1. w.chunk \in Sizes /\ \A z \in Sizes : z \in Nat \ {0}
    BY Parameters, WorkFields
  <2> QED
    BY <2>1
<1>6. <<>> \in Seq(ByteTokens) /\ Len(<<>>) = 0
  OBVIOUS
<1>7. Len(<<>>) = Least(h.ml - o.proc, w.chunk)
  <2>1. Least(0, w.chunk) = 0
    BY <1>5 DEF Least
  <2>2. h.ml - o.proc = 0
    BY <1>3
  <2> QED
    BY <1>6, <2>1, <2>2
<1>8. o.proc <= h.ml
  BY <1>3
<1>9. NextOf(o, h, <<>>)
  BY <1>1, <1>4
<1>10. /\ x \in Works /\ x.player = w.player
       /\ \A d \in Channels \ {c} : x.chan[d] = w.chan[d]
       /\ x.chan[c] = Wrote(o, h, o.proc + Len(<<>>)) /\ Nearly(x, c, h.ml)
  <2> DEFINE e == <<>>
  <2>1. e \in Seq(ByteTokens) /\ Len(e) = Least(h.ml - o.proc, w.chunk) /\ NextOf(o, h, e)
    BY <1>6, <1>7, <1>9
  <2> HIDE DEF e, c
  <2>2. /\ SendChunk(w, c, h, e) \in Works /\ SendChunk(w, c, h, e).player = w.player
        /\ \A d \in Channels \ {c} : SendChunk(w, c, h, e).chan[d] = w.chan[d]
        /\ SendChunk(w, c, h, e).chan[c] = Wrote(o, h, o.proc + Len(e))
        /\ Nearly(SendChunk(w, c, h, e), c, h.ml)
    BY <1>1, <1>8, <2>1, SendChunkTouches
  <2> QED
    BY <2>2 DEF e
<1>11. x.chan[c].proc = 0 /\ x.chan[c].sid = h.si
  <2>1. o.proc + Len(<<>>) = 0
    BY <1>3, <1>6
  <2>2. x.chan[c] = Wrote(o, h, 0)
    BY <1>10, <2>1
  <2> HIDE DEF x
  <2> QED
    BY <2>2 DEF Wrote
<1> HIDE DEF x
<1>12. Touches(x)
  BY <1>1, <1>10, <1>11, EmptyIsTouched
<1>13. InTouch(x)
  <2> HIDE DEF c
  <2> QED
    BY <1>1, <1>10, <1>12, OthersInTouch
<1>14. x.player.bucket[k] = <<>>
  <2>1. Len(w.player.bucket[k]) + Len(bytes) = Len(all)
    BY WorkFields, PlayerFields DEF All
  <2>2. w.player.bucket[k] \in Seq(ByteTokens)
    BY WorkFields, PlayerFields
  <2>3. Len(w.player.bucket[k]) = 0
    BY <1>3, <2>1, <2>2
  <2>4. w.player.bucket[k] = <<>>
    BY <2>2, <2>3, EmptyIs
  <2> QED
    BY <1>10, <2>4
<1>15. o.proc + Len(all) = h.ml
  BY <1>3
<1>16. Sent(x, w, k, h, bytes)
  BY <1>10, <1>11, <1>13, <1>14, <1>15 DEF Sent
<1> QED
  BY <1>16 DEF SendEmpty, x

LEMMA RechunkKeeps ==
  ASSUME NEW w \in Works, NEW k \in Kinds, NEW h \in Announcements, NEW bytes \in Seq(ByteTokens),
         Announced(w, k, h, bytes), h.ml # 0
  PROVE  Sent(Rechunk(w, k, h, bytes), w, k, h, bytes)
<1> DEFINE c == w.player.chan[k]
           o == w.chan[c]
           all == All(w, k, bytes)
           ends == Ends(w, k, h, bytes)
           y == Looped(w, k, h, bytes)
           now == y.work.chan[c]
           v == NextProc(w, k, h, bytes)
           x == Rechunk(w, k, h, bytes)
<1>1. /\ c \in Reservable /\ c \in Channels /\ h.mt = k /\ InTouch(w) /\ Touches(w)
      /\ Continues(o, h) /\ NextOf(o, h, all) /\ o.proc + Len(all) <= h.ml /\ bytes # <<>>
      /\ h.mt \notin {"chunk", "abort"}
  BY ChannelsAre, KindsAre DEF Announced, InTouch
<1>2. /\ all \in Seq(ByteTokens) /\ ends \in BOOLEAN /\ y.work \in Works
      /\ y.left \in Seq(ByteTokens) /\ (ends => y.left = <<>>) /\ v \in Nat
      /\ x.chan = Settled(y.work, c, v).chan /\ x.peer = Settled(y.work, c, v).peer
      /\ x \in Works /\ x.chunk = w.chunk
      /\ x.player = [w.player EXCEPT !.bucket[k] = y.left]
  <2>1. w.player.chan[k] \in Channels
    BY <1>1
  <2>2. x.chan = Rechunked(w, k, h, bytes).chan /\ x.peer = Rechunked(w, k, h, bytes).peer
    <3>1. SameWire(x, Rechunked(w, k, h, bytes))
      BY <2>1, RechunkIs
    <3> QED
      BY <3>1 DEF SameWire
  <2>3. Rechunked(w, k, h, bytes) = Settled(y.work, c, v)
    BY DEF Rechunked
  <2>4. /\ all \in Seq(ByteTokens) /\ ends \in BOOLEAN /\ y.work \in Works
        /\ y.left \in Seq(ByteTokens) /\ (ends => y.left = <<>>) /\ v \in Nat
    BY <2>1, RechunkIs
  <2>5. x \in Works /\ x.chunk = w.chunk
        /\ x.player = [w.player EXCEPT !.bucket[k] = y.left]
    BY <2>1, RechunkIs
  <2> QED
    BY <2>2, <2>3, <2>4, <2>5
<1>3. /\ o.proc \in Nat /\ Len(all) \in Nat \ {0} /\ h.ml \in Nat
      /\ now \in OutChannels /\ now.proc \in Nat
  <2>1. w.player.bucket[k] \in Seq(ByteTokens)
    BY WorkFields, PlayerFields
  <2>2. Len(bytes) # 0
    BY <1>1, EmptyIs
  <2>3. Len(all) # 0
    BY <2>1, <2>2 DEF All
  <2>4. o \in OutChannels /\ now \in OutChannels
    BY <1>1, <1>2, WorkFields
  <2> QED
    BY <1>2, <2>3, <2>4, OutFields, HeaderFields
<1>4. all # <<>>
  BY <1>2, <1>3, EmptyIs
<1>5. ends <=> o.proc + Len(all) = h.ml
  BY DEF Ends
<1> HIDE DEF all, ends, x
<1>6. Loop(y, w, c, h, all)
  <2>1. y = Chunked(w, c, h, all, ends)
    BY DEF Looped, all, ends
  <2>2. o.proc # h.ml
    BY <1>1, <1>3
  <2>3. ends => o.proc + Len(all) = h.ml
    BY <1>5
  <2> HIDE DEF y, c
  <2>4. Loop(Chunked(w, c, h, all, ends), w, c, h, all)
    BY <1>1, <1>2, <2>2, <2>3, ChunkedTouches
  <2> QED
    BY <2>1, <2>4
<1> HIDE DEF y
<1>7. /\ \A d \in Channels \ {c} : y.work.chan[d] = w.chan[d]
      /\ y.work.chunk = w.chunk
      /\ now.proc + Len(y.left) = o.proc + Len(all)
      /\ Follow(y.left, h.mt, h.ml, now.proc)
      /\ \/ now = o /\ y.left = all
         \/ now = Wrote(o, h, now.proc) /\ now.proc # 0
      /\ Nearly(y.work, c, h.ml)
  BY <1>6 DEF Loop
<1>8. v = IF now.proc = h.ml THEN 0 ELSE now.proc
  BY DEF NextProc, y
<1> HIDE DEF v
<1> DEFINE u == y.work
<1>9. u \in Works /\ u.chan[c] = now
  BY <1>2
<1>10. /\ \A d \in Channels \ {c} : Settled(u, c, v).chan[d] = u.chan[d]
       /\ Settled(u, c, v).chan[c] = [hdr |-> now.hdr, proc |-> v,
                                      absTs |-> now.absTs, sid |-> now.sid]
       /\ Settled(u, c, v).chunk = u.chunk
       /\ Touches(Settled(u, c, v))
  <2>1. Nearly(u, c, h.ml) /\ v = IF u.chan[c].proc = h.ml THEN 0 ELSE u.chan[c].proc
    BY <1>7, <1>8
  <2> HIDE DEF u
  <2>2. Touches(Settled(u, c, v))
    BY <1>1, <1>2, <1>3, <1>9, <2>1, SettledTouches
  <2>3. /\ \A d \in Channels \ {c} : Settled(u, c, v).chan[d] = u.chan[d]
        /\ Settled(u, c, v).chan[c] = [hdr |-> u.chan[c].hdr, proc |-> v,
                                       absTs |-> u.chan[c].absTs, sid |-> u.chan[c].sid]
        /\ Settled(u, c, v).chunk = u.chunk
    BY <1>1, <1>2, <1>9, SettledFields, ZenonT(60)
  <2> QED
    BY <1>9, <2>2, <2>3
<1>11. Touches(x)
  <2>1. x.chan = Settled(u, c, v).chan /\ x.peer = Settled(u, c, v).peer
        /\ x.chunk = Settled(u, c, v).chunk
    BY <1>2, <1>7, <1>10
  <2> QED
    BY <1>10, <2>1 DEF Touches
<1>12. \A d \in Channels \ {c} : x.chan[d] = w.chan[d]
  BY <1>2, <1>7, <1>10
<1>13. InTouch(x)
  <2> HIDE DEF c
  <2> QED
    BY <1>1, <1>11, <1>12, OthersInTouch
<1>14. x.player.bucket[k] = y.left
  <2>1. w.player \in Players
    BY WorkFields
  <2>2. w.player.bucket \in [Kinds -> Seq(ByteTokens)]
    BY <2>1, PlayerFields
  <2> DEFINE left == y.left
             q == [w.player EXCEPT !.bucket[k] = left]
  <2>3. left \in Seq(ByteTokens) /\ x.player = q
    BY <1>2
  <2> HIDE DEF left
  <2>4. q.bucket = [w.player.bucket EXCEPT ![k] = left]
    BY <2>1, <2>3, BucketIsSet
  <2> HIDE DEF q
  <2>5. q.bucket[k] = left
    BY <2>2, <2>4
  <2> QED
    BY <2>3, <2>5 DEF left
<1>15. x.chan[c] = [hdr |-> now.hdr, proc |-> v, absTs |-> now.absTs, sid |-> now.sid]
  BY <1>2, <1>10
<1> HIDE DEF now
<1>16. CASE o.proc + Len(all) = h.ml
  <2>1. y.left = <<>>
    BY <1>2, <1>5, <1>16
  <2>2. now = Wrote(o, h, now.proc)
    BY <1>4, <1>7, <2>1
  <2>3. now.sid = h.si
    BY <2>2 DEF Wrote
  <2>4. Len(y.left) = 0
    BY <2>1
  <2>5. now.proc = h.ml
    BY <1>3, <1>7, <1>16, <2>4
  <2>6. x.chan[c].proc = 0 /\ x.chan[c].sid = h.si
    BY <1>8, <1>15, <2>3, <2>5
  <2> QED
    BY <1>12, <1>13, <1>14, <1>16, <2>1, <2>6 DEF Sent, x, all
<1>17. CASE o.proc + Len(all) # h.ml
  <2>1. now.proc # h.ml
    <3> DEFINE l == Len(y.left)
               a == Len(all)
    <3>1. /\ l \in Nat /\ a \in Nat /\ now.proc \in Nat /\ o.proc \in Nat /\ h.ml \in Nat
          /\ now.proc + l = o.proc + a /\ o.proc + a <= h.ml /\ o.proc + a # h.ml
      BY <1>1, <1>2, <1>3, <1>7, <1>17, SMTT(30)
    <3> HIDE DEF l, a, o
    <3> QED
      BY <3>1
  <2>2. v = now.proc
    BY <1>8, <2>1
  <2>3. x.chan[c] = now
    BY <1>3, <1>15, <2>2 DEF OutChannels
  <2>4. /\ now.proc + Len(x.player.bucket[k]) = o.proc + Len(all)
        /\ Follow(x.player.bucket[k], h.mt, h.ml, now.proc)
        /\ \/ now = o /\ x.player.bucket[k] = all
           \/ now = Wrote(o, h, now.proc) /\ now.proc # 0
    BY <1>7, <1>14
  <2> QED
    BY <1>12, <1>13, <1>17, <2>3, <2>4 DEF Sent, x, all
<1> QED
  BY <1>16, <1>17

\* What ChunkAndSend is given goes to the peer, or waits in the bucket.
LEMMA ChunkAndSendKeeps ==
  ASSUME NEW w \in Works, NEW k \in Kinds, NEW h \in Announcements, NEW bytes \in Seq(ByteTokens),
         Announced(w, k, h, bytes),
         w.player.feeder = w.chunk /\ w.player.bucket[k] = <<>> =>
           Len(bytes) = Least(h.ml - w.chan[w.player.chan[k]].proc, w.chunk)
  PROVE  Sent(ChunkAndSend(w, k, h, bytes), w, k, h, bytes)
<1>1. CASE h.ml = 0
  BY <1>1, SendEmptyKeeps DEF ChunkAndSend
<1>2. CASE h.ml # 0 /\ w.player.feeder = w.chunk /\ w.player.bucket[k] = <<>>
  BY <1>2, PassThroughKeeps DEF ChunkAndSend
<1>3. CASE h.ml # 0 /\ ~(w.player.feeder = w.chunk /\ w.player.bucket[k] = <<>>)
  BY <1>3, RechunkKeeps DEF ChunkAndSend
<1> QED
  BY <1>1, <1>2, <1>3

-----------------------------------------------------------------------------
(* What the player has of a message is all of it, or nothing. *)

LEMMA FollowConcat ==
  ASSUME NEW a \in Seq(ByteTokens), NEW b \in Seq(ByteTokens), NEW k, NEW len, NEW p \in Nat,
         Follow(a, k, len, p), Follow(b, k, len, p + Len(a))
  PROVE  Follow(a \o b, k, len, p)
<1> SUFFICES ASSUME NEW j \in DOMAIN (a \o b)
             PROVE  (a \o b)[j].mt = k /\ (a \o b)[j].ml = len /\ (a \o b)[j].i = p + j
  BY DEF Follow
<1>1. /\ j \in 1 .. Len(a) + Len(b) /\ Len(a) \in Nat /\ Len(b) \in Nat
      /\ DOMAIN a = 1 .. Len(a) /\ DOMAIN b = 1 .. Len(b)
  OBVIOUS
<1>2. CASE j <= Len(a)
  <2>1. (a \o b)[j] = a[j] /\ j \in DOMAIN a
    BY <1>1, <1>2
  <2> QED
    BY <2>1 DEF Follow
<1>3. CASE Len(a) < j
  <2> DEFINE i == j - Len(a)
  <2>1. (a \o b)[j] = b[i] /\ i \in DOMAIN b
    BY <1>1, <1>3
  <2>2. b[i].mt = k /\ b[i].ml = len /\ b[i].i = (p + Len(a)) + i
    BY <2>1 DEF Follow
  <2>3. (p + Len(a)) + i = p + j
    BY <1>1
  <2> QED
    BY <2>1, <2>2, <2>3
<1> QED
  BY <1>1, <1>2, <1>3

\* A message of which nothing has come.
LEMMA HoldsNothing ==
  ASSUME NEW o, NEW si, NEW ts, NEW k, NEW len, NEW fresh \in BOOLEAN,
         o.proc = 0, fresh \/ o.sid = si \/ o = FreshOut
  PROVE  Holds(o, <<>>, fresh, si, ts, k, len)
BY DEF Holds, Follow

\* A first frame.
LEMMA FirstHolds ==
  ASSUME NEW o, NEW all \in Seq(ByteTokens), NEW si, NEW ts, NEW k, NEW len,
         o.proc = 0, all # <<>>, Follow(all, k, len, 0), all[1].v.first
  PROVE  Holds(o, all, FALSE, si, ts, k, len)
BY DEF Holds

\* More bytes have come, and wait.
LEMMA AddedHolds ==
  ASSUME NEW o \in OutChannels, NEW a \in Seq(ByteTokens), NEW b \in Seq(ByteTokens),
         NEW si, NEW old \in Times, NEW d \in Times, NEW k, NEW len, NEW p \in Nat,
         p = o.proc + Len(a), Holds(o, a, FALSE, si, old, k, len),
         Follow(b, k, len, p), b # <<>> => b[1].v.at = d
  PROVE  Holds(o, a \o b, FALSE, si, IF p # 0 THEN old ELSE (d - o.absTs) % TsRange, k, len)
<1> DEFINE all == a \o b
           ts == IF p # 0 THEN old ELSE (d - o.absTs) % TsRange
<1>1. o.proc \in Nat /\ o.absTs \in Times /\ Len(a) \in Nat
  BY OutFields
<1>2. Follow(all, k, len, o.proc)
  BY <1>1, FollowConcat DEF Holds
<1>3. a # <<>> => all # <<>> /\ all[1] = a[1] /\ p # 0
  <2>1. a # <<>> => Len(a) # 0
    BY EmptyIs
  <2>2. Len(a) # 0 => all[1] = a[1] /\ Len(all) # 0
    BY <1>1
  <2>3. Len(all) # 0 => all # <<>>
    OBVIOUS
  <2>4. Len(a) # 0 => p # 0
    <3> DEFINE l == Len(a)
    <3> HIDE DEF l
    <3> QED
      BY <1>1
  <2> QED
    BY <2>1, <2>2, <2>3, <2>4
<1>4. a = <<>> => all = b
  OBVIOUS
<1>5. o.proc # 0 => p # 0
  <2> DEFINE l == Len(a)
  <2> HIDE DEF l
  <2> QED
    BY <1>1
<1>6. a = <<>> /\ o.proc = 0 => p = 0
  OBVIOUS
<1>7. (o.absTs + ((d - o.absTs) % TsRange)) % TsRange = d
  BY <1>1, AddedAgain
<1> HIDE DEF all
<1>8. CASE a = <<>> /\ o.proc = 0
  <2>1. ts = (d - o.absTs) % TsRange /\ all = b
    BY <1>4, <1>6, <1>8
  <2>2. all # <<>> => all[1].v.at = (o.absTs + ts) % TsRange
    BY <1>7, <2>1
  <2> HIDE DEF ts
  <2>3. o.sid = si \/ o = FreshOut
    BY <1>8 DEF Holds
  <2> QED
    BY <1>2, <1>8, <2>2, <2>3 DEF Holds, all, ts
<1>9. CASE a # <<>> \/ o.proc # 0
  <2>1. ts = old
    BY <1>3, <1>5, <1>9
  <2> HIDE DEF ts
  <2> QED
    BY <1>2, <1>3, <1>9, <2>1 DEF Holds, all, ts
<1> QED
  BY <1>8, <1>9

\* They may be sent.
LEMMA HoldsNext ==
  ASSUME NEW o \in OutChannels, NEW all \in Seq(ByteTokens), NEW si, NEW ts \in Times, NEW k,
         NEW len, NEW ia \in BOOLEAN, Holds(o, all, FALSE, si, ts, k, len),
         ia => o.proc = 0 /\ all # <<>> /\ all[1].v.first
  PROVE  LET h == [mt |-> k, ml |-> len, ts |-> ts, si |-> si, ia |-> ia]
         IN  Continues(o, h) /\ NextOf(o, h, all)
<1> DEFINE h == [mt |-> k, ml |-> len, ts |-> ts, si |-> si, ia |-> ia]
<1>1. h.mt = k /\ h.ml = len /\ h.ts = ts /\ h.si = si /\ h.ia = ia
  OBVIOUS
<1>2. Header(h) = [mt |-> k, ml |-> len, ts |-> ts, si |-> si]
  BY DEF Header
<1> HIDE DEF h
<1>3. Continues(o, h)
  BY <1>1, <1>2 DEF Continues, Holds
<1>4. ASSUME o.proc = 0, all # <<>>
      PROVE  all[1].v.first \/ all[1].v.at = TimeOf(o, h)
  <2>1. CASE all[1].v.first
    BY <2>1
  <2>2. CASE ~all[1].v.first
    <3>1. ~ia /\ all[1].v.at = (o.absTs + ts) % TsRange /\ (o.sid = si \/ o = FreshOut)
      BY <1>4, <2>2 DEF Holds
    <3>2. CASE o.sid = si
      <4>1. HeaderType(o, h) # "full"
        BY <1>1, <1>4, <3>1, <3>2 DEF HeaderType
      <4> QED
        BY <1>1, <1>4, <3>1, <4>1 DEF TimeOf
    <3>3. CASE o = FreshOut /\ o.sid # si
      <4>1. HeaderType(o, h) = "full"
        BY <1>1, <3>3 DEF HeaderType
      <4>2. o.absTs = 0
        BY <3>3 DEF FreshOut
      <4>3. (0 + ts) % TsRange = ts
        BY InRange DEF Times
      <4> QED
        BY <1>1, <3>1, <4>1, <4>2, <4>3 DEF TimeOf
    <3> QED
      BY <3>1, <3>2, <3>3
  <2> QED
    BY <2>1, <2>2
<1>5. NextOf(o, h, all)
  BY <1>1, <1>4 DEF NextOf, Holds
<1> QED
  BY <1>3, <1>5 DEF h

\* Some have been sent, and the rest waits.
LEMMA SentHolds ==
  ASSUME NEW o \in OutChannels, NEW all \in Seq(ByteTokens), NEW left \in Seq(ByteTokens),
         NEW now \in OutChannels, NEW fresh \in BOOLEAN,
         NEW h \in Announcements, Holds(o, all, FALSE, h.si, h.ts, h.mt, h.ml),
         Follow(left, h.mt, h.ml, now.proc),
         \/ now = o /\ left = all
         \/ now = Wrote(o, h, now.proc) /\ now.proc # 0
  PROVE  Holds(now, left, fresh, h.si, h.ts, h.mt, h.ml)
<1>1. CASE now = o /\ left = all
  BY <1>1 DEF Holds
<1>2. CASE now = Wrote(o, h, now.proc) /\ now.proc # 0
  <2>1. now.sid = h.si /\ now.hdr = [mt |-> h.mt, ml |-> h.ml, ts |-> h.ts, si |-> h.si]
    BY <1>2 DEF Wrote, Header
  <2> QED
    BY <1>2, <2>1 DEF Holds
<1> QED
  BY <1>1, <1>2

\* The bytes of a piece.
Coming(w, k, msg, p, n) ==
  Bytes(k, msg.len, p + 1, p + n, [at |-> Due(w.player, msg), first |-> w.player.first[k]])

\* x is w after the piece: done of len bytes of the message have come.
Fed(x, w, k, len, done) ==
  /\ InTouch(x) /\ \A d \in Channels \ {w.player.chan[k]} : x.chan[d] = w.chan[d]
  /\ Has(x, k, IF done = len THEN 0 ELSE len, IF done = len THEN 0 ELSE done)

\* A piece that is the next one of its message, as the chunks of the publisher are.
Timely(w, k, msg, p, n) ==
  /\ w.player.chan[k] \in Reservable /\ InTouch(w)
  /\ p + n <= msg.len /\ (n = 0 => msg.len = 0)
  /\ w.player.feeder = w.chunk => n = Least(msg.len - p, w.chunk)
  /\ w.player.first[k] /\ msg.flavor = "setup" /\ p = 0 => n = msg.len

Says(b, n, v) == Len(b) = n /\ \A j \in 1 .. n : b[j].v = v

LEMMA BytesSay ==
  ASSUME NEW mt \in MessageTypes, NEW ml \in Nat, NEW p \in Nat, NEW n \in Nat,
         NEW v \in Sayings(mt)
  PROVE  Says(Bytes(mt, ml, p + 1, p + n, v), n, v)
<1> DEFINE B == [j \in 1 .. n |-> [mt |-> mt, ml |-> ml, i |-> (p + 1) + j - 1, v |-> v]]
<1>1. (p + n) - (p + 1) + 1 = n
  OBVIOUS
<1>2. Bytes(mt, ml, p + 1, p + n, v) = B
  BY <1>1 DEF Bytes
<1>3. \A j \in 1 .. n : B[j].v = v
  OBVIOUS
<1>4. Len(B) = n
  OBVIOUS
<1> QED
  BY <1>2, <1>3, <1>4 DEF Says

LEMMA ComingIs ==
  ASSUME NEW w \in Works, NEW k \in Kinds, NEW msg \in FeedMessages, NEW p \in Nat, NEW n \in Nat
  PROVE  LET b == Coming(w, k, msg, p, n)
             v == [at |-> Due(w.player, msg), first |-> w.player.first[k]]
         IN  /\ b \in Seq(ByteTokens) /\ Len(b) = n /\ Follow(b, k, msg.len, p)
             /\ b = <<>> <=> n = 0
             /\ b # <<>> => b[1].v.at = Due(w.player, msg) /\ b[1].v.first = w.player.first[k]
<1> DEFINE v == [at |-> Due(w.player, msg), first |-> w.player.first[k]]
           b == Bytes(k, msg.len, p + 1, p + n, v)
<1>1. v \in Sayings(k) /\ k \in MessageTypes /\ msg.len \in Nat
  <2>1. 0 \in Times /\ TRUE \in BOOLEAN
    BY Parameters DEF Times
  <2> QED
    BY <2>1, SendIs
<1>2. v.at = Due(w.player, msg) /\ v.first = w.player.first[k]
  OBVIOUS
<1> HIDE DEF v
<1>3. /\ b \in Seq(ByteTokens) /\ Len(b) = n /\ Follow(b, k, msg.len, p)
      /\ \A j \in 1 .. n : b[j].v = v
      /\ b = <<>> <=> n = 0
  <2> DEFINE len == msg.len
  <2>1. len \in Nat
    BY <1>1
  <2> HIDE DEF len
  <2> DEFINE bs == Bytes(k, len, p + 1, p + n, v)
  <2>2. bs \in Seq(ByteTokens)
    BY <1>1, <2>1, BytesAre, ZenonT(30)
  <2>8. Says(bs, n, v)
    BY <1>1, <2>1, BytesSay
  <2>3. Len(bs) = n
    BY <2>8 DEF Says
  <2>4. Follow(bs, k, len, p)
    BY <1>1, <2>1, BytesAre, ZenonT(30)
  <2>5. \A j \in 1 .. n : bs[j].v = v
    BY <2>8 DEF Says
  <2>6. bs = b
    BY DEF len
  <2> HIDE DEF bs, b
  <2>7. b = <<>> <=> n = 0
    BY <2>2, <2>3, <2>6, EmptyIs
  <2> QED
    BY <2>2, <2>3, <2>4, <2>5, <2>6, <2>7 DEF len
<1>4. b # <<>> => b[1].v = v
  BY <1>3
<1>5. b = Coming(w, k, msg, p, n)
  BY DEF Coming, v
<1> HIDE DEF b
<1> QED
  BY <1>2, <1>3, <1>4, <1>5

LEMMA SendSays ==
  ASSUME NEW w \in Works, NEW k \in Kinds, w.player.chan[k] \in Channels,
         NEW msg \in FeedMessages, NEW p \in Nat, NEW n \in Nat,
         NEW ts \in Times, NEW ia \in BOOLEAN
  PROVE  LET u == [w EXCEPT !.player = Noted(w.player, k, msg, ts)]
             h == [mt |-> k, ml |-> msg.len, ts |-> ts, si |-> w.player.si, ia |-> ia]
             x == Send(w, k, msg, p, n, ts, ia)
         IN  /\ x = ChunkAndSend(u, k, h, Coming(w, k, msg, p, n))
             /\ u \in Works /\ u.chan = w.chan /\ u.chunk = w.chunk /\ u.peer = w.peer
             /\ Alike(u.player, w.player) /\ u.player.bucket = w.player.bucket
             /\ h \in Announcements
             /\ Feeding(x, w, k) /\ Takes(x, w, k, msg, ts)
<1> DEFINE q == Noted(w.player, k, msg, ts)
           u == [w EXCEPT !.player = q]
           h == [mt |-> k, ml |-> msg.len, ts |-> ts, si |-> w.player.si, ia |-> ia]
           x == Send(w, k, msg, p, n, ts, ia)
           pl == w.player
<1>1. /\ x = ChunkAndSend(u, k, h, Coming(w, k, msg, p, n))
      /\ u \in Works /\ u.chan = w.chan /\ u.chunk = w.chunk /\ u.peer = w.peer
      /\ u.player = q /\ h \in Announcements
  BY SendIs DEF Coming
<1>2. pl \in Players
  BY WorkFields
<1> HIDE DEF pl
<1>3. Alike(Noted(pl, k, msg, ts), pl) /\ Noted(pl, k, msg, ts).bucket = pl.bucket
  <2> DEFINE o == Noted(pl, k, msg, ts)
  <2>1. /\ Alike(o, pl)
        /\ o.dropped = [pl.dropped EXCEPT ![k] = FALSE]
        /\ o.ts = [pl.ts EXCEPT ![k] = ts]
        /\ o.first = [pl.first EXCEPT ![k] = pl.first[k] /\ msg.flavor = "setup"]
        /\ o.bucket = pl.bucket
    BY <1>2, NotedIs
  <2> QED
    BY <2>1
<1>4. Alike(q, w.player) /\ q.bucket = w.player.bucket
  BY <1>3 DEF pl
<1>5. Feeding(x, w, k) /\ Takes(x, w, k, msg, ts)
  BY SendIsTyped
<1> HIDE DEF q, u, h, x
<1>8. Alike(u.player, w.player) /\ u.player.bucket = w.player.bucket
  BY <1>1, <1>4
<1> QED
  BY <1>1, <1>5, <1>8 DEF q, u, h, x

LEMMA SendKeeps ==
  ASSUME NEW w \in Works, NEW k \in Kinds, NEW msg \in FeedMessages, NEW p \in Nat, NEW n \in Nat,
         NEW ts \in Times, NEW ia \in BOOLEAN,
         Timely(w, k, msg, p, n), Forwarded(w, k) = p,
         w.player.first[k] => p = 0,
         Holds(w.chan[w.player.chan[k]], w.player.bucket[k] \o Coming(w, k, msg, p, n), FALSE,
               w.player.si, ts, k, msg.len),
         ia => w.player.first[k] /\ n # 0
  PROVE  Fed(Send(w, k, msg, p, n, ts, ia), w, k, msg.len, p + n)
<1> DEFINE u == [w EXCEPT !.player = Noted(w.player, k, msg, ts)]
           h == [mt |-> k, ml |-> msg.len, ts |-> ts, si |-> w.player.si, ia |-> ia]
           bytes == Coming(w, k, msg, p, n)
           x == Send(w, k, msg, p, n, ts, ia)
           c == w.player.chan[k]
           o == w.chan[c]
           all == w.player.bucket[k] \o bytes
           now == x.chan[c]
           left == x.player.bucket[k]
<1>0. c \in Reservable /\ c \in Channels
  BY ChannelsAre DEF Timely
<1>1. /\ x = ChunkAndSend(u, k, h, bytes)
      /\ u \in Works /\ u.chan = w.chan
      /\ u.chunk = w.chunk /\ u.peer = w.peer
      /\ Alike(u.player, w.player) /\ u.player.bucket = w.player.bucket
      /\ h \in Announcements /\ msg.len \in Nat
      /\ Feeding(x, w, k) /\ Takes(x, w, k, msg, ts)
  <2>1. c \in Channels
    BY <1>0
  <2> QED
    <3>1. msg.len \in Nat
      BY MessageFields
    <3>2. /\ x = ChunkAndSend(u, k, h, bytes)
          /\ u \in Works /\ u.chan = w.chan
          /\ u.chunk = w.chunk /\ u.peer = w.peer
          /\ Alike(u.player, w.player) /\ u.player.bucket = w.player.bucket
          /\ h \in Announcements
          /\ Feeding(x, w, k) /\ Takes(x, w, k, msg, ts)
      BY <2>1, SendSays
    <3> QED
      BY <3>1, <3>2
<1>2. w.player \in Players /\ c \in Reservable /\ c \in Channels
  BY WorkFields, ChannelsAre DEF Timely
<1>4. /\ bytes \in Seq(ByteTokens) /\ Len(bytes) = n
      /\ bytes = <<>> <=> n = 0
      /\ bytes # <<>> => bytes[1].v.first = w.player.first[k]
  BY ComingIs, ZenonT(60)
<1>5. w.player.bucket[k] \in Seq(ByteTokens) /\ all \in Seq(ByteTokens)
  BY <1>2, <1>4, PlayerFields
<1>6. o \in OutChannels /\ o.proc \in Nat
  BY <1>2, WorkFields, OutFields
<1>7. o.proc + Len(w.player.bucket[k]) = p
  BY DEF Forwarded
<1>8. o.proc + Len(all) = p + n
  <2> DEFINE l == Len(w.player.bucket[k])
  <2>1. Len(all) = l + n /\ l \in Nat
    <3> DEFINE b == w.player.bucket[k]
    <3>1. b \in Seq(ByteTokens) /\ bytes \in Seq(ByteTokens) /\ Len(bytes) = n
      BY <1>4, <1>5
    <3> HIDE DEF b, bytes
    <3>2. Len(b \o bytes) = Len(b) + Len(bytes) /\ Len(b) \in Nat
      BY <3>1
    <3> QED
      BY <3>1, <3>2 DEF b
  <2> HIDE DEF l, all, o
  <2> QED
    BY <1>6, <1>7, <2>1 DEF l, o
<1>9. h.mt = k /\ h.ml = msg.len /\ h.ts = ts /\ h.si = w.player.si /\ h.ia = ia
  OBVIOUS
<1>10. Continues(o, h) /\ NextOf(o, h, all)
  <2>1. ia => o.proc = 0 /\ all # <<>> /\ all[1].v.first
    <3> SUFFICES ASSUME ia
                 PROVE  o.proc = 0 /\ all # <<>> /\ all[1].v.first
      OBVIOUS
    <3>1. w.player.first[k] /\ n # 0 /\ p = 0
      OBVIOUS
    <3>2. o.proc = 0 /\ Len(w.player.bucket[k]) = 0
      <4> DEFINE l == Len(w.player.bucket[k])
      <4>1. l \in Nat /\ o.proc + l = 0
        BY <1>5, <1>7, <3>1
      <4> HIDE DEF l, o
      <4> QED
        BY <1>6, <4>1 DEF l
    <3>3. w.player.bucket[k] = <<>>
      BY <1>5, <3>2, EmptyIs
    <3>4. all = bytes
      BY <1>4, <3>3
    <3> QED
      BY <1>4, <3>1, <3>2, <3>4
  <2>2. w.player.si = w.player.si /\ Holds(o, all, FALSE, w.player.si, ts, k, msg.len)
    OBVIOUS
  <2> HIDE DEF o, all
  <2> QED
    BY <1>5, <1>6, <2>1, <2>2, HoldsNext
<1>11. u.player.chan = w.player.chan /\ u.player.bucket = w.player.bucket
       /\ u.player.feeder = w.player.feeder
  BY <1>1 DEF Alike
<1> HIDE DEF u
<1>12. Announced(u, k, h, bytes)
  <2>1. All(u, k, bytes) = all
    BY <1>11 DEF All
  <2>2. InTouch(u)
    <3>1. InTouch(w)
      BY DEF Timely
    <3> QED
      BY <1>1, <3>1 DEF InTouch, Touches
  <2>3. p + n <= msg.len /\ (h.ml # 0 => bytes # <<>>)
    BY <1>4, <1>9 DEF Timely
  <2> HIDE DEF h, all, bytes
  <2> QED
    BY <1>1, <1>2, <1>8, <1>9, <1>10, <1>11, <2>1, <2>2, <2>3 DEF Announced
<1>13. u.player.feeder = u.chunk /\ u.player.bucket[k] = <<>> =>
         Len(bytes) = Least(h.ml - u.chan[u.player.chan[k]].proc, u.chunk)
  <2> SUFFICES ASSUME w.player.feeder = w.chunk, w.player.bucket[k] = <<>>
               PROVE  n = Least(msg.len - o.proc, w.chunk)
    BY <1>1, <1>4, <1>9, <1>11
  <2>1. Len(w.player.bucket[k]) = 0
    OBVIOUS
  <2>2. o.proc = p
    <3> HIDE DEF o
    <3> QED
      BY <1>6, <1>7, <2>1 DEF o
  <2> QED
    BY <2>2 DEF Timely
<1> HIDE DEF h, bytes, x
<1>14. Sent(x, u, k, h, bytes)
  BY <1>1, <1>4, <1>12, <1>13, ChunkAndSendKeeps
<1>15. /\ Feeding(x, w, k)
       /\ x.player.first[k] = (w.player.first[k] /\ msg.flavor = "setup")
       /\ x.player.dropped[k] = FALSE /\ x.player.ts[k] = ts
  BY <1>1 DEF Takes
<1>16. /\ x \in Works /\ x.player.chan = w.player.chan /\ x.player.si = w.player.si
  BY <1>15 DEF Feeding, Alike
<1>17. All(u, k, bytes) = all
  BY <1>11 DEF All
<1>18. /\ InTouch(x) /\ \A d \in Channels \ {c} : x.chan[d] = w.chan[d]
       /\ IF p + n = msg.len
          THEN now.proc = 0 /\ left = <<>> /\ now.sid = w.player.si
          ELSE /\ now.proc + Len(left) = p + n
               /\ Follow(left, k, msg.len, now.proc)
               /\ \/ now = o /\ left = all
                  \/ now = Wrote(o, h, now.proc) /\ now.proc # 0
  <2>1. u.player.chan[k] = c /\ u.chan = w.chan
    BY <1>1, <1>11
  <2> HIDE DEF c, all
  <2> QED
    BY <1>8, <1>9, <1>14, <1>17, <2>1 DEF Sent
<1>19. x.player \in Players /\ now \in OutChannels /\ left \in Seq(ByteTokens)
       /\ x.player.first[k] \in BOOLEAN
  <2>1. x.player \in Players /\ now \in OutChannels
    BY <1>2, <1>16, WorkFields
  <2> QED
    BY <2>1, PlayerFields
<1>20. Forwarded(x, k) = now.proc + Len(left)
  BY <1>16 DEF Forwarded
<1>21. CASE p + n = msg.len
  <2>1. now.proc = 0 /\ left = <<>> /\ now.sid = w.player.si
    BY <1>18, <1>21
  <2>2. Holds(now, <<>>, x.player.first[k], w.player.si, ts, k, 0)
    BY <1>19, <2>1, HoldsNothing
  <2>3. Forwarded(x, k) = 0
    BY <1>20, <2>1
  <2>4. Has(x, k, 0, 0)
    BY <1>15, <1>16, <2>1, <2>2, <2>3 DEF Has
  <2> QED
    BY <1>18, <1>21, <2>4 DEF Fed, x
<1>22. CASE p + n # msg.len
  <2>1. ~x.player.first[k]
    <3>1. ~(w.player.first[k] /\ msg.flavor = "setup")
      BY <1>22 DEF Timely
    <3> QED
      BY <1>15, <3>1
  <2>2. Holds(now, left, FALSE, w.player.si, ts, k, msg.len)
    <3>1. Holds(o, all, FALSE, h.si, h.ts, h.mt, h.ml)
      BY <1>9 DEF bytes
    <3>2. /\ Follow(left, h.mt, h.ml, now.proc)
          /\ \/ now = o /\ left = all
             \/ now = Wrote(o, h, now.proc) /\ now.proc # 0
      BY <1>9, <1>18, <1>22
    <3> HIDE DEF o, all, now, left
    <3>3. Holds(now, left, FALSE, h.si, h.ts, h.mt, h.ml)
      BY <1>1, <1>5, <1>6, <1>19, <3>1, <3>2, SentHolds
    <3> QED
      BY <1>9, <3>3
  <2>3. Forwarded(x, k) = p + n
    BY <1>18, <1>20, <1>22
  <2>4. Has(x, k, msg.len, p + n)
    BY <1>15, <1>16, <2>1, <2>2, <2>3 DEF Has
  <2> QED
    BY <1>18, <1>22, <2>4 DEF Fed, x
<1> QED
  BY <1>21, <1>22

LEMMA NothingForwarded ==
  ASSUME NEW w \in Works, NEW k \in Kinds, w.player.chan[k] \in Channels, Forwarded(w, k) = 0
  PROVE  w.chan[w.player.chan[k]].proc = 0 /\ w.player.bucket[k] = <<>>
<1> DEFINE p == w.chan[w.player.chan[k]].proc
           b == w.player.bucket[k]
<1>1. p \in Nat /\ b \in Seq(ByteTokens)
  BY WorkFields, PlayerFields, OutFields
<1>2. p + Len(b) = 0
  BY DEF Forwarded
<1> HIDE DEF p, b
<1>3. p = 0 /\ Len(b) = 0
  BY <1>1, <1>2
<1>4. p = 0 /\ b = <<>>
  BY <1>1, <1>3, EmptyIs
<1> QED
  BY <1>4 DEF p, b

\* A piece is dropped.
LEMMA DroppedFed ==
  ASSUME NEW w \in Works, NEW k \in Kinds, NEW b \in BOOLEAN, NEW len, NEW done,
         w.player.chan[k] \in Reservable, InTouch(w), Forwarded(w, k) = 0,
         Has(w, k, len, done), w.player.first[k] \/ b, NEW all
  PROVE  Fed([w EXCEPT !.player.dropped[k] = b], w, k, len, all)
<1> DEFINE x == [w EXCEPT !.player.dropped[k] = b]
           c == w.player.chan[k]
           o == w.chan[c]
<1>1. /\ Feeding(x, w, k) /\ x.chan = w.chan /\ x.peer = w.peer
      /\ x.player.first = w.player.first /\ x.player.ts = w.player.ts
      /\ x.player.bucket = w.player.bucket /\ x.player.dropped[k] = b
  BY DroppingIs
<1> HIDE DEF x
<1>2. o.proc = 0 /\ w.player.bucket[k] = <<>> /\ w.player.first[k] \in BOOLEAN
  BY ChannelsAre, NothingForwarded, WorkFields, PlayerFields
<1>3. w.player.first[k] \/ o.sid = w.player.si \/ o = FreshOut
  BY <1>2 DEF Has, Holds
<1>4. \A l : Holds(o, <<>>, w.player.first[k], w.player.si, w.player.ts[k], k, l)
  <2> HIDE DEF o
  <2> QED
    BY <1>2, <1>3, HoldsNothing
<1>5. Forwarded(x, k) = 0
  BY <1>1 DEF Forwarded, Feeding, Alike
<1>6. x.player.first[k] \/ x.player.dropped[k]
  BY <1>1
<1>7. x.player.chan = w.player.chan /\ x.player.si = w.player.si /\ x.chunk = w.chunk
  BY <1>1 DEF Feeding, Alike
<1>8. \A l, d : Has(x, k, l, d)
  <2> TAKE l, d
  <2>1. Holds(o, <<>>, w.player.first[k], w.player.si, w.player.ts[k], k, l)
    BY <1>4
  <2>2. x.chan[x.player.chan[k]] = o
    BY <1>1, <1>7
  <2>3. Holds(x.chan[x.player.chan[k]], x.player.bucket[k], x.player.first[k], x.player.si,
              x.player.ts[k], k, l)
    BY <1>1, <1>2, <1>7, <2>1, <2>2
  <2> HIDE DEF o
  <2> QED
    BY <1>5, <1>6, <2>3 DEF Has
<1>9. InTouch(x)
  BY <1>1, <1>7 DEF InTouch, Touches
<1> QED
  BY <1>1, <1>8, <1>9 DEF Fed, x

\* The first frame the player sends.
LEMMA FirstFed ==
  ASSUME NEW w \in Works, NEW k \in Kinds, NEW msg \in FeedMessages, NEW n \in Nat,
         Timely(w, k, msg, 0, n), Forwarded(w, k) = 0, w.player.first[k], n # 0
  PROVE  Fed(Send(w, k, msg, 0, n, Due(w.player, msg), TRUE), w, k, msg.len, 0 + n)
<1> DEFINE c == w.player.chan[k]
           o == w.chan[c]
           bytes == Coming(w, k, msg, 0, n)
           d == Due(w.player, msg)
<1>1. o.proc = 0 /\ w.player.bucket[k] = <<>>
  BY ChannelsAre, NothingForwarded DEF Timely
<1>2. 0 \in Nat
  OBVIOUS
<1>3. /\ bytes \in Seq(ByteTokens) /\ Follow(bytes, k, msg.len, 0) /\ bytes # <<>>
      /\ bytes[1].v.first = w.player.first[k]
  <2> DEFINE z == 0
             b == Coming(w, k, msg, z, n)
  <2>1. z \in Nat
    OBVIOUS
  <2> HIDE DEF z
  <2>2. b \in Seq(ByteTokens)
    BY <2>1, ComingIs
  <2>3. Follow(b, k, msg.len, z)
    BY <2>1, ComingIs
  <2>4. b # <<>>
    BY <2>1, ComingIs
  <2>5. b # <<>> => b[1].v.first = w.player.first[k]
    BY <2>1, ComingIs
  <2> QED
    BY <2>2, <2>3, <2>4, <2>5 DEF z
<1>4. d \in Times
  BY WorkFields, DueIsTyped
<1> HIDE DEF bytes, d
<1>5. w.player.bucket[k] \o bytes = bytes
  BY <1>1, <1>3
<1>6. Holds(o, bytes, FALSE, w.player.si, d, k, msg.len)
  <2> HIDE DEF o
  <2> QED
    BY <1>1, <1>3, FirstHolds
<1>7. Holds(o, w.player.bucket[k] \o bytes, FALSE, w.player.si, d, k, msg.len)
  BY <1>5, <1>6
<1> QED
  BY <1>2, <1>4, <1>7, SendKeeps DEF bytes, d

\* A later frame.
LEMMA LaterFed ==
  ASSUME NEW w \in Works, NEW k \in Kinds, NEW msg \in FeedMessages, NEW p \in Nat, NEW n \in Nat,
         Timely(w, k, msg, p, n), Has(w, k, msg.len, p), ~w.player.first[k],
         p # 0 => ~w.player.dropped[k]
  PROVE  Fed(Send(w, k, msg, p, n, LaterTs(w, k, msg, p), FALSE), w, k, msg.len, p + n)
<1> DEFINE c == w.player.chan[k]
           o == w.chan[c]
           a == w.player.bucket[k]
           bytes == Coming(w, k, msg, p, n)
           old == w.player.ts[k]
           d == Due(w.player, msg)
           ts == IF p # 0 THEN old ELSE (d - o.absTs) % TsRange
<1>1. Forwarded(w, k) = p
  <2>1. Forwarded(w, k) = IF w.player.first[k] \/ w.player.dropped[k] THEN 0 ELSE p
    BY DEF Has
  <2>2. CASE p = 0
    BY <2>1, <2>2
  <2>3. CASE p # 0
    BY <2>1, <2>3
  <2> QED
    BY <2>2, <2>3
<1>2. w.player \in Players /\ c \in Channels
  BY WorkFields, ChannelsAre DEF Timely
<1>3. o \in OutChannels /\ a \in Seq(ByteTokens) /\ old \in Times /\ d \in Times
  BY <1>2, WorkFields, PlayerFields, DueIsTyped
<1>4. bytes \in Seq(ByteTokens) /\ Follow(bytes, k, msg.len, p) /\ (bytes # <<>> => bytes[1].v.at = d)
  BY ComingIs
<1>5. p = o.proc + Len(a)
  BY <1>1 DEF Forwarded
<1>6. Holds(o, a, FALSE, w.player.si, old, k, msg.len)
  <2>1. w.player.first[k] \in BOOLEAN
    BY <1>2, PlayerFields
  <2>2. w.player.first[k] = FALSE
    BY <2>1
  <2>3. Holds(o, a, w.player.first[k], w.player.si, old, k, msg.len)
    BY DEF Has
  <2> QED
    BY <2>2, <2>3
<1>7. ts = LaterTs(w, k, msg, p)
  BY DEF LaterTs
<1>8. Holds(o, a \o bytes, FALSE, w.player.si, ts, k, msg.len)
  <2> HIDE DEF o, a, bytes, old, d
  <2> QED
    BY <1>3, <1>4, <1>5, <1>6, AddedHolds, ZenonT(60)
<1>9. LaterTs(w, k, msg, p) \in Times
  BY <1>2, LaterTsIsTyped
<1>10. Holds(o, a \o bytes, FALSE, w.player.si, LaterTs(w, k, msg, p), k, msg.len)
  BY <1>7, <1>8
<1> QED
  BY <1>1, <1>9, <1>10, SendKeeps

\* Whatever becomes of a piece, the player has all of its message or nothing.
LEMMA FeedDataKeeps ==
  ASSUME NEW w \in Works, NEW k \in Kinds, NEW msg \in FeedMessages, NEW p \in Nat, NEW n \in Nat,
         NEW full \in BOOLEAN, Timely(w, k, msg, p, n), Has(w, k, msg.len, p), ~w.player.paused
  PROVE  Fed(FeedData(w, k, msg, p, n, full), w, k, msg.len, p + n)
<1> DEFINE x == FeedData(w, k, msg, p, n, full)
           d == Due(w.player, msg)
           l == LaterTs(w, k, msg, p)
           len == msg.len
           first == w.player.first[k]
<1> SUFFICES Fed(x, w, k, len, p + n)
  OBVIOUS
<1>1. w.player.chan[k] \in Reservable /\ InTouch(w)
  BY DEF Timely
<1>2. Forwarded(w, k) = IF first \/ w.player.dropped[k] THEN 0 ELSE p
  BY DEF Has
<1>3. TRUE \in BOOLEAN /\ FALSE \in BOOLEAN /\ 0 \in Nat
  OBVIOUS
<1>4. CASE first
  <2>1. Forwarded(w, k) = 0
    BY <1>2, <1>4
  <2>2. \/ n # 0 /\ p = 0 /\ x = Send(w, k, msg, p, n, d, TRUE)
        \/ x = [w EXCEPT !.player.dropped[k] = FALSE]
    BY <1>4 DEF FeedData, FirstFrame
  <2> HIDE DEF x
  <2>3. CASE n # 0 /\ p = 0 /\ x = Send(w, k, msg, p, n, d, TRUE)
    <3>1. Timely(w, k, msg, 0, n) /\ x = Send(w, k, msg, 0, n, d, TRUE)
      BY <2>3
    <3>2. Fed(Send(w, k, msg, 0, n, d, TRUE), w, k, len, 0 + n)
      BY <1>4, <2>1, <2>3, <3>1, FirstFed
    <3> HIDE DEF d, len
    <3> QED
      BY <2>3, <3>1, <3>2
  <2>4. CASE x = [w EXCEPT !.player.dropped[k] = FALSE]
    <3> DEFINE q == p + n
    <3> HIDE DEF q
    <3>1. Fed([w EXCEPT !.player.dropped[k] = FALSE], w, k, len, q)
      BY <1>1, <1>3, <1>4, <2>1, DroppedFed
    <3> QED
      BY <2>4, <3>1 DEF q
  <2> QED
    BY <2>2, <2>3, <2>4
<1>5. CASE ~first
  <2>1. \/ (p # 0 => ~w.player.dropped[k]) /\ x = Send(w, k, msg, p, n, l, FALSE)
        \/ (p # 0 => w.player.dropped[k]) /\ x = [w EXCEPT !.player.dropped[k] = TRUE]
    BY <1>5 DEF FeedData, LaterFrame, LaterTs, AllowExecution
  <2> HIDE DEF x
  <2>2. CASE (p # 0 => ~w.player.dropped[k]) /\ x = Send(w, k, msg, p, n, l, FALSE)
    BY <1>5, <2>2, LaterFed
  <2>3. CASE (p # 0 => w.player.dropped[k]) /\ x = [w EXCEPT !.player.dropped[k] = TRUE]
    <3> DEFINE q == p + n
    <3> HIDE DEF q
    <3>1. Forwarded(w, k) = 0
      BY <1>2, <2>3
    <3>2. Fed([w EXCEPT !.player.dropped[k] = TRUE], w, k, len, q)
      BY <1>1, <1>3, <3>1, DroppedFed
    <3> QED
      BY <2>3, <3>2 DEF q
  <2> QED
    BY <2>1, <2>2, <2>3
<1> QED
  BY <1>4, <1>5

-----------------------------------------------------------------------------
(* What is said in between. *)

LEMMA CommitIs ==
  ASSUME NEW x \in Works, Commit(x)
  PROVE  Work' = x
BY DEF Commit, Work, Works

\* x is w after messages that were sent at once, on the channels of control and commands,
\* or on the one of the audio.
Tells(x, w) ==
  LET a == w.player.chan["audio"]
  IN  /\ x \in Works /\ x.chunk = w.chunk /\ x.player = w.player
      /\ InTouch(w) /\ w.chan[a].proc = 0 =>
           /\ InTouch(x) /\ x.chan[a].proc = 0
           /\ \A d \in Reservable \ {a} : x.chan[d] = w.chan[d]

LEMMA SaidTells ==
  ASSUME NEW w \in Works, NEW x, NEW c, w.player.chan["audio"] \in Reservable,
         c \in {Control, Commands, w.player.chan["audio"]}, Said(x, w, c)
  PROVE  Tells(x, w)
<1> DEFINE a == w.player.chan["audio"]
<1>1. a \in Reservable /\ c \in {Control, Commands, a}
  OBVIOUS
<1> HIDE DEF a
<1>2. ASSUME InTouch(w), w.chan[a].proc = 0
      PROVE  /\ InTouch(x) /\ x.chan[a].proc = 0
             /\ \A d \in Reservable \ {a} : x.chan[d] = w.chan[d]
  <2>1. w.chan[c].proc = 0
    BY <1>1, <1>2 DEF InTouch
  <2>2. InTouch(x) /\ x.chan[c].proc = 0 /\ \A d \in Channels \ {c} : x.chan[d] = w.chan[d]
    BY <1>2, <2>1 DEF Said
  <2>3. \A d \in Reservable : d \in Channels /\ d # Control /\ d # Commands
    BY ChannelsAre
  <2> QED
    BY <1>1, <1>2, <2>2, <2>3
<1> QED
  BY <1>2 DEF Tells, Said, a

LEMMA TellsAgain ==
  ASSUME NEW w, NEW x, NEW y, Tells(x, w), Tells(y, x)
  PROVE  Tells(y, w)
BY DEF Tells

LEMMA UserControlTells ==
  ASSUME NEW w \in Works, w.player.chan["audio"] \in Reservable
  PROVE  Tells(SendUserControl(w), w)
BY UserControlIsSaid, SaidTells

LEMMA StatusTells ==
  ASSUME NEW w \in Works, w.player.chan["audio"] \in Reservable, NEW mt \in {"invoke", "notify"},
         NEW ts \in Times, NEW ia \in BOOLEAN
  PROVE  Tells(SendStatus(w, mt, ts, ia), w)
<1>1. Said(SendStatus(w, mt, ts, ia), w, w.player.chan["audio"])
  BY ChannelsAre, StatusIsSaid
<1> QED
  BY <1>1, SaidTells

LEMMA CommandTells ==
  ASSUME NEW w \in Works, w.player.chan["audio"] \in Reservable, NEW si \in Ids,
         NEW ia \in BOOLEAN
  PROVE  Tells(SendMessage(w, Commands, CommandHeader("invoke", si, 0, ia), 0), w)
<1> DEFINE x == SendMessage(w, Commands, CommandHeader("invoke", si, 0, ia), 0)
<1>1. 0 \in Times /\ Commands \in Channels
  BY Parameters, ChannelsAre DEF Times
<1>2. Said(x, w, Commands)
  BY <1>1, CommandIsSaid
<1> HIDE DEF x
<1>3. Tells(x, w)
  BY <1>2, SaidTells
<1> QED
  BY <1>3 DEF x

\* What a player that is told so has nothing of.
Nothing(w, k) ==
  w.player.first[k] /\ w.chan[w.player.chan[k]].proc = 0 /\ w.player.bucket[k] = <<>>

LEMMA NothingHas ==
  ASSUME NEW w \in Works, NEW k \in Kinds, Nothing(w, k), NEW len, NEW done
  PROVE  Has(w, k, len, done)
<1> DEFINE o == w.chan[w.player.chan[k]]
<1>1. w.player.first[k] = TRUE
  BY WorkFields, PlayerFields DEF Nothing
<1>2. Forwarded(w, k) = 0
  BY DEF Forwarded, Nothing
<1>3. o.proc = 0 /\ w.player.bucket[k] = <<>>
  BY DEF Nothing
<1> HIDE DEF o
<1>4. Holds(o, <<>>, TRUE, w.player.si, w.player.ts[k], k, len)
  BY <1>3, HoldsNothing
<1>5. Holds(o, w.player.bucket[k], w.player.first[k], w.player.si, w.player.ts[k], k, len)
  BY <1>1, <1>3, <1>4
<1> QED
  BY <1>1, <1>2, <1>5 DEF Has, o

LEMMA SameHas ==
  ASSUME NEW w, NEW x, NEW k, NEW len, NEW done, x.player = w.player,
         x.chan[w.player.chan[k]] = w.chan[w.player.chan[k]], Has(w, k, len, done)
  PROVE  Has(x, k, len, done)
BY DEF Has, Forwarded

\* The other kind is not touched.
LEMMA OtherHas ==
  ASSUME NEW w, NEW x, NEW k, NEW j, NEW len, NEW done, Alike(x.player, w.player),
         x.player.first[j] = w.player.first[j], x.player.dropped[j] = w.player.dropped[j],
         x.player.ts[j] = w.player.ts[j], x.player.bucket[j] = w.player.bucket[j],
         x.chan[w.player.chan[j]] = w.chan[w.player.chan[j]], Has(w, j, len, done)
  PROVE  Has(x, j, len, done)
BY DEF Has, Forwarded, Alike

\* Of no message that has not begun.
LEMMA HasAnyLength ==
  ASSUME NEW w \in Works, NEW k \in Kinds, w.player.chan[k] \in Channels, NEW len, NEW l,
         Has(w, k, len, 0)
  PROVE  Has(w, k, l, 0)
<1> DEFINE o == w.chan[w.player.chan[k]]
<1>1. Forwarded(w, k) = 0
  BY DEF Has
<1>2. o.proc = 0 /\ w.player.bucket[k] = <<>> /\ w.player.first[k] \in BOOLEAN
  BY <1>1, NothingForwarded, WorkFields, PlayerFields
<1>3. w.player.first[k] \/ o.sid = w.player.si \/ o = FreshOut
  BY <1>2 DEF Has, Holds
<1> HIDE DEF o
<1>4. Holds(o, <<>>, w.player.first[k], w.player.si, w.player.ts[k], k, l)
  BY <1>2, <1>3, HoldsNothing
<1>5. Holds(o, w.player.bucket[k], w.player.first[k], w.player.si, w.player.ts[k], k, l)
  BY <1>2, <1>4
<1> QED
  BY <1>1, <1>5 DEF Has, o

-----------------------------------------------------------------------------
(* A player is attached. *)

\* The two channels of the media.
Seated(pl) ==
  /\ pl.chan["audio"] \in Reservable /\ pl.chan["video"] \in Reservable
  /\ pl.chan["audio"] # pl.chan["video"]

LEMMA AbortsKeep ==
  ASSUME NEW w \in Works, Seated(w.player)
  PROVE  LET x == Abort(Abort(w, "audio"), "video")
         IN  /\ x \in Works /\ x.chunk = w.chunk /\ x.player = w.player
             /\ InTouch(w) => InTouch(x) /\ \A k \in Kinds : x.chan[w.player.chan[k]].proc = 0
<1> DEFINE y == Abort(w, "audio")
           x == Abort(y, "video")
           a == w.player.chan["audio"]
           v == w.player.chan["video"]
<1>1. /\ "audio" \in Kinds /\ "video" \in Kinds
      /\ a \in Reservable /\ v \in Reservable /\ a # v
  BY DEF Kinds, Seated
<1>2. /\ y \in Works /\ y.chunk = w.chunk /\ y.player = w.player
      /\ InTouch(w) => /\ InTouch(y) /\ y.chan[a].proc = 0
  BY <1>1, AbortIs
<1> HIDE DEF y
<1>3. y.player.chan["video"] = v /\ v \in Reservable
  BY <1>1, <1>2
<1>4. /\ x \in Works /\ x.chunk = y.chunk /\ x.player = y.player
      /\ InTouch(y) => /\ InTouch(x) /\ x.chan[v].proc = 0
                       /\ \A d \in Reservable \ {v} : x.chan[d] = y.chan[d]
  <2> DEFINE k == "video"
  <2>1. k \in Kinds /\ y.player.chan[k] = v
    BY <1>1, <1>3
  <2> HIDE DEF k, v
  <2>2. /\ Abort(y, k) \in Works /\ Abort(y, k).chunk = y.chunk /\ Abort(y, k).player = y.player
        /\ InTouch(y) => /\ InTouch(Abort(y, k)) /\ Abort(y, k).chan[y.player.chan[k]].proc = 0
                         /\ \A d \in Reservable \ {y.player.chan[k]} :
                              Abort(y, k).chan[d] = y.chan[d]
    BY <1>2, <1>3, <2>1, AbortIs
  <2> QED
    BY <2>1, <2>2 DEF k
<1> HIDE DEF x
<1>5. ASSUME InTouch(w)
      PROVE  InTouch(x) /\ \A k \in Kinds : x.chan[w.player.chan[k]].proc = 0
  <2>1. InTouch(x) /\ x.chan[v].proc = 0 /\ x.chan[a].proc = 0
    BY <1>1, <1>2, <1>4, <1>5
  <2> QED
    BY <2>1 DEF Kinds
<1> QED
  BY <1>2, <1>4, <1>5 DEF x, y

\* A codec setup is a first frame, and leaves the next frame a first one.
LEMMA FirstStays ==
  ASSUME NEW w \in Works, NEW k \in Kinds, w.player.chan[k] \in Channels,
         NEW msg \in FeedMessages, NEW p \in Nat, NEW n \in Nat, NEW full \in BOOLEAN,
         w.player.first[k], msg.flavor = "setup"
  PROVE  FeedData(w, k, msg, p, n, full).player.first[k]
<1> DEFINE x == FeedData(w, k, msg, p, n, full)
           d == Due(w.player, msg)
           y == Send(w, k, msg, p, n, d, TRUE)
           z == [w EXCEPT !.player.dropped[k] = FALSE]
<1> SUFFICES x.player.first[k]
  OBVIOUS
<1>1. d \in Times /\ TRUE \in BOOLEAN /\ FALSE \in BOOLEAN
  BY WorkFields, DueIsTyped
<1>2. x = w \/ x = y \/ x = z
  BY DEF FeedData, FirstFrame
<1>3. z.player.first = w.player.first
  BY <1>1, DroppingIs
<1>4. Takes(y, w, k, msg, d)
  <2> HIDE DEF d
  <2> QED
    BY <1>1, SendIsTyped
<1> HIDE DEF x, y, z
<1>5. y.player.first[k]
  BY <1>4 DEF Takes
<1> QED
  BY <1>2, <1>3, <1>5

SetupOf(k) == [len |-> feed.init[k], ts |-> feed.last, flavor |-> "setup"]

LEMMA SetupIs ==
  ASSUME feed \in Feeds, NEW k \in Kinds
  PROVE  SetupOf(k) \in FeedMessages /\ feed.init[k] \in Nat
BY DEF SetupOf, Feeds, FeedMessages

LEMMA FeedSetupIsTyped ==
  ASSUME feed \in Feeds, NEW w \in Works, NEW k \in Kinds, w.player.chan[k] \in Channels
  PROVE  Feeding(FeedSetup(w, k), w, k)
<1> DEFINE msg == SetupOf(k)
           n == feed.init[k]
<1>1. msg \in FeedMessages /\ n \in Nat /\ 0 \in Nat /\ FALSE \in BOOLEAN
  BY SetupIs
<1>2. FeedSetup(w, k) = IF n = 0 THEN w ELSE FeedData(w, k, msg, 0, n, FALSE)
  BY DEF FeedSetup, SetupOf
<1>3. Feeding(w, w, k)
  BY DEF Feeding, Alike
<1> HIDE DEF msg, n
<1>4. Feeding(FeedData(w, k, msg, 0, n, FALSE), w, k)
  BY <1>1, FeedDataIsTyped
<1> QED
  BY <1>2, <1>3, <1>4

\* The player is not fed more than a chunk at once if it takes the chunks as they are.
LEMMA FeedSetupKeeps ==
  ASSUME feed \in Feeds, NEW w \in Works, NEW k \in Kinds, w.player.chan[k] \in Reservable,
         InTouch(w), Nothing(w, k), w.player.feeder = w.chunk => feed.init[k] <= w.chunk
  PROVE  LET x == FeedSetup(w, k)
         IN  /\ InTouch(x) /\ Nothing(x, k)
             /\ \A d \in Channels \ {w.player.chan[k]} : x.chan[d] = w.chan[d]
<1> DEFINE msg == SetupOf(k)
           n == feed.init[k]
           y == FeedData(w, k, msg, 0, n, FALSE)
           x == FeedSetup(w, k)
<1>1. msg \in FeedMessages /\ n \in Nat /\ 0 \in Nat /\ FALSE \in BOOLEAN
  BY SetupIs
<1>2. x = IF n = 0 THEN w ELSE y
  BY DEF FeedSetup, SetupOf
<1>3. msg.len = n /\ msg.flavor = "setup"
  BY DEF SetupOf
<1>4. w.player.chan[k] \in Channels
  BY ChannelsAre
<1>5. CASE n = 0 \/ w.player.paused
  <2>1. x = w
    BY <1>2, <1>5 DEF FeedData
  <2> HIDE DEF x
  <2>2. InTouch(x) /\ Nothing(x, k) /\ \A d \in Channels \ {w.player.chan[k]} : x.chan[d] = w.chan[d]
    BY <2>1
  <2> QED
    BY <2>2 DEF x
<1>6. CASE n # 0 /\ ~w.player.paused
  <2>1. w.chunk \in Nat \ {0}
    <3>1. w.chunk \in Sizes /\ \A z \in Sizes : z \in Nat \ {0}
      BY Parameters, WorkFields
    <3> QED
      BY <3>1
  <2>2. w.player.feeder = w.chunk => n = Least(msg.len - 0, w.chunk)
    <3> SUFFICES ASSUME w.player.feeder = w.chunk PROVE n = Least(n - 0, w.chunk)
      BY <1>3
    <3>1. n <= w.chunk /\ n - 0 = n
      BY <1>1
    <3> HIDE DEF n
    <3> QED
      BY <1>1, <2>1, <3>1 DEF Least
  <2>3. 0 + n = n /\ n <= n
    BY <1>1
  <2> HIDE DEF n, msg
  <2>4. Timely(w, k, msg, 0, n)
    BY <1>3, <2>2, <2>3 DEF Timely
  <2>5. Has(w, k, msg.len, 0)
    BY NothingHas
  <2> HIDE DEF y
  <2>6. Fed(y, w, k, msg.len, 0 + n)
    BY <1>1, <1>6, <2>4, <2>5, FeedDataKeeps DEF y
  <2>7. /\ InTouch(y) /\ \A d \in Channels \ {w.player.chan[k]} : y.chan[d] = w.chan[d]
        /\ Has(y, k, 0, 0)
    BY <1>3, <2>3, <2>6 DEF Fed
  <2>8. y.player.first[k]
    BY <1>1, <1>3, <1>4, FirstStays DEF y, Nothing
  <2>9. Feeding(y, w, k)
    BY <1>1, <1>4, FeedDataIsTyped DEF y
  <2>10. y \in Works /\ y.player.chan[k] \in Channels
    BY <1>4, <2>9 DEF Feeding, Alike
  <2>11. Forwarded(y, k) = 0
    BY <2>7 DEF Has
  <2>12. y.chan[y.player.chan[k]].proc = 0 /\ y.player.bucket[k] = <<>>
    BY <2>10, <2>11, NothingForwarded
  <2>13. Nothing(y, k)
    BY <2>8, <2>12 DEF Nothing
  <2>14. x = y
    BY <1>2, <1>6
  <2> HIDE DEF x
  <2>15. InTouch(x) /\ Nothing(x, k) /\ \A d \in Channels \ {w.player.chan[k]} : x.chan[d] = w.chan[d]
    BY <2>7, <2>13, <2>14
  <2> QED
    BY <2>15 DEF x
<1> QED
  BY <1>5, <1>6

\* The player takes the chunks of the publisher.
Introduced(w) == [w EXCEPT !.player.attached = TRUE, !.player.feeder = feed.size]

LEMMA IntroducedIs ==
  ASSUME feed \in Feeds, NEW w \in Works
  PROVE  LET x == Introduced(w)
         IN  /\ x \in Works /\ x.chan = w.chan /\ x.chunk = w.chunk /\ x.peer = w.peer
             /\ x.player.open = w.player.open /\ x.player.attached = TRUE
             /\ x.player.paused = w.player.paused /\ x.player.si = w.player.si
             /\ x.player.feeder = feed.size /\ x.player.chan = w.player.chan
             /\ x.player.spare = w.player.spare /\ x.player.first = w.player.first
             /\ x.player.dropped = w.player.dropped /\ x.player.bucket = w.player.bucket
<1> DEFINE pl == w.player
           size == feed.size
           a == [pl EXCEPT !.attached = TRUE]
           q == [a EXCEPT !.feeder = size]
           x == Introduced(w)
<1>1. pl \in Players /\ size \in Sizes
  BY WorkFields DEF Feeds
<1>2. x = [w EXCEPT !.player = q]
  BY DEF Introduced
<1> HIDE DEF x, pl, size
<1>3. /\ a \in Players /\ a.attached = TRUE
      /\ a.open = pl.open /\ a.paused = pl.paused /\ a.si = pl.si /\ a.chan = pl.chan
      /\ a.spare = pl.spare /\ a.first = pl.first /\ a.dropped = pl.dropped
      /\ a.bucket = pl.bucket
  BY <1>1 DEF Players
<1> HIDE DEF a
<1>4. /\ q \in Players /\ q.attached = TRUE /\ q.feeder = size
      /\ q.open = pl.open /\ q.paused = pl.paused /\ q.si = pl.si /\ q.chan = pl.chan
      /\ q.spare = pl.spare /\ q.first = pl.first /\ q.dropped = pl.dropped
      /\ q.bucket = pl.bucket
  BY <1>1, <1>3 DEF Players
<1> HIDE DEF q
<1>5. x \in Works /\ x.player = q /\ x.chan = w.chan /\ x.chunk = w.chunk /\ x.peer = w.peer
  BY <1>2, <1>4, PlayerIsSet
<1> QED
  BY <1>4, <1>5 DEF x, pl, size

\* It is told that the stream begins.
Begun(w) == SendUserControl(w)
Started(w) == SendStatus(SendStatus(w, "invoke", 0, TRUE), "notify", 0, TRUE)
Greeted(w) ==
  LET started == Started(Begun(w))
  IN  IF feed.init["video"] = 0 THEN started ELSE SendStatus(started, "notify", 0, FALSE)

LEMMA StartedTells ==
  ASSUME NEW w \in Works, w.player.chan["audio"] \in Reservable
  PROVE  Tells(Started(w), w)
<1> DEFINE x == SendStatus(w, "invoke", 0, TRUE)
<1>1. 0 \in Times /\ TRUE \in BOOLEAN /\ {"invoke", "notify"} = {"invoke", "notify"}
  BY Parameters DEF Times
<1>2. Tells(x, w)
  BY <1>1, StatusTells
<1> HIDE DEF x
<1>3. x \in Works /\ x.player.chan["audio"] \in Reservable
  BY <1>2 DEF Tells
<1>4. Tells(SendStatus(x, "notify", 0, TRUE), x)
  BY <1>1, <1>3, StatusTells
<1>5. Started(w) = SendStatus(x, "notify", 0, TRUE)
  BY DEF Started, x
<1> QED
  BY <1>2, <1>4, <1>5, TellsAgain

LEMMA GreetedTells ==
  ASSUME NEW w \in Works, w.player.chan["audio"] \in Reservable
  PROVE  Tells(Greeted(w), w)
<1> DEFINE x == Begun(w)
           y == Started(x)
           z == SendStatus(y, "notify", 0, FALSE)
<1>1. Tells(x, w)
  BY UserControlTells DEF Begun
<1>2. Greeted(w) = y \/ Greeted(w) = z
  BY DEF Greeted
<1> HIDE DEF x
<1>3. x \in Works /\ x.player.chan["audio"] \in Reservable
  BY <1>1 DEF Tells
<1>4. Tells(y, x)
  BY <1>3, StartedTells
<1> HIDE DEF y
<1>5. y \in Works /\ y.player.chan["audio"] \in Reservable
  BY <1>3, <1>4 DEF Tells
<1>6. 0 \in Times /\ FALSE \in BOOLEAN
  BY Parameters DEF Times
<1>7. Tells(z, y)
  BY <1>5, <1>6, StatusTells
<1> HIDE DEF z
<1>8. Tells(y, w)
  BY <1>1, <1>4, TellsAgain
<1>9. Tells(z, w)
  BY <1>7, <1>8, TellsAgain
<1> QED
  BY <1>2, <1>8, <1>9

\* It gets the codec setups.
SetUp(w) == FeedSetup(FeedSetup(w, "video"), "audio")

LEMMA SetUpIsTyped ==
  ASSUME feed \in Feeds, NEW w \in Works, Seated(w.player), BucketsSmall(w)
  PROVE  LET x == SetUp(w)
         IN  x \in Works /\ x.chunk = w.chunk /\ Alike(x.player, w.player) /\ BucketsSmall(x)
<1> DEFINE y == FeedSetup(w, "video")
           x == FeedSetup(y, "audio")
<1>1. "audio" \in Kinds /\ "video" \in Kinds
  BY DEF Kinds
<1>2. w.player.chan["video"] \in Channels /\ w.player.chan["audio"] \in Channels
  BY ChannelsAre DEF Seated
<1>3. Feeding(y, w, "video")
  BY <1>1, <1>2, FeedSetupIsTyped
<1>4. BucketsSmall(y)
  BY <1>1, <1>3, FeedingIsSmall
<1> HIDE DEF y
<1>5. y \in Works /\ y.player.chan["audio"] \in Channels
  BY <1>2, <1>3 DEF Feeding, Alike
<1>6. Feeding(x, y, "audio")
  BY <1>1, <1>5, FeedSetupIsTyped
<1>7. BucketsSmall(x)
  BY <1>1, <1>4, <1>6, FeedingIsSmall
<1> HIDE DEF x
<1>8. x \in Works /\ x.chunk = w.chunk /\ Alike(x.player, w.player)
  BY <1>3, <1>6 DEF Feeding, Alike
<1> QED
  BY <1>7, <1>8 DEF SetUp, x, y

LEMMA SetUpKeeps ==
  ASSUME feed \in Feeds, NEW w \in Works, Seated(w.player), InTouch(w),
         \A k \in Kinds : Nothing(w, k),
         \A k \in Kinds : w.player.feeder = w.chunk => feed.init[k] <= w.chunk
  PROVE  LET x == SetUp(w)
         IN  InTouch(x) /\ \A k \in Kinds : Nothing(x, k)
<1> DEFINE y == FeedSetup(w, "video")
           x == FeedSetup(y, "audio")
           a == w.player.chan["audio"]
           v == w.player.chan["video"]
<1>1. /\ "audio" \in Kinds /\ "video" \in Kinds /\ a \in Reservable /\ v \in Reservable /\ a # v
      /\ a \in Channels /\ v \in Channels
  BY ChannelsAre DEF Kinds, Seated
<1>2. Feeding(y, w, "video")
  BY <1>1, FeedSetupIsTyped
<1>3. InTouch(y) /\ Nothing(y, "video") /\ \A d \in Channels \ {v} : y.chan[d] = w.chan[d]
  BY <1>1, FeedSetupKeeps
<1>4. Nothing(w, "audio")
  BY <1>1
<1> HIDE DEF y
<1>5. /\ y \in Works /\ y.player.chan = w.player.chan /\ y.player.feeder = w.player.feeder
      /\ y.chunk = w.chunk
      /\ y.player.first["audio"] = w.player.first["audio"]
      /\ y.player.bucket["audio"] = w.player.bucket["audio"]
  BY <1>2 DEF Feeding, Alike, Kinds
<1>6. y.chan[a] = w.chan[a]
  BY <1>1, <1>3
<1>7. Nothing(y, "audio")
  BY <1>4, <1>5, <1>6 DEF Nothing
<1>8. y.player.feeder = y.chunk => feed.init["audio"] <= y.chunk
  BY <1>1, <1>5
<1>9. y.player.chan["audio"] = a /\ a \in Reservable /\ a \in Channels
  BY <1>1, <1>5
<1>10. Feeding(x, y, "audio")
  BY <1>1, <1>5, <1>9, FeedSetupIsTyped
<1>11. InTouch(x) /\ Nothing(x, "audio") /\ \A d \in Channels \ {a} : x.chan[d] = y.chan[d]
  <2> DEFINE k == "audio"
  <2>1. k \in Kinds /\ y.player.chan[k] \in Reservable /\ Nothing(y, k)
        /\ (y.player.feeder = y.chunk => feed.init[k] <= y.chunk)
    BY <1>1, <1>7, <1>8, <1>9
  <2> HIDE DEF k
  <2>2. /\ InTouch(FeedSetup(y, k)) /\ Nothing(FeedSetup(y, k), k)
        /\ \A d \in Channels \ {y.player.chan[k]} : FeedSetup(y, k).chan[d] = y.chan[d]
    BY <1>3, <1>5, <2>1, FeedSetupKeeps
  <2> QED
    BY <1>9, <2>2 DEF k
<1> HIDE DEF x
<1>12. x.player.chan = y.player.chan /\ x.player.first["video"] = y.player.first["video"]
       /\ x.player.bucket["video"] = y.player.bucket["video"]
  BY <1>10 DEF Feeding, Alike, Kinds
<1>13. x.chan[v] = y.chan[v]
  BY <1>1, <1>11
<1>14. Nothing(x, "video")
  BY <1>3, <1>5, <1>12, <1>13 DEF Nothing
<1>15. InTouch(x) /\ \A k \in Kinds : Nothing(x, k)
  BY <1>11, <1>14 DEF Kinds
<1> QED
  BY <1>15 DEF SetUp, x, y

\* x is w with its player attached.
Joined(x, w) ==
  /\ x \in Works /\ x.chunk = w.chunk
  /\ x.player.open = w.player.open /\ x.player.attached = TRUE
  /\ x.player.paused = w.player.paused /\ x.player.si = w.player.si
  /\ x.player.feeder = feed.size /\ x.player.chan = w.player.chan
  /\ x.player.spare = w.player.spare /\ BucketsSmall(x)

LEMMA AttachIs ==
  ASSUME feed \in Feeds, NEW w \in Works, Seated(w.player), Unfed(w.player), NEW told \in BOOLEAN
  PROVE  LET x == Attach(w, told)
         IN  /\ Joined(x, w)
             /\ InTouch(w) /\ (\A k \in Kinds : feed.size = w.chunk => feed.init[k] <= w.chunk) =>
                  InTouch(x) /\ \A k \in Kinds : Nothing(x, k)
<1> DEFINE w0 == Introduced(w)
           w1 == Abort(Abort(w0, "audio"), "video")
           w5 == Greeted(w1)
           w7 == SetUp(w5)
           w8 == SendMessage(w7, Commands, CommandHeader("invoke", w.player.si, 0, FALSE), 0)
           x == Attach(w, told)
           a == w.player.chan["audio"]
           v == w.player.chan["video"]
<1>1. x = IF told THEN w8 ELSE w7
  BY DEF Attach, Told, Described, Introduced, Greeted, Begun, Started, SetUp
<1> HIDE DEF x
<1>2. /\ w0 \in Works /\ w0.chan = w.chan /\ w0.chunk = w.chunk /\ w0.peer = w.peer
      /\ w0.player.open = w.player.open /\ w0.player.attached = TRUE
      /\ w0.player.paused = w.player.paused /\ w0.player.si = w.player.si
      /\ w0.player.feeder = feed.size /\ w0.player.chan = w.player.chan
      /\ w0.player.spare = w.player.spare /\ w0.player.first = w.player.first
      /\ w0.player.bucket = w.player.bucket
  BY IntroducedIs
<1> HIDE DEF w0
<1>3. Seated(w0.player)
  BY <1>2 DEF Seated
<1>4. /\ w1 \in Works /\ w1.chunk = w.chunk /\ w1.player = w0.player
      /\ InTouch(w0) => InTouch(w1) /\ \A k \in Kinds : w1.chan[w0.player.chan[k]].proc = 0
  BY <1>2, <1>3, AbortsKeep
<1> HIDE DEF w1
<1>5. w1.player.chan["audio"] \in Reservable
  BY <1>3, <1>4 DEF Seated
<1>6. Tells(w5, w1)
  BY <1>4, <1>5, GreetedTells
<1> HIDE DEF w5
<1>7. w5 \in Works /\ w5.chunk = w.chunk /\ w5.player = w0.player
  BY <1>4, <1>6 DEF Tells
<1>8. Seated(w5.player)
  BY <1>3, <1>7
<1>9. \A k \in Kinds : w5.player.first[k] = TRUE /\ w5.player.bucket[k] = <<>>
  BY <1>2, <1>7 DEF Unfed, NoPlayer
<1>10. BucketsSmall(w5)
  <2>1. w5.chunk \in Sizes /\ \A z \in Sizes : z \in Nat \ {0}
    BY <1>7, WorkFields, Parameters
  <2>2. \A k \in Kinds : Len(w5.player.bucket[k]) = 0
    BY <1>9
  <2> QED
    BY <2>1, <2>2 DEF BucketsSmall
<1>11. w7 \in Works /\ w7.chunk = w5.chunk /\ Alike(w7.player, w5.player) /\ BucketsSmall(w7)
  BY <1>7, <1>8, <1>10, SetUpIsTyped
<1>12. ASSUME InTouch(w), \A k \in Kinds : feed.size = w.chunk => feed.init[k] <= w.chunk
       PROVE  InTouch(w7) /\ \A k \in Kinds : Nothing(w7, k)
  <2>1. InTouch(w0)
    BY <1>2, <1>12 DEF InTouch, Touches
  <2>2. InTouch(w1) /\ w1.player.chan = w.player.chan
        /\ \A k \in Kinds : w1.chan[w.player.chan[k]].proc = 0
    BY <1>2, <1>4, <2>1
  <2>3. "audio" \in Kinds /\ "video" \in Kinds /\ v \in Reservable /\ a # v
    BY DEF Kinds, Seated
  <2>4. InTouch(w5) /\ w5.chan[a].proc = 0 /\ w5.chan[v] = w1.chan[v]
    BY <1>6, <2>2, <2>3 DEF Tells
  <2>5. \A k \in Kinds : w5.chan[w.player.chan[k]].proc = 0
    BY <2>2, <2>3, <2>4 DEF Kinds
  <2>6. \A k \in Kinds : Nothing(w5, k)
    BY <1>2, <1>7, <1>9, <2>5 DEF Nothing
  <2>7. \A k \in Kinds : w5.player.feeder = w5.chunk => feed.init[k] <= w5.chunk
    BY <1>2, <1>7, <1>12
  <2> QED
    BY <1>7, <1>8, <2>4, <2>6, <2>7, SetUpKeeps
<1> HIDE DEF w7
<1>13. /\ w7.chunk = w.chunk
       /\ w7.player.open = w.player.open /\ w7.player.attached = TRUE
       /\ w7.player.paused = w.player.paused /\ w7.player.si = w.player.si
       /\ w7.player.feeder = feed.size /\ w7.player.chan = w.player.chan
       /\ w7.player.spare = w.player.spare
  BY <1>2, <1>7, <1>11 DEF Alike
<1>14. Joined(w7, w)
  BY <1>11, <1>13 DEF Joined
<1>15. Tells(w8, w7)
  <2>1. w.player.si \in Ids /\ w7.player.chan["audio"] \in Reservable /\ FALSE \in BOOLEAN
    BY <1>13, WorkFields, PlayerFields DEF Seated
  <2> DEFINE si == w.player.si
  <2> HIDE DEF si
  <2>2. si \in Ids
    BY <2>1 DEF si
  <2>3. Tells(SendMessage(w7, Commands, CommandHeader("invoke", si, 0, FALSE), 0), w7)
    BY <1>11, <2>1, <2>2, CommandTells
  <2> QED
    BY <2>3 DEF si
<1> HIDE DEF w8
<1>16. w8 \in Works /\ w8.chunk = w7.chunk /\ w8.player = w7.player
  BY <1>15 DEF Tells
<1>17. Joined(w8, w)
  BY <1>14, <1>16 DEF Joined, BucketsSmall
<1>18. ASSUME InTouch(w7), \A k \in Kinds : Nothing(w7, k)
       PROVE  InTouch(w8) /\ \A k \in Kinds : Nothing(w8, k)
  <2>1. "audio" \in Kinds /\ "video" \in Kinds /\ v \in Reservable /\ a # v
    BY DEF Kinds, Seated
  <2>2. w7.chan[a].proc = 0 /\ w7.chan[v].proc = 0
    BY <1>13, <1>18, <2>1 DEF Nothing
  <2>3. InTouch(w8) /\ w8.chan[a].proc = 0 /\ w8.chan[v].proc = 0
    BY <1>13, <1>15, <1>18, <2>1, <2>2 DEF Tells
  <2>4. \A k \in Kinds : w8.chan[w.player.chan[k]].proc = 0
    BY <2>3 DEF Kinds
  <2> QED
    BY <1>13, <1>16, <1>18, <2>3, <2>4 DEF Nothing
<1>19. Joined(x, w)
  BY <1>1, <1>14, <1>17
<1>20. InTouch(w) /\ (\A k \in Kinds : feed.size = w.chunk => feed.init[k] <= w.chunk) =>
         InTouch(x) /\ \A k \in Kinds : Nothing(x, k)
  BY <1>1, <1>12, <1>18
<1> QED
  BY <1>19, <1>20 DEF x

-----------------------------------------------------------------------------
(* A player forgets what it had of the messages. *)

\* q is pl, but for what it had.
Keeps(q, pl) ==
  /\ q.open = pl.open /\ q.paused = pl.paused /\ q.si = pl.si /\ q.chan = pl.chan
  /\ q.spare = pl.spare

LEMMA NoPlayerIs ==
  /\ NoPlayer \in Players /\ Unfed(NoPlayer)
  /\ NoPlayer.first \in [Kinds -> BOOLEAN] /\ NoPlayer.dropped \in [Kinds -> BOOLEAN]
  /\ NoPlayer.ts \in [Kinds -> Times] /\ NoPlayer.bucket \in [Kinds -> Seq(ByteTokens)]
  /\ \A k \in Kinds : NoPlayer.first[k] = TRUE /\ NoPlayer.bucket[k] = <<>>
<1>1. 0 \in Times /\ 0 \in Ids
  BY Parameters DEF Times, Ids
<1>2. <<>> \in Seq(ByteTokens)
  OBVIOUS
<1>3. NoPlayer \in Players
  BY <1>1, <1>2 DEF NoPlayer, Players, NoDelta
<1>4. Unfed(NoPlayer)
  BY DEF Unfed, NoPlayer
<1>5. \A k \in Kinds : NoPlayer.first[k] = TRUE /\ NoPlayer.bucket[k] = <<>>
  BY DEF NoPlayer
<1> QED
  BY <1>3, <1>4, <1>5, PlayerFields

LEMMA ResetIs ==
  ASSUME NEW pl \in Players
  PROVE  LET q == Reset(pl)
         IN  /\ q \in Players /\ Keeps(q, pl) /\ Unfed(q)
             /\ q.attached = pl.attached /\ q.feeder = pl.feeder
<1> DEFINE first == NoPlayer.first
           dropped == NoPlayer.dropped
           ts == NoPlayer.ts
           bucket == NoPlayer.bucket
           q == [open |-> pl.open, attached |-> pl.attached, paused |-> pl.paused, si |-> pl.si,
                 feeder |-> pl.feeder, delta |-> NoDelta, seek |-> 0,
                 chan |-> pl.chan, spare |-> pl.spare, first |-> first,
                 dropped |-> dropped, ts |-> ts, bucket |-> bucket]
<1>1. /\ first \in [Kinds -> BOOLEAN] /\ dropped \in [Kinds -> BOOLEAN]
      /\ ts \in [Kinds -> Times] /\ bucket \in [Kinds -> Seq(ByteTokens)]
  BY NoPlayerIs
<1>2. Reset(pl) = [pl EXCEPT !.delta = NoDelta, !.seek = 0, !.first = first,
                             !.dropped = dropped, !.ts = ts, !.bucket = bucket]
  BY DEF Reset
<1> HIDE DEF first, dropped, ts, bucket
<1>3. Reset(pl) = q
  BY <1>2 DEF Players
<1>4. q \in Players
  <2>1. 0 \in Times /\ NoDelta \in Nat \cup {NoDelta}
    BY Parameters DEF Times
  <2> QED
    BY <1>1, <2>1 DEF Players
<1>5. Unfed(q)
  BY DEF Unfed, first, dropped, bucket
<1>6. Keeps(q, pl) /\ q.attached = pl.attached /\ q.feeder = pl.feeder
  BY DEF Keeps
<1> QED
  BY <1>3, <1>4, <1>5, <1>6

\* Of a player that was reset, a bucket holds nothing.
LEMMA UnfedIs ==
  ASSUME NEW w \in Works, Unfed(w.player)
  PROVE  /\ BucketsSmall(w)
         /\ \A k \in Kinds : w.player.first[k] = TRUE /\ w.player.bucket[k] = <<>>
<1>1. \A k \in Kinds : w.player.first[k] = TRUE /\ w.player.bucket[k] = <<>>
  BY NoPlayerIs DEF Unfed
<1>2. w.chunk \in Sizes /\ \A z \in Sizes : z \in Nat \ {0}
  BY WorkFields, Parameters
<1>3. \A k \in Kinds : Len(w.player.bucket[k]) = 0
  BY <1>1
<1> QED
  BY <1>1, <1>2, <1>3 DEF BucketsSmall

\* x is w without what the player had, on the same wire.
Forgets(x, w) ==
  /\ x \in Works /\ x.chunk = w.chunk /\ Keeps(x.player, w.player) /\ Unfed(x.player)
  /\ x.chan = w.chan /\ x.peer = w.peer

LEMMA DetachedIs ==
  ASSUME NEW w \in Works
  PROVE  LET x == [w EXCEPT !.player = Reset([@ EXCEPT !.attached = FALSE, !.feeder = 0])]
         IN  Forgets(x, w) /\ x.player.attached = FALSE
<1> DEFINE pl == w.player
           a == [pl EXCEPT !.attached = FALSE]
           b == [a EXCEPT !.feeder = 0]
           q == Reset(b)
           x == [w EXCEPT !.player = q]
<1>1. pl \in Players
  BY WorkFields
<1>2. x = [w EXCEPT !.player = Reset([@ EXCEPT !.attached = FALSE, !.feeder = 0])]
  OBVIOUS
<1> HIDE DEF x, pl
<1>3. a \in Players /\ a.attached = FALSE /\ Keeps(a, pl)
  BY <1>1 DEF Players, Keeps
<1> HIDE DEF a
<1>4. b \in Players /\ b.attached = FALSE /\ Keeps(b, pl)
  BY <1>3 DEF Players, Keeps
<1> HIDE DEF b
<1>5. q \in Players /\ Keeps(q, b) /\ Unfed(q) /\ q.attached = b.attached
  BY <1>4, ResetIs
<1> HIDE DEF q
<1>6. x \in Works /\ x.player = q /\ x.chan = w.chan /\ x.chunk = w.chunk /\ x.peer = w.peer
  BY <1>5, PlayerIsSet DEF x
<1>7. Forgets(x, w) /\ x.player.attached = FALSE
  BY <1>4, <1>5, <1>6 DEF Forgets, Keeps, pl
<1> QED
  BY <1>2, <1>7

LEMMA SoughtIs ==
  ASSUME NEW w \in Works, NEW offset \in Times
  PROVE  LET x == [w EXCEPT !.player = [Reset(@) EXCEPT !.seek = offset]]
         IN  Forgets(x, w) /\ x.player.attached = w.player.attached
                           /\ x.player.feeder = w.player.feeder
<1> DEFINE pl == w.player
           a == Reset(pl)
           q == [a EXCEPT !.seek = offset]
           x == [w EXCEPT !.player = q]
<1>1. pl \in Players
  BY WorkFields
<1>2. x = [w EXCEPT !.player = [Reset(@) EXCEPT !.seek = offset]]
  OBVIOUS
<1> HIDE DEF x, pl
<1>3. a \in Players /\ Keeps(a, pl) /\ Unfed(a) /\ a.attached = pl.attached /\ a.feeder = pl.feeder
  BY <1>1, ResetIs
<1> HIDE DEF a
<1>4. q \in Players /\ Keeps(q, pl) /\ Unfed(q) /\ q.attached = pl.attached /\ q.feeder = pl.feeder
  BY <1>3 DEF Players, Keeps, Unfed
<1> HIDE DEF q
<1>5. x \in Works /\ x.player = q /\ x.chan = w.chan /\ x.chunk = w.chunk /\ x.peer = w.peer
  BY <1>4, PlayerIsSet DEF x
<1>6. Forgets(x, w) /\ x.player.attached = w.player.attached /\ x.player.feeder = w.player.feeder
  BY <1>4, <1>5 DEF Forgets, pl
<1> QED
  BY <1>2, <1>6

\* What a seek and the end of the publication say first.
LEMMA DetachIs ==
  ASSUME NEW w \in Works, w.player.chan["audio"] \in Reservable
  PROVE  LET x == Detach(w)
         IN  /\ x \in Works /\ x.chunk = w.chunk /\ Keeps(x.player, w.player)
             /\ Unfed(x.player) /\ x.player.attached = FALSE
             /\ InTouch(w) /\ w.chan[w.player.chan["audio"]].proc = 0 => InTouch(x)
<1> DEFINE y == SendStatus(w, "invoke", 0, TRUE)
           z == SendStatus(y, "invoke", 0, FALSE)
           u == SendUserControl(z)
           x == [u EXCEPT !.player = Reset([@ EXCEPT !.attached = FALSE, !.feeder = 0])]
<1>1. 0 \in Times /\ TRUE \in BOOLEAN /\ FALSE \in BOOLEAN
  BY Parameters DEF Times
<1>2. Tells(y, w)
  BY <1>1, StatusTells
<1>3. Detach(w) = x
  BY DEF Detach
<1> HIDE DEF y
<1>4. y \in Works /\ y.player.chan["audio"] \in Reservable
  BY <1>2 DEF Tells
<1>5. Tells(z, y)
  BY <1>1, <1>4, StatusTells
<1> HIDE DEF z
<1>6. z \in Works /\ z.player.chan["audio"] \in Reservable
  BY <1>4, <1>5 DEF Tells
<1>7. Tells(u, z)
  BY <1>6, UserControlTells
<1> HIDE DEF u
<1>8. Tells(u, w)
  BY <1>2, <1>5, <1>7, TellsAgain
<1>9. u \in Works
  BY <1>7 DEF Tells
<1>10. Forgets(x, u) /\ x.player.attached = FALSE
  BY <1>9, DetachedIs
<1> HIDE DEF x
<1>11. InTouch(u) => InTouch(x)
  BY <1>10 DEF InTouch, Touches, Forgets
<1>12. /\ x \in Works /\ x.chunk = w.chunk /\ Keeps(x.player, w.player)
       /\ Unfed(x.player) /\ x.player.attached = FALSE
       /\ InTouch(w) /\ w.chan[w.player.chan["audio"]].proc = 0 => InTouch(x)
  BY <1>8, <1>10, <1>11 DEF Forgets, Tells
<1> QED
  BY <1>3, <1>12

LEMMA SeekToIs ==
  ASSUME NEW w \in Works, w.player.chan["audio"] \in Reservable, NEW offset \in Times
  PROVE  LET x == SeekTo(w, offset)
             a == w.player.chan["audio"]
         IN  /\ x \in Works /\ x.chunk = w.chunk /\ Keeps(x.player, w.player)
             /\ Unfed(x.player) /\ x.player.attached = w.player.attached
             /\ x.player.feeder = w.player.feeder
             /\ InTouch(w) /\ w.chan[a].proc = 0 =>
                  /\ InTouch(x) /\ x.chan[a].proc = 0
                  /\ \A d \in Reservable \ {a} : x.chan[d] = w.chan[d]
<1> DEFINE y == SendUserControl(w)
           z == SendStatus(y, "invoke", offset, TRUE)
           t == SendStatus(z, "invoke", 0, FALSE)
           u == SendStatus(t, "notify", 0, FALSE)
           x == [u EXCEPT !.player = [Reset(@) EXCEPT !.seek = offset]]
<1>1. 0 \in Times /\ TRUE \in BOOLEAN /\ FALSE \in BOOLEAN
  BY Parameters DEF Times
<1>2. Tells(y, w)
  BY UserControlTells
<1>3. SeekTo(w, offset) = x
  BY DEF SeekTo
<1> HIDE DEF y
<1>4. y \in Works /\ y.player.chan["audio"] \in Reservable
  BY <1>2 DEF Tells
<1>5. Tells(z, y)
  BY <1>1, <1>4, StatusTells
<1> HIDE DEF z
<1>6. z \in Works /\ z.player.chan["audio"] \in Reservable
  BY <1>4, <1>5 DEF Tells
<1>7. Tells(t, z)
  BY <1>1, <1>6, StatusTells
<1> HIDE DEF t
<1>8. t \in Works /\ t.player.chan["audio"] \in Reservable
  BY <1>6, <1>7 DEF Tells
<1>9. Tells(u, t)
  BY <1>1, <1>8, StatusTells
<1> HIDE DEF u
<1>10. Tells(u, w)
  BY <1>2, <1>5, <1>7, <1>9, TellsAgain
<1>11. u \in Works
  BY <1>9 DEF Tells
<1>12. Forgets(x, u) /\ x.player.attached = u.player.attached /\ x.player.feeder = u.player.feeder
  BY <1>11, SoughtIs
<1> HIDE DEF x
<1>13. InTouch(u) => InTouch(x)
  BY <1>12 DEF InTouch, Touches, Forgets
<1>14. /\ x \in Works /\ x.chunk = w.chunk /\ Keeps(x.player, w.player)
       /\ Unfed(x.player) /\ x.player.attached = w.player.attached
       /\ x.player.feeder = w.player.feeder
  BY <1>10, <1>12 DEF Forgets, Tells
<1>15. ASSUME InTouch(w), w.chan[w.player.chan["audio"]].proc = 0
       PROVE  /\ InTouch(x) /\ x.chan[w.player.chan["audio"]].proc = 0
              /\ \A d \in Reservable \ {w.player.chan["audio"]} : x.chan[d] = w.chan[d]
  BY <1>10, <1>12, <1>13, <1>15 DEF Forgets, Tells
<1> QED
  BY <1>3, <1>14, <1>15

-----------------------------------------------------------------------------
(* The handlers. *)

LEMMA FieldsAre ==
  Work.chan = out /\ Work.chunk = outChunk /\ Work.player = player /\ Work.peer = peer
BY DEF Work

\* What a handler commits.
LEMMA NextIs ==
  ASSUME NEW x \in Works, Commit(x), Sound(x, feed', pool'), plays' \in 0 .. MaxPlays,
         cut' \in BOOLEAN, ~cut' => Sync(x, feed')
  PROVE  IInv'
BY CommitIs DEF IInv, Types

\* The player of a work that is sound has its channels.
LEMMA SoundSeats ==
  ASSUME NEW w, NEW f, NEW free, Sound(w, f, free), w.player.open
  PROVE  /\ Seated(w.player) /\ w.player.chan["audio"] \in Reservable
         /\ \A k \in Kinds : w.player.chan[k] \in Reservable /\ w.player.chan[k] \in Channels
BY ChannelsAre DEF Sound, ChannelsHeld, Seated, Kinds

\* What the player keeps of its place.
Sits(q, pl) ==
  /\ q.open = pl.open /\ q.chan = pl.chan /\ q.spare = pl.spare
  /\ q.attached = pl.attached /\ q.feeder = pl.feeder

LEMMA StillSound ==
  ASSUME NEW w, NEW x \in Works, NEW f, NEW free, Sound(w, f, free), w.chunk <= x.chunk,
         Sits(x.player, w.player), BucketsSmall(x), ~w.player.attached => Unfed(x.player)
  PROVE  Sound(x, f, free)
<1>1. w \in Works /\ f \in Feeds /\ ChannelsHeld(w.player, free) /\ Fits(w, f)
  BY DEF Sound
<1>2. ChannelsHeld(x.player, free)
  BY <1>1 DEF ChannelsHeld, Sits
<1>3. Fits(x, f)
  <2>1. w.chunk \in Nat /\ x.chunk \in Nat /\ f.size \in Nat
    <3>1. w.chunk \in Sizes /\ x.chunk \in Sizes /\ f.size \in Sizes
      BY <1>1, WorkFields DEF Feeds
    <3>2. \A z \in Sizes : z \in Nat
      BY Parameters
    <3> QED
      BY <3>1, <3>2
  <2>2. f.size <= w.chunk => f.size <= x.chunk
    BY <2>1
  <2> QED
    BY <1>1, <2>2 DEF Fits, Sits
<1> QED
  BY <1>1, <1>2, <1>3 DEF Sound

\* A message on the side changes nothing for the player.
LEMMA SameSound ==
  ASSUME NEW w, NEW x \in Works, NEW f, NEW free, Sound(w, f, free), w.chunk <= x.chunk,
         x.player = w.player
  PROVE  Sound(x, f, free)
<1>1. w \in Works /\ BucketsSmall(w) /\ Fits(w, f)
  BY DEF Sound
<1>2. BucketsSmall(x)
  <2> SUFFICES ASSUME NEW k \in Kinds PROVE Len(w.player.bucket[k]) < x.chunk
    BY DEF BucketsSmall
  <2> DEFINE l == Len(w.player.bucket[k])
  <2>1. l < w.chunk
    BY <1>1 DEF BucketsSmall
  <2>2. w.chunk \in Nat /\ x.chunk \in Nat
    <3>1. w.chunk \in Sizes /\ x.chunk \in Sizes
      BY <1>1, WorkFields
    <3>2. \A z \in Sizes : z \in Nat
      BY Parameters
    <3> QED
      BY <3>1, <3>2
  <2>3. l \in Nat
    <3>1. w.player.bucket[k] \in Seq(ByteTokens)
      BY <1>1, WorkFields, PlayerFields
    <3> QED
      BY <3>1
  <2> HIDE DEF l
  <2>4. l < x.chunk
    BY <2>1, <2>2, <2>3
  <2> QED
    BY <2>4 DEF l
<1>3. Sits(x.player, w.player)
  BY DEF Sits
<1>4. ~w.player.attached => Unfed(x.player)
  BY <1>1 DEF Fits
<1> QED
  BY <1>2, <1>3, <1>4, StillSound

\* The state is as it was.
LEMMA SizesCompare ==
  ASSUME NEW w \in Works
  PROVE  w.chunk \in Nat \ {0} /\ w.chunk <= w.chunk
<1>1. w.chunk \in Sizes /\ \A z \in Sizes : z \in Nat \ {0}
  BY WorkFields, Parameters
<1> QED
  BY <1>1

LEMMA WorkHolds ==
  ASSUME IInv
  PROVE  /\ Work \in Works /\ feed \in Feeds /\ Sound(Work, feed, pool)
         /\ plays \in 0 .. MaxPlays /\ cut \in BOOLEAN /\ (~cut => Sync(Work, feed))
BY DEF IInv, Types, Sound

LEMMA CommandSteps ==
  ASSUME IInv, NEW si \in CommandIds, NEW ia \in BOOLEAN, Command(si, ia)
  PROVE  IInv'
<1> DEFINE w == Work
           x == SendMessage(w, Commands, CommandHeader("invoke", si, 0, ia), 0)
<1>1. /\ w \in Works /\ Sound(w, feed, pool)
      /\ plays \in 0 .. MaxPlays /\ cut \in BOOLEAN /\ (~cut => Sync(w, feed))
  BY WorkHolds
<1>2. Commit(x) /\ pool' = pool /\ feed' = feed /\ plays' = plays /\ cut' = cut
  BY DEF Command
<1> HIDE DEF w
<1>3. si \in Ids /\ 0 \in Times /\ Commands \in Channels
  BY Parameters, ChannelsAre
<1>4. Said(x, w, Commands)
  BY <1>1, <1>3, CommandIsSaid
<1> HIDE DEF x
<1>5. x \in Works /\ x.chunk = w.chunk /\ x.player = w.player
  BY <1>4 DEF Said
<1>6. Sound(x, feed, pool)
  BY <1>1, <1>5, SizesCompare, SameSound
<1>7. ASSUME ~cut
      PROVE  Sync(x, feed)
  <2>1. Sync(w, feed)
    BY <1>1, <1>7
  <2>2. InTouch(w) /\ w.chan[Commands].proc = 0
    BY <2>1 DEF Sync, InTouch
  <2>3. InTouch(x) /\ \A d \in Channels \ {Commands} : x.chan[d] = w.chan[d]
    BY <1>4, <2>2 DEF Said
  <2>4. ASSUME w.player.attached /\ ~w.player.paused, NEW k \in Kinds
        PROVE  Has(x, k, feed.msg[k].len, feed.done[k])
    <3>1. w.player.open
      BY <1>1, <2>4 DEF Sound, Fits
    <3>2. w.player.chan[k] \in Reservable
      BY <1>1, <3>1, SoundSeats
    <3>3. x.chan[w.player.chan[k]] = w.chan[w.player.chan[k]]
      BY <2>3, <3>2, ChannelsAre
    <3>4. Has(w, k, feed.msg[k].len, feed.done[k])
      BY <2>1, <2>4 DEF Sync
    <3> QED
      BY <1>5, <3>3, <3>4, SameHas
  <2> QED
    BY <1>5, <2>3, <2>4 DEF Sync
<1>8. Sound(x, feed', pool') /\ plays' \in 0 .. MaxPlays /\ cut' \in BOOLEAN
      /\ (~cut' => Sync(x, feed'))
  BY <1>1, <1>2, <1>6, <1>7
<1> QED
  BY <1>2, <1>5, <1>8, NextIs

LEMMA PausedIs ==
  ASSUME NEW w \in Works, NEW b \in BOOLEAN
  PROVE  LET x == [w EXCEPT !.player.paused = b]
         IN  /\ x \in Works /\ x.chunk = w.chunk /\ x.chan = w.chan /\ x.peer = w.peer
             /\ Sits(x.player, w.player) /\ x.player.paused = b
             /\ x.player.bucket = w.player.bucket /\ x.player.first = w.player.first
             /\ (Unfed(w.player) => Unfed(x.player))
<1> DEFINE pl == w.player
           q == [pl EXCEPT !.paused = b]
           x == [w EXCEPT !.player = q]
<1>1. pl \in Players
  BY WorkFields
<1>2. x = [w EXCEPT !.player.paused = b]
  OBVIOUS
<1> HIDE DEF x, pl
<1>3. /\ q \in Players /\ q.paused = b /\ q.bucket = pl.bucket /\ q.first = pl.first
      /\ q.delta = pl.delta /\ q.dropped = pl.dropped /\ Sits(q, pl)
  BY <1>1 DEF Players, Sits
<1> HIDE DEF q
<1>4. x \in Works /\ x.player = q /\ x.chan = w.chan /\ x.chunk = w.chunk /\ x.peer = w.peer
  BY <1>3, PlayerIsSet DEF x
<1>5. Unfed(pl) => Unfed(q)
  BY <1>3 DEF Unfed
<1>6. /\ x \in Works /\ x.chunk = w.chunk /\ x.chan = w.chan /\ x.peer = w.peer
      /\ Sits(x.player, w.player) /\ x.player.paused = b
      /\ x.player.bucket = w.player.bucket /\ x.player.first = w.player.first
      /\ (Unfed(w.player) => Unfed(x.player))
  BY <1>3, <1>4, <1>5 DEF pl
<1> QED
  BY <1>2, <1>6

LEMMA PauseSteps ==
  ASSUME IInv, Pause
  PROVE  IInv'
<1> DEFINE w == Work
           a == w.player.chan["audio"]
           y == [w EXCEPT !.player.paused = TRUE]
           x == SendStatus(y, "invoke", 0, FALSE)
<1>1. /\ w \in Works /\ Sound(w, feed, pool)
      /\ plays \in 0 .. MaxPlays /\ cut \in BOOLEAN /\ (~cut => Sync(w, feed))
  BY WorkHolds
<1>2. /\ Commit(x) /\ pool' = pool /\ feed' = feed /\ plays' = plays
      /\ cut' = (cut \/ Interrupts) /\ w.player.open
  BY FieldsAre DEF Pause, CutIf
<1>3. ~Interrupts => w.chan[a].proc = 0
  BY <1>2, FieldsAre DEF Interrupts, HalfSent
<1> HIDE DEF w
<1>4. a \in Reservable
  BY <1>1, <1>2, SoundSeats
<1>5. /\ y \in Works /\ y.chunk = w.chunk /\ y.chan = w.chan /\ y.peer = w.peer
      /\ Sits(y.player, w.player) /\ y.player.paused = TRUE
      /\ y.player.bucket = w.player.bucket
      /\ (Unfed(w.player) => Unfed(y.player))
  <2>1. TRUE \in BOOLEAN
    OBVIOUS
  <2> QED
    BY <1>1, <2>1, PausedIs
<1> HIDE DEF y
<1>6. y.player.chan["audio"] = a /\ 0 \in Times /\ FALSE \in BOOLEAN
  BY <1>5, Parameters DEF Sits
<1>7. Tells(x, y)
  BY <1>4, <1>5, <1>6, StatusTells
<1> HIDE DEF x
<1>8. x \in Works /\ x.chunk = w.chunk /\ x.player = y.player
  BY <1>5, <1>7 DEF Tells
<1>9. Sound(x, feed, pool)
  <2>1. BucketsSmall(x)
    BY <1>1, <1>5, <1>8 DEF BucketsSmall, Sound
  <2>2. ~w.player.attached => Unfed(x.player)
    BY <1>1, <1>5, <1>8 DEF Sound, Fits
  <2>3. Sits(x.player, w.player) /\ w.chunk <= x.chunk
    BY <1>1, <1>5, <1>8, SizesCompare
  <2> QED
    BY <1>1, <1>8, <2>1, <2>2, <2>3, StillSound
<1>10. ASSUME ~cut'
       PROVE  Sync(x, feed)
  <2>1. Sync(w, feed) /\ w.chan[a].proc = 0
    BY <1>1, <1>2, <1>3, <1>10
  <2>2. InTouch(w)
    BY <2>1 DEF Sync
  <2>3. InTouch(y) /\ y.chan[a].proc = 0
    BY <1>5, <2>1, <2>2 DEF InTouch, Touches
  <2>4. InTouch(x)
    BY <1>6, <1>7, <2>3 DEF Tells
  <2> QED
    BY <1>5, <1>8, <2>4 DEF Sync
<1>11. cut' \in BOOLEAN
  BY <1>2
<1>12. Sound(x, feed', pool') /\ plays' \in 0 .. MaxPlays /\ (~cut' => Sync(x, feed'))
  BY <1>1, <1>2, <1>9, <1>10
<1> QED
  BY <1>2, <1>8, <1>11, <1>12, NextIs

\* After a seek the player has nothing of the messages that come.
LEMMA SoughtHolds ==
  ASSUME IInv, player.open, NEW offset \in Times
  PROVE  LET x == SeekTo(Work, offset)
         IN  /\ x \in Works /\ Sound(x, feed, pool) /\ Seated(x.player)
             /\ x.player.attached = player.attached
             /\ ~cut /\ ~Interrupts =>
                  /\ InTouch(x) /\ x.chan[x.player.chan["audio"]].proc = 0
                  /\ player.attached => \A k \in Kinds : Nothing(x, k)
<1> DEFINE w == Work
           a == w.player.chan["audio"]
           v == w.player.chan["video"]
           x == SeekTo(w, offset)
<1>1. w \in Works /\ Sound(w, feed, pool) /\ (~cut => Sync(w, feed))
  BY WorkHolds
<1>2. /\ w.player.open /\ w.player.attached = player.attached
      /\ ~Interrupts => w.chan[a].proc = 0 /\ (w.player.attached => w.chan[v].proc = 0)
  BY FieldsAre DEF Interrupts, HalfSent
<1> HIDE DEF w
<1>3. a \in Reservable /\ Seated(w.player)
  BY <1>1, <1>2, SoundSeats
<1>4. /\ x \in Works /\ x.chunk = w.chunk /\ Keeps(x.player, w.player)
      /\ Unfed(x.player) /\ x.player.attached = w.player.attached
      /\ x.player.feeder = w.player.feeder
      /\ InTouch(w) /\ w.chan[a].proc = 0 =>
           /\ InTouch(x) /\ x.chan[a].proc = 0
           /\ \A d \in Reservable \ {a} : x.chan[d] = w.chan[d]
  BY <1>1, <1>3, SeekToIs
<1> HIDE DEF x
<1>5. BucketsSmall(x) /\ \A k \in Kinds : x.player.first[k] = TRUE /\ x.player.bucket[k] = <<>>
  BY <1>4, UnfedIs
<1>6. Sits(x.player, w.player) /\ x.player.chan = w.player.chan /\ w.chunk <= x.chunk
  BY <1>1, <1>4, SizesCompare DEF Sits, Keeps
<1>7. Sound(x, feed, pool)
  BY <1>1, <1>4, <1>5, <1>6, StillSound
<1>8. Seated(x.player)
  BY <1>3, <1>6 DEF Seated
<1>9. ASSUME ~cut, ~Interrupts
      PROVE  /\ InTouch(x) /\ x.chan[x.player.chan["audio"]].proc = 0
             /\ player.attached => \A k \in Kinds : Nothing(x, k)
  <2>1. InTouch(w) /\ w.chan[a].proc = 0 /\ (w.player.attached => w.chan[v].proc = 0)
    BY <1>1, <1>2, <1>9 DEF Sync
  <2>2. InTouch(x) /\ x.chan[a].proc = 0 /\ \A d \in Reservable \ {a} : x.chan[d] = w.chan[d]
    BY <1>4, <2>1
  <2>3. v \in Reservable /\ v # a
    BY <1>3 DEF Seated
  <2>4. ASSUME player.attached, NEW k \in Kinds
        PROVE  Nothing(x, k)
    <3>1. x.chan[v].proc = 0
      BY <1>2, <2>1, <2>2, <2>3, <2>4
    <3>2. x.chan[x.player.chan[k]].proc = 0
      BY <1>6, <2>2, <3>1 DEF Kinds
    <3> QED
      BY <1>5, <3>2 DEF Nothing
  <2> QED
    BY <1>6, <2>2, <2>4
<1> QED
  BY <1>2, <1>4, <1>7, <1>8, <1>9 DEF x, w

LEMMA NothingSync ==
  ASSUME NEW w \in Works, NEW f, InTouch(w), w.player.attached => \A k \in Kinds : Nothing(w, k)
  PROVE  Sync(w, f)
<1>1. ASSUME w.player.attached, NEW k \in Kinds
      PROVE  Has(w, k, f.msg[k].len, f.done[k])
  BY <1>1, NothingHas
<1> QED
  BY <1>1 DEF Sync

LEMMA SeekSteps ==
  ASSUME IInv, NEW offset \in Offsets, Seek(offset)
  PROVE  IInv'
<1> DEFINE x == SeekTo(Work, offset)
<1>1. plays \in 0 .. MaxPlays /\ cut \in BOOLEAN
  BY WorkHolds
<1>2. /\ Commit(x) /\ pool' = pool /\ feed' = feed /\ plays' = plays
      /\ cut' = (cut \/ Interrupts) /\ player.open
  BY DEF Seek, CutIf
<1>3. offset \in Times
  BY Parameters
<1>4. /\ x \in Works /\ Sound(x, feed, pool)
      /\ x.player.attached = player.attached
      /\ ~cut /\ ~Interrupts =>
           /\ InTouch(x)
           /\ player.attached => \A k \in Kinds : Nothing(x, k)
  BY <1>2, <1>3, SoughtHolds
<1> HIDE DEF x
<1>6. ASSUME ~cut'
      PROVE  Sync(x, feed)
  <2>1. InTouch(x) /\ (x.player.attached => \A k \in Kinds : Nothing(x, k))
    BY <1>2, <1>4, <1>6
  <2> QED
    BY <1>4, <2>1, NothingSync
<1>7. cut' \in BOOLEAN
  BY <1>2
<1>8. Sound(x, feed', pool') /\ plays' \in 0 .. MaxPlays /\ (~cut' => Sync(x, feed'))
  BY <1>1, <1>2, <1>4, <1>6
<1> QED
  BY <1>2, <1>4, <1>7, <1>8, NextIs

LEMMA ResumeSteps ==
  ASSUME IInv, NEW offset \in Offsets, Resume(offset)
  PROVE  IInv'
<1> DEFINE w == SeekTo(Work, offset)
           a == w.player.chan["audio"]
           y == [w EXCEPT !.player.paused = FALSE]
           x == SendStatus(y, "invoke", 0, FALSE)
<1>1. plays \in 0 .. MaxPlays /\ cut \in BOOLEAN
  BY WorkHolds
<1>2. /\ Commit(x) /\ pool' = pool /\ feed' = feed /\ plays' = plays
      /\ cut' = (cut \/ Interrupts) /\ player.open
  BY DEF Resume, CutIf
<1>3. offset \in Times /\ 0 \in Times /\ FALSE \in BOOLEAN
  BY Parameters
<1>4. /\ w \in Works /\ Sound(w, feed, pool) /\ Seated(w.player)
      /\ w.player.attached = player.attached
      /\ ~cut /\ ~Interrupts =>
           /\ InTouch(w) /\ w.chan[a].proc = 0
           /\ player.attached => \A k \in Kinds : Nothing(w, k)
  BY <1>2, <1>3, SoughtHolds
<1> HIDE DEF w
<1>5. /\ y \in Works /\ y.chunk = w.chunk /\ y.chan = w.chan /\ y.peer = w.peer
      /\ Sits(y.player, w.player)
      /\ y.player.bucket = w.player.bucket /\ y.player.first = w.player.first
      /\ (Unfed(w.player) => Unfed(y.player))
  BY <1>3, <1>4, PausedIs
<1> HIDE DEF y
<1>6. y.player.chan["audio"] = a /\ a \in Reservable
  BY <1>4, <1>5 DEF Sits, Seated
<1>7. Tells(x, y)
  BY <1>3, <1>5, <1>6, StatusTells
<1> HIDE DEF x
<1>8. x \in Works /\ x.chunk = w.chunk /\ x.player = y.player
  BY <1>5, <1>7 DEF Tells
<1>9. Sound(x, feed, pool)
  <2>1. BucketsSmall(x)
    BY <1>4, <1>5, <1>8 DEF BucketsSmall, Sound
  <2>2. ~w.player.attached => Unfed(x.player)
    BY <1>4, <1>5, <1>8 DEF Sound, Fits
  <2>3. Sits(x.player, w.player) /\ w.chunk <= x.chunk
    BY <1>4, <1>5, <1>8, SizesCompare
  <2> QED
    BY <1>4, <1>8, <2>1, <2>2, <2>3, StillSound
<1>10. ASSUME ~cut'
       PROVE  Sync(x, feed)
  <2>1. /\ InTouch(w) /\ w.chan[a].proc = 0
        /\ w.player.attached => \A k \in Kinds : Nothing(w, k)
    BY <1>2, <1>4, <1>10
  <2>2. InTouch(y) /\ y.chan[a].proc = 0
    BY <1>5, <2>1 DEF InTouch, Touches
  <2>3. InTouch(x) /\ x.chan[a].proc = 0 /\ \A d \in Reservable \ {a} : x.chan[d] = w.chan[d]
    BY <1>5, <1>6, <1>7, <2>2 DEF Tells
  <2>4. ASSUME x.player.attached, NEW k \in Kinds
        PROVE  Nothing(x, k)
    <3>1. Nothing(w, k)
      BY <1>5, <1>8, <2>1, <2>4 DEF Sits
    <3>2. w.player.chan[k] \in Reservable
      BY <1>4 DEF Seated, Kinds
    <3>3. x.chan[w.player.chan[k]].proc = 0
      BY <2>3, <3>1, <3>2 DEF Nothing
    <3> QED
      BY <1>5, <1>8, <3>1, <3>3 DEF Nothing, Sits
  <2> QED
    BY <1>8, <2>3, <2>4, NothingSync
<1>11. cut' \in BOOLEAN
  BY <1>2
<1>12. Sound(x, feed', pool') /\ plays' \in 0 .. MaxPlays /\ (~cut' => Sync(x, feed'))
  BY <1>1, <1>2, <1>9, <1>10
<1> QED
  BY <1>2, <1>8, <1>11, <1>12, NextIs

\* The peer gives up a message on a channel on which nothing is half sent or waits.
LEMMA PeerAbortsSteps ==
  ASSUME IInv, NEW c \in AbortedChannels, PeerAborts(c)
  PROVE  IInv'
<1> DEFINE w == Work
           x == [w EXCEPT !.chan = [w.chan EXCEPT ![c] = FreshOut]]
           waits == \E k \in Kinds : /\ player.open /\ player.chan[k] = c
                                    /\ player.bucket[k] # <<>>
<1>1. /\ w \in Works /\ Sound(w, feed, pool)
      /\ plays \in 0 .. MaxPlays /\ cut \in BOOLEAN /\ (~cut => Sync(w, feed))
  BY WorkHolds
<1>2. c \in Channels
  BY ParametersAssumption
<1>3. /\ pool' = pool /\ feed' = feed /\ plays' = plays
      /\ cut' = (cut \/ (w.chan[c].proc # 0 \/ waits))
  BY FieldsAre DEF PeerAborts, CutIf
<1>4. w.player = player
  BY FieldsAre
<1>5. x.chan = out' /\ x.chunk = outChunk' /\ x.player = player' /\ x.peer = peer'
  BY DEF PeerAborts, Work
<1>6. Commit(x)
  BY <1>5 DEF Commit
<1> HIDE DEF w
<1>7. /\ x \in Works /\ x.chunk = w.chunk /\ x.player = w.player /\ x.peer = w.peer
      /\ x.chan[c] = FreshOut /\ \A d \in Channels \ {c} : x.chan[d] = w.chan[d]
  <2> DEFINE chan == [w.chan EXCEPT ![c] = FreshOut]
  <2>1. w.chan \in [Channels -> OutChannels]
    BY <1>1, WorkFields
  <2>2. /\ chan \in [Channels -> OutChannels]
        /\ chan[c] = FreshOut /\ \A d \in Channels \ {c} : chan[d] = w.chan[d]
    BY <1>2, <2>1, FreshIsTyped
  <2> HIDE DEF chan
  <2> QED
    BY <1>1, <2>2 DEF Works
<1> HIDE DEF x
<1>8. Sound(x, feed, pool)
  BY <1>1, <1>7, SizesCompare, SameSound
<1>9. ASSUME ~cut'
      PROVE  Sync(x, feed)
  <2>1. Sync(w, feed) /\ w.chan[c].proc = 0 /\ ~waits
    BY <1>1, <1>3, <1>9
  <2>2. InTouch(w) /\ Touches(w)
    BY <2>1 DEF Sync, InTouch
  <2>3. Same(FreshOut, w.peer.chans[c])
    <3>1. w.peer.chans[c].proc = 0
      BY <1>2, <2>1, <2>2 DEF Touches, Same
    <3> QED
      BY <3>1, FreshIsTyped DEF Same
  <2>4. Touches(x)
    BY <1>7, <2>2, <2>3 DEF Touches
  <2>5. Control \in Channels /\ Commands \in Channels
    BY ChannelsAre
  <2>6. InTouch(x)
    <3>1. x.chan[Control].proc = 0
      BY <1>7, <2>2, <2>5, FreshIsTyped DEF InTouch
    <3>2. x.chan[Commands].proc = 0
      BY <1>7, <2>2, <2>5, FreshIsTyped DEF InTouch
    <3> QED
      BY <2>4, <3>1, <3>2 DEF InTouch
  <2>7. ASSUME w.player.attached /\ ~w.player.paused, NEW k \in Kinds
        PROVE  Has(x, k, feed.msg[k].len, feed.done[k])
    <3>1. w.player.open
      BY <1>1, <2>7 DEF Sound, Fits
    <3>2. w.player.chan[k] \in Channels
      BY <1>1, <3>1, SoundSeats
    <3>3. Has(w, k, feed.msg[k].len, feed.done[k])
      BY <2>1, <2>7 DEF Sync
    <3>4. CASE w.player.chan[k] # c
      BY <1>7, <3>2, <3>3, <3>4, SameHas
    <3>5. CASE w.player.chan[k] = c
      <4>1. w.player.bucket[k] = <<>>
        BY <1>4, <2>1, <3>1, <3>5
      <4>2. Holds(FreshOut, <<>>, w.player.first[k], w.player.si, w.player.ts[k], k,
                  feed.msg[k].len)
        <5>1. w.player.first[k] \in BOOLEAN
          BY <1>1, WorkFields, PlayerFields
        <5> QED
          BY <5>1, FreshIsTyped, HoldsNothing
      <4>3. Forwarded(x, k) = Forwarded(w, k)
        BY <1>7, <2>1, <3>5, FreshIsTyped DEF Forwarded
      <4> QED
        BY <1>7, <3>3, <3>5, <4>1, <4>2, <4>3 DEF Has
    <3> QED
      BY <3>4, <3>5
  <2> QED
    BY <1>7, <2>6, <2>7 DEF Sync
<1>10. cut' \in BOOLEAN
  BY <1>1, <1>3
<1>11. Sound(x, feed', pool') /\ plays' \in 0 .. MaxPlays /\ (~cut' => Sync(x, feed'))
  BY <1>1, <1>3, <1>8, <1>9
<1> QED
  BY <1>6, <1>7, <1>10, <1>11, NextIs

\* The channels of a player that is deleted go back to the pool.
LEMMA CloseSteps ==
  ASSUME IInv, Close
  PROVE  IInv'
<1> DEFINE w == Work
           x == [w EXCEPT !.player = NoPlayer]
           free == <<w.player.spare, w.player.chan["video"], w.player.chan["audio"]>>
<1>1. /\ w \in Works /\ Sound(w, feed, pool)
      /\ plays \in 0 .. MaxPlays /\ cut \in BOOLEAN /\ (~cut => Sync(w, feed))
  BY WorkHolds
<1>2. /\ pool' = free /\ feed' = feed /\ plays' = plays /\ cut' = cut /\ w.player.open
  BY FieldsAre DEF Close
<1>3. Commit(x)
  <2>1. x.chan = out /\ x.chunk = outChunk /\ x.player = NoPlayer /\ x.peer = peer
    BY DEF Work
  <2> QED
    BY <2>1 DEF Close, Commit
<1> HIDE DEF w
<1>4. /\ x \in Works /\ x.player = NoPlayer /\ x.chan = w.chan /\ x.chunk = w.chunk
      /\ x.peer = w.peer
  BY <1>1, NoPlayerIs, PlayerIsSet
<1> HIDE DEF x
<1>5. Unfed(x.player) /\ x.player.open = FALSE /\ x.player.attached = FALSE
  BY <1>4, NoPlayerIs DEF NoPlayer
<1>6. ChannelsHeld(x.player, free)
  <2> DEFINE s == w.player.spare
             v == w.player.chan["video"]
             a == w.player.chan["audio"]
  <2>1. s \in Reservable /\ v \in Reservable /\ a \in Reservable /\ s # v /\ s # a /\ v # a
    BY <1>1, <1>2 DEF Sound, ChannelsHeld, Kinds
  <2> HIDE DEF s, v, a
  <2>2. /\ <<s, v, a>> \in Seq(Reservable) /\ Len(<<s, v, a>>) = 3
        /\ \A i, j \in 1 .. 3 : <<s, v, a>>[i] = <<s, v, a>>[j] => i = j
    BY <2>1
  <2> QED
    BY <1>5, <2>2 DEF ChannelsHeld, s, v, a
<1> HIDE DEF free
<1>7. BucketsSmall(x)
  BY <1>4, <1>5, UnfedIs
<1>8. Sound(x, feed, free)
  BY <1>1, <1>4, <1>5, <1>6, <1>7 DEF Sound, Fits
<1>9. ASSUME ~cut
      PROVE  Sync(x, feed)
  BY <1>1, <1>4, <1>5, <1>9 DEF Sync, InTouch, Touches
<1>10. Sound(x, feed', pool') /\ plays' \in 0 .. MaxPlays /\ cut' \in BOOLEAN
       /\ (~cut' => Sync(x, feed'))
  BY <1>1, <1>2, <1>8, <1>9
<1> QED
  BY <1>3, <1>4, <1>10, NextIs

\* The chunks of the publisher grow or shrink: those of the player are never shorter.
LEMMA PublisherSetsChunkSizeSteps ==
  ASSUME IInv, NEW s \in Sizes, PublisherSetsChunkSize(s)
  PROVE  IInv'
<1> DEFINE w == Work
           y == TrySetOutboundChunkSize(w, s)
           x == IF w.player.attached THEN y ELSE w
           f == [feed EXCEPT !.size = s]
<1>1. /\ w \in Works /\ Sound(w, feed, pool) /\ feed \in Feeds
      /\ plays \in 0 .. MaxPlays /\ cut \in BOOLEAN /\ (~cut => Sync(w, feed))
  BY WorkHolds
<1>2. /\ Commit(x) /\ pool' = pool /\ feed' = f /\ plays' = plays /\ cut' = cut
  BY FieldsAre DEF PublisherSetsChunkSize
<1> HIDE DEF w
<1>3. /\ f \in Feeds /\ f.size = s /\ f.published = feed.published /\ f.msg = feed.msg
      /\ f.done = feed.done /\ f.init = feed.init
  BY <1>1 DEF Feeds
<1> HIDE DEF f
<1>4. /\ y \in Works /\ y.player = w.player /\ w.chunk <= y.chunk /\ s <= y.chunk
      /\ InTouch(w) => /\ InTouch(y)
                       /\ \A d \in Channels \ {Control} : y.chan[d] = w.chan[d]
  BY <1>1, ChunkSizeIsSet
<1> HIDE DEF y
<1>5. x \in Works /\ x.player = w.player /\ w.chunk <= x.chunk /\ (w.player.attached => s <= x.chunk)
  BY <1>1, <1>4, SizesCompare
<1>6. InTouch(w) => /\ InTouch(x)
                    /\ \A d \in Channels \ {Control} : x.chan[d] = w.chan[d]
  BY <1>4
<1> HIDE DEF x
<1>7. Sound(x, feed, pool)
  BY <1>1, <1>5, SameSound
<1>8. Sound(x, f, pool)
  <2>1. Fits(x, f)
    BY <1>3, <1>5, <1>7 DEF Sound, Fits
  <2> QED
    BY <1>3, <1>7, <2>1 DEF Sound
<1>9. ASSUME ~cut
      PROVE  Sync(x, f)
  <2>1. Sync(w, feed)
    BY <1>1, <1>9
  <2>2. InTouch(x) /\ \A d \in Channels \ {Control} : x.chan[d] = w.chan[d]
    BY <1>6, <2>1 DEF Sync
  <2>3. ASSUME w.player.attached /\ ~w.player.paused, NEW k \in Kinds
        PROVE  Has(x, k, feed.msg[k].len, feed.done[k])
    <3>1. w.player.open
      BY <1>1, <2>3 DEF Sound, Fits
    <3>2. w.player.chan[k] \in Reservable
      BY <1>1, <3>1, SoundSeats
    <3>3. x.chan[w.player.chan[k]] = w.chan[w.player.chan[k]]
      BY <2>2, <3>2, ChannelsAre
    <3>4. Has(w, k, feed.msg[k].len, feed.done[k])
      BY <2>1, <2>3 DEF Sync
    <3> QED
      BY <1>5, <3>3, <3>4, SameHas
  <2> QED
    BY <1>3, <1>5, <2>2, <2>3 DEF Sync
<1>10. Sound(x, feed', pool') /\ plays' \in 0 .. MaxPlays /\ cut' \in BOOLEAN
       /\ (~cut' => Sync(x, feed'))
  BY <1>1, <1>2, <1>8, <1>9
<1> QED
  BY <1>2, <1>5, <1>10, NextIs

\* The publication ends.
LEMMA UnpublishSteps ==
  ASSUME IInv, Unpublish
  PROVE  IInv'
<1> DEFINE w == Work
           y == Detach(w)
           x == IF w.player.attached THEN y ELSE w
           none == [k \in Kinds |-> 0]
           f == [feed EXCEPT !.published = FALSE, !.last = 0, !.init = none]
<1>1. /\ w \in Works /\ Sound(w, feed, pool) /\ feed \in Feeds
      /\ plays \in 0 .. MaxPlays /\ cut \in BOOLEAN /\ (~cut => Sync(w, feed))
  BY WorkHolds
<1>2. /\ Commit(x) /\ pool' = pool /\ feed' = f /\ plays' = plays
      /\ cut' = (cut \/ (w.player.attached /\ w.chan[w.player.chan["audio"]].proc # 0))
      /\ feed.published
  BY FieldsAre DEF Unpublish, CutIf, HalfSent
<1> HIDE DEF w
<1>3. /\ f \in Feeds /\ f.published = FALSE /\ f.msg = feed.msg /\ f.done = feed.done
      /\ \A k \in Kinds : f.init[k] = 0
  <2>1. none \in [Kinds -> Nat] /\ \A k \in Kinds : none[k] = 0
    OBVIOUS
  <2>2. 0 \in 0 .. MaxTs
    BY Parameters
  <2> HIDE DEF none
  <2> QED
    BY <1>1, <2>1, <2>2 DEF Feeds
<1> HIDE DEF f
<1>4. /\ x \in Works /\ x.chunk = w.chunk /\ Keeps(x.player, w.player) /\ Unfed(x.player)
      /\ x.player.attached = FALSE
      /\ ~cut' => InTouch(x)
  <2>1. CASE w.player.attached
    <3>1. w.player.chan["audio"] \in Reservable
      <4>1. w.player.open
        BY <1>1, <2>1 DEF Sound, Fits
      <4> QED
        BY <1>1, <4>1, SoundSeats
    <3>2. /\ y \in Works /\ y.chunk = w.chunk /\ Keeps(y.player, w.player)
          /\ Unfed(y.player) /\ y.player.attached = FALSE
          /\ InTouch(w) /\ w.chan[w.player.chan["audio"]].proc = 0 => InTouch(y)
      BY <1>1, <3>1, DetachIs
    <3> HIDE DEF y
    <3>3. ~cut' => InTouch(w) /\ w.chan[w.player.chan["audio"]].proc = 0
      BY <1>1, <1>2, <2>1 DEF Sync
    <3> QED
      BY <2>1, <3>2, <3>3
  <2>2. CASE ~w.player.attached
    <3>1. w.player.attached = FALSE
      <4>1. w.player.attached \in BOOLEAN
        BY <1>1, WorkFields, PlayerFields
      <4> QED
        BY <2>2, <4>1
    <3>2. x = w
      BY <2>2
    <3> HIDE DEF x
    <3>3. Unfed(w.player) /\ (~cut' => InTouch(w))
      BY <1>1, <1>2, <2>2 DEF Sound, Fits, Sync
    <3> QED
      BY <1>1, <3>1, <3>2, <3>3 DEF Keeps
  <2> QED
    BY <2>1, <2>2
<1> HIDE DEF x
<1>5. ChannelsHeld(x.player, pool)
  BY <1>1, <1>4 DEF Sound, ChannelsHeld, Keeps
<1>6. BucketsSmall(x)
  BY <1>4, UnfedIs
<1>7. Fits(x, f)
  BY <1>1, <1>3, <1>4 DEF Sound, Fits
<1>8. Sound(x, f, pool)
  BY <1>3, <1>4, <1>5, <1>6, <1>7 DEF Sound
<1>9. ~cut' => Sync(x, f)
  BY <1>4 DEF Sync
<1>10. cut' \in BOOLEAN
  BY <1>1, <1>2
<1>11. Sound(x, feed', pool') /\ plays' \in 0 .. MaxPlays /\ (~cut' => Sync(x, feed'))
  BY <1>1, <1>2, <1>8, <1>9
<1> QED
  BY <1>2, <1>4, <1>10, <1>11, NextIs

-----------------------------------------------------------------------------
(* A player is made, and attached. *)

\* x is sound when a player with its channels, that is not fed, was attached, or not.
LEMMA JoinedIs ==
  ASSUME NEW w \in Works, NEW x \in Works, NEW f \in Feeds,
         w.player.open, ChannelsHeld(w.player, <<>>), Unfed(w.player),
         Joined(x, w), feed.size = f.size, f.published,
         \A k \in Kinds : f.done[k] # 0 => f.done[k] < f.msg[k].len
  PROVE  Sound(x, f, <<>>)
<1>1. x.player.open /\ ChannelsHeld(x.player, <<>>)
  BY DEF Joined, ChannelsHeld
<1>2. x.player.attached = TRUE /\ x.player.feeder = f.size /\ BucketsSmall(x)
  BY DEF Joined
<1>3. f.size <= x.player.feeder
  <2>1. f.size \in Sizes /\ \A z \in Sizes : z \in Nat
    BY Parameters DEF Feeds
  <2> QED
    BY <1>2, <2>1
<1>4. Fits(x, f)
  BY <1>1, <1>2, <1>3 DEF Fits
<1> QED
  BY <1>1, <1>2, <1>4 DEF Sound

\* A player on three channels.
Made(si, free) ==
  [NoPlayer EXCEPT !.open = TRUE, !.si = si,
     !.chan = [k \in Kinds |-> IF k = "audio" THEN free[1] ELSE free[2]],
     !.spare = free[3]]

LEMMA MadeIs ==
  ASSUME NEW si \in StreamIds, NEW free, ChannelsHeld(NoPlayer, free)
  PROVE  LET pl == Made(si, free)
         IN  /\ pl \in Players /\ pl.open = TRUE /\ pl.attached = FALSE
             /\ Unfed(pl) /\ ChannelsHeld(pl, <<>>)
<1> DEFINE chan == [k \in Kinds |-> IF k = "audio" THEN free[1] ELSE free[2]]
           pl == Made(si, free)
<1>1. /\ free[1] \in Reservable /\ free[2] \in Reservable /\ free[3] \in Reservable
      /\ free[1] # free[2] /\ free[1] # free[3] /\ free[2] # free[3]
  <2>1. /\ free \in Seq(Reservable) /\ Len(free) = 3
        /\ \A i, j \in 1 .. 3 : free[i] = free[j] => i = j
    BY DEF ChannelsHeld, NoPlayer
  <2>2. \A i \in 1 .. 3 : free[i] \in Reservable
    <3>1. \A i \in 1 .. Len(free) : free[i] \in Reservable
      <4> SUFFICES ASSUME NEW S, free \in Seq(S)
                   PROVE  \A i \in 1 .. Len(free) : free[i] \in S
        BY <2>1
      <4> QED
        OBVIOUS
    <3> QED
      BY <2>1, <3>1
  <2>3. 1 \in 1 .. 3 /\ 2 \in 1 .. 3 /\ 3 \in 1 .. 3
    OBVIOUS
  <2>4. free[1] # free[2] /\ free[1] # free[3] /\ free[2] # free[3]
    BY <2>1, <2>3
  <2> QED
    BY <2>2, <2>3, <2>4
<1>2. /\ chan["audio"] = free[1] /\ chan["video"] = free[2]
      /\ chan \in [Kinds -> Reservable \cup {0}]
  BY <1>1 DEF Kinds
<1>3. si \in Ids
  BY Parameters
<1>4. pl = [NoPlayer EXCEPT !.open = TRUE, !.si = si, !.chan = chan, !.spare = free[3]]
  BY DEF Made
<1> HIDE DEF chan, pl
<1>5. /\ pl \in Players /\ pl.open = TRUE /\ pl.attached = NoPlayer.attached
      /\ pl.chan = chan /\ pl.spare = free[3] /\ pl.delta = NoPlayer.delta
      /\ pl.first = NoPlayer.first /\ pl.dropped = NoPlayer.dropped
      /\ pl.bucket = NoPlayer.bucket
  <2>1. NoPlayer \in Players /\ free[3] \in Reservable \cup {0}
    BY <1>1, NoPlayerIs
  <2> QED
    BY <1>2, <1>3, <1>4, <2>1 DEF Players
<1>6. Unfed(pl)
  BY <1>5, NoPlayerIs DEF Unfed
<1>7. pl.attached = FALSE
  BY <1>5 DEF NoPlayer
<1>8. ChannelsHeld(pl, <<>>)
  BY <1>1, <1>2, <1>5 DEF ChannelsHeld, Kinds
<1> QED
  BY <1>5, <1>6, <1>7, <1>8 DEF pl

LEMMA PlaySteps ==
  ASSUME IInv, NEW si \in StreamIds, NEW told \in BOOLEAN, Play(si, told)
  PROVE  IInv'
<1> DEFINE w == Work
           q == w.player
           pl == Made(si, pool)
           y == [w EXCEPT !.player = pl]
           z == Attach(y, told)
           x == IF feed.published THEN z ELSE y
           long == /\ feed.published /\ feed.size = w.chunk
                   /\ \E k \in Kinds : feed.init[k] > w.chunk
<1>1. /\ w \in Works /\ Sound(w, feed, pool) /\ feed \in Feeds
      /\ plays \in 0 .. MaxPlays /\ cut \in BOOLEAN /\ (~cut => Sync(w, feed))
  BY WorkHolds
<1>2. /\ Commit(x) /\ pool' = <<>> /\ feed' = feed /\ plays' = plays + 1
      /\ plays < MaxPlays /\ cut' = (cut \/ long) /\ ~q.open
  BY FieldsAre DEF Play, CutIf, Overlong, Made
<1> HIDE DEF w
<1>3. ChannelsHeld(NoPlayer, pool)
  BY <1>1, <1>2 DEF Sound, ChannelsHeld, NoPlayer
<1>4. /\ pl \in Players /\ pl.open = TRUE /\ pl.attached = FALSE
      /\ Unfed(pl) /\ ChannelsHeld(pl, <<>>)
  BY <1>3, MadeIs
<1> HIDE DEF pl
<1>5. y \in Works /\ y.player = pl /\ y.chan = w.chan /\ y.chunk = w.chunk /\ y.peer = w.peer
  BY <1>1, <1>4, PlayerIsSet
<1> HIDE DEF y
<1>6. ~cut => InTouch(y)
  BY <1>1, <1>5 DEF Sync, InTouch, Touches
<1>7. \A k \in Kinds : feed.done[k] # 0 => feed.done[k] < feed.msg[k].len
  BY <1>1 DEF Sound, Fits
<1>12. ~feed.published => \A k \in Kinds : feed.init[k] = 0
  BY <1>1 DEF Sound, Fits
<1>8. x \in Works /\ Sound(x, feed, <<>>) /\ (~cut' => Sync(x, feed))
  <2>1. CASE feed.published
    <3>1. Seated(y.player)
      BY <1>4, <1>5 DEF ChannelsHeld, Seated, Kinds
    <3>2. /\ Joined(z, y)
          /\ InTouch(y) /\ (\A k \in Kinds : feed.size = y.chunk => feed.init[k] <= y.chunk) =>
               InTouch(z) /\ \A k \in Kinds : Nothing(z, k)
      BY <1>1, <1>4, <1>5, <3>1, AttachIs
    <3> HIDE DEF z
    <3>3. z \in Works
      BY <3>2 DEF Joined
    <3>4. Sound(z, feed, <<>>)
      <4>1. y.player.open /\ ChannelsHeld(y.player, <<>>) /\ Unfed(y.player)
        BY <1>4, <1>5
      <4>2. \A k \in Kinds : feed.done[k] # 0 => feed.done[k] < feed.msg[k].len
        BY <1>7
      <4>3. feed.size = feed.size
        OBVIOUS
      <4>4. Joined(z, y)
        BY <3>2
      <4> QED
        BY <1>1, <1>5, <2>1, <3>3, <4>1, <4>2, <4>3, <4>4, JoinedIs
    <3>5. ASSUME ~cut'
          PROVE  Sync(z, feed)
      <4>1. \A k \in Kinds : feed.size = y.chunk => feed.init[k] <= y.chunk
        <5> SUFFICES ASSUME NEW k \in Kinds, feed.size = w.chunk
                     PROVE  feed.init[k] <= w.chunk
          BY <1>5
        <5>1. ~(feed.init[k] > w.chunk)
          BY <1>2, <2>1, <3>5
        <5>2. feed.init[k] \in Nat /\ w.chunk \in Nat
          BY <1>1, SizesCompare DEF Feeds
        <5> QED
          BY <5>1, <5>2
      <4>2. InTouch(y)
        BY <1>2, <1>6, <3>5
      <4> QED
        BY <3>2, <3>3, <4>1, <4>2, NothingSync
    <3> QED
      BY <2>1, <3>3, <3>4, <3>5
  <2>2. CASE ~feed.published
    <3>1. Fits(y, feed) /\ BucketsSmall(y)
      <4>1. y.player.attached = FALSE /\ Unfed(y.player)
        BY <1>4, <1>5
      <4>2. BucketsSmall(y)
        BY <1>5, <4>1, UnfedIs
      <4>3. Fits(y, feed)
        BY <1>7, <1>12, <2>2, <4>1 DEF Fits
      <4> QED
        BY <4>2, <4>3
    <3>2. Sound(y, feed, <<>>)
      BY <1>1, <1>4, <1>5, <3>1 DEF Sound
    <3>3. ~cut' => Sync(y, feed)
      BY <1>2, <1>4, <1>5, <1>6 DEF Sync
    <3> QED
      BY <1>5, <2>2, <3>2, <3>3
  <2> QED
    BY <2>1, <2>2
<1> HIDE DEF x, long
<1>9. cut' \in BOOLEAN
  <2>1. long \in BOOLEAN
    BY DEF long
  <2> QED
    BY <1>1, <1>2, <2>1
<1>10. plays' \in 0 .. MaxPlays
  BY <1>1, <1>2, ParametersAssumption
<1>11. Sound(x, feed', pool') /\ (~cut' => Sync(x, feed'))
  BY <1>2, <1>8
<1> QED
  BY <1>2, <1>8, <1>9, <1>10, <1>11, NextIs

LEMMA PublishSteps ==
  ASSUME IInv, Publish
  PROVE  IInv'
<1> DEFINE w == Work
           z == Attach(w, FALSE)
           x == IF w.player.open THEN z ELSE w
           f == [feed EXCEPT !.published = TRUE]
<1>1. /\ w \in Works /\ Sound(w, feed, pool) /\ feed \in Feeds
      /\ plays \in 0 .. MaxPlays /\ cut \in BOOLEAN /\ (~cut => Sync(w, feed))
  BY WorkHolds
<1>2. /\ Commit(x) /\ pool' = pool /\ feed' = f /\ plays' = plays /\ cut' = cut
      /\ ~feed.published
  BY FieldsAre DEF Publish
<1> HIDE DEF w
<1>3. /\ f \in Feeds /\ f.size = feed.size /\ f.published = TRUE /\ f.msg = feed.msg
      /\ f.done = feed.done /\ f.init = feed.init
  BY <1>1 DEF Feeds
<1> HIDE DEF f
<1>4. /\ \A k \in Kinds : /\ f.done[k] # 0 => f.done[k] < f.msg[k].len
                         /\ feed.init[k] = 0
      /\ ~w.player.attached /\ Unfed(w.player) /\ ChannelsHeld(w.player, pool)
  BY <1>1, <1>2, <1>3 DEF Sound, Fits
<1>5. x \in Works /\ Sound(x, f, pool) /\ (~cut => Sync(x, f))
  <2>1. CASE w.player.open
    <3>1. Seated(w.player) /\ FALSE \in BOOLEAN
      BY <1>1, <2>1, SoundSeats
    <3>2. /\ Joined(z, w)
          /\ InTouch(w) /\ (\A k \in Kinds : feed.size = w.chunk => feed.init[k] <= w.chunk) =>
               InTouch(z) /\ \A k \in Kinds : Nothing(z, k)
      BY <1>1, <1>4, <3>1, AttachIs
    <3> HIDE DEF z
    <3>3. z \in Works
      BY <3>2 DEF Joined
    <3>4. pool = <<>>
      BY <1>4, <2>1 DEF ChannelsHeld
    <3>5. Sound(z, f, <<>>)
      <4>1. ChannelsHeld(w.player, <<>>)
        BY <1>4, <3>4
      <4>2. feed.size = f.size /\ f.published
        BY <1>3
      <4>3. \A k \in Kinds : f.done[k] # 0 => f.done[k] < f.msg[k].len
        BY <1>4
      <4> QED
        BY <1>1, <1>3, <1>4, <2>1, <3>2, <3>3, <4>1, <4>2, <4>3, JoinedIs
    <3>6. ASSUME ~cut
          PROVE  Sync(z, f)
      <4>1. \A k \in Kinds : feed.size = w.chunk => feed.init[k] <= w.chunk
        BY <1>1, <1>4, SizesCompare
      <4>2. InTouch(w)
        BY <1>1, <3>6 DEF Sync
      <4> QED
        BY <3>2, <3>3, <4>1, <4>2, NothingSync
    <3> QED
      BY <2>1, <3>3, <3>4, <3>5, <3>6
  <2>2. CASE ~w.player.open
    <3>1. Fits(w, f)
      BY <1>1, <1>3, <1>4, <2>2 DEF Sound, Fits
    <3>2. Sound(w, f, pool)
      BY <1>1, <1>3, <3>1 DEF Sound
    <3>3. ~cut => Sync(w, f)
      BY <1>1, <1>4 DEF Sync
    <3> QED
      BY <1>1, <2>2, <3>2, <3>3
  <2> QED
    BY <2>1, <2>2
<1> HIDE DEF x
<1>6. Sound(x, feed', pool') /\ plays' \in 0 .. MaxPlays /\ cut' \in BOOLEAN
      /\ (~cut' => Sync(x, feed'))
  BY <1>1, <1>2, <1>5
<1> QED
  BY <1>2, <1>5, <1>6, NextIs

-----------------------------------------------------------------------------
(* A piece of a message comes. *)

LEMMA FeedFields ==
  ASSUME NEW f \in Feeds
  PROVE  /\ f.published \in BOOLEAN /\ f.size \in Sizes /\ f.size \in Nat \ {0}
         /\ f.last \in 0 .. MaxTs /\ f.msg \in [Kinds -> FeedMessages]
         /\ f.done \in [Kinds -> Nat] /\ f.init \in [Kinds -> Nat]
<1>1. f.size \in Sizes /\ \A z \in Sizes : z \in Nat \ {0}
  BY Parameters DEF Feeds
<1> QED
  BY <1>1 DEF Feeds

\* The feed after it.
Arrived(f, k, m, d, l, i) ==
  [f EXCEPT !.msg[k] = m, !.done[k] = d, !.last = l, !.init[k] = i]

LEMMA FeedIsSet ==
  ASSUME NEW f \in Feeds, NEW k \in Kinds, NEW m \in FeedMessages, NEW d \in Nat,
         NEW l \in 0 .. MaxTs, NEW i \in Nat
  PROVE  LET g == Arrived(f, k, m, d, l, i)
         IN  /\ g \in Feeds /\ g.published = f.published /\ g.size = f.size
             /\ g.msg = [f.msg EXCEPT ![k] = m] /\ g.done = [f.done EXCEPT ![k] = d]
             /\ g.init = [f.init EXCEPT ![k] = i]
<1> DEFINE a == [f EXCEPT !.msg[k] = m]
           b == [a EXCEPT !.done[k] = d]
           c == [b EXCEPT !.last = l]
           g == [c EXCEPT !.init[k] = i]
<1>1. /\ a \in Feeds /\ a.published = f.published /\ a.size = f.size
      /\ a.msg = [f.msg EXCEPT ![k] = m] /\ a.done = f.done /\ a.init = f.init
  BY DEF Feeds
<1> HIDE DEF a
<1>2. /\ b \in Feeds /\ b.published = a.published /\ b.size = a.size
      /\ b.msg = a.msg /\ b.done = [a.done EXCEPT ![k] = d] /\ b.init = a.init
  BY <1>1 DEF Feeds
<1> HIDE DEF b
<1>3. /\ c \in Feeds /\ c.published = b.published /\ c.size = b.size
      /\ c.msg = b.msg /\ c.done = b.done /\ c.init = b.init
  BY <1>2 DEF Feeds
<1> HIDE DEF c
<1>4. /\ g \in Feeds /\ g.published = c.published /\ g.size = c.size
      /\ g.msg = c.msg /\ g.done = c.done /\ g.init = [c.init EXCEPT ![k] = i]
  BY <1>3 DEF Feeds
<1>5. g = Arrived(f, k, m, d, l, i)
  BY DEF Arrived, a, b, c
<1> HIDE DEF g
<1> QED
  BY <1>1, <1>2, <1>3, <1>4, <1>5

\* The length of a piece.
LEMMA PieceIs ==
  ASSUME NEW size \in Nat \ {0}, NEW len \in Nat, NEW p \in Nat, p # 0 => p < len,
         NEW c \in Nat
  PROVE  LET n == Least(size, len - p)
         IN  /\ n \in Nat /\ p + n <= len /\ (n = 0 => len = 0) /\ (p = 0 /\ n # len => size < len)
             /\ size <= c /\ ~(size < Least(c, len - p)) => n = Least(len - p, c)
BY DEF Least

\* The piece comes in time, unless it cuts the message.
LEMMA PieceIsTimely ==
  ASSUME IInv, NEW k \in Kinds, NEW msg \in FeedMessages, feed.done[k] # 0 => feed.done[k] < msg.len,
         player.attached, ~cut, ~Misfit(msg, feed.done[k]), ~BrokenSetup(k, msg)
  PROVE  Timely(Work, k, msg, feed.done[k], Least(feed.size, msg.len - feed.done[k]))
<1> DEFINE w == Work
           p == feed.done[k]
           len == msg.len
           size == feed.size
           n == Least(size, len - p)
<1>1. w \in Works /\ feed \in Feeds /\ Sound(w, feed, pool) /\ Sync(w, feed)
  BY WorkHolds
<1>2. /\ w.player.attached
      /\ ~(w.player.feeder = w.chunk /\ size < Least(w.chunk, len - p))
      /\ ~(w.player.first[k] /\ msg.flavor = "setup" /\ size < len)
  BY FieldsAre DEF Misfit, BrokenSetup
<1> HIDE DEF w
<1>3. w.player.open /\ (size <= w.chunk \/ size <= w.player.feeder)
  BY <1>1, <1>2 DEF Sound, Fits
<1>4. w.player.chan[k] \in Reservable /\ InTouch(w)
  BY <1>1, <1>3, SoundSeats DEF Sync
<1>5. size \in Nat \ {0} /\ p \in Nat /\ len \in Nat /\ w.chunk \in Nat /\ (p # 0 => p < len)
  BY <1>1, FeedFields, SizesCompare DEF FeedMessages
<1> HIDE DEF p, len, size
<1>6. /\ n \in Nat /\ p + n <= len /\ (n = 0 => len = 0) /\ (p = 0 /\ n # len => size < len)
      /\ size <= w.chunk /\ ~(size < Least(w.chunk, len - p)) => n = Least(len - p, w.chunk)
  <2> DEFINE c == w.chunk
  <2>1. c \in Nat
    BY <1>5
  <2> HIDE DEF c
  <2>2. /\ n \in Nat /\ p + n <= len /\ (n = 0 => len = 0) /\ (p = 0 /\ n # len => size < len)
        /\ size <= c /\ ~(size < Least(c, len - p)) => n = Least(len - p, c)
    BY <1>5, <2>1, PieceIs
  <2> QED
    BY <2>2 DEF c
<1> HIDE DEF n
<1>7. w.player.feeder = w.chunk => n = Least(len - p, w.chunk)
  BY <1>2, <1>3, <1>5, <1>6
<1>8. w.player.first[k] /\ msg.flavor = "setup" /\ p = 0 => n = len
  BY <1>2, <1>6
<1>9. p + n <= msg.len /\ (n = 0 => msg.len = 0) /\ (w.player.feeder = w.chunk => n = Least(msg.len - p, w.chunk))
      /\ (w.player.first[k] /\ msg.flavor = "setup" /\ p = 0 => n = msg.len)
  BY <1>6, <1>7, <1>8 DEF len
<1>10. Timely(w, k, msg, p, n)
  BY <1>4, <1>9 DEF Timely
<1> QED
  BY <1>10 DEF w, n, p, len, size

LEMMA PieceSteps ==
  ASSUME IInv, NEW k \in Kinds, NEW msg \in FeedMessages, NEW full \in BOOLEAN,
         feed.done[k] # 0 => feed.done[k] < msg.len,
         ~cut /\ player.attached /\ ~player.paused => Has(Work, k, msg.len, feed.done[k]),
         Piece(k, msg, full)
  PROVE  IInv'
<1> DEFINE w == Work
           p == feed.done[k]
           len == msg.len
           n == Least(feed.size, len - p)
           ends == p + n = len
           sets == p = 0 /\ n > 0 /\ msg.flavor = "setup" /\ feed.published
           m == IF ends THEN [len |-> 0, ts |-> msg.ts, flavor |-> "inter"] ELSE msg
           d == IF ends THEN 0 ELSE p + n
           l == IF feed.published /\ k = "audio" THEN msg.ts ELSE feed.last
           i == IF sets THEN n ELSE feed.init[k]
           f == Arrived(feed, k, m, d, l, i)
           fed == FeedData(w, k, msg, p, n, full)
           x == IF w.player.attached THEN fed ELSE w
           breaks == /\ w.player.attached /\ ~w.player.paused
                     /\ Misfit(msg, p) \/ BrokenSetup(k, msg)
<1>1. /\ w \in Works /\ Sound(w, feed, pool) /\ feed \in Feeds
      /\ plays \in 0 .. MaxPlays /\ cut \in BOOLEAN /\ (~cut => Sync(w, feed))
  BY WorkHolds
<1>2. feed' = f
  BY DEF Piece, Arrived
<1>3. Commit(x) /\ pool' = pool /\ plays' = plays /\ cut' = (cut \/ breaks)
  BY FieldsAre DEF Piece, CutIf
<1>4. ~cut /\ w.player.attached /\ ~w.player.paused =>
        Has(w, k, len, p) /\ (~breaks => Timely(w, k, msg, p, n))
  <2>1. ASSUME ~cut, w.player.attached, ~w.player.paused
        PROVE  Has(w, k, len, p)
    BY <2>1, FieldsAre
  <2>2. ASSUME ~cut, w.player.attached, ~w.player.paused, ~breaks
        PROVE  Timely(w, k, msg, p, n)
    <3>1. player.attached /\ ~Misfit(msg, p) /\ ~BrokenSetup(k, msg)
      BY <2>2, FieldsAre
    <3> QED
      BY <2>2, <3>1, PieceIsTimely
  <2> QED
    BY <2>1, <2>2
<1>5. breaks \in BOOLEAN
  OBVIOUS
<1> HIDE DEF w, breaks
<1>6. /\ p \in Nat /\ len \in Nat /\ msg.ts \in 0 .. MaxTs /\ feed.last \in 0 .. MaxTs
      /\ feed.init[k] \in Nat /\ (p # 0 => p < len) /\ feed.size \in Nat \ {0}
  BY <1>1, FeedFields DEF FeedMessages
<1>7. n \in Nat /\ p + n <= len
  <2> DEFINE size == feed.size
  <2>1. size \in Nat \ {0} /\ 0 \in Nat
    BY <1>6
  <2> HIDE DEF p, len, size, n
  <2>2. Least(size, len - p) \in Nat /\ p + Least(size, len - p) <= len
    BY <1>6, <2>1, PieceIs
  <2> QED
    BY <2>2 DEF n, size
<1> HIDE DEF p, n
<1>8. /\ m \in FeedMessages /\ d \in Nat /\ l \in 0 .. MaxTs /\ i \in Nat
      /\ (d # 0 => d < m.len) /\ (~feed.published => i = feed.init[k])
      /\ m.len = IF ends THEN 0 ELSE len
  BY <1>6, <1>7 DEF FeedMessages
<1> HIDE DEF m, l, i, sets
<1>9. /\ f \in Feeds /\ f.published = feed.published /\ f.size = feed.size
      /\ f.msg = [feed.msg EXCEPT ![k] = m] /\ f.done = [feed.done EXCEPT ![k] = d]
      /\ f.init = [feed.init EXCEPT ![k] = i]
  <2> DEFINE g == feed
  <2>1. g \in Feeds /\ m \in FeedMessages /\ d \in Nat /\ l \in 0 .. MaxTs /\ i \in Nat
    BY <1>1, <1>8
  <2> HIDE DEF d, g
  <2>2. LET y == Arrived(g, k, m, d, l, i)
        IN  /\ y \in Feeds /\ y.published = g.published /\ y.size = g.size
            /\ y.msg = [g.msg EXCEPT ![k] = m] /\ y.done = [g.done EXCEPT ![k] = d]
            /\ y.init = [g.init EXCEPT ![k] = i]
    BY <2>1, FeedIsSet
  <2> QED
    BY <2>2 DEF g
<1> HIDE DEF f
<1>10. /\ f.msg[k] = m /\ f.done[k] = d /\ f.init[k] = i
       /\ \A j \in Kinds \ {k} : /\ f.msg[j] = feed.msg[j] /\ f.done[j] = feed.done[j]
                                /\ f.init[j] = feed.init[j]
  <2>1. /\ feed.msg \in [Kinds -> FeedMessages] /\ feed.done \in [Kinds -> Nat]
        /\ feed.init \in [Kinds -> Nat]
    BY <1>1, FeedFields
  <2> HIDE DEF d
  <2> QED
    BY <1>9, <2>1
<1>11. ASSUME w.player.attached
       PROVE  w.player.open /\ Seated(w.player) /\ \A j \in Kinds : w.player.chan[j] \in Reservable /\ w.player.chan[j] \in Channels
  <2>1. w.player.open
    BY <1>1, <1>11 DEF Sound, Fits
  <2> QED
    BY <1>1, <2>1, SoundSeats
<1>12. ASSUME w.player.attached
       PROVE  Feeding(fed, w, k)
  <2>1. w.player.chan[k] \in Channels
    BY <1>11, <1>12
  <2> QED
    BY <1>1, <1>6, <1>7, <2>1, FeedDataIsTyped
<1>13. w.player.paused => fed = w
  BY DEF FeedData
<1> HIDE DEF fed
<1>14. x \in Works /\ Sound(x, feed, pool) /\ Sits(x.player, w.player) /\ x.player.paused = w.player.paused
  <2>1. CASE w.player.attached
    <3>1. Feeding(fed, w, k) /\ x = fed
      BY <1>12, <2>1
    <3>2. BucketsSmall(fed)
      BY <1>1, <3>1, FeedingIsSmall DEF Sound
    <3>3. fed \in Works /\ w.chunk <= fed.chunk /\ Sits(fed.player, w.player)
          /\ fed.player.paused = w.player.paused
      BY <1>1, <3>1, SizesCompare DEF Feeding, Alike, Sits
    <3>4. Sound(fed, feed, pool)
      BY <1>1, <2>1, <3>2, <3>3, StillSound
    <3> QED
      BY <3>1, <3>3, <3>4
  <2>2. CASE ~w.player.attached
    BY <1>1, <2>2 DEF Sits
  <2> QED
    BY <2>1, <2>2
<1>15. Sound(x, f, pool)
  <2>1. ASSUME NEW j \in Kinds
        PROVE  /\ f.done[j] # 0 => f.done[j] < f.msg[j].len
               /\ ~f.published => f.init[j] = 0
    <3>1. /\ feed.done[j] # 0 => feed.done[j] < feed.msg[j].len
          /\ ~feed.published => feed.init[j] = 0
      BY <1>1 DEF Sound, Fits
    <3>2. CASE j = k
      <4> HIDE DEF d
      <4> QED
        BY <1>8, <1>9, <1>10, <3>1, <3>2
    <3>3. CASE j # k
      BY <1>9, <1>10, <3>1, <3>3
    <3> QED
      BY <3>2, <3>3
  <2>2. Fits(x, f)
    BY <1>9, <1>14, <2>1 DEF Sound, Fits
  <2> QED
    BY <1>9, <1>14, <2>2 DEF Sound
<1>16. ASSUME ~cut'
       PROVE  Sync(x, f)
  <2>1. ~cut /\ ~breaks /\ Sync(w, feed) /\ InTouch(w)
    BY <1>1, <1>3, <1>16 DEF Sync
  <2>2. CASE ~w.player.attached
    BY <2>1, <2>2 DEF Sync
  <2>3. CASE w.player.attached /\ w.player.paused
    <3>1. x = w
      BY <1>13, <2>3
    <3> HIDE DEF x
    <3> QED
      BY <2>1, <2>3, <3>1 DEF Sync
  <2>4. CASE w.player.attached /\ ~w.player.paused
    <3>1. Fed(fed, w, k, len, p + n)
      BY <1>1, <1>4, <1>6, <1>7, <2>1, <2>4, FeedDataKeeps DEF fed
    <3>2. x = fed
      BY <2>4
    <3> HIDE DEF x
    <3>3. /\ InTouch(x) /\ \A c \in Channels \ {w.player.chan[k]} : x.chan[c] = w.chan[c]
          /\ Has(x, k, f.msg[k].len, f.done[k])
      BY <1>8, <1>10, <3>1, <3>2 DEF Fed
    <3>4. ASSUME NEW j \in Kinds, j # k
          PROVE  Has(x, j, f.msg[j].len, f.done[j])
      <4>1. w.player.chan[j] # w.player.chan[k] /\ w.player.chan[j] \in Channels
        BY <1>11, <2>4, <3>4 DEF Seated, Kinds
      <4>2. x.chan[w.player.chan[j]] = w.chan[w.player.chan[j]]
        BY <3>3, <4>1
      <4>3. Has(w, j, feed.msg[j].len, feed.done[j])
        BY <2>1, <2>4 DEF Sync
      <4>4. /\ Alike(x.player, w.player) /\ x.player.first[j] = w.player.first[j]
            /\ x.player.dropped[j] = w.player.dropped[j] /\ x.player.ts[j] = w.player.ts[j]
            /\ x.player.bucket[j] = w.player.bucket[j]
        BY <1>12, <2>4, <3>2, <3>4 DEF Feeding
      <4>5. Has(x, j, feed.msg[j].len, feed.done[j])
        BY <4>2, <4>3, <4>4, OtherHas
      <4> QED
        BY <1>10, <3>4, <4>5
    <3>5. \A j \in Kinds : Has(x, j, f.msg[j].len, f.done[j])
      BY <3>3, <3>4
    <3> QED
      BY <3>3, <3>5 DEF Sync
  <2> QED
    BY <2>2, <2>3, <2>4
<1> HIDE DEF x
<1>17. cut' \in BOOLEAN
  BY <1>1, <1>3, <1>5
<1>18. Sound(x, feed', pool') /\ plays' \in 0 .. MaxPlays /\ (~cut' => Sync(x, feed'))
  BY <1>1, <1>2, <1>3, <1>15, <1>16
<1> QED
  BY <1>3, <1>14, <1>17, <1>18, NextIs

LEMMA MessageStartsSteps ==
  ASSUME IInv, NEW k \in FedKinds, NEW full \in BOOLEAN, MessageStarts(k, full)
  PROVE  IInv'
<1>1. k \in Kinds
  BY ParametersAssumption DEF Kinds
<1>2. feed.done[k] = 0 /\ feed \in Feeds
  BY WorkHolds DEF MessageStarts
<1>3. PICK len \in Lengths, ts \in feed.msg[k].ts .. MaxTs, f \in Flavors(k) :
        Piece(k, [len |-> len, ts |-> ts, flavor |-> f], full)
  BY DEF MessageStarts
<1> DEFINE msg == [len |-> len, ts |-> ts, flavor |-> f]
<1>4. msg \in FeedMessages /\ msg.len = len
  <2>1. feed.msg[k] \in FeedMessages
    BY <1>1, <1>2, FeedFields
  <2>2. feed.msg[k].ts \in Nat
    BY <2>1, Parameters DEF FeedMessages
  <2>3. ts \in 0 .. MaxTs
    BY <2>2, Parameters
  <2>4. f \in {"key", "inter", "setup"}
    BY DEF Flavors
  <2>5. len \in Nat
    BY ParametersAssumption
  <2> QED
    BY <2>3, <2>4, <2>5 DEF FeedMessages
<1>5. Piece(k, msg, full)
  BY <1>3
<1> HIDE DEF msg
<1>6. ASSUME ~cut, player.attached, ~player.paused
      PROVE  Has(Work, k, msg.len, feed.done[k])
  <2> DEFINE w == Work
  <2>1. w \in Works /\ Sound(w, feed, pool) /\ Sync(w, feed)
    BY <1>6, WorkHolds
  <2>2. w.player.attached /\ ~w.player.paused
    BY <1>6, FieldsAre
  <2> HIDE DEF w
  <2>3. w.player.chan[k] \in Channels
    <3>1. w.player.open
      BY <2>1, <2>2 DEF Sound, Fits
    <3> QED
      BY <1>1, <2>1, <3>1, SoundSeats
  <2>4. Has(w, k, feed.msg[k].len, 0)
    BY <1>1, <1>2, <2>1, <2>2 DEF Sync
  <2>5. Has(w, k, msg.len, 0)
    BY <1>1, <2>1, <2>3, <2>4, HasAnyLength
  <2> QED
    BY <1>2, <2>5 DEF w
<1> QED
  BY <1>1, <1>2, <1>4, <1>5, <1>6, PieceSteps

LEMMA MessageContinuesSteps ==
  ASSUME IInv, NEW k \in FedKinds, NEW full \in BOOLEAN, MessageContinues(k, full)
  PROVE  IInv'
<1> DEFINE msg == feed.msg[k]
<1>1. k \in Kinds
  BY ParametersAssumption DEF Kinds
<1>2. feed \in Feeds /\ Sound(Work, feed, pool)
  BY WorkHolds
<1>3. msg \in FeedMessages /\ (feed.done[k] # 0 => feed.done[k] < msg.len)
  <2>1. msg \in FeedMessages
    BY <1>1, <1>2, FeedFields
  <2>2. feed.done[k] # 0 => feed.done[k] < msg.len
    BY <1>1, <1>2 DEF Sound, Fits
  <2> QED
    BY <2>1, <2>2
<1>4. ASSUME ~cut, player.attached, ~player.paused
      PROVE  Has(Work, k, msg.len, feed.done[k])
  <2> DEFINE w == Work
  <2>1. Sync(w, feed)
    BY <1>4, WorkHolds
  <2>2. w.player.attached /\ ~w.player.paused
    BY <1>4, FieldsAre
  <2> HIDE DEF w
  <2>3. Has(w, k, msg.len, feed.done[k])
    BY <1>1, <2>1, <2>2 DEF Sync
  <2> QED
    BY <2>3 DEF w
<1>5. Piece(k, msg, full)
  BY DEF MessageContinues
<1> HIDE DEF msg
<1> QED
  BY <1>1, <1>3, <1>4, <1>5, PieceSteps

-----------------------------------------------------------------------------
(* The specification. *)

LEMMA InitHolds ==
  ASSUME Init
  PROVE  IInv
<1> DEFINE w == Work
<1>1. DefaultSize \in Sizes
  <2>1. \E x \in Sizes : \A y \in Sizes : x <= y
    <3>1. Sizes \subseteq Nat /\ Sizes # {}
      BY ParametersAssumption
    <3> QED
      BY <3>1, LeastNumber
  <2> QED
    BY <2>1 DEF DefaultSize
<1>2. /\ w.chan = [c \in Channels |-> FreshOut] /\ w.chunk = DefaultSize /\ w.player = NoPlayer
      /\ w.peer = [chunk |-> DefaultSize, sel |-> 0, buffer |-> <<>>,
                   chans |-> [c \in Channels |-> FreshIn], garbled |-> FALSE,
                   mistimed |-> FALSE]
      /\ w = [chan |-> w.chan, chunk |-> w.chunk, player |-> w.player, peer |-> w.peer]
  BY FieldsAre DEF Init, Work
<1> HIDE DEF w
<1>3. w.peer \in Peers
  BY <1>1, <1>2, FreshIsTyped DEF Peers
<1>4. w \in Works
  <2>1. w.chan \in [Channels -> OutChannels]
    BY <1>2, FreshIsTyped
  <2>2. w.chunk \in Sizes /\ w.player \in Players
    BY <1>1, <1>2, NoPlayerIs
  <2> QED
    BY <1>2, <1>3, <2>1, <2>2, WorkIs, ZenonT(60)
<1>5. feed \in Feeds
  <2>1. 0 \in 0 .. MaxTs
    BY Parameters
  <2>2. [len |-> 0, ts |-> 0, flavor |-> "inter"] \in FeedMessages
    BY <2>1 DEF FeedMessages
  <2>3. /\ [k \in Kinds |-> [len |-> 0, ts |-> 0, flavor |-> "inter"]] \in [Kinds -> FeedMessages]
        /\ [k \in Kinds |-> 0] \in [Kinds -> Nat]
    BY <2>2
  <2> QED
    BY <1>1, <2>1, <2>3 DEF Init, Feeds
<1>6. Unfed(w.player) /\ w.player.attached = FALSE /\ w.player.open = FALSE
  BY <1>2, NoPlayerIs DEF NoPlayer
<1>7. BucketsSmall(w)
  BY <1>4, <1>6, UnfedIs
<1>8. ChannelsHeld(w.player, pool)
  <2>1. /\ <<20, 21, 22>> \in Seq(Reservable) /\ Len(<<20, 21, 22>>) = 3
        /\ \A i, j \in 1 .. 3 : <<20, 21, 22>>[i] = <<20, 21, 22>>[j] => i = j
    BY ChannelsAre
  <2> QED
    BY <1>6, <2>1 DEF Init, ChannelsHeld
<1>9. Fits(w, feed)
  <2>1. /\ \A k \in Kinds : feed.done[k] = 0 /\ feed.init[k] = 0
    BY DEF Init
  <2> QED
    BY <1>6, <2>1 DEF Fits
<1>10. Sound(w, feed, pool)
  BY <1>4, <1>5, <1>7, <1>8, <1>9 DEF Sound
<1>11. Sync(w, feed)
  <2>1. ASSUME NEW c \in Channels
        PROVE  Same(w.chan[c], w.peer.chans[c]) /\ w.chan[c].proc = 0
    <3>1. w.chan[c] = FreshOut /\ w.peer.chans[c] = FreshIn
      BY <1>2
    <3> QED
      BY <3>1, FreshIsTyped DEF Same
  <2>2. Waits(w.peer) /\ w.peer.chunk = w.chunk
    BY <1>2 DEF Waits
  <2>3. InTouch(w)
    BY <2>1, <2>2, ChannelsAre DEF InTouch, Touches
  <2> QED
    BY <1>6, <2>3 DEF Sync
<1>12. plays \in 0 .. MaxPlays /\ cut \in BOOLEAN
  <2>1. plays = 0 /\ cut = FALSE
    BY DEF Init
  <2>2. 0 \in 0 .. MaxPlays
    BY ParametersAssumption
  <2> QED
    BY <2>1, <2>2
<1> QED
  BY <1>10, <1>11, <1>12 DEF IInv, Types, w

LEMMA StepHolds ==
  ASSUME IInv, [Next]_vars
  PROVE  IInv'
<1>1. CASE UNCHANGED vars
  BY <1>1 DEF vars, IInv, Types, Sync, Sound, Work
<1>2. ASSUME NEW si \in StreamIds, NEW told \in BOOLEAN, Play(si, told)
      PROVE  IInv'
  BY <1>2, PlaySteps
<1>3. CASE Close
  BY <1>3, CloseSteps
<1>4. CASE Publish
  BY <1>4, PublishSteps
<1>5. CASE Unpublish
  BY <1>5, UnpublishSteps
<1>6. ASSUME NEW s \in Sizes, PublisherSetsChunkSize(s)
      PROVE  IInv'
  BY <1>6, PublisherSetsChunkSizeSteps
<1>7. ASSUME NEW k \in FedKinds, NEW full \in BOOLEAN, MessageStarts(k, full)
      PROVE  IInv'
  BY <1>7, MessageStartsSteps
<1>8. ASSUME NEW k \in FedKinds, NEW full \in BOOLEAN, MessageContinues(k, full)
      PROVE  IInv'
  BY <1>8, MessageContinuesSteps
<1>9. ASSUME NEW si \in CommandIds, NEW ia \in BOOLEAN, Command(si, ia)
      PROVE  IInv'
  BY <1>9, CommandSteps
<1>10. CASE Pause
  BY <1>10, PauseSteps
<1>11. ASSUME NEW offset \in Offsets, Seek(offset)
       PROVE  IInv'
  BY <1>11, SeekSteps
<1>12. ASSUME NEW offset \in Offsets, Resume(offset)
       PROVE  IInv'
  BY <1>12, ResumeSteps
<1>13. ASSUME NEW c \in AbortedChannels, PeerAborts(c)
       PROVE  IInv'
  BY <1>13, PeerAbortsSteps
<1> QED
  BY <1>1, <1>2, <1>3, <1>4, <1>5, <1>6, <1>7, <1>8, <1>9, <1>10, <1>11, <1>12, <1>13
  DEF Next

\* Whatever arrives, is sent, dropped, aborted or sought: types are kept, and until a
\* message is cut the two ends of every channel agree, and the player has all of every
\* message that comes, or nothing.
THEOREM ChunksInvariant == Spec => []IInv
<1>1. Init => IInv
  BY InitHolds
<1>2. IInv /\ [Next]_vars => IInv'
  BY StepHolds
<1> QED
  BY <1>1, <1>2, PTL DEF Spec

LEMMA TypesShow ==
  ASSUME Types, ~cut => Touches(Work)
  PROVE  InStep
<1> DEFINE w == Work
<1>1. /\ w \in Works /\ Sound(w, feed, pool) /\ plays \in 0 .. MaxPlays /\ cut \in BOOLEAN
      /\ (~cut => Touches(w))
  BY DEF Types, Sound
<1>2. out = w.chan /\ outChunk = w.chunk /\ player = w.player /\ peer = w.peer
  BY FieldsAre
<1> HIDE DEF w
<1>3. /\ w.chan \in [Channels -> OutChannels] /\ w.chunk \in Sizes
      /\ w.player \in Players /\ w.peer \in Peers
  BY <1>1, WorkFields
<1>4. ASSUME NEW c \in Channels
      PROVE  /\ w.chan[c].sid \in StreamIds \cup CommandIds \cup {NoStream, 0}
             /\ w.chan[c].absTs \in 0 .. TsRange - 1
             /\ w.peer.chans[c].absTs \in 0 .. TsRange - 1
             /\ ~cut => w.chan[c].proc \in 0 .. w.chan[c].hdr.ml
  <2>1. w.chan[c] \in OutChannels /\ w.peer.chans[c] \in InChannels
    BY <1>3, PeerFields
  <2>2. /\ w.chan[c].sid \in Ids \cup {NoStream} /\ w.chan[c].absTs \in Times
        /\ w.peer.chans[c].absTs \in Times
    BY <2>1, OutFields, InFields
  <2>3. w.chan[c].proc \in Nat /\ w.chan[c].hdr.ml \in Nat
    BY <2>1 DEF OutChannels, Headers
  <2>4. ~cut => w.chan[c].proc = 0 \/ w.chan[c].proc < w.chan[c].hdr.ml
    BY <1>1 DEF Touches, Same
  <2> QED
    BY <2>2, <2>3, <2>4 DEF Ids, Times
<1>5. w.player.open <=> pool = <<>>
  <2>1. CASE w.player.open
    BY <1>1, <2>1 DEF Sound, ChannelsHeld
  <2>2. CASE ~w.player.open
    <3>1. Len(pool) = 3
      BY <1>1, <2>2 DEF Sound, ChannelsHeld
    <3>2. pool # <<>>
      BY <3>1
    <3> QED
      BY <2>2, <3>2
  <2> QED
    BY <2>1, <2>2
<1>6. w.player.attached <=> w.player.open /\ feed.published
  BY <1>1 DEF Sound, Fits
<1>7. ASSUME NEW k \in Kinds
      PROVE  /\ w.player.open => w.player.chan[k] \in Reservable
             /\ Len(w.player.bucket[k]) < w.chunk
  <2>1. w.player.open => w.player.chan[k] \in Reservable
    BY <1>1, SoundSeats
  <2>2. Len(w.player.bucket[k]) < w.chunk
    BY <1>1 DEF Sound, BucketsSmall
  <2> QED
    BY <2>1, <2>2
<1>8. TypeOK
  BY <1>1, <1>2, <1>3, <1>4, <1>5, <1>6, <1>7 DEF TypeOK
<1>9. ~cut => Understood
  <2> SUFFICES ASSUME ~cut PROVE Understood
    OBVIOUS
  <2>1. Touches(w)
    BY <1>1
  <2>2. Waits(peer) /\ peer.chunk = outChunk
    BY <1>2, <2>1 DEF Touches
  <2>3. ASSUME NEW c \in Channels, out[c].sid # NoStream
        PROVE  /\ peer.chans[c].proc = out[c].proc /\ peer.chans[c].absTs = out[c].absTs
               /\ peer.chans[c].hdr = out[c].hdr
    BY <1>2, <2>1, <2>3 DEF Touches, Same
  <2> QED
    BY <2>2, <2>3 DEF Understood, Waits
<1> QED
  BY <1>8, <1>9 DEF InStep

\* Until a message is cut, the connection and its peer never disagree on a channel: what
\* Header::Write leaves out is what the peer has, on every channel, in any order of the
\* events, however often channels change hands.
THEOREM PeerInStep == Spec => []InStep
<1>1. IInv => InStep
  BY TypesShow DEF IInv, Sync, InTouch
<1> QED
  BY <1>1, ChunksInvariant, PTL

\* Until a message is cut, a message is sent as a whole or not at all, whatever the chunks of
\* the publisher and of the player are.
THEOREM MessagesWhole == Spec => []AllOrNothing
<1>1. ASSUME IInv
      PROVE  AllOrNothing
  <2> SUFFICES ASSUME ~cut, player.attached, ~player.paused, NEW k \in Kinds
               PROVE  Forwarded(Work, k) \in {0, feed.done[k]}
    BY DEF AllOrNothing
  <2> DEFINE w == Work
  <2>1. Sync(w, feed) /\ w.player.attached /\ ~w.player.paused
    BY <1>1, FieldsAre DEF IInv
  <2> HIDE DEF w
  <2>2. Has(w, k, feed.msg[k].len, feed.done[k])
    BY <2>1 DEF Sync
  <2>3. Forwarded(w, k) \in {0, feed.done[k]}
    BY <2>2 DEF Has
  <2> QED
    BY <2>3 DEF w
<1> QED
  BY <1>1, ChunksInvariant, PTL

\* Until a message is cut, the timestamps that the peer adds up are the times the later
\* frames are due, modulo 2^32, whatever was dropped or said in between.
THEOREM FramesOnTime == Spec => []LaterFramesOnTime
<1>1. ASSUME IInv
      PROVE  LaterFramesOnTime
  <2> SUFFICES ASSUME ~cut PROVE ~peer.mistimed
    BY DEF LaterFramesOnTime
  <2>1. Waits(Work.peer)
    BY <1>1 DEF IInv, Sync, InTouch, Touches
  <2> QED
    BY <2>1, FieldsAre DEF Waits
<1> QED
  BY <1>1, ChunksInvariant, PTL
============================================================================
