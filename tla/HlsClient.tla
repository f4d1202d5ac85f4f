------------------------------- MODULE HlsClient -------------------------------
(***************************************************************************)
(* The applestreamingclient application: one RTMP connection asks for a    *)
(* stream, a ClientContext fetches the master playlist, the playlists of   *)
(* the renditions, the keys and the chunks over HTTP, each by a connection *)
(* of its own, and a timer feeds the chunks to a TS protocol.  The next    *)
(* thing is fetched by the handler of the last one, or by a job of the     *)
(* timer: nothing else goes on by itself.  The origin is a mock.           *)
(***************************************************************************)
EXTENDS Integers, Sequences, SequencesExt, FiniteSetsExt, TLC

CONSTANTS
  Masters,       \* master playlists, the bandwidths of their items; <<>> has none
  Keyed,         \* the chunks that are encrypted, by sequence number
  FirstSequence, LastSequence,  \* the chunks there will be
  WindowSize,    \* how many of them a playlist names
  Pieces,        \* reads that a chunk takes
  MaxBuffer,     \* pieces, _maxAVBufferSize
  MaxContexts    \* bound on the contexts made

ASSUME HlsAssumption ==
  /\ WindowSize \in Nat \ {0} /\ Pieces \in Nat \ {0} /\ MaxBuffer \in Nat
  /\ FirstSequence \in Nat /\ LastSequence \in Nat /\ MaxContexts \in Nat

VARIABLES
  hls,      \* the ClientContext of the connection, or NoContext
  contexts, \* ClientContext::_idGenerator
  fetches,  \* the HTTP connections, of this context and of earlier ones
  window,   \* origin: the first chunk the playlists name
  heard,    \* history: the last two pieces put into _avData
  amiss,    \* history: what happened that the context is not made for
  halted    \* a NULL playlist was used

hlsVars == <<hls, contexts, fetches, window, heard, amiss, halted>>

NoContext == [id |-> 0]
NoKey == -1
\* Not to be confused with media sequences: what a rendition without BANDWIDTH gets.
DefaultBandwidth == 500000

-----------------------------------------------------------------------------
(* The origin (external) and Playlist *)

\* The text of a playlist: a KEY line where encryption begins and where it ends.
Lines ==
  LET last == IF window + WindowSize - 1 > LastSequence THEN LastSequence
              ELSE window + WindowSize - 1
      Turns(n) == IF n = window THEN n \in Keyed ELSE (n \in Keyed) # (n - 1 \in Keyed)
      Item(n) == (IF Turns(n) THEN <<[tag |-> "key", n |-> IF n \in Keyed THEN n ELSE NoKey]>>
                  ELSE <<>>)
                 \o <<[tag |-> "inf", n |-> n], [tag |-> "uri", n |-> n]>>
  IN  <<[tag |-> "sequence", n |-> window]>>
        \o FlattenSeq([i \in 1 .. last - window + 1 |-> Item(window + i - 1)])

\* Parse: the items by media sequence; a key holds until the next KEY line.
ParseLine(list, line) ==
  CASE line.tag = "sequence" -> [list EXCEPT !.next = line.n]
    [] line.tag = "key" -> [list EXCEPT !.key = line.n]
    [] line.tag = "uri" ->
         [list EXCEPT !.next = @ + 1,
                      !.items = [n \in DOMAIN @ \cup {list.next} |->
                                   IF n = list.next
                                   THEN [uri |-> line.n, keyed |-> list.key # NoKey]
                                   ELSE @[n]]]
    [] OTHER -> list
Parse(lines) ==
  FoldLeft(ParseLine, [next |-> 0, key |-> NoKey, items |-> <<>>], lines).items

\* GetIndex, which moves the sequence: to the first item when there is none yet, or on
\* to the next item there is.  The test for that reads the end of a map, so it may
\* as well not be made.
Sequences(items, sequence) ==
  LET later == {n \in DOMAIN items : n >= sequence}
  IN  IF sequence \in DOMAIN items THEN {sequence}
      ELSE IF sequence = 0 THEN IF DOMAIN items = {} THEN {} ELSE {Min(DOMAIN items)}
      ELSE IF later = {} THEN {} ELSE {Min(later)}
MayMiss(items, sequence) ==
  Sequences(items, sequence) = {}
    \/ (sequence # 0 /\ sequence \notin DOMAIN items)

-----------------------------------------------------------------------------
(* ClientContext.  A handler works on the record of it all; it has several   *)
(* outcomes, each with what it returns.                                      *)

HlsWorld == [ctx |-> hls, net |-> fetches, amiss |-> amiss, halted |-> halted]
Done(w) == {[w |-> w, ok |-> TRUE]}
Failed(w) == {[w |-> w, ok |-> FALSE]}
Amiss(w, what) == [w EXCEPT !.amiss = @ \cup {what}]

Request(kind, bw, sequence, iv) ==
  [kind |-> kind, bw |-> bw, sequence |-> sequence, iv |-> iv,
   stage |-> "dialing", got |-> 0]
\* FetchURI: the connector waits for the outcome, or connecting fails at once.
FetchURI(w, request) ==
  Done([w EXCEPT !.net = Append(@, [of |-> w.ctx.id, makesTs |-> ~w.ctx.ts] @@ request)])
    \cup Failed(Amiss(w, "lost"))
FetchTS(w, bw, sequence, iv) == FetchURI(w, Request("ts", bw, sequence, iv))

\* EnqueueStartFeeding, EnqueueFetchChildPlaylist: without the timer they fail.
EnqueueJob(w, job) ==
  IF w.ctx.timer THEN Done([w EXCEPT !.ctx.jobs = Append(@, job)]) ELSE Failed(w)

\* The optimal bandwidth is that of the first playlist, for good.
OptimalBw(ctx) ==
  IF ctx.optimalBw # 0 \/ DOMAIN ctx.children = {} THEN ctx.optimalBw
  ELSE Min(DOMAIN ctx.children)

FetchItem(w, sequence) ==
  LET v == [w EXCEPT !.ctx.sequence = sequence]
      item == v.ctx.children[v.ctx.optimalBw][sequence]
  IN  IF item.keyed THEN FetchURI(v, Request("key", v.ctx.optimalBw, item.uri, NoKey))
      ELSE FetchTS(v, v.ctx.optimalBw, item.uri, NoKey)

StartFeeding(w) ==
  IF Len(w.ctx.avData) > MaxBuffer THEN EnqueueJob(w, [type |-> "startFeeding"])
  ELSE IF w.ctx.parsed < Cardinality(DOMAIN w.ctx.children) THEN Done(w)
  ELSE LET v == [w EXCEPT !.ctx.optimalBw = OptimalBw(w.ctx)]
           bw == v.ctx.optimalBw
       IN  IF bw \notin DOMAIN v.ctx.children THEN Done([v EXCEPT !.halted = TRUE])
           ELSE LET items == v.ctx.children[bw]
                IN  UNION {FetchItem(v, n) : n \in Sequences(items, v.ctx.sequence)}
                    \cup (IF MayMiss(items, v.ctx.sequence)
                          THEN EnqueueJob(v, [type |-> "fetchChildPlaylist", bw |-> bw])
                          ELSE {})

Bandwidth(bw) == IF bw < 10000 THEN bw * 1024 ELSE bw

\* SignalMasterPlaylistAvailable: a bandwidth that is there already ends the loop.
RECURSIVE FetchChildren(_, _)
FetchChildren(w, bws) ==
  IF bws = <<>> THEN Done(w)
  ELSE LET bw == Bandwidth(Head(bws))
       IN  IF bw \in DOMAIN w.ctx.children THEN Failed(w)
           ELSE UNION {IF r.ok THEN FetchChildren(r.w, Tail(bws)) ELSE {r} :
                         r \in FetchURI([w EXCEPT !.ctx.children = @ @@ (bw :> <<>>)],
                                        Request("child", bw, 0, NoKey))}
SignalMasterPlaylistAvailable(w, bws, informed) ==
  FetchChildren(w, IF informed THEN bws ELSE <<DefaultBandwidth>>)

\* The count is only compared with the number of playlists.
SignalChildPlaylistAvailable(w, bw, items) ==
  StartFeeding([w EXCEPT !.ctx.children[bw] = items,
                         !.ctx.parsed = IF @ > Cardinality(DOMAIN w.ctx.children) THEN @ ELSE @ + 1])

\* A bug the project checks for: the others are not gone on with.
SignalChildPlaylistRemoved(w, bw) ==
  Done([w EXCEPT !.ctx.children = [b \in DOMAIN @ \ {bw} |-> @[b]]])
SignalChildPlaylistNotAvailable(w, bw) ==
  IF bw \notin DOMAIN w.ctx.children THEN Done(w)
  ELSE StartFeeding([w EXCEPT !.ctx.children = [b \in DOMAIN @ \ {bw} |-> @[b]]])

SignalAESKeyAvailable(w, fetch) ==
  FetchTS(w, fetch.bw, fetch.sequence, w.ctx.sequence)
SignalTSChunkComplete(w) == StartFeeding([w EXCEPT !.ctx.sequence = @ + 1])

-----------------------------------------------------------------------------
(* The connection that asks *)

HlsInit ==
  /\ hls = NoContext /\ contexts = 0 /\ fetches = <<>>
  /\ window = FirstSequence /\ heard = <<>> /\ amiss = {} /\ halted = FALSE

\* What a handler leaves behind.
HlsSettle(w) ==
  /\ hls' = w.ctx /\ fetches' = w.net /\ amiss' = w.amiss /\ halted' = w.halted

NewContext ==
  [id |-> contexts + 1, children |-> <<>>, parsed |-> 0, sequence |-> 0, optimalBw |-> 0,
   ts |-> FALSE, avData |-> <<>>, jobs |-> <<>>, timer |-> TRUE]

\* ProcessSetupStream: the old context is released; when StartProcessing fails the
\* connection is closed and the new one is, too.
StartProcessing(w) == FetchURI(w, Request("master", 0, 0, NoKey))
SetupStream ==
  /\ contexts < MaxContexts
  /\ \E r \in StartProcessing([HlsWorld EXCEPT !.ctx = NewContext, !.amiss = {}]) :
       HlsSettle(IF r.ok THEN r.w ELSE [r.w EXCEPT !.ctx = NoContext])
  /\ contexts' = contexts + 1 /\ heard' = <<>>
  /\ UNCHANGED window

\* UnRegisterProtocol of the RTMP connection.
HangUp ==
  /\ hls # NoContext
  /\ hls' = NoContext /\ amiss' = {} /\ heard' = <<>>
  /\ UNCHANGED <<contexts, fetches, window, halted>>

-----------------------------------------------------------------------------
(* The HTTP connections *)

Alive(fetch) == fetch.of = hls.id
WithoutFetch(i) == [HlsWorld EXCEPT !.net = RemoveAt(@, i)]
Awaited(i, kind) ==
  /\ i \in DOMAIN fetches
  /\ fetches[i].stage = "requested" /\ fetches[i].kind = kind /\ Alive(fetches[i])

\* A connection of a context that is gone ends when it is made or answered.
Orphaned(i) ==
  /\ ~Alive(fetches[i])
  /\ HlsSettle(WithoutFetch(i))
  /\ UNCHANGED <<contexts, window, heard>>

\* SignalProtocolCreated and the RegisterProtocol of the handlers: the request is
\* sent; the first chunk brings the TS protocol, which survives its connection.
FetchConnected(i) ==
  LET fetch == fetches[i]
      fails == \/ fetch.kind = "child" /\ fetch.bw = 0
               \/ fetch.kind = "ts" /\ fetch.makesTs /\ hls.ts
  IN  /\ Alive(fetch) /\ fetch.stage = "dialing"
      /\ HlsSettle(IF fails THEN Amiss(WithoutFetch(i), "lost")
                ELSE [HlsWorld EXCEPT !.net[i].stage = "requested",
                                   !.ctx.ts = @ \/ fetch.kind = "ts"])
      /\ UNCHANGED <<contexts, window, heard>>

\* The connection is not made, or lost: nobody is told.
FetchLost(i) ==
  /\ Alive(fetches[i])
  /\ HlsSettle(Amiss(WithoutFetch(i), "lost"))
  /\ UNCHANGED <<contexts, window, heard>>

\* A master playlist, whose items may have no BANDWIDTH: it is a rendition itself.
MasterAnswered(i) ==
  /\ Awaited(i, "master")
  /\ \E bws \in Masters, informed \in BOOLEAN :
       /\ informed \/ bws # <<>>
       /\ \E r \in SignalMasterPlaylistAvailable(WithoutFetch(i), bws, informed) : HlsSettle(r.w)
  /\ UNCHANGED <<contexts, window, heard>>

\* A response without a length counts as empty, and so does its playlist.
ChildAnswered(i) ==
  /\ Awaited(i, "child")
  /\ \E items \in {Parse(Lines), <<>>} :
       \E r \in SignalChildPlaylistAvailable(WithoutFetch(i), fetches[i].bw, items) : HlsSettle(r.w)
  /\ UNCHANGED <<contexts, window, heard>>

\* Not 200: the rendition is given up, be it the one in use or the last one.
ChildRefused(i) ==
  /\ Awaited(i, "child")
  /\ LET bw == fetches[i].bw
         w == WithoutFetch(i)
     IN  \E r \in SignalChildPlaylistNotAvailable(
                    IF bw = hls.optimalBw \/ DOMAIN hls.children = {bw}
                    THEN Amiss(w, "refused") ELSE w, bw) : HlsSettle(r.w)
  /\ UNCHANGED <<contexts, window, heard>>

KeyAnswered(i) ==
  /\ Awaited(i, "key")
  /\ \E r \in SignalAESKeyAvailable(WithoutFetch(i), fetches[i]) : HlsSettle(r.w)
  /\ UNCHANGED <<contexts, window, heard>>

\* Not 200, or no key: only the connection ends.
AnswerUseless(i) ==
  /\ Awaited(i, "key") \/ Awaited(i, "master")
  /\ HlsSettle(Amiss(WithoutFetch(i), "lost"))
  /\ UNCHANGED <<contexts, window, heard>>

Heard(piece) ==
  heard' = IF heard = <<>> THEN <<piece>> ELSE <<Last(heard), piece>>
PieceOf(fetch, part) == [sequence |-> fetch.sequence, iv |-> fetch.iv, part |-> part]

\* HTTPBufferProtocol, InboundAESProtocol: what comes is put into _avData at once.
TSPiece(i) ==
  /\ Awaited(i, "ts")
  /\ LET piece == PieceOf(fetches[i], fetches[i].got + 1)
     IN  /\ IF piece.part < Pieces
            THEN HlsSettle([HlsWorld EXCEPT !.net[i].got = piece.part,
                                      !.ctx.avData = Append(@, piece)])
            ELSE \E r \in SignalTSChunkComplete(
                            [WithoutFetch(i) EXCEPT !.ctx.avData = Append(@, piece)]) :
                   HlsSettle(r.w)
         /\ Heard(piece)
  /\ UNCHANGED <<contexts, window>>

\* The page of an error is taken for a chunk, unless it cannot be decrypted; a
\* response without a length for an empty one.
TSPage(i) ==
  /\ Awaited(i, "ts") /\ fetches[i].got = 0
  /\ \/ \E r \in SignalTSChunkComplete(Amiss(WithoutFetch(i), "skipped")) : HlsSettle(r.w)
     \/ LET w == Amiss([WithoutFetch(i) EXCEPT
                          !.ctx.avData = Append(@, PieceOf(fetches[i], 0))], "page")
        IN  \E r \in SignalTSChunkComplete(w) : HlsSettle(r.w)
     \/ /\ fetches[i].iv # NoKey
        /\ HlsSettle(Amiss(WithoutFetch(i), "page"))
  /\ UNCHANGED <<contexts, window, heard>>

-----------------------------------------------------------------------------
(* The schedule timer *)

ProcessJob(w, job) ==
  IF job.type = "startFeeding" THEN StartFeeding(w)
  ELSE FetchURI(w, Request("child", job.bw, 0, NoKey))

\* A job that fails ends the timer, and what waits in it.
RECURSIVE ProcessJobs(_, _)
ProcessJobs(w, jobs) ==
  IF jobs = <<>> THEN {w}
  ELSE UNION {IF r.ok THEN ProcessJobs(r.w, Tail(jobs))
              ELSE {[r.w EXCEPT !.ctx.timer = FALSE, !.ctx.jobs = <<>>]} :
                r \in ProcessJob(w, Head(jobs))}

\* TimePeriodElapsed: ConsumeAVBuffer is the first job, and feeds to the TS protocol
\* as much as it takes to keep up with the clock, or nothing; a page may be too
\* much for it.
ScheduleTick ==
  /\ hls # NoContext /\ hls.timer /\ hls.avData \o hls.jobs # <<>>
  /\ \E n \in 0 .. Len(hls.avData) :
       /\ n > 0 => hls.ts
       /\ LET w == [HlsWorld EXCEPT !.ctx.avData = SubSeq(@, n + 1, Len(@)), !.ctx.jobs = <<>>]
          IN  \/ \E v \in ProcessJobs(w, hls.jobs) : HlsSettle(v)
              \/ /\ \E k \in 1 .. n : hls.avData[k].part = 0
                 /\ HlsSettle([w EXCEPT !.ctx.timer = FALSE])
  /\ UNCHANGED <<contexts, window, heard>>

\* The origin goes on.
Slide ==
  /\ window < LastSequence
  /\ window' = window + 1
  /\ UNCHANGED <<hls, contexts, fetches, heard, amiss, halted>>

HlsNext ==
  /\ ~halted
  /\ \/ SetupStream \/ HangUp \/ ScheduleTick \/ Slide
     \/ \E i \in DOMAIN fetches :
          \/ Orphaned(i) \/ FetchConnected(i) \/ FetchLost(i)
          \/ MasterAnswered(i) \/ ChildAnswered(i) \/ ChildRefused(i)
          \/ KeyAnswered(i) \/ AnswerUseless(i) \/ TSPiece(i) \/ TSPage(i)

HlsSpec == HlsInit /\ [][HlsNext]_hlsVars

-----------------------------------------------------------------------------
(* Properties *)

\* What the context waits for: each playlist of the master that was not answered,
\* then exactly one thing, whatever fails but a connection.
ChainGoesOn ==
  hls # NoContext /\ amiss \cap {"lost", "page", "refused"} = {} =>
    LET own == SelectSeq(fetches, Alive)
        pending == Len(own) + Len(hls.jobs)
        children == Cardinality(DOMAIN hls.children)
    IN  /\ hls.timer
        /\ IF children = 0 THEN pending <= 1
           ELSE IF hls.parsed < children
           THEN /\ hls.jobs = <<>> /\ Len(own) = children - hls.parsed
                /\ \A i \in DOMAIN own : own[i].kind = "child"
           ELSE pending = 1

\* The player hears whole chunks in the order of the origin, decrypted with their own
\* number, and misses some only when the origin has dropped them or sent none.
ChunksInOrder ==
  /\ \A i \in DOMAIN heard :
       heard[i].iv = IF heard[i].sequence \in Keyed THEN heard[i].sequence ELSE NoKey
  /\ Len(heard) = 2 /\ "page" \notin amiss =>
       LET q == heard[1]
           p == heard[2]
       IN  \/ p.sequence = q.sequence /\ p.part = q.part + 1
           \/ /\ q.part = Pieces /\ p.part = 1 /\ p.sequence > q.sequence
              /\ p.sequence = q.sequence + 1 \/ p.sequence <= window \/ "skipped" \in amiss

\* Once asked for, a stream goes on being fetched and is heard in order until a
\* connection or a response fails it, and no playlist is used that was given up,
\* unless the one in use was (ClientContext, ScheduleTimerProtocol, Playlist).
StreamIsFetched ==
  /\ ChainGoesOn /\ ChunksInOrder
  /\ halted => "refused" \in amiss
=============================================================================
