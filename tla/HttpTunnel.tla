------------------------------ MODULE HttpTunnel ------------------------------
(***************************************************************************)
(* RTMP tunnelled over HTTP (RTMPT): the framing of requests by            *)
(* BaseHTTPProtocol and the sessions of InboundHTTP4RTMP, whose RTMP       *)
(* protocols outlive the connections that carry them.  A head arrives      *)
(* whole: what precedes its end changes nothing.  A body arrives in        *)
(* whatever pieces the network makes of it.                                *)
(***************************************************************************)
EXTENDS Naturals, FiniteSetsExt, Sequences, TLC

CONSTANTS
  Carriers,      \* slots for the TCP connections
  BodySize,      \* bytes in the body of a send
  MaxProtocols,  \* bound on the identifiers given to protocols
  MaxSends       \* bound on the sends of all sessions

ASSUME TunnelAssumption == BodySize \in Nat \ {0}

Byte(s, i, k) == [sid |-> s, item |-> i, at |-> k]
Filler == Byte(0, 0, 1)
HeadOf(r) == [token |-> "head", request |-> r]
ByteOf(b) == [token |-> "byte", byte |-> b]
SizeOf(n) == [token |-> "size", count |-> n]
CrLf == << [token |-> "crlf"] >>
Bytes(tokens) == [k \in DOMAIN tokens |-> tokens[k].byte]
Shut == [open |-> FALSE]

VARIABLES
  carriers,  \* the stack on each connection: the HTTP and the tunnel protocol
  wires,     \* what the peers have written and the server has not read
  tunnels,   \* _generatedSids, _protocolsBySid, the RTMP protocols (and which
             \* connection each is linked to), the last protocol identifier
  clients,   \* the client of each session: what it sent, and what it waits for
  mixed      \* history: the sessions served through another one's connection

tunnelVars == <<carriers, wires, tunnels, clients, mixed>>
-----------------------------------------------------------------------------
(* Handlers run to their end on the record w of the whole server. *)
Server == [carriers |-> carriers, tunnels |-> tunnels, clients |-> clients,
           mixed |-> mixed]

\* The stack is destroyed; the RTMP protocol is only unlinked: the first
\* request called DeleteNearProtocol(false).
Drop(w, c) ==
  [w EXCEPT !.carriers[c] = Shut,
            !.tunnels.rtmp = [p \in DOMAIN @ |->
               IF @[p].far = c THEN [@[p] EXCEPT !.far = 0] ELSE @[p]]]

Linked(w, c) == {p \in DOMAIN w.tunnels.rtmp : w.tunnels.rtmp[p].far = c}
Destroyed(w, ps) ==
  [w EXCEPT !.tunnels.rtmp = [p \in DOMAIN @ \ ps |-> @[p]]]
\* A command that fails takes the linked RTMP protocol with the connection.
DropBoth(w, c) == Drop(Destroyed(w, Linked(w, c)), c)

\* The owner of an RTMP protocol.
OwnersOf(w, p) == {s \in DOMAIN w.tunnels.bySid : w.tunnels.bySid[s] = p}

\* A bug the project checks for: a disconnected protocol is not picked up again.
BindsNewUnlessLinked(w, c, s) == Linked(w, c) = {} /\ s \in w.tunnels.sids
\* Bind: the protocol that serves the request, 0 when there is none.  One that
\* is picked up again is not linked.
BindsNew(w, c, s) == /\ Linked(w, c) = {}
                     /\ s \in w.tunnels.sids
                     /\ s \notin DOMAIN w.tunnels.bySid
Found(w, s) ==
  IF s \in DOMAIN w.tunnels.bySid /\ w.tunnels.bySid[s] \in DOMAIN w.tunnels.rtmp
  THEN w.tunnels.bySid[s] ELSE 0
Created(w, c, s) ==
  LET p == w.tunnels.last + 1
  IN  [w EXCEPT !.tunnels.bySid = (s :> p) @@ @, !.tunnels.last = p,
                !.tunnels.rtmp = @ @@ (p :> [far |-> c, got |-> <<>>, out |-> 0])]

\* BaseHTTPProtocol::EnqueueForOutbound sends the response; the connection that
\* is being closed gracefully goes with it.
Answer(w, c, r) ==
  LET x == [w EXCEPT !.clients[r.sid].waits = FALSE]
  IN  IF w.carriers[c].closing THEN Drop(x, c) ELSE x

\* ProcessIdle and ProcessSend: the bytes of a send go to the RTMP protocol,
\* whose output becomes the response.  Handshakes are plain.
Serve(w, c, r, bytes) ==
  LET x == IF BindsNew(w, c, r.sid) THEN Created(w, c, r.sid) ELSE w
      p == CASE BindsNew(w, c, r.sid) -> x.tunnels.last
             [] Linked(w, c) # {} -> CHOOSE q \in Linked(w, c) : TRUE
             [] OTHER -> Found(w, r.sid)
      y == [x EXCEPT !.tunnels.rtmp[p].got = @ \o bytes,
                     !.tunnels.rtmp[p].out = 0,
                     !.mixed = IF Linked(w, c) # {} /\ OwnersOf(x, p) # {r.sid}
                               THEN @ \cup OwnersOf(x, p) \cup {r.sid} ELSE @]
  IN  IF r.sid = 0 \/ p = 0 THEN DropBoth(w, c) ELSE Answer(y, c, r)

\* ProcessOpen: the session is named after the identifier of the tunnel.
Open(w, c, r) ==
  [w EXCEPT !.tunnels.sids = @ \cup {w.carriers[c].id},
            !.clients = @ @@ (w.carriers[c].id :>
               [waits |-> FALSE, sent |-> 0])]

TransferCompleted(x) == IF x.chunked THEN x.last ELSE x.seen = x.length
\* InboundHTTP4RTMP::SignalInputData: nothing happens before the body is whole.
Tunnel(w, c) ==
  LET x == w.carriers[c]
      v == [w EXCEPT !.carriers[c].body = SubSeq(@, x.length + 1, Len(@))]
  IN  CASE x.length = 0 -> Drop(w, c)
        [] ~TransferCompleted(x) -> w
        [] x.request.kind = "open" -> Open(v, c, x.request)
        [] OTHER -> Serve(v, c, x.request,
                          IF x.request.kind = "send" THEN SubSeq(x.body, 1, x.length)
                          ELSE <<>>)

\* After a completed transfer the next head is looked for.
NextHead(w, c) ==
  IF w.carriers[c].open /\ TransferCompleted(w.carriers[c])
  THEN [w EXCEPT !.carriers[c].head = TRUE, !.carriers[c].request = <<>>,
                 !.carriers[c].seen = 0,
                 !.carriers[c].length = 0, !.carriers[c].chunked = FALSE,
                 !.carriers[c].last = FALSE]
  ELSE w
Takes(w, c, n) ==
  [w EXCEPT !.carriers[c].buffer = SubSeq(@, n + 1, Len(@))]
Receives(w, c, n, from) ==
  [w EXCEPT !.carriers[c].seen = @ + n,
            !.carriers[c].body = @ \o Bytes(SubSeq(w.carriers[c].buffer, from + 1, from + n))]

\* HandleFixedLengthContent.
Portion(x) == IF Len(x.buffer) > x.length - x.seen THEN x.length - x.seen ELSE Len(x.buffer)
HandleFixedLengthContent(w, c) ==
  LET n == Portion(w.carriers[c])
  IN  NextHead(Tunnel(Takes(Receives(w, c, n, 0), c, n), c), c)

\* HandleChunkedContent.  With one byte in the buffer no size is found and the
\* request fails; with none, bytes that were consumed before are read: stale says
\* whether they pass for a size.  A size may still lack its end of line, and a read
\* that ends inside an end of line waits as one that ends after it does.
RECURSIVE HandleChunkedContent(_, _, _)
HandleChunkedContent(w, c, stale) ==
  LET x == w.carriers[c]
      available == Len(x.buffer)
      size == x.buffer[1].count
      y == IF size = 0 THEN [w EXCEPT !.carriers[c].last = TRUE]
           ELSE [Receives(w, c, size, 2) EXCEPT !.carriers[c].length = @ + size]
      z == Tunnel(y, c)
  IN  CASE available = 0 -> IF stale THEN w ELSE Drop(w, c)
        [] available = 1 \/ x.buffer[1].token # "size" -> Drop(w, c)
        [] available < 3 + size -> w
        [] ~z.carriers[c].open -> z
        [] TransferCompleted(z.carriers[c]) -> Takes(NextHead(z, c), c, 3 + size)
        [] OTHER -> HandleChunkedContent(Takes(z, c, 3 + size), c, stale)

\* BaseHTTPProtocol::SignalInputData, ParseHeaders.
RECURSIVE Http(_, _, _)
Http(w, c, stale) ==
  LET x == w.carriers[c]
      parsed == [Takes(w, c, 1) EXCEPT !.carriers[c].head = FALSE,
                   !.carriers[c].request = x.buffer[1].request,
                   !.carriers[c].chunked = x.buffer[1].request.chunked,
                   !.carriers[c].length = IF x.buffer[1].request.chunked THEN 0
                                          ELSE x.buffer[1].request.length]
      v == IF x.head THEN parsed ELSE w
      y == IF v.carriers[c].chunked THEN HandleChunkedContent(v, c, stale)
           ELSE HandleFixedLengthContent(v, c)
  IN  CASE x.head /\ x.buffer = <<>> -> w
        [] x.head /\ x.buffer[1].token # "head" -> Drop(w, c)
        [] y.carriers[c].open /\ y.carriers[c].head -> Http(y, c, stale)
        [] OTHER -> y
-----------------------------------------------------------------------------
TunnelInit ==
  /\ carriers = [c \in Carriers |-> Shut]
  /\ wires = [c \in Carriers |-> <<>>]
  /\ tunnels = [sids |-> {}, bySid |-> <<>>, rtmp |-> <<>>, last |-> 0]
  /\ clients = <<>>
  /\ mixed = {}

Becomes(w) ==
  /\ carriers' = w.carriers
  /\ tunnels' = w.tunnels
  /\ clients' = w.clients
  /\ mixed' = w.mixed

\* A connection is accepted, in the first free slot, and its stack is made.
Dial(c) ==
  /\ ~carriers[c].open /\ tunnels.last < MaxProtocols
  /\ \A d \in Carriers : d < c => carriers[d].open
  /\ tunnels' = [tunnels EXCEPT !.last = @ + 1]
  /\ carriers' = [carriers EXCEPT ![c] =
       [open |-> TRUE, id |-> tunnels.last + 1, closing |-> FALSE, head |-> TRUE,
        request |-> <<>>, chunked |-> FALSE, last |-> FALSE, length |-> 0, seen |-> 0,
        buffer |-> <<>>, body |-> <<>>]]
  /\ UNCHANGED <<wires, clients, mixed>>

\* A request goes onto the wire, its body of a stated length or in chunks.
Wire(r, body) ==
  <<HeadOf(r)>> \o
    IF r.chunked
    THEN <<SizeOf(Len(body))>> \o CrLf \o body \o CrLf \o <<SizeOf(0)>> \o CrLf \o CrLf
    ELSE body
AskOpen(c) ==
  /\ carriers[c].open /\ carriers[c].id \notin tunnels.sids /\ wires[c] = <<>>
  /\ carriers[c].buffer = <<>>
  /\ wires' = [wires EXCEPT ![c] = @ \o
       Wire([kind |-> "open", sid |-> 0, item |-> 0, chunked |-> FALSE, length |-> 1],
            <<ByteOf(Filler)>>)]
  /\ UNCHANGED <<carriers, tunnels, clients, mixed>>
\* A client has one request under way, on any connection.
AskServe(c, s) ==
  /\ carriers[c].open /\ ~clients[s].waits
  /\ wires[c] = <<>> /\ carriers[c].head /\ carriers[c].buffer = <<>>
  /\ \/ /\ MapThenSumSet(LAMBDA t : clients[t].sent, DOMAIN clients) < MaxSends
        /\ \E k \in BOOLEAN :
             wires' = [wires EXCEPT ![c] = @ \o
               Wire([kind |-> "send", sid |-> s, item |-> clients[s].sent + 1,
                     chunked |-> k, length |-> BodySize],
                    [n \in 1 .. BodySize |-> ByteOf(Byte(s, clients[s].sent + 1, n))])]
        /\ clients' = [clients EXCEPT ![s].sent = @ + 1, ![s].waits = TRUE]
     \/ /\ s \in DOMAIN tunnels.bySid /\ Found(Server, s) # 0
        /\ tunnels.rtmp[Found(Server, s)].out > 0
        /\ wires' = [wires EXCEPT ![c] = @ \o
             Wire([kind |-> "idle", sid |-> s, item |-> 0, chunked |-> FALSE, length |-> 1],
                  <<ByteOf(Filler)>>)]
        /\ clients' = [clients EXCEPT ![s].waits = TRUE]
  /\ UNCHANGED <<carriers, tunnels, mixed>>

\* A piece of what was written is read.
ServerReads(c) ==
  /\ carriers[c].open /\ wires[c] # <<>>
  /\ \E n \in 1 .. Len(wires[c]), stale \in BOOLEAN :
       /\ Becomes(Http([Server EXCEPT !.carriers[c].buffer = @ \o SubSeq(wires[c], 1, n)],
                       c, stale))
       /\ wires' = [wires EXCEPT ![c] =
                      IF carriers'[c].open THEN SubSeq(@, n + 1, Len(@)) ELSE <<>>]

HangUp(c) ==
  /\ carriers[c].open
  /\ Becomes(Drop(Server, c))
  /\ wires' = [wires EXCEPT ![c] = <<>>]

\* The application sends on the session; nothing reaches the wire before the
\* client asks.
Produce(p) ==
  /\ tunnels.rtmp[p].out = 0
  /\ tunnels' = [tunnels EXCEPT !.rtmp[p].out = 1]
  /\ UNCHANGED <<carriers, wires, clients, mixed>>

\* GracefullyEnqueueForDelete: a linked protocol without output goes with its
\* connection; with output, the connection goes after the next response.  One
\* that is not linked and has output waits for a ReadyForSend that never comes.
CloseGracefully(p) ==
  LET x == tunnels.rtmp[p]
  IN  /\ Becomes(IF x.out = 0
                 THEN IF x.far = 0 THEN Destroyed(Server, {p}) ELSE DropBoth(Server, x.far)
                 ELSE IF x.far = 0 THEN Server
                      ELSE [Server EXCEPT !.carriers[x.far].closing = TRUE])
      /\ wires' = [c \in Carriers |-> IF carriers'[c].open THEN wires[c] ELSE <<>>]

TunnelNext ==
  \/ \E c \in Carriers : Dial(c) \/ AskOpen(c) \/ ServerReads(c) \/ HangUp(c)
  \/ \E c \in Carriers, s \in DOMAIN clients : AskServe(c, s)
  \/ \E p \in DOMAIN tunnels.rtmp : Produce(p) \/ CloseGracefully(p)
-----------------------------------------------------------------------------
ItemsUpTo(s, n) ==
  [k \in 1 .. n * BodySize |-> Byte(s, 1 + ((k - 1) \div BodySize), 1 + ((k - 1) % BodySize))]

\* However the bodies are cut into reads and whichever connections carry them,
\* the RTMP protocol of a session gets what its client sent, from the first byte
\* and in order, and at most the item under way is missing; sessions that shared
\* a connection are excepted: Bind serves the linked protocol whatever the
\* identifier says.
SessionsInOrder ==
  \A s \in DOMAIN tunnels.bySid \ mixed :
    Found(Server, s) # 0 =>
      \E n \in {clients[s].sent, clients[s].sent - 1} :
        /\ tunnels.rtmp[tunnels.bySid[s]].got = ItemsUpTo(s, n)
        /\ n = clients[s].sent \/ clients[s].waits
=============================================================================
