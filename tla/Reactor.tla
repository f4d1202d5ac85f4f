------------------------------- MODULE Reactor -------------------------------
(***************************************************************************)
(* The epoll reactor: I/O handlers and their descriptors, the tokens that  *)
(* epoll events carry, the epoll set, and the handlers' own callbacks      *)
(* (netio/epoll: IOHandlerManager, TCPAcceptor, TCPCarrier, TCPConnector,  *)
(* UDPCarrier, IOTimer).  ProtocolStack says what the protocols above do;  *)
(* here a protocol is only there, enqueued, or gone.                       *)
(*                                                                         *)
(* An IOTimer has no descriptor: it counts a number of its own and uses it *)
(* as one, and EnqueueForDelete of any handler takes its number out of the *)
(* epoll set.  collided becomes TRUE when that hits a socket's descriptor. *)
(***************************************************************************)
EXTENDS Integers, Sequences, FiniteSets, SequencesExt

CONSTANTS
  Slots,       \* places for I/O handlers, used again once freed
  Descriptors, \* the numbers the kernel gives to sockets
  MaxTimers,   \* bound on IOTimer::_idGenerator
  MaxTokens    \* bound on the tokens ever made

ASSUME ReactorAssumption ==
  /\ Slots \subseteq Nat \ {0} /\ IsFiniteSet(Slots)
  /\ Descriptors \subseteq Nat /\ IsFiniteSet(Descriptors)
  /\ MaxTimers \in Nat /\ MaxTokens \in Nat \ {0}

NoToken == 0
New == 0       \* of a token: never made
Invalid == -1  \* of a token: its handler is gone
Free == 0      \* of a descriptor: closed
Lost == -1     \* of a descriptor: open, but forgotten
File == -2     \* of a descriptor: a file's
NoFd == -1
Tokens == 1 .. MaxTokens
NoHandler == [kind |-> "none", fd |-> NoFd, token |-> NoToken, writes |-> FALSE,
              closes |-> FALSE, prot |-> "none"]
Unregistered == [token |-> NoToken, out |-> FALSE]

VARIABLES
  handler,   \* slot -> the I/O handler there, _activeIOHandlers
  deadSlots, \* _deadIOHandlers
  epoll,     \* descriptor -> its entry in the epoll set
  owner,     \* descriptor -> the slot that is to close it, Free, Lost or File
  payload,   \* token -> its slot, Invalid when validPayload is FALSE
  vectors,   \* _tokensVector1, _tokensVector2
  fresh,     \* the one *_pAvailableTokens is; the other is *_pRecycledTokens
  batch,     \* the events of this pulse that were not handled yet
  ticking,   \* the timers of this pulse that were not called yet
  step,      \* "wait", "events", "handlers", "protocols"
  timerId,   \* IOTimer::_idGenerator
  collided,  \* history: a timer's number was a socket's
  stolen     \* history: a handler closed the descriptor of another

reactorVars == <<handler, deadSlots, epoll, owner, payload, vectors, fresh,
                 batch, ticking, step, timerId, collided, stolen>>

Used == {h \in Slots : handler[h].kind # "none"}
Sockets == {"acceptor", "carrier", "connector", "udp"}

\* What a callback works on, until Settle.
World == [handler |-> handler, dead |-> deadSlots, epoll |-> epoll,
          owner |-> owner, payload |-> payload, vectors |-> vectors,
          collided |-> collided, stolen |-> stolen]

Settle(w) ==
  /\ handler' = w.handler /\ deadSlots' = w.dead /\ epoll' = w.epoll
  /\ owner' = w.owner /\ payload' = w.payload /\ vectors' = w.vectors
  /\ collided' = w.collided /\ stolen' = w.stolen
  /\ UNCHANGED fresh

-----------------------------------------------------------------------------
(* Tokens, registrations and descriptors. *)

\* SetupToken: the first available token, or a new one.
SetupToken(w) ==
  IF w.vectors[fresh] # <<>> THEN Head(w.vectors[fresh])
  ELSE CHOOSE t \in Tokens : /\ w.payload[t] = New
                             /\ \A u \in 1 .. t - 1 : w.payload[u] # New

\* RegisterIOHandler of a handler that is given slot h.
Register(w, h, kind, fd, closes, prot) ==
  LET t == SetupToken(w)
  IN  [w EXCEPT !.handler[h] = [kind |-> kind, fd |-> fd, token |-> t,
                                writes |-> FALSE, closes |-> closes,
                                prot |-> prot],
                !.payload[t] = h,
                !.vectors[fresh] = IF @ = <<>> THEN <<>> ELSE Tail(@)]

\* Mutant: the payload of a token is not cleared.
FreeTokenKept(w, h) ==
  [w EXCEPT !.vectors[3 - fresh] = Append(@, w.handler[h].token)]

FreeToken(w, h) ==
  LET t == w.handler[h].token
  IN  [w EXCEPT !.payload[t] = Invalid, !.vectors[3 - fresh] = Append(@, t)]

IsRegistered(w, fd) == fd \in Descriptors /\ w.epoll[fd] # Unregistered

\* epoll_ctl ADD fails on a descriptor that is registered, MOD on one that is not.
Add(w, h, out) ==
  LET fd == w.handler[h].fd
  IN  IF IsRegistered(w, fd) THEN w
      ELSE [w EXCEPT !.epoll[fd] = [token |-> w.handler[h].token, out |-> out]]

Modify(w, h, out) ==
  LET fd == w.handler[h].fd
  IN  IF ~IsRegistered(w, fd) THEN w
      ELSE [w EXCEPT !.epoll[fd] = [token |-> w.handler[h].token, out |-> out]]

EnableReadData(w, h) == Add(w, h, FALSE)

\* Mutant: every handler is taken to be in the epoll set.
EnableWriteDataModifies(w, h) == Modify(w, h, TRUE)

\* Only a connector is not in the epoll set yet.
EnableWriteData(w, h) ==
  IF w.handler[h].kind = "connector" THEN Add(w, h, TRUE) ELSE Modify(w, h, TRUE)

\* ENABLE_WRITE_DATA.
SignalOutputData(w, h) ==
  IF w.handler[h].writes THEN w
  ELSE EnableWriteData([w EXCEPT !.handler[h].writes = TRUE], h)

\* DISABLE_WRITE_DATA, when ReadyForSend brought nothing more to send.
StopWriting(w, h) ==
  IF ~w.handler[h].writes THEN w
  ELSE Modify([w EXCEPT !.handler[h].writes = FALSE], h, FALSE)

\* EnqueueForDelete: whatever is registered under the number of the handler is
\* taken out of the epoll set.
EnqueueHandler(w, h) ==
  LET fd == w.handler[h].fd
      x == IF IsRegistered(w, fd) THEN [w EXCEPT !.epoll[fd] = Unregistered] ELSE w
  IN  [x EXCEPT !.dead = @ \cup {h},
                !.collided = @ \/ (w.handler[h].kind = "timer"
                                   /\ IsRegistered(w, fd))]

\* CLOSE_SOCKET.  The kernel takes a closed descriptor out of the epoll set.
CloseSocket(w, h) ==
  LET fd == w.handler[h].fd
  IN  [w EXCEPT !.epoll[fd] = Unregistered, !.owner[fd] = Free,
                !.stolen = @ \/ w.owner[fd] \notin {h, Free}]

\* Mutant: _closeSocket is not heeded.
DestroyClosing(w, h) ==
  LET hd == w.handler[h]
      x == FreeToken(IF hd.kind # "timer" THEN CloseSocket(w, h) ELSE w, h)
  IN  [x EXCEPT !.handler[h] = NoHandler, !.dead = @ \ {h}]

\* The destructors of the handler and of IOHandler.
Destroy(w, h) ==
  LET hd == w.handler[h]
      x == FreeToken(IF hd.closes THEN CloseSocket(w, h) ELSE w, h)
  IN  [x EXCEPT !.handler[h] = NoHandler, !.dead = @ \ {h}]

\* A new handler takes a recycled token, or one more within the bound.
TokensLeft == vectors[fresh] # <<>> \/ payload[MaxTokens] = New
FreeSlots == IF TokensLeft THEN Slots \ Used ELSE {}
\* socket() and accept() return the least closed descriptor.
FreeFds == {d \in Descriptors : owner[d] = Free}
NewFd == CHOOSE d \in FreeFds : \A e \in FreeFds : d <= e
Opens(w, fd, h) == [w EXCEPT !.owner[fd] = h]

-----------------------------------------------------------------------------
(* One pulse. *)

\* The acceptor listens; files may hold descriptors, timers may have come and gone.
ReactorInit ==
  /\ \E h \in Slots, d \in Descriptors :
       /\ \A e \in Descriptors : d <= e
       /\ h = CHOOSE s \in Slots : TRUE
       /\ handler = [s \in Slots |->
                       IF s = h THEN [kind |-> "acceptor", fd |-> d, token |-> 1,
                                      writes |-> FALSE, closes |-> TRUE,
                                      prot |-> "none"]
                       ELSE NoHandler]
       /\ epoll = [e \in Descriptors |->
                     IF e = d THEN [token |-> 1, out |-> FALSE] ELSE Unregistered]
       /\ \/ timerId = MaxTimers
             /\ owner = [e \in Descriptors |-> IF e = d THEN h ELSE Free]
          \/ timerId = 0
             /\ \E f \in Descriptors \ {d} :
                  /\ \A e \in Descriptors : e <= f
                  /\ owner = [e \in Descriptors |->
                                IF e = d THEN h ELSE IF e = f THEN File ELSE Free]
       /\ payload = [t \in Tokens |-> IF t = 1 THEN h ELSE New]
  /\ deadSlots = {} /\ vectors = [v \in 1 .. 2 |-> <<>>] /\ fresh = 1
  /\ batch = {} /\ ticking = {} /\ step = "wait"
  /\ collided = FALSE /\ stolen = FALSE

\* What epoll reports of a descriptor: what it was registered for, or an error.
\* An error without a hangup occurs on a connector that is not connected yet.
Reports(d) ==
  LET h == payload[epoll[d].token]
  IN  CASE handler[h].kind \in {"acceptor", "udp"} -> {{"in"}}
        [] handler[h].kind = "carrier" ->
             {{"in"}, {"err"}, {"err", "hup"}}
               \cup (IF epoll[d].out THEN {{"out"}, {"in", "out"}} ELSE {})
        [] OTHER -> {{"out"}, {"err"}, {"err", "hup"}}

Timers == {h \in Used : handler[h].kind = "timer"}

\* epoll_wait, and the timers that are due now.
Wait ==
  /\ step = "wait"
  /\ step' = "events"
  /\ \E ready \in SUBSET {d \in Descriptors : epoll[d] # Unregistered} :
       \E report \in [ready -> UNION {Reports(d) : d \in ready}] :
         /\ \A d \in ready : report[d] \in Reports(d)
         /\ batch' = {[token |-> epoll[d].token, ev |-> report[d]] : d \in ready}
  /\ ticking' \in SUBSET Timers
  /\ UNCHANGED <<handler, deadSlots, epoll, owner, payload, vectors, fresh,
                 timerId, collided, stolen>>

\* ProcessTimer, and IOTimer::OnEvent when the protocol is not enqueued.
Tick(h, ok) ==
  /\ step = "events" /\ h \in ticking
  /\ ticking' = ticking \ {h}
  /\ Settle(IF ok \/ handler[h].prot # "live" THEN World
            ELSE EnqueueHandler(World, h))
  /\ UNCHANGED <<batch, step, timerId>>

\* The events are handled after the timers; one event, whose token is valid.
Handles(e) == step = "events" /\ ticking = {} /\ e \in batch
Handled(e) == batch' = batch \ {e} /\ UNCHANGED <<ticking, step, timerId>>

\* A call on a protocol that fails, or EPOLLERR: TCPCarrier::OnEvent and Pulse.
CarrierFails(e, h) ==
  /\ Handles(e) /\ payload[e.token] = h
  /\ handler[h].kind \in {"carrier", "udp"}
  /\ Settle(EnqueueHandler(World, h))
  /\ Handled(e)

\* A read, and a write that drains the output or not (TCPCarrier::OnEvent).
CarrierEvent(e, h, drains) ==
  /\ Handles(e) /\ payload[e.token] = h
  /\ handler[h].kind \in {"carrier", "udp"} /\ "err" \notin e.ev
  /\ Settle(IF "out" \in e.ev /\ drains THEN StopWriting(World, h) ELSE World)
  /\ Handled(e)

\* TCPAcceptor::Accept; sends when the new stack has output at once.
Accept(e, sends) ==
  /\ Handles(e) /\ handler[payload[e.token]].kind = "acceptor"
  /\ FreeSlots # {} /\ FreeFds # {}
  /\ LET h == CHOOSE s \in FreeSlots : TRUE
         w == EnableReadData(Register(Opens(World, NewFd, h), h, "carrier",
                                      NewFd, TRUE, "live"), h)
     IN  Settle(IF sends THEN SignalOutputData(w, h) ELSE w)
  /\ Handled(e)

\* The application drops the connection, or its stack cannot be made.
Drop(e) ==
  /\ Handles(e) /\ handler[payload[e.token]].kind = "acceptor"
  /\ UNCHANGED <<handler, deadSlots, epoll, owner, payload, vectors, fresh,
                 collided, stolen>>
  /\ Handled(e)

\* TCPConnector::OnEvent of a connected socket: a carrier takes the descriptor.
Connected(e, c, sends) ==
  /\ Handles(e) /\ payload[e.token] = c /\ "err" \notin e.ev
  /\ handler[c].kind = "connector" /\ FreeSlots # {}
  /\ LET h == CHOOSE s \in FreeSlots : TRUE
         w == EnqueueHandler(World, c)
         x == EnableReadData(Register(Opens(w, handler[c].fd, h), h, "carrier",
                                      handler[c].fd, TRUE, "live"), h)
         y == [x EXCEPT !.handler[c].closes = FALSE]
     IN  Settle(IF sends THEN SignalOutputData(y, h) ELSE y)
  /\ Handled(e)

\* SignalProtocolCreated refuses the stack: its protocol is deleted, and the
\* connector closes the descriptor under the carrier, which closes it again.
Refused(e, c) ==
  /\ Handles(e) /\ payload[e.token] = c /\ "err" \notin e.ev
  /\ handler[c].kind = "connector" /\ FreeSlots # {}
  /\ LET h == CHOOSE s \in FreeSlots : TRUE
         w == EnqueueHandler(World, c)
         x == EnableReadData(Register(Opens(w, handler[c].fd, c), h, "carrier",
                                      handler[c].fd, TRUE, "dead"), h)
     IN  Settle([x EXCEPT !.handler[c].closes = TRUE])
  /\ Handled(e)

\* The chain cannot be made; or EPOLLERR with EPOLLHUP, which OnEvent sees.
ConnectorFails(e, c) ==
  /\ Handles(e) /\ payload[e.token] = c /\ e.ev # {"err"}
  /\ handler[c].kind = "connector"
  /\ Settle([EnqueueHandler(World, c) EXCEPT !.handler[c].closes = TRUE])
  /\ Handled(e)

\* EPOLLERR alone: Pulse deletes the connector without a word to it, and its
\* descriptor, which it was not to close any more, is never closed.
ConnectorErred(e, c) ==
  /\ Handles(e) /\ payload[e.token] = c /\ e.ev = {"err"}
  /\ handler[c].kind = "connector"
  /\ Settle([EnqueueHandler(World, c) EXCEPT !.owner[handler[c].fd] = Lost])
  /\ Handled(e)

-----------------------------------------------------------------------------
(* What protocols do in the middle of any of these callbacks. *)

Calls == step = "events" /\ UNCHANGED <<batch, ticking, step>>

\* EnqueueForOutbound reaches the carrier, of whatever stack.
Send(h) ==
  /\ Calls /\ handler[h].kind = "carrier" /\ handler[h].prot = "live"
  /\ ~handler[h].writes
  /\ Settle(SignalOutputData(World, h))
  /\ UNCHANGED timerId

\* BaseProtocol::EnqueueForDelete.
CloseProtocol(h) ==
  /\ Calls /\ handler[h].prot = "live"
  /\ Settle([World EXCEPT !.handler[h].prot = "dead"])
  /\ UNCHANGED timerId

\* TCPConnector::Connect: the connection is under way, or fails at once.
Connect(ok) ==
  /\ Calls /\ FreeSlots # {} /\ FreeFds # {}
  /\ LET h == CHOOSE s \in FreeSlots : TRUE
         w == Register(Opens(World, NewFd, h), h, "connector", NewFd, TRUE,
                       "none")
         x == EnableWriteData(w, h)
     IN  Settle(IF ok THEN [x EXCEPT !.handler[h].closes = FALSE]
                ELSE EnqueueHandler(x, h))
  /\ UNCHANGED timerId

\* UDPCarrier::Create and StartAccept, for a protocol.
OpenUDP ==
  /\ Calls /\ FreeSlots # {} /\ FreeFds # {}
  /\ LET h == CHOOSE s \in FreeSlots : TRUE
     IN  Settle(EnableReadData(Register(Opens(World, NewFd, h), h, "udp", NewFd,
                                        TRUE, "live"), h))
  /\ UNCHANGED timerId

\* BaseTimerProtocol and EnqueueForTimeEvent.
StartTimer ==
  /\ Calls /\ FreeSlots # {} /\ timerId < MaxTimers
  /\ timerId' = timerId + 1
  /\ LET h == CHOOSE s \in FreeSlots : TRUE
     IN  Settle(Register(World, h, "timer", timerId + 1, FALSE, "live"))

-----------------------------------------------------------------------------
(* After the events. *)

\* The longer vector becomes the available one.
EndPulse ==
  /\ step = "events" /\ batch = {} /\ ticking = {}
  /\ step' = "handlers"
  /\ fresh' = IF Len(vectors[1]) > Len(vectors[2]) THEN 1 ELSE 2
  /\ UNCHANGED <<handler, deadSlots, epoll, owner, payload, vectors, batch,
                 ticking, timerId, collided, stolen>>

\* DeleteDeadHandlers, one after the other.
DeleteDeadHandler(h) ==
  /\ step = "handlers" /\ h \in deadSlots
  /\ Settle(Destroy(World, h))
  /\ UNCHANGED <<batch, ticking, step, timerId>>

HandlersDone ==
  /\ step = "handlers" /\ deadSlots = {}
  /\ step' = "protocols"
  /\ UNCHANGED <<handler, deadSlots, epoll, owner, payload, vectors, fresh,
                 batch, ticking, timerId, collided, stolen>>

\* CleanupDeadProtocols: TCPProtocol, UDPProtocol and BaseTimerProtocol delete
\* their handler, which does not go through EnqueueForDelete.
DeleteDeadProtocol(h) ==
  /\ step = "protocols" /\ handler[h].prot = "dead"
  /\ Settle(Destroy(World, h))
  /\ UNCHANGED <<batch, ticking, step, timerId>>

ProtocolsDone ==
  /\ step = "protocols" /\ \A h \in Slots : handler[h].prot # "dead"
  /\ step' = "wait"
  /\ UNCHANGED <<handler, deadSlots, epoll, owner, payload, vectors, fresh,
                 batch, ticking, timerId, collided, stolen>>

ReactorNext ==
  \/ Wait
  \/ \E h \in Slots, ok \in BOOLEAN : Tick(h, ok)
  \/ \E e \in batch, h \in Slots :
       \/ CarrierFails(e, h)
       \/ Refused(e, h)
       \/ ConnectorFails(e, h)
       \/ ConnectorErred(e, h)
       \/ \E b \in BOOLEAN : CarrierEvent(e, h, b) \/ Connected(e, h, b)
  \/ \E e \in batch : Drop(e) \/ \E sends \in BOOLEAN : Accept(e, sends)
  \/ \E h \in Slots : Send(h) \/ CloseProtocol(h)
  \/ \E ok \in BOOLEAN : Connect(ok)
  \/ OpenUDP \/ StartTimer
  \/ EndPulse \/ HandlersDone \/ ProtocolsDone
  \/ \E h \in Slots : DeleteDeadHandler(h) \/ DeleteDeadProtocol(h)

ReactorSpec == ReactorInit /\ [][ReactorNext]_reactorVars

-----------------------------------------------------------------------------
(* Properties. *)

\* The token pool: a handler and the token it was given name each other, a
\* token without a handler is invalid and in one of the two vectors, once; and
\* no event of a pulse that is yet to be handled names a token that was freed,
\* so none reaches a handler that took the token over (SetupToken, FreeToken,
\* the exchange of the vectors in Pulse).
TokensPaired ==
  LET pooled == vectors[1] \o vectors[2]
  IN  /\ \A h \in Used : payload[handler[h].token] = h
      /\ \A t \in Tokens :
           /\ payload[t] \in Slots => handler[payload[t]].token = t
           /\ payload[t] = Invalid <=> \E i \in DOMAIN pooled : pooled[i] = t
      /\ IsInjective(pooled)
      /\ \A e \in batch : payload[e.token] \in Slots

\* When the reactor waits, and unless the number of a timer has hit a socket,
\* the epoll set holds exactly the sockets of the handlers, each under the
\* token of its handler and with the interest in writing the carrier believes
\* it has (EnableReadData, EnableWriteData, EnqueueForDelete).
Watched ==
  step = "wait" /\ ~collided =>
    /\ \A h \in Used :
         handler[h].kind \in Sockets =>
           epoll[handler[h].fd] =
             [token |-> handler[h].token,
              out |-> handler[h].writes \/ handler[h].kind = "connector"]
    /\ \A d \in Descriptors :
         epoll[d] # Unregistered =>
           \E h \in Used : handler[h].token = epoll[d].token /\ handler[h].fd = d

\* Over all pulses no handler closes the descriptor of another, although a
\* refused connection has its own closed twice; and the handler that is to close
\* an open descriptor exists, unless it was a connector that was deleted on
\* EPOLLERR (TCPConnector::_closeSocket).
DescriptorsOwned ==
  /\ ~stolen
  /\ \A d \in Descriptors : owner[d] \in Slots => handler[owner[d]].fd = d

=============================================================================
