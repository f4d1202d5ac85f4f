---------------------------- MODULE ProtocolStack ----------------------------
(***************************************************************************)
(* The stacks of protocols of the server, their teardown and the main loop *)
(* that drives it: BaseProtocol, ProtocolManager, the two protocols that   *)
(* own an I/O handler (TCPProtocol, BaseTimerProtocol), the discriminator  *)
(* and RTMPE surgeries, and Run()/Cleanup() of crtmpserver.cpp.            *)
(*                                                                         *)
(* A stack is  transport <-> [filter] <-> business  where far is towards   *)
(* the network and near towards the application.  Everything runs in one   *)
(* thread: each action below is one callback, or one destructor, run to    *)
(* its end.                                                                *)
(***************************************************************************)
EXTENDS Integers, FiniteSets, Sequences

CONSTANT MaxProtocols   \* bound on BaseProtocol::_idGenerator

ASSUME MaxProtocolsAssumption == MaxProtocols \in Nat \ {0}

Null == 0
Ids == 1 .. MaxProtocols

\* The kinds of protocol.  "filter" is RTMPE or SSL, "disc" the RTMPS
\* discriminator, "rtmp" and "rtsp" the business ends.
Business == {"rtmp", "rtsp"}
Kinds == {"none", "tcp", "timer", "filter", "disc"} \cup Business

\* The chains an acceptor of the configuration builds, transport first.
Chains == {<<"tcp", "rtmp">>, <<"tcp", "rtsp">>, <<"tcp", "filter", "disc">>}

Phases == {"poll", "timers", "events", "handlers", "protocols",
           "shutdown protocols", "shutdown handlers", "stopped", "crashed"}

VARIABLES
  phase,      \* where the main loop is
  created,    \* BaseProtocol::_idGenerator
  kind,       \* the type of a protocol
  far, near,  \* _pFarProtocol and _pNearProtocol
  active,     \* ProtocolManager::_activeProtocols
  dead,       \* ProtocolManager::_deadProtocols
  freed,      \* the protocols whose destructor has run
  graceful,   \* _gracefullyEnqueueForDelete
  apps,       \* the protocols whose _pApplication is set
  io,         \* the I/O handler of a transport or timer: "none", "up", "gone"
  deadIO,     \* IOHandlerManager::_deadIOHandlers, by the owner's id
  output,     \* the transports whose stack has bytes to send
  writing,    \* the carriers with _writeDataEnabled
  rin, rout,  \* EPOLLIN and EPOLLOUT events of this pulse not yet handled
  current,    \* the carrier between the read and the write half of OnEvent
  due,        \* the timers of this tick not yet called
  timer,      \* business end -> the timer it owns
  parent      \* timer -> the business end (in-file stream, RTSP) it serves

links == <<kind, far, near>>
registry == <<active, dead, apps>>
watch == <<output, writing>>
queue == <<rin, rout, current, due>>
timing == <<timer, parent>>
vars == <<phase, created, links, registry, freed, graceful, io, deadIO,
          watch, queue, timing>>

-----------------------------------------------------------------------------
(* Reading the stacks. *)

Live == active \cup dead

\* BaseProtocol::GetNearEndpoint of a stack of at most three protocols.
NearEndpoint(p) ==
  IF near[p] = Null THEN p
  ELSE IF near[near[p]] = Null THEN near[p] ELSE near[near[p]]

\* BaseProtocol::GetFarEndpoint of a stack of at most three protocols.
FarEndpoint(p) ==
  IF far[p] = Null THEN p
  ELSE IF far[far[p]] = Null THEN far[p] ELSE far[far[p]]

Carried(p) == kind[p] = "tcp" /\ p \in Live /\ io[p] = "up"

\* BaseProtocol::IsEnqueueForDelete.  Outside a shutdown _enqueueForDelete is
\* set exactly for the protocols that went through EnqueueForDelete.
IsEnqueueForDelete(p) == p \in dead \cup graceful

\* The maps of the two managers are ordered by id and emptied from begin().
IsFirst(p, S) == p \in S /\ \A q \in S : p <= q

-----------------------------------------------------------------------------
(* Building blocks. *)

\* ProtocolManager::EnqueueForDelete of every protocol of D: leave the
\* application, then move from the active to the dead map.
EnqueueForDelete(D) ==
  /\ active' = active \ D
  /\ dead' = dead \cup D
  /\ apps' = apps \ D

\* BaseProtocol::EnqueueForOutbound and TCPCarrier's ENABLE_WRITE_DATA.
EnqueueForOutbound(f) ==
  /\ output' = output \cup {f}
  /\ writing' = IF io[f] = "up" THEN writing \cup {f} ELSE writing

\* The protocols GracefullyEnqueueForDelete flags on the stack of f, and the
\* one it enqueues: the walk from the far end stops where bytes are waiting.
GracefulFlags(f) ==
  IF f \in output THEN {f}
  ELSE {f, NearEndpoint(f)} \cup ({near[f]} \ {Null})
GracefulVictimsAtOnce(f) == {NearEndpoint(f)}   \* mutant: no test of the buffer
GracefulVictims(f) == IF f \in output THEN {} ELSE {NearEndpoint(f)}

\* Mutant: an override of ReadyForSend without the call of its base.
NeverEndsGracefulClose(f) == FALSE

\* BaseProtocol::ReadyForSend of the transport: a graceful close ends here.
EndsGracefulClose(f) == f \in graceful

\* CreateProtocolChain: the protocols of ks get the next ids and are linked
\* transport first; a carrier is bound to the transport.
SpawnChain(ks) ==
  LET first == created + 1
      last == created + Len(ks)
  IN /\ last \in Ids
     /\ created' = last
     /\ kind' = [i \in Ids |-> IF i \in first .. last
                               THEN ks[i - created] ELSE kind[i]]
     /\ far' = [i \in Ids |-> IF i \in first + 1 .. last
                              THEN i - 1 ELSE far[i]]
     /\ near' = [i \in Ids |-> IF i \in first .. last - 1
                               THEN i + 1 ELSE near[i]]
     /\ io' = [io EXCEPT ![first] = "up"]

-----------------------------------------------------------------------------
Init ==
  /\ phase = "poll"
  /\ created = 0
  /\ kind = [i \in Ids |-> "none"]
  /\ far = [i \in Ids |-> Null]
  /\ near = [i \in Ids |-> Null]
  /\ active = {} /\ dead = {} /\ freed = {} /\ graceful = {} /\ apps = {}
  /\ io = [i \in Ids |-> "none"]
  /\ deadIO = {} /\ output = {} /\ writing = {}
  /\ rin = {} /\ rout = {} /\ due = {} /\ current = Null
  /\ timer = [i \in Ids |-> Null]
  /\ parent = [i \in Ids |-> Null]

-----------------------------------------------------------------------------
(* IOHandlerManager::Pulse: wait, fire the timers, deliver the events. *)

\* epoll_wait reports any carriers as readable and any of those that asked
\* for it as writable; the clock makes any registered timers due.
Poll ==
  /\ phase = "poll"
  /\ phase' = "timers"
  /\ rin' \in SUBSET {p \in Ids : Carried(p)}
  /\ rout' \in SUBSET {p \in writing : Carried(p)}
  /\ due' \in SUBSET {p \in Ids : kind[p] = "timer" /\ p \in Live
                                  /\ io[p] = "up"}
  /\ UNCHANGED <<created, links, registry, freed, graceful, io, deadIO, watch,
                 current, timing>>

\* The callback of a timer the slot holds: it answers ok, and a false answer
\* enqueues the timer's handler for deletion.
TimerCallback(t, ok) ==
  /\ phase = "timers"
  /\ t \in due
  /\ due' = due \ {t}
  /\ deadIO' = IF ok THEN deadIO ELSE deadIO \cup {t}
  /\ UNCHANGED <<phase, created, links, freed, graceful, io, rin, rout,
                 current, timing>>

\* IOTimer::OnEvent on a timer protocol that is being deleted, or that has
\* nothing to feed.
TimerIdle(t) ==
  /\ TimerCallback(t, TRUE)
  /\ UNCHANGED <<registry, watch>>

\* BaseInFileStream::ReadyForSend, called by InFileStreamTimer: it feeds the
\* player of the file; when the feed fails the player is enqueued.  It always
\* answers true.
FileTimer(t) ==
  /\ TimerCallback(t, TRUE)
  /\ ~IsEnqueueForDelete(t)
  /\ parent[t] # Null /\ kind[parent[t]] = "rtmp"
  /\ \/ EnqueueForOutbound(FarEndpoint(parent[t])) /\ UNCHANGED registry
     \/ EnqueueForDelete({parent[t]}) /\ UNCHANGED watch

\* RTSPKeepAliveTimer::TimePeriodElapsed: the parent is looked up by id among
\* the active protocols; when it is gone, or its backlog of unanswered OPTIONS
\* is full, the answer is false.
KeepAliveTimer(t) ==
  /\ t \in due
  /\ ~IsEnqueueForDelete(t)
  /\ parent[t] # Null /\ kind[parent[t]] = "rtsp"
  /\ UNCHANGED registry
  /\ \/ /\ TimerCallback(t, FALSE)
        /\ UNCHANGED watch
     \/ /\ parent[t] \in active
        /\ TimerCallback(t, TRUE)
        /\ EnqueueForOutbound(FarEndpoint(parent[t]))

TimersDone ==
  /\ phase = "timers"
  /\ due = {}
  /\ phase' = "events"
  /\ UNCHANGED <<created, links, registry, freed, graceful, io, deadIO, watch,
                 queue, timing>>

-----------------------------------------------------------------------------
(* New stacks, built while the events are delivered. *)

\* TCPAcceptor::Accept of an enabled acceptor bound to an application.
Accept(ks) ==
  /\ phase = "events" /\ current = Null
  /\ SpawnChain(ks)
  /\ active' = active \cup (created + 1 .. created')
  /\ apps' = apps \cup {created'}
  /\ UNCHANGED <<phase, dead, freed, graceful, deadIO, watch, queue, timing>>

\* CreateProtocolChain fails after it spawned k protocols: the transport is
\* deleted on the spot, which enqueues the protocol that was next to it.
SpawnFails(k) ==
  /\ phase = "events" /\ current = Null
  /\ created + k \in Ids
  /\ created' = created + k
  /\ kind' = [i \in Ids |-> CASE i = created + 1 -> "tcp"
                              [] i = created + 2 /\ k = 2 -> "filter"
                              [] OTHER -> kind[i]]
  /\ dead' = dead \cup (created + 2 .. created + k)
  /\ freed' = freed \cup {created + 1}
  /\ UNCHANGED <<phase, far, near, active, apps, graceful, io, deadIO, watch,
                 queue, timing>>

\* TCPConnector::OnEvent when SignalProtocolCreated accepts the new stack: the
\* handshake or the first request is queued at once.
Connected(ks) ==
  /\ phase = "events" /\ current = Null
  /\ ks[2] \in Business
  /\ SpawnChain(ks)
  /\ active' = active \cup (created + 1 .. created')
  /\ apps' = apps \cup {created'}
  /\ output' = output \cup {created + 1}
  /\ writing' = writing \cup {created + 1}
  /\ UNCHANGED <<phase, dead, freed, graceful, deadIO, queue, timing>>

\* ... and when SignalProtocolCreated refuses it: the business end is deleted
\* on the spot, its destructor enqueues the transport, which keeps its carrier.
ConnectedRefused(ks) ==
  /\ phase = "events" /\ current = Null
  /\ ks[2] \in Business
  /\ created + 2 \in Ids
  /\ created' = created + 2
  /\ kind' = [kind EXCEPT ![created + 1] = ks[1], ![created + 2] = ks[2]]
  /\ io' = [io EXCEPT ![created + 1] = "up"]
  /\ dead' = dead \cup {created + 1}
  /\ freed' = freed \cup {created + 2}
  /\ UNCHANGED <<phase, far, near, active, apps, graceful, deadIO, watch,
                 queue, timing>>

-----------------------------------------------------------------------------
(* TCPCarrier::OnEvent, the read half. *)

\* The carrier of f is called for its EPOLLIN.  When ok the write half follows
\* if the event also has EPOLLOUT; otherwise the handler is enqueued.
Read(f, ok) ==
  /\ phase = "events" /\ current = Null
  /\ f \in rin
  /\ rin' = rin \ {f}
  /\ IF ok
     THEN /\ current' = IF f \in rout THEN f ELSE Null
          /\ UNCHANGED <<rout, deadIO>>
     ELSE /\ rout' = rout \ {f}
          /\ deadIO' = deadIO \cup {f}
          /\ UNCHANGED current
  /\ UNCHANGED <<due>>

\* The business end of f processes its input while it is not enqueued.
Processes(f, ok) == Read(f, ok) /\ NearEndpoint(f) \notin dead

\* The peer closed or the read failed, or the bytes did not make a message.
InputWithoutEffect(f) ==
  /\ \E ok \in BOOLEAN : Read(f, ok)
  /\ UNCHANGED <<phase, created, links, registry, freed, graceful, io, watch,
                 timing>>

\* RTSPProtocol::HandleRTSPMessage calls through _pProtocolHandler, which
\* SetApplication(NULL) has cleared: a complete message that reaches an RTSP
\* protocol already enqueued dereferences a null pointer.
\* (BaseRTMPProtocol::SignalInputData drops its input in that state.)
InputOfEnqueuedRtsp(f) ==
  /\ Read(f, TRUE)
  /\ kind[NearEndpoint(f)] = "rtsp"
  /\ NearEndpoint(f) \in dead
  /\ phase' = "crashed"
  /\ UNCHANGED <<created, links, registry, freed, graceful, io, watch, timing>>

\* A message is answered, on this stack or, when a publisher feeds its
\* subscribers, on another one.
InputFeeds(f) ==
  /\ \E ok \in BOOLEAN : Processes(f, ok)
  /\ kind[NearEndpoint(f)] \in Business
  /\ \E g \in Ids :
       /\ Carried(g)
       /\ g # f => kind[NearEndpoint(g)] \in Business
                   /\ ~IsEnqueueForDelete(NearEndpoint(g))
       /\ EnqueueForOutbound(g)
  /\ UNCHANGED <<phase, created, links, registry, freed, graceful, io, timing>>

\* A message makes the server drop a business end: its own, or a subscriber
\* that could not be fed.
InputCloses(f) ==
  /\ \E ok \in BOOLEAN : Processes(f, ok)
  /\ kind[NearEndpoint(f)] \in Business
  /\ \E n \in Live :
       /\ kind[n] \in Business
       /\ n # NearEndpoint(f) => ~IsEnqueueForDelete(n)
       /\ EnqueueForDelete({n})
  /\ UNCHANGED <<phase, created, links, freed, graceful, io, watch, timing>>

\* A message makes the server close its own stack once the answer is sent.
InputClosesGracefully(f) ==
  /\ Processes(f, TRUE)
  /\ kind[NearEndpoint(f)] \in Business
  /\ graceful' = graceful \cup GracefulFlags(f)
  /\ EnqueueForDelete(GracefulVictims(f))
  /\ UNCHANGED <<phase, created, links, freed, io, watch, timing>>

\* Play of a file (InitializeTimer of BaseInFileStream), or EnableKeepAlive of
\* RTSPProtocol: a timer protocol is created and given its IOTimer.
InputStartsTimer(f) ==
  LET n == NearEndpoint(f)
      t == created + 1
  IN /\ Processes(f, TRUE)
     /\ kind[n] \in Business /\ timer[n] = Null
     /\ t \in Ids
     /\ created' = t
     /\ kind' = [kind EXCEPT ![t] = "timer"]
     /\ io' = [io EXCEPT ![t] = "up"]
     /\ active' = active \cup {t}
     /\ timer' = [timer EXCEPT ![n] = t]
     /\ parent' = [parent EXCEPT ![t] = n]
     /\ UNCHANGED <<phase, far, near, dead, apps, freed, graceful, watch>>

\* CloseStream of the RTMP connection deletes the in-file stream, whose
\* destructor resets and enqueues its timer.
InputStopsFile(f) ==
  LET n == NearEndpoint(f)
  IN /\ Processes(f, TRUE)
     /\ kind[n] = "rtmp" /\ timer[n] # Null
     /\ EnqueueForDelete({timer[n]})
     /\ parent' = [parent EXCEPT ![timer[n]] = Null]
     /\ timer' = [timer EXCEPT ![n] = Null]
     /\ UNCHANGED <<phase, created, links, freed, graceful, io, watch>>

\* Mutant: ResetFarProtocol of the discriminator is forgotten.
SplicedFarKept(d, r) == [far EXCEPT ![r] = far[d]]

\* The far pointers after the discriminator d gave its place to r.
SplicedFar(d, r) == [far EXCEPT ![d] = Null, ![r] = far[d]]

\* Mutant: the application is read after EnqueueForDelete cleared it.
InheritNothing(d, r) == apps

\* pRTMP->SetApplication(GetApplication()): d is still registered.
InheritApplication(d, r) == IF d \in apps THEN apps \cup {r} ELSE apps

\* InboundRTMPSDiscriminatorProtocol::BindSSL: a fresh RTMP protocol takes the
\* discriminator's place and its application, the discriminator is enqueued;
\* when the RTMP protocol rejects the buffered bytes it is enqueued too.
Discriminate(f) ==
  LET d == NearEndpoint(f)
      m == far[d]
      r == created + 1
  IN /\ Processes(f, TRUE)
     /\ kind[d] = "disc"
     /\ r \in Ids
     /\ created' = r
     /\ kind' = [kind EXCEPT ![r] = "rtmp"]
     /\ near' = [near EXCEPT ![m] = r]
     /\ far' = SplicedFar(d, r)
     /\ \E rejected \in BOOLEAN :
          LET D == IF rejected THEN {d, r} ELSE {d}
          IN /\ active' = (active \cup {r}) \ D
             /\ dead' = dead \cup D
             /\ apps' = InheritApplication(d, r) \ D
     /\ UNCHANGED <<phase, freed, graceful, io, watch, timing>>

\* InboundRTMPProtocol::PerformHandshake with an encrypted peer: RTMPE is
\* inserted between the transport and the RTMP protocol.
InsertRtmpe(f) ==
  LET n == near[f]
      e == created + 1
  IN /\ Processes(f, TRUE)
     /\ kind[n] = "rtmp" /\ timer[n] = Null
     /\ e \in Ids
     /\ created' = e
     /\ kind' = [kind EXCEPT ![e] = "filter"]
     /\ far' = [far EXCEPT ![n] = e, ![e] = f]
     /\ near' = [near EXCEPT ![f] = e, ![e] = n]
     /\ active' = active \cup {e}
     /\ UNCHANGED <<phase, dead, apps, freed, graceful, io, watch, timing>>

-----------------------------------------------------------------------------
(* TCPCarrier::OnEvent, the write half. *)

\* The carrier of f is called for its EPOLLOUT.
Writable(f) ==
  /\ phase = "events"
  /\ f \in rout
  /\ current = f \/ (current = Null /\ f \notin rin)
  /\ rout' = rout \ {f}
  /\ current' = Null
  /\ UNCHANGED <<phase, created, links, freed, graceful, io, rin, due, timing>>

\* send() fails: the carrier is enqueued.
WriteFails(f) ==
  /\ Writable(f)
  /\ f \in output
  /\ deadIO' = deadIO \cup {f}
  /\ UNCHANGED <<registry, watch>>

\* The kernel took a part of the bytes only.
WritePartly(f) ==
  /\ Writable(f)
  /\ f \in output
  /\ UNCHANGED <<registry, watch, deadIO>>

\* Mutant: _enableWriteDataCalled is forgotten.
BusinessRefillsUnwatched(f) ==
  /\ output' = output \cup {f}
  /\ writing' = writing \ {f}

\* ReadyForSend queued more bytes, so that _enableWriteDataCalled keeps the
\* carrier watched.
BusinessRefills(f) ==
  /\ output' = output \cup {f}
  /\ UNCHANGED writing

\* All bytes are out, or there were none: DISABLE_WRITE_DATA.  ReadyForSend
\* finishes a graceful close, or lets the business end queue more bytes.
WriteDrains(f) ==
  /\ Writable(f)
  /\ UNCHANGED deadIO
  /\ \/ /\ EndsGracefulClose(f)
        /\ EnqueueForDelete({f})
        /\ output' = output \ {f}
        /\ writing' = writing \ {f}
     \/ /\ ~EndsGracefulClose(f)
        /\ \/ output' = output \ {f} /\ writing' = writing \ {f}
           \/ kind[NearEndpoint(f)] = "rtmp" /\ BusinessRefills(f)
        /\ UNCHANGED registry

EventsDone ==
  /\ phase = "events"
  /\ rin = {} /\ rout = {}
  /\ phase' = "handlers"
  /\ UNCHANGED <<created, links, registry, freed, graceful, io, deadIO, watch,
                 queue, timing>>

-----------------------------------------------------------------------------
(* The two cleanups of Run(), and Cleanup(). *)

\* IOHandlerManager::DeleteDeadHandlers, one round: ~IOHandler detaches itself
\* from its protocol and enqueues that protocol.
DeleteDeadHandler ==
  \E p \in Ids :
     /\ phase \in {"handlers", "shutdown handlers"}
     /\ IsFirst(p, deadIO)
     /\ deadIO' = deadIO \ {p}
     /\ io' = [io EXCEPT ![p] = "gone"]
     /\ writing' = writing \ {p}
     /\ EnqueueForDelete({p})
     /\ UNCHANGED <<phase, created, links, freed, graceful, output, queue,
                    timing>>

\* What the destructors of the subclasses enqueue.  ~BaseInFileStream calls
\* its timer through a pointer, ~RTSPProtocol looks it up by id.
TimerOf(p) ==
  IF \/ kind[p] = "rtmp"
     \/ kind[p] = "rtsp" /\ timer[p] \in active
  THEN {timer[p]} \ {Null} ELSE {}

\* Mutant: the map is emptied from its other end.
NextDeadBackwards(p) == p \in dead /\ \A q \in dead : p >= q

\* It is the turn of p in CleanupDeadProtocols.
NextDead(p) == IsFirst(p, dead)

\* The destructors of p: ~TCPProtocol and ~BaseTimerProtocol delete their I/O
\* handler; ~BaseProtocol unlinks p, enqueues both neighbours and unregisters.
Destroy(p) ==
  LET doomed == ({far[p], near[p]} \ {Null}) \cup TimerOf(p)
  IN /\ far' = [q \in Ids |-> IF q \in {p, near[p]} THEN Null ELSE far[q]]
     /\ near' = [q \in Ids |-> IF q \in {p, far[p]} THEN Null ELSE near[q]]
     /\ active' = active \ (doomed \cup {p})
     /\ dead' = (dead \cup doomed) \ {p}
     /\ apps' = apps \ (doomed \cup {p})
     /\ freed' = freed \cup {p}
     /\ io' = IF io[p] = "up" THEN [io EXCEPT ![p] = "gone"] ELSE io
     /\ writing' = writing \ {p}
     /\ output' = output \ {p}
     /\ timer' = [timer EXCEPT ![p] = Null]
     /\ parent' = [t \in Ids |-> IF kind[p] = "rtmp" /\ parent[t] = p
                                 THEN Null ELSE parent[t]]

\* ProtocolManager::CleanupDeadProtocols, one round.
CleanupDeadProtocol ==
  /\ phase \in {"protocols", "shutdown protocols"}
  /\ \E p \in Ids : NextDead(p) /\ Destroy(p)
  /\ UNCHANGED <<phase, created, kind, graceful, deadIO, queue>>

\* Mutant: an off-by-one that leaves the last protocol of the map.
OneLeft == \A p, q \in dead : p = q

\* The loop condition of CleanupDeadProtocols.
ProtocolsClean == dead = {}

\* The loop of Run() and the sequence of Cleanup(): each stage runs until its
\* map is empty.  ShutdownIOHandlers enqueues every handler that is left.
NextStage ==
  /\ \/ phase = "handlers" /\ deadIO = {} /\ phase' = "protocols"
        /\ UNCHANGED deadIO
     \/ phase = "protocols" /\ ProtocolsClean /\ phase' = "poll"
        /\ UNCHANGED deadIO
     \/ phase = "shutdown protocols" /\ ProtocolsClean
        /\ phase' = "shutdown handlers"
        /\ deadIO' = {p \in Ids : io[p] = "up"}
     \/ phase = "shutdown handlers" /\ deadIO = {} /\ phase' = "stopped"
        /\ UNCHANGED deadIO
  /\ UNCHANGED <<created, links, registry, freed, graceful, io, watch, queue,
                 timing>>

\* Mutant: Cleanup() skips ProtocolManager::Shutdown.
NoVictims == {}

\* ProtocolManager::Shutdown enqueues every active protocol.
ShutdownVictims == active

\* A quit signal closes the epoll descriptor, so that epoll_wait fails and
\* Run() returns and Cleanup() starts.
Shutdown ==
  /\ phase = "poll"
  /\ phase' = "shutdown protocols"
  /\ EnqueueForDelete(ShutdownVictims)
  /\ UNCHANGED <<created, links, freed, graceful, io, deadIO, watch, queue,
                 timing>>

-----------------------------------------------------------------------------
Timers == \E t \in Ids : TimerIdle(t) \/ FileTimer(t) \/ KeepAliveTimer(t)

NewStacks ==
  \/ \E k \in 1 .. 2 : SpawnFails(k)
  \/ \E ks \in Chains : Accept(ks) \/ Connected(ks) \/ ConnectedRefused(ks)

Reads == \E f \in Ids :
  \/ InputWithoutEffect(f) \/ InputFeeds(f) \/ InputCloses(f)
  \/ InputClosesGracefully(f) \/ InputStartsTimer(f) \/ InputStopsFile(f)
  \/ Discriminate(f) \/ InsertRtmpe(f) \/ InputOfEnqueuedRtsp(f)

Writes == \E f \in Ids : WriteFails(f) \/ WritePartly(f) \/ WriteDrains(f)

Next ==
  \/ Poll \/ Timers \/ TimersDone
  \/ NewStacks \/ Reads \/ Writes \/ EventsDone
  \/ DeleteDeadHandler \/ CleanupDeadProtocol \/ NextStage \/ Shutdown

Spec == Init /\ [][Next]_vars

-----------------------------------------------------------------------------
(* What the code promises. *)

Reference == Ids \cup {Null}

TypeOK ==
  /\ phase \in Phases
  /\ created \in 0 .. MaxProtocols
  /\ kind \in [Ids -> Kinds]
  /\ far \in [Ids -> Reference] /\ near \in [Ids -> Reference]
  /\ active \subseteq Ids /\ dead \subseteq Ids /\ freed \subseteq Ids
  /\ graceful \subseteq Ids /\ apps \subseteq Ids
  /\ io \in [Ids -> {"none", "up", "gone"}]
  /\ deadIO \subseteq Ids
  /\ output \subseteq Ids /\ writing \subseteq Ids
  /\ rin \subseteq Ids /\ rout \subseteq Ids /\ due \subseteq Ids
  /\ current \in Reference
  /\ timer \in [Ids -> Reference] /\ parent \in [Ids -> Reference]

\* Nothing the server can still reach has been freed: the two protocol maps
\* are disjoint and hold no freed protocol, a live protocol points to live
\* neighbours, an in-file stream and its timer point to live objects, and the
\* map of dead handlers and the events of this pulse name handlers that exist.
\* (protocolmanager.cpp, ~BaseProtocol, ~TCPProtocol, ~BaseInFileStream)
NoUseAfterFree ==
  /\ active \cap dead = {}
  /\ Live \cap freed = {}
  /\ \A p \in Live : {far[p], near[p]} \subseteq Live \cup {Null}
  /\ \A p \in Live : kind[p] = "rtmp" => timer[p] \in Live \cup {Null}
  /\ \A t \in Live : kind[t] = "timer" /\ parent[t] # Null
                     => parent[t] \in Live \/ kind[parent[t]] = "rtsp"
  /\ \A p \in deadIO \cup rin \cup rout \cup due : p \in Live /\ io[p] = "up"

\* Links are mutual: the near protocol of p has p as its far protocol, and the
\* other way round.  (SetFarProtocol, SetNearProtocol, Reset..., the surgeries)
LinksMutual ==
  \A p, q \in Live : near[p] = q <=> far[q] = p

\* TCPProtocol::SignalInputData calls its near protocol without a test: a
\* carrier whose event is about to be delivered belongs to a transport that
\* still has one.
ReadableHasReader == \A f \in rin : near[f] # Null

\* A stack dies as a whole and in the pass that started it ("if this protocol
\* will be deleted, all the stack will be deleted", baseprotocol.h): when the
\* server waits for events nothing is half torn down, every transport has its
\* carrier and a business end or discriminator, every other protocol a
\* transport, every business end an application, and every timer the business
\* end that it serves.
WholeStacks ==
  phase = "poll" =>
    /\ dead = {} /\ deadIO = {}
    /\ \A p \in active :
         IF kind[p] = "timer" THEN io[p] = "up" /\ parent[p] \in active
         ELSE /\ Carried(FarEndpoint(p))
              /\ kind[NearEndpoint(p)] \in Business \cup {"disc"}
              /\ NearEndpoint(p) \in apps

\* "Enqueues the protocol to the delete queue imediatly. All transport related
\* routines called from now on, will be ignored" (baseprotocol.h:179): no
\* input reaches the message handler of a protocol that was enqueued.
EnqueuedInputIsIgnored == phase # "crashed"

\* No lost wake-up: a carrier whose stack has bytes to send has asked epoll for
\* EPOLLOUT, so that the bytes are eventually sent.
QueuedOutputIsWatched == \A f \in output : io[f] = "up" => f \in writing

\* A complete shutdown: Cleanup() leaves no protocol and no handler behind
\* (otherwise IOHandlerManager::Shutdown logs "Incomplete shutdown!!!").
ShutdownComplete ==
  phase = "stopped" => Live = {} /\ \A p \in Ids : io[p] # "up"

\* A graceful close does not cut off queued bytes: neither the call that asks
\* for it nor a write enqueues the transport or the business end of the stack
\* while bytes are left.  (GracefullyEnqueueForDelete, DISABLE_WRITE_DATA)
GracefulCloseDrains ==
  [][\A f \in graceful' \cap output' :
       f \notin graceful \/ (f \in rout \ rout' /\ rin' = rin)
       => {f, NearEndpoint(f)} \cap dead' \subseteq dead]_vars

-----------------------------------------------------------------------------
(* The inductive strengthening of the safety properties. *)

\* Every protocol ever created is in one of the two maps, or freed.
Accounted ==
  /\ Live \cup freed = 1 .. created
  /\ active \cap dead = {}
  /\ Live \cap freed = {}
  /\ \A i \in Ids : i > created => kind[i] = "none"
  /\ \A i \in 1 .. created : kind[i] # "none"

\* The links are mutual, join live protocols and never reach a timer.
Linked ==
  /\ \A p \in Ids : far[p] # Null => /\ p \in Live /\ far[p] \in Live
                                     /\ near[far[p]] = p
                                     /\ kind[p] \notin {"timer", "tcp"}
                                     /\ kind[far[p]] # "timer"
  /\ \A p \in Ids : near[p] # Null => /\ p \in Live /\ near[p] \in Live
                                      /\ far[near[p]] = p

\* A transport without a neighbour is on its way out.
TransportsServed ==
  /\ \A p \in active : kind[p] = "tcp" => near[p] # Null
  /\ phase = "poll" => dead = {}
  /\ \A f \in rin : near[f] # Null

\* An in-file stream and its timer know each other; the timer is younger than
\* its stream and is not enqueued before it.
TimersPaired ==
  /\ \A n \in Ids : timer[n] # Null =>
       /\ n \in Live /\ kind[n] \in Business
       /\ n < timer[n] /\ timer[n] <= created
       /\ kind[timer[n]] = "timer" /\ parent[timer[n]] = n
       /\ kind[n] = "rtmp" => /\ timer[n] \in Live
                              /\ timer[n] \in dead => n \in dead
  /\ \A t \in Ids : parent[t] # Null =>
       /\ kind[t] = "timer"
       /\ \/ kind[parent[t]] = "rtsp"
          \/ kind[parent[t]] = "rtmp" /\ timer[parent[t]] = t

\* The I/O handlers the reactor still names exist, and no handler waits for
\* its deletion while the protocols are deleted.
HandlersExist ==
  /\ \A p \in Ids : io[p] = "up" => p \in Live /\ kind[p] \in {"tcp", "timer"}
  /\ \A p \in deadIO \cup rin \cup rout \cup due : io[p] = "up"
  /\ \A p \in rin \cup rout : kind[p] = "tcp"
  /\ \A p \in due : kind[p] = "timer"
  /\ \A p \in deadIO : kind[p] = "timer" /\ parent[p] # Null
                       => kind[parent[p]] = "rtsp"
  /\ deadIO # {} => phase \in {"timers", "events", "handlers", "crashed"}
  /\ due # {} => phase = "timers"
  /\ rin \cup rout # {} => phase \in {"timers", "events", "crashed"}
  /\ phase = "shutdown protocols" => active = {}
  /\ phase \in {"shutdown handlers", "stopped"} => Live = {}

IInv == TypeOK /\ Accounted /\ Linked /\ TransportsServed /\ TimersPaired
        /\ HandlersExist

\* What is enqueued is deleted, and a stack being closed gracefully as well.
FairSpec ==
  /\ Spec
  /\ WF_vars(Next)
  /\ \A f \in Ids : SF_vars(Poll /\ f \in rout') /\ SF_vars(WriteDrains(f))

DoomedAreFreed ==
  \A p \in Ids : p \in dead \cup graceful ~> p \in freed \/ phase = "crashed"

=============================================================================
