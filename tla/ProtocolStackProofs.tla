------------------------- MODULE ProtocolStackProofs -------------------------
(***************************************************************************)
(* Proofs about ProtocolStack, for every number of protocols.  The         *)
(* inductive invariant IInv of that module is shown to hold initially and  *)
(* to be kept by every action, one lemma per action; the safety properties *)
(* follow from it.                                                         *)
(*                                                                         *)
(* The second half is about whole stacks: that a stack dies in the pass    *)
(* that started it (WholeStacks), that bytes to send are watched           *)
(* (QueuedOutputIsWatched), and that a graceful close cuts none of them    *)
(* off (GracefulCloseDrains).  None of them is inductive; what is, beside  *)
(* IInv, is the shape of the stacks (Shaped), what an active protocol has  *)
(* (ActiveWhole), that nothing is torn down between two cleanups           *)
(* (Standing), and who may have output (OutputWatched).                    *)
(***************************************************************************)
EXTENDS ProtocolStack, TLAPS

\* Protocol ids are positive numbers.  Ids and Null stay unexpanded in the
\* proofs below.
LEMMA IdsAreNumbers == Ids \subseteq Nat /\ Null \notin Ids
BY MaxProtocolsAssumption DEF Ids, Null

\* The walks along a stack end at a protocol.
LEMMA EndpointsAreProtocols ==
  ASSUME TypeOK, NEW p \in Ids
  PROVE  FarEndpoint(p) \in Ids /\ NearEndpoint(p) \in Ids
BY DEF TypeOK, Reference, FarEndpoint, NearEndpoint

\* The near end of the stack of a live protocol is live.
LEMMA EndpointsAreLive ==
  ASSUME Linked, NEW p \in Ids, p \in Live, Live \subseteq Ids
  PROVE  NearEndpoint(p) \in Live
BY DEF Linked, NearEndpoint

\* The server starts with no protocol, timer or event.
LEMMA InitIInv == Init => IInv
<1> SUFFICES ASSUME Init PROVE IInv
  OBVIOUS
<1> USE MaxProtocolsAssumption DEF Init, Ids, Null, Live
<1>1. TypeOK BY DEF TypeOK, Kinds, Phases, Reference
<1>2. Accounted BY DEF Accounted
<1>3. Linked BY DEF Linked
<1>4. TransportsServed BY DEF TransportsServed
<1>5. TimersPaired BY DEF TimersPaired
<1>6. HandlersExist BY DEF HandlersExist
<1> QED BY <1>1, <1>2, <1>3, <1>4, <1>5, <1>6 DEF IInv

\* The effect of EnqueueForDelete on the two maps, for protocols D that are
\* live and take no timer of an in-file stream without its owner.
Enqueued(D) ==
  /\ D \subseteq Live
  /\ active' = active \ D
  /\ dead' = dead \cup D
  /\ \A n \in Ids : kind[n] = "rtmp" /\ timer[n] \in D => n \in dead'

\* The objects and what joins them are left alone.
Quiet == UNCHANGED <<created, kind, far, near, freed, timer, parent>>

\* Enqueueing moves protocols between the two maps and frees none.
LEMMA LiveKept ==
  ASSUME NEW D, Enqueued(D) PROVE Live' = Live
BY DEF Enqueued, Live

\* A step that creates, links and frees nothing keeps the three conjuncts that
\* are about objects, when what it enqueues is live and takes no in-file timer
\* without its stream.
LEMMA QuietKeeps ==
  ASSUME IInv, NEW D, Enqueued(D), Quiet
  PROVE  Accounted' /\ Linked' /\ TimersPaired'
<1>1. Live' = Live
  BY LiveKept
<1>2. Accounted'
  BY <1>1 DEF IInv, Accounted, Quiet, Enqueued
<1>3. Linked'
  BY <1>1 DEF IInv, Linked, Quiet
<1>4. TimersPaired'
  BY <1>1 DEF IInv, TimersPaired, Quiet, Enqueued
<1> QED BY <1>2, <1>3, <1>4

\* A round of CleanupDeadProtocols: the destructors of the dead protocol with
\* the smallest id.  The id order matters in <4>1: a timer is younger than its
\* stream, so that it is never freed under it.
LEMMA DestroyStep == IInv /\ CleanupDeadProtocol => IInv'
<1> SUFFICES ASSUME IInv, CleanupDeadProtocol PROVE IInv'
  OBVIOUS
<1> PICK p \in Ids : NextDead(p) /\ Destroy(p)
  BY DEF CleanupDeadProtocol
<1>0. p \in dead /\ \A q \in dead : p <= q
  BY DEF NextDead, IsFirst
<1>00. /\ UNCHANGED <<phase, created, kind, graceful, deadIO, rin, rout, current, due>>
       /\ phase \in {"protocols", "shutdown protocols"}
  BY DEF CleanupDeadProtocol, queue
<1>a. TimerOf(p) \subseteq Live /\ TimerOf(p) \subseteq {timer[p]} \ {Null}
  <2>1. CASE kind[p] = "rtmp"
    BY <2>1 DEF TimerOf, IInv, TimersPaired
  <2>2. CASE kind[p] # "rtmp"
    BY <2>2 DEF TimerOf, Live
  <2> QED BY <2>1, <2>2
<1>b. kind[p] = "rtmp" /\ timer[p] # Null => TimerOf(p) = {timer[p]}
  BY DEF TimerOf
<1> DEFINE doomed == ({far[p], near[p]} \ {Null}) \cup TimerOf(p)
<1>d. /\ far' = [q \in Ids |-> IF q \in {p, near[p]} THEN Null ELSE far[q]]
      /\ near' = [q \in Ids |-> IF q \in {p, far[p]} THEN Null ELSE near[q]]
      /\ active' = active \ (doomed \cup {p})
      /\ dead' = (dead \cup doomed) \ {p}
      /\ apps' = apps \ (doomed \cup {p})
      /\ freed' = freed \cup {p}
      /\ io' = IF io[p] = "up" THEN [io EXCEPT ![p] = "gone"] ELSE io
      /\ writing' = writing \ {p}
      /\ output' = output \ {p}
      /\ timer' = [timer EXCEPT ![p] = Null]
      /\ parent' = [t \in Ids |-> IF kind[p] = "rtmp" /\ parent[t] = p
                                  THEN Null ELSE parent[t]]
  BY DEF Destroy
<1>c. doomed \subseteq Live
  BY <1>0, <1>a DEF IInv, Linked
<1> HIDE DEF doomed
<1>cc. doomed \subseteq Ids
  BY <1>c DEF IInv, TypeOK, Live
<1>e. Live' = Live \ {p}
  BY <1>0, <1>c, <1>d DEF Live
<1>f. deadIO = {} /\ rin = {} /\ rout = {} /\ due = {}
  BY <1>00 DEF IInv, HandlersExist
<1>1. TypeOK'
  BY <1>00, <1>d, <1>cc DEF IInv, TypeOK, Reference
<1>2. Accounted'
  BY <1>0, <1>00, <1>d, <1>e DEF IInv, Accounted, Live
<1>3. Linked'
  <2>2. \A q \in Ids : far'[q] # Null => q # p /\ q # near[p] /\ far'[q] = far[q] /\ far[q] # p
    BY <1>d DEF IInv, Linked
  <2>3. \A q \in Ids : near'[q] # Null => q # p /\ q # far[p] /\ near'[q] = near[q] /\ near[q] # p
    BY <1>d DEF IInv, Linked
  <2>4. \A q \in Ids : far[q] \in Ids \cup {Null} /\ near[q] \in Ids \cup {Null}
    BY DEF IInv, TypeOK, Reference
  <2>5. \A q \in Ids : far'[q] # Null => /\ q \in Live' /\ far'[q] \in Live'
                                     /\ near'[far'[q]] = q
    BY <2>2, <2>4, <1>d, <1>e DEF IInv, Linked
  <2>6. \A q \in Ids : near'[q] # Null => /\ q \in Live' /\ near'[q] \in Live'
                                     /\ far'[near'[q]] = q
    BY <2>3, <2>4, <1>d, <1>e DEF IInv, Linked
  <2> QED BY <2>2, <2>5, <2>6, <1>00 DEF IInv, Linked
<1>4. TransportsServed'
  <2>1. ASSUME NEW q \in active', kind'[q] = "tcp" PROVE near'[q] # Null
    <3>1. q \in active /\ q \notin {p, far[p]} /\ q \in Ids /\ q # Null
      BY <1>d, IdsAreNumbers DEF IInv, TypeOK, doomed
    <3>2. near'[q] = near[q]
      BY <3>1, <1>d
    <3> QED BY <2>1, <3>1, <3>2, <1>00 DEF IInv, TransportsServed
  <2> QED BY <2>1, <1>00, <1>f DEF TransportsServed
<1>5. TimersPaired'
  <2>1. ASSUME NEW n \in Ids, timer'[n] # Null
        PROVE  /\ n \in Live' /\ kind[n] \in Business
               /\ n < timer[n] /\ timer[n] <= created
               /\ kind[timer[n]] = "timer" /\ parent'[timer[n]] = n
               /\ kind[n] = "rtmp" => /\ timer[n] \in Live'
                                      /\ timer[n] \in dead' => n \in dead'
    <3>1. n # p /\ timer'[n] = timer[n] /\ timer[n] \in Ids
      BY <2>1, <1>d DEF IInv, TypeOK, Reference
    <3>2. /\ n \in Live /\ kind[n] \in Business
          /\ n < timer[n] /\ timer[n] <= created
          /\ kind[timer[n]] = "timer" /\ parent[timer[n]] = n
          /\ kind[n] = "rtmp" => /\ timer[n] \in Live
                                 /\ timer[n] \in dead => n \in dead
      BY <2>1, <3>1 DEF IInv, TimersPaired
    <3>3. parent'[timer[n]] = n
      BY <3>1, <3>2, <1>d
    <3>4. ASSUME kind[n] = "rtmp"
          PROVE  timer[n] \in Live' /\ (timer[n] \in dead' => n \in dead')
      <4>1. timer[n] # p
        BY <3>1, <3>2, <3>4, <1>0, IdsAreNumbers
      <4>2. \A q \in {far[p], near[p]} \ {Null} : kind[q] # "timer"
        BY <1>0, IdsAreNumbers DEF IInv, Linked, TypeOK, Reference
      <4>3. timer[n] \notin TimerOf(p)
        BY <3>1, <3>2, <1>a DEF IInv, TimersPaired
      <4>4. timer[n] \notin doomed
        BY <3>2, <4>2, <4>3 DEF doomed
      <4> QED BY <3>1, <3>2, <3>4, <4>1, <4>4, <1>d, <1>e
    <3> QED BY <3>1, <3>2, <3>3, <3>4, <1>e
  <2>2. ASSUME NEW t \in Ids, parent'[t] # Null
        PROVE  /\ kind[t] = "timer"
               /\ \/ kind[parent'[t]] = "rtsp"
                  \/ kind[parent'[t]] = "rtmp" /\ timer'[parent'[t]] = t
    BY <2>2, <1>d DEF IInv, TimersPaired, TypeOK, Reference
  <2>3. UNCHANGED <<kind, created>> /\ \A n \in Ids : timer'[n] # Null => timer'[n] = timer[n]
    BY <1>00, <1>d DEF IInv, TypeOK
  <2> QED BY <2>1, <2>2, <2>3 DEF TimersPaired
<1>6. HandlersExist' BY <1>0, <1>00, <1>d, <1>e, <1>f DEF IInv, HandlersExist, TypeOK, Live
<1> QED BY <1>1, <1>2, <1>3, <1>4, <1>5, <1>6 DEF IInv

\* The slot of the tick has been walked.
LEMMA TimersDoneStep == IInv /\ (TimersDone) => IInv'
<1> SUFFICES ASSUME IInv, TimersDone PROVE IInv'
  OBVIOUS
<1> USE DEF TimersDone, links, registry, watch, queue, timing
<1>1. Quiet /\ Enqueued({}) /\ UNCHANGED io
  BY DEF Quiet, Enqueued
<1>2. TypeOK'
  BY IdsAreNumbers DEF IInv, TypeOK, Reference, Phases
<1>3. TransportsServed'
  BY DEF IInv, TransportsServed, TypeOK
<1>4. HandlersExist'
  BY <1>1, LiveKept DEF IInv, HandlersExist, Quiet, TypeOK
<1> QED BY <1>1, <1>2, <1>3, <1>4, QuietKeeps DEF IInv

\* The events of the pulse have been delivered.
LEMMA EventsDoneStep == IInv /\ (EventsDone) => IInv'
<1> SUFFICES ASSUME IInv, EventsDone PROVE IInv'
  OBVIOUS
<1> USE DEF EventsDone, links, registry, watch, queue, timing
<1>1. Quiet /\ Enqueued({}) /\ UNCHANGED io
  BY DEF Quiet, Enqueued
<1>2. TypeOK'
  BY IdsAreNumbers DEF IInv, TypeOK, Reference, Phases
<1>3. TransportsServed'
  BY DEF IInv, TransportsServed, TypeOK
<1>4. HandlersExist'
  BY <1>1, LiveKept DEF IInv, HandlersExist, Quiet, TypeOK
<1> QED BY <1>1, <1>2, <1>3, <1>4, QuietKeeps DEF IInv

\* A timer callback that does nothing.
LEMMA TimerIdleStep == IInv /\ (\E t \in Ids : TimerIdle(t)) => IInv'
<1> SUFFICES ASSUME IInv, \E t \in Ids : TimerIdle(t) PROVE IInv'
  OBVIOUS
<1> USE DEF TimerIdle, TimerCallback, links, registry, watch, queue, timing
<1>1. Quiet /\ Enqueued({}) /\ UNCHANGED io
  BY DEF Quiet, Enqueued
<1>2. TypeOK'
  BY IdsAreNumbers DEF IInv, TypeOK, Reference, Phases
<1>3. TransportsServed'
  BY DEF IInv, TransportsServed, TypeOK
<1>4. HandlersExist'
  BY <1>1, LiveKept DEF IInv, HandlersExist, Quiet, TypeOK
<1> QED BY <1>1, <1>2, <1>3, <1>4, QuietKeeps DEF IInv

\* A read event without consequence for any stack.
LEMMA InputWithoutEffectStep == IInv /\ (\E f \in Ids : InputWithoutEffect(f)) => IInv'
<1> SUFFICES ASSUME IInv, \E f \in Ids : InputWithoutEffect(f) PROVE IInv'
  OBVIOUS
<1> USE DEF InputWithoutEffect, Read, links, registry, watch, queue, timing
<1>1. Quiet /\ Enqueued({}) /\ UNCHANGED io
  BY DEF Quiet, Enqueued
<1>2. TypeOK'
  BY IdsAreNumbers DEF IInv, TypeOK, Reference, Phases
<1>3. TransportsServed'
  BY DEF IInv, TransportsServed, TypeOK
<1>4. HandlersExist'
  BY <1>1, LiveKept DEF IInv, HandlersExist, Quiet, TypeOK
<1> QED BY <1>1, <1>2, <1>3, <1>4, QuietKeeps DEF IInv

\* The null dereference of RTSPProtocol stops the server.
LEMMA InputOfEnqueuedRtspStep == IInv /\ (\E f \in Ids : InputOfEnqueuedRtsp(f)) => IInv'
<1> SUFFICES ASSUME IInv, \E f \in Ids : InputOfEnqueuedRtsp(f) PROVE IInv'
  OBVIOUS
<1> USE DEF InputOfEnqueuedRtsp, Read, links, registry, watch, queue, timing
<1>1. Quiet /\ Enqueued({}) /\ UNCHANGED io
  BY DEF Quiet, Enqueued
<1>2. TypeOK'
  BY ZenonT(60), IdsAreNumbers DEF IInv, TypeOK, Reference, Phases
<1>3. TransportsServed'
  BY DEF IInv, TransportsServed, TypeOK
<1>4. HandlersExist'
  BY <1>1, LiveKept DEF IInv, HandlersExist, Quiet, TypeOK
<1> QED BY <1>1, <1>2, <1>3, <1>4, QuietKeeps DEF IInv

\* A message that queues output.
LEMMA InputFeedsStep == IInv /\ (\E f \in Ids : InputFeeds(f)) => IInv'
<1> SUFFICES ASSUME IInv, \E f \in Ids : InputFeeds(f) PROVE IInv'
  OBVIOUS
<1> USE DEF InputFeeds, Processes, Read, EnqueueForOutbound, links, registry, watch, queue, timing
<1>1. Quiet /\ Enqueued({}) /\ UNCHANGED io
  BY DEF Quiet, Enqueued
<1>2. TypeOK'
  BY IdsAreNumbers DEF IInv, TypeOK, Reference, Phases
<1>3. TransportsServed'
  BY DEF IInv, TransportsServed, TypeOK
<1>4. HandlersExist'
  BY <1>1, LiveKept DEF IInv, HandlersExist, Quiet, TypeOK
<1> QED BY <1>1, <1>2, <1>3, <1>4, QuietKeeps DEF IInv

\* A write event whose send() fails.
LEMMA WriteFailsStep == IInv /\ (\E f \in Ids : WriteFails(f)) => IInv'
<1> SUFFICES ASSUME IInv, \E f \in Ids : WriteFails(f) PROVE IInv'
  OBVIOUS
<1> USE DEF WriteFails, Writable, links, registry, watch, queue, timing
<1>1. Quiet /\ Enqueued({}) /\ UNCHANGED io
  BY DEF Quiet, Enqueued
<1>2. TypeOK'
  BY IdsAreNumbers DEF IInv, TypeOK, Reference, Phases
<1>3. TransportsServed'
  BY DEF IInv, TransportsServed, TypeOK
<1>4. HandlersExist'
  BY <1>1, LiveKept DEF IInv, HandlersExist, Quiet, TypeOK
<1> QED BY <1>1, <1>2, <1>3, <1>4, QuietKeeps DEF IInv

\* A write event that leaves bytes.
LEMMA WritePartlyStep == IInv /\ (\E f \in Ids : WritePartly(f)) => IInv'
<1> SUFFICES ASSUME IInv, \E f \in Ids : WritePartly(f) PROVE IInv'
  OBVIOUS
<1> USE DEF WritePartly, Writable, links, registry, watch, queue, timing
<1>1. Quiet /\ Enqueued({}) /\ UNCHANGED io
  BY DEF Quiet, Enqueued
<1>2. TypeOK'
  BY IdsAreNumbers DEF IInv, TypeOK, Reference, Phases
<1>3. TransportsServed'
  BY DEF IInv, TransportsServed, TypeOK
<1>4. HandlersExist'
  BY <1>1, LiveKept DEF IInv, HandlersExist, Quiet, TypeOK
<1> QED BY <1>1, <1>2, <1>3, <1>4, QuietKeeps DEF IInv

\* The events of a new pulse: after a cleanup only active protocols are left.
LEMMA PollStep == IInv /\ Poll => IInv'
<1> SUFFICES ASSUME IInv, Poll PROVE IInv'
  OBVIOUS
<1> USE DEF Poll, Carried, links, registry, watch, queue, timing
<1>1. Quiet /\ Enqueued({}) /\ UNCHANGED io
  BY DEF Quiet, Enqueued
<1>2. TypeOK'
  BY DEF IInv, TypeOK, Phases
<1>3. \A f \in rin' : near[f] # Null
  BY DEF IInv, TransportsServed, Live
<1>4. TransportsServed'
  BY <1>3 DEF IInv, TransportsServed
<1>5. HandlersExist'
  BY <1>1, LiveKept DEF IInv, HandlersExist, Quiet, TypeOK
<1> QED BY <1>1, <1>2, <1>4, <1>5, QuietKeeps DEF IInv

\* The keep-alive callback.
LEMMA KeepAliveTimerStep == IInv /\ (\E t \in Ids : KeepAliveTimer(t)) => IInv'
<1> SUFFICES ASSUME IInv, NEW t \in Ids, KeepAliveTimer(t) PROVE IInv'
  OBVIOUS
<1> USE DEF KeepAliveTimer, TimerCallback, links, registry, watch, queue, timing
<1>1. Quiet /\ Enqueued({}) /\ UNCHANGED io
  BY DEF Quiet, Enqueued
<1>2. FarEndpoint(parent[t]) \in Ids
  BY EndpointsAreProtocols DEF IInv, TypeOK, Reference
<1>3. TypeOK'
  BY <1>2 DEF IInv, TypeOK, EnqueueForOutbound
<1>4. TransportsServed'
  BY DEF IInv, TransportsServed
<1>5. HandlersExist'
  BY <1>1, LiveKept DEF IInv, HandlersExist, Quiet, TypeOK
<1> QED BY <1>1, <1>3, <1>4, <1>5, QuietKeeps DEF IInv

\* The callback of an in-file stream feeds or enqueues a live player.
LEMMA FileTimerStep == IInv /\ (\E t \in Ids : FileTimer(t)) => IInv'
<1> SUFFICES ASSUME IInv, NEW t \in Ids, FileTimer(t) PROVE IInv'
  OBVIOUS
<1> USE DEF FileTimer, TimerCallback, links, registry, watch, queue, timing
<1>0. /\ parent[t] \in Ids /\ kind[parent[t]] = "rtmp"
      /\ phase = "timers" /\ parent[t] # Null
  BY DEF IInv, TypeOK, Reference
<1>1. /\ parent[t] \in Ids /\ kind[parent[t]] = "rtmp"
      /\ parent[t] \in Live /\ phase = "timers"
  <2>1. timer[parent[t]] = t
    BY <1>0 DEF IInv, TimersPaired
  <2> QED BY <1>0, <2>1, IdsAreNumbers DEF IInv, TimersPaired
<1>2. FarEndpoint(parent[t]) \in Ids
  BY <1>1, EndpointsAreProtocols DEF IInv
<1>3. PICK D \in {{}, {parent[t]}} : Enqueued(D)
  BY <1>1 DEF Enqueued, EnqueueForDelete, IInv, TimersPaired
<1>4. Quiet
  BY DEF Quiet
<1>5. TypeOK'
  BY <1>1, <1>2 DEF IInv, TypeOK, EnqueueForOutbound, EnqueueForDelete
<1>6. TransportsServed'
  BY <1>1, <1>3 DEF IInv, TransportsServed, Enqueued
<1>7. HandlersExist'
  BY <1>1, <1>3, <1>4, LiveKept DEF IInv, HandlersExist, Quiet, TypeOK
<1> QED BY <1>3, <1>4, <1>5, <1>6, <1>7, QuietKeeps DEF IInv

\* A message that drops a business end.
LEMMA InputClosesStep == IInv /\ (\E f \in Ids : InputCloses(f)) => IInv'
<1> SUFFICES ASSUME IInv, NEW f \in Ids, InputCloses(f) PROVE IInv'
  OBVIOUS
<1> USE DEF InputCloses, Processes, Read, links, registry, watch, queue, timing
<1>1. PICK n \in Live : kind[n] \in Business /\ EnqueueForDelete({n})
  OBVIOUS
<1>2. n \in Ids
  BY DEF IInv, TypeOK, Live
<1>3. Enqueued({n}) /\ Quiet
  BY <1>1, <1>2, IdsAreNumbers
  DEF Enqueued, Quiet, Business, EnqueueForDelete, IInv, TimersPaired
<1>4. TypeOK'
  BY <1>1, <1>2, IdsAreNumbers DEF IInv, TypeOK, EnqueueForDelete, Reference
<1>5. TransportsServed'
  BY <1>3 DEF IInv, TransportsServed, Enqueued, Quiet
<1>6. HandlersExist'
  BY <1>3, LiveKept DEF IInv, HandlersExist, Quiet, TypeOK
<1> QED BY <1>3, <1>4, <1>5, <1>6, QuietKeeps DEF IInv

\* A message that closes its stack gracefully.
LEMMA InputClosesGracefullyStep ==
  IInv /\ (\E f \in Ids : InputClosesGracefully(f)) => IInv'
<1> SUFFICES ASSUME IInv, NEW f \in Ids, InputClosesGracefully(f) PROVE IInv'
  OBVIOUS
<1> USE DEF InputClosesGracefully, Processes, Read, links, registry, watch,
        queue, timing
<1>1. f \in Live /\ Live \subseteq Ids
  BY DEF IInv, HandlersExist, TypeOK, Live
<1>2. NearEndpoint(f) \in Live /\ NearEndpoint(f) \in Ids
  BY <1>1, EndpointsAreLive DEF IInv
<1>3. GracefulVictims(f) \subseteq {NearEndpoint(f)}
  BY DEF GracefulVictims
<1>4. Enqueued(GracefulVictims(f))
  BY <1>2, <1>3, IdsAreNumbers
  DEF Enqueued, Business, EnqueueForDelete, IInv, TimersPaired
<1>5. Quiet
  BY DEF Quiet
<1>6. GracefulFlags(f) \subseteq Ids
  BY <1>2 DEF GracefulFlags, IInv, TypeOK, Reference
<1>7. TypeOK'
  BY <1>2, <1>3, <1>6, IdsAreNumbers
  DEF IInv, TypeOK, EnqueueForDelete, Reference
<1>8. TransportsServed'
  BY <1>4, <1>5 DEF IInv, TransportsServed, Enqueued, Quiet
<1>9. HandlersExist'
  BY <1>4, <1>5, LiveKept DEF IInv, HandlersExist, Quiet, TypeOK
<1> QED BY <1>4, <1>5, <1>7, <1>8, <1>9, QuietKeeps DEF IInv

\* A write event that empties the output.
LEMMA WriteDrainsStep == IInv /\ (\E f \in Ids : WriteDrains(f)) => IInv'
<1> SUFFICES ASSUME IInv, NEW f \in Ids, WriteDrains(f) PROVE IInv'
  OBVIOUS
<1> USE DEF WriteDrains, Writable, BusinessRefills, links, registry, watch,
        queue, timing
<1>1. f \in Live /\ kind[f] = "tcp" /\ phase = "events"
  BY DEF IInv, HandlersExist
<1>2. PICK D \in {{}, {f}} : Enqueued(D)
  BY <1>1, IdsAreNumbers DEF Enqueued, EnqueueForDelete, IInv, TimersPaired
<1>3. Quiet
  BY DEF Quiet
<1>4. TypeOK'
  BY DEF IInv, TypeOK, EnqueueForDelete, Reference
<1>5. TransportsServed'
  BY <1>1, <1>2, <1>3 DEF IInv, TransportsServed, Enqueued, Quiet
<1>6. HandlersExist'
  BY <1>1, <1>2, <1>3, LiveKept DEF IInv, HandlersExist, Quiet, TypeOK
<1> QED BY <1>2, <1>3, <1>4, <1>5, <1>6, QuietKeeps DEF IInv

\* ProtocolManager::Shutdown.
LEMMA ShutdownStep == IInv /\ Shutdown => IInv'
<1> SUFFICES ASSUME IInv, Shutdown PROVE IInv'
  OBVIOUS
<1> USE DEF Shutdown, ShutdownVictims, EnqueueForDelete, links, registry,
        watch, queue, timing
<1>1. Enqueued(active)
  <2>1. active \subseteq Live /\ dead' = Live
    BY DEF Live
  <2>2. ASSUME NEW n \in Ids, timer[n] \in active PROVE n \in Live
    <3>1. timer[n] # Null
      BY <2>2, IdsAreNumbers DEF IInv, TypeOK
    <3> QED BY <3>1 DEF IInv, TimersPaired
  <2> QED BY <2>1, <2>2 DEF Enqueued
<1>2. Quiet
  BY DEF Quiet
<1>3. TypeOK'
  BY DEF IInv, TypeOK, Phases
<1>4. TransportsServed'
  BY DEF IInv, TransportsServed
<1>5. HandlersExist'
  BY <1>1, <1>2, LiveKept DEF IInv, HandlersExist, Quiet, TypeOK
<1> QED BY <1>1, <1>2, <1>3, <1>4, <1>5, QuietKeeps DEF IInv

\* The passage from one stage of the main loop to the next.
LEMMA NextStageStep == IInv /\ NextStage => IInv'
<1> SUFFICES ASSUME IInv, NextStage PROVE IInv'
  OBVIOUS
<1> USE DEF NextStage, ProtocolsClean, links, registry, watch, queue, timing
<1>1. Quiet /\ Enqueued({}) /\ UNCHANGED io
  BY DEF Quiet, Enqueued
<1>2. TypeOK'
  BY DEF IInv, TypeOK, Phases
<1>3. TransportsServed'
  BY DEF IInv, TransportsServed
<1>4. deadIO' = {}
  BY DEF IInv, HandlersExist, Live
<1>5. HandlersExist'
  BY <1>1, <1>4, LiveKept DEF IInv, HandlersExist, Quiet, TypeOK, Live
<1> QED BY <1>1, <1>2, <1>3, <1>5, QuietKeeps DEF IInv

\* A round of DeleteDeadHandlers.
LEMMA DeleteDeadHandlerStep == IInv /\ DeleteDeadHandler => IInv'
<1> SUFFICES ASSUME IInv, DeleteDeadHandler PROVE IInv'
  OBVIOUS
<1> USE DEF links, registry, watch, queue, timing
<1>1. PICK p \in Ids :
        /\ phase \in {"handlers", "shutdown handlers"}
        /\ IsFirst(p, deadIO)
        /\ deadIO' = deadIO \ {p}
        /\ io' = [io EXCEPT ![p] = "gone"]
        /\ writing' = writing \ {p}
        /\ EnqueueForDelete({p})
        /\ UNCHANGED <<phase, created, links, freed, graceful, output, queue,
                       timing>>
  BY DEF DeleteDeadHandler
<1>2. p \in deadIO /\ phase = "handlers" /\ p \in Live
  BY <1>1 DEF IsFirst, IInv, HandlersExist
<1>3. Enqueued({p})
  BY <1>1, <1>2, IdsAreNumbers
  DEF Enqueued, EnqueueForDelete, IInv, TimersPaired,
                   HandlersExist
<1>4. Quiet
  BY <1>1 DEF Quiet
<1>5. TypeOK'
  BY <1>1 DEF IInv, TypeOK, EnqueueForDelete
<1>6. TransportsServed'
  BY <1>1, <1>2, <1>3, <1>4 DEF IInv, TransportsServed, Enqueued, Quiet
<1>7. HandlersExist'
  BY <1>1, <1>2, <1>3, <1>4, LiveKept DEF IInv, HandlersExist, Quiet, TypeOK
<1> QED BY <1>3, <1>4, <1>5, <1>6, <1>7, QuietKeeps DEF IInv

\* An id that was not given out yet is named nowhere.
LEMMA FreshIds ==
  ASSUME IInv, NEW i \in Ids, i > created
  PROVE  /\ i \notin Live /\ i \notin freed /\ kind[i] = "none"
         /\ far[i] = Null /\ near[i] = Null
         /\ timer[i] = Null /\ parent[i] = Null /\ io[i] # "up"
         /\ \A q \in Ids : far[q] # i /\ near[q] # i /\ timer[q] # i
                           /\ parent[q] # i
<1> USE IdsAreNumbers DEF IInv
<1>1. i \notin Live /\ i \notin freed /\ kind[i] = "none"
  BY DEF Accounted, TypeOK
<1>2. \A q \in Ids : timer[q] # i
  BY <1>1 DEF TimersPaired, TypeOK
<1>3. \A q \in Ids : parent[q] # i
  BY <1>1 DEF TimersPaired
<1>4. \A q \in Ids : far[q] # i /\ near[q] # i
  BY <1>1 DEF Linked
<1>5. far[i] = Null /\ near[i] = Null /\ io[i] # "up"
  BY <1>1 DEF Linked, HandlersExist
<1>6. timer[i] = Null /\ parent[i] = Null
  BY <1>1 DEF TimersPaired
<1> QED BY <1>1, <1>2, <1>3, <1>4, <1>5, <1>6

\* What CreateProtocolChain builds for a chain of the configuration.
LEMMA SpawnedChain ==
  ASSUME IInv, NEW ks \in Chains, SpawnChain(ks)
  PROVE  /\ created' \in Ids /\ created' > created + 1
         /\ created + 1 .. created' \subseteq Ids
         /\ \A i \in Ids \ (created + 1 .. created') :
              /\ kind'[i] = kind[i] /\ io'[i] = io[i]
              /\ far'[i] = far[i] /\ near'[i] = near[i]
         /\ \A i \in created + 1 .. created' :
              /\ kind'[i] \in {"tcp", "rtmp", "rtsp", "filter", "disc"}
              /\ kind'[i] = "tcp" <=> i = created + 1
              /\ far'[i] = IF i = created + 1 THEN Null ELSE i - 1
              /\ near'[i] = IF i = created' THEN Null ELSE i + 1
              /\ io'[i] = IF i = created + 1 THEN "up" ELSE io[i]
         /\ kind' \in [Ids -> Kinds]
         /\ far' \in [Ids -> Reference] /\ near' \in [Ids -> Reference]
         /\ io' \in [Ids -> {"none", "up", "gone"}]
<1> USE DEF SpawnChain
<1>1. created \in Nat /\ Len(ks) \in {2, 3} /\ created' = created + Len(ks)
      /\ created' \in Ids
  BY MaxProtocolsAssumption DEF IInv, TypeOK, Chains
<1>2. created + 1 .. created' \subseteq Ids
  BY <1>1, MaxProtocolsAssumption DEF Ids
<1>3. \A j \in 1 .. Len(ks) :
        /\ ks[j] \in {"tcp", "rtmp", "rtsp", "filter", "disc"}
        /\ ks[j] = "tcp" <=> j = 1
  BY DEF Chains
<1>4. \A i \in created + 1 .. created' : i - created \in 1 .. Len(ks)
  BY <1>1
<1>5. ASSUME NEW i \in Ids \ (created + 1 .. created')
      PROVE  /\ kind'[i] = kind[i] /\ io'[i] = io[i]
             /\ far'[i] = far[i] /\ near'[i] = near[i]
  <2> HIDE DEF SpawnChain
  <2>1. created + 1 \in created + 1 .. created' /\ created + Len(ks) = created'
    BY <1>1
  <2>2. i # created + 1 /\ i \notin created + 1 .. created + Len(ks)
        /\ i \notin (created + 1) + 1 .. created + Len(ks)
        /\ i \notin created + 1 .. (created + Len(ks)) - 1
    BY <1>1, <1>5, <2>1, IdsAreNumbers
  <2> QED BY <1>5, <2>2 DEF IInv, TypeOK, SpawnChain
<1>6. ASSUME NEW i \in created + 1 .. created'
      PROVE  /\ kind'[i] = ks[i - created]
             /\ far'[i] = IF i = created + 1 THEN Null ELSE i - 1
             /\ near'[i] = IF i = created' THEN Null ELSE i + 1
             /\ io'[i] = IF i = created + 1 THEN "up" ELSE io[i]
  <2>1. i \in Ids /\ i > created
    BY <1>1, <1>2, <1>6
  <2>2. far[i] = Null /\ near[i] = Null
    BY <2>1, FreshIds
  <2> QED BY <1>1, <2>1, <2>2 DEF IInv, TypeOK
<1>7. kind' \in [Ids -> Kinds]
  BY <1>1, <1>3, <1>4 DEF IInv, TypeOK, Kinds, Business
<1>8. far' \in [Ids -> Reference] /\ near' \in [Ids -> Reference]
  <2>1. ASSUME NEW i \in Ids PROVE far'[i] \in Reference /\ near'[i] \in Reference
    <3>1. CASE i \in created + 1 .. created'
      <4>1. i # created + 1 => i - 1 \in created + 1 .. created'
        BY <1>1, <3>1, IdsAreNumbers
      <4>2. i # created' => i + 1 \in created + 1 .. created'
        BY <1>1, <3>1, IdsAreNumbers
      <4> QED BY <3>1, <4>1, <4>2, <1>2, <1>6 DEF Reference
    <3>2. CASE i \notin created + 1 .. created'
      BY <3>2, <1>5 DEF IInv, TypeOK
    <3> QED BY <3>1, <3>2
  <2>2. far' = [i \in Ids |-> far'[i]] /\ near' = [i \in Ids |-> near'[i]]
    OBVIOUS
  <2> QED BY <2>1, <2>2
<1>9. io' \in [Ids -> {"none", "up", "gone"}]
  BY DEF IInv, TypeOK
<1>10. \A i \in created + 1 .. created' :
         /\ kind'[i] \in {"tcp", "rtmp", "rtsp", "filter", "disc"}
         /\ kind'[i] = "tcp" <=> i = created + 1
  <2>1. \A i \in created + 1 .. created' : i - created = 1 <=> i = created + 1
    BY <1>1, IdsAreNumbers
  <2> QED BY ZenonT(60), <2>1, <1>3, <1>4, <1>6
<1> HIDE DEF SpawnChain
<1>11. created' > created + 1
  <2>1. CASE Len(ks) = 2 BY <1>1, <2>1
  <2>2. CASE Len(ks) = 3 BY <1>1, <2>2
  <2> QED BY <1>1, <2>1, <2>2
<1> QED BY <1>1, <1>2, <1>5, <1>6, <1>7, <1>8, <1>9, <1>10, <1>11

\* A new chain, registered and bound to its carrier, keeps the invariant.
LEMMA SpawnKeeps ==
  ASSUME IInv, NEW ks \in Chains, SpawnChain(ks),
         active' = active \cup (created + 1 .. created'),
         phase = "events",
         UNCHANGED <<phase, dead, freed, deadIO, rin, rout, current, due,
                     timer, parent>>
  PROVE  Accounted' /\ Linked' /\ TransportsServed' /\ TimersPaired'
         /\ HandlersExist'
<1> DEFINE new == created + 1 .. created'
<1>1. /\ created \in Nat /\ created' \in Ids /\ created' \in Nat
      /\ created' > created + 1 /\ new \subseteq Ids
  <2>1. created \in Nat
    BY MaxProtocolsAssumption DEF IInv, TypeOK
  <2>2. created' \in Ids /\ created' > created + 1 /\ new \subseteq Ids
    BY SpawnedChain
  <2> QED BY <2>1, <2>2, IdsAreNumbers
<1>2. \A i \in Ids \ new :
        /\ kind'[i] = kind[i] /\ io'[i] = io[i]
        /\ far'[i] = far[i] /\ near'[i] = near[i]
  BY SpawnedChain
<1>3. \A i \in new :
        /\ kind'[i] \in {"tcp", "rtmp", "rtsp", "filter", "disc"}
        /\ kind'[i] = "tcp" <=> i = created + 1
        /\ far'[i] = IF i = created + 1 THEN Null ELSE i - 1
        /\ near'[i] = IF i = created' THEN Null ELSE i + 1
        /\ io'[i] = IF i = created + 1 THEN "up" ELSE io[i]
  BY SpawnedChain
<1>4. \A i \in new : /\ i \notin Live /\ i \notin freed /\ kind[i] = "none"
                     /\ timer[i] = Null /\ parent[i] = Null /\ io[i] # "up"
                     /\ \A q \in Ids : far[q] # i /\ near[q] # i
                                       /\ timer[q] # i /\ parent[q] # i
  BY <1>1, FreshIds
<1>5. Live' = Live \cup new
  BY DEF Live
<1>6. \A i \in new : i # created + 1 => i - 1 \in new
  BY <1>1
<1>7. \A i \in new : i # created' => i + 1 \in new
  BY <1>1
<1>8. created + 1 \in new /\ created' \in new
  BY <1>1
<1>9. 1 .. created' = (1 .. created) \cup new
  BY <1>1
<1>10. \A i \in Ids : i > created' => i > created /\ i \notin new
  BY <1>1, IdsAreNumbers
<1>11. \A i \in new : i + 1 # Null /\ i # Null
  <2>1. \A i \in new : i \in Nat /\ i > 0
    BY <1>1
  <2> QED BY <2>1 DEF Null
<1>12. Live \subseteq Ids
  BY DEF IInv, TypeOK, Live
<1>13. active \subseteq Ids /\ dead \subseteq Ids /\ deadIO \subseteq Ids /\ rin \subseteq Ids /\ rout \subseteq Ids /\ due \subseteq Ids
  BY DEF IInv, TypeOK
<1> HIDE DEF new
<1>a. Accounted'
  <2>1. Live' \cup freed' = 1 .. created'
    BY <1>5, <1>9 DEF IInv, Accounted
  <2>2. active' \cap dead' = {} /\ Live' \cap freed' = {}
    BY <1>4, <1>5 DEF IInv, Accounted, Live, new
  <2>3. \A i \in Ids : i > created' => kind'[i] = "none"
    BY <1>2, <1>10 DEF IInv, Accounted
  <2>4. \A i \in 1 .. created' : kind'[i] # "none"
    <3>1. 1 .. created' \subseteq Ids
      BY <1>1, MaxProtocolsAssumption DEF Ids
    <3> QED BY <3>1, <1>2, <1>3, <1>9 DEF IInv, Accounted
  <2> QED BY <2>1, <2>2, <2>3, <2>4 DEF Accounted
<1>b. Linked'
  <2>1. ASSUME NEW q \in Ids, far'[q] # Null
        PROVE  /\ q \in Live' /\ far'[q] \in Live' /\ near'[far'[q]] = q
               /\ kind'[q] \notin {"timer", "tcp"}
               /\ kind'[far'[q]] # "timer"
    <3>1. CASE q \in new
      <4>1. far'[q] = q - 1 /\ q # created + 1 /\ q - 1 \in new
        BY <2>1, <3>1, <1>3, <1>6
      <4>2. q - 1 # created' /\ (q - 1) + 1 = q
        BY <3>1, <1>1 DEF new
      <4> QED BY <3>1, <4>1, <4>2, <1>3, <1>5
    <3>2. CASE q \notin new
      <4>1. far'[q] = far[q] /\ far[q] \in Live /\ q \in Live
        BY <2>1, <3>2, <1>2 DEF IInv, Linked
      <4>2. far[q] \notin new /\ far[q] \in Ids
        BY <4>1, <1>4, <1>12
      <4> QED BY <2>1, <3>2, <4>1, <4>2, <1>2, <1>5 DEF IInv, Linked
    <3> QED BY <3>1, <3>2
  <2>2. ASSUME NEW q \in Ids, near'[q] # Null
        PROVE  q \in Live' /\ near'[q] \in Live' /\ far'[near'[q]] = q
    <3>1. CASE q \in new
      <4>1. near'[q] = q + 1 /\ q # created' /\ q + 1 \in new
        BY <2>2, <3>1, <1>3, <1>7
      <4>2. q + 1 # created + 1 /\ (q + 1) - 1 = q
        BY <3>1, <1>1 DEF new
      <4> QED BY <3>1, <4>1, <4>2, <1>3, <1>5
    <3>2. CASE q \notin new
      <4>1. near'[q] = near[q] /\ near[q] \in Live /\ q \in Live
        BY <2>2, <3>2, <1>2 DEF IInv, Linked
      <4>2. near[q] \notin new /\ near[q] \in Ids
        BY <4>1, <1>4, <1>12
      <4> QED BY <2>2, <3>2, <4>1, <4>2, <1>2, <1>5 DEF IInv, Linked
    <3> QED BY <3>1, <3>2
  <2> QED BY <2>1, <2>2 DEF Linked
<1>c. TransportsServed'
  <2>1. ASSUME NEW q \in active', kind'[q] = "tcp" PROVE near'[q] # Null
    <3>1. CASE q \in new
      BY <2>1, <3>1, <1>1, <1>3, <1>11
    <3>2. CASE q \notin new
      BY <2>1, <3>2, <1>2, <1>13 DEF IInv, TransportsServed, new
    <3> QED BY <3>1, <3>2
  <2>2. \A f \in rin' : near'[f] # Null
    <3>1. rin \subseteq Live
      BY <1>13 DEF IInv, HandlersExist
    <3> QED BY <3>1, <1>2, <1>4, <1>13 DEF IInv, TransportsServed
  <2> QED BY <2>1, <2>2 DEF IInv, TransportsServed
<1>d. TimersPaired'
  <2>1. ASSUME NEW n \in Ids, timer'[n] # Null
        PROVE  /\ n \in Live' /\ kind'[n] \in Business
               /\ n < timer'[n] /\ timer'[n] <= created'
               /\ kind'[timer'[n]] = "timer" /\ parent'[timer'[n]] = n
               /\ kind'[n] = "rtmp" => /\ timer'[n] \in Live'
                                       /\ timer'[n] \in dead' => n \in dead'
    <3>1. n \notin new /\ timer[n] \notin new /\ timer[n] \in Ids /\ timer[n] \in Nat
      BY <2>1, <1>4, IdsAreNumbers DEF IInv, TypeOK, Reference
    <3> QED BY <2>1, <3>1, <1>1, <1>2, <1>5 DEF IInv, TimersPaired
  <2>2. ASSUME NEW t \in Ids, parent'[t] # Null
        PROVE  /\ kind'[t] = "timer"
               /\ \/ kind'[parent'[t]] = "rtsp"
                  \/ kind'[parent'[t]] = "rtmp" /\ timer'[parent'[t]] = t
    <3>1. t \notin new /\ parent[t] \notin new /\ parent[t] \in Ids
      BY <2>2, <1>4 DEF IInv, TypeOK, Reference
    <3> QED BY <2>2, <3>1, <1>2 DEF IInv, TimersPaired
  <2> QED BY <2>1, <2>2 DEF TimersPaired
<1>e. HandlersExist'
  <2>1. ASSUME NEW q \in Ids, io'[q] = "up"
        PROVE  q \in Live' /\ kind'[q] \in {"tcp", "timer"}
    BY <2>1, <1>2, <1>3, <1>4, <1>5 DEF IInv, HandlersExist
  <2>2. \A q \in deadIO \cup rin \cup rout \cup due :
          q \in Ids /\ q \notin new /\ io'[q] = "up" /\ kind'[q] = kind[q]
    BY <1>2, <1>4, <1>13 DEF IInv, HandlersExist
  <2>3. \A q \in deadIO : kind'[q] = "timer" /\ parent'[q] # Null
                          => kind'[parent'[q]] = "rtsp"
    <3>1. \A q \in deadIO : parent[q] # Null => parent[q] \in Ids \ new
      BY <1>4, <2>2 DEF IInv, TypeOK, Reference
    <3> QED BY <3>1, <2>2, <1>2 DEF IInv, HandlersExist
  <2>4. phase = "events"
    OBVIOUS
  <2> QED BY <2>1, <2>2, <2>3, <2>4 DEF IInv, HandlersExist
<1> QED BY <1>a, <1>b, <1>c, <1>d, <1>e

\* TCPAcceptor::Accept.
LEMMA AcceptStep ==
  IInv /\ (\E ks \in Chains : Accept(ks)) => IInv'
<1> SUFFICES ASSUME IInv, NEW ks \in Chains, Accept(ks) PROVE IInv'
  OBVIOUS
<1> USE DEF Accept, links, registry, watch, queue, timing
<1>1. Accounted' /\ Linked' /\ TransportsServed' /\ TimersPaired'
      /\ HandlersExist'
  BY SpawnKeeps
<1>2. TypeOK'
  <2>1. created + 1 .. created' \subseteq Ids /\ created' \in Ids
    BY SpawnedChain
  <2>2. created' \in 0 .. MaxProtocols
    BY <2>1, MaxProtocolsAssumption DEF Ids
  <2> QED BY <2>1, <2>2, SpawnedChain DEF IInv, TypeOK
<1> QED BY <1>1, <1>2 DEF IInv

\* TCPConnector, when the new stack is accepted.
LEMMA ConnectedStep ==
  IInv /\ (\E ks \in Chains : Connected(ks)) => IInv'
<1> SUFFICES ASSUME IInv, NEW ks \in Chains, Connected(ks) PROVE IInv'
  OBVIOUS
<1> USE DEF Connected, links, registry, watch, queue, timing
<1>1. Accounted' /\ Linked' /\ TransportsServed' /\ TimersPaired'
      /\ HandlersExist'
  BY SpawnKeeps
<1>2. created + 1 \in Ids
  <2>1. created + 1 .. created' \subseteq Ids /\ created' > created + 1
        /\ created' \in Ids
    BY SpawnedChain
  <2> QED BY <2>1, IdsAreNumbers, MaxProtocolsAssumption DEF IInv, TypeOK
<1>3. TypeOK'
  <2>1. created + 1 .. created' \subseteq Ids /\ created' \in Ids
    BY SpawnedChain
  <2>2. created' \in 0 .. MaxProtocols
    BY <2>1, MaxProtocolsAssumption DEF Ids
  <2> QED BY <1>2, <2>1, <2>2, SpawnedChain DEF IInv, TypeOK
<1> QED BY <1>1, <1>3 DEF IInv

\* New protocols that are put in one of the maps, or freed on the spot, are
\* accounted for.
LEMMA AccountedGrows ==
  ASSUME IInv, created' \in Ids, created' > created,
         Live' \cup freed' = Live \cup freed \cup (created + 1 .. created'),
         active' \cap dead' = {}, Live' \cap freed' = {},
         \A i \in Ids \ (created + 1 .. created') : kind'[i] = kind[i],
         \A i \in created + 1 .. created' : kind'[i] # "none"
  PROVE  Accounted'
<1>1. created \in Nat /\ created' \in Nat
  BY IdsAreNumbers, MaxProtocolsAssumption DEF IInv, TypeOK
<1>2. 1 .. created' = (1 .. created) \cup (created + 1 .. created')
  BY <1>1
<1>3. 1 .. created' \subseteq Ids
  BY <1>1, MaxProtocolsAssumption DEF Ids
<1>4. \A i \in Ids : i > created' => i > created /\ i \notin created + 1 .. created'
  BY <1>1, IdsAreNumbers
<1>5. \A i \in 1 .. created : i \notin created + 1 .. created'
  BY <1>1
<1> QED BY <1>2, <1>3, <1>4, <1>5 DEF IInv, Accounted

\* The id generator holds a number.
LEMMA CreatedIsNumber == ASSUME IInv PROVE created \in Nat
BY MaxProtocolsAssumption DEF IInv, TypeOK

\* The next id, when the bound leaves one.
LEMMA NextId ==
  ASSUME IInv, created + 1 \in Ids
  PROVE  /\ created + 1 > created
         /\ created + 1 .. created + 1 = {created + 1}
         /\ created + 1 \in 0 .. MaxProtocols
         /\ created + 1 # Null
<1>1. created \in Nat
  BY MaxProtocolsAssumption DEF IInv, TypeOK
<1> QED BY <1>1, MaxProtocolsAssumption DEF Ids, Null

\* A readable carrier leads to a live transport, its neighbour and its near
\* end.
LEMMA ReadersAreLive ==
  ASSUME IInv, NEW f \in rin
  PROVE  /\ f \in Ids /\ f \in Live /\ kind[f] = "tcp" /\ near[f] # Null
         /\ near[f] \in Ids /\ near[f] \in Live /\ far[near[f]] = f
         /\ NearEndpoint(f) \in Live /\ NearEndpoint(f) \in Ids
         /\ phase \in {"timers", "events", "crashed"}
<1>1. f \in Ids /\ f \in Live /\ kind[f] = "tcp" /\ near[f] # Null
      /\ Live \subseteq Ids
  BY DEF IInv, HandlersExist, TransportsServed, TypeOK, Live
<1>2. near[f] \in Ids /\ near[f] \in Live /\ far[near[f]] = f
  BY <1>1 DEF IInv, Linked
<1>3. NearEndpoint(f) \in Live /\ NearEndpoint(f) \in Ids
  BY <1>1, EndpointsAreLive DEF IInv
<1> QED BY <1>1, <1>2, <1>3 DEF IInv, HandlersExist

\* CreateProtocolChain, when it fails half way.
LEMMA SpawnFailsStep ==
  IInv /\ (\E k \in 1 .. 2 : SpawnFails(k)) => IInv'
<1> SUFFICES ASSUME IInv, NEW k \in 1 .. 2, SpawnFails(k) PROVE IInv'
  OBVIOUS
<1> USE DEF links, registry, watch, queue, timing
<1> DEFINE new == created + 1 .. created'
<1>1. /\ created \in Nat /\ created' = created + k /\ created' \in Ids
      /\ phase = "events"
  BY MaxProtocolsAssumption DEF SpawnFails, IInv, TypeOK
<1>2. new = {created + 1} \cup (created + 2 .. created + k)
      /\ created' > created /\ created' \in 0 .. MaxProtocols
      /\ (k = 2 <=> created + 2 \in new)
      /\ created + 1 \notin created + 2 .. created + k
  <2>1. CASE k = 1 BY <1>1, <2>1, MaxProtocolsAssumption DEF Ids
  <2>2. CASE k = 2 BY <1>1, <2>2, MaxProtocolsAssumption DEF Ids
  <2> QED BY <2>1, <2>2
<1>3. new \subseteq Ids
  BY <1>1, MaxProtocolsAssumption DEF Ids
<1>4. /\ \A i \in Ids \ new : kind'[i] = kind[i]
      /\ \A i \in new : kind'[i] \in {"tcp", "filter"}
      /\ kind' \in [Ids -> Kinds]
  <2>1. kind' = [i \in Ids |-> CASE i = created + 1 -> "tcp"
                                 [] i = created + 2 /\ k = 2 -> "filter"
                                 [] OTHER -> kind[i]]
    BY DEF SpawnFails
  <2>2. \A i \in new : i = created + 1 \/ (i = created + 2 /\ k = 2)
    BY <1>1
  <2>3. \A i \in Ids \ new : i # created + 1 /\ ~(i = created + 2 /\ k = 2)
    BY <1>2
  <2> QED BY <2>1, <2>2, <2>3, <1>3 DEF IInv, TypeOK, Kinds
<1>5. \A i \in new : /\ i \notin Live /\ i \notin freed
                     /\ timer[i] = Null /\ parent[i] = Null /\ io[i] # "up"
                     /\ far[i] = Null /\ near[i] = Null
                     /\ \A q \in Ids : far[q] # i /\ near[q] # i
                                       /\ timer[q] # i /\ parent[q] # i
  <2>1. \A i \in new : i > created
    BY <1>1
  <2> QED BY <1>3, <2>1, FreshIds
<1>6. /\ dead' = dead \cup (created + 2 .. created + k)
      /\ freed' = freed \cup {created + 1}
      /\ UNCHANGED <<phase, far, near, active, apps, graceful, io, deadIO,
                     output, writing, rin, rout, current, due, timer, parent>>
  BY DEF SpawnFails
<1>7. Live' = Live \cup (created + 2 .. created + k)
  BY <1>6 DEF Live
<1>8. Live \subseteq Ids /\ active \subseteq Live
  BY DEF IInv, TypeOK, Live
<1> HIDE DEF new
<1>9. TypeOK'
  BY <1>2, <1>3, <1>4, <1>6 DEF IInv, TypeOK
<1>10. Accounted'
  <2>1. active' \cap dead' = {} /\ Live' \cap freed' = {}
    BY <1>2, <1>5, <1>6, <1>7, <1>8 DEF IInv, Accounted
  <2>2. Live' \cup freed' = Live \cup freed \cup new
    BY <1>2, <1>6, <1>7
  <2>3. \A i \in new : kind'[i] # "none"
    BY <1>4
  <2> QED BY <2>1, <2>2, <2>3, <1>1, <1>2, <1>4, AccountedGrows DEF new
<1>11. Linked'
  <2>1. \A q \in Live : kind'[q] = kind[q]
    BY <1>4, <1>5, <1>8
  <2> QED BY <2>1, <1>6, <1>7 DEF IInv, Linked
<1>12. TransportsServed'
  BY <1>1, <1>4, <1>5, <1>6, <1>8 DEF IInv, TransportsServed
<1>13. TimersPaired'
  <2>1. \A n \in Ids : timer[n] # Null =>
          n \notin new /\ timer[n] \notin new /\ timer[n] \in Ids
          /\ timer[n] \in Nat
    BY <1>5, IdsAreNumbers DEF IInv, TypeOK, Reference
  <2>2. \A t \in Ids : parent[t] # Null =>
          t \notin new /\ parent[t] \notin new /\ parent[t] \in Ids
    BY <1>5 DEF IInv, TypeOK, Reference
  <2>3. \A q \in dead' : q \in dead \/ q \in new
    BY <1>2, <1>6
  <2>4. \A i \in Ids \ new : kind'[i] = kind[i]
    BY <1>4
  <2>5. \A n \in Ids : timer[n] # Null => timer[n] <= created'
    BY <2>1, <1>1 DEF IInv, TimersPaired
  <2> QED BY <2>1, <2>2, <2>3, <2>4, <2>5, <1>6, <1>7 DEF IInv, TimersPaired
<1>14. HandlersExist'
  <2>1. \A q \in deadIO \cup rin \cup rout \cup due : q \in Ids /\ q \notin new
    BY <1>5 DEF IInv, HandlersExist, TypeOK
  <2>2. \A q \in Ids : parent[q] # Null => parent[q] \in Ids \ new
    BY <1>5 DEF IInv, TypeOK, Reference
  <2>3. \A q \in Ids : io[q] = "up" => q \notin new
    BY <1>5
  <2> QED BY ZenonT(60), <2>1, <2>2, <2>3, <1>1, <1>4, <1>6, <1>7
          DEF IInv, HandlersExist
<1> QED BY <1>9, <1>10, <1>11, <1>12, <1>13, <1>14 DEF IInv

\* TCPConnector, when the new stack is refused.
LEMMA ConnectedRefusedStep ==
  IInv /\ (\E ks \in Chains : ConnectedRefused(ks)) => IInv'
<1> SUFFICES ASSUME IInv, NEW ks \in Chains, ConnectedRefused(ks) PROVE IInv'
  OBVIOUS
<1> USE DEF links, registry, watch, queue, timing
<1> DEFINE t == created + 1
           b == created + 2
           new == created + 1 .. created'
<1>1. /\ created \in Nat /\ created' = b /\ b \in Ids /\ t \in Ids
      /\ phase = "events" /\ new = {t, b} /\ t # b
      /\ t > created /\ b > created /\ b \in 0 .. MaxProtocols
  BY MaxProtocolsAssumption DEF ConnectedRefused, IInv, TypeOK, Ids
<1>2. ks[1] = "tcp" /\ ks[2] \in {"rtmp", "rtsp"}
  BY DEF ConnectedRefused, Chains, Business
<1>3. /\ kind' = [kind EXCEPT ![t] = ks[1], ![b] = ks[2]]
      /\ io' = [io EXCEPT ![t] = "up"]
      /\ dead' = dead \cup {t}
      /\ freed' = freed \cup {b}
      /\ UNCHANGED <<phase, far, near, active, apps, graceful, deadIO,
                     output, writing, rin, rout, current, due, timer, parent>>
  BY DEF ConnectedRefused
<1>4. \A i \in new : /\ i \notin Live /\ i \notin freed
                     /\ timer[i] = Null /\ parent[i] = Null /\ io[i] # "up"
                     /\ far[i] = Null /\ near[i] = Null
                     /\ \A q \in Ids : far[q] # i /\ near[q] # i
                                       /\ timer[q] # i /\ parent[q] # i
  BY <1>1, FreshIds
<1>5. created' > created /\ created' \in Ids
  BY <1>1
<1> HIDE DEF t, b, new
<1>6. /\ \A i \in Ids \ new : kind'[i] = kind[i] /\ io'[i] = io[i]
      /\ kind'[t] = "tcp" /\ kind'[b] \in {"rtmp", "rtsp"}
      /\ kind' \in [Ids -> Kinds] /\ io' \in [Ids -> {"none", "up", "gone"}]
      /\ io'[b] # "up"
  BY <1>1, <1>2, <1>3, <1>4 DEF IInv, TypeOK, Kinds, Business
<1>7. Live' = Live \cup {t}
  BY <1>3 DEF Live
<1>8. Live \subseteq Ids /\ active \subseteq Live
  BY DEF IInv, TypeOK, Live
<1>9. TypeOK'
  BY <1>1, <1>3, <1>6 DEF IInv, TypeOK
<1>10. Accounted'
  <2>1. active' \cap dead' = {} /\ Live' \cap freed' = {}
    BY <1>1, <1>3, <1>4, <1>7, <1>8 DEF IInv, Accounted
  <2>2. Live' \cup freed' = Live \cup freed \cup new
    BY <1>1, <1>3, <1>7
  <2>3. \A i \in new : kind'[i] # "none"
    BY <1>1, <1>6
  <2> QED BY <2>1, <2>2, <2>3, <1>5, <1>6, AccountedGrows DEF new
<1>11. Linked'
  <2>1. \A q \in Live : kind'[q] = kind[q]
    BY <1>4, <1>6, <1>8
  <2> QED BY <2>1, <1>3, <1>7 DEF IInv, Linked
<1>12. TransportsServed'
  BY <1>1, <1>3, <1>4, <1>6, <1>8 DEF IInv, TransportsServed
<1>13. TimersPaired'
  <2>1. \A n \in Ids : timer[n] # Null =>
          n \notin new /\ timer[n] \notin new /\ timer[n] \in Ids
          /\ timer[n] \in Nat
    BY <1>4, IdsAreNumbers DEF IInv, TypeOK, Reference
  <2>2. \A q \in Ids : parent[q] # Null =>
          q \notin new /\ parent[q] \notin new /\ parent[q] \in Ids
    BY <1>4 DEF IInv, TypeOK, Reference
  <2>3. \A q \in dead' : q \in dead \/ q \in new
    BY <1>1, <1>3
  <2>4. \A n \in Ids : timer[n] # Null => timer[n] <= created'
    BY <2>1, <1>1 DEF IInv, TimersPaired, b
  <2> QED BY <2>1, <2>2, <2>3, <2>4, <1>3, <1>6, <1>7 DEF IInv, TimersPaired
<1>14. HandlersExist'
  <2>1. \A q \in deadIO \cup rin \cup rout \cup due : q \in Ids /\ q \notin new
    BY <1>4 DEF IInv, HandlersExist, TypeOK
  <2>2. \A q \in Ids : parent[q] # Null => parent[q] \in Ids \ new
    BY <1>4 DEF IInv, TypeOK, Reference
  <2>3. \A q \in Ids : io'[q] = "up" => q \in Live' /\ kind'[q] \in {"tcp", "timer"}
    BY <1>1, <1>4, <1>6, <1>7 DEF IInv, HandlersExist
  <2>4. \A q \in deadIO \cup rin \cup rout \cup due :
          io'[q] = "up" /\ kind'[q] = kind[q]
    BY <2>1, <1>6 DEF IInv, HandlersExist
  <2>5. \A q \in deadIO : kind'[q] = "timer" /\ parent'[q] # Null
                          => kind'[parent'[q]] = "rtsp"
    <3>1. parent' = parent
      BY <1>3
    <3>2. ASSUME NEW q \in deadIO, kind[q] = "timer", parent[q] # Null
          PROVE  kind'[parent[q]] = "rtsp"
      <4>1. parent[q] \in Ids \ new /\ kind[parent[q]] = "rtsp"
        BY <2>1, <2>2, <3>2 DEF IInv, HandlersExist
      <4> QED BY <4>1, <1>6
    <3> QED BY <2>4, <3>1, <3>2
  <2>6. /\ phase' = "events" /\ due' = {}
        /\ deadIO' = deadIO /\ rin' = rin /\ rout' = rout
    BY <1>1, <1>3 DEF IInv, HandlersExist
  <2>7. \A q \in rin \cup rout : kind[q] = "tcp"
    BY DEF IInv, HandlersExist
  <2> QED BY <2>3, <2>4, <2>5, <2>6, <2>7 DEF HandlersExist
<1> QED BY <1>9, <1>10, <1>11, <1>12, <1>13, <1>14 DEF IInv

\* The end of a file that is played.
LEMMA InputStopsFileStep ==
  IInv /\ (\E f \in Ids : InputStopsFile(f)) => IInv'
<1> SUFFICES ASSUME IInv, NEW f \in Ids, InputStopsFile(f) PROVE IInv'
  OBVIOUS
<1> USE DEF links, registry, watch, queue, timing
<1> DEFINE n == NearEndpoint(f)
           t == timer[n]
<1>1. /\ f \in rin /\ kind[n] = "rtmp" /\ t # Null /\ phase = "events"
      /\ n \notin dead
  BY DEF InputStopsFile, Processes, Read
<1>2. n \in Ids /\ n \in Live
  BY <1>1, ReadersAreLive
<1> HIDE DEF n
<1>3. t \in Ids /\ t \in Live /\ kind[t] = "timer" /\ parent[t] = n
  BY <1>1, <1>2 DEF IInv, TimersPaired, TypeOK, Reference
<1>4. /\ active' = active \ {t} /\ dead' = dead \cup {t} /\ apps' = apps \ {t}
      /\ parent' = [parent EXCEPT ![t] = Null]
      /\ timer' = [timer EXCEPT ![n] = Null]
      /\ UNCHANGED <<phase, created, kind, far, near, freed, graceful, io,
                     output, writing, due>>
      /\ rin' \subseteq rin /\ rout' \subseteq rout /\ deadIO' = deadIO
      /\ current' \in {f, Null}
  BY DEF InputStopsFile, Processes, Read, EnqueueForDelete, n
<1>5. Live' = Live
  BY <1>3, <1>4 DEF Live
<1> HIDE DEF t
<1>6. TypeOK'
  BY <1>2, <1>3, <1>4 DEF IInv, TypeOK, Reference
<1>7. Accounted'
  BY <1>3, <1>4, <1>5 DEF IInv, Accounted
<1>8. Linked'
  BY <1>4, <1>5 DEF IInv, Linked
<1>9. TransportsServed'
  BY <1>1, <1>4 DEF IInv, TransportsServed
<1>10. TimersPaired'
  <2>1. \A q \in Ids : timer'[q] # Null => q # n /\ timer'[q] = timer[q]
                                           /\ timer[q] # t
    BY <1>2, <1>3, <1>4 DEF IInv, TimersPaired, TypeOK
  <2>2. \A q \in Ids : parent'[q] # Null =>
          q # t /\ parent'[q] = parent[q] /\ (parent[q] = n => FALSE)
    BY <1>1, <1>2, <1>3, <1>4 DEF IInv, TimersPaired, TypeOK, t
  <2>3. \A q \in Ids : q # t => parent'[q] = parent[q]
    BY <1>4 DEF IInv, TypeOK
  <2>4. \A q \in Ids : q # n => timer'[q] = timer[q]
    BY <1>4 DEF IInv, TypeOK
  <2>5. \A q \in Ids : timer[q] # Null => timer[q] \in Ids
    BY DEF IInv, TypeOK, Reference
  <2>6. \A q \in Ids : parent[q] # Null => parent[q] \in Ids
    BY DEF IInv, TypeOK, Reference
  <2> QED BY <2>1, <2>2, <2>3, <2>4, <2>5, <2>6, <1>4, <1>5
          DEF IInv, TimersPaired
<1>11. HandlersExist'
  <2>1. \A q \in Ids : parent'[q] # Null => parent'[q] = parent[q]
    BY <1>4 DEF IInv, TypeOK
  <2>2. deadIO \subseteq Ids
    BY DEF IInv, TypeOK
  <2> QED BY <2>1, <2>2, <1>1, <1>4, <1>5 DEF IInv, HandlersExist
<1> QED BY <1>6, <1>7, <1>8, <1>9, <1>10, <1>11 DEF IInv

\* A new timer: the start of a file, or of the keep-alive.
LEMMA InputStartsTimerStep ==
  IInv /\ (\E f \in Ids : InputStartsTimer(f)) => IInv'
<1> SUFFICES ASSUME IInv, NEW f \in Ids, InputStartsTimer(f) PROVE IInv'
  OBVIOUS
<1> USE DEF links, registry, watch, queue, timing
<1> DEFINE n == NearEndpoint(f)
           t == created + 1
<1>1. /\ f \in rin /\ kind[n] \in Business /\ timer[n] = Null
      /\ phase = "events" /\ n \notin dead /\ t \in Ids
  BY DEF InputStartsTimer, Processes, Read
<1>2. n \in Ids /\ n \in Live
  BY <1>1, ReadersAreLive
<1>3. /\ t \notin Live /\ t \notin freed /\ kind[t] = "none"
      /\ far[t] = Null /\ near[t] = Null
      /\ timer[t] = Null /\ parent[t] = Null /\ io[t] # "up"
      /\ \A q \in Ids : far[q] # t /\ near[q] # t /\ timer[q] # t
                        /\ parent[q] # t
  BY <1>1, NextId, FreshIds
<1>4. n \in Nat /\ t \in Nat /\ n <= created /\ n < t /\ created \in Nat
  BY <1>1, <1>2, IdsAreNumbers, MaxProtocolsAssumption
  DEF IInv, Accounted, TypeOK
<1>5. /\ created' = t /\ kind' = [kind EXCEPT ![t] = "timer"]
      /\ io' = [io EXCEPT ![t] = "up"]
      /\ active' = active \cup {t}
      /\ timer' = [timer EXCEPT ![n] = t]
      /\ parent' = [parent EXCEPT ![t] = n]
      /\ UNCHANGED <<phase, far, near, dead, apps, freed, graceful, output,
                     writing, due>>
      /\ rin' \subseteq rin /\ rout' \subseteq rout /\ deadIO' = deadIO
      /\ current' \in {f, Null}
  BY DEF InputStartsTimer, Processes, Read
<1>6. /\ created + 1 .. created' = {t} /\ created' > created
      /\ created' \in Ids /\ created' \in 0 .. MaxProtocols /\ t # Null
  BY <1>1, <1>5, NextId
<1>7. ASSUME NEW q \in Ids, timer[q] # Null PROVE timer[q] <= t
  <2>1. timer[q] <= created /\ timer[q] \in Nat
    <3>1. timer[q] \in Ids
      BY <1>7 DEF IInv, TypeOK, Reference
    <3> QED BY <1>7, <3>1, IdsAreNumbers DEF IInv, TimersPaired
  <2> QED BY <2>1, <1>4
<1> HIDE DEF n, t
<1>8. Live' = Live \cup {t} /\ Live \subseteq Ids
  BY <1>5 DEF Live, IInv, TypeOK
<1>9. /\ \A q \in Ids \ {t} : kind'[q] = kind[q] /\ io'[q] = io[q]
                              /\ parent'[q] = parent[q]
      /\ \A q \in Ids \ {n} : timer'[q] = timer[q]
      /\ kind'[t] = "timer" /\ io'[t] = "up" /\ parent'[t] = n /\ timer'[n] = t
  BY <1>1, <1>2, <1>5 DEF IInv, TypeOK
<1>10. TypeOK'
  BY <1>1, <1>2, <1>5, <1>6 DEF IInv, TypeOK, Reference, Kinds
<1>11. Accounted'
  <2>1. active' \cap dead' = {} /\ Live' \cap freed' = {}
    BY <1>3, <1>5, <1>8 DEF IInv, Accounted, Live
  <2> QED BY <2>1, <1>5, <1>6, <1>8, <1>9, AccountedGrows
<1>12. Linked'
  BY <1>3, <1>5, <1>8, <1>9 DEF IInv, Linked
<1>13. TransportsServed'
  <2>1. \A q \in active' : q \in active \/ q = t
    BY <1>5
  <2> QED BY <2>1, <1>1, <1>5, <1>8, <1>9 DEF IInv, TransportsServed, Live
<1>14. TimersPaired'
  <2>1. ASSUME NEW q \in Ids, timer'[q] # Null
        PROVE  /\ q \in Live' /\ kind'[q] \in Business
               /\ q < timer'[q] /\ timer'[q] <= created'
               /\ kind'[timer'[q]] = "timer" /\ parent'[timer'[q]] = q
               /\ kind'[q] = "rtmp" => /\ timer'[q] \in Live'
                                       /\ timer'[q] \in dead' => q \in dead'
    <3>1. CASE q = n
      <4>1. t \notin dead /\ n # t /\ t <= t
        BY <1>2, <1>3, <1>4 DEF Live
      <4> QED BY <3>1, <4>1, <1>1, <1>2, <1>4, <1>5, <1>8, <1>9
    <3>2. CASE q # n
      <4>1. timer'[q] = timer[q] /\ timer[q] # t /\ timer[q] \in Ids /\ q # t
        BY <2>1, <3>2, <1>3, <1>9 DEF IInv, TypeOK, Reference
      <4> QED BY <2>1, <4>1, <1>5, <1>7, <1>8, <1>9 DEF IInv, TimersPaired
    <3> QED BY <3>1, <3>2
  <2>2. ASSUME NEW q \in Ids, parent'[q] # Null
        PROVE  /\ kind'[q] = "timer"
               /\ \/ kind'[parent'[q]] = "rtsp"
                  \/ kind'[parent'[q]] = "rtmp" /\ timer'[parent'[q]] = q
    <3>1. CASE q = t
      BY <3>1, <1>1, <1>2, <1>3, <1>8, <1>9 DEF Business
    <3>2. CASE q # t
      <4>1. parent'[q] = parent[q] /\ parent[q] # t /\ parent[q] \in Ids
        BY <2>2, <3>2, <1>3, <1>9 DEF IInv, TypeOK, Reference
      <4>2. kind[parent[q]] = "rtmp" => parent[q] # n
        BY <2>2, <4>1, <1>1, <1>6, IdsAreNumbers DEF IInv, TimersPaired
      <4> QED BY <2>2, <3>2, <4>1, <4>2, <1>9 DEF IInv, TimersPaired
    <3> QED BY <3>1, <3>2
  <2> QED BY <2>1, <2>2 DEF TimersPaired
<1>15. HandlersExist'
  <2>1. \A q \in deadIO \cup rin \cup rout \cup due : q \in Ids /\ q # t
    BY <1>3 DEF IInv, HandlersExist, TypeOK
  <2>2. \A q \in Ids : parent[q] # Null => parent[q] \in Ids \ {t}
    BY <1>3 DEF IInv, TypeOK, Reference
  <2>3. \A q \in Ids : io'[q] = "up" => q \in Live' /\ kind'[q] \in {"tcp", "timer"}
    <3>1. \A q \in Ids \ {t} : io[q] = "up" =>
            q \in Live /\ kind[q] \in {"tcp", "timer"}
      BY DEF IInv, HandlersExist
    <3> QED BY <3>1, <1>8, <1>9
  <2> QED BY <2>1, <2>2, <2>3, <1>1, <1>5, <1>8, <1>9
          DEF IInv, HandlersExist
<1> QED BY <1>10, <1>11, <1>12, <1>13, <1>14, <1>15 DEF IInv

\* RTMPE is inserted next to the transport: four links change and stay
\* mutual.
LEMMA InsertRtmpeStep ==
  IInv /\ (\E f \in Ids : InsertRtmpe(f)) => IInv'
<1> SUFFICES ASSUME IInv, NEW f \in Ids, InsertRtmpe(f) PROVE IInv'
  OBVIOUS
<1> USE DEF links, registry, watch, queue, timing
<1> DEFINE n == near[f]
           e == created + 1
<1>1. /\ f \in rin /\ kind[n] = "rtmp" /\ phase = "events" /\ e \in Ids
  BY DEF InsertRtmpe, Processes, Read
<1>2. /\ f \in Live /\ kind[f] = "tcp" /\ n \in Ids /\ n \in Live
      /\ far[n] = f /\ n # Null /\ n # f /\ near[f] = n
  BY <1>1, ReadersAreLive
<1>3. /\ e \notin Live /\ e \notin freed /\ kind[e] = "none"
      /\ far[e] = Null /\ near[e] = Null
      /\ timer[e] = Null /\ parent[e] = Null /\ io[e] # "up"
      /\ \A q \in Ids : far[q] # e /\ near[q] # e /\ timer[q] # e
                        /\ parent[q] # e
  BY <1>1, NextId, FreshIds
<1>4. /\ created' = e /\ kind' = [kind EXCEPT ![e] = "filter"]
      /\ far' = [far EXCEPT ![n] = e, ![e] = f]
      /\ near' = [near EXCEPT ![f] = e, ![e] = n]
      /\ active' = active \cup {e}
      /\ UNCHANGED <<phase, dead, apps, freed, graceful, io, output, writing,
                     due, timer, parent>>
      /\ rin' \subseteq rin /\ rout' \subseteq rout /\ deadIO' = deadIO
      /\ current' \in {f, Null}
  BY DEF InsertRtmpe, Processes, Read
<1>5. /\ created + 1 .. created' = {e} /\ created' > created
      /\ created' \in Ids /\ created' \in 0 .. MaxProtocols /\ e # Null
  BY <1>1, <1>4, NextId
<1>6. ASSUME NEW q \in Ids, timer[q] # Null PROVE timer[q] <= e
  <2>1. timer[q] \in Ids
    BY <1>6 DEF IInv, TypeOK, Reference
  <2>2. timer[q] <= created
    BY <1>6 DEF IInv, TimersPaired
  <2>3. timer[q] \in Nat
    BY <2>1, IdsAreNumbers
  <2>4. created \in Nat
    BY CreatedIsNumber
  <2> QED BY <2>2, <2>3, <2>4
<1> HIDE DEF n, e
<1>7. /\ \A q \in Ids \ {e} : kind'[q] = kind[q]
      /\ \A q \in Ids \ {n, e} : far'[q] = far[q]
      /\ \A q \in Ids \ {f, e} : near'[q] = near[q]
      /\ kind'[e] = "filter" /\ far'[n] = e /\ far'[e] = f
      /\ near'[f] = e /\ near'[e] = n
      /\ n # e /\ f # e
  BY <1>1, <1>2, <1>3, <1>4 DEF IInv, TypeOK
<1>8. Live' = Live \cup {e} /\ Live \subseteq Ids
  BY <1>4 DEF Live, IInv, TypeOK
<1>9. TypeOK'
  BY <1>1, <1>2, <1>4, <1>5 DEF IInv, TypeOK, Reference, Kinds
<1>10. Accounted'
  <2>1. active' \cap dead' = {} /\ Live' \cap freed' = {}
    BY <1>3, <1>4, <1>8 DEF IInv, Accounted, Live
  <2> QED BY <2>1, <1>4, <1>5, <1>7, <1>8, AccountedGrows
<1>11. Linked'
  <2>1. ASSUME NEW q \in Ids, far'[q] # Null
        PROVE  /\ q \in Live' /\ far'[q] \in Live' /\ near'[far'[q]] = q
               /\ kind'[q] \notin {"timer", "tcp"}
               /\ kind'[far'[q]] # "timer"
    <3>1. CASE q = e
      BY <3>1, <1>2, <1>7, <1>8
    <3>2. CASE q = n
      BY <3>2, <1>1, <1>2, <1>7, <1>8
    <3>3. CASE q \notin {e, n}
      <4>1. far'[q] = far[q] /\ far[q] \in Live /\ near[far[q]] = q
            /\ q \in Live
        BY <2>1, <3>3, <1>7 DEF IInv, Linked
      <4>2. far[q] \in Ids \ {e, f}
        BY <4>1, <3>3, <1>2, <1>3, <1>8
      <4> QED BY <2>1, <3>3, <4>1, <4>2, <1>7, <1>8 DEF IInv, Linked
    <3> QED BY <3>1, <3>2, <3>3
  <2>2. ASSUME NEW q \in Ids, near'[q] # Null
        PROVE  q \in Live' /\ near'[q] \in Live' /\ far'[near'[q]] = q
    <3>1. CASE q = e
      BY <3>1, <1>2, <1>7, <1>8
    <3>2. CASE q = f
      BY <3>2, <1>2, <1>7, <1>8
    <3>3. CASE q \notin {e, f}
      <4>1. near'[q] = near[q] /\ near[q] \in Live /\ far[near[q]] = q
            /\ q \in Live
        BY <2>2, <3>3, <1>7 DEF IInv, Linked
      <4>2. near[q] \in Ids \ {e, n}
        BY <4>1, <3>3, <1>2, <1>3, <1>8
      <4> QED BY <2>2, <3>3, <4>1, <4>2, <1>7, <1>8
    <3> QED BY <3>1, <3>2, <3>3
  <2> QED BY <2>1, <2>2 DEF Linked
<1>12. TransportsServed'
  <2>1. \A q \in active' : q = e \/ (q \in active /\ q \in Ids /\ q # e)
    BY <1>3, <1>4, <1>8 DEF Live
  <2>2. \A q \in active' : kind'[q] = "tcp" => near'[q] # Null
    BY <2>1, <1>5, <1>7 DEF IInv, TransportsServed
  <2>3. \A q \in rin' : near'[q] # Null
    <3>1. \A q \in rin' : q \in rin /\ q \in Ids /\ q # e
      BY <1>3, <1>4, <1>8, ReadersAreLive
    <3> QED BY <3>1, <1>5, <1>7 DEF IInv, TransportsServed
  <2> QED BY <2>2, <2>3, <1>1, <1>4 DEF TransportsServed
<1>13. TimersPaired'
  <2>1. \A q \in Ids : timer[q] # Null =>
          q # e /\ timer[q] # e /\ timer[q] \in Ids
    BY <1>3 DEF IInv, TypeOK, Reference
  <2>2. \A q \in Ids : parent[q] # Null =>
          q # e /\ parent[q] # e /\ parent[q] \in Ids
    BY <1>3 DEF IInv, TypeOK, Reference
  <2>3. timer' = timer /\ parent' = parent /\ dead' = dead /\ created' = e
    BY <1>4
  <2> QED BY <2>1, <2>2, <2>3, <1>6, <1>7, <1>8 DEF IInv, TimersPaired
<1>14. HandlersExist'
  <2>1. \A q \in deadIO \cup rin \cup rout \cup due : q \in Ids /\ q # e
    BY <1>3 DEF IInv, HandlersExist, TypeOK
  <2>2. \A q \in Ids : parent[q] # Null => parent[q] \in Ids \ {e}
    BY <1>3 DEF IInv, TypeOK, Reference
  <2>3. \A q \in Ids : io[q] = "up" => q # e
    BY <1>3
  <2> QED BY <2>1, <2>2, <2>3, <1>1, <1>4, <1>7, <1>8
          DEF IInv, HandlersExist
<1> QED BY <1>9, <1>10, <1>11, <1>12, <1>13, <1>14 DEF IInv

\* The discriminator gives its place to a fresh RTMP protocol: its own far
\* link is cut, and its far protocol gets a new near one.
LEMMA DiscriminateStep ==
  IInv /\ (\E f \in Ids : Discriminate(f)) => IInv'
<1> SUFFICES ASSUME IInv, NEW f \in Ids, Discriminate(f) PROVE IInv'
  OBVIOUS
<1> USE DEF links, registry, watch, queue, timing
<1> DEFINE d == NearEndpoint(f)
           m == far[d]
           r == created + 1
<1>1. f \in rin /\ kind[d] = "disc" /\ phase = "events" /\ r \in Ids
  BY DEF Discriminate, Processes, Read
<1>2. PICK D \in {{d}, {d, r}} :
        /\ active' = (active \cup {r}) \ D
        /\ dead' = dead \cup D
        /\ apps' = InheritApplication(d, r) \ D
  BY DEF Discriminate
<1>3. /\ created' = r /\ kind' = [kind EXCEPT ![r] = "rtmp"]
      /\ far' = [far EXCEPT ![d] = Null, ![r] = m]
      /\ near' = [near EXCEPT ![m] = r]
      /\ UNCHANGED <<phase, freed, graceful, io, output, writing, due, timer,
                     parent>>
      /\ rin' \subseteq rin /\ rout' \subseteq rout /\ deadIO' = deadIO
      /\ current' \in {f, Null}
  BY DEF Discriminate, Processes, Read, SplicedFar
<1>4. d \in Ids /\ d \in Live
  BY <1>1, ReadersAreLive
<1>5. m # Null
  <2>1. f # d /\ near[f] # Null /\ far[near[f]] = f
    BY <1>1, ReadersAreLive
  <2>2. near[f] \in Ids /\ f # Null
    BY <1>1, ReadersAreLive, IdsAreNumbers
  <2>3. CASE d = near[f]
    BY <2>1, <2>2, <2>3
  <2>4. CASE d # near[f]
    <3>1. d = near[near[f]] /\ d # Null
      BY <2>1, <2>4, <1>4, IdsAreNumbers DEF NearEndpoint
    <3>2. far[d] = near[f]
      BY <2>2, <3>1 DEF IInv, Linked
    <3> QED BY <2>1, <3>2
  <2> QED BY <2>3, <2>4
<1>6. m \in Live /\ near[m] = d /\ m \in Ids /\ kind[m] # "timer"
  BY <1>4, <1>5 DEF IInv, Linked, TypeOK, Reference
<1>7. /\ r \notin Live /\ r \notin freed /\ kind[r] = "none"
      /\ far[r] = Null /\ near[r] = Null
      /\ timer[r] = Null /\ parent[r] = Null /\ io[r] # "up"
      /\ \A q \in Ids : far[q] # r /\ near[q] # r /\ timer[q] # r
                        /\ parent[q] # r
  BY <1>1, NextId, FreshIds
<1>8. /\ created + 1 .. created' = {r} /\ created' > created
      /\ created' \in Ids /\ created' \in 0 .. MaxProtocols /\ r # Null
  BY <1>1, <1>3, NextId
<1>9. ASSUME NEW q \in Ids, timer[q] # Null PROVE timer[q] <= r
  <2>1. timer[q] \in Ids
    BY <1>9 DEF IInv, TypeOK, Reference
  <2>2. timer[q] <= created
    BY <1>9 DEF IInv, TimersPaired
  <2>3. timer[q] \in Nat
    BY <2>1, IdsAreNumbers
  <2>4. created \in Nat
    BY CreatedIsNumber
  <2> QED BY <2>2, <2>3, <2>4
<1>10. far[d] = m
  OBVIOUS
<1> HIDE DEF d, m, r
<1>11. /\ \A q \in Ids \ {r} : kind'[q] = kind[q]
       /\ \A q \in Ids \ {d, r} : far'[q] = far[q]
       /\ \A q \in Ids \ {m} : near'[q] = near[q]
       /\ kind'[r] = "rtmp" /\ far'[d] = Null /\ far'[r] = m /\ near'[m] = r
       /\ d # r /\ m # r /\ near'[r] = Null
  BY <1>1, <1>3, <1>4, <1>6, <1>7 DEF IInv, TypeOK
<1>12. Live' = Live \cup {r} /\ Live \subseteq Ids
  BY <1>2, <1>4 DEF Live, IInv, TypeOK
<1>13. TypeOK'
  <2>1. apps' \subseteq apps \cup {r}
    BY <1>2 DEF InheritApplication
  <2> QED BY <2>1, <1>1, <1>2, <1>3, <1>4, <1>6, <1>8
          DEF IInv, TypeOK, Reference, Kinds, Business
<1>14. Accounted'
  <2>1. active' \cap dead' = {} /\ Live' \cap freed' = {}
    BY <1>2, <1>3, <1>7, <1>12 DEF IInv, Accounted, Live
  <2> QED BY <2>1, <1>3, <1>8, <1>11, <1>12, AccountedGrows
<1>15. Linked'
  <2>1. ASSUME NEW q \in Ids, far'[q] # Null
        PROVE  /\ q \in Live' /\ far'[q] \in Live' /\ near'[far'[q]] = q
               /\ kind'[q] \notin {"timer", "tcp"}
               /\ kind'[far'[q]] # "timer"
    <3>1. CASE q = r
      BY <3>1, <1>6, <1>11, <1>12
    <3>2. CASE q # r
      <4>1. q # d /\ far'[q] = far[q] /\ far[q] \in Live /\ near[far[q]] = q
            /\ q \in Live
        BY <2>1, <3>2, <1>11 DEF IInv, Linked
      <4>2. far[q] \in Ids \ {m, r}
        BY <4>1, <1>6, <1>7, <1>12
      <4> QED BY <2>1, <3>2, <4>1, <4>2, <1>11, <1>12 DEF IInv, Linked
    <3> QED BY <3>1, <3>2
  <2>2. ASSUME NEW q \in Ids, near'[q] # Null
        PROVE  q \in Live' /\ near'[q] \in Live' /\ far'[near'[q]] = q
    <3>1. CASE q = m
      BY <3>1, <1>6, <1>11, <1>12
    <3>2. CASE q # m
      <4>1. near'[q] = near[q] /\ near[q] \in Live /\ far[near[q]] = q
            /\ q \in Live
        BY <2>2, <3>2, <1>11 DEF IInv, Linked
      <4>2. near[q] \in Ids \ {d, r}
        BY <4>1, <3>2, <1>7, <1>10, <1>12
      <4> QED BY <2>2, <4>1, <4>2, <1>11, <1>12
    <3> QED BY <3>1, <3>2
  <2> QED BY <2>1, <2>2 DEF Linked
<1>16. TransportsServed'
  <2>1. \A q \in active' : q = r \/ (q \in active /\ q \in Ids /\ q # r)
    BY <1>2, <1>7, <1>12 DEF Live
  <2>2. \A q \in active' : kind'[q] = "tcp" => near'[q] # Null
    BY <2>1, <1>8, <1>11 DEF IInv, TransportsServed
  <2>3. \A q \in rin' : near'[q] # Null
    <3>1. \A q \in rin' : q \in rin /\ q \in Ids /\ q # r
      BY <1>3, <1>7, <1>12, ReadersAreLive
    <3> QED BY <3>1, <1>8, <1>11 DEF IInv, TransportsServed
  <2> QED BY <2>2, <2>3, <1>1, <1>3 DEF TransportsServed
<1>17. TimersPaired'
  <2>1. \A q \in Ids : timer[q] # Null =>
          q # r /\ timer[q] # r /\ timer[q] \in Ids
    BY <1>7 DEF IInv, TypeOK, Reference
  <2>2. \A q \in Ids : parent[q] # Null =>
          q # r /\ parent[q] # r /\ parent[q] \in Ids
    BY <1>7 DEF IInv, TypeOK, Reference
  <2>3. timer' = timer /\ parent' = parent /\ created' = r
    BY <1>3
  <2>4. \A q \in dead' : q \in dead \/ q = d \/ q = r
    BY <1>2
  <2>5. dead \subseteq dead'
    BY <1>2
  <2>6. \A q \in Ids : timer[q] # Null => timer[q] # d
    BY <1>1 DEF IInv, TimersPaired, d
  <2> QED BY <2>1, <2>2, <2>3, <2>4, <2>5, <2>6, <1>9, <1>11, <1>12
          DEF IInv, TimersPaired
<1>18. HandlersExist'
  <2>1. \A q \in deadIO \cup rin \cup rout \cup due : q \in Ids /\ q # r
    BY <1>7 DEF IInv, HandlersExist, TypeOK
  <2>2. \A q \in Ids : parent[q] # Null => parent[q] \in Ids \ {r}
    BY <1>7 DEF IInv, TypeOK, Reference
  <2>3. \A q \in Ids : io[q] = "up" => q # r
    BY <1>7
  <2> QED BY <2>1, <2>2, <2>3, <1>1, <1>3, <1>11, <1>12
          DEF IInv, HandlersExist
<1> QED BY <1>13, <1>14, <1>15, <1>16, <1>17, <1>18 DEF IInv

\* Nothing changes.
LEMMA StutterStep == IInv /\ UNCHANGED vars => IInv'
<1> SUFFICES ASSUME IInv, UNCHANGED vars PROVE IInv'
  OBVIOUS
<1> USE DEF vars, links, registry, watch, queue, timing
<1>1. TypeOK' BY DEF IInv, TypeOK
<1>2. Accounted' BY DEF IInv, Accounted, Live
<1>3. Linked' BY DEF IInv, Linked, Live
<1>4. TransportsServed' BY DEF IInv, TransportsServed
<1>5. TimersPaired' BY DEF IInv, TimersPaired, Live
<1>6. HandlersExist' BY DEF IInv, HandlersExist, Live
<1> QED BY <1>1, <1>2, <1>3, <1>4, <1>5, <1>6 DEF IInv

\* Every step of the server keeps the inductive invariant.
LEMMA NextKeepsIInv == IInv /\ [Next]_vars => IInv'
<1> SUFFICES ASSUME IInv, [Next]_vars PROVE IInv'
  OBVIOUS
<1>1. CASE Timers
  BY <1>1, TimerIdleStep, FileTimerStep, KeepAliveTimerStep DEF Timers
<1>2. CASE NewStacks
  BY <1>2, SpawnFailsStep, AcceptStep, ConnectedStep, ConnectedRefusedStep
  DEF NewStacks
<1>3. CASE Reads
  BY <1>3, InputWithoutEffectStep, InputFeedsStep, InputClosesStep,
     InputClosesGracefullyStep, InputStartsTimerStep, InputStopsFileStep,
     DiscriminateStep, InsertRtmpeStep, InputOfEnqueuedRtspStep
  DEF Reads
<1>4. CASE Writes
  BY <1>4, WriteFailsStep, WritePartlyStep, WriteDrainsStep DEF Writes
<1> QED
  BY <1>1, <1>2, <1>3, <1>4, PollStep, TimersDoneStep, EventsDoneStep,
     DeleteDeadHandlerStep, DestroyStep, NextStageStep, ShutdownStep,
     StutterStep
  DEF Next

\* For any bound on the number of protocols, the inductive invariant holds in
\* every state the server reaches.
THEOREM StackInvariant == Spec => []IInv
BY InitIInv, NextKeepsIInv, PTL DEF Spec

\* The state of the protocol manager and the reactor is well typed.
THEOREM TypeCorrect == Spec => []TypeOK
<1>1. IInv => TypeOK
  BY DEF IInv
<1> QED BY <1>1, StackInvariant, PTL

\* SetFarProtocol, SetNearProtocol, the Reset... calls, the two surgeries and
\* ~BaseProtocol keep every pair of links mutual.
THEOREM LinksAreMutual == Spec => []LinksMutual
<1>1. IInv => LinksMutual
  <2> SUFFICES ASSUME IInv, NEW p \in Live, NEW q \in Live
               PROVE  near[p] = q <=> far[q] = p
    BY DEF LinksMutual
  <2>1. p \in Ids /\ q \in Ids /\ p # Null /\ q # Null
    BY IdsAreNumbers DEF IInv, TypeOK, Live
  <2> QED BY <2>1 DEF IInv, Linked
<1> QED BY <1>1, StackInvariant, PTL

\* TCPProtocol::SignalInputData never dereferences a null near protocol.
THEOREM ReadersArePresent == Spec => []ReadableHasReader
<1>1. IInv => ReadableHasReader
  BY DEF IInv, TransportsServed, ReadableHasReader
<1> QED BY <1>1, StackInvariant, PTL

\* No map, link, timer pointer or pending event names a protocol or a handler
\* whose destructor has run.
THEOREM NothingFreedIsUsed == Spec => []NoUseAfterFree
<1>1. IInv => NoUseAfterFree
  <2> SUFFICES ASSUME IInv PROVE NoUseAfterFree
    OBVIOUS
  <2>1. Live \subseteq Ids /\ Null \notin Ids
    BY IdsAreNumbers DEF IInv, TypeOK, Live
  <2>2. \A p \in Live : {far[p], near[p]} \subseteq Live \cup {Null}
    BY <2>1 DEF IInv, Linked
  <2>3. \A p \in Live : kind[p] = "rtmp" => timer[p] \in Live \cup {Null}
    BY <2>1 DEF IInv, TimersPaired
  <2>4. ASSUME NEW t \in Live, kind[t] = "timer", parent[t] # Null
        PROVE  parent[t] \in Live \/ kind[parent[t]] = "rtsp"
    <3>1. t \in Ids /\ parent[t] \in Ids
      BY <2>1, <2>4 DEF IInv, TypeOK, Reference
    <3>2. CASE kind[parent[t]] = "rtmp" /\ timer[parent[t]] = t
      <4>1. timer[parent[t]] # Null
        BY <2>1, <3>1, <3>2
      <4> QED BY <3>1, <4>1 DEF IInv, TimersPaired
    <3> QED BY <2>4, <3>1, <3>2 DEF IInv, TimersPaired
  <2>5. \A p \in deadIO \cup rin \cup rout \cup due : p \in Live /\ io[p] = "up"
    BY DEF IInv, HandlersExist, TypeOK
  <2> QED BY <2>2, <2>3, <2>4, <2>5 DEF NoUseAfterFree, IInv, Accounted
<1> QED BY <1>1, StackInvariant, PTL

\* ShutdownComplete: Cleanup() ends with no protocol and no handler, so that
\* IOHandlerManager::Shutdown finds nothing left.
THEOREM ShutdownIsComplete == Spec => []ShutdownComplete
<1>1. IInv => ShutdownComplete
  BY DEF IInv, HandlersExist, ShutdownComplete
<1> QED BY <1>1, StackInvariant, PTL

-----------------------------------------------------------------------------
(* Whole stacks. *)

\* A stack has at most three protocols: only a transport or a filter has a
\* near protocol, and the far protocol of a filter is a transport.
Shaped ==
  \A p \in Ids :
    /\ near[p] # Null => kind[p] \in {"tcp", "filter"}
    /\ kind[p] = "filter" /\ far[p] # Null => kind[far[p]] = "tcp"

\* An active protocol has all it needs but for what is enqueued with it.
ActiveWhole ==
  \A p \in active :
    /\ kind[p] \in {"tcp", "timer"} => io[p] = "up"
    /\ kind[p] \notin {"tcp", "timer"} => far[p] # Null
    /\ kind[p] # "timer" /\ near[p] = Null =>
         kind[p] \in Business \cup {"disc"} /\ p \in apps
    /\ kind[p] = "timer" => parent[p] \in Live /\ timer[parent[p]] = p

\* Between two cleanups no stack that may still be fed has lost its far end.
StandingPhases == {"poll", "timers", "events"}

Standing ==
  phase \in StandingPhases =>
    \A p \in Live :
      timer[p] # Null \/ (kind[p] = "filter" /\ near[p] # Null)
      => far[p] # Null

\* Only live transports have output, and a carrier that is reported as writable
\* has asked for it.
OutputWatched ==
  /\ output \subseteq Live /\ rout \subseteq writing
  /\ \A f \in output : kind[f] = "tcp"
  /\ QueuedOutputIsWatched

WholeInv == IInv /\ Shaped /\ ActiveWhole /\ Standing /\ OutputWatched

\* The sets of protocols hold ids, and ids are not Null.
LEMMA WholeTypes ==
  ASSUME IInv
  PROVE  /\ Live \subseteq Ids /\ active \subseteq Live /\ dead \subseteq Live
         /\ Null \notin Ids /\ deadIO \subseteq Ids
         /\ \A p \in Ids : /\ far[p] \in Ids \cup {Null}
                           /\ near[p] \in Ids \cup {Null}
                           /\ timer[p] \in Ids \cup {Null}
                           /\ parent[p] \in Ids \cup {Null}
BY IdsAreNumbers DEF IInv, TypeOK, Live, Reference

\* The far end of the stack of a protocol that is served by a timer.
LEMMA FarIsTransport ==
  ASSUME WholeInv, phase \in StandingPhases, NEW p \in Live, timer[p] # Null
  PROVE  FarEndpoint(p) \in Live /\ kind[FarEndpoint(p)] = "tcp"
<1>1. Live \subseteq Ids /\ Null \notin Ids
  BY WholeTypes DEF WholeInv
<1>2. far[p] # Null
  BY DEF WholeInv, Standing
<1>3. far[p] \in Live /\ near[far[p]] = p
  BY <1>1, <1>2 DEF WholeInv, IInv, Linked
<1>4. kind[far[p]] \in {"tcp", "filter"}
  BY <1>1, <1>3 DEF WholeInv, Shaped
<1>5. CASE kind[far[p]] = "tcp"
  <2>1. far[far[p]] = Null
    BY <1>1, <1>3, <1>5 DEF WholeInv, IInv, Linked
  <2> QED BY <1>2, <1>3, <1>5, <2>1 DEF FarEndpoint
<1>6. CASE kind[far[p]] = "filter"
  <2>1. far[far[p]] # Null
    BY <1>1, <1>3, <1>6 DEF WholeInv, Standing
  <2>2. far[far[p]] \in Live
    BY <1>1, <1>3, <2>1 DEF WholeInv, IInv, Linked
  <2>3. kind[far[far[p]]] = "tcp"
    BY <1>1, <1>3, <1>6, <2>1 DEF WholeInv, Shaped
  <2> QED BY <1>2, <2>1, <2>2, <2>3 DEF FarEndpoint
<1> QED BY <1>4, <1>5, <1>6

-----------------------------------------------------------------------------
(* Steps that create and link nothing. *)

\* What is enqueued leaves the rest whole; the next pulse begins when nothing
\* is enqueued.
LEMMA CalmKeeps ==
  ASSUME WholeInv, NEW D, D \subseteq Live, Quiet, EnqueueForDelete(D),
         \A p \in active \ D : io'[p] = io[p],
         phase' \in StandingPhases => phase \in StandingPhases \/ dead' = {}
  PROVE  Shaped' /\ ActiveWhole' /\ Standing'
<1>1. Live' = Live
  BY DEF EnqueueForDelete, Live
<1>2. Live \subseteq Ids /\ active \subseteq Live /\ Null \notin Ids
  BY WholeTypes DEF WholeInv
<1>3. active' = active \ D /\ apps' = apps \ D
      /\ UNCHANGED <<kind, far, near, timer, parent>>
  BY DEF EnqueueForDelete, Quiet
<1>4. Shaped'
  BY <1>3 DEF WholeInv, Shaped
<1>5. ActiveWhole'
  BY <1>1, <1>3 DEF WholeInv, ActiveWhole
<1>6. Standing'
  <2>1. CASE phase \in StandingPhases
    BY <1>1, <1>3, <2>1 DEF WholeInv, Standing
  <2>2. CASE phase' \in StandingPhases /\ dead' = {}
    <3>1. Live = active
      BY <1>1, <1>3, <2>2 DEF EnqueueForDelete, Live
    <3>2. ASSUME NEW p \in active, timer[p] # Null \/ kind[p] = "filter"
          PROVE  far[p] # Null
      <4>1. kind[p] \notin {"tcp", "timer"}
        BY <1>2, <3>2 DEF WholeInv, IInv, TimersPaired, Business
      <4> QED BY <4>1 DEF WholeInv, ActiveWhole
    <3> QED BY <1>1, <1>3, <3>1, <3>2 DEF Standing
  <2> QED BY <2>1, <2>2 DEF Standing
<1> QED BY <1>4, <1>5, <1>6

\* A step that leaves the output alone.
LEMMA OutputRests ==
  ASSUME WholeInv, UNCHANGED <<kind, io, output, writing>>,
         Live \subseteq Live', rout' \subseteq rout
  PROVE  OutputWatched'
BY DEF WholeInv, OutputWatched, QueuedOutputIsWatched

\* A step that queues output on a live transport.
LEMMA OutputQueued ==
  ASSUME WholeInv, UNCHANGED <<kind, io>>, Live \subseteq Live',
         rout' \subseteq rout,
         NEW f \in Live, kind[f] = "tcp", EnqueueForOutbound(f)
  PROVE  OutputWatched'
BY DEF WholeInv, OutputWatched, QueuedOutputIsWatched, EnqueueForOutbound

\* The steps that do no more than that, with what they enqueue.
LEMMA CalmStep ==
  ASSUME WholeInv, IInv', NEW D, D \subseteq Live, Quiet, EnqueueForDelete(D),
         UNCHANGED io,
         phase' \in StandingPhases => phase \in StandingPhases \/ dead' = {},
         rout' \subseteq rout,
         \/ UNCHANGED watch
         \/ \E f \in Live : kind[f] = "tcp" /\ EnqueueForOutbound(f)
  PROVE  WholeInv'
<1>1. Live' = Live
  BY DEF EnqueueForDelete, Live
<1>2. Shaped' /\ ActiveWhole' /\ Standing'
  BY CalmKeeps
<1>3. OutputWatched'
  <2>1. UNCHANGED kind
    BY DEF Quiet
  <2>2. CASE UNCHANGED watch
    BY <1>1, <2>1, <2>2, OutputRests DEF watch
  <2>3. CASE \E f \in Live : kind[f] = "tcp" /\ EnqueueForOutbound(f)
    BY <1>1, <2>1, <2>3, OutputQueued
  <2> QED BY <2>2, <2>3
<1> QED BY <1>2, <1>3 DEF WholeInv

LEMMA NothingEnqueued ==
  ASSUME UNCHANGED registry
  PROVE  EnqueueForDelete({}) /\ {} \subseteq Live
BY DEF registry, EnqueueForDelete

\* TimersDone, EventsDone, NextStage and Shutdown.
LEMMA StagesWhole ==
  ASSUME WholeInv, IInv', TimersDone \/ EventsDone \/ NextStage \/ Shutdown
  PROVE  WholeInv'
<1> USE DEF links, queue, timing
<1>1. ASSUME TimersDone \/ EventsDone PROVE WholeInv'
  BY <1>1, NothingEnqueued, CalmStep
  DEF TimersDone, EventsDone, Quiet, StandingPhases
<1>2. ASSUME NextStage PROVE WholeInv'
  <2>1. /\ Quiet /\ UNCHANGED <<io, rout, watch, registry>>
        /\ phase' \in StandingPhases => dead' = {}
    BY <1>2 DEF NextStage, Quiet, StandingPhases, ProtocolsClean, registry
  <2> QED BY <2>1, NothingEnqueued, CalmStep
<1>3. ASSUME Shutdown PROVE WholeInv'
  <2>1. active \subseteq Live
    BY DEF Live
  <2> QED BY <1>3, <2>1, CalmStep
          DEF Shutdown, ShutdownVictims, Quiet, StandingPhases
<1> QED BY <1>1, <1>2, <1>3

\* The callbacks of the timers.
LEMMA TimersWhole ==
  ASSUME WholeInv, IInv', NEW t \in Ids,
         TimerIdle(t) \/ FileTimer(t) \/ KeepAliveTimer(t)
  PROVE  WholeInv'
<1> USE DEF links, timing
<1>1. /\ Quiet /\ UNCHANGED <<phase, io, rout>> /\ phase = "timers" /\ t \in due
  BY DEF TimerIdle, FileTimer, KeepAliveTimer, TimerCallback, Quiet
<1>2. Live \subseteq Ids /\ active \subseteq Live /\ Null \notin Ids
  BY WholeTypes DEF WholeInv
<1>3. ASSUME ~IsEnqueueForDelete(t)
      PROVE  parent[t] \in Live /\ timer[parent[t]] # Null
  <2>1. t \in active /\ kind[t] = "timer"
    BY <1>1, <1>3 DEF WholeInv, IInv, HandlersExist, IsEnqueueForDelete, Live
  <2> QED BY <1>2, <2>1 DEF WholeInv, ActiveWhole
<1>4. ASSUME ~IsEnqueueForDelete(t)
      PROVE  FarEndpoint(parent[t]) \in Live /\ kind[FarEndpoint(parent[t])] = "tcp"
  BY <1>1, <1>3, <1>4, FarIsTransport DEF StandingPhases
<1>5. CASE TimerIdle(t)
  BY <1>1, <1>5, NothingEnqueued, CalmStep DEF TimerIdle
<1>6. CASE FileTimer(t)
  <2>1. ~IsEnqueueForDelete(t)
    BY <1>6 DEF FileTimer
  <2>2. {parent[t]} \subseteq Live
    BY <1>3, <2>1
  <2>3. CASE EnqueueForOutbound(FarEndpoint(parent[t])) /\ UNCHANGED registry
    BY <1>1, <1>4, <2>1, <2>3, NothingEnqueued, CalmStep
  <2>4. CASE EnqueueForDelete({parent[t]}) /\ UNCHANGED watch
    BY <1>1, <2>2, <2>4, CalmStep
  <2> QED BY <1>6, <2>3, <2>4 DEF FileTimer
<1>7. CASE KeepAliveTimer(t)
  BY <1>1, <1>4, <1>7, NothingEnqueued, CalmStep DEF KeepAliveTimer
<1> QED BY <1>5, <1>6, <1>7

\* The messages that create nothing.
LEMMA MessagesWhole ==
  ASSUME WholeInv, IInv', NEW f \in Ids,
         \/ InputWithoutEffect(f) \/ InputOfEnqueuedRtsp(f) \/ InputFeeds(f)
         \/ InputCloses(f) \/ InputClosesGracefully(f)
  PROVE  WholeInv'
<1> USE DEF links, timing
<1>1. Quiet /\ UNCHANGED io /\ rout' \subseteq rout /\ phase = "events"
  BY DEF InputWithoutEffect, InputOfEnqueuedRtsp, InputFeeds, InputCloses,
         InputClosesGracefully, Processes, Read, Quiet
<1>2. phase \in StandingPhases
  BY <1>1 DEF StandingPhases
<1>3. CASE InputWithoutEffect(f) \/ InputOfEnqueuedRtsp(f)
  BY <1>1, <1>2, <1>3, NothingEnqueued, CalmStep
  DEF InputWithoutEffect, InputOfEnqueuedRtsp
<1>4. CASE InputFeeds(f)
  <2>1. PICK g \in Ids : Carried(g) /\ EnqueueForOutbound(g)
    BY <1>4 DEF InputFeeds
  <2>2. g \in Live /\ kind[g] = "tcp" /\ UNCHANGED registry
    BY <1>4, <2>1 DEF Carried, InputFeeds
  <2> QED BY <1>1, <1>2, <2>1, <2>2, NothingEnqueued, CalmStep
<1>5. CASE InputCloses(f)
  <2>1. PICK n \in Live : EnqueueForDelete({n})
    BY <1>5 DEF InputCloses
  <2>2. UNCHANGED watch /\ {n} \subseteq Live
    BY <1>5 DEF InputCloses
  <2> QED BY <1>1, <1>2, <2>1, <2>2, CalmStep
<1>6. CASE InputClosesGracefully(f)
  <2>1. f \in rin
    BY <1>6 DEF InputClosesGracefully, Processes, Read
  <2>2. GracefulVictims(f) \subseteq Live
    BY <2>1, ReadersAreLive DEF WholeInv, GracefulVictims
  <2>3. EnqueueForDelete(GracefulVictims(f)) /\ UNCHANGED watch
    BY <1>6 DEF InputClosesGracefully
  <2> QED BY <1>1, <1>2, <2>2, <2>3, CalmStep
<1> QED BY <1>3, <1>4, <1>5, <1>6

\* The write half of a carrier's event.
LEMMA WritesWhole ==
  ASSUME WholeInv, IInv', NEW f \in Ids,
         WriteFails(f) \/ WritePartly(f) \/ WriteDrains(f)
  PROVE  WholeInv'
<1> USE DEF links, timing
<1>1. /\ Quiet /\ UNCHANGED <<phase, io>> /\ rout' = rout \ {f}
      /\ f \in rout /\ phase = "events"
  BY DEF WriteFails, WritePartly, WriteDrains, Writable, Quiet
<1>2. f \in Live /\ kind[f] = "tcp" /\ f \in writing
  BY <1>1 DEF WholeInv, OutputWatched, IInv, HandlersExist, TypeOK
<1>3. CASE WriteFails(f) \/ WritePartly(f)
  BY <1>1, <1>3, NothingEnqueued, CalmStep
  DEF WriteFails, WritePartly, StandingPhases
<1>4. CASE WriteDrains(f)
  <2>1. PICK D \in {{}, {f}} : EnqueueForDelete(D)
    BY <1>4, NothingEnqueued DEF WriteDrains
  <2>2. Shaped' /\ ActiveWhole' /\ Standing' /\ Live' = Live
    <3>1. D \subseteq Live
      BY <1>2
    <3>2. Live' = Live
      BY <2>1, <3>1 DEF EnqueueForDelete, Live
    <3> QED BY <1>1, <2>1, <3>1, <3>2, CalmKeeps DEF StandingPhases
  <2>3. \/ output' = output \ {f} /\ writing' = writing \ {f}
        \/ output' = output \cup {f} /\ UNCHANGED writing
    BY <1>4 DEF WriteDrains, BusinessRefills
  <2>4. OutputWatched'
    BY <1>1, <1>2, <2>2, <2>3
    DEF WholeInv, OutputWatched, QueuedOutputIsWatched, Quiet
  <2> QED BY <2>2, <2>4 DEF WholeInv
<1> QED BY <1>3, <1>4

\* A pulse begins.
LEMMA PollWhole ==
  ASSUME WholeInv, IInv', Poll
  PROVE  WholeInv'
<1> USE DEF links, timing
<1>1. /\ Quiet /\ UNCHANGED <<io, registry, watch>>
      /\ phase = "poll" /\ rout' \subseteq writing
  BY DEF Poll, Quiet
<1>2. Shaped' /\ ActiveWhole' /\ Standing'
  BY <1>1, NothingEnqueued, CalmKeeps DEF StandingPhases
<1>3. OutputWatched'
  BY <1>1
  DEF WholeInv, OutputWatched, QueuedOutputIsWatched, watch, registry, Live,
      Quiet
<1> QED BY <1>2, <1>3 DEF WholeInv

\* A round of DeleteDeadHandlers: the protocol that loses its handler leaves
\* the active ones.
LEMMA DeleteDeadHandlerWhole ==
  ASSUME WholeInv, IInv', DeleteDeadHandler
  PROVE  WholeInv'
<1> USE DEF links, timing, queue
<1>1. PICK p \in Ids :
        /\ phase \in {"handlers", "shutdown handlers"} /\ p \in deadIO
        /\ io' = [io EXCEPT ![p] = "gone"]
        /\ writing' = writing \ {p}
        /\ EnqueueForDelete({p})
        /\ Quiet /\ UNCHANGED <<phase, output, rout>>
  BY DEF DeleteDeadHandler, IsFirst, Quiet
<1>2. p \in Live /\ Live \subseteq Ids
  BY <1>1, WholeTypes DEF WholeInv, IInv, HandlersExist
<1>3. \A q \in Ids \ {p} : io'[q] = io[q]
  BY <1>1 DEF WholeInv, IInv, TypeOK
<1>4. io'[p] = "gone"
  BY <1>1 DEF WholeInv, IInv, TypeOK
<1>5. Shaped' /\ ActiveWhole' /\ Standing' /\ Live' = Live
  <2>1. Live' = Live
    BY <1>1, <1>2 DEF EnqueueForDelete, Live
  <2>2. \A q \in active \ {p} : io'[q] = io[q]
    BY <1>2, <1>3 DEF Live
  <2>3. {p} \subseteq Live /\ ~(phase' \in StandingPhases)
    BY <1>1, <1>2 DEF StandingPhases
  <2> QED BY <1>1, <2>1, <2>2, <2>3, CalmKeeps
<1>6. rout = {}
  BY <1>1 DEF WholeInv, IInv, HandlersExist
<1>7. OutputWatched'
  BY <1>1, <1>2, <1>3, <1>4, <1>5, <1>6
  DEF WholeInv, OutputWatched, QueuedOutputIsWatched, Quiet
<1> QED BY <1>5, <1>7 DEF WholeInv

-----------------------------------------------------------------------------
(* Steps that create, link or free. *)

\* A round of CleanupDeadProtocol: what loses a neighbour or the business end
\* it serves is enqueued with p, and so is no longer active.
LEMMA DestroyWhole ==
  ASSUME WholeInv, IInv', CleanupDeadProtocol
  PROVE  WholeInv'
<1>1. PICK p \in Ids : NextDead(p) /\ Destroy(p)
  BY DEF CleanupDeadProtocol
<1>2. /\ phase \in {"protocols", "shutdown protocols"}
      /\ UNCHANGED <<phase, kind, rout>>
  BY DEF CleanupDeadProtocol, queue
<1> DEFINE doomed == ({far[p], near[p]} \ {Null}) \cup TimerOf(p)
<1>3. /\ far' = [q \in Ids |-> IF q \in {p, near[p]} THEN Null ELSE far[q]]
      /\ near' = [q \in Ids |-> IF q \in {p, far[p]} THEN Null ELSE near[q]]
      /\ active' = active \ (doomed \cup {p})
      /\ dead' = (dead \cup doomed) \ {p}
      /\ apps' = apps \ (doomed \cup {p})
      /\ io' = IF io[p] = "up" THEN [io EXCEPT ![p] = "gone"] ELSE io
      /\ writing' = writing \ {p}
      /\ output' = output \ {p}
      /\ timer' = [timer EXCEPT ![p] = Null]
      /\ parent' = [t \in Ids |-> IF kind[p] = "rtmp" /\ parent[t] = p
                                  THEN Null ELSE parent[t]]
  BY <1>1 DEF Destroy
<1>4. \A q \in active : timer[p] = q => q \in doomed
  <2>1. SUFFICES ASSUME NEW q \in active, timer[p] = q PROVE q \in doomed
    OBVIOUS
  <2>2. q # Null
    BY WholeTypes DEF WholeInv
  <2>3. kind[p] \in Business
    BY <2>1, <2>2 DEF WholeInv, IInv, TimersPaired
  <2>4. q \in TimerOf(p)
    BY <2>1, <2>2, <2>3 DEF TimerOf, Business
  <2> QED BY <2>4
<1>5. Live \subseteq Ids /\ active \subseteq Live /\ Null \notin Ids /\ p \in Live
  BY <1>1, WholeTypes DEF WholeInv, NextDead, IsFirst, Live
<1>6. \A q \in Live \ {p} : q \in Live'
  BY <1>3 DEF Live
<1>7. rout = {}
  BY <1>2 DEF WholeInv, IInv, HandlersExist
<1>8. \A q \in Ids : q # p => io'[q] = io[q] /\ timer'[q] = timer[q]
  BY <1>3 DEF WholeInv, IInv, TypeOK
<1>9. Shaped'
  <2>1. \A q \in Ids : /\ near'[q] # Null => near[q] # Null
                       /\ far'[q] # Null => far'[q] = far[q]
    BY <1>3
  <2> QED BY <1>2, <2>1 DEF WholeInv, Shaped
<1>10. ActiveWhole'
  <2>1. SUFFICES ASSUME NEW q \in active'
                 PROVE  /\ kind[q] \in {"tcp", "timer"} => io'[q] = "up"
                        /\ kind[q] \notin {"tcp", "timer"} => far'[q] # Null
                        /\ kind[q] # "timer" /\ near'[q] = Null =>
                             kind[q] \in Business \cup {"disc"} /\ q \in apps'
                        /\ kind[q] = "timer" =>
                             parent'[q] \in Live' /\ timer'[parent'[q]] = q
    BY <1>2 DEF ActiveWhole
  <2>2. q \in active /\ q \in Ids /\ q # p /\ q \notin doomed
    BY <1>3, <1>5, <2>1
  <2>3. far'[q] = far[q] /\ near'[q] = near[q]
    BY <1>3, <1>5, <2>2
  <2>4. q \in apps => q \in apps'
    BY <1>3, <2>2
  <2>5. ASSUME kind[q] = "timer"
        PROVE  parent'[q] \in Live' /\ timer'[parent'[q]] = q
    <3>1. parent[q] \in Live /\ timer[parent[q]] = q
      BY <2>2, <2>5 DEF WholeInv, ActiveWhole
    <3>2. parent[q] # p
      BY <1>4, <2>2, <3>1
    <3>3. parent'[q] = parent[q]
      BY <1>3, <2>2, <3>2
    <3> QED BY <1>5, <1>6, <1>8, <3>1, <3>2, <3>3
  <2> HIDE DEF doomed
  <2> QED BY <1>8, <2>2, <2>3, <2>4, <2>5 DEF WholeInv, ActiveWhole
<1>11. Standing'
  BY <1>2 DEF Standing, StandingPhases
<1>12. OutputWatched'
  BY <1>2, <1>3, <1>5, <1>6, <1>7, <1>8
  DEF WholeInv, OutputWatched, QueuedOutputIsWatched
<1> QED BY <1>9, <1>10, <1>11, <1>12 DEF WholeInv

\* Protocols that were not there are named by none that is.
LEMMA FreshSet ==
  ASSUME IInv, NEW new \in SUBSET Ids, \A i \in new : i > created
  PROVE  /\ \A i \in new : /\ i \notin Live /\ far[i] = Null /\ near[i] = Null
                           /\ timer[i] = Null /\ parent[i] = Null /\ i # Null
                           /\ i \notin active
         /\ \A q \in Ids : /\ far[q] \notin new /\ near[q] \notin new
                           /\ timer[q] \notin new /\ parent[q] \notin new
<1>1. ASSUME NEW i \in new
      PROVE  /\ i \notin Live /\ far[i] = Null /\ near[i] = Null
             /\ timer[i] = Null /\ parent[i] = Null /\ i # Null
             /\ i \notin active
             /\ \A q \in Ids : /\ far[q] # i /\ near[q] # i
                               /\ timer[q] # i /\ parent[q] # i
  BY FreshIds, IdsAreNumbers DEF Live
<1> QED BY <1>1

\* CreateProtocolChain, when it fails half way.
LEMMA SpawnFailsWhole ==
  ASSUME WholeInv, IInv', NEW k \in 1 .. 2, SpawnFails(k)
  PROVE  WholeInv'
<1> USE DEF registry, watch, queue, timing
<1> DEFINE new == {i \in Ids : i > created}
<1>1. /\ created \in Nat /\ created + k \in Ids /\ new \subseteq Ids
      /\ phase = "events"
  BY CreatedIsNumber DEF SpawnFails, WholeInv
<1>2. /\ UNCHANGED <<phase, far, near, active, apps, io, output, writing, rout,
                     timer, parent>>
      /\ dead' = dead \cup (created + 2 .. created + k)
  BY DEF SpawnFails
<1>3. created + 1 \notin Ids \ new /\ created + 2 \notin Ids \ new
  BY <1>1
<1>4. \A i \in Ids \ new : kind'[i] = kind[i]
  <2>1. kind' = [i \in Ids |-> CASE i = created + 1 -> "tcp"
                                 [] i = created + 2 /\ k = 2 -> "filter"
                                 [] OTHER -> kind[i]]
    BY DEF SpawnFails
  <2> HIDE DEF new
  <2> QED BY <2>1, <1>3
<1>5. /\ \A i \in new : /\ i \notin Live /\ far[i] = Null /\ near[i] = Null
                        /\ timer[i] = Null /\ parent[i] = Null /\ i # Null
                        /\ i \notin active
      /\ \A q \in Ids : /\ far[q] \notin new /\ near[q] \notin new
                        /\ timer[q] \notin new /\ parent[q] \notin new
  <2>1. \A i \in new : i > created
    OBVIOUS
  <2> HIDE DEF new
  <2> QED BY <1>1, <2>1, FreshSet DEF WholeInv
<1>6. created + 2 .. created + k \subseteq new
  <2>1. CASE k = 1
    BY <1>1, <2>1
  <2>2. CASE k = 2
    BY <1>1, <2>2
  <2> QED BY <2>1, <2>2
<1> HIDE DEF new
<1>7. Live \subseteq Live' /\ \A i \in Live' : i \in Live \/ i \in new
  BY <1>2, <1>6 DEF Live
<1>8. Live \subseteq Ids /\ active \subseteq Live /\ Null \notin Ids
      /\ \A q \in Ids : far[q] \in Ids \cup {Null}
  BY WholeTypes DEF WholeInv
<1>9. Shaped'
  BY <1>2, <1>4, <1>5, <1>8 DEF WholeInv, Shaped
<1>10. ActiveWhole'
  BY <1>2, <1>4, <1>5, <1>7, <1>8 DEF WholeInv, ActiveWhole
<1>11. Standing'
  BY <1>2, <1>4, <1>5, <1>7, <1>8 DEF WholeInv, Standing
<1>12. OutputWatched'
  BY <1>2, <1>4, <1>5, <1>7, <1>8
  DEF WholeInv, OutputWatched, QueuedOutputIsWatched
<1> QED BY <1>9, <1>10, <1>11, <1>12 DEF WholeInv

\* TCPConnector, when the new stack is refused.
LEMMA ConnectedRefusedWhole ==
  ASSUME WholeInv, IInv', NEW ks \in Chains, ConnectedRefused(ks)
  PROVE  WholeInv'
<1> USE DEF registry, watch, queue, timing
<1> DEFINE new == {i \in Ids : i > created}
           t == created + 1
<1>1. created \in Nat /\ new \subseteq Ids /\ t \in Ids /\ t \in new
      /\ created + 2 \in new
  BY CreatedIsNumber, MaxProtocolsAssumption DEF ConnectedRefused, WholeInv, Ids
<1>2. /\ UNCHANGED <<phase, far, near, active, apps, output, writing, rout,
                     timer, parent>>
      /\ dead' = dead \cup {t}
      /\ io' = [io EXCEPT ![t] = "up"]
      /\ kind' = [kind EXCEPT ![created + 1] = ks[1], ![created + 2] = ks[2]]
  BY DEF ConnectedRefused
<1>3. /\ \A i \in new : /\ i \notin Live /\ far[i] = Null /\ near[i] = Null
                        /\ timer[i] = Null /\ parent[i] = Null /\ i # Null
                        /\ i \notin active
      /\ \A q \in Ids : /\ far[q] \notin new /\ near[q] \notin new
                        /\ timer[q] \notin new /\ parent[q] \notin new
  <2>1. \A i \in new : i > created
    OBVIOUS
  <2> HIDE DEF new
  <2> QED BY <1>1, <2>1, FreshSet DEF WholeInv
<1> HIDE DEF new
<1>4. \A i \in Ids \ new : kind'[i] = kind[i] /\ io'[i] = io[i]
  BY <1>1, <1>2 DEF WholeInv, IInv, TypeOK
<1>5. Live' = Live \cup {t}
  BY <1>2 DEF Live
<1>6. Live \subseteq Ids /\ active \subseteq Live /\ Null \notin Ids
      /\ \A q \in Ids : far[q] \in Ids \cup {Null}
  BY WholeTypes DEF WholeInv
<1> HIDE DEF t
<1>7. Shaped'
  <2>1. ASSUME NEW q \in Ids
        PROVE  /\ near[q] # Null => kind'[q] \in {"tcp", "filter"}
               /\ kind'[q] = "filter" /\ far[q] # Null => kind'[far[q]] = "tcp"
    <3>1. CASE q \in new
      BY <3>1, <1>3
    <3>2. CASE q \notin new
      <4>1. kind'[q] = kind[q]
        BY <3>2, <1>4
      <4>2. far[q] # Null => kind'[far[q]] = kind[far[q]]
        BY <1>3, <1>4, <1>6
      <4> QED BY <4>1, <4>2 DEF WholeInv, Shaped
    <3> QED BY <3>1, <3>2
  <2> QED BY <2>1, <1>2 DEF Shaped
<1>8. ActiveWhole'
  BY ZenonT(60), <1>2, <1>3, <1>4, <1>5, <1>6 DEF WholeInv, ActiveWhole
<1>9. Standing'
  BY <1>1, <1>2, <1>3, <1>4, <1>5, <1>6 DEF WholeInv, Standing
<1>10. OutputWatched'
  BY <1>1, <1>2, <1>3, <1>4, <1>5, <1>6
  DEF WholeInv, OutputWatched, QueuedOutputIsWatched
<1> QED BY <1>7, <1>8, <1>9, <1>10 DEF WholeInv

\* The kinds of a chain of the configuration, transport first.
LEMMA SpawnedKinds ==
  ASSUME IInv, NEW ks \in Chains, SpawnChain(ks)
  PROVE  /\ kind'[created'] \in Business \cup {"disc"}
         /\ \A i \in created + 1 .. created' :
              /\ i # created' => kind'[i] \in {"tcp", "filter"}
              /\ kind'[i] = "filter" => i = created + 2
<1>1. /\ created \in Nat /\ created' = created + Len(ks)
      /\ \A i \in created + 1 .. created' : i \in Ids
  BY SpawnedChain, CreatedIsNumber DEF SpawnChain
<1>2. \A i \in created + 1 .. created' : kind'[i] = ks[i - created]
  BY <1>1 DEF SpawnChain
<1>3. CASE ks = <<"tcp", "rtmp">> \/ ks = <<"tcp", "rtsp">>
  <2>1. created' = created + 2 /\ Len(ks) = 2
    BY <1>1, <1>3
  <2>2. /\ created + 1 \in created + 1 .. created'
        /\ created + 2 \in created + 1 .. created'
        /\ (created + 1) - created = 1 /\ (created + 2) - created = 2
    BY <1>1, <2>1
  <2>3. \A i \in created + 1 .. created' : i = created + 1 \/ i = created + 2
    BY <1>1, <2>1
  <2>4. /\ kind'[created + 1] = "tcp" /\ kind'[created + 2] \in {"rtmp", "rtsp"}
    BY <1>2, <1>3, <2>2
  <2> QED BY <2>1, <2>3, <2>4 DEF Business
<1>4. CASE ks = <<"tcp", "filter", "disc">>
  <2>1. created' = created + 3 /\ Len(ks) = 3
    BY <1>1, <1>4
  <2>2. /\ created + 1 \in created + 1 .. created'
        /\ created + 2 \in created + 1 .. created'
        /\ created + 3 \in created + 1 .. created'
        /\ (created + 1) - created = 1 /\ (created + 2) - created = 2
        /\ (created + 3) - created = 3
    BY <1>1, <2>1
  <2>3. \A i \in created + 1 .. created' :
          i = created + 1 \/ i = created + 2 \/ i = created + 3
    BY <1>1, <2>1
  <2>4. /\ kind'[created + 1] = "tcp" /\ kind'[created + 2] = "filter"
        /\ kind'[created + 3] = "disc"
    BY <1>2, <1>4, <2>2
  <2> QED BY <2>1, <2>3, <2>4
<1> QED BY <1>3, <1>4 DEF Chains

\* A new chain that is registered, and bound to its carrier and application.
LEMMA SpawnWhole ==
  ASSUME WholeInv, IInv', NEW ks \in Chains, Accept(ks) \/ Connected(ks)
  PROVE  WholeInv'
<1> USE DEF registry, watch, queue, timing
<1> DEFINE new == created + 1 .. created'
<1>1. SpawnChain(ks)
  BY DEF Accept, Connected
<1>2. /\ active' = active \cup new /\ apps' = apps \cup {created'}
      /\ UNCHANGED <<phase, dead, rout, timer, parent>>
      /\ \/ UNCHANGED <<output, writing>>
         \/ output' = output \cup {created + 1} /\ writing' = writing \cup {created + 1}
  BY DEF Accept, Connected
<1>3. /\ created \in Nat /\ created' \in Ids /\ created' > created + 1
      /\ new \subseteq Ids
      /\ \A i \in Ids \ new :
              /\ kind'[i] = kind[i] /\ io'[i] = io[i]
              /\ far'[i] = far[i] /\ near'[i] = near[i]
      /\ \A i \in new :
              /\ kind'[i] \in {"tcp", "rtmp", "rtsp", "filter", "disc"}
              /\ kind'[i] = "tcp" <=> i = created + 1
              /\ far'[i] = IF i = created + 1 THEN Null ELSE i - 1
              /\ near'[i] = IF i = created' THEN Null ELSE i + 1
              /\ io'[i] = IF i = created + 1 THEN "up" ELSE io[i]
  BY <1>1, SpawnedChain, CreatedIsNumber DEF WholeInv
<1>4. /\ created' \in new /\ created + 1 \in new
      /\ \A i \in new : i > created /\ i \in Nat
  BY <1>3, IdsAreNumbers
<1>5. /\ \A i \in new : /\ i \notin Live /\ far[i] = Null /\ near[i] = Null
                        /\ timer[i] = Null /\ parent[i] = Null /\ i # Null
                        /\ i \notin active
      /\ \A q \in Ids : /\ far[q] \notin new /\ near[q] \notin new
                        /\ timer[q] \notin new /\ parent[q] \notin new
  <2> HIDE DEF new
  <2> QED BY <1>3, <1>4, FreshSet DEF WholeInv
<1>6. /\ kind'[created'] \in Business \cup {"disc"}
      /\ \A i \in new :
              /\ i # created' => kind'[i] \in {"tcp", "filter"}
              /\ kind'[i] = "filter" => i = created + 2
  BY <1>1, SpawnedKinds DEF WholeInv
<1>7. /\ (created + 2) - 1 = created + 1 /\ created + 2 # created + 1
      /\ \A i \in new : i # created + 1 => i - 1 # Null
  BY <1>3 DEF Null
<1> HIDE DEF new
<1>8. Live' = Live \cup new
  BY <1>2 DEF Live
<1>9. Live \subseteq Ids /\ active \subseteq Live /\ Null \notin Ids
      /\ \A q \in Ids : far[q] \in Ids \cup {Null}
  BY WholeTypes DEF WholeInv
<1>10. Shaped'
  <2>1. ASSUME NEW q \in Ids
        PROVE  /\ near'[q] # Null => kind'[q] \in {"tcp", "filter"}
               /\ kind'[q] = "filter" /\ far'[q] # Null => kind'[far'[q]] = "tcp"
    <3>1. CASE q \in new
      <4>1. kind'[created + 1] = "tcp"
        BY <1>3, <1>4
      <4> QED BY <3>1, <4>1, <1>3, <1>6, <1>7
    <3>2. CASE q \notin new
      BY <3>2, <1>3, <1>5, <1>9 DEF WholeInv, Shaped
    <3> QED BY <3>1, <3>2
  <2> QED BY <2>1 DEF Shaped
<1>11. ActiveWhole'
  <2>1. ASSUME NEW q \in active'
        PROVE  /\ kind'[q] \in {"tcp", "timer"} => io'[q] = "up"
               /\ kind'[q] \notin {"tcp", "timer"} => far'[q] # Null
               /\ kind'[q] # "timer" /\ near'[q] = Null =>
                    kind'[q] \in Business \cup {"disc"} /\ q \in apps'
               /\ kind'[q] = "timer" =>
                    parent'[q] \in Live' /\ timer'[parent'[q]] = q
    <3>1. CASE q \in new
      <4>1. near'[q] = Null => q = created'
        <5>1. q + 1 # Null
          BY <3>1, <1>4 DEF Null
        <5> QED BY <3>1, <5>1, <1>3
      <4>2. kind'[q] # "timer" /\ (kind'[q] = "tcp" => io'[q] = "up")
        BY <3>1, <1>3
      <4>3. kind'[q] # "tcp" => far'[q] # Null
        BY <3>1, <1>3, <1>7
      <4>4. created' \in apps'
        BY <1>2
      <4> QED BY <4>1, <4>2, <4>3, <4>4, <1>6
    <3>2. CASE q \notin new
      <4>1. q \in active /\ q \in Ids \ new
        BY <2>1, <3>2, <1>2, <1>9
      <4>2. /\ kind'[q] = kind[q] /\ io'[q] = io[q] /\ far'[q] = far[q]
            /\ near'[q] = near[q] /\ parent' = parent /\ timer' = timer
            /\ apps \subseteq apps' /\ Live \subseteq Live'
        BY <4>1, <1>2, <1>3, <1>8
      <4> QED BY <4>1, <4>2 DEF WholeInv, ActiveWhole
    <3> QED BY <3>1, <3>2
  <2> QED BY <2>1 DEF ActiveWhole
<1>12. Standing'
  <2>1. ASSUME phase \in StandingPhases, NEW q \in Live',
               timer[q] # Null \/ (kind'[q] = "filter" /\ near'[q] # Null)
        PROVE  far'[q] # Null
    <3>1. CASE q \in new
      BY <2>1, <3>1, <1>3, <1>5, <1>6, <1>7
    <3>2. CASE q \notin new
      BY <2>1, <3>2, <1>3, <1>8, <1>9 DEF WholeInv, Standing
    <3> QED BY <3>1, <3>2
  <2> QED BY <2>1, <1>2 DEF Standing
<1>13. OutputWatched'
  <2>1. /\ output' \subseteq output \cup {created + 1} /\ writing \subseteq writing'
        /\ created + 1 \in output' => created + 1 \in writing' \/ created + 1 \in output
        /\ rout' = rout
    BY <1>2
  <2>2. output \subseteq Live /\ created + 1 \notin output
    BY <1>4, <1>5 DEF WholeInv, OutputWatched
  <2>3. \A q \in output : kind'[q] = kind[q] /\ io'[q] = io[q]
    BY <2>2, <1>3, <1>5, <1>9
  <2>4. kind'[created + 1] = "tcp" /\ created + 1 \in Live'
    BY <1>3, <1>4, <1>8
  <2> QED BY <2>1, <2>2, <2>3, <2>4, <1>8
          DEF WholeInv, OutputWatched, QueuedOutputIsWatched
<1> QED BY <1>10, <1>11, <1>12, <1>13 DEF WholeInv

\* What a message leaves alone, and whom it reaches.
LEMMA ReaderFacts ==
  ASSUME WholeInv, NEW f \in Ids, Processes(f, TRUE)
  PROVE  /\ f \in rin /\ phase = "events" /\ rout' = rout /\ f \in Live
         /\ kind[f] = "tcp" /\ near[f] \in Live /\ far[near[f]] = f
         /\ NearEndpoint(f) \in active /\ far[NearEndpoint(f)] # Null
         /\ NearEndpoint(f) # f /\ near[NearEndpoint(f)] = Null
<1>1. /\ f \in rin /\ phase = "events" /\ rout' = rout
      /\ NearEndpoint(f) \notin dead
  BY DEF Processes, Read
<1>2. /\ f \in Live /\ kind[f] = "tcp" /\ near[f] # Null
      /\ near[f] \in Ids /\ near[f] \in Live /\ far[near[f]] = f
      /\ NearEndpoint(f) \in Live /\ NearEndpoint(f) \in Ids
  BY <1>1, ReadersAreLive DEF WholeInv
<1>3. Live \subseteq Ids /\ Null \notin Ids
  BY WholeTypes DEF WholeInv
<1>4. NearEndpoint(f) \in active
  BY <1>1, <1>2 DEF Live
<1>5. far[NearEndpoint(f)] # Null /\ near[NearEndpoint(f)] = Null
  <2>1. CASE near[near[f]] = Null
    BY <2>1, <1>2, <1>3 DEF NearEndpoint
  <2>2. CASE near[near[f]] # Null
    <3>1. NearEndpoint(f) = near[near[f]] /\ far[near[near[f]]] = near[f]
          /\ near[near[f]] \in Ids
      BY <2>2, <1>2, <1>3 DEF NearEndpoint, WholeInv, IInv, Linked
    <3>2. kind[near[f]] = "filter"
      <4>1. kind[near[f]] # "tcp"
        BY <1>2, <1>3 DEF WholeInv, IInv, Linked
      <4> QED BY <2>2, <4>1, <1>2 DEF WholeInv, Shaped
    <3>3. near[near[near[f]]] = Null
      <4>1. SUFFICES ASSUME near[near[near[f]]] # Null PROVE FALSE
        OBVIOUS
      <4>2. kind[near[near[f]]] \in {"tcp", "filter"}
        BY <3>1, <4>1 DEF WholeInv, Shaped
      <4>3. kind[near[near[f]]] # "tcp"
        BY <3>1, <1>2, <1>3 DEF WholeInv, IInv, Linked
      <4>4. kind[near[f]] = "tcp"
        BY <3>1, <4>2, <4>3, <1>2 DEF WholeInv, Shaped
      <4> QED BY <3>2, <4>4
    <3> QED BY <3>1, <3>3, <1>2, <1>3
  <2> QED BY <2>1, <2>2
<1>6. NearEndpoint(f) # f
  BY <1>2, <1>5
<1> QED BY <1>1, <1>2, <1>4, <1>5, <1>6

\* A new timer serves the business end that started it.
LEMMA InputStartsTimerWhole ==
  ASSUME WholeInv, IInv', NEW f \in Ids, InputStartsTimer(f)
  PROVE  WholeInv'
<1> USE DEF links, registry, watch, queue, timing
<1> DEFINE n == NearEndpoint(f)
           t == created + 1
<1>1. Processes(f, TRUE) /\ timer[n] = Null /\ t \in Ids
  BY DEF InputStartsTimer
<1>2. n \in active /\ far[n] # Null /\ phase = "events" /\ rout' = rout
  BY <1>1, ReaderFacts
<1>3. /\ t \notin Live /\ far[t] = Null /\ near[t] = Null
      /\ \A q \in Ids : far[q] # t /\ near[q] # t /\ timer[q] # t
                        /\ parent[q] # t
      /\ t # Null /\ timer[t] = Null
  BY <1>1, NextId, FreshIds DEF WholeInv
<1>4. /\ kind' = [kind EXCEPT ![t] = "timer"]
      /\ io' = [io EXCEPT ![t] = "up"]
      /\ active' = active \cup {t}
      /\ timer' = [timer EXCEPT ![n] = t]
      /\ parent' = [parent EXCEPT ![t] = n]
      /\ UNCHANGED <<phase, far, near, dead, apps, output, writing>>
  BY DEF InputStartsTimer
<1> HIDE DEF n, t
<1>5. /\ Live \subseteq Ids /\ active \subseteq Live /\ Null \notin Ids
      /\ \A q \in Ids : far[q] \in Ids \cup {Null}
  BY WholeTypes DEF WholeInv
<1>6. Live' = Live \cup {t}
  BY <1>4 DEF Live
<1>7. /\ \A q \in Ids \ {t} : kind'[q] = kind[q] /\ io'[q] = io[q]
                              /\ parent'[q] = parent[q]
      /\ \A q \in Ids \ {n} : timer'[q] = timer[q]
      /\ kind'[t] = "timer" /\ io'[t] = "up" /\ parent'[t] = n /\ timer'[n] = t
  BY <1>1, <1>2, <1>4, <1>5 DEF WholeInv, IInv, TypeOK
<1>8. Shaped'
  BY <1>3, <1>4, <1>5, <1>7 DEF WholeInv, Shaped
<1>9. ActiveWhole'
  <2>1. ASSUME NEW q \in active'
        PROVE  /\ kind'[q] \in {"tcp", "timer"} => io'[q] = "up"
               /\ kind'[q] \notin {"tcp", "timer"} => far[q] # Null
               /\ kind'[q] # "timer" /\ near[q] = Null =>
                    kind'[q] \in Business \cup {"disc"} /\ q \in apps
               /\ kind'[q] = "timer" =>
                    parent'[q] \in Live' /\ timer'[parent'[q]] = q
    <3>1. CASE q = t
      BY <3>1, <1>2, <1>5, <1>6, <1>7
    <3>2. CASE q # t
      <4>1. q \in active /\ q \in Ids /\ kind'[q] = kind[q]
            /\ io'[q] = io[q] /\ parent'[q] = parent[q]
        BY <2>1, <3>2, <1>4, <1>5, <1>7
      <4>2. ASSUME kind[q] = "timer"
            PROVE  parent[q] \in Live' /\ timer'[parent[q]] = q
        <5>1. parent[q] \in Live /\ timer[parent[q]] = q /\ q # Null
          BY <4>1, <4>2, <1>5 DEF WholeInv, ActiveWhole
        <5>2. parent[q] # n
          BY <5>1, <1>1 DEF n
        <5> QED BY <5>1, <5>2, <1>5, <1>6, <1>7
      <4> QED BY <4>1, <4>2 DEF WholeInv, ActiveWhole
    <3> QED BY <3>1, <3>2
  <2> QED BY <2>1, <1>4 DEF ActiveWhole
<1>10. Standing'
  <2>1. ASSUME NEW q \in Live',
               timer'[q] # Null \/ (kind'[q] = "filter" /\ near[q] # Null)
        PROVE  far[q] # Null
    <3>1. CASE q = t
      BY <2>1, <3>1, <1>1, <1>2, <1>3, <1>5, <1>7
    <3>2. CASE q = n
      BY <3>2, <1>2
    <3>3. CASE q \notin {t, n}
      <4>1. q \in Live /\ q \in Ids /\ timer'[q] = timer[q] /\ kind'[q] = kind[q]
        BY <2>1, <3>3, <1>5, <1>6, <1>7
      <4> QED BY <2>1, <4>1, <1>2 DEF WholeInv, Standing, StandingPhases
    <3> QED BY <3>1, <3>2, <3>3
  <2> QED BY <2>1, <1>4 DEF Standing
<1>11. OutputWatched'
  <2>1. \A q \in output : kind'[q] = kind[q] /\ io'[q] = io[q]
    BY <1>3, <1>5, <1>7 DEF WholeInv, OutputWatched
  <2> QED BY <2>1, <1>2, <1>4, <1>6
          DEF WholeInv, OutputWatched, QueuedOutputIsWatched
<1> QED BY <1>8, <1>9, <1>10, <1>11 DEF WholeInv

\* The stream of a file and its timer let go of each other.
LEMMA InputStopsFileWhole ==
  ASSUME WholeInv, IInv', NEW f \in Ids, InputStopsFile(f)
  PROVE  WholeInv'
<1> USE DEF links, registry, watch, queue, timing
<1> DEFINE n == NearEndpoint(f)
           t == timer[n]
<1>1. Processes(f, TRUE) /\ t # Null /\ kind[n] = "rtmp"
  BY DEF InputStopsFile
<1>2. n \in active /\ phase = "events" /\ rout' = rout
  BY <1>1, ReaderFacts
<1>3. /\ active' = active \ {t} /\ dead' = dead \cup {t} /\ apps' = apps \ {t}
      /\ parent' = [parent EXCEPT ![t] = Null]
      /\ timer' = [timer EXCEPT ![n] = Null]
      /\ UNCHANGED <<phase, kind, far, near, io, output, writing>>
  BY DEF InputStopsFile, EnqueueForDelete
<1>4. /\ Live \subseteq Ids /\ active \subseteq Live /\ Null \notin Ids
  BY WholeTypes DEF WholeInv
<1>5. t \in Live
  BY <1>1, <1>2, <1>4 DEF WholeInv, IInv, TimersPaired
<1>6. t = timer[n]
  OBVIOUS
<1> HIDE DEF n, t
<1>7. Live' = Live
  BY <1>3, <1>5 DEF Live
<1>8. /\ \A q \in Ids \ {t} : parent'[q] = parent[q]
      /\ \A q \in Ids \ {n} : timer'[q] = timer[q]
      /\ timer'[n] = Null
  BY <1>2, <1>3, <1>4 DEF WholeInv, IInv, TypeOK
<1>9. Shaped'
  BY <1>3 DEF WholeInv, Shaped
<1>10. ActiveWhole'
  <2>1. ASSUME NEW q \in active', kind[q] = "timer"
        PROVE  parent'[q] \in Live /\ timer'[parent'[q]] = q
    <3>1. q \in active /\ q # t /\ q \in Ids
      BY <2>1, <1>3, <1>4
    <3>2. parent[q] \in Live /\ timer[parent[q]] = q
      BY <2>1, <3>1 DEF WholeInv, ActiveWhole
    <3>3. parent[q] # n
      BY <3>1, <3>2, <1>6
    <3> QED BY <3>1, <3>2, <3>3, <1>4, <1>8
  <2>2. \A q \in active' : q \in active /\ (q \in apps => q \in apps')
    BY <1>3
  <2> QED BY <2>1, <2>2, <1>3, <1>7 DEF WholeInv, ActiveWhole
<1>11. Standing'
  BY <1>2, <1>3, <1>4, <1>7, <1>8 DEF WholeInv, Standing, StandingPhases
<1>12. OutputWatched'
  BY <1>2, <1>3, <1>7, OutputRests
<1> QED BY <1>9, <1>10, <1>11, <1>12 DEF WholeInv

\* The RTMP protocol takes the place of the discriminator, which has lost its
\* links but is enqueued.
LEMMA DiscriminateWhole ==
  ASSUME WholeInv, IInv', NEW f \in Ids, Discriminate(f)
  PROVE  WholeInv'
<1> USE DEF links, registry, watch, queue, timing
<1> DEFINE d == NearEndpoint(f)
           m == far[d]
           r == created + 1
<1>1. Processes(f, TRUE) /\ kind[d] = "disc" /\ r \in Ids
  BY DEF Discriminate
<1>2. /\ d \in active /\ m # Null /\ near[d] = Null
      /\ phase = "events" /\ rout' = rout
  BY <1>1, ReaderFacts
<1>3. PICK D \in {{d}, {d, r}} :
        /\ active' = (active \cup {r}) \ D
        /\ dead' = dead \cup D
        /\ apps' = InheritApplication(d, r) \ D
  BY DEF Discriminate
<1>4. /\ kind' = [kind EXCEPT ![r] = "rtmp"]
      /\ far' = [far EXCEPT ![d] = Null, ![r] = m]
      /\ near' = [near EXCEPT ![m] = r]
      /\ UNCHANGED <<phase, io, output, writing, timer, parent>>
  BY DEF Discriminate, SplicedFar
<1>5. /\ r \notin Live /\ far[r] = Null /\ near[r] = Null
      /\ \A q \in Ids : far[q] # r /\ near[q] # r /\ timer[q] # r
                        /\ parent[q] # r
      /\ r # Null /\ timer[r] = Null
  BY <1>1, NextId, FreshIds DEF WholeInv
<1>6. m = far[d]
  OBVIOUS
<1> HIDE DEF d, m, r
<1>7. /\ Live \subseteq Ids /\ active \subseteq Live /\ Null \notin Ids
      /\ \A q \in Ids : far[q] \in Ids \cup {Null}
  BY WholeTypes DEF WholeInv
<1>8. /\ m \in Live /\ near[m] = d /\ d \in Ids /\ kind[m] \in {"tcp", "filter"}
  BY <1>2, <1>6, <1>7 DEF WholeInv, IInv, Linked, Shaped
<1>9. d \in apps
  BY <1>1, <1>2, <1>7 DEF WholeInv, ActiveWhole, d
<1>10. /\ Live' = Live \cup {r}
       /\ \A q \in active' : q = r \/ (q \in active /\ q # d)
       /\ \A q \in apps : q \notin {d, r} => q \in apps'
       /\ r \in active' => r \in apps'
  <2>1. Live' = Live \cup {r}
    BY <1>2, <1>3 DEF Live
  <2>2. apps' = (apps \cup {r}) \ D
    BY <1>3, <1>9 DEF InheritApplication
  <2>3. d # r
    BY <1>2, <1>5, <1>7
  <2> QED BY <1>3, <2>1, <2>2
<1>11. /\ \A q \in Ids \ {r} : kind'[q] = kind[q]
       /\ \A q \in Ids \ {d, r} : far'[q] = far[q]
       /\ \A q \in Ids \ {m} : near'[q] = near[q]
       /\ kind'[r] = "rtmp" /\ far'[d] = Null /\ far'[r] = m
       /\ d # r /\ m # r /\ near'[r] = Null /\ near'[m] = r
  BY <1>1, <1>4, <1>5, <1>7, <1>8 DEF WholeInv, IInv, TypeOK
<1>12. Shaped'
  <2>1. ASSUME NEW q \in Ids
        PROVE  /\ near'[q] # Null => kind'[q] \in {"tcp", "filter"}
               /\ kind'[q] = "filter" /\ far'[q] # Null => kind'[far'[q]] = "tcp"
    <3>1. CASE q = r
      BY <3>1, <1>11
    <3>2. CASE q = d
      BY <3>2, <1>1, <1>2, <1>8, <1>11 DEF d
    <3>3. CASE q \notin {r, d}
      <4>1. kind'[q] = kind[q] /\ far'[q] = far[q]
        BY <3>3, <1>11
      <4>2. far[q] # Null => kind'[far[q]] = kind[far[q]]
        BY <1>5, <1>7, <1>11
      <4>3. near'[q] # Null => kind[q] \in {"tcp", "filter"}
        BY <1>8, <1>11 DEF WholeInv, Shaped
      <4> QED BY <4>1, <4>2, <4>3 DEF WholeInv, Shaped
    <3> QED BY <3>1, <3>2, <3>3
  <2> QED BY <2>1 DEF Shaped
<1>13. ActiveWhole'
  <2>1. ASSUME NEW q \in active'
        PROVE  /\ kind'[q] \in {"tcp", "timer"} => io[q] = "up"
               /\ kind'[q] \notin {"tcp", "timer"} => far'[q] # Null
               /\ kind'[q] # "timer" /\ near'[q] = Null =>
                    kind'[q] \in Business \cup {"disc"} /\ q \in apps'
               /\ kind'[q] = "timer" =>
                    parent[q] \in Live' /\ timer[parent[q]] = q
    <3>1. CASE q = r
      BY <2>1, <3>1, <1>2, <1>10, <1>11 DEF Business
    <3>2. CASE q # r
      <4>1. /\ q \in active /\ q \in Ids /\ q # d /\ (q \in apps => q \in apps')
            /\ kind'[q] = kind[q] /\ far'[q] = far[q]
            /\ near'[q] = Null => near[q] = Null
        BY <2>1, <3>2, <1>5, <1>7, <1>10, <1>11
      <4> QED BY <4>1, <1>10 DEF WholeInv, ActiveWhole
    <3> QED BY <3>1, <3>2
  <2> QED BY <2>1, <1>4 DEF ActiveWhole
<1>14. Standing'
  <2>1. timer[d] = Null
    BY <1>1, <1>8 DEF WholeInv, IInv, TimersPaired, Business, d
  <2>2. ASSUME NEW q \in Live',
               timer[q] # Null \/ (kind'[q] = "filter" /\ near'[q] # Null)
        PROVE  far'[q] # Null
    <3>1. CASE q = r
      BY <3>1, <1>2, <1>11
    <3>2. CASE q = d
      BY <2>1, <2>2, <3>2, <1>1, <1>8, <1>11 DEF d
    <3>3. CASE q \notin {r, d}
      <4>1. /\ q \in Live /\ q \in Ids /\ kind'[q] = kind[q] /\ far'[q] = far[q]
            /\ near'[q] # Null => near[q] # Null
        BY <3>3, <2>2, <1>7, <1>8, <1>10, <1>11
      <4> QED BY <2>2, <4>1, <1>2 DEF WholeInv, Standing, StandingPhases
    <3> QED BY <3>1, <3>2, <3>3
  <2> QED BY <2>2, <1>4 DEF Standing
<1>15. OutputWatched'
  <2>1. \A q \in output : kind'[q] = kind[q]
    BY <1>5, <1>7, <1>11 DEF WholeInv, OutputWatched
  <2> QED BY <2>1, <1>2, <1>4, <1>10
          DEF WholeInv, OutputWatched, QueuedOutputIsWatched
<1> QED BY <1>12, <1>13, <1>14, <1>15 DEF WholeInv

\* RTMPE comes between the transport and the RTMP protocol.
LEMMA InsertRtmpeWhole ==
  ASSUME WholeInv, IInv', NEW f \in Ids, InsertRtmpe(f)
  PROVE  WholeInv'
<1> USE DEF links, registry, watch, queue, timing
<1> DEFINE n == near[f]
           e == created + 1
<1>1. Processes(f, TRUE) /\ kind[n] = "rtmp" /\ e \in Ids
  BY DEF InsertRtmpe
<1>2. /\ f \in Live /\ kind[f] = "tcp" /\ n \in Live /\ far[n] = f
      /\ near[f] = n /\ phase = "events" /\ rout' = rout
  BY <1>1, ReaderFacts
<1>3. /\ kind' = [kind EXCEPT ![e] = "filter"]
      /\ far' = [far EXCEPT ![n] = e, ![e] = f]
      /\ near' = [near EXCEPT ![f] = e, ![e] = n]
      /\ active' = active \cup {e}
      /\ UNCHANGED <<phase, dead, apps, io, output, writing, timer, parent>>
  BY DEF InsertRtmpe
<1>4. /\ e \notin Live /\ far[e] = Null /\ near[e] = Null
      /\ \A q \in Ids : far[q] # e /\ near[q] # e /\ timer[q] # e
                        /\ parent[q] # e
      /\ e # Null /\ timer[e] = Null
  BY <1>1, NextId, FreshIds DEF WholeInv
<1> HIDE DEF n, e
<1>5. /\ Live \subseteq Ids /\ active \subseteq Live /\ Null \notin Ids
      /\ \A q \in Ids : far[q] \in Ids \cup {Null}
  BY WholeTypes DEF WholeInv
<1>6. /\ \A q \in Ids \ {e} : kind'[q] = kind[q]
      /\ \A q \in Ids \ {n, e} : far'[q] = far[q]
      /\ \A q \in Ids \ {f, e} : near'[q] = near[q]
      /\ kind'[e] = "filter" /\ far'[n] = e /\ far'[e] = f
      /\ near'[f] = e /\ near'[e] = n
      /\ n # e /\ f # e /\ n # f
  BY <1>1, <1>2, <1>3, <1>4, <1>5 DEF WholeInv, IInv, TypeOK
<1>7. Live' = Live \cup {e}
  BY <1>3 DEF Live
<1>8. Shaped'
  <2>1. ASSUME NEW q \in Ids
        PROVE  /\ near'[q] # Null => kind'[q] \in {"tcp", "filter"}
               /\ kind'[q] = "filter" /\ far'[q] # Null => kind'[far'[q]] = "tcp"
    <3>1. CASE q = e
      BY <3>1, <1>2, <1>5, <1>6
    <3>2. CASE q = n
      BY <3>2, <1>1, <1>2, <1>5, <1>6 DEF WholeInv, Shaped
    <3>3. CASE q \notin {e, n}
      <4>1. kind'[q] = kind[q] /\ far'[q] = far[q]
        BY <3>3, <1>6
      <4>2. far[q] # Null => kind'[far[q]] = kind[far[q]]
        BY <1>4, <1>5, <1>6
      <4>3. near'[q] # Null => kind[q] \in {"tcp", "filter"}
        BY <3>3, <1>2, <1>5, <1>6 DEF WholeInv, Shaped
      <4> QED BY <4>1, <4>2, <4>3 DEF WholeInv, Shaped
    <3> QED BY <3>1, <3>2, <3>3
  <2> QED BY <2>1 DEF Shaped
<1>9. ActiveWhole'
  <2>1. ASSUME NEW q \in active'
        PROVE  /\ kind'[q] \in {"tcp", "timer"} => io[q] = "up"
               /\ kind'[q] \notin {"tcp", "timer"} => far'[q] # Null
               /\ kind'[q] # "timer" /\ near'[q] = Null =>
                    kind'[q] \in Business \cup {"disc"} /\ q \in apps
               /\ kind'[q] = "timer" =>
                    parent[q] \in Live' /\ timer[parent[q]] = q
    <3>1. CASE q = e
      BY <3>1, <1>2, <1>5, <1>6
    <3>2. CASE q # e
      <4>1. /\ q \in active /\ q \in Ids /\ kind'[q] = kind[q]
            /\ far[q] # Null => far'[q] # Null
            /\ near'[q] = Null => near[q] = Null
        BY <2>1, <3>2, <1>2, <1>3, <1>4, <1>5, <1>6
      <4> QED BY <4>1, <1>7 DEF WholeInv, ActiveWhole
    <3> QED BY <3>1, <3>2
  <2> QED BY <2>1, <1>3 DEF ActiveWhole
<1>10. Standing'
  <2>1. ASSUME NEW q \in Live',
               timer[q] # Null \/ (kind'[q] = "filter" /\ near'[q] # Null)
        PROVE  far'[q] # Null
    <3>1. CASE q = e
      BY <3>1, <1>2, <1>5, <1>6
    <3>2. CASE q = n
      BY <3>2, <1>4, <1>6
    <3>3. CASE q \notin {e, n}
      <4>1. q \in Live /\ q \in Ids /\ kind'[q] = kind[q] /\ far'[q] = far[q]
        BY <2>1, <3>3, <1>5, <1>6, <1>7
      <4>2. kind[q] = "filter" => near'[q] = near[q]
        BY <3>3, <4>1, <1>2, <1>6
      <4> QED BY <2>1, <4>1, <4>2, <1>2 DEF WholeInv, Standing, StandingPhases
    <3> QED BY <3>1, <3>2, <3>3
  <2> QED BY <2>1, <1>3 DEF Standing
<1>11. OutputWatched'
  <2>1. \A q \in output : kind'[q] = kind[q]
    BY <1>4, <1>5, <1>6 DEF WholeInv, OutputWatched
  <2> QED BY <2>1, <1>2, <1>3, <1>7
          DEF WholeInv, OutputWatched, QueuedOutputIsWatched
<1> QED BY <1>8, <1>9, <1>10, <1>11 DEF WholeInv

-----------------------------------------------------------------------------
(* The invariant, and what follows from it. *)

LEMMA InitWhole == Init => WholeInv
<1> SUFFICES ASSUME Init PROVE WholeInv
  OBVIOUS
<1>1. IInv
  BY InitIInv
<1>2. Shaped /\ ActiveWhole /\ Standing /\ OutputWatched
  BY DEF Init, Shaped, ActiveWhole, Standing, OutputWatched, Live,
         QueuedOutputIsWatched, Null
<1> QED BY <1>1, <1>2 DEF WholeInv

LEMMA StutterWhole == WholeInv /\ IInv' /\ UNCHANGED vars => WholeInv'
<1> SUFFICES ASSUME WholeInv, IInv', UNCHANGED vars PROVE WholeInv'
  OBVIOUS
<1>1. Shaped' /\ ActiveWhole'
  BY DEF WholeInv, Shaped, ActiveWhole, Live, vars, links, registry, timing
<1>2. Standing'
  BY DEF WholeInv, Standing, Live, vars, links, registry, timing
<1>3. OutputWatched'
  BY DEF WholeInv, OutputWatched, QueuedOutputIsWatched, Live, vars, links,
         registry, watch, queue
<1> QED BY <1>1, <1>2, <1>3 DEF WholeInv

LEMMA NextKeepsWhole == WholeInv /\ [Next]_vars => WholeInv'
<1> SUFFICES ASSUME WholeInv, [Next]_vars PROVE WholeInv'
  OBVIOUS
<1>1. IInv'
  BY NextKeepsIInv DEF WholeInv
<1>2. CASE Timers
  BY <1>1, <1>2, TimersWhole DEF Timers
<1>3. CASE NewStacks
  BY <1>1, <1>3, SpawnFailsWhole, SpawnWhole, ConnectedRefusedWhole
  DEF NewStacks
<1>4. CASE Reads
  BY <1>1, <1>4, MessagesWhole, InputStartsTimerWhole, InputStopsFileWhole,
     DiscriminateWhole, InsertRtmpeWhole
  DEF Reads
<1>5. CASE Writes
  BY <1>1, <1>5, WritesWhole DEF Writes
<1> QED
  BY <1>1, <1>2, <1>3, <1>4, <1>5, PollWhole, StagesWhole,
     DeleteDeadHandlerWhole, DestroyWhole, StutterWhole
  DEF Next

\* The strengthened invariant holds for any bound on the number of protocols.
THEOREM WholeInvariant == Spec => []WholeInv
BY InitWhole, NextKeepsWhole, PTL DEF Spec

\* "If this protocol will be deleted, all the stack will be deleted": whenever
\* the server waits for events, every stack is complete from its carrier to
\* its business end, and every timer has the one it serves.
THEOREM StacksAreWhole == Spec => []WholeStacks
<1>1. WholeInv => WholeStacks
  <2> SUFFICES ASSUME WholeInv, phase = "poll" PROVE
         /\ dead = {} /\ deadIO = {}
         /\ \A p \in active :
              IF kind[p] = "timer" THEN io[p] = "up" /\ parent[p] \in active
              ELSE /\ Carried(FarEndpoint(p))
                   /\ kind[NearEndpoint(p)] \in Business \cup {"disc"}
                   /\ NearEndpoint(p) \in apps
    BY DEF WholeStacks
  <2>1. dead = {} /\ deadIO = {} /\ Live = active
    BY DEF WholeInv, IInv, TransportsServed, HandlersExist, Live
  <2>2. active \subseteq Ids /\ Null \notin Ids
    BY <2>1, WholeTypes DEF WholeInv
  <2>3. ASSUME NEW p \in active, kind[p] = "timer"
        PROVE  io[p] = "up" /\ parent[p] \in active
    BY <2>1, <2>3 DEF WholeInv, ActiveWhole
  <2>4. ASSUME NEW p \in active, kind[p] # "timer"
        PROVE  Carried(FarEndpoint(p))
    <3>1. ASSUME NEW q \in active, far[q] = Null, kind[q] # "timer"
          PROVE  Carried(q)
      BY <2>1, <3>1 DEF WholeInv, ActiveWhole, Carried
    <3>2. ASSUME NEW q \in active, far[q] # Null
          PROVE  far[q] \in active /\ kind[far[q]] # "timer"
                 /\ near[far[q]] = q
      BY <2>1, <2>2, <3>2 DEF WholeInv, IInv, Linked
    <3>3. CASE far[p] = Null
      BY <2>4, <3>1, <3>3 DEF FarEndpoint
    <3>4. CASE far[p] # Null /\ far[far[p]] = Null
      BY <3>1, <3>2, <3>4 DEF FarEndpoint
    <3>5. CASE far[p] # Null /\ far[far[p]] # Null
      <4>1. far[p] \in active /\ far[far[p]] \in active /\ near[far[p]] # Null
            /\ kind[far[far[p]]] # "timer"
        BY <2>2, <3>2, <3>5
      <4>2. kind[far[p]] = "filter"
        BY <2>2, <3>5, <4>1 DEF WholeInv, Shaped, IInv, Linked
      <4>3. kind[far[far[p]]] = "tcp"
        BY <2>2, <3>5, <4>1, <4>2 DEF WholeInv, Shaped
      <4>4. io[far[far[p]]] = "up"
        BY <4>1, <4>3 DEF WholeInv, ActiveWhole
      <4> QED BY <2>1, <3>5, <4>1, <4>3, <4>4 DEF FarEndpoint, Carried
    <3> QED BY <3>3, <3>4, <3>5
  <2>5. ASSUME NEW p \in active, kind[p] # "timer"
        PROVE  /\ kind[NearEndpoint(p)] \in Business \cup {"disc"}
               /\ NearEndpoint(p) \in apps
    <3>1. ASSUME NEW q \in active, near[q] = Null, kind[q] # "timer"
          PROVE  kind[q] \in Business \cup {"disc"} /\ q \in apps
      BY <3>1 DEF WholeInv, ActiveWhole
    <3>2. ASSUME NEW q \in active, near[q] # Null
          PROVE  near[q] \in active /\ kind[near[q]] \notin {"timer", "tcp"}
                 /\ far[near[q]] = q
      BY <2>1, <2>2, <3>2 DEF WholeInv, IInv, Linked
    <3>3. CASE near[p] = Null
      BY <2>5, <3>1, <3>3 DEF NearEndpoint
    <3>4. CASE near[p] # Null /\ near[near[p]] = Null
      BY <3>1, <3>2, <3>4 DEF NearEndpoint
    <3>5. CASE near[p] # Null /\ near[near[p]] # Null
      <4> DEFINE q == near[p]
                 r == near[q]
      <4>1. /\ q \in active /\ kind[q] \notin {"timer", "tcp"} /\ far[q] = p
            /\ r \in active /\ kind[r] \notin {"timer", "tcp"} /\ far[r] = q
            /\ NearEndpoint(p) = r
        BY <3>2, <3>5 DEF NearEndpoint
      <4> HIDE DEF q, r
      <4>2. near[r] = Null
        <5>1. SUFFICES ASSUME near[r] # Null PROVE FALSE
          OBVIOUS
        <5>2. kind[r] = "filter"
          BY <2>2, <4>1, <5>1 DEF WholeInv, Shaped
        <5>3. q # Null
          BY <2>2, <4>1
        <5> QED BY <2>2, <4>1, <5>2, <5>3 DEF WholeInv, Shaped
      <4> QED BY <3>1, <4>1, <4>2
    <3> QED BY <3>3, <3>4, <3>5
  <2> QED BY <2>1, <2>3, <2>4, <2>5
<1> QED BY <1>1, WholeInvariant, PTL

\* No lost wake-up: the carrier of a stack that has bytes to send has asked to
\* be told when it is writable.
THEOREM OutputIsWatched == Spec => []QueuedOutputIsWatched
<1>1. WholeInv => QueuedOutputIsWatched
  BY DEF WholeInv, OutputWatched
<1> QED BY <1>1, WholeInvariant, PTL

\* What GracefulCloseDrains says of one step.
ClosesDrained ==
  \A f \in graceful' \cap output' :
    f \notin graceful \/ (f \in rout \ rout' /\ rin' = rin)
    => {f, NearEndpoint(f)} \cap dead' \subseteq dead

\* Only two actions can break it: the others flag nothing, and take no event
\* from a carrier or enqueue nothing.
LEMMA OthersDrain ==
  ASSUME UNCHANGED graceful, rout' = rout \/ dead' = dead \/ rin' # rin
  PROVE  ClosesDrained
BY DEF ClosesDrained

\* The message that asks for the close: what it flags beside the transport has
\* a far protocol, and so no output of its own.
LEMMA CloseAskedDrains ==
  ASSUME WholeInv, NEW f \in Ids, InputClosesGracefully(f)
  PROVE  ClosesDrained
<1>1. /\ Processes(f, TRUE) /\ f \in rin /\ rin' # rin
      /\ graceful' = graceful \cup GracefulFlags(f)
      /\ dead' = dead \cup GracefulVictims(f) /\ output' = output
  BY DEF InputClosesGracefully, EnqueueForDelete, watch, Processes, Read
<1>2. CASE f \in output
  BY <1>1, <1>2 DEF GracefulVictims, ClosesDrained
<1>3. CASE f \notin output
  <2>1. /\ near[f] \in Live /\ far[near[f]] = f /\ f \in Live
        /\ NearEndpoint(f) \in active /\ far[NearEndpoint(f)] # Null
    BY <1>1, ReaderFacts
  <2>2. Live \subseteq Ids /\ active \subseteq Live /\ Null \notin Ids
    BY WholeTypes DEF WholeInv
  <2>3. near[f] \notin output /\ NearEndpoint(f) \notin output
    <3>1. \A q \in Ids : far[q] # Null => q \notin output
      BY <2>2 DEF WholeInv, OutputWatched, IInv, Linked
    <3> QED BY <2>1, <2>2, <3>1
  <2>4. GracefulFlags(f) \subseteq {f, NearEndpoint(f), near[f]}
    BY <1>3 DEF GracefulFlags
  <2>5. GracefulFlags(f) \cap output = {}
    BY <1>3, <2>3, <2>4
  <2> QED BY <1>1, <2>5 DEF ClosesDrained
<1> QED BY <1>2, <1>3

\* The write that empties the buffer: it may end the close of its own stack,
\* and then leaves nothing to send.
LEMMA WriteDrainsItself ==
  ASSUME NEW f \in Ids, WriteDrains(f)
  PROVE  ClosesDrained
<1>1. rout' = rout \ {f} /\ graceful' = graceful
  BY DEF WriteDrains, Writable
<1>2. CASE f \in graceful
  <2>1. output' = output \ {f}
    BY <1>2 DEF WriteDrains, EndsGracefulClose
  <2> QED BY <1>1, <2>1 DEF ClosesDrained
<1>3. CASE f \notin graceful
  BY <1>1, <1>3, OthersDrain DEF WriteDrains, EndsGracefulClose, registry
<1> QED BY <1>2, <1>3

LEMMA StepDrains ==
  ASSUME WholeInv, [Next]_vars
  PROVE  ClosesDrained \/ UNCHANGED vars
<1> USE DEF registry, queue
<1>1. CASE Timers
  BY <1>1, OthersDrain
  DEF Timers, TimerIdle, FileTimer, KeepAliveTimer, TimerCallback
<1>2. CASE NewStacks
  BY <1>2, OthersDrain
  DEF NewStacks, SpawnFails, Accept, Connected, ConnectedRefused
<1>3. CASE Reads
  <2>1. PICK f \in Ids :
          \/ InputWithoutEffect(f) \/ InputFeeds(f) \/ InputCloses(f)
          \/ InputClosesGracefully(f) \/ InputStartsTimer(f)
          \/ InputStopsFile(f) \/ Discriminate(f) \/ InsertRtmpe(f)
          \/ InputOfEnqueuedRtsp(f)
    BY <1>3 DEF Reads
  <2>2. CASE InputClosesGracefully(f)
    BY <2>2, CloseAskedDrains
  <2>3. CASE ~InputClosesGracefully(f)
    <3>1. rin' # rin
      BY <2>1, <2>3
      DEF InputWithoutEffect, InputFeeds, InputCloses, InputStartsTimer,
          InputStopsFile, Discriminate, InsertRtmpe, InputOfEnqueuedRtsp,
          Processes, Read
    <3>2. graceful' = graceful
      BY <2>1, <2>3
      DEF InputWithoutEffect, InputFeeds, InputCloses, InputStartsTimer,
          InputStopsFile, Discriminate, InsertRtmpe, InputOfEnqueuedRtsp
    <3> QED BY <3>1, <3>2, OthersDrain
  <2> QED BY <2>2, <2>3
<1>4. CASE Writes
  BY <1>4, OthersDrain, WriteDrainsItself
  DEF Writes, WriteFails, WritePartly, Writable
<1>5. CASE Poll \/ TimersDone \/ EventsDone
  BY <1>5, OthersDrain DEF Poll, TimersDone, EventsDone
<1>6. CASE DeleteDeadHandler \/ CleanupDeadProtocol \/ NextStage \/ Shutdown
  BY <1>6, OthersDrain
  DEF DeleteDeadHandler, CleanupDeadProtocol, NextStage, Shutdown
<1> QED BY <1>1, <1>2, <1>3, <1>4, <1>5, <1>6 DEF Next

\* A graceful close never cuts off queued bytes: no step enqueues the transport
\* or the business end of a stack being closed while it has bytes to send.
THEOREM ClosesDrain == Spec => GracefulCloseDrains
<1>1. WholeInv /\ [Next]_vars => [ClosesDrained]_vars
  BY StepDrains
<1> QED BY <1>1, WholeInvariant, PTL DEF Spec, GracefulCloseDrains, ClosesDrained
=============================================================================
