----------------------------- MODULE SharedObjects -----------------------------
(***************************************************************************)
(* The RTMP shared objects of one application: SOManager and SO.  Clients  *)
(* are mocks: a client keeps a copy of each object it has joined, puts its *)
(* own change there when the server acknowledges it, and may send what it  *)
(* likes; strays keeps those that do what Flash Player does not, or what   *)
(* the code cannot cope with.                                              *)
(***************************************************************************)
EXTENDS Naturals, SequencesExt, TLC

CONSTANTS
  SoClients,   \* the RTMP protocols
  SoNames,     \* names of shared objects
  SoLasting,   \* the names that clients ask for as persistent
  SoKeys,      \* property names
  MaxRequested \* bound on the requests of all clients

ASSUME SoAssumption == MaxRequested \in Nat /\ SoLasting \subseteq SoNames

NoData == [k \in {} |-> 0]

VARIABLES
  sos,         \* _sos: the live objects by name, born tells two apart that had
               \* the same name
  protocolSos, \* _protocolSos: the objects each protocol has connected to
  upward,      \* requests under way to the server, by client
  downward,    \* messages under way to the client
  copies,      \* mock: joined, the copy, and the changes not acknowledged
  births,      \* history: objects made so far
  requested,   \* history: requests made so far
  stray,       \* history: clients whose conduct excuses them
  freed        \* history: an object was used after its deletion

soVars == <<sos, protocolSos, upward, downward, copies, births, requested, stray, freed>>
-----------------------------------------------------------------------------
(* SO *)
NewSo(persistent, n) ==
  [born |-> n, version |-> 1, incremented |-> FALSE, persistent |-> persistent,
   payload |-> NoData, registered |-> {}, dirty |-> [c \in SoClients |-> <<>>]]

Dirt(type, key) == [type |-> type, key |-> key]
AllUpdated(so) == [i \in 1 .. Cardinality(DOMAIN so.payload) |->
                     Dirt("update", SetToSeq(DOMAIN so.payload)[i])]
\* A bug the project checks for: a client that joins late gets no properties.
RegisterProtocolEmpty(so, c) ==
  [so EXCEPT !.registered = @ \cup {c},
             !.dirty[c] = @ \o <<Dirt("clear", "none"), Dirt("initial", "none")>>]
RegisterProtocol(so, c) ==
  [so EXCEPT !.registered = @ \cup {c},
             !.dirty[c] = @ \o <<Dirt("clear", "none"), Dirt("initial", "none")>>
                            \o AllUpdated(so)]

Set(so, k, v, c) ==
  [so EXCEPT !.version = IF so.incremented THEN @ ELSE @ + 1,
             !.incremented = TRUE,
             !.payload = (k :> v) @@ @,
             !.dirty = [d \in SoClients |->
                IF d \in so.registered
                THEN Append(@[d], Dirt(IF d = c THEN "ack" ELSE "update", k)) ELSE @[d]]]

\* Track: one message for each client with changes; values are those of now.
Primitives(so, c) ==
  [i \in DOMAIN so.dirty[c] |->
     LET d == so.dirty[c][i]
     IN  IF d.type = "update" THEN [type |-> "update", key |-> d.key, value |-> so.payload[d.key]]
         ELSE d]
Tracked(so) == [so EXCEPT !.dirty = [c \in SoClients |-> <<>>], !.incremented = FALSE]
-----------------------------------------------------------------------------
(* SOManager, on the record w of its state *)
Live(w, ref) == ref.name \in DOMAIN w.sos /\ w.sos[ref.name].born = ref.born

\* A bug the project checks for: the other subscribers are not counted.
DeletedAnyway(so) == ~so.persistent
Deleted(so) == so.registered = {} /\ ~so.persistent

\* One round of the loop of UnRegisterProtocol.
UnRegisterOne(w, ref, c) ==
  IF ~Live(w, ref) THEN [w EXCEPT !.freed = TRUE]
  ELSE LET so == [w.sos[ref.name] EXCEPT !.registered = @ \ {c}, !.dirty[c] = <<>>]
       IN  [w EXCEPT !.sos = IF Deleted(so) THEN [n \in DOMAIN @ \ {ref.name} |-> @[n]]
                             ELSE [@ EXCEPT ![ref.name] = so]]
\* Every object of the protocol, whichever one the request names.
UnRegisterClient(w, c) ==
  [FoldLeft(LAMBDA x, ref : UnRegisterOne(x, ref, c), w, w.protocolSos[c])
     EXCEPT !.protocolSos[c] = <<>>]

\* ProcessSharedObjectPrimitive; ref is the object the message began with.
ProcessPrimitive(w, ref, p, c) ==
  CASE p.type = "disconnect" -> UnRegisterClient(w, c)
    [] p.type # "disconnect" /\ ~Live(w, ref) -> [w EXCEPT !.freed = TRUE]
    [] p.type = "connect" /\ Live(w, ref) ->
         [w EXCEPT !.sos[ref.name] = RegisterProtocol(@, c),
                   !.protocolSos[c] = Append(@, ref)]
    [] p.type = "set" /\ Live(w, ref) ->
         [w EXCEPT !.sos[ref.name] = Set(@, p.key, p.value, c)]

\* ProcessSharedObject
Manager == [sos |-> sos, protocolSos |-> protocolSos, freed |-> freed, births |-> births]
GetSO(w, request) ==
  IF request.name \in DOMAIN w.sos THEN w
  ELSE [w EXCEPT !.sos = @ @@ (request.name :> NewSo(request.persistent, w.births + 1)),
                 !.births = @ + 1]
Processed(w, c, request) ==
  LET x == GetSO(w, request)
      ref == [name |-> request.name, born |-> x.sos[request.name].born]
  IN  FoldLeft(LAMBDA y, p : ProcessPrimitive(y, ref, p, c), x, request.primitives)
-----------------------------------------------------------------------------
SoInit ==
  /\ sos = [n \in {} |-> 0]
  /\ protocolSos = [c \in SoClients |-> <<>>]
  /\ upward = [c \in SoClients |-> <<>>]
  /\ downward = [c \in SoClients |-> <<>>]
  /\ copies = [c \in SoClients |-> [n \in SoNames |->
                 [joined |-> FALSE, data |-> NoData, changes |-> <<>>]]]
  /\ births = 0 /\ requested = 0 /\ stray = {} /\ freed = FALSE

\* A client sends a request; what it does to its own copies is the mock's.  Each
\* request sets another value.
JoinRequest == [type |-> "connect"]
LeaveRequest == [type |-> "disconnect"]
Sets == {[type |-> "set", key |-> k, value |-> requested + 1] : k \in SoKeys}
RequestLists == {<<JoinRequest>>, <<LeaveRequest>>} \cup {<<s>> : s \in Sets}
                \cup {<<JoinRequest, s>> : s \in Sets} \cup {<<LeaveRequest, s>> : s \in Sets}
Joins(ps) == ps[1] = JoinRequest
Leaves(ps) == ps[1] = LeaveRequest
Changes(ps) == SelectSeq(ps, LAMBDA p : p.type = "set")
Strays(c, n, ps) ==
  \/ Joins(ps) /\ copies[c][n].joined
  \/ ~Joins(ps) /\ ~copies[c][n].joined
  \/ Leaves(ps) /\ (Len(ps) > 1 \/ \E m \in SoNames \ {n} : copies[c][m].joined)
Asks(c, n) ==
  /\ requested < MaxRequested /\ c \notin stray
  /\ \E ps \in RequestLists :
       /\ upward' = [upward EXCEPT ![c] = Append(@,
            [name |-> n, persistent |-> n \in SoLasting, primitives |-> ps])]
       /\ copies' = [copies EXCEPT ![c][n].joined = ~Leaves(ps) /\ (@ \/ Joins(ps)),
                                   ![c][n].changes = @ \o Changes(ps)]
       /\ stray' = IF Strays(c, n, ps) THEN stray \cup {c} ELSE stray
  /\ requested' = requested + 1
  /\ UNCHANGED <<sos, protocolSos, downward, births, freed>>

\* The server handles the next request of a client, and tracks the object.
ServerHandles(c) ==
  /\ upward[c] # <<>>
  /\ upward' = [upward EXCEPT ![c] = Tail(@)]
  /\ LET request == upward[c][1]
         w == Processed(Manager, c, request)
         n == request.name
     IN  /\ sos' = IF n \in DOMAIN w.sos THEN [w.sos EXCEPT ![n] = Tracked(@)] ELSE w.sos
         /\ protocolSos' = w.protocolSos
         /\ births' = w.births
         /\ freed' = w.freed
         /\ downward' = [d \in SoClients |->
              IF n \in DOMAIN w.sos /\ w.sos[n].dirty[d] # <<>>
              THEN Append(downward[d], [name |-> n, primitives |-> Primitives(w.sos[n], d)])
              ELSE downward[d]]
  /\ UNCHANGED <<copies, requested, stray>>

\* The client takes a message.  Its first change of an acknowledged property
\* becomes the value.
TakesIn(copy, p) ==
  CASE p.type = "clear" -> [copy EXCEPT !.data = NoData]
    [] p.type = "initial" -> copy
    [] p.type = "update" -> [copy EXCEPT !.data = (p.key :> p.value) @@ @]
    [] p.type = "ack" ->
         IF \E i \in DOMAIN copy.changes : copy.changes[i].key = p.key
         THEN LET i == SelectInSeq(copy.changes, LAMBDA s : s.key = p.key)
              IN  [copy EXCEPT !.data = (p.key :> copy.changes[i].value) @@ @,
                               !.changes = RemoveAt(@, i)]
         ELSE copy
Hears(c) ==
  /\ downward[c] # <<>>
  /\ downward' = [downward EXCEPT ![c] = Tail(@)]
  /\ copies' = [copies EXCEPT ![c][downward[c][1].name] =
                  FoldLeft(TakesIn, @, downward[c][1].primitives)]
  /\ UNCHANGED <<sos, protocolSos, upward, births, requested, stray, freed>>

\* The connection ends: UnRegisterProtocol of the application's handler.
Vanishes(c) ==
  /\ \E n \in SoNames : copies[c][n].joined
  /\ LET w == UnRegisterClient(Manager, c)
     IN  sos' = w.sos /\ protocolSos' = w.protocolSos /\ freed' = w.freed
  /\ upward' = [upward EXCEPT ![c] = <<>>]
  /\ downward' = [downward EXCEPT ![c] = <<>>]
  /\ copies' = [copies EXCEPT ![c] = [n \in SoNames |->
                  [joined |-> FALSE, data |-> NoData, changes |-> <<>>]]]
  /\ UNCHANGED <<births, requested, stray>>

SoNext == \/ \E c \in SoClients, n \in SoNames : Asks(c, n)
          \/ \E c \in SoClients : ServerHandles(c) \/ Hears(c) \/ Vanishes(c)
-----------------------------------------------------------------------------
\* Once nothing is under way, each client that joined an object holds what the
\* server holds, whatever the order in which the clients changed it, joined late
\* and left.
CopiesConverge ==
  \A c \in SoClients \ stray : \A n \in SoNames :
    /\ copies[c][n].joined
    /\ \A d \in SoClients : upward[d] = <<>>
    /\ downward[c] = <<>>
    => n \in DOMAIN sos /\ copies[c][n].data = sos[n].payload

\* No object is used after its deletion, unless a client joined one twice, or
\* left it and went on in the same message: the lists of the protocols name live
\* objects only, and each protocol in a list is registered there.
DeletedOnce ==
  stray = {} =>
    /\ ~freed
    /\ \A c \in SoClients : \A i \in DOMAIN protocolSos[c] :
         /\ Live(Manager, protocolSos[c][i])
         /\ c \in sos[protocolSos[c][i].name].registered

\* The copies agree with the server and no deleted object is used (SOManager, SO).
ObjectsHold == CopiesConverge /\ DeletedOnce
=============================================================================
