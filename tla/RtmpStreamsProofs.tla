-------------------------- MODULE RtmpStreamsProofs --------------------------
(***************************************************************************)
(* Theorems of RtmpStreams: type correctness, the agreement of both ends   *)
(* of every link, the exactness of the registry, and the agreement of the  *)
(* streams fed from files.  Together they are inductive.  Every handler    *)
(* that deletes, makes or links streams does it through Rewrite; Fits says *)
(* what the handlers give it, and the lemmas about Rewrite carry the       *)
(* argument.                                                               *)
(*                                                                         *)
(* The second half is about names: which streams may be published under    *)
(* one name (PublishedNamesUnique, with the roles of connections as its    *)
(* strengthening), and that a publisher and a player of one name and type  *)
(* are linked by the handler that makes the later of them                  *)
(* (NewStreamsMeet).  Both rest on what a step does to the streams that    *)
(* are registered: it makes none that matters (NothingMade), a publisher   *)
(* (PublisherMade) or a player (PlayerMade).                               *)
(***************************************************************************)
EXTENDS RtmpStreams, TLAPS

\* The stream a push was made for, while it lives, is an in stream.
PushTargets == \A c \in Conns : target[c] # None => streams[target[c]].kind = "in"

StreamInv == /\ TypeOK /\ LinksAgree /\ RegistryExact /\ PlaybackAgrees
             /\ PushTargets

\* What is at q once new is written.
After(new, q) == IF q \in DOMAIN new THEN new[q] ELSE streams[q]

\* The streams outs can be linked to src: they are out streams that are linked
\* to nothing that stays, and src is an in stream of their type.
Fits(new, src, outs, lost) ==
  /\ DOMAIN new \subseteq Places
  /\ \A p \in DOMAIN new : new[p] \in Streams
  /\ outs \subseteq Places /\ lost \subseteq Conns
  /\ src \in Places \cup {None, File}
  /\ outs # {} => src # None
  /\ \A q \in outs :
       /\ q \in DOMAIN new \/ feeder[q] \in DOMAIN new \/ feeder[q] = None
       /\ After(new, q).kind = "out"
       /\ src = File => After(new, q).type = "rtmp"
       /\ src \in Places => /\ After(new, src).kind = "in"
                            /\ After(new, src).type = After(new, q).type

\* Fits for a single stream, which replaces that of slot s of c.
FitsOne(c, s, what, src, outs, lost) ==
  Fits([q \in {<<c, s>>} |-> what], src, outs, lost)

\* Exactly the connections of lost are enqueued, and no other is revived.
Loses(lost) ==
  /\ conn' \in [Conns -> {"none", "open", "cut", "dead"}]
  /\ \A d \in Conns : conn'[d] = "dead" <=> conn[d] = "dead" \/ d \in lost
  /\ \A d \in Conns : conn'[d] \in {"none", "open"} => conn[d] \in {"none", "open"}

-----------------------------------------------------------------------------
(* Rewrite. *)

LEMMA RewriteTypes ==
  ASSUME TypeOK, NEW new, NEW src, NEW outs, NEW lost,
         Fits(new, src, outs, lost), Rewrite(new, src, outs, lost)
  PROVE  /\ streams' \in [Places -> Streams]
         /\ feeder' \in [Places -> Places \cup {None, File}]
         /\ subscribers' \in [Places -> SUBSET Places]
         /\ registered' \subseteq Places
<1>1. streams' \in [Places -> Streams]
  BY DEF TypeOK, Fits, Rewrite
<1>2. feeder' \in [Places -> Places \cup {None, File}]
  <2>1. \A p \in outs : src \in Places \cup {None, File}
    BY DEF Fits
  <2>2. QED
    BY <2>1 DEF TypeOK, Fits, Rewrite
<1>3. subscribers' \in [Places -> SUBSET Places]
  <2>1. \A p \in Places : Unlinked(DOMAIN new)[p] \subseteq Places
    BY DEF TypeOK, Unlinked
  <2>2. QED
    BY <2>1 DEF Fits, Rewrite
<1>4. registered' \subseteq Places
  BY DEF TypeOK, Fits, Rewrite, Registry
<1>5. QED
  BY <1>1, <1>2, <1>3, <1>4

LEMMA RewriteLinks ==
  ASSUME TypeOK, LinksAgree, NEW new, NEW src, NEW outs, NEW lost,
         Fits(new, src, outs, lost), Rewrite(new, src, outs, lost)
  PROVE  LinksAgree'
<1> DEFINE D == DOMAIN new
<1> USE ParametersAssumption
<1>1. \A q \in Places : feeder'[q] = IF q \in outs THEN src
                                     ELSE IF q \in D \/ feeder[q] \in D THEN None
                                     ELSE feeder[q]
  BY DEF Rewrite
<1>2. \A p \in Places : subscribers'[p] =
        IF p \in D THEN IF p = src THEN outs ELSE {}
        ELSE IF p = src THEN (subscribers[p] \ D) \cup outs
        ELSE subscribers[p] \ D
  BY DEF Rewrite, Unlinked
<1>3. \A p \in Places : streams'[p] = After(new, p)
  BY DEF Rewrite, After
<1>4. D \subseteq Places /\ outs \subseteq Places
  BY DEF Fits
<1>5. \A p \in Places, q \in Places : feeder[q] = p <=> q \in subscribers[p]
  BY DEF LinksAgree
<1>6. ASSUME NEW p \in Places, NEW q \in Places
      PROVE  feeder'[q] = p <=> q \in subscribers'[p]
  <2>1. CASE q \in outs
    <3>1. feeder'[q] = src
      BY <1>1, <2>1
    <3>2. q \in D \/ feeder[q] \in D \/ feeder[q] = None
      BY <2>1 DEF Fits
    <3>3. p # src => q \notin subscribers'[p]
      <4>1. SUFFICES ASSUME p # src, q \in subscribers'[p]
                     PROVE  FALSE
        OBVIOUS
      <4>2. p \notin D /\ q \in subscribers[p] /\ q \notin D
        BY <1>2, <4>1
      <4>3. feeder[q] = p
        BY <1>5, <4>2
      <4>4. QED
        BY <3>2, <4>2, <4>3
    <3>4. p = src => q \in subscribers'[p]
      BY <1>2, <2>1
    <3>5. QED
      BY <3>1, <3>3, <3>4
  <2>2. CASE q \notin outs
    <3>1. q \in subscribers'[p] <=> p \notin D /\ q \notin D /\ feeder[q] = p
      <4>1. feeder[q] = p <=> q \in subscribers[p]
        BY <1>5
      <4>2. CASE p \in D
        BY <1>2, <2>2, <4>2
      <4>3. CASE p \notin D
        BY <1>2, <2>2, <4>1, <4>3
      <4>4. QED
        BY <4>2, <4>3
    <3>2. None \notin Places
      OBVIOUS
    <3>3. feeder'[q] = p <=> p \notin D /\ q \notin D /\ feeder[q] = p
      BY <1>1, <2>2, <3>2
    <3>4. QED
      BY <3>1, <3>3
  <2>3. QED
    BY <2>1, <2>2
<1>7. ASSUME NEW q \in Places, feeder'[q] # None
      PROVE  \/ /\ q \in outs
                /\ feeder'[q] = src
             \/ /\ q \notin outs /\ q \notin D /\ feeder[q] \notin D
                /\ feeder'[q] = feeder[q] /\ feeder[q] # None
  BY <1>1, <1>7
<1>8. ASSUME NEW q \in Places
      PROVE  /\ feeder'[q] # None => streams'[q].kind = "out"
             /\ feeder'[q] = File => streams'[q].type = "rtmp"
             /\ feeder'[q] \in Places =>
                  /\ streams'[feeder'[q]].kind = "in"
                  /\ streams'[feeder'[q]].type = streams'[q].type
  <2>1. CASE feeder'[q] = None
    BY <2>1
  <2>2. CASE q \in outs /\ feeder'[q] = src
    <3>1. streams'[q] = After(new, q)
      BY <1>3
    <3>2. src \in Places => streams'[src] = After(new, src)
      BY <1>3
    <3>3. /\ After(new, q).kind = "out"
          /\ src = File => After(new, q).type = "rtmp"
          /\ src \in Places => /\ After(new, src).kind = "in"
                               /\ After(new, src).type = After(new, q).type
      BY <2>2 DEF Fits
    <3>4. QED
      BY <2>2, <3>1, <3>2, <3>3
  <2>3. CASE /\ q \notin D /\ feeder[q] \notin D
             /\ feeder'[q] = feeder[q] /\ feeder[q] # None
    <3>1. streams'[q] = streams[q]
      BY <1>3, <2>3 DEF After
    <3>2. feeder[q] \in Places => streams'[feeder[q]] = streams[feeder[q]]
      BY <1>3, <2>3 DEF After
    <3>3. /\ streams[q].kind = "out"
          /\ feeder[q] = File => streams[q].type = "rtmp"
          /\ feeder[q] \in Places =>
               /\ streams[feeder[q]].kind = "in"
               /\ streams[feeder[q]].type = streams[q].type
      BY <2>3 DEF LinksAgree, IsKind
    <3>4. QED
      BY <2>3, <3>1, <3>2, <3>3
  <2>4. QED
    BY <1>7, <2>1, <2>2, <2>3
<1>9. QED
  BY <1>6, <1>8 DEF LinksAgree, IsKind

\* The streams that are linked to their in-file stream afterwards, when only
\* a new stream is linked to one.
LEMMA RewriteFiles ==
  ASSUME NEW new, NEW src, NEW outs, NEW lost,
         Fits(new, src, outs, lost), Rewrite(new, src, outs, lost),
         src = File => outs \subseteq DOMAIN new,
         NEW q \in Places
  PROVE  feeder'[q] = File <=> IF q \in DOMAIN new THEN q \in outs /\ src = File
                               ELSE feeder[q] = File
<1>1. feeder'[q] = IF q \in outs THEN src
                   ELSE IF q \in DOMAIN new \/ feeder[q] \in DOMAIN new THEN None
                   ELSE feeder[q]
  BY DEF Rewrite
<1>2. File \notin DOMAIN new /\ None # File
  BY ParametersAssumption DEF Fits
<1>3. q \in outs => \/ q \in DOMAIN new
                    \/ feeder[q] \in DOMAIN new \/ feeder[q] = None
  BY DEF Fits
<1>4. QED
  BY <1>1, <1>2, <1>3

\* The registry afterwards, when no stream is made on a dead connection.
LEMMA RewriteRegistry ==
  ASSUME RegistryExact, NEW new, NEW src, NEW outs, NEW lost,
         Fits(new, src, outs, lost), Rewrite(new, src, outs, lost),
         \A p \in DOMAIN new : new[p] = Empty \/ conn[p[1]] # "dead"
  PROVE  registered' = {p \in Places : /\ conn[p[1]] # "dead" /\ p[1] \notin lost
                                       /\ streams'[p] # Empty}
<1>1. \A p \in Places : streams'[p] = IF p \in DOMAIN new THEN new[p] ELSE streams[p]
  BY DEF Rewrite
<1>2. registered' = ((registered \ DOMAIN new)
                       \cup {p \in DOMAIN new : new[p] # Empty}) \ PlacesOf(lost)
  BY DEF Rewrite, Registry
<1>3. \A p \in Places : p \in PlacesOf(lost) <=> p[1] \in lost
  BY DEF Places, PlacesOf
<1>4. DOMAIN new \subseteq Places
  BY DEF Fits
<1>5. QED
  BY <1>1, <1>2, <1>3, <1>4 DEF RegistryExact

-----------------------------------------------------------------------------
(* The actions. *)

\* A handler that writes streams of living connections keeps the links and the
\* registry, if it enqueues exactly the connections it lost.
LEMMA RewriteKeeps ==
  ASSUME StreamInv, NEW new, NEW src, NEW outs, NEW lost,
         Fits(new, src, outs, lost), Rewrite(new, src, outs, lost),
         \A p \in DOMAIN new : conn[p[1]] # "dead",
         \A c \in Conns : conn'[c] = "dead" <=> conn[c] = "dead" \/ c \in lost
  PROVE  /\ streams' \in [Places -> Streams]
         /\ feeder' \in [Places -> Places \cup {None, File}]
         /\ subscribers' \in [Places -> SUBSET Places]
         /\ registered' \subseteq Places
         /\ LinksAgree'
         /\ RegistryExact'
<1>1. TypeOK /\ LinksAgree /\ RegistryExact
  BY DEF StreamInv
<1>2. \A p \in Places : p[1] \in Conns
  BY DEF Places
<1>3. registered' = {p \in Places : /\ conn[p[1]] # "dead" /\ p[1] \notin lost
                                   /\ streams'[p] # Empty}
  BY <1>1, RewriteRegistry
<1>4. RegistryExact'
  BY <1>2, <1>3 DEF RegistryExact
<1>5. QED
  BY <1>1, <1>4, RewriteTypes, RewriteLinks

\* The same for a single stream at p, written by the handler of an open
\* connection.
LEMMA PutKeeps ==
  ASSUME StreamInv, NEW c \in Conns, NEW s \in Slots, conn[c] = "open",
         NEW what \in Streams, NEW src, NEW outs, NEW lost,
         FitsOne(c, s, what, src, outs, lost),
         Put(<<c, s>>, what, src, outs, lost),
         Loses(lost),
         signaled' \in [Conns -> SUBSET Slots], files' \in [Conns -> SUBSET Slots]
  PROVE  TypeOK' /\ LinksAgree' /\ RegistryExact' /\ PushTargets'
<1> DEFINE new == [q \in {<<c, s>>} |-> what]
<1>1. \A p \in DOMAIN new : conn[p[1]] # "dead"
  OBVIOUS
<1>2. Fits(new, src, outs, lost) /\ Rewrite(new, src, outs, lost)
  BY DEF Put, FitsOne
<1>3. /\ streams' \in [Places -> Streams]
      /\ feeder' \in [Places -> Places \cup {None, File}]
      /\ subscribers' \in [Places -> SUBSET Places]
      /\ registered' \subseteq Places
      /\ LinksAgree'
      /\ RegistryExact'
  <2> HIDE DEF new
  <2>1. QED
    BY <1>1, <1>2, RewriteKeeps DEF Loses
<1>4. role' \in [Conns -> Roles \cup {"none"}]
  BY DEF Put, StreamInv, TypeOK
<1>5. target' \in [Conns -> Places \cup {None}]
  BY DEF Put, Targets, StreamInv, TypeOK
<1>6. PushTargets'
  <2>1. SUFFICES ASSUME NEW d \in Conns, target'[d] # None
                 PROVE  streams'[target'[d]].kind = "in"
    BY DEF PushTargets
  <2>2. target'[d] = target[d] /\ target[d] \notin {<<c, s>>} /\ target[d] # None
    BY <2>1 DEF Put, Targets
  <2>3. target[d] \in Places
    BY <2>2 DEF StreamInv, TypeOK
  <2>4. streams'[target[d]] = streams[target[d]]
    BY <2>2, <2>3 DEF Put, Rewrite
  <2>5. QED
    BY <2>2, <2>4 DEF StreamInv, PushTargets
<1>7. QED
  BY <1>3, <1>4, <1>5, <1>6 DEF TypeOK, Loses

\* The same for PlaybackAgrees: the slot is signaled if its new stream is fed
\* from a file, and only a connection that is lost keeps another file.
LEMMA PutPlayback ==
  ASSUME StreamInv, NEW c \in Conns, NEW s \in Slots,
         NEW what, NEW src, NEW outs, NEW lost,
         FitsOne(c, s, what, src, outs, lost),
         Put(<<c, s>>, what, src, outs, lost),
         src = File => outs = {<<c, s>>},
         Loses(lost),
         signaled' = [signaled EXCEPT ![c] = IF src = File THEN @ \cup {s}
                                             ELSE @ \ {s}],
         \A d \in Conns \ {c} : files'[d] = files[d],
         \/ files'[c] = IF src = File THEN files[c] \cup {s} ELSE files[c] \ {s}
         \/ files'[c] = files[c] \cup {s} /\ conn'[c] \notin {"none", "open"}
  PROVE  PlaybackAgrees'
<1> DEFINE new == [q \in {<<c, s>>} |-> what]
<1>1. Fits(new, src, outs, lost) /\ Rewrite(new, src, outs, lost)
  BY DEF Put, FitsOne
<1>2. ASSUME NEW d \in Conns, NEW r \in Slots
      PROVE  feeder'[<<d, r>>] = File <=> IF d = c /\ r = s THEN src = File
                                          ELSE feeder[<<d, r>>] = File
  <2>1. <<d, r>> \in Places
    BY DEF Places
  <2>2. <<d, r>> \in DOMAIN new <=> d = c /\ r = s
    OBVIOUS
  <2>3. src = File => outs \subseteq DOMAIN new
    OBVIOUS
  <2>4. feeder'[<<d, r>>] = File
        <=> IF <<d, r>> \in DOMAIN new THEN <<d, r>> \in outs /\ src = File
            ELSE feeder[<<d, r>>] = File
    <3> HIDE DEF new
    <3>1. QED
      BY <1>1, <2>1, <2>3, RewriteFiles
  <2>5. QED
    BY <2>2, <2>4
<1>3. signaled \in [Conns -> SUBSET Slots] /\ files \in [Conns -> SUBSET Slots]
  BY DEF StreamInv, TypeOK
<1>4. ASSUME NEW d \in Conns
      PROVE  /\ signaled'[d] = {r \in Slots : feeder'[<<d, r>>] = File}
             /\ signaled'[d] \subseteq files'[d]
             /\ conn'[d] \in {"none", "open"} => files'[d] = signaled'[d]
  <2>1. /\ signaled[d] = {r \in Slots : feeder[<<d, r>>] = File}
        /\ signaled[d] \subseteq files[d]
        /\ conn[d] \in {"none", "open"} => files[d] = signaled[d]
    BY DEF StreamInv, PlaybackAgrees
  <2>2. CASE d = c
    <3>1. signaled'[c] = IF src = File THEN signaled[c] \cup {s}
                         ELSE signaled[c] \ {s}
      BY <1>3
    <3>2. \A r \in Slots : feeder'[<<c, r>>] = File
                           <=> IF r = s THEN src = File ELSE r \in signaled[c]
      BY <1>2, <2>1, <2>2
    <3>3. signaled[c] \subseteq Slots
      BY <1>3
    <3>4. signaled'[c] = {r \in Slots : feeder'[<<c, r>>] = File}
      BY <3>1, <3>2, <3>3
    <3>5. /\ signaled'[c] \subseteq files'[c]
          /\ conn'[c] \in {"none", "open"} => files'[c] = signaled'[c]
      <4>1. /\ signaled[c] \subseteq files[c]
            /\ conn'[c] \in {"none", "open"} => files[c] = signaled[c]
        BY <2>1, <2>2 DEF Loses
      <4>2. CASE files'[c] = IF src = File THEN files[c] \cup {s} ELSE files[c] \ {s}
        <5>1. CASE src = File
          BY <3>1, <4>1, <4>2, <5>1
        <5>2. CASE src # File
          BY <3>1, <4>1, <4>2, <5>2
        <5>3. QED
          BY <5>1, <5>2
      <4>3. CASE files'[c] = files[c] \cup {s} /\ conn'[c] \notin {"none", "open"}
        BY <3>1, <4>1, <4>3
      <4>4. QED
        BY <4>2, <4>3
    <3>6. QED
      BY <2>2, <3>4, <3>5
  <2>3. CASE d # c
    <3>1. signaled'[d] = signaled[d] /\ files'[d] = files[d]
      BY <1>3, <2>3
    <3>2. QED
      BY <1>2, <2>1, <2>3, <3>1 DEF Loses
  <2>4. QED
    BY <2>2, <2>3
<1>5. QED
  BY <1>4 DEF PlaybackAgrees

\* What Fits asks of a single stream that is linked to nothing.
LEMMA AloneFits ==
  ASSUME NEW c \in Conns, NEW s \in Slots, NEW what \in Streams
  PROVE  FitsOne(c, s, what, None, {}, {})
<1>1. <<c, s>> \in Places
  BY DEF Places
<1>2. QED
  BY <1>1 DEF Fits, FitsOne

\* The streams that wait for a publisher made at p, when those at D go, can be
\* linked to it.
LEMMA WaitingFits ==
  ASSUME StreamInv, NEW D \in SUBSET Places, NEW p \in D, NEW new,
         NEW n \in Names, NEW t \in Types,
         DOMAIN new = D, \A q \in D : new[q] \in Streams,
         new[p] = InStream(n, t)
  PROVE  Fits(new, p, Waiting(n, t, D), {})
<1> DEFINE outs == Waiting(n, t, D)
<1>1. outs \subseteq Places /\ outs \cap D = {}
  BY DEF Waiting, StreamInv, TypeOK
<1>2. ASSUME NEW q \in outs
      PROVE  /\ feeder[q] \in D \/ feeder[q] = None
             /\ After(new, q).kind = "out"
             /\ After(new, q).type = t
  <2>1. q \in registered \ D /\ IsKind(q, "out") /\ feeder[q] \in D \cup {None}
        /\ streams[q].type = t
    BY DEF Waiting
  <2>2. After(new, q) = streams[q]
    BY <2>1 DEF After
  <2>3. QED
    BY <2>1, <2>2 DEF IsKind
<1>3. After(new, p).kind = "in" /\ After(new, p).type = t
  BY DEF After, InStream
<1>4. p # None /\ p # File
  BY ParametersAssumption
<1>5. QED
  <2> HIDE DEF outs
  <2>1. Fits(new, p, outs, {})
    BY <1>1, <1>2, <1>3, <1>4 DEF Fits
  <2>2. QED
    BY <2>1 DEF outs

\* A new out stream at p fits an in stream elsewhere that is of its type.
LEMMA PlayerFits ==
  ASSUME StreamInv, NEW c \in Conns, NEW s \in Slots, NEW n \in Names,
         NEW src \in Places \ {<<c, s>>}, IsKind(src, "in"),
         NEW lost \in SUBSET Conns
  PROVE  FitsOne(c, s, OutStream(n, streams[src].type), src, {<<c, s>>}, lost)
<1> DEFINE p == <<c, s>>
           what == OutStream(n, streams[src].type)
           new == [q \in {p} |-> what]
<1>1. p \in Places
  BY DEF Places
<1>2. streams[src] \in Streams /\ streams[src].kind = "in"
  BY DEF StreamInv, TypeOK, IsKind
<1>3. streams[src].type \in Types
  BY <1>2 DEF Streams, Empty, Neutral
<1>4. what \in Streams
  BY <1>3 DEF Streams, OutStream
<1>5. After(new, p) = what /\ After(new, src) = streams[src]
  BY DEF After
<1>6. what.kind = "out" /\ what.type = streams[src].type
  BY DEF OutStream
<1>7. src # None /\ src # File
  BY ParametersAssumption
<1>8. DOMAIN new = {p} /\ new[p] = what
  OBVIOUS
<1>9. QED
  <2> HIDE DEF new, what, p
  <2>1. Fits(new, src, {p}, lost)
    BY <1>1, <1>2, <1>4, <1>5, <1>6, <1>7, <1>8 DEF Fits
  <2>2. QED
    BY <2>1 DEF new, what, p, FitsOne

\* A step that writes a single slot which held no out stream, and fills it with
\* nothing fed from a file, keeps all.
LEMMA FreshPut ==
  ASSUME StreamInv, NEW c \in Conns, NEW s \in Slots, conn[c] = "open",
         NEW what \in Streams, NEW src, src # File, NEW outs, NEW lost,
         FitsOne(c, s, what, src, outs, lost),
         Put(<<c, s>>, what, src, outs, lost),
         streams[<<c, s>>].kind # "out",
         Loses(lost),
         UNCHANGED playback
  PROVE  StreamInv'
<1>1. signaled \in [Conns -> SUBSET Slots] /\ files \in [Conns -> SUBSET Slots]
  BY DEF StreamInv, TypeOK
<1>2. signaled' = signaled /\ files' = files
  BY DEF playback
<1>3. s \notin signaled[c] /\ files[c] = signaled[c]
  <2>1. <<c, s>> \in Places
    BY DEF Places
  <2>2. feeder[<<c, s>>] = None
    BY <2>1 DEF StreamInv, LinksAgree, IsKind
  <2>3. feeder[<<c, s>>] # File
    BY <2>2, ParametersAssumption
  <2>4. /\ signaled[c] = {r \in Slots : feeder[<<c, r>>] = File}
        /\ files[c] = signaled[c]
    BY DEF StreamInv, PlaybackAgrees
  <2>5. QED
    BY <2>3, <2>4
<1>4. signaled' = [signaled EXCEPT ![c] = IF src = File THEN @ \cup {s}
                                          ELSE @ \ {s}]
  BY <1>1, <1>2, <1>3
<1>5. files'[c] = IF src = File THEN files[c] \cup {s} ELSE files[c] \ {s}
  BY <1>2, <1>3
<1>6. PlaybackAgrees'
  BY <1>2, <1>4, <1>5, PutPlayback
<1>7. signaled' \in [Conns -> SUBSET Slots] /\ files' \in [Conns -> SUBSET Slots]
  BY <1>1, <1>2
<1>8. TypeOK' /\ LinksAgree' /\ RegistryExact' /\ PushTargets'
  BY <1>7, PutKeeps
<1>9. QED
  BY <1>6, <1>8 DEF StreamInv

\* A step that closes a single slot and fills it with nothing fed from a file
\* keeps all.
LEMMA ClosingPut ==
  ASSUME StreamInv, NEW c \in Conns, NEW s \in Slots, conn[c] = "open",
         NEW what \in Streams, NEW src, src # File, NEW outs, NEW lost,
         FitsOne(c, s, what, src, outs, lost),
         Put(<<c, s>>, what, src, outs, lost),
         Loses(lost),
         Unsignal(c, s),
         \/ RemoveIFS(c, s)
         \/ files' = [files EXCEPT ![c] = @ \cup {s}] /\ conn'[c] \notin {"none", "open"}
  PROVE  StreamInv'
<1>1. signaled \in [Conns -> SUBSET Slots] /\ files \in [Conns -> SUBSET Slots]
  BY DEF StreamInv, TypeOK
<1>2. signaled' = [signaled EXCEPT ![c] = IF src = File THEN @ \cup {s}
                                          ELSE @ \ {s}]
  BY DEF Unsignal
<1>3. /\ \A d \in Conns \ {c} : files'[d] = files[d]
      /\ \/ files'[c] = IF src = File THEN files[c] \cup {s} ELSE files[c] \ {s}
         \/ files'[c] = files[c] \cup {s} /\ conn'[c] \notin {"none", "open"}
  BY <1>1 DEF RemoveIFS
<1>4. PlaybackAgrees'
  BY <1>2, <1>3, PutPlayback
<1>5. signaled' \in [Conns -> SUBSET Slots] /\ files' \in [Conns -> SUBSET Slots]
  BY <1>1 DEF Unsignal, RemoveIFS
<1>6. TypeOK' /\ LinksAgree' /\ RegistryExact' /\ PushTargets'
  BY <1>5, PutKeeps
<1>7. QED
  BY <1>4, <1>6 DEF StreamInv

LEMMA EmptyAndNeutral ==
  /\ Empty \in Streams /\ Neutral \in Streams
  /\ Empty.kind # "out" /\ Neutral.kind # "out"
BY DEF Streams, Empty, Neutral

LEMMA NewStreams ==
  ASSUME NEW n \in Names, NEW t \in Types
  PROVE  InStream(n, t) \in Streams /\ OutStream(n, t) \in Streams
BY DEF Streams, InStream, OutStream

\* A connection is made, or is lost.
LEMMA ConnectKeeps ==
  ASSUME StreamInv, NEW c \in Conns, NEW r \in Roles,
         NEW t \in registered \cup {None}, Connect(c, r, t)
  PROVE  StreamInv'
<1>1. TypeOK'
  BY DEF StreamInv, TypeOK, Connect, playback
<1>2. LinksAgree'
  BY DEF StreamInv, LinksAgree, IsKind, Connect
<1>3. \A p \in Places : p[1] \in Conns
  BY DEF Places
<1>4. \A d \in Conns : conn'[d] = "dead" <=> conn[d] = "dead"
  BY DEF StreamInv, TypeOK, Connect
<1>5. RegistryExact'
  BY <1>3, <1>4 DEF StreamInv, RegistryExact, Connect
<1>6. PlaybackAgrees'
  <2>1. ASSUME NEW d \in Conns
        PROVE  /\ signaled'[d] = {x \in Slots : feeder'[<<d, x>>] = File}
               /\ signaled'[d] \subseteq files'[d]
               /\ conn'[d] \in {"none", "open"} => files'[d] = signaled'[d]
    BY DEF StreamInv, PlaybackAgrees, Connect, playback
  <2>2. QED
    BY <2>1 DEF PlaybackAgrees
<1>7. PushTargets'
  BY DEF StreamInv, TypeOK, PushTargets, IsKind, Connect
<1>8. QED
  BY <1>1, <1>2, <1>5, <1>6, <1>7 DEF StreamInv

LEMMA LoseKeeps ==
  ASSUME StreamInv, NEW c \in Conns, Lose(c)
  PROVE  StreamInv'
<1>1. TypeOK'
  BY DEF StreamInv, TypeOK, Lose, Cut, playback
<1>2. LinksAgree'
  BY DEF StreamInv, LinksAgree, IsKind, Lose
<1>3. \A p \in Places : p[1] \in Conns
  BY DEF Places
<1>4. \A d \in Conns : /\ conn'[d] = "dead" <=> conn[d] = "dead"
                       /\ conn'[d] \in {"none", "open"} => conn[d] \in {"none", "open"}
  BY DEF StreamInv, TypeOK, Lose, Cut
<1>5. RegistryExact'
  BY <1>3, <1>4 DEF StreamInv, RegistryExact, Lose
<1>6. PlaybackAgrees'
  BY <1>4 DEF StreamInv, PlaybackAgrees, Lose, playback
<1>7. PushTargets'
  BY DEF StreamInv, PushTargets, Lose
<1>8. QED
  BY <1>1, <1>2, <1>5, <1>6, <1>7 DEF StreamInv

\* Connections that cannot be fed are enqueued: their links stay.
LEMMA FeedKeeps ==
  ASSUME StreamInv, NEW p \in Places, NEW lost, Feed(p, lost)
  PROVE  StreamInv'
<1>1. \A q \in Places : q[1] \in Conns
  BY DEF Places
<1>2. lost \subseteq Conns
  BY DEF Feed
<1>3. registered' = registered \ PlacesOf(lost)
  BY DEF Feed, Registry
<1>4. TypeOK'
  BY <1>3 DEF StreamInv, TypeOK, Feed, Enqueue, playback
<1>5. LinksAgree'
  BY DEF StreamInv, LinksAgree, IsKind, Feed
<1>6. \A d \in Conns : /\ conn'[d] = "dead" <=> conn[d] = "dead" \/ d \in lost
                       /\ conn'[d] \in {"none", "open"} => conn[d] \in {"none", "open"}
  BY DEF Feed, Enqueue
<1>7. \A q \in Places : q \in PlacesOf(lost) <=> q[1] \in lost
  BY DEF Places, PlacesOf
<1>8. RegistryExact'
  BY <1>1, <1>3, <1>6, <1>7 DEF StreamInv, RegistryExact, Feed
<1>9. PlaybackAgrees'
  BY <1>6 DEF StreamInv, PlaybackAgrees, Feed, playback
<1>10. PushTargets'
  BY DEF StreamInv, PushTargets, Feed
<1>11. QED
  BY <1>4, <1>5, <1>8, <1>9, <1>10 DEF StreamInv

\* What the handlers do to their own connection.
LEMMA ConnAfter ==
  ASSUME StreamInv, NEW c \in Conns, conn[c] = "open", NEW lost,
         \/ UNCHANGED conn /\ lost = {}
         \/ Cut(c) /\ lost = {}
         \/ Enqueue(lost) /\ lost \subseteq {c}
  PROVE  Loses(lost)
BY DEF Loses, StreamInv, TypeOK, Cut, Enqueue

\* A slot that held nothing, or a neutral stream, holds a neutral one.
LEMMA SlotKeeps ==
  ASSUME StreamInv, NEW c \in Conns, NEW s \in Slots, conn[c] = "open",
         streams[<<c, s>>] = Empty, Put(<<c, s>>, Neutral, None, {}, {}),
         UNCHANGED <<conn, playback>>
  PROVE  StreamInv'
<1>1. streams[<<c, s>>].kind # "out" /\ Neutral \in Streams
  BY EmptyAndNeutral
<1>2. FitsOne(c, s, Neutral, None, {}, {})
  BY <1>1, AloneFits
<1>3. Loses({})
  BY ConnAfter
<1>4. None # File /\ UNCHANGED playback
  BY ParametersAssumption
<1>5. QED
  BY <1>1, <1>2, <1>3, <1>4, FreshPut

LEMMA CreateStreamKeeps ==
  ASSUME StreamInv, NEW c \in Conns, CreateStream(c)
  PROVE  StreamInv'
<1>1. PICK s \in Slots : /\ streams[<<c, s>>] = Empty
                        /\ Put(<<c, s>>, Neutral, None, {}, {})
  BY DEF CreateStream
<1>2. conn[c] = "open" /\ UNCHANGED <<conn, playback>>
  BY DEF CreateStream, Can
<1>3. QED
  BY <1>1, <1>2, SlotKeeps

LEMMA CreateStreamResultKeeps ==
  ASSUME StreamInv, NEW c \in Conns, NEW s \in Slots, CreateStreamResult(c, s)
  PROVE  StreamInv'
BY SlotKeeps DEF CreateStreamResult, Can

\* A slot is closed, and a player that is linked to nothing may be put there.
LEMMA AloneKeeps ==
  ASSUME StreamInv, NEW c \in Conns, NEW s \in Slots, conn[c] = "open",
         NEW what \in Streams, Put(<<c, s>>, what, None, {}, {}),
         UNCHANGED conn \/ Cut(c),
         Unsignal(c, s),
         \/ RemoveIFS(c, s)
         \/ files' = [files EXCEPT ![c] = @ \cup {s}] /\ Cut(c)
  PROVE  StreamInv'
<1>1. FitsOne(c, s, what, None, {}, {})
  BY AloneFits
<1>2. Loses({})
  BY ConnAfter
<1>3. None # File
  BY ParametersAssumption
<1>4. Cut(c) => conn'[c] \notin {"none", "open"}
  BY DEF Cut, StreamInv, TypeOK
<1>5. \/ RemoveIFS(c, s)
      \/ files' = [files EXCEPT ![c] = @ \cup {s}] /\ conn'[c] \notin {"none", "open"}
  BY <1>4
<1>6. QED
  BY <1>1, <1>2, <1>3, <1>5, ClosingPut

LEMMA CloseStreamKeeps ==
  ASSUME StreamInv, NEW c \in Conns, NEW s \in Slots,
         NEW what \in {Neutral, Empty}, CloseStream(c, s, what)
  PROVE  StreamInv'
<1>1. what \in Streams
  BY EmptyAndNeutral
<1>2. QED
  BY <1>1, AloneKeeps DEF CloseStream, Can

LEMMA PlayWaitKeeps ==
  ASSUME StreamInv, NEW c \in Conns, NEW s \in Slots, NEW n \in Names,
         PlayWait(c, s, n)
  PROVE  StreamInv'
<1>1. OutStream(n, "rtmp") \in Streams
  BY NewStreams DEF Types
<1>2. QED
  BY <1>1, AloneKeeps DEF PlayWait, Can

LEMMA PlayMissingKeeps ==
  ASSUME StreamInv, NEW c \in Conns, NEW s \in Slots, PlayMissing(c, s)
  PROVE  StreamInv'
<1> DEFINE what == IF streams[<<c, s>>] = Empty THEN Empty ELSE Neutral
<1>1. what \in Streams
  BY EmptyAndNeutral
<1>2. /\ conn[c] = "open" /\ Put(<<c, s>>, what, None, {}, {})
      /\ Unsignal(c, s) /\ RemoveIFS(c, s) /\ Cut(c)
  BY DEF PlayMissing, Can
<1> HIDE DEF what
<1>3. QED
  BY <1>1, <1>2, AloneKeeps

LEMMA PlayWithoutChannelsKeeps ==
  ASSUME StreamInv, NEW c \in Conns, NEW s \in Slots, PlayWithoutChannels(c, s)
  PROVE  StreamInv'
<1>1. Empty \in Streams
  BY EmptyAndNeutral
<1>2. QED
  BY <1>1, AloneKeeps DEF PlayWithoutChannels, Can

\* A publisher is made on a slot that was neutral or empty.
LEMMA PublisherKeeps ==
  ASSUME StreamInv, NEW c \in Conns, NEW s \in Slots, conn[c] = "open",
         NEW n \in Names, NEW t \in Types,
         streams[<<c, s>>] \in {Empty, Neutral},
         Put(<<c, s>>, InStream(n, t), <<c, s>>, Waiting(n, t, {<<c, s>>}), {}),
         UNCHANGED <<conn, playback>>
  PROVE  StreamInv'
<1> DEFINE p == <<c, s>>
           new == [q \in {p} |-> InStream(n, t)]
           outs == Waiting(n, t, {p})
<1>1. p \in Places /\ p # File
  BY ParametersAssumption DEF Places
<1>2. InStream(n, t) \in Streams
  BY NewStreams
<1>3. FitsOne(c, s, InStream(n, t), p, outs, {})
  <2>1. DOMAIN new = {p} /\ new[p] = InStream(n, t)
    OBVIOUS
  <2>2. \A q \in {p} : new[q] \in Streams
    BY <1>2
  <2>3. {p} \in SUBSET Places /\ p \in {p}
    BY <1>1
  <2> HIDE DEF p, new
  <2>4. Fits(new, p, outs, {})
    BY <2>1, <2>2, <2>3, WaitingFits
  <2>5. QED
    BY <2>4 DEF p, new, FitsOne
<1>4. Loses({})
  BY ConnAfter
<1>5. streams[p].kind # "out" /\ UNCHANGED playback
  BY EmptyAndNeutral
<1>6. QED
  BY <1>1, <1>2, <1>3, <1>4, <1>5, FreshPut

LEMMA PullStartedKeeps ==
  ASSUME StreamInv, NEW c \in Conns, NEW s \in Slots, NEW n \in Names,
         PullStarted(c, s, n)
  PROVE  StreamInv'
<1>1. "rtmp" \in Types
  BY DEF Types
<1>2. /\ conn[c] = "open" /\ streams[<<c, s>>] \in {Empty, Neutral}
      /\ Put(<<c, s>>, InStream(n, "rtmp"), <<c, s>>,
             Waiting(n, "rtmp", {<<c, s>>}), {})
      /\ UNCHANGED <<conn, playback>>
  BY DEF PullStarted, Can
<1>3. QED
  BY <1>1, <1>2, PublisherKeeps

LEMMA AnnounceKeeps ==
  ASSUME StreamInv, NEW c \in Conns, NEW n \in Names, Announce(c, n)
  PROVE  StreamInv'
<1>1. "ts" \in Types
  BY DEF Types
<1>2. 1 \in Slots
  BY ParametersAssumption DEF Slots
<1>3. /\ conn[c] = "open" /\ streams[<<c, 1>>] \in {Empty, Neutral}
      /\ Put(<<c, 1>>, InStream(n, "ts"), <<c, 1>>,
             Waiting(n, "ts", {<<c, 1>>}), {})
      /\ UNCHANGED <<conn, playback>>
  BY DEF Announce, Can
<1>4. QED
  BY <1>1, <1>2, <1>3, PublisherKeeps

LEMMA PlayLiveKeeps ==
  ASSUME StreamInv, NEW c \in Conns, NEW s \in Slots, NEW n \in Names,
         NEW src \in registered, PlayLive(c, s, n, src)
  PROVE  StreamInv'
<1> DEFINE p == <<c, s>>
           what == OutStream(n, streams[src].type)
<1>1. src \in Places \ {p} /\ IsKind(src, "in")
  BY DEF PlayLive, Sources, Publishers, PublishersOfStem, StreamInv, TypeOK
<1>2. PICK lost \in {{}, {c}} : Put(p, what, src, {p}, lost) /\ Enqueue(lost)
  BY DEF PlayLive
<1>3. conn[c] = "open" /\ Unsignal(c, s) /\ RemoveIFS(c, s)
  BY DEF PlayLive, Can
<1>4. FitsOne(c, s, what, src, {p}, lost)
  BY <1>1, PlayerFits
<1>5. Loses(lost)
  BY <1>2, <1>3, ConnAfter
<1>6. what \in Streams /\ src # File
  <2>1. streams[src] \in Streams /\ streams[src].kind = "in"
    BY <1>1 DEF StreamInv, TypeOK, IsKind
  <2>2. streams[src].type \in Types
    BY <2>1 DEF Streams, Empty, Neutral
  <2>3. QED
    BY <1>1, <2>2, NewStreams, ParametersAssumption
<1>7. QED
  <2> HIDE DEF what
  <2>1. QED
    BY <1>2, <1>3, <1>4, <1>5, <1>6, ClosingPut

LEMMA PushStartedKeeps ==
  ASSUME StreamInv, NEW c \in Conns, NEW s \in Slots, PushStarted(c, s)
  PROVE  StreamInv'
<1> DEFINE p == <<c, s>>
           t == target[c]
           what == OutStream(streams[t].name, streams[t].type)
<1>1. /\ conn[c] = "open" /\ t \in registered /\ streams[p] \in {Empty, Neutral}
      /\ UNCHANGED playback
  BY DEF PushStarted, Can
<1>2. streams[p].kind # "out"
  BY <1>1, EmptyAndNeutral
<1>3. CASE Put(p, Empty, None, {}, {}) /\ Cut(c)
  <2>1. FitsOne(c, s, Empty, None, {}, {}) /\ Empty \in Streams
    BY AloneFits, EmptyAndNeutral
  <2>2. Loses({})
    BY <1>1, <1>3, ConnAfter
  <2>3. None # File
    BY ParametersAssumption
  <2>4. QED
    BY <1>1, <1>2, <1>3, <2>1, <2>2, <2>3, FreshPut
<1>4. CASE \E lost \in {{}, {c}} : Put(p, what, t, {p}, lost) /\ Enqueue(lost)
  <2>1. PICK lost \in {{}, {c}} : Put(p, what, t, {p}, lost) /\ Enqueue(lost)
    BY <1>4
  <2>2. streams[t] \in Streams /\ t \in Places /\ t # p
    <3>1. t \in Places
      BY <1>1 DEF StreamInv, TypeOK
    <3>2. streams[t] \in Streams
      BY <3>1 DEF StreamInv, TypeOK
    <3>3. streams[t].kind = "in"
      BY <3>1, ParametersAssumption DEF StreamInv, PushTargets
    <3>4. QED
      BY <1>1, <3>1, <3>2, <3>3 DEF Empty, Neutral
  <2>3. streams[t].kind = "in"
    BY <1>1, <2>2, ParametersAssumption DEF StreamInv, PushTargets
  <2>4. streams[t].name \in Names /\ streams[t].type \in Types
    BY <2>2, <2>3 DEF Streams, Empty, Neutral
  <2>5. FitsOne(c, s, what, t, {p}, lost)
    BY <2>2, <2>3, <2>4, PlayerFits DEF IsKind
  <2>6. what \in Streams /\ t # File
    BY <2>2, <2>4, NewStreams, ParametersAssumption
  <2>7. Loses(lost)
    BY <1>1, <2>1, ConnAfter
  <2>8. QED
    <3> HIDE DEF what, t
    <3>1. QED
      BY <1>1, <1>2, <2>1, <2>5, <2>6, <2>7, FreshPut
<1>5. QED
  BY <1>3, <1>4 DEF PushStarted

LEMMA PlayFileKeeps ==
  ASSUME StreamInv, NEW c \in Conns, NEW s \in Slots, NEW n \in Names,
         PlayFile(c, s, n)
  PROVE  StreamInv'
<1> DEFINE p == <<c, s>>
           what == OutStream(n, "rtmp")
<1>1. /\ conn[c] = "open" /\ Put(p, what, File, {p}, {})
      /\ signaled' = [signaled EXCEPT ![c] = @ \cup {s}]
      /\ files' = [files EXCEPT ![c] = @ \cup {s}]
      /\ UNCHANGED conn \/ Cut(c)
  BY DEF PlayFile, Can
<1>2. what \in Streams /\ what.kind = "out" /\ what.type = "rtmp"
  BY NewStreams DEF Types, OutStream
<1>3. FitsOne(c, s, what, File, {p}, {})
  <2> DEFINE new == [q \in {p} |-> what]
  <2>1. p \in Places /\ File \notin Places /\ File # None
    BY ParametersAssumption DEF Places
  <2>2. DOMAIN new = {p} /\ new[p] = what /\ After(new, p) = what
    BY DEF After
  <2> HIDE DEF new, what, p
  <2>3. Fits(new, File, {p}, {})
    BY <1>2, <2>1, <2>2 DEF Fits
  <2>4. QED
    BY <2>3 DEF FitsOne, new, p
<1>4. Loses({})
  BY <1>1, ConnAfter
<1>5. signaled \in [Conns -> SUBSET Slots] /\ files \in [Conns -> SUBSET Slots]
  BY DEF StreamInv, TypeOK
<1>6. /\ signaled' \in [Conns -> SUBSET Slots]
      /\ files' \in [Conns -> SUBSET Slots]
  BY <1>1, <1>5
<1>7. /\ signaled' = [signaled EXCEPT ![c] = IF File = File THEN @ \cup {s}
                                             ELSE @ \ {s}]
      /\ \A d \in Conns \ {c} : files'[d] = files[d]
      /\ files'[c] = IF File = File THEN files[c] \cup {s} ELSE files[c] \ {s}
      /\ File = File => {p} = {<<c, s>>}
  BY <1>1, <1>5
<1> HIDE DEF what
<1>8. PlaybackAgrees'
  BY <1>1, <1>2, <1>3, <1>4, <1>7, PutPlayback
<1>9. TypeOK' /\ LinksAgree' /\ RegistryExact' /\ PushTargets'
  BY <1>1, <1>2, <1>3, <1>4, <1>6, PutKeeps
<1>10. QED
  BY <1>8, <1>9 DEF StreamInv

\* A handler that writes several streams of living connections, none of them
\* an out stream, keeps all.
LEMMA PublishingKeeps ==
  ASSUME StreamInv, NEW new, NEW src, src # File, NEW outs,
         Fits(new, src, outs, {}), Rewrite(new, src, outs, {}),
         \A p \in DOMAIN new : conn[p[1]] # "dead" /\ streams[p].kind # "out",
         Loses({}), UNCHANGED <<role, playback>>, target' = Targets(DOMAIN new)
  PROVE  StreamInv'
<1> DEFINE D == DOMAIN new
<1>1. /\ streams' \in [Places -> Streams]
      /\ feeder' \in [Places -> Places \cup {None, File}]
      /\ subscribers' \in [Places -> SUBSET Places]
      /\ registered' \subseteq Places
      /\ LinksAgree'
      /\ RegistryExact'
  <2>1. \A c \in Conns : conn'[c] = "dead" <=> conn[c] = "dead" \/ c \in {}
    BY DEF Loses
  <2>2. QED
    BY <2>1, RewriteKeeps
<1>2. TypeOK'
  BY <1>1 DEF StreamInv, TypeOK, Loses, Targets, playback
<1>3. \A q \in Places : feeder'[q] = File <=> feeder[q] = File
  <2>1. SUFFICES ASSUME NEW q \in Places
                 PROVE  feeder'[q] = File <=> feeder[q] = File
    OBVIOUS
  <2>2. feeder'[q] = File <=> IF q \in D THEN q \in outs /\ src = File
                              ELSE feeder[q] = File
    BY RewriteFiles
  <2>3. q \in D => feeder[q] # File
    BY ParametersAssumption DEF StreamInv, LinksAgree, IsKind
  <2>4. QED
    BY <2>2, <2>3
<1>4. PlaybackAgrees'
  <2>1. ASSUME NEW c \in Conns
        PROVE  /\ signaled'[c] = {r \in Slots : feeder'[<<c, r>>] = File}
               /\ signaled'[c] \subseteq files'[c]
               /\ conn'[c] \in {"none", "open"} => files'[c] = signaled'[c]
    <3>1. \A r \in Slots : <<c, r>> \in Places
      BY DEF Places
    <3>2. QED
      BY <1>3, <3>1 DEF StreamInv, PlaybackAgrees, Loses, playback
  <2>2. QED
    BY <2>1 DEF PlaybackAgrees
<1>5. PushTargets'
  <2>1. SUFFICES ASSUME NEW d \in Conns, target'[d] # None
                 PROVE  streams'[target'[d]].kind = "in"
    BY DEF PushTargets
  <2>2. target'[d] = target[d] /\ target[d] \notin D /\ target[d] # None
    BY <2>1 DEF Targets
  <2>3. target[d] \in Places
    BY <2>2 DEF StreamInv, TypeOK
  <2>4. streams'[target[d]] = streams[target[d]]
    BY <2>2, <2>3 DEF Rewrite
  <2>5. QED
    BY <2>2, <2>4 DEF StreamInv, PushTargets
<1>6. QED
  BY <1>1, <1>2, <1>4, <1>5 DEF StreamInv

LEMMA PublishKeeps ==
  ASSUME StreamInv, NEW c \in Conns, NEW s \in Slots, NEW n \in Names,
         Publish(c, s, n)
  PROVE  StreamInv'
<1> DEFINE p == <<c, s>>
           closed == Overridden(n)
           D == closed \cup {p}
           new == [q \in D |-> IF q = p THEN InStream(n, "rtmp") ELSE Neutral]
<1>1. conn[c] = "open" /\ UNCHANGED <<role, playback>>
  BY DEF Publish, Can
<1>2. p \in Places
  BY DEF Places
<1>3. \A q \in closed : /\ q \in Places /\ streams[q].kind = "in"
                        /\ conn[q[1]] # "dead"
  BY DEF Overridden, Publishers, IsKind, StreamInv, RegistryExact
<1>4. p # File /\ None # File
  BY <1>2, ParametersAssumption
<1>5. CASE /\ streams[p] = Neutral \/ p \in closed
           /\ Rewrite(new, p, Waiting(n, "rtmp", D), {})
           /\ target' = Targets(D)
           /\ UNCHANGED conn \/ Cut(c)
  <2>1. DOMAIN new = D /\ new[p] = InStream(n, "rtmp")
    OBVIOUS
  <2>2. "rtmp" \in Types
    BY DEF Types
  <2>3. \A q \in D : new[q] \in Streams
    BY <2>2, NewStreams, EmptyAndNeutral
  <2>4. D \in SUBSET Places /\ p \in D
    BY <1>2, <1>3
  <2>5. Fits(new, p, Waiting(n, "rtmp", D), {})
    <3> HIDE DEF new, D, p
    <3>1. QED
      BY <2>1, <2>2, <2>3, <2>4, WaitingFits
  <2>6. \A q \in D : conn[q[1]] # "dead" /\ streams[q].kind # "out"
    BY <1>1, <1>3, <1>5, EmptyAndNeutral
  <2>7. Loses({})
    BY <1>1, <1>5, ConnAfter
  <2>8. QED
    <3> HIDE DEF new, D, p
    <3>1. QED
      BY <1>1, <1>4, <1>5, <2>1, <2>5, <2>6, <2>7, PublishingKeeps
<1>6. CASE /\ Rewrite([q \in closed |-> Neutral], None, {}, {})
           /\ target' = Targets(closed)
           /\ Cut(c)
  <2> DEFINE gone == [q \in closed |-> Neutral]
  <2>1. DOMAIN gone = closed /\ \A q \in closed : gone[q] \in Streams
    BY EmptyAndNeutral
  <2>2. closed \subseteq Places
    BY <1>3
  <2>3. Fits(gone, None, {}, {})
    <3> HIDE DEF gone
    <3>1. QED
      BY <2>1, <2>2 DEF Fits
  <2>4. \A q \in closed : conn[q[1]] # "dead" /\ streams[q].kind # "out"
    BY <1>3
  <2>5. Loses({})
    BY <1>1, <1>6, ConnAfter
  <2>6. QED
    <3> HIDE DEF gone
    <3>1. Rewrite(gone, None, {}, {})
      BY <1>6 DEF gone
    <3>2. QED
      BY <1>1, <1>4, <1>6, <2>1, <2>3, <2>4, <2>5, <3>1, PublishingKeeps
<1>7. QED
  BY <1>5, <1>6 DEF Publish

LEMMA CleanupKeeps ==
  ASSUME StreamInv, Cleanup
  PROVE  StreamInv'
<1> DEFINE D == {c \in Conns : conn[c] \in {"cut", "dead"}}
           new == [p \in PlacesOf(D) |-> Empty]
<1>1. /\ Rewrite(new, None, {}, D)
      /\ conn' = [c \in Conns |-> IF c \in D THEN "none" ELSE conn[c]]
      /\ role' = [c \in Conns |-> IF c \in D THEN "none" ELSE role[c]]
      /\ target' = [c \in Conns |-> IF c \in D \/ target[c] \in PlacesOf(D)
                                    THEN None ELSE target[c]]
      /\ signaled' = [c \in Conns |-> IF c \in D THEN {} ELSE signaled[c]]
      /\ files' = [c \in Conns |-> IF c \in D THEN {} ELSE files[c]]
  BY DEF Cleanup
<1>2. \A p \in Places : p[1] \in Conns /\ (p \in PlacesOf(D) <=> p[1] \in D)
  BY DEF Places, PlacesOf
<1>3. PlacesOf(D) \subseteq Places
  BY DEF Places, PlacesOf
<1>4. DOMAIN new = PlacesOf(D) /\ \A p \in PlacesOf(D) : new[p] = Empty
  OBVIOUS
<1>5. Fits(new, None, {}, D)
  <2> HIDE DEF new
  <2>1. QED
    BY <1>3, <1>4, EmptyAndNeutral DEF Fits
<1>6. /\ streams' \in [Places -> Streams]
      /\ feeder' \in [Places -> Places \cup {None, File}]
      /\ subscribers' \in [Places -> SUBSET Places]
      /\ registered' \subseteq Places
  <2> HIDE DEF new, D
  <2>1. QED
    BY <1>1, <1>5, RewriteTypes DEF StreamInv
<1>7. LinksAgree'
  <2> HIDE DEF new, D
  <2>1. QED
    BY <1>1, <1>5, RewriteLinks DEF StreamInv
<1>8. \A p \in Places : streams'[p] = IF p[1] \in D THEN Empty ELSE streams[p]
  <2> HIDE DEF new, D
  <2>1. QED
    BY <1>1, <1>2, <1>4 DEF Rewrite
<1>9. \A q \in Places : feeder'[q] = File <=> q[1] \notin D /\ feeder[q] = File
  <2> HIDE DEF new, D
  <2>1. SUFFICES ASSUME NEW q \in Places
                 PROVE  feeder'[q] = File <=> q[1] \notin D /\ feeder[q] = File
    OBVIOUS
  <2>2. feeder'[q] = File <=> IF q \in DOMAIN new THEN q \in {} /\ None = File
                              ELSE feeder[q] = File
    BY <1>1, <1>5, RewriteFiles, ParametersAssumption
  <2>3. QED
    BY <1>2, <1>4, <2>2
<1>10. TypeOK'
  BY <1>1, <1>6 DEF StreamInv, TypeOK
<1>11. RegistryExact'
  <2>1. registered' = {p \in Places : /\ conn[p[1]] # "dead" /\ p[1] \notin D
                                     /\ streams'[p] # Empty}
    <3> HIDE DEF new, D
    <3>1. QED
      BY <1>1, <1>4, <1>5, RewriteRegistry DEF StreamInv
  <2>2. QED
    BY <1>1, <1>2, <1>8, <2>1 DEF RegistryExact
<1>12. PlaybackAgrees'
  <2>1. ASSUME NEW c \in Conns
        PROVE  /\ signaled'[c] = {r \in Slots : feeder'[<<c, r>>] = File}
               /\ signaled'[c] \subseteq files'[c]
               /\ conn'[c] \in {"none", "open"} => files'[c] = signaled'[c]
    <3>1. \A r \in Slots : <<c, r>> \in Places /\ <<c, r>>[1] = c
      BY DEF Places
    <3>2. \A r \in Slots : feeder'[<<c, r>>] = File
                           <=> c \notin D /\ feeder[<<c, r>>] = File
      <4> HIDE DEF D
      <4>1. QED
        BY <1>9, <3>1
    <3>3. CASE c \in D
      BY <1>1, <3>2, <3>3
    <3>4. CASE c \notin D
      BY <1>1, <3>2, <3>4 DEF StreamInv, PlaybackAgrees
    <3>5. QED
      BY <3>3, <3>4
  <2>2. QED
    BY <2>1 DEF PlaybackAgrees
<1>13. PushTargets'
  <2>1. SUFFICES ASSUME NEW d \in Conns, target'[d] # None
                 PROVE  streams'[target'[d]].kind = "in"
    BY DEF PushTargets
  <2>2. target'[d] = target[d] /\ target[d] \notin PlacesOf(D) /\ target[d] # None
    BY <1>1, <2>1
  <2>3. target[d] \in Places
    BY <2>2 DEF StreamInv, TypeOK
  <2>4. streams'[target[d]] = streams[target[d]]
    BY <1>2, <1>8, <2>2, <2>3
  <2>5. QED
    BY <2>2, <2>4 DEF StreamInv, PushTargets
<1>14. QED
  BY <1>7, <1>10, <1>11, <1>12, <1>13 DEF StreamInv

-----------------------------------------------------------------------------
(* The theorems. *)

LEMMA StreamInit == Init => StreamInv
<1> SUFFICES ASSUME Init PROVE StreamInv
  OBVIOUS
<1>1. TypeOK
  BY EmptyAndNeutral DEF Init, TypeOK
<1>2. LinksAgree
  BY ParametersAssumption DEF Init, LinksAgree
<1>3. \A p \in Places : p[1] \in Conns
  BY DEF Places
<1>4. RegistryExact
  BY <1>3 DEF Init, RegistryExact
<1>5. PlaybackAgrees
  <2>1. \A c \in Conns, r \in Slots : feeder[<<c, r>>] # File
    BY ParametersAssumption DEF Init, Places
  <2>2. QED
    BY <2>1 DEF Init, PlaybackAgrees
<1>6. PushTargets
  BY DEF Init, PushTargets
<1>7. QED
  BY <1>1, <1>2, <1>4, <1>5, <1>6 DEF StreamInv

LEMMA StreamNext == StreamInv /\ [Next]_vars => StreamInv'
<1> SUFFICES ASSUME StreamInv, [Next]_vars PROVE StreamInv'
  OBVIOUS
<1>1. CASE UNCHANGED vars
  <2>1. TypeOK' /\ LinksAgree' /\ RegistryExact' /\ PushTargets'
    BY <1>1 DEF vars, StreamInv, TypeOK, LinksAgree, IsKind, RegistryExact,
                PushTargets
  <2>2. PlaybackAgrees'
    BY <1>1 DEF vars, StreamInv, PlaybackAgrees
  <2>3. QED
    BY <2>1, <2>2 DEF StreamInv
<1>2. CASE \E c \in Conns, r \in Roles, t \in registered \cup {None} :
             Connect(c, r, t)
  BY <1>2, ConnectKeeps
<1>3. CASE \E c \in Conns : Lose(c)
  BY <1>3, LoseKeeps
<1>4. CASE Cleanup
  BY <1>4, CleanupKeeps
<1>5. CASE \E c \in Conns : CreateStream(c)
  BY <1>5, CreateStreamKeeps
<1>6. CASE \E c \in Conns, s \in Slots : CreateStreamResult(c, s)
  BY <1>6, CreateStreamResultKeeps
<1>7. CASE \E c \in Conns, s \in Slots, what \in {Neutral, Empty} :
             CloseStream(c, s, what)
  BY <1>7, CloseStreamKeeps
<1>8. CASE \E c \in Conns, s \in Slots, n \in Names : Publish(c, s, n)
  BY <1>8, PublishKeeps
<1>9. CASE \E c \in Conns, s \in Slots, n \in Names : PullStarted(c, s, n)
  BY <1>9, PullStartedKeeps
<1>10. CASE \E c \in Conns, n \in Names : Announce(c, n)
  BY <1>10, AnnounceKeeps
<1>11. CASE \E p \in Places : \E lost \in SUBSET {q[1] : q \in subscribers[p]} :
              Feed(p, lost)
  BY <1>11, FeedKeeps
<1>12. CASE \E c \in Conns, s \in Slots, n \in Names, src \in registered :
              PlayLive(c, s, n, src)
  BY <1>12, PlayLiveKeeps
<1>13. CASE \E c \in Conns, s \in Slots, n \in Names : PlayFile(c, s, n)
  BY <1>13, PlayFileKeeps
<1>14. CASE \E c \in Conns, s \in Slots, n \in Names : PlayWait(c, s, n)
  BY <1>14, PlayWaitKeeps
<1>15. CASE \E c \in Conns, s \in Slots : PlayMissing(c, s)
  BY <1>15, PlayMissingKeeps
<1>16. CASE \E c \in Conns, s \in Slots : PlayWithoutChannels(c, s)
  BY <1>16, PlayWithoutChannelsKeeps
<1>17. CASE \E c \in Conns, s \in Slots : PushStarted(c, s)
  BY <1>17, PushStartedKeeps
<1>18. QED
  BY <1>1, <1>2, <1>3, <1>4, <1>5, <1>6, <1>7, <1>8, <1>9, <1>10, <1>11,
     <1>12, <1>13, <1>14, <1>15, <1>16, <1>17 DEF Next

\* The streams of an application stay as StreamInv says, whatever its
\* connections do.
THEOREM StreamInvariant == Spec => []StreamInv
<1>1. Init => StreamInv
  BY StreamInit
<1>2. StreamInv /\ [Next]_vars => StreamInv'
  BY StreamNext
<1>3. QED
  BY <1>1, <1>2, PTL DEF Spec

\* The types of streams, channels and links stay what the handlers make them.
THEOREM TypesAreCorrect == Spec => []TypeOK
<1>1. StreamInv => TypeOK
  BY DEF StreamInv
<1>2. QED
  BY <1>1, StreamInvariant, PTL

\* Both ends of a link know it (BaseInStream and BaseOutStream Link, UnLink and
\* their destructors), on any number of connections, slots and names.
THEOREM BothEndsAgree == Spec => []LinksAgree
<1>1. StreamInv => LinksAgree
  BY DEF StreamInv
<1>2. QED
  BY <1>1, StreamInvariant, PTL

\* No handler finds a stream of a connection that has left the application, and
\* none of a living one is lost (StreamsManager, UnRegisterStreams).
THEOREM RegistryIsExact == Spec => []RegistryExact
<1>1. StreamInv => RegistryExact
  BY DEF StreamInv
<1>2. QED
  BY <1>1, StreamInvariant, PTL

\* The signaled streams are those fed from a file, each of its own, and a living
\* connection keeps no other file open (SignalONS, CloseStream, RemoveIFS).
THEOREM FilesFollowPlayers == Spec => []PlaybackAgrees
<1>1. StreamInv => PlaybackAgrees
  BY DEF StreamInv
<1>2. QED
  BY <1>1, StreamInvariant, PTL

-----------------------------------------------------------------------------
(* Names. *)

\* A connection that is not there has no role.
FreeHaveNoRole == \A c \in Conns : conn[c] = "none" => role[c] = "none"

\* Streams that are not RTMP come over RTSP only.
TsFromRtsp ==
  \A p \in registered :
    IsKind(p, "in") /\ streams[p].type = "ts" => role[p[1]] = "rtsp"

NamesInv == StreamInv /\ FreeHaveNoRole /\ TsFromRtsp /\ PublishedNamesUnique

\* The publishers of a step were there before it, on a connection that keeps
\* its role.
NothingPublished ==
  \A p \in registered' :
    streams'[p].kind = "in" =>
      /\ p \in registered /\ streams'[p] = streams[p]
      /\ role'[p[1]] = role[p[1]] \/ role[p[1]] = "none"

\* No publisher and no player is made.
NothingMade ==
  \A p \in registered' :
    streams'[p].kind \in {"in", "out"} => streams'[p] = streams[p]

\* What Rewrite leaves registered.
LEMMA RegisteredAfter ==
  ASSUME NEW new, NEW src, NEW outs, NEW lost, DOMAIN new \subseteq Places,
         registered \subseteq Places,
         Rewrite(new, src, outs, lost), NEW p \in registered'
  PROVE  /\ p \in Places /\ p[1] \in Conns \ lost
         /\ \/ p \in DOMAIN new /\ new[p] # Empty /\ streams'[p] = new[p]
            \/ p \notin DOMAIN new /\ p \in registered /\ streams'[p] = streams[p]
<1>1. registered' = ((registered \ DOMAIN new)
                      \cup {q \in DOMAIN new : new[q] # Empty}) \ PlacesOf(lost)
  BY DEF Rewrite, Registry
<1>2. p \in Places
  BY <1>1
<1>3. p[1] \in Conns /\ (p \in PlacesOf(lost) <=> p[1] \in lost)
  BY <1>2 DEF Places, PlacesOf
<1>4. QED
  BY <1>1, <1>2, <1>3 DEF Rewrite

-----------------------------------------------------------------------------
(* One name. *)

LEMMA OldPublishersKeep ==
  ASSUME NamesInv, NothingPublished
  PROVE  TsFromRtsp' /\ PublishedNamesUnique'
<1>1. TsFromRtsp'
  BY DEF NamesInv, TsFromRtsp, NothingPublished, IsKind
<1>2. PublishedNamesUnique'
  BY DEF NamesInv, PublishedNamesUnique, NothingPublished, IsKind
<1>3. QED
  BY <1>1, <1>2

\* A handler that writes no in stream leaves the names as they are.
LEMMA NoPublisherWritten ==
  ASSUME NamesInv, NEW new, NEW src, NEW outs, NEW lost,
         DOMAIN new \subseteq Places, Rewrite(new, src, outs, lost),
         \A p \in DOMAIN new : new[p].kind # "in",
         \A c \in Conns \ lost : role'[c] = role[c]
  PROVE  TsFromRtsp' /\ PublishedNamesUnique'
<1>1. registered \subseteq Places
  BY DEF NamesInv, StreamInv, TypeOK
<1>2. NothingPublished
  <2>1. SUFFICES ASSUME NEW p \in registered', streams'[p].kind = "in"
                 PROVE  /\ p \in registered /\ streams'[p] = streams[p]
                        /\ role'[p[1]] = role[p[1]]
    BY DEF NothingPublished
  <2>2. QED
    BY <1>1, <2>1, RegisteredAfter
<1>3. QED
  BY <1>2, OldPublishersKeep

\* A publisher of name n and type t made at p, when those of its name that go
\* on may share it with p.
LEMMA PublisherWritten ==
  ASSUME NamesInv, NEW n \in Names, NEW t \in Types, NEW new, NEW p \in DOMAIN new,
         NEW outs, DOMAIN new \subseteq Places,
         Rewrite(new, p, outs, {}),
         new[p] = InStream(n, t),
         \A q \in DOMAIN new \ {p} : new[q].kind # "in",
         UNCHANGED role,
         t = "ts" => role[p[1]] = "rtsp",
         \A q \in Publishers(n) \ DOMAIN new :
           AllowDuplicates /\ {role[p[1]], role[q[1]]} \cap {"pull", "rtsp"} # {}
  PROVE  TsFromRtsp' /\ PublishedNamesUnique'
<1>1. registered \subseteq Places
  BY DEF NamesInv, StreamInv, TypeOK
<1>2. ASSUME NEW q \in registered', streams'[q].kind = "in"
      PROVE  \/ q = p /\ streams'[q] = InStream(n, t)
             \/ q \notin DOMAIN new /\ q \in registered /\ streams'[q] = streams[q]
  BY <1>1, <1>2, RegisteredAfter
<1>3. InStream(n, t).name = n /\ InStream(n, t).type = t
  BY DEF InStream
<1>4. TsFromRtsp'
  BY <1>2, <1>3 DEF NamesInv, TsFromRtsp, IsKind
<1>5. ASSUME NEW q \in registered', streams'[q].kind = "in", q # p,
             streams'[q].name = n
      PROVE  AllowDuplicates /\ {role[p[1]], role[q[1]]} \cap {"pull", "rtsp"} # {}
  <2>1. q \in Publishers(n) \ DOMAIN new
    BY <1>2, <1>5 DEF Publishers, IsKind
  <2>2. QED
    BY <2>1
<1>6. PublishedNamesUnique'
  <2>1. SUFFICES ASSUME NEW q \in registered', NEW r \in registered', q # r,
                        streams'[q].kind = "in", streams'[r].kind = "in",
                        streams'[q].name = streams'[r].name
                 PROVE  /\ AllowDuplicates
                        /\ {role[q[1]], role[r[1]]} \cap {"pull", "rtsp"} # {}
    BY DEF PublishedNamesUnique, IsKind
  <2>2. CASE q = p
    <3>1. r # p /\ streams'[r].name = n
      BY <1>2, <1>3, <2>1, <2>2
    <3>2. QED
      BY <1>5, <2>1, <2>2, <3>1
  <2>3. CASE r = p
    <3>1. q # p /\ streams'[q].name = n
      BY <1>2, <1>3, <2>1, <2>3
    <3>2. AllowDuplicates /\ {role[p[1]], role[q[1]]} \cap {"pull", "rtsp"} # {}
      BY <1>5, <2>1, <3>1
    <3>3. QED
      BY <2>3, <3>2
  <2>4. CASE q # p /\ r # p
    <3>1. /\ q \in registered /\ streams'[q] = streams[q]
          /\ r \in registered /\ streams'[r] = streams[r]
      BY <1>2, <2>1, <2>4
    <3>2. QED
      BY <2>1, <3>1 DEF NamesInv, PublishedNamesUnique, IsKind
  <2>5. QED
    BY <2>2, <2>3, <2>4
<1>7. QED
  BY <1>4, <1>6

\* The same for handlers that write a single slot.
LEMMA PutNames ==
  ASSUME NamesInv, NEW c \in Conns, NEW s \in Slots, NEW what, NEW src,
         NEW outs, NEW lost, Put(<<c, s>>, what, src, outs, lost),
         what.kind # "in"
  PROVE  TsFromRtsp' /\ PublishedNamesUnique'
<1> DEFINE new == [q \in {<<c, s>>} |-> what]
<1>1. DOMAIN new \subseteq Places /\ \A q \in DOMAIN new : new[q].kind # "in"
  BY DEF Places
<1>2. Rewrite(new, src, outs, lost) /\ role' = role
  BY DEF Put
<1> HIDE DEF new
<1>3. QED
  BY <1>1, <1>2, NoPublisherWritten

LEMMA PutPublisherNames ==
  ASSUME NamesInv, NEW c \in Conns, NEW s \in Slots, NEW n \in Names,
         NEW t \in Types, NEW outs,
         Put(<<c, s>>, InStream(n, t), <<c, s>>, outs, {}),
         NameAvailable(n),
         role[c] \in {"pull", "rtsp"}, t = "ts" => role[c] = "rtsp"
  PROVE  TsFromRtsp' /\ PublishedNamesUnique'
<1> DEFINE p == <<c, s>>
           new == [q \in {p} |-> InStream(n, t)]
<1>1. /\ DOMAIN new \subseteq Places /\ p \in DOMAIN new /\ p[1] = c
      /\ new[p] = InStream(n, t) /\ DOMAIN new = {p}
  BY DEF Places
<1>2. Rewrite(new, p, outs, {}) /\ role' = role
  BY DEF Put
<1>3. \A q \in Publishers(n) :
        AllowDuplicates /\ {role[c], role[q[1]]} \cap {"pull", "rtsp"} # {}
  BY DEF NameAvailable
<1> HIDE DEF new, p
<1>4. QED
  BY <1>1, <1>2, <1>3, PublisherWritten

\* ProcessInvokePublish: the publishers over RTMP that have the name are closed
\* first, so that only those of another kind keep it.
LEMMA PublishNames ==
  ASSUME NamesInv, NEW c \in Conns, NEW s \in Slots, NEW n \in Names,
         Publish(c, s, n)
  PROVE  TsFromRtsp' /\ PublishedNamesUnique'
<1> DEFINE p == <<c, s>>
           closed == Overridden(n)
           D == closed \cup {p}
           new == [q \in D |-> IF q = p THEN InStream(n, "rtmp") ELSE Neutral]
           gone == [q \in closed |-> Neutral]
<1>1. p \in Places /\ closed \subseteq Places
  BY DEF Places, Overridden, Publishers, NamesInv, StreamInv, TypeOK
<1>2. UNCHANGED role /\ Neutral.kind # "in" /\ "rtmp" \in Types
  BY DEF Publish, Neutral, Types
<1>3. ASSUME NEW q \in Publishers(n) \ D
      PROVE  AllowDuplicates /\ {role[p[1]], role[q[1]]} \cap {"pull", "rtsp"} # {}
  <2>1. AllowDuplicates
    BY DEF Publish, BadName, NameAvailable
  <2>2. q \in registered /\ streams[q].kind = "in" /\ streams[q].type # "rtmp"
    BY <2>1 DEF Publishers, Overridden, IsKind
  <2>3. streams[q] \in Streams
    BY <2>2 DEF NamesInv, StreamInv, TypeOK
  <2>4. streams[q].type = "ts"
    BY <2>2, <2>3 DEF Streams, Types, Empty, Neutral
  <2>5. role[q[1]] = "rtsp"
    BY <2>2, <2>4 DEF NamesInv, TsFromRtsp, IsKind
  <2>6. QED
    BY <2>1, <2>5
<1>4. CASE Rewrite(new, p, Waiting(n, "rtmp", D), {})
  <2>1. /\ DOMAIN new = D /\ p \in D /\ D \subseteq Places
        /\ new[p] = InStream(n, "rtmp")
        /\ \A q \in D \ {p} : new[q].kind # "in"
    BY <1>1, <1>2
  <2> HIDE DEF new, D, p
  <2>2. QED
    BY <1>2, <1>3, <1>4, <2>1, PublisherWritten
<1>5. CASE Rewrite(gone, None, {}, {})
  <2>1. DOMAIN gone = closed /\ \A q \in closed : gone[q].kind # "in"
    BY <1>2
  <2> HIDE DEF gone
  <2>2. QED
    BY <1>1, <1>2, <1>5, <2>1, NoPublisherWritten
<1>6. QED
  BY <1>4, <1>5 DEF Publish

\* The registered streams stay, or some leave, when none is written.
LEMMA UnwrittenNames ==
  ASSUME NamesInv, UNCHANGED streams, registered' \subseteq registered,
         \A c \in Conns : role'[c] = role[c] \/ role[c] = "none"
  PROVE  TsFromRtsp' /\ PublishedNamesUnique'
<1>1. \A p \in registered' : p[1] \in Conns
  BY DEF NamesInv, StreamInv, TypeOK, Places
<1>2. NothingPublished
  BY <1>1 DEF NothingPublished
<1>3. QED
  BY <1>2, OldPublishersKeep

\* The cleanup takes the roles of the connections whose streams it deletes.
LEMMA CleanupNames ==
  ASSUME NamesInv, Cleanup
  PROVE  TsFromRtsp' /\ PublishedNamesUnique'
<1> DEFINE D == {c \in Conns : conn[c] \in {"cut", "dead"}}
           new == [p \in PlacesOf(D) |-> Empty]
<1>1. /\ DOMAIN new = PlacesOf(D) /\ PlacesOf(D) \subseteq Places
      /\ \A p \in PlacesOf(D) : new[p].kind # "in"
  BY DEF PlacesOf, Places, Empty
<1>2. /\ Rewrite(new, None, {}, D)
      /\ \A c \in Conns \ D : role'[c] = role[c]
  BY DEF Cleanup
<1> HIDE DEF new, D
<1>3. QED
  BY <1>1, <1>2, NoPublisherWritten

\* The roles follow the connections.
LEMMA RolesFollow ==
  ASSUME StreamInv, FreeHaveNoRole, UNCHANGED role,
         \A c \in Conns : conn'[c] = "none" => conn[c] = "none"
  PROVE  FreeHaveNoRole'
BY DEF FreeHaveNoRole

\* What a handler of an open connection does to the connections.
LEMMA HandlersFreeNone ==
  ASSUME StreamInv, NEW c \in Conns,
         UNCHANGED conn \/ Cut(c) \/ \E lost \in SUBSET Conns : Enqueue(lost)
  PROVE  \A d \in Conns : conn'[d] = "none" => conn[d] = "none"
BY DEF StreamInv, TypeOK, Cut, Enqueue

LEMMA NamesNext == NamesInv /\ [Next]_vars => NamesInv'
<1> SUFFICES ASSUME NamesInv, [Next]_vars PROVE NamesInv'
  OBVIOUS
<1>1. StreamInv /\ FreeHaveNoRole
  BY DEF NamesInv
<1>2. StreamInv'
  BY <1>1, StreamNext
<1>3. Empty.kind # "in" /\ Neutral.kind # "in"
      /\ \A n \in Names, t \in Types : OutStream(n, t).kind # "in"
  BY DEF Empty, Neutral, OutStream
<1>4. CASE UNCHANGED vars
  <2>1. FreeHaveNoRole'
    BY <1>4, <1>1 DEF vars, FreeHaveNoRole
  <2>2. QED
    BY <1>4, <1>2, <2>1, UnwrittenNames DEF vars, NamesInv
<1>5. ASSUME NEW c \in Conns, NEW r \in Roles, NEW t \in registered \cup {None},
             Connect(c, r, t)
      PROVE  NamesInv'
  <2>1. \A d \in Conns : role'[d] = role[d] \/ role[d] = "none"
    BY <1>5, <1>1 DEF Connect, FreeHaveNoRole, StreamInv, TypeOK
  <2>2. FreeHaveNoRole'
    BY <1>5, <1>1 DEF Connect, FreeHaveNoRole, StreamInv, TypeOK
  <2>3. UNCHANGED <<streams, registered>>
    BY <1>5 DEF Connect
  <2>4. QED
    BY <1>2, <2>1, <2>2, <2>3, UnwrittenNames DEF NamesInv
<1>6. ASSUME NEW c \in Conns, Lose(c) PROVE NamesInv'
  <2>1. FreeHaveNoRole'
    BY <1>6, <1>1, HandlersFreeNone, RolesFollow DEF Lose
  <2>2. QED
    BY <1>6, <1>2, <2>1, UnwrittenNames DEF Lose, NamesInv
<1>7. CASE Cleanup
  <2>1. FreeHaveNoRole'
    BY <1>7, <1>1 DEF Cleanup, FreeHaveNoRole
  <2>2. QED
    BY <1>7, <1>2, <2>1, CleanupNames DEF NamesInv
<1>8. ASSUME NEW c \in Conns, CreateStream(c) PROVE NamesInv'
  <2>1. PICK s \in Slots : Put(<<c, s>>, Neutral, None, {}, {})
    BY <1>8 DEF CreateStream
  <2>2. FreeHaveNoRole'
    BY <1>8, <1>1, RolesFollow DEF CreateStream, Put
  <2>3. QED
    BY <1>2, <1>3, <2>1, <2>2, PutNames DEF NamesInv
<1>9. ASSUME NEW c \in Conns, NEW s \in Slots, CreateStreamResult(c, s)
      PROVE  NamesInv'
  <2>1. FreeHaveNoRole'
    BY <1>9, <1>1, RolesFollow DEF CreateStreamResult, Put
  <2>2. QED
    BY <1>9, <1>2, <1>3, <2>1, PutNames DEF CreateStreamResult, NamesInv
<1>10. ASSUME NEW c \in Conns, NEW s \in Slots, NEW what \in {Neutral, Empty},
              CloseStream(c, s, what)
       PROVE  NamesInv'
  <2>1. FreeHaveNoRole'
    BY <1>10, <1>1, RolesFollow DEF CloseStream, Put
  <2>2. QED
    BY <1>10, <1>2, <1>3, <2>1, PutNames DEF CloseStream, NamesInv
<1>11. ASSUME NEW c \in Conns, NEW s \in Slots, NEW n \in Names, Publish(c, s, n)
       PROVE  NamesInv'
  <2>1. UNCHANGED role /\ (UNCHANGED conn \/ Cut(c))
    BY <1>11 DEF Publish
  <2>2. FreeHaveNoRole'
    BY <1>1, <2>1, HandlersFreeNone, RolesFollow
  <2>3. QED
    BY <1>11, <1>2, <2>2, PublishNames DEF NamesInv
<1>12. ASSUME NEW c \in Conns, NEW s \in Slots, NEW n \in Names,
              PullStarted(c, s, n)
       PROVE  NamesInv'
  <2>1. FreeHaveNoRole'
    BY <1>12, <1>1, RolesFollow DEF PullStarted, Put
  <2>2. /\ Put(<<c, s>>, InStream(n, "rtmp"), <<c, s>>,
               Waiting(n, "rtmp", {<<c, s>>}), {})
        /\ NameAvailable(n) /\ role[c] = "pull" /\ "rtmp" \in Types
    BY <1>12 DEF PullStarted, Can, Types
  <2>3. QED
    BY <1>2, <2>1, <2>2, PutPublisherNames DEF NamesInv
<1>13. ASSUME NEW c \in Conns, NEW n \in Names, Announce(c, n) PROVE NamesInv'
  <2>1. FreeHaveNoRole'
    BY <1>13, <1>1, RolesFollow DEF Announce, Put
  <2>2. /\ Put(<<c, 1>>, InStream(n, "ts"), <<c, 1>>,
               Waiting(n, "ts", {<<c, 1>>}), {})
        /\ NameAvailable(n) /\ role[c] = "rtsp" /\ "ts" \in Types /\ 1 \in Slots
    BY <1>13, ParametersAssumption DEF Announce, Can, Types, Slots
  <2>3. QED
    BY <1>2, <2>1, <2>2, PutPublisherNames DEF NamesInv
<1>14. ASSUME NEW p \in Places, NEW lost, Feed(p, lost) PROVE NamesInv'
  <2>1. FreeHaveNoRole'
    BY <1>14, <1>1, RolesFollow DEF Feed, Enqueue
  <2>2. registered' \subseteq registered /\ UNCHANGED <<streams, role>>
    BY <1>14 DEF Feed, Registry
  <2>3. QED
    BY <1>2, <2>1, <2>2, UnwrittenNames DEF NamesInv
<1>15. ASSUME NEW c \in Conns, NEW s \in Slots, NEW n \in Names,
              NEW src \in registered, PlayLive(c, s, n, src)
       PROVE  NamesInv'
  <2>1. PICK lost \in {{}, {c}} :
          /\ Put(<<c, s>>, OutStream(n, streams[src].type), src, {<<c, s>>}, lost)
          /\ Enqueue(lost)
    BY <1>15 DEF PlayLive
  <2>2. FreeHaveNoRole'
    BY <1>1, <2>1, RolesFollow DEF Put, Enqueue
  <2>3. OutStream(n, streams[src].type).kind # "in"
    BY DEF OutStream
  <2>4. QED
    BY <1>2, <2>1, <2>2, <2>3, PutNames DEF NamesInv
<1>16. ASSUME NEW c \in Conns, NEW s \in Slots, NEW n \in Names, PlayFile(c, s, n)
       PROVE  NamesInv'
  <2>1. /\ Put(<<c, s>>, OutStream(n, "rtmp"), File, {<<c, s>>}, {})
        /\ UNCHANGED conn \/ Cut(c)
    BY <1>16 DEF PlayFile
  <2>2. FreeHaveNoRole'
    BY <1>1, <2>1, HandlersFreeNone, RolesFollow DEF Put
  <2>3. OutStream(n, "rtmp").kind # "in"
    BY DEF OutStream
  <2>4. QED
    BY <1>2, <2>1, <2>2, <2>3, PutNames DEF NamesInv
<1>17. ASSUME NEW c \in Conns, NEW s \in Slots, NEW n \in Names, PlayWait(c, s, n)
       PROVE  NamesInv'
  <2>1. Put(<<c, s>>, OutStream(n, "rtmp"), None, {}, {}) /\ UNCHANGED conn
    BY <1>17 DEF PlayWait
  <2>2. FreeHaveNoRole'
    BY <1>1, <2>1, RolesFollow DEF Put
  <2>3. OutStream(n, "rtmp").kind # "in"
    BY DEF OutStream
  <2>4. QED
    BY <1>2, <2>1, <2>2, <2>3, PutNames DEF NamesInv
<1>18. ASSUME NEW c \in Conns, NEW s \in Slots, PlayMissing(c, s) PROVE NamesInv'
  <2> DEFINE what == IF streams[<<c, s>>] = Empty THEN Empty ELSE Neutral
  <2>1. Put(<<c, s>>, what, None, {}, {}) /\ Cut(c)
    BY <1>18 DEF PlayMissing
  <2>2. FreeHaveNoRole'
    BY <1>1, <2>1, HandlersFreeNone, RolesFollow DEF Put
  <2>3. what.kind # "in"
    BY <1>3
  <2> HIDE DEF what
  <2>4. QED
    BY <1>2, <2>1, <2>2, <2>3, PutNames DEF NamesInv
<1>19. ASSUME NEW c \in Conns, NEW s \in Slots, PlayWithoutChannels(c, s)
       PROVE  NamesInv'
  <2>1. Put(<<c, s>>, Empty, None, {}, {}) /\ Cut(c)
    BY <1>19 DEF PlayWithoutChannels
  <2>2. FreeHaveNoRole'
    BY <1>1, <2>1, HandlersFreeNone, RolesFollow DEF Put
  <2>3. QED
    BY <1>2, <1>3, <2>1, <2>2, PutNames DEF NamesInv
<1>20. ASSUME NEW c \in Conns, NEW s \in Slots, PushStarted(c, s) PROVE NamesInv'
  <2> DEFINE t == target[c]
             what == OutStream(streams[t].name, streams[t].type)
  <2>1. \/ Put(<<c, s>>, Empty, None, {}, {}) /\ Cut(c)
        \/ \E lost \in SUBSET Conns :
             Put(<<c, s>>, what, t, {<<c, s>>}, lost) /\ Enqueue(lost)
    BY <1>20 DEF PushStarted
  <2>2. what.kind # "in"
    BY DEF OutStream
  <2> HIDE DEF what, t
  <2>3. UNCHANGED role /\ (Cut(c) \/ \E lost \in SUBSET Conns : Enqueue(lost))
    BY <2>1 DEF Put
  <2>4. FreeHaveNoRole'
    BY <1>1, <2>3, HandlersFreeNone, RolesFollow
  <2>5. QED
    BY <1>2, <1>3, <2>1, <2>2, <2>4, PutNames DEF NamesInv
<1>21. QED
  BY <1>4, <1>5, <1>6, <1>7, <1>8, <1>9, <1>10, <1>11, <1>12, <1>13, <1>14,
     <1>15, <1>16, <1>17, <1>18, <1>19, <1>20 DEF Next

\* Two streams are published under one name only where the application allows
\* duplicates, and only when one of them was pulled or came over RTSP
\* (StreamNameAvailable, the override of ProcessInvokePublish), for any number
\* of connections, slots and names.
THEOREM NamesAreUnique == Spec => []PublishedNamesUnique
<1>1. Init => NamesInv
  <2>1. Init => FreeHaveNoRole /\ TsFromRtsp /\ PublishedNamesUnique
    BY DEF Init, FreeHaveNoRole, TsFromRtsp, PublishedNamesUnique
  <2>2. QED
    BY <2>1, StreamInit DEF NamesInv
<1>2. NamesInv /\ [Next]_vars => NamesInv'
  BY NamesNext
<1>3. NamesInv => PublishedNamesUnique
  BY DEF NamesInv
<1>4. QED
  BY <1>1, <1>2, <1>3, PTL DEF Spec

-----------------------------------------------------------------------------
(* New streams meet. *)

\* What NewStreamsMeet says of a step.
Meet ==
  \A p, q \in Places :
    /\ Matching(p, q)'
    /\ streams'[p].type = streams'[q].type
    /\ Made(p) \/ Made(q)
    => feeder'[q] # None

\* A pair that is made in a step is made by what the step writes.
LEMMA MadeIsWritten ==
  ASSUME StreamInv, NEW new, NEW src, NEW outs, NEW lost,
         DOMAIN new \subseteq Places, Rewrite(new, src, outs, lost),
         NEW p \in Places, Made(p)
  PROVE  p \in DOMAIN new /\ streams'[p] = new[p]
<1>1. p \in registered' /\ streams'[p] # streams[p]
  BY DEF Made
<1>2. registered \subseteq Places
  BY DEF StreamInv, TypeOK
<1>3. QED
  BY <1>1, <1>2, RegisteredAfter

\* Nothing meets where no publisher and no player is written.
LEMMA NothingMeets ==
  ASSUME StreamInv, NEW new, NEW src, NEW outs, NEW lost,
         DOMAIN new \subseteq Places, Rewrite(new, src, outs, lost),
         \A p \in DOMAIN new : new[p].kind \notin {"in", "out"}
  PROVE  Meet
<1>1. SUFFICES ASSUME NEW p \in Places, NEW q \in Places, Matching(p, q)',
                      Made(p) \/ Made(q)
               PROVE  FALSE
  BY DEF Meet
<1>2. streams'[p].kind = "in" /\ streams'[q].kind = "out"
  BY <1>1 DEF Matching, IsKind
<1>3. CASE Made(p)
  BY <1>2, <1>3, MadeIsWritten
<1>4. CASE Made(q)
  BY <1>2, <1>4, MadeIsWritten
<1>5. QED
  BY <1>1, <1>3, <1>4

\* A player that is linked when it is made has met its publisher.
LEMMA LinkedPlayerMeets ==
  ASSUME StreamInv, NEW new, NEW src, NEW outs, NEW lost,
         DOMAIN new \subseteq Places, Rewrite(new, src, outs, lost),
         DOMAIN new \subseteq outs, src # None,
         \A p \in DOMAIN new : new[p].kind # "in"
  PROVE  Meet
<1>1. SUFFICES ASSUME NEW p \in Places, NEW q \in Places, Matching(p, q)',
                      Made(p) \/ Made(q)
               PROVE  feeder'[q] # None
  BY DEF Meet
<1>2. streams'[p].kind = "in"
  BY <1>1 DEF Matching, IsKind
<1>3. ~Made(p)
  BY <1>2, MadeIsWritten
<1>4. q \in outs
  BY <1>1, <1>3, MadeIsWritten
<1>5. QED
  BY <1>4 DEF Rewrite

\* A publisher links every player of its name and type that is linked to
\* nothing, or to a publisher it replaces.
LEMMA PublisherMeets ==
  ASSUME StreamInv, NEW n \in Names, NEW t \in Types, NEW new,
         NEW p \in DOMAIN new, DOMAIN new \subseteq Places,
         Rewrite(new, p, Waiting(n, t, DOMAIN new), {}),
         new[p] = InStream(n, t),
         \A q \in DOMAIN new \ {p} : new[q].kind \notin {"in", "out"}
  PROVE  Meet
<1> DEFINE outs == Waiting(n, t, DOMAIN new)
<1>1. SUFFICES ASSUME NEW o \in Places, NEW q \in Places, Matching(o, q)',
                      streams'[o].type = streams'[q].type,
                      Made(o) \/ Made(q)
               PROVE  feeder'[q] # None
  BY DEF Meet
<1>2. /\ streams'[o].kind = "in" /\ streams'[q].kind = "out"
      /\ streams'[o].name = streams'[q].name /\ q \in registered'
  BY <1>1 DEF Matching, IsKind
<1>3. InStream(n, t).kind = "in" /\ InStream(n, t).name = n /\ InStream(n, t).type = t
  BY DEF InStream
<1>4. ~Made(q)
  BY <1>2, <1>3, MadeIsWritten
<1>5. o = p /\ streams'[o] = InStream(n, t)
  BY <1>1, <1>2, <1>4, MadeIsWritten
<1>6. q \notin DOMAIN new /\ q \in registered /\ streams'[q] = streams[q]
  <2>1. registered \subseteq Places
    BY DEF StreamInv, TypeOK
  <2>2. QED
    BY <1>2, <1>3, <2>1, RegisteredAfter
<1>7. CASE feeder[q] \in DOMAIN new \cup {None}
  <2>1. q \in outs
    BY <1>1, <1>2, <1>3, <1>5, <1>6, <1>7 DEF Waiting, IsKind
  <2>2. feeder'[q] = p
    BY <2>1 DEF Rewrite
  <2>3. QED
    BY <2>2, ParametersAssumption
<1>8. CASE feeder[q] \notin DOMAIN new \cup {None}
  <2>1. q \notin outs
    BY <1>8 DEF Waiting
  <2>2. feeder'[q] = feeder[q]
    BY <1>6, <1>8, <2>1 DEF Rewrite
  <2>3. QED
    BY <1>8, <2>2
<1>9. QED
  BY <1>7, <1>8

\* A player that waits has found no publisher.
LEMMA WaitingPlayerMeets ==
  ASSUME StreamInv, NEW c \in Conns, NEW s \in Slots, NEW n \in Names,
         PlayWait(c, s, n)
  PROVE  Meet
<1> DEFINE x == <<c, s>>
           new == [q \in {x} |-> OutStream(n, "rtmp")]
<1>1. /\ Rewrite(new, None, {}, {}) /\ Sources(n, x) = {}
      /\ DOMAIN new = {x} /\ new[x] = OutStream(n, "rtmp") /\ x \in Places
  BY DEF PlayWait, Put, Places
<1>2. OutStream(n, "rtmp").kind = "out" /\ OutStream(n, "rtmp").name = n
  BY DEF OutStream
<1> HIDE DEF new, x
<1>3. SUFFICES ASSUME NEW p \in Places, NEW q \in Places, Matching(p, q)',
                      Made(p) \/ Made(q)
               PROVE  FALSE
  BY DEF Meet
<1>4. /\ streams'[p].kind = "in" /\ streams'[p].name = streams'[q].name
      /\ p \in registered'
  BY <1>3 DEF Matching, IsKind
<1>5. ~Made(p)
  BY <1>1, <1>2, <1>4, MadeIsWritten
<1>6. streams'[q] = OutStream(n, "rtmp")
  BY <1>1, <1>3, <1>5, MadeIsWritten
<1>7. p # x /\ p \in registered /\ streams'[p] = streams[p]
  <2>1. registered \subseteq Places
    BY DEF StreamInv, TypeOK
  <2>2. QED
    BY <1>1, <1>2, <1>4, <2>1, RegisteredAfter
<1>8. p \in Publishers(n) \ {x}
  BY <1>2, <1>4, <1>6, <1>7 DEF Publishers, IsKind
<1>9. QED
  BY <1>1, <1>8 DEF Sources

LEMMA NothingPutMeets ==
  ASSUME StreamInv, NEW c \in Conns, NEW s \in Slots, NEW what, NEW lost,
         Put(<<c, s>>, what, None, {}, lost), what.kind \notin {"in", "out"}
  PROVE  Meet
<1> DEFINE new == [q \in {<<c, s>>} |-> what]
<1>1. /\ DOMAIN new \subseteq Places /\ Rewrite(new, None, {}, lost)
      /\ \A q \in DOMAIN new : new[q].kind \notin {"in", "out"}
  BY DEF Places, Put
<1> HIDE DEF new
<1>2. QED
  BY <1>1, NothingMeets

LEMMA PlayerPutMeets ==
  ASSUME StreamInv, NEW c \in Conns, NEW s \in Slots, NEW what, NEW src,
         NEW lost, Put(<<c, s>>, what, src, {<<c, s>>}, lost),
         src # None, what.kind # "in"
  PROVE  Meet
<1> DEFINE new == [q \in {<<c, s>>} |-> what]
<1>1. /\ DOMAIN new \subseteq Places /\ Rewrite(new, src, {<<c, s>>}, lost)
      /\ DOMAIN new \subseteq {<<c, s>>}
      /\ \A q \in DOMAIN new : new[q].kind # "in"
  BY DEF Places, Put
<1> HIDE DEF new
<1>2. QED
  BY <1>1, LinkedPlayerMeets

LEMMA PublisherPutMeets ==
  ASSUME StreamInv, NEW c \in Conns, NEW s \in Slots, NEW n \in Names,
         NEW t \in Types,
         Put(<<c, s>>, InStream(n, t), <<c, s>>, Waiting(n, t, {<<c, s>>}), {})
  PROVE  Meet
<1> DEFINE x == <<c, s>>
           new == [q \in {x} |-> InStream(n, t)]
<1>1. /\ DOMAIN new = {x} /\ x \in Places /\ new[x] = InStream(n, t)
      /\ Rewrite(new, x, Waiting(n, t, {x}), {})
  BY DEF Places, Put
<1> HIDE DEF new, x
<1>2. QED
  BY <1>1, PublisherMeets

LEMMA PublishMeets ==
  ASSUME StreamInv, NEW c \in Conns, NEW s \in Slots, NEW n \in Names,
         Publish(c, s, n)
  PROVE  Meet
<1> DEFINE x == <<c, s>>
           closed == Overridden(n)
           D == closed \cup {x}
           new == [q \in D |-> IF q = x THEN InStream(n, "rtmp") ELSE Neutral]
           gone == [q \in closed |-> Neutral]
<1>1. x \in Places /\ closed \subseteq Places
  BY DEF Places, Overridden, Publishers, StreamInv, TypeOK
<1>2. Neutral.kind \notin {"in", "out"} /\ "rtmp" \in Types
  BY DEF Neutral, Types
<1>3. CASE Rewrite(new, x, Waiting(n, "rtmp", D), {})
  <2>1. /\ DOMAIN new = D /\ x \in D /\ D \subseteq Places
        /\ new[x] = InStream(n, "rtmp")
        /\ \A q \in D \ {x} : new[q].kind \notin {"in", "out"}
    BY <1>1, <1>2
  <2> HIDE DEF new, D, x
  <2>2. QED
    BY <1>2, <1>3, <2>1, PublisherMeets
<1>4. CASE Rewrite(gone, None, {}, {})
  <2>1. DOMAIN gone = closed /\ \A q \in closed : gone[q].kind \notin {"in", "out"}
    BY <1>2
  <2> HIDE DEF gone
  <2>2. QED
    BY <1>1, <1>4, <2>1, NothingMeets
<1>5. QED
  BY <1>3, <1>4 DEF Publish

LEMMA CleanupMeets ==
  ASSUME StreamInv, Cleanup
  PROVE  Meet
<1> DEFINE D == {c \in Conns : conn[c] \in {"cut", "dead"}}
           new == [p \in PlacesOf(D) |-> Empty]
<1>1. /\ DOMAIN new \subseteq Places /\ Rewrite(new, None, {}, D)
      /\ \A p \in DOMAIN new : new[p].kind \notin {"in", "out"}
  BY DEF PlacesOf, Places, Empty, Cleanup
<1> HIDE DEF new, D
<1>2. QED
  BY <1>1, NothingMeets

\* Whatever a step does, the streams it makes have met.
LEMMA MeetNext == StreamInv /\ [Next]_vars => Meet
<1> SUFFICES ASSUME StreamInv, [Next]_vars PROVE Meet
  OBVIOUS
<1>1. /\ Empty.kind \notin {"in", "out"} /\ Neutral.kind \notin {"in", "out"}
      /\ \A n, t : OutStream(n, t).kind # "in"
      /\ None # File /\ None \notin Places
  BY ParametersAssumption DEF Empty, Neutral, OutStream
<1>2. CASE UNCHANGED streams
  BY <1>2 DEF Meet, Made
<1>3. ASSUME UNCHANGED vars PROVE Meet
  BY <1>2, <1>3 DEF vars
<1>4. ASSUME NEW c \in Conns, NEW r \in Roles, NEW t \in registered \cup {None},
             Connect(c, r, t)
      PROVE  Meet
  BY <1>2, <1>4 DEF Connect
<1>5. ASSUME NEW c \in Conns, Lose(c) PROVE Meet
  BY <1>2, <1>5 DEF Lose
<1>6. ASSUME NEW c \in Conns, CreateStream(c) PROVE Meet
  BY <1>6, <1>1, NothingPutMeets DEF CreateStream
<1>7. ASSUME NEW c \in Conns, NEW s \in Slots, CreateStreamResult(c, s) PROVE Meet
  BY <1>7, <1>1, NothingPutMeets DEF CreateStreamResult
<1>8. ASSUME NEW c \in Conns, NEW s \in Slots, NEW what \in {Neutral, Empty},
             CloseStream(c, s, what)
      PROVE  Meet
  BY <1>8, <1>1, NothingPutMeets DEF CloseStream
<1>9. ASSUME NEW c \in Conns, NEW s \in Slots, NEW n \in Names,
             PullStarted(c, s, n)
      PROVE  Meet
  BY <1>9, PublisherPutMeets DEF PullStarted, Types
<1>10. ASSUME NEW c \in Conns, NEW n \in Names, Announce(c, n) PROVE Meet
  <2>1. 1 \in Slots /\ "ts" \in Types
    BY ParametersAssumption DEF Slots, Types
  <2>2. Put(<<c, 1>>, InStream(n, "ts"), <<c, 1>>, Waiting(n, "ts", {<<c, 1>>}), {})
    BY <1>10 DEF Announce
  <2>3. QED
    BY <2>1, <2>2, PublisherPutMeets
<1>11. ASSUME NEW p \in Places, NEW lost, Feed(p, lost) PROVE Meet
  BY <1>2, <1>11 DEF Feed
<1>12. ASSUME NEW c \in Conns, NEW s \in Slots, NEW n \in Names,
              NEW src \in registered, PlayLive(c, s, n, src)
       PROVE  Meet
  <2>1. \E lost : Put(<<c, s>>, OutStream(n, streams[src].type), src, {<<c, s>>}, lost)
    BY <1>12 DEF PlayLive
  <2>2. src # None
    BY <1>1 DEF StreamInv, TypeOK
  <2>3. QED
    BY <1>1, <2>1, <2>2, PlayerPutMeets
<1>13. ASSUME NEW c \in Conns, NEW s \in Slots, NEW n \in Names, PlayFile(c, s, n)
       PROVE  Meet
  <2>1. Put(<<c, s>>, OutStream(n, "rtmp"), File, {<<c, s>>}, {})
    BY <1>13 DEF PlayFile
  <2>2. QED
    BY <1>1, <2>1, PlayerPutMeets
<1>14. ASSUME NEW c \in Conns, NEW s \in Slots, PlayMissing(c, s) PROVE Meet
  <2> DEFINE what == IF streams[<<c, s>>] = Empty THEN Empty ELSE Neutral
  <2>1. Put(<<c, s>>, what, None, {}, {}) /\ what.kind \notin {"in", "out"}
    BY <1>14, <1>1 DEF PlayMissing
  <2> HIDE DEF what
  <2>2. QED
    BY <2>1, NothingPutMeets
<1>15. ASSUME NEW c \in Conns, NEW s \in Slots, PlayWithoutChannels(c, s) PROVE Meet
  BY <1>15, <1>1, NothingPutMeets DEF PlayWithoutChannels
<1>16. ASSUME NEW c \in Conns, NEW s \in Slots, PushStarted(c, s) PROVE Meet
  <2> DEFINE t == target[c]
             what == OutStream(streams[t].name, streams[t].type)
  <2>1. \/ Put(<<c, s>>, Empty, None, {}, {})
        \/ \E lost : Put(<<c, s>>, what, t, {<<c, s>>}, lost)
    BY <1>16 DEF PushStarted
  <2>2. t # None /\ what.kind # "in"
    BY <1>16, <1>1 DEF PushStarted, StreamInv, TypeOK
  <2> HIDE DEF what, t
  <2>3. QED
    BY <1>1, <2>1, <2>2, NothingPutMeets, PlayerPutMeets
<1>17. QED
  BY <1>3, <1>4, <1>5, <1>6, <1>7, <1>8, <1>9, <1>10, <1>11, <1>12, <1>13,
     <1>14, <1>15, <1>16, CleanupMeets, PublishMeets, WaitingPlayerMeets
  DEF Next

\* No publish and no play leaves a player waiting beside a publisher of its name
\* and type, whatever was closed or overridden on the way
\* (GetWaitingSubscribers, TryLinkToLiveStream).
THEOREM StreamsMeet == Spec => NewStreamsMeet
<1>1. StreamInv /\ [Next]_vars => [Meet]_vars
  BY MeetNext
<1>2. QED
  BY <1>1, StreamInvariant, PTL DEF Spec, NewStreamsMeet, Meet
=============================================================================
