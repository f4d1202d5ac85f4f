----------------------------- MODULE ReactorProofs -----------------------------
(***************************************************************************)
(* Proofs about the epoll reactor: tokens and handlers name each other, no *)
(* event reaches a handler that took a token over, no handler closes the   *)
(* descriptor of another, and what the epoll set holds when the reactor    *)
(* waits is what the handlers believe.                                     *)
(***************************************************************************)
EXTENDS Reactor, TLAPS, WellFoundedInduction

-----------------------------------------------------------------------------
(* Shapes *)

Kinds == {"none", "acceptor", "carrier", "connector", "udp", "timer"}

Handlers == [kind : Kinds, fd : Int, token : Nat, writes : BOOLEAN,
             closes : BOOLEAN, prot : {"none", "live", "dead"}]

Worlds == [handler : [Slots -> Handlers], dead : SUBSET Slots,
           epoll : [Descriptors -> [token : Nat, out : BOOLEAN]],
           owner : [Descriptors -> Slots \cup {Free, Lost, File}],
           payload : [Tokens -> Slots \cup {New, Invalid}],
           vectors : [1 .. 2 -> Seq(Tokens)],
           collided : BOOLEAN, stolen : BOOLEAN]

ReactorTyped == World \in Worlds /\ fresh \in 1 .. 2

LEMMA SettledTyped ==
  ASSUME NEW w \in Worlds, Settle(w), ReactorTyped
  PROVE  ReactorTyped' /\ World' = w
<1>1. World' = w
  BY DEF Settle, World, Worlds
<1> QED
  BY <1>1 DEF ReactorTyped, Settle

-----------------------------------------------------------------------------
(* What the operations on a world do *)

LEMMA SetsHandler ==
  ASSUME NEW w \in Worlds, NEW h \in Slots, NEW hd \in Handlers
  PROVE  LET x == [w EXCEPT !.handler[h] = hd]
         IN  /\ x \in Worlds
             /\ x.handler = [w.handler EXCEPT ![h] = hd]
             /\ x.dead = w.dead /\ x.epoll = w.epoll /\ x.owner = w.owner
             /\ x.payload = w.payload /\ x.vectors = w.vectors
             /\ x.collided = w.collided /\ x.stolen = w.stolen
  BY DEF Worlds

LEMMA AddAdds ==
  ASSUME NEW w \in Worlds, NEW h \in Slots, NEW out \in BOOLEAN,
         w.handler[h].fd \in Descriptors,
         w.epoll[w.handler[h].fd] = Unregistered
  PROVE  LET x == Add(w, h, out)
         IN  /\ x \in Worlds
             /\ x.epoll = [w.epoll EXCEPT ![w.handler[h].fd] =
                             [token |-> w.handler[h].token, out |-> out]]
             /\ x.handler = w.handler /\ x.dead = w.dead /\ x.owner = w.owner
             /\ x.payload = w.payload /\ x.vectors = w.vectors
             /\ x.collided = w.collided /\ x.stolen = w.stolen
<1> DEFINE entry == [token |-> w.handler[h].token, out |-> out]
           x == [w EXCEPT !.epoll[w.handler[h].fd] = entry]
<1>1. Add(w, h, out) = x
  BY DEF Add, IsRegistered
<1>2. entry \in [token : Nat, out : BOOLEAN]
  BY DEF Worlds, Handlers
<1> HIDE DEF entry
<1>3. /\ x \in Worlds
      /\ x.epoll = [w.epoll EXCEPT ![w.handler[h].fd] = entry]
      /\ x.handler = w.handler /\ x.dead = w.dead /\ x.owner = w.owner
      /\ x.payload = w.payload /\ x.vectors = w.vectors
      /\ x.collided = w.collided /\ x.stolen = w.stolen
  BY <1>2 DEF Worlds
<1> QED
  BY <1>1, <1>3 DEF entry

\* Modify changes the entry, if there is one.
LEMMA ModifyModifies ==
  ASSUME NEW w \in Worlds, NEW h \in Slots, NEW out \in BOOLEAN
  PROVE  LET x == Modify(w, h, out)
             fd == w.handler[h].fd
         IN  /\ x \in Worlds
             /\ x.epoll =
                  IF fd \in Descriptors /\ w.epoll[fd] # Unregistered
                  THEN [w.epoll EXCEPT ![fd] =
                          [token |-> w.handler[h].token, out |-> out]]
                  ELSE w.epoll
             /\ x.handler = w.handler /\ x.dead = w.dead /\ x.owner = w.owner
             /\ x.payload = w.payload /\ x.vectors = w.vectors
             /\ x.collided = w.collided /\ x.stolen = w.stolen
<1> DEFINE fd == w.handler[h].fd
           entry == [token |-> w.handler[h].token, out |-> out]
           x == [w EXCEPT !.epoll[fd] = entry]
<1>1. CASE IsRegistered(w, fd)
  <2>1. Modify(w, h, out) = x
    BY <1>1 DEF Modify
  <2>2. entry \in [token : Nat, out : BOOLEAN]
    BY DEF Worlds, Handlers
  <2> HIDE DEF entry
  <2>3. /\ x \in Worlds
        /\ x.epoll = [w.epoll EXCEPT ![fd] = entry]
        /\ x.handler = w.handler /\ x.dead = w.dead /\ x.owner = w.owner
        /\ x.payload = w.payload /\ x.vectors = w.vectors
        /\ x.collided = w.collided /\ x.stolen = w.stolen
    BY <2>2 DEF Worlds
  <2> QED
    BY <1>1, <2>1, <2>3 DEF entry, IsRegistered
<1>2. CASE ~IsRegistered(w, fd)
  BY <1>2 DEF Modify, IsRegistered
<1> QED
  BY <1>1, <1>2

LEMMA EnqueueEnqueues ==
  ASSUME NEW w \in Worlds, NEW h \in Slots
  PROVE  LET x == EnqueueHandler(w, h)
             fd == w.handler[h].fd
         IN  /\ x \in Worlds
             /\ x.dead = w.dead \cup {h}
             /\ x.epoll = [w.epoll EXCEPT ![fd] = Unregistered]
             /\ x.collided = IF w.handler[h].kind = "timer" /\ IsRegistered(w, fd)
                             THEN TRUE ELSE w.collided
             /\ x.handler = w.handler /\ x.owner = w.owner
             /\ x.payload = w.payload /\ x.vectors = w.vectors
             /\ x.stolen = w.stolen
<1> DEFINE fd == w.handler[h].fd
           y == IF IsRegistered(w, fd)
                THEN [w EXCEPT !.epoll[fd] = Unregistered] ELSE w
<1>1. Unregistered \in [token : Nat, out : BOOLEAN]
  BY DEF Unregistered, NoToken
<1>2. /\ y \in Worlds /\ y.dead = w.dead /\ y.collided = w.collided
      /\ y.handler = w.handler /\ y.owner = w.owner
      /\ y.payload = w.payload /\ y.vectors = w.vectors
      /\ y.stolen = w.stolen
  BY <1>1 DEF Worlds
<1>3. y.epoll = [w.epoll EXCEPT ![fd] = Unregistered]
  BY <1>1 DEF Worlds, IsRegistered
<1> DEFINE b == IF w.handler[h].kind = "timer" /\ IsRegistered(w, fd)
                THEN TRUE ELSE w.collided
           c == y.collided \/ (w.handler[h].kind = "timer"
                               /\ IsRegistered(w, fd))
           x == [y EXCEPT !.dead = y.dead \cup {h}, !.collided = c]
<1>4. EnqueueHandler(w, h) = x
  BY DEF EnqueueHandler
<1>5. b \in BOOLEAN /\ c = b
  BY <1>2 DEF Worlds
<1> HIDE DEF y, b, c
<1>6. /\ x \in Worlds /\ x.dead = w.dead \cup {h} /\ x.collided = b
      /\ x.epoll = y.epoll /\ x.handler = y.handler /\ x.owner = y.owner
      /\ x.payload = y.payload /\ x.vectors = y.vectors /\ x.stolen = y.stolen
  BY <1>2, <1>5 DEF Worlds
<1> QED
  BY <1>2, <1>3, <1>4, <1>6 DEF b

\* The interest in writing: believed, and put in the epoll set if it can be.
LEMMA WritesToggle ==
  ASSUME NEW w \in Worlds, NEW h \in Slots, NEW out \in BOOLEAN
  PROVE  LET x == Modify([w EXCEPT !.handler[h].writes = out], h, out)
             fd == w.handler[h].fd
         IN  /\ x \in Worlds
             /\ x.handler = [w.handler EXCEPT ![h] = [@ EXCEPT !.writes = out]]
             /\ x.epoll =
                  IF fd \in Descriptors /\ w.epoll[fd] # Unregistered
                  THEN [w.epoll EXCEPT ![fd] =
                          [token |-> w.handler[h].token, out |-> out]]
                  ELSE w.epoll
             /\ x.dead = w.dead /\ x.owner = w.owner
             /\ x.payload = w.payload /\ x.vectors = w.vectors
             /\ x.collided = w.collided /\ x.stolen = w.stolen
<1> DEFINE hd == [w.handler[h] EXCEPT !.writes = out]
           y == [w EXCEPT !.handler[h] = hd]
<1>1. hd \in Handlers /\ hd.fd = w.handler[h].fd /\ hd.token = w.handler[h].token
  <2> DEFINE was == w.handler[h]
  <2>1. was \in Handlers
    BY DEF Worlds
  <2> HIDE DEF was
  <2>2. /\ [was EXCEPT !.writes = out] \in Handlers
        /\ [was EXCEPT !.writes = out].fd = was.fd
        /\ [was EXCEPT !.writes = out].token = was.token
    BY <2>1 DEF Handlers
  <2> QED
    BY <2>2 DEF was
<1>2. y = [w EXCEPT !.handler[h].writes = out]
  OBVIOUS
<1> HIDE DEF hd
<1>3. /\ y \in Worlds
      /\ y.handler = [w.handler EXCEPT ![h] = hd]
      /\ y.dead = w.dead /\ y.epoll = w.epoll /\ y.owner = w.owner
      /\ y.payload = w.payload /\ y.vectors = w.vectors
      /\ y.collided = w.collided /\ y.stolen = w.stolen
  BY <1>1, SetsHandler
<1>4. y.handler[h] = hd
  BY <1>3 DEF Worlds
<1> HIDE DEF y
<1> DEFINE x == Modify(y, h, out)
<1>5. /\ x \in Worlds
      /\ x.epoll =
           IF y.handler[h].fd \in Descriptors
              /\ y.epoll[y.handler[h].fd] # Unregistered
           THEN [y.epoll EXCEPT ![y.handler[h].fd] =
                   [token |-> y.handler[h].token, out |-> out]]
           ELSE y.epoll
      /\ x.handler = y.handler /\ x.dead = y.dead /\ x.owner = y.owner
      /\ x.payload = y.payload /\ x.vectors = y.vectors
      /\ x.collided = y.collided /\ x.stolen = y.stolen
  BY <1>3, ModifyModifies
<1> HIDE DEF x
<1>6. x = Modify([w EXCEPT !.handler[h].writes = out], h, out)
  BY <1>2 DEF x
<1>7. x.handler = [w.handler EXCEPT ![h] = [@ EXCEPT !.writes = out]]
  BY <1>3, <1>5 DEF hd
<1> QED
  BY <1>1, <1>3, <1>4, <1>5, <1>6, <1>7

LEMMA DestroyDestroys ==
  ASSUME NEW w \in Worlds, fresh \in 1 .. 2, NEW h \in Slots,
         w.handler[h].token \in Tokens
  PROVE  LET x == Destroy(w, h)
             fd == w.handler[h].fd
             t == w.handler[h].token
         IN  /\ x \in Worlds
             /\ x.handler = [w.handler EXCEPT ![h] = NoHandler]
             /\ x.dead = w.dead \ {h}
             /\ x.payload = [w.payload EXCEPT ![t] = Invalid]
             /\ x.vectors = [w.vectors EXCEPT ![3 - fresh] = Append(@, t)]
             /\ x.collided = w.collided
             /\ IF w.handler[h].closes
                THEN /\ x.epoll = [w.epoll EXCEPT ![fd] = Unregistered]
                     /\ x.owner = [w.owner EXCEPT ![fd] = Free]
                     /\ w.owner[fd] \in {h, Free} => x.stolen = w.stolen
                ELSE x.epoll = w.epoll /\ x.owner = w.owner /\ x.stolen = w.stolen
<1> DEFINE hd == w.handler[h]
           fd == hd.fd
           t == hd.token
           y == IF hd.closes THEN CloseSocket(w, h) ELSE w
<1>1. /\ Unregistered \in [token : Nat, out : BOOLEAN]
      /\ NoHandler \in Handlers
  BY DEF Unregistered, NoToken, NoHandler, NoFd, Handlers, Kinds
<1>2. /\ y \in Worlds /\ y.handler = w.handler /\ y.dead = w.dead
      /\ y.payload = w.payload /\ y.vectors = w.vectors
      /\ y.collided = w.collided
      /\ IF hd.closes
         THEN /\ y.epoll = [w.epoll EXCEPT ![fd] = Unregistered]
              /\ y.owner = [w.owner EXCEPT ![fd] = Free]
              /\ w.owner[fd] \in {h, Free} => y.stolen = w.stolen
         ELSE y.epoll = w.epoll /\ y.owner = w.owner /\ y.stolen = w.stolen
  <2>1. CASE ~hd.closes
    BY <2>1
  <2>2. CASE hd.closes
    <3> DEFINE b == IF w.owner[fd] \notin {h, Free} THEN TRUE ELSE w.stolen
               c == w.stolen \/ w.owner[fd] \notin {h, Free}
               z == [w EXCEPT !.epoll[fd] = Unregistered, !.owner[fd] = Free,
                              !.stolen = c]
    <3>1. y = z
      BY <2>2 DEF CloseSocket
    <3>2. b \in BOOLEAN /\ c = b
      BY DEF Worlds
    <3> HIDE DEF y, b, c
    <3>3. /\ z \in Worlds /\ z.handler = w.handler /\ z.dead = w.dead
          /\ z.payload = w.payload /\ z.vectors = w.vectors
          /\ z.collided = w.collided /\ z.stolen = b
          /\ z.epoll = [w.epoll EXCEPT ![fd] = Unregistered]
          /\ z.owner = [w.owner EXCEPT ![fd] = Free]
      BY <1>1, <3>2 DEF Worlds
    <3> QED
      BY <2>2, <3>1, <3>3 DEF b
  <2> QED
    BY <2>1, <2>2
<1> HIDE DEF y
<1> DEFINE x == [[y EXCEPT !.payload[t] = Invalid,
                           !.vectors[3 - fresh] = Append(@, t)]
                   EXCEPT !.handler[h] = NoHandler, !.dead = @ \ {h}]
<1>3. Destroy(w, h) = x
  BY <1>2 DEF Destroy, FreeToken, y
<1>4. /\ y.vectors \in [1 .. 2 -> Seq(Tokens)]
      /\ Append(y.vectors[3 - fresh], t) \in Seq(Tokens)
  <2>1. y.vectors \in [1 .. 2 -> Seq(Tokens)] /\ 3 - fresh \in 1 .. 2
    BY <1>2 DEF Worlds
  <2> QED
    BY <2>1
<1>5. /\ x \in Worlds
      /\ x.handler = [y.handler EXCEPT ![h] = NoHandler]
      /\ x.dead = y.dead \ {h}
      /\ x.payload = [y.payload EXCEPT ![t] = Invalid]
      /\ x.vectors = [y.vectors EXCEPT ![3 - fresh] = Append(@, t)]
      /\ x.epoll = y.epoll /\ x.owner = y.owner
      /\ x.collided = y.collided /\ x.stolen = y.stolen
  BY <1>1, <1>2, <1>4 DEF Worlds
<1> HIDE DEF x
<1> QED
  BY <1>2, <1>3, <1>5

-----------------------------------------------------------------------------
(* Tokens *)

\* A handler and its token name each other.
TokensNamed ==
  /\ \A h \in Slots :
       IF handler[h].kind = "none" THEN handler[h].token = NoToken
       ELSE handler[h].token \in Tokens /\ payload[handler[h].token] = h
  /\ \A t \in Tokens : payload[t] \in Slots => handler[payload[t]].token = t

\* The tokens are made one after the other.
MadeInOrder ==
  \A t, u \in Tokens : t < u /\ payload[t] = New => payload[u] = New

\* The two vectors hold the tokens that are invalid, each once.
Pooled ==
  /\ \A t \in Tokens :
       payload[t] = Invalid <=>
         \E v \in 1 .. 2 : \E i \in 1 .. Len(vectors[v]) : vectors[v][i] = t
  /\ \A v, w \in 1 .. 2 :
       \A i \in 1 .. Len(vectors[v]), j \in 1 .. Len(vectors[w]) :
         vectors[v][i] = vectors[w][j] => v = w /\ i = j

TokenInv == ReactorTyped /\ TokensNamed /\ MadeInOrder /\ Pooled

LEMMA Least ==
  ASSUME NEW T, T \subseteq Nat, T # {}
  PROVE  \E x \in T : \A y \in T : x <= y
<1>1. PICK x \in T : \A y \in T : ~ (<<y, x>> \in OpToRel(<, Nat))
  BY WFMin, NatLessThanWellFounded, Zenon
<1>2. \A y \in T : ~(y < x)
  BY <1>1, Zenon DEF OpToRel
<1> QED
  BY <1>2

\* A token is to be had: the first that is available, or the next new one.
LEMMA SetupTokenGives ==
  ASSUME NEW w \in Worlds, w.payload = payload, w.vectors = vectors,
         TokenInv, TokensLeft
  PROVE  /\ SetupToken(w) \in Tokens
         /\ IF vectors[fresh] # <<>>
            THEN /\ SetupToken(w) = vectors[fresh][1]
                 /\ payload[SetupToken(w)] = Invalid
            ELSE /\ payload[SetupToken(w)] = New
                 /\ \A u \in Tokens : u < SetupToken(w) => payload[u] # New
<1>1. vectors[fresh] \in Seq(Tokens) /\ fresh \in 1 .. 2
  BY DEF TokenInv, ReactorTyped, World, Worlds
<1>2. CASE vectors[fresh] # <<>>
  <2>1. SetupToken(w) = vectors[fresh][1] /\ 1 \in 1 .. Len(vectors[fresh])
    BY <1>1, <1>2 DEF SetupToken
  <2>2. vectors[fresh][1] \in Tokens
    BY <1>1, <2>1
  <2>3. payload[vectors[fresh][1]] = Invalid
    BY <1>1, <2>1, <2>2 DEF TokenInv, Pooled
  <2> QED
    BY <1>2, <2>1, <2>2, <2>3
<1>3. CASE vectors[fresh] = <<>>
  <2> DEFINE Made == {t \in Tokens : payload[t] = New}
             P(t) == payload[t] = New /\ \A u \in 1 .. t - 1 : payload[u] # New
  <2>1. MaxTokens \in Made
    BY <1>3, ReactorAssumption DEF TokensLeft, Tokens
  <2>2. PICK t \in Made : \A y \in Made : t <= y
    <3>1. Made \subseteq Nat /\ Made # {}
      BY <2>1 DEF Tokens
    <3> HIDE DEF Made
    <3> QED
      BY <3>1, Least
  <2>3. t \in Tokens /\ P(t)
    BY <2>2, ReactorAssumption DEF Tokens
  <2>4. SetupToken(w) = CHOOSE x \in Tokens : P(x)
    BY <1>3 DEF SetupToken
  <2>5. SetupToken(w) \in Tokens /\ P(SetupToken(w))
    BY <2>3, <2>4, Zenon
  <2> QED
    BY <1>3, <2>5, ReactorAssumption DEF Tokens
<1> QED
  BY <1>2, <1>3

\* A handler that was just made.
NewHandler(kind, fd, t, closes, prot) ==
  [kind |-> kind, fd |-> fd, token |-> t, writes |-> FALSE, closes |-> closes,
   prot |-> prot]

\* The first available token is not available any more.
TokenLeaves == [vectors EXCEPT ![fresh] = IF @ = <<>> THEN <<>> ELSE Tail(@)]

\* An entry of the epoll set, and the interest in writing of a handler.
Entry(t, out) == [token |-> t, out |-> out]
Writing(hd, out) == [hd EXCEPT !.writes = out]

\* What RegisterIOHandler makes of the world w.
IsRegistering(x, w, h, hd, t) ==
  /\ x \in Worlds
  /\ x.handler = [w.handler EXCEPT ![h] = hd]
  /\ x.payload = [payload EXCEPT ![t] = h]
  /\ x.vectors = TokenLeaves
  /\ x.dead = w.dead /\ x.epoll = w.epoll /\ x.owner = w.owner
  /\ x.collided = w.collided /\ x.stolen = w.stolen

\* RegisterIOHandler in a world that was not given a token yet.
LEMMA RegisterRegisters ==
  ASSUME NEW w \in Worlds, w.payload = payload, w.vectors = vectors,
         TokenInv, TokensLeft, NEW h \in Slots, NEW kind \in Kinds,
         NEW fd \in Int, NEW closes \in BOOLEAN, NEW prot \in {"none", "live", "dead"}
  PROVE  IsRegistering(Register(w, h, kind, fd, closes, prot), w, h,
                       NewHandler(kind, fd, SetupToken(w), closes, prot),
                       SetupToken(w))
<1> DEFINE t == SetupToken(w)
           hd == [kind |-> kind, fd |-> fd, token |-> t, writes |-> FALSE,
                  closes |-> closes, prot |-> prot]
           vs == IF vectors[fresh] = <<>> THEN <<>> ELSE Tail(vectors[fresh])
           x == [w EXCEPT !.handler[h] = hd, !.payload[t] = h,
                          !.vectors[fresh] = vs]
<1>1. t \in Tokens
  BY SetupTokenGives
<1>2. hd \in Handlers
  BY <1>1 DEF Handlers, Tokens
<1>3. fresh \in 1 .. 2 /\ vectors[fresh] \in Seq(Tokens)
  BY DEF TokenInv, ReactorTyped, World, Worlds
<1>4. vs \in Seq(Tokens)
  BY <1>3
<1>5. Register(w, h, kind, fd, closes, prot) = x
  BY <1>3 DEF Register, Worlds
<1> HIDE DEF t, hd, vs
<1>6. /\ x \in Worlds
      /\ x.handler = [w.handler EXCEPT ![h] = hd]
      /\ x.payload = [w.payload EXCEPT ![t] = h]
      /\ x.vectors = [w.vectors EXCEPT ![fresh] = vs]
      /\ x.dead = w.dead /\ x.epoll = w.epoll /\ x.owner = w.owner
      /\ x.collided = w.collided /\ x.stolen = w.stolen
  BY <1>1, <1>2, <1>3, <1>4 DEF Worlds
<1> QED
  BY <1>5, <1>6 DEF t, hd, vs, IsRegistering, NewHandler, TokenLeaves

-----------------------------------------------------------------------------
(* Tokens are paired *)

LEMMA TokensStay ==
  ASSUME TokenInv, ReactorTyped',
         \A h \in Slots : /\ handler'[h].token = handler[h].token
                          /\ handler'[h].kind = "none" <=> handler[h].kind = "none",
         payload' = payload, vectors' = vectors
  PROVE  TokenInv'
<1>1. \A h \in Slots : handler[h].kind \in Kinds /\ handler'[h].kind \in Kinds
  BY DEF TokenInv, ReactorTyped, World, Worlds, Handlers
<1>2. payload \in [Tokens -> Slots \cup {New, Invalid}]
  BY DEF TokenInv, ReactorTyped, World, Worlds
<1>3. TokensNamed'
  BY <1>1, <1>2 DEF TokenInv, TokensNamed
<1>4. MadeInOrder'
  BY DEF TokenInv, MadeInOrder
<1>5. Pooled'
  BY DEF TokenInv, Pooled
<1> QED
  BY <1>3, <1>4, <1>5 DEF TokenInv

\* A slot that was free takes the token, which leaves its vector or is made.
LEMMA TokensTaken ==
  ASSUME TokenInv, ReactorTyped', TokensLeft,
         NEW w \in Worlds, w.payload = payload, w.vectors = vectors,
         NEW h \in Slots \ Used,
         handler'[h].token = SetupToken(w), handler'[h].kind # "none",
         \A g \in Slots \ {h} :
           /\ handler'[g].token = handler[g].token
           /\ handler'[g].kind = "none" <=> handler[g].kind = "none",
         payload' = [payload EXCEPT ![SetupToken(w)] = h],
         vectors' = TokenLeaves
  PROVE  TokenInv'
<1> DEFINE t == SetupToken(w)
<1>1. /\ payload \in [Tokens -> Slots \cup {New, Invalid}]
      /\ vectors \in [1 .. 2 -> Seq(Tokens)] /\ fresh \in 1 .. 2
  BY DEF TokenInv, ReactorTyped, World, Worlds
<1>2. /\ t \in Tokens
      /\ IF vectors[fresh] # <<>>
         THEN t = vectors[fresh][1] /\ payload[t] = Invalid
         ELSE /\ payload[t] = New
              /\ \A u \in Tokens : u < t => payload[u] # New
  BY SetupTokenGives
<1> HIDE DEF t
<1>3. payload[t] \notin Slots /\ New \notin Slots /\ Invalid \notin Slots
  BY <1>2, ReactorAssumption DEF New, Invalid
<1>4. handler[h].kind = "none"
  BY DEF Used
<1>5. /\ \A u \in Tokens : payload'[u] = IF u = t THEN h ELSE payload[u]
      /\ handler'[h].token = t
  BY <1>1, <1>2 DEF t
<1>6. TokensNamed'
  <2>1. \A g \in Slots :
          IF handler'[g].kind = "none" THEN handler'[g].token = NoToken
          ELSE handler'[g].token \in Tokens /\ payload'[handler'[g].token] = g
    <3> TAKE g \in Slots
    <3>1. CASE g = h
      BY <3>1, <1>2, <1>5
    <3>2. CASE g # h
      <4>1. handler[g].kind # "none" =>
              handler[g].token \in Tokens /\ payload[handler[g].token] = g
        BY DEF TokenInv, TokensNamed
      <4> QED
        BY <3>2, <4>1, <1>3, <1>5 DEF TokenInv, TokensNamed
    <3> QED
      BY <3>1, <3>2
  <2>2. \A u \in Tokens : payload'[u] \in Slots => handler'[payload'[u]].token = u
    <3> SUFFICES ASSUME NEW u \in Tokens, payload'[u] \in Slots
                 PROVE  handler'[payload'[u]].token = u
      OBVIOUS
    <3>1. CASE u = t
      BY <3>1, <1>5
    <3>2. CASE u # t
      <4>1. payload'[u] = payload[u] /\ handler[payload[u]].token = u
        BY <3>2, <1>5 DEF TokenInv, TokensNamed
      <4>2. payload[u] # h
        BY <4>1, <1>4 DEF TokenInv, TokensNamed, NoToken, Tokens
      <4> QED
        BY <4>1, <4>2
    <3> QED
      BY <3>1, <3>2
  <2> QED
    BY <2>1, <2>2 DEF TokensNamed
<1>7. MadeInOrder'
  <2> SUFFICES ASSUME NEW a \in Tokens, NEW b \in Tokens, a < b,
                      payload'[a] = New
               PROVE  payload'[b] = New
    BY DEF MadeInOrder
  <2>1. a # t /\ payload[a] = New
    BY <1>3, <1>5
  <2>2. payload[b] = New
    BY <2>1 DEF TokenInv, MadeInOrder
  <2>3. b # t
    BY <2>1, <2>2, <1>2 DEF New, Invalid
  <2> QED
    BY <2>2, <2>3, <1>5
\* The vector of the token loses its first element, or there was none.
<1>8. Pooled'
  <2> DEFINE Cut == IF vectors[fresh] = <<>> THEN 0 ELSE 1
  <2>1. \A v \in 1 .. 2 : v # fresh => vectors'[v] = vectors[v]
    BY <1>1 DEF TokenLeaves
  <2>2. /\ vectors'[fresh] \in Seq(Tokens)
        /\ Len(vectors'[fresh]) = Len(vectors[fresh]) - Cut
        /\ \A i \in 1 .. Len(vectors'[fresh]) :
             vectors'[fresh][i] = vectors[fresh][i + Cut]
    <3>1. CASE vectors[fresh] = <<>>
      BY <3>1, <1>1 DEF TokenLeaves
    <3>2. CASE vectors[fresh] # <<>>
      <4>1. vectors'[fresh] = Tail(vectors[fresh])
        BY <3>2, <1>1 DEF TokenLeaves
      <4> QED
        BY <3>2, <4>1, <1>1
    <3> QED
      BY <3>1, <3>2
  <2>3. Cut \in {0, 1} /\ (Cut = 0 <=> vectors[fresh] = <<>>)
    OBVIOUS
  <2> HIDE DEF Cut
  \* Where an element was before.
  <2> DEFINE Was(v, i) == IF v = fresh THEN i + Cut ELSE i
  <2>4. \A v \in 1 .. 2 : \A i \in 1 .. Len(vectors'[v]) :
          /\ Was(v, i) \in 1 .. Len(vectors[v])
          /\ vectors'[v][i] = vectors[v][Was(v, i)]
    BY <1>1, <2>1, <2>2, <2>3
  <2>5. \A v, u \in 1 .. 2 :
          \A i \in 1 .. Len(vectors'[v]), j \in 1 .. Len(vectors'[u]) :
            vectors'[v][i] = vectors'[u][j] => v = u /\ i = j
    <3> SUFFICES ASSUME NEW v \in 1 .. 2, NEW u \in 1 .. 2,
                        NEW i \in 1 .. Len(vectors'[v]),
                        NEW j \in 1 .. Len(vectors'[u]),
                        vectors'[v][i] = vectors'[u][j]
                 PROVE  v = u /\ i = j
      OBVIOUS
    <3> DEFINE a == Was(v, i)
               b == Was(u, j)
    <3>1. /\ a \in 1 .. Len(vectors[v]) /\ b \in 1 .. Len(vectors[u])
          /\ vectors[v][a] = vectors[u][b]
      BY <2>4
    <3> HIDE DEF a, b
    <3>2. v = u /\ a = b
      BY <3>1 DEF TokenInv, Pooled
    <3> QED
      BY <3>2, <2>3 DEF a, b
  <2>6. ASSUME NEW u \in Tokens, payload'[u] = Invalid
        PROVE  \E v \in 1 .. 2 : \E i \in 1 .. Len(vectors'[v]) : vectors'[v][i] = u
    <3>1. u # t /\ payload[u] = Invalid
      BY <2>6, <1>3, <1>5
    <3>2. PICK v \in 1 .. 2 :
            \E i \in 1 .. Len(vectors[v]) : vectors[v][i] = u
      BY <3>1 DEF TokenInv, Pooled
    <3>3. PICK i \in 1 .. Len(vectors[v]) : vectors[v][i] = u
      BY <3>2
    <3>4. CASE v # fresh
      BY <3>3, <3>4, <2>1
    <3>5. CASE v = fresh
      <4>1. vectors[fresh] # <<>>
        BY <3>3, <3>5, <1>1
      <4>2. Cut = 1 /\ i # 1
        BY <4>1, <3>1, <3>3, <3>5, <1>2, <2>3
      <4>3. i - 1 \in 1 .. Len(vectors'[fresh]) /\ vectors'[fresh][i - 1] = u
        BY <4>2, <3>3, <3>5, <1>1, <2>2
      <4> QED
        BY <4>3, <1>1
    <3> QED
      BY <3>4, <3>5
  <2>7. ASSUME NEW u \in Tokens, NEW v \in 1 .. 2,
               NEW i \in 1 .. Len(vectors'[v]), vectors'[v][i] = u
        PROVE  payload'[u] = Invalid
    <3>1. Was(v, i) \in 1 .. Len(vectors[v]) /\ vectors[v][Was(v, i)] = u
      BY <2>4, <2>7
    <3>2. payload[u] = Invalid
      BY <3>1 DEF TokenInv, Pooled
    <3>3. u # t
      <4>1. CASE vectors[fresh] = <<>>
        BY <4>1, <3>2, <1>2 DEF New, Invalid
      <4>2. CASE vectors[fresh] # <<>>
        <5>1. 1 \in 1 .. Len(vectors[fresh])
          BY <4>2, <1>1
        <5>2. ASSUME u = t PROVE v = fresh /\ Was(v, i) = 1
          BY <5>1, <5>2, <3>1, <4>2, <1>1, <1>2 DEF TokenInv, Pooled
        <5> QED
          BY <5>2, <4>2, <2>3
      <4> QED
        BY <4>1, <4>2
    <3> QED
      BY <3>2, <3>3, <1>5
  <2>8. \A u \in Tokens :
          payload'[u] = Invalid <=>
            \E v \in 1 .. 2 : \E i \in 1 .. Len(vectors'[v]) : vectors'[v][i] = u
    <3> DEFINE In(u) == \E v \in 1 .. 2 :
                          \E i \in 1 .. Len(vectors'[v]) : vectors'[v][i] = u
    <3>1. \A u \in Tokens : payload'[u] = Invalid => In(u)
      BY <2>6
    <3>2. \A u \in Tokens : In(u) => payload'[u] = Invalid
      BY <2>7
    <3> HIDE DEF In
    <3>3. \A u \in Tokens : payload'[u] = Invalid <=> In(u)
      BY <3>1, <3>2
    <3> QED
      BY <3>3 DEF In
  <2> QED
    BY <2>5, <2>8, Zenon DEF Pooled
<1> QED
  BY <1>6, <1>7, <1>8 DEF TokenInv

\* A slot is freed, and its token goes to the end of the other vector.
LEMMA TokensFreed ==
  ASSUME TokenInv, ReactorTyped', NEW h \in Used,
         handler'[h] = NoHandler,
         \A g \in Slots \ {h} : handler'[g] = handler[g],
         payload' = [payload EXCEPT ![handler[h].token] = Invalid],
         vectors' = [vectors EXCEPT ![3 - fresh] = Append(@, handler[h].token)]
  PROVE  TokenInv'
<1> DEFINE t == handler[h].token
           o == 3 - fresh
<1>1. /\ payload \in [Tokens -> Slots \cup {New, Invalid}]
      /\ vectors \in [1 .. 2 -> Seq(Tokens)] /\ o \in 1 .. 2
  BY DEF TokenInv, ReactorTyped, World, Worlds
<1>2. t \in Tokens /\ payload[t] = h /\ h \in Slots
  BY DEF TokenInv, TokensNamed, Used
<1>3. Invalid \notin Slots /\ New \notin Slots
  BY ReactorAssumption DEF Invalid, New
<1>4. \A u \in Tokens : payload'[u] = IF u = t THEN Invalid ELSE payload[u]
  BY <1>1, <1>2
<1>5. NoHandler.kind = "none" /\ NoHandler.token = NoToken
  BY DEF NoHandler
<1>6. TokensNamed'
  <2>1. \A g \in Slots :
          IF handler'[g].kind = "none" THEN handler'[g].token = NoToken
          ELSE handler'[g].token \in Tokens /\ payload'[handler'[g].token] = g
    <3> TAKE g \in Slots
    <3>1. CASE g = h
      BY <3>1, <1>5
    <3>2. CASE g # h
      BY <3>2, <1>2, <1>4 DEF TokenInv, TokensNamed
    <3> QED
      BY <3>1, <3>2
  <2>2. \A u \in Tokens : payload'[u] \in Slots => handler'[payload'[u]].token = u
    <3> SUFFICES ASSUME NEW u \in Tokens, payload'[u] \in Slots
                 PROVE  handler'[payload'[u]].token = u
      OBVIOUS
    <3>1. u # t /\ payload'[u] = payload[u]
      BY <1>3, <1>4
    <3>2. handler[payload[u]].token = u
      BY <3>1 DEF TokenInv, TokensNamed
    <3> QED
      BY <3>1, <3>2
  <2> QED
    BY <2>1, <2>2 DEF TokensNamed
<1>7. MadeInOrder'
  <2> SUFFICES ASSUME NEW a \in Tokens, NEW b \in Tokens, a < b,
                      payload'[a] = New
               PROVE  payload'[b] = New
    BY DEF MadeInOrder
  <2>1. payload[a] = New
    BY <1>4 DEF New, Invalid
  <2>2. payload[b] = New
    BY <2>1 DEF TokenInv, MadeInOrder
  <2> QED
    BY <2>2, <1>2, <1>3, <1>4
<1>8. Pooled'
  <2> DEFINE Newest == Len(vectors[o]) + 1
  <2>1. \A v \in 1 .. 2 : v # o => vectors'[v] = vectors[v]
    BY <1>1
  <2>2. vectors'[o] = Append(vectors[o], t)
    BY <1>1
  <2>3. /\ Len(vectors'[o]) = Newest /\ vectors'[o][Newest] = t
        /\ \A i \in 1 .. Len(vectors[o]) : vectors'[o][i] = vectors[o][i]
    BY <2>2, <1>1, <1>2
  <2>4. \A v \in 1 .. 2 : Len(vectors[v]) \in Nat
    BY <1>1
  <2> HIDE DEF o, t
  \* Every other element is where it was, and t was in neither vector.
  <2>5. \A v \in 1 .. 2 : \A i \in 1 .. Len(vectors'[v]) :
          \/ i \in 1 .. Len(vectors[v]) /\ vectors'[v][i] = vectors[v][i]
             /\ vectors'[v][i] # t
          \/ v = o /\ i = Newest /\ vectors'[v][i] = t
    <3> SUFFICES ASSUME NEW v \in 1 .. 2, NEW i \in 1 .. Len(vectors'[v])
                 PROVE  \/ i \in 1 .. Len(vectors[v]) /\ vectors'[v][i] = vectors[v][i]
                           /\ vectors'[v][i] # t
                        \/ v = o /\ i = Newest /\ vectors'[v][i] = t
      OBVIOUS
    <3>1. \/ i \in 1 .. Len(vectors[v]) /\ vectors'[v][i] = vectors[v][i]
          \/ v = o /\ i = Newest /\ vectors'[v][i] = t
      BY <2>1, <2>3, <2>4
    <3>2. i \in 1 .. Len(vectors[v]) => vectors[v][i] # t
      BY <1>2, <1>3 DEF TokenInv, Pooled
    <3> QED
      BY <3>1, <3>2
  <2>6. \A v, u \in 1 .. 2 :
          \A i \in 1 .. Len(vectors'[v]), j \in 1 .. Len(vectors'[u]) :
            vectors'[v][i] = vectors'[u][j] => v = u /\ i = j
    <3> SUFFICES ASSUME NEW v \in 1 .. 2, NEW u \in 1 .. 2,
                        NEW i \in 1 .. Len(vectors'[v]),
                        NEW j \in 1 .. Len(vectors'[u]),
                        vectors'[v][i] = vectors'[u][j]
                 PROVE  v = u /\ i = j
      OBVIOUS
    <3>1. CASE vectors'[v][i] = t
      BY <3>1, <2>5
    <3>2. CASE vectors'[v][i] # t
      <4>1. /\ i \in 1 .. Len(vectors[v]) /\ j \in 1 .. Len(vectors[u])
            /\ vectors[v][i] = vectors[u][j]
        BY <3>2, <2>5
      <4> QED
        BY <4>1 DEF TokenInv, Pooled
    <3> QED
      BY <3>1, <3>2
  <2>7. ASSUME NEW u \in Tokens, payload'[u] = Invalid
        PROVE  \E v \in 1 .. 2 : \E i \in 1 .. Len(vectors'[v]) : vectors'[v][i] = u
    <3>1. CASE u = t
      BY <3>1, <2>3, <2>4, <1>1
    <3>2. CASE u # t
      <4>1. payload[u] = Invalid
        BY <3>2, <2>7, <1>4
      <4>2. PICK v \in 1 .. 2 :
              \E i \in 1 .. Len(vectors[v]) : vectors[v][i] = u
        BY <4>1 DEF TokenInv, Pooled
      <4>3. PICK i \in 1 .. Len(vectors[v]) : vectors[v][i] = u
        BY <4>2
      <4>4. i \in 1 .. Len(vectors'[v]) /\ vectors'[v][i] = u
        BY <4>3, <2>1, <2>3, <2>4
      <4> QED
        BY <4>4
    <3> QED
      BY <3>1, <3>2
  <2>8. ASSUME NEW u \in Tokens, NEW v \in 1 .. 2,
               NEW i \in 1 .. Len(vectors'[v]), vectors'[v][i] = u
        PROVE  payload'[u] = Invalid
    <3>1. CASE u = t
      BY <3>1, <1>4
    <3>2. CASE u # t
      BY <3>2, <2>5, <2>8, <1>4 DEF TokenInv, Pooled
    <3> QED
      BY <3>1, <3>2
  <2> QED
    BY SMTT(30), <2>6, <2>7, <2>8 DEF Pooled
<1> QED
  BY <1>6, <1>7, <1>8 DEF TokenInv

-----------------------------------------------------------------------------
(* Descriptors and the epoll set *)

\* What the kind of a handler says of the rest of it.
KindsHold ==
  /\ deadSlots \subseteq Used
  /\ \A h \in Slots :
       /\ handler[h].kind = "none" => handler[h] = NoHandler
       /\ handler[h].kind \in Sockets => handler[h].fd \in Descriptors
       /\ handler[h].kind \in {"acceptor", "carrier", "udp"} => handler[h].closes
       /\ handler[h].kind = "timer" => ~handler[h].closes
       /\ handler[h].kind = "connector" /\ h \notin deadSlots => ~handler[h].closes
       /\ handler[h].prot # "none" =>
            handler[h].kind \in {"carrier", "udp", "timer"}

\* owner names a handler of that descriptor, and one that will close it: only a
\* connector that was not enqueued yet does not know whether it is to.
OwnersClose ==
  \A d \in Descriptors :
    LET h == owner[d]
    IN  h \in Slots =>
          /\ handler[h].fd = d
          /\ handler[h].kind \in Sockets
          /\ handler[h].closes \/ (handler[h].kind = "connector" /\ h \notin deadSlots)

\* The carrier of a refused connection shares the descriptor of its connector,
\* and closes it once more when the connector has.
SharesWith(h, c) ==
  /\ handler[h].kind = "carrier" /\ handler[h].prot = "dead" /\ h \notin deadSlots
  /\ handler[c].kind = "connector" /\ c \in deadSlots

CloserOwns(h) ==
  LET d == handler[h].fd
  IN  /\ handler[h].closes =>
           \/ owner[d] = h
           \/ owner[d] \in Slots /\ SharesWith(h, owner[d])
           \/ /\ owner[d] = Free /\ step \in {"handlers", "protocols"}
              /\ handler[h].kind = "carrier"
              /\ handler[h].prot = "dead" /\ h \notin deadSlots
      /\ handler[h].kind = "connector" /\ h \notin deadSlots => owner[d] = h

ClosersOwn == \A h \in Slots : CloserOwns(h)

\* The epoll set holds nothing of a closed descriptor, and else sockets of
\* handlers that are not enqueued.
EpollNamed(d) ==
  /\ owner[d] = Free => epoll[d] = Unregistered
  /\ epoll[d] # Unregistered =>
       \E h \in Slots : /\ handler[h].token = epoll[d].token
                        /\ handler[h].fd = d /\ handler[h].kind \in Sockets
                        /\ h \notin deadSlots

EpollNames == \A d \in Descriptors : EpollNamed(d)

\* Until the number of a timer hits a socket, each socket is watched.
SocketWatched(h) ==
  handler[h].kind \in Sockets /\ h \notin deadSlots /\ owner[handler[h].fd] = h =>
    epoll[handler[h].fd] =
      [token |-> handler[h].token,
       out |-> handler[h].writes \/ handler[h].kind = "connector"]

SocketsWatched == ~collided => \A h \in Slots : SocketWatched(h)

\* The events of a pulse are of sockets that nothing happened to in this pulse,
\* one event of each.
BatchHolds ==
  /\ \A e \in batch :
       /\ e.token \in Tokens
       /\ LET h == payload[e.token]
          IN  /\ h \in Slots /\ h \notin deadSlots
              /\ handler[h].kind \in Sockets
              /\ owner[handler[h].fd] = h
  /\ \A e, f \in batch : e.token = f.token => e = f

\* What is empty in which step.
StepsHold ==
  /\ step # "events" => batch = {} /\ ticking = {}
  /\ step \in {"wait", "protocols"} => deadSlots = {}
  /\ \A h \in ticking : h \in Slots /\ handler[h].kind = "timer"

DescriptorInv ==
  /\ KindsHold /\ OwnersClose /\ ClosersOwn /\ EpollNames /\ SocketsWatched
  /\ ~stolen

ReactorInv == TokenInv /\ DescriptorInv /\ BatchHolds /\ StepsHold

LEMMA DescriptorShapes ==
  ASSUME ReactorTyped
  PROVE  /\ handler \in [Slots -> Handlers] /\ deadSlots \subseteq Slots
         /\ epoll \in [Descriptors -> [token : Nat, out : BOOLEAN]]
         /\ owner \in [Descriptors -> Slots \cup {Free, Lost, File}]
         /\ payload \in [Tokens -> Slots \cup {New, Invalid}]
         /\ collided \in BOOLEAN /\ stolen \in BOOLEAN
         /\ Free \notin Slots /\ Lost \notin Slots /\ File \notin Slots
         /\ fresh \in 1 .. 2
  BY ReactorAssumption DEF ReactorTyped, World, Worlds, Free, Lost, File

\* The handlers that the events of a pulse are for are as they were.
LEMMA BatchStays ==
  ASSUME BatchHolds, batch' \subseteq batch,
         \A e \in batch' :
           LET h == payload[e.token]
           IN  /\ payload'[e.token] = h /\ h \notin deadSlots'
               /\ handler'[h].kind = handler[h].kind
               /\ handler'[h].fd = handler[h].fd
               /\ owner'[handler[h].fd] = owner[handler[h].fd]
  PROVE  BatchHolds'
  BY DEF BatchHolds

\* A handler that closes a descriptor, or is to, does so still.
LEMMA CloserStays ==
  ASSUME NEW g \in Slots, CloserOwns(g), step' = step,
         handler'[g].closes => handler[g].closes,
         handler'[g].kind = handler[g].kind, handler'[g].fd = handler[g].fd,
         handler[g].prot = "dead" => handler'[g].prot = "dead",
         g \in deadSlots <=> g \in deadSlots',
         handler[g].closes \/ (handler[g].kind = "connector" /\ g \notin deadSlots) =>
           /\ owner'[handler[g].fd] = owner[handler[g].fd]
           /\ owner[handler[g].fd] \in deadSlots =>
                /\ owner[handler[g].fd] \in deadSlots'
                /\ handler'[owner[handler[g].fd]].kind =
                     handler[owner[handler[g].fd]].kind
  PROVE  CloserOwns(g)'
  BY DEF CloserOwns, SharesWith

\* A handler of the slots is a socket, a timer, or not there.
LEMMA KindsAre ==
  ASSUME ReactorTyped, KindsHold, NEW g \in Slots,
         handler[g].closes \/ handler[g].kind = "connector"
  PROVE  handler[g].kind \in Sockets /\ handler[g].fd \in Descriptors
<1>1. handler[g].kind \in Kinds
  BY DescriptorShapes DEF Handlers
<1> QED
  BY <1>1 DEF KindsHold, Kinds, Sockets, NoHandler

\* A socket is opened on a closed descriptor, and watched.
LEMMA SocketOpened ==
  ASSUME ReactorTyped, DescriptorInv, step = "events", step' = step,
         NEW h \in Slots \ Used, NEW fd \in Descriptors, owner[fd] = Free,
         NEW hd \in Handlers, hd.fd = fd,
         hd.kind \in {"carrier", "udp", "connector"},
         IF hd.kind = "connector" THEN ~hd.closes /\ hd.prot = "none"
         ELSE hd.closes,
         NEW entry,
         entry = [token |-> hd.token, out |-> hd.writes \/ hd.kind = "connector"],
         \A g \in Slots : handler'[g] = IF g = h THEN hd ELSE handler[g],
         \A d \in Descriptors : owner'[d] = IF d = fd THEN h ELSE owner[d],
         \A d \in Descriptors : epoll'[d] = IF d = fd THEN entry ELSE epoll[d],
         deadSlots' = deadSlots, collided' = collided, stolen' = stolen
  PROVE  DescriptorInv'
<1>1. h \in Slots /\ handler[h].kind = "none" /\ h \notin deadSlots
  BY DEF Used, DescriptorInv, KindsHold
<1>2. \A d \in Descriptors : owner[d] # h
  BY <1>1 DEF DescriptorInv, OwnersClose, Sockets
<1>3. KindsHold'
  BY <1>1 DEF DescriptorInv, KindsHold, Used, Sockets
<1>4. OwnersClose'
  BY <1>1, <1>2 DEF DescriptorInv, OwnersClose, Sockets
<1>5. \A g \in Slots : CloserOwns(g)'
  <2> TAKE g \in Slots
  <2>1. CASE g = h
    BY <2>1 DEF CloserOwns
  <2>2. CASE g # h
    <3>1. CloserOwns(g)
      BY DEF DescriptorInv, ClosersOwn
    <3>2. ASSUME handler[g].closes \/ (handler[g].kind = "connector"
                                         /\ g \notin deadSlots)
          PROVE  /\ owner'[handler[g].fd] = owner[handler[g].fd]
                 /\ owner[handler[g].fd] # h
      <4>1. handler[g].fd \in Descriptors
        BY <3>2, KindsAre DEF DescriptorInv
      <4>2. owner[handler[g].fd] # Free
        BY <3>1, <3>2, <2>2, DescriptorShapes DEF CloserOwns
      <4> QED
        BY <4>1, <4>2, <1>2
    <3>3. handler'[g] = handler[g]
      BY <2>2
    <3>4. \A c \in deadSlots : c # h => handler'[c] = handler[c]
      BY DescriptorShapes
    <3> QED
      BY <3>1, <3>2, <3>3, <3>4, CloserStays
  <2> QED
    BY <2>1, <2>2
<1>6. \A d \in Descriptors : EpollNamed(d)'
  <2> TAKE d \in Descriptors
  <2>1. CASE d = fd
    <3>1. owner'[d] # Free
      BY <2>1, <1>1, DescriptorShapes
    <3>2. handler'[h].token = epoll'[d].token /\ handler'[h].fd = d
          /\ handler'[h].kind \in Sockets /\ h \notin deadSlots'
      BY <2>1, <1>1 DEF Sockets
    <3> QED
      BY <3>1, <3>2, <1>1 DEF EpollNamed
  <2>2. CASE d # fd
    <3>1. owner'[d] = owner[d] /\ epoll'[d] = epoll[d] /\ EpollNamed(d)
      BY <2>2 DEF DescriptorInv, EpollNames
    <3>2. \A g \in Slots : handler[g].kind \in Sockets => handler'[g] = handler[g]
      BY <1>1 DEF Sockets
    <3> QED
      BY <3>1, <3>2 DEF EpollNamed
  <2> QED
    BY <2>1, <2>2
<1>7. ASSUME ~collided' PROVE \A g \in Slots : SocketWatched(g)'
  <2> TAKE g \in Slots
  <2>1. CASE g = h
    BY <2>1 DEF SocketWatched
  <2>2. CASE g # h
    BY <1>7, <2>2 DEF DescriptorInv, SocketsWatched, SocketWatched, KindsHold
  <2> QED
    BY <2>1, <2>2
<1> QED
  BY <1>3, <1>4, <1>5, <1>6, <1>7 DEF DescriptorInv, ClosersOwn, EpollNames,
     SocketsWatched

\* A connection that fails at once: its connector has the descriptor to close.
LEMMA SocketFailed ==
  ASSUME ReactorTyped, DescriptorInv, step = "events", step' = step,
         NEW h \in Slots \ Used, NEW fd \in Descriptors, owner[fd] = Free,
         NEW hd \in Handlers, hd.fd = fd, hd.kind = "connector",
         hd.closes, hd.prot = "none",
         \A g \in Slots : handler'[g] = IF g = h THEN hd ELSE handler[g],
         \A d \in Descriptors : owner'[d] = IF d = fd THEN h ELSE owner[d],
         \A d \in Descriptors : epoll'[d] = epoll[d],
         deadSlots' = deadSlots \cup {h}, collided' = collided, stolen' = stolen
  PROVE  DescriptorInv'
<1>1. h \in Slots /\ handler[h].kind = "none" /\ h \notin deadSlots
  BY DEF Used, DescriptorInv, KindsHold
<1>2. \A d \in Descriptors : owner[d] # h
  BY <1>1 DEF DescriptorInv, OwnersClose, Sockets
<1>3. KindsHold'
  BY <1>1 DEF DescriptorInv, KindsHold, Used, Sockets
<1>4. OwnersClose'
  BY <1>1, <1>2 DEF DescriptorInv, OwnersClose, Sockets
<1>5. \A g \in Slots : CloserOwns(g)'
  <2> TAKE g \in Slots
  <2>1. CASE g = h
    BY <2>1 DEF CloserOwns
  <2>2. CASE g # h
    <3>1. CloserOwns(g)
      BY DEF DescriptorInv, ClosersOwn
    <3>2. ASSUME handler[g].closes \/ (handler[g].kind = "connector"
                                         /\ g \notin deadSlots)
          PROVE  /\ owner'[handler[g].fd] = owner[handler[g].fd]
                 /\ owner[handler[g].fd] # h
      <4>1. handler[g].fd \in Descriptors
        BY <3>2, KindsAre DEF DescriptorInv
      <4>2. owner[handler[g].fd] # Free
        BY <3>1, <3>2, <2>2, DescriptorShapes DEF CloserOwns
      <4> QED
        BY <4>1, <4>2, <1>2
    <3>3. handler'[g] = handler[g]
      BY <2>2
    <3>4. \A c \in deadSlots : c # h => handler'[c] = handler[c]
      BY DescriptorShapes
    <3> QED
      BY <2>2, <3>1, <3>2, <3>3, <3>4, CloserStays
  <2> QED
    BY <2>1, <2>2
<1>6. \A d \in Descriptors : EpollNamed(d)'
  <2> TAKE d \in Descriptors
  <2>1. EpollNamed(d) /\ epoll'[d] = epoll[d]
    BY DEF DescriptorInv, EpollNames
  <2>2. \A g \in Slots : handler[g].kind \in Sockets => handler'[g] = handler[g]
                                                       /\ g # h
    BY <1>1 DEF Sockets
  <2>3. owner'[d] = Free => owner[d] = Free
    BY <1>1, DescriptorShapes
  <2> QED
    BY <2>1, <2>2, <2>3 DEF EpollNamed
<1>7. ASSUME ~collided' PROVE \A g \in Slots : SocketWatched(g)'
  <2> TAKE g \in Slots
  <2>1. CASE g = h
    BY <2>1 DEF SocketWatched
  <2>2. CASE g # h
    BY <1>7, <2>2 DEF DescriptorInv, SocketsWatched, SocketWatched, KindsHold
  <2> QED
    BY <2>1, <2>2
<1> QED
  BY <1>3, <1>4, <1>5, <1>6, <1>7 DEF DescriptorInv, ClosersOwn, EpollNames,
     SocketsWatched

\* A timer has a number, and no descriptor.
LEMMA TimerStarted ==
  ASSUME ReactorTyped, DescriptorInv, step' = step,
         NEW h \in Slots \ Used, NEW hd \in Handlers,
         hd.kind = "timer", ~hd.closes,
         \A g \in Slots : handler'[g] = IF g = h THEN hd ELSE handler[g],
         UNCHANGED <<owner, epoll, deadSlots, collided, stolen>>
  PROVE  DescriptorInv'
<1>1. h \in Slots /\ handler[h].kind = "none" /\ h \notin deadSlots
  BY DEF Used, DescriptorInv, KindsHold
<1>2. \A d \in Descriptors : owner[d] # h
  BY <1>1 DEF DescriptorInv, OwnersClose, Sockets
<1>3. KindsHold'
  BY <1>1 DEF DescriptorInv, KindsHold, Used, Sockets
<1>4. OwnersClose'
  BY <1>1, <1>2 DEF DescriptorInv, OwnersClose, Sockets
<1>5. \A g \in Slots : CloserOwns(g)'
  <2> TAKE g \in Slots
  <2>1. CASE g = h
    BY <2>1 DEF CloserOwns
  <2>2. CASE g # h
    <3>1. CloserOwns(g)
      BY DEF DescriptorInv, ClosersOwn
    <3>2. handler'[g] = handler[g]
      BY <2>2
    <3>3. \A c \in deadSlots : handler'[c] = handler[c]
      BY <1>1, DescriptorShapes
    <3> QED
      BY <3>1, <3>2, <3>3, CloserStays
  <2> QED
    BY <2>1, <2>2
<1>6. \A d \in Descriptors : EpollNamed(d)'
  <2> TAKE d \in Descriptors
  <2>1. EpollNamed(d)
    BY DEF DescriptorInv, EpollNames
  <2>2. \A g \in Slots : handler[g].kind \in Sockets => handler'[g] = handler[g]
    BY <1>1 DEF Sockets
  <2> QED
    BY <2>1, <2>2 DEF EpollNamed
<1>7. ASSUME ~collided' PROVE \A g \in Slots : SocketWatched(g)'
  <2> TAKE g \in Slots
  <2>1. CASE g = h
    BY <2>1 DEF SocketWatched, Sockets
  <2>2. CASE g # h
    BY <1>7, <2>2 DEF DescriptorInv, SocketsWatched, SocketWatched
  <2> QED
    BY <2>1, <2>2
<1> QED
  BY <1>3, <1>4, <1>5, <1>6, <1>7 DEF DescriptorInv, ClosersOwn, EpollNames,
     SocketsWatched

\* A socket is enqueued in its own callback: it closes its descriptor when it is
\* deleted, or the descriptor is lost.
LEMMA SocketEnqueued ==
  ASSUME ReactorTyped, DescriptorInv, step' = step,
         NEW h \in Slots \ deadSlots, handler[h].kind \in Sockets,
         owner[handler[h].fd] = h,
         NEW hd, hd.kind = handler[h].kind, hd.fd = handler[h].fd,
         hd.prot = handler[h].prot, hd.closes \in BOOLEAN,
         handler[h].kind # "connector" => hd.closes,
         \A g \in Slots : handler'[g] = IF g = h THEN hd ELSE handler[g],
         \A d \in Descriptors :
           owner'[d] = IF d = handler[h].fd /\ ~hd.closes THEN Lost ELSE owner[d],
         \A d \in Descriptors :
           epoll'[d] = IF d = handler[h].fd THEN Unregistered ELSE epoll[d],
         deadSlots' = deadSlots \cup {h}, collided' = collided, stolen' = stolen
  PROVE  DescriptorInv'
<1>1. handler[h].fd \in Descriptors /\ h \in Used
  BY DEF DescriptorInv, KindsHold, Used, Sockets
<1>2. KindsHold'
  BY <1>1 DEF DescriptorInv, KindsHold, Used, Sockets
<1>3. OwnersClose'
  BY <1>1, DescriptorShapes DEF DescriptorInv, OwnersClose
\* Nobody else owns this descriptor or shares it: its owner was not enqueued.
<1>4. \A g \in Slots : CloserOwns(g)'
  <2> TAKE g \in Slots
  <2>1. CloserOwns(g)
    BY DEF DescriptorInv, ClosersOwn
  <2>2. CASE g = h
    BY <2>2, <1>1 DEF CloserOwns
  <2>3. CASE g # h
    <3>1. handler'[g] = handler[g] /\ (g \in deadSlots <=> g \in deadSlots')
      BY <2>3
    <3>2. ASSUME handler[g].closes \/ (handler[g].kind = "connector"
                                         /\ g \notin deadSlots)
          PROVE  owner'[handler[g].fd] = owner[handler[g].fd]
      <4>1. handler[g].fd \in Descriptors
        BY <3>2, KindsAre DEF DescriptorInv
      <4>2. owner[handler[g].fd] # h
        BY <2>1, <2>3, <3>2, DescriptorShapes DEF CloserOwns, SharesWith
      <4> QED
        BY <4>1, <4>2
    <3>3. \A c \in deadSlots : c \in deadSlots' /\ handler'[c] = handler[c]
      BY DescriptorShapes
    <3> QED
      BY <2>1, <3>1, <3>2, <3>3, CloserStays
  <2> QED
    BY <2>2, <2>3
<1>5. \A d \in Descriptors : EpollNamed(d)'
  <2> TAKE d \in Descriptors
  <2>1. EpollNamed(d)
    BY DEF DescriptorInv, EpollNames
  <2>2. \A g \in Slots : handler[g].fd # handler[h].fd =>
                           handler'[g] = handler[g] /\ g # h
    OBVIOUS
  <2> QED
    BY <2>1, <2>2, DescriptorShapes DEF EpollNamed
<1>6. ASSUME ~collided' PROVE \A g \in Slots : SocketWatched(g)'
  <2> TAKE g \in Slots
  <2>1. CASE g = h
    BY <2>1 DEF SocketWatched
  <2>2. CASE g # h
    BY <1>6, <2>2, DescriptorShapes
       DEF DescriptorInv, SocketsWatched, SocketWatched, KindsHold
  <2> QED
    BY <2>1, <2>2
<1> QED
  BY <1>2, <1>3, <1>4, <1>5, <1>6 DEF DescriptorInv, ClosersOwn, EpollNames,
     SocketsWatched

\* A carrier takes the descriptor of a connector, which is enqueued; when the
\* connection is refused both are to close it.
LEMMA SocketTaken ==
  ASSUME ReactorTyped, DescriptorInv, step' = step,
         NEW c \in Slots \ deadSlots, handler[c].kind = "connector",
         NEW fd \in Descriptors, handler[c].fd = fd, owner[fd] = c,
         NEW h \in Slots \ Used,
         NEW hd \in Handlers, hd.fd = fd, hd.kind = "carrier", hd.closes,
         NEW cd, cd.kind = "connector", cd.fd = fd, cd.prot = handler[c].prot,
         NEW o, IF cd.closes THEN o = c /\ hd.prot = "dead" ELSE o = h,
         NEW entry, entry = [token |-> hd.token, out |-> hd.writes],
         \A g \in Slots : handler'[g] = IF g = h THEN hd
                                        ELSE IF g = c THEN cd ELSE handler[g],
         \A d \in Descriptors :
           owner'[d] = IF d = fd THEN o ELSE owner[d],
         \A d \in Descriptors : epoll'[d] = IF d = fd THEN entry ELSE epoll[d],
         deadSlots' = deadSlots \cup {c}, collided' = collided, stolen' = stolen
  PROVE  DescriptorInv'
<1>1. /\ h \in Slots /\ handler[h].kind = "none" /\ h \notin deadSlots
      /\ h # c /\ c \in Used
  BY DEF Used, DescriptorInv, KindsHold
<1>2. \A d \in Descriptors : owner[d] # h
  BY <1>1 DEF DescriptorInv, OwnersClose, Sockets
<1>3. KindsHold'
  BY <1>1 DEF DescriptorInv, KindsHold, Used, Sockets
<1>4. OwnersClose'
  <2> SUFFICES ASSUME NEW d \in Descriptors, owner'[d] \in Slots
               PROVE  LET g == owner'[d]
                      IN  /\ handler'[g].fd = d
                          /\ handler'[g].kind \in Sockets
                          /\ \/ handler'[g].closes
                             \/ handler'[g].kind = "connector" /\ g \notin deadSlots'
    BY DEF OwnersClose
  <2>1. CASE d = fd
    BY <2>1, <1>1 DEF Sockets
  <2>2. CASE d # fd
    <3>1. owner'[d] = owner[d] /\ owner[d] # h
      BY <2>2, <1>2
    <3>2. owner[d] # c /\ handler[owner[d]].fd = d
      BY <3>1, <2>2 DEF DescriptorInv, OwnersClose
    <3> QED
      BY <3>1, <3>2 DEF DescriptorInv, OwnersClose
  <2> QED
    BY <2>1, <2>2
<1>5. \A g \in Slots : CloserOwns(g)'
  <2> TAKE g \in Slots
  <2>1. CloserOwns(g)
    BY DEF DescriptorInv, ClosersOwn
  <2>2. CASE g = h
    BY <2>2, <1>1 DEF CloserOwns, SharesWith
  <2>3. CASE g = c
    BY <2>3, <1>1 DEF CloserOwns
  <2>4. CASE g # h /\ g # c
    <3>1. handler'[g] = handler[g] /\ (g \in deadSlots <=> g \in deadSlots')
      BY <2>4
    <3>2. ASSUME handler[g].closes \/ (handler[g].kind = "connector"
                                         /\ g \notin deadSlots)
          PROVE  owner'[handler[g].fd] = owner[handler[g].fd]
      <4>1. handler[g].fd \in Descriptors
        BY <3>2, KindsAre DEF DescriptorInv
      <4>2. owner[handler[g].fd] # c
        BY <2>1, <2>4, <3>2, DescriptorShapes DEF CloserOwns, SharesWith
      <4> QED
        BY <4>1, <4>2
    <3>3. \A x \in deadSlots : x \in deadSlots' /\ handler'[x] = handler[x]
      BY <1>1, DescriptorShapes
    <3> QED
      BY <2>1, <3>1, <3>2, <3>3, CloserStays
  <2> QED
    BY <2>2, <2>3, <2>4
<1>6. \A d \in Descriptors : EpollNamed(d)'
  <2> TAKE d \in Descriptors
  <2>1. CASE d = fd
    <3>1. owner'[d] # Free
      BY <2>1, <1>1, DescriptorShapes
    <3>2. handler'[h].token = epoll'[d].token /\ handler'[h].fd = d
          /\ handler'[h].kind \in Sockets /\ h \notin deadSlots'
      BY <2>1, <1>1 DEF Sockets
    <3> QED
      BY <3>1, <3>2, <1>1 DEF EpollNamed
  <2>2. CASE d # fd
    <3>1. owner'[d] = owner[d] /\ epoll'[d] = epoll[d] /\ EpollNamed(d)
      BY <2>2 DEF DescriptorInv, EpollNames
    <3>2. \A g \in Slots : handler[g].kind \in Sockets /\ handler[g].fd = d =>
                             handler'[g] = handler[g] /\ g # c
      BY <1>1, <2>2 DEF Sockets
    <3> QED
      BY <3>1, <3>2 DEF EpollNamed
  <2> QED
    BY <2>1, <2>2
<1>7. ASSUME ~collided' PROVE \A g \in Slots : SocketWatched(g)'
  <2> TAKE g \in Slots
  <2>1. CASE g = h
    <3>1. hd.writes = (hd.writes \/ hd.kind = "connector")
      BY DEF Handlers
    <3> QED
      BY <2>1, <3>1 DEF SocketWatched
  <2>2. CASE g = c
    BY <2>2 DEF SocketWatched
  <2>3. CASE g # h /\ g # c
    BY <1>7, <2>3 DEF DescriptorInv, SocketsWatched, SocketWatched, KindsHold
  <2> QED
    BY <2>1, <2>2, <2>3
<1> QED
  BY <1>3, <1>4, <1>5, <1>6, <1>7 DEF DescriptorInv, ClosersOwn, EpollNames,
     SocketsWatched

\* The interest in writing of a carrier: its entry, when there is one, follows.
LEMMA InterestChanges ==
  ASSUME ReactorTyped, TokensNamed, DescriptorInv, step' = step,
         NEW h \in Slots, handler[h].kind \in {"carrier", "udp"},
         NEW hd, hd.kind = handler[h].kind, hd.fd = handler[h].fd,
         hd.token = handler[h].token, hd.closes = handler[h].closes,
         hd.prot = handler[h].prot, hd.writes \in BOOLEAN,
         NEW entry, entry = [token |-> handler[h].token, out |-> hd.writes],
         epoll[handler[h].fd] # Unregistered =>
           h \notin deadSlots /\ owner[handler[h].fd] = h,
         \A g \in Slots : handler'[g] = IF g = h THEN hd ELSE handler[g],
         \A d \in Descriptors :
           epoll'[d] = IF d = handler[h].fd /\ epoll[d] # Unregistered
                       THEN entry ELSE epoll[d],
         UNCHANGED <<owner, deadSlots, collided, stolen>>
  PROVE  DescriptorInv'
<1>1. handler[h].fd \in Descriptors /\ h \in Used
  BY DEF DescriptorInv, KindsHold, Used, Sockets
<1>2. KindsHold'
  BY <1>1 DEF DescriptorInv, KindsHold, Used, Sockets
<1>3. OwnersClose'
  BY <1>1, DescriptorShapes DEF DescriptorInv, OwnersClose
<1>4. \A g \in Slots : CloserOwns(g)'
  <2> TAKE g \in Slots
  <2>1. CloserOwns(g)
    BY DEF DescriptorInv, ClosersOwn
  <2>2. \A x \in Slots : /\ handler'[x].kind = handler[x].kind
                         /\ handler'[x].fd = handler[x].fd
                         /\ handler'[x].closes = handler[x].closes
                         /\ handler'[x].prot = handler[x].prot
    OBVIOUS
  <2> QED
    BY <2>1, <2>2, CloserStays, DescriptorShapes
<1>5. \A d \in Descriptors : EpollNamed(d)'
  <2> TAKE d \in Descriptors
  <2>1. EpollNamed(d)
    BY DEF DescriptorInv, EpollNames
  <2>2. \A x \in Slots : /\ handler'[x].kind = handler[x].kind
                         /\ handler'[x].fd = handler[x].fd
                         /\ handler'[x].token = handler[x].token
    OBVIOUS
  <2>3. CASE d = handler[h].fd /\ epoll[d] # Unregistered
    <3>1. epoll'[d].token = handler[h].token /\ h \notin deadSlots
          /\ owner[d] = h /\ handler[h].kind \in Sockets
      BY <2>3 DEF Sockets
    <3> QED
      BY <2>2, <2>3, <3>1, DescriptorShapes DEF EpollNamed
  <2>4. CASE ~(d = handler[h].fd /\ epoll[d] # Unregistered)
    BY <2>1, <2>2, <2>4 DEF EpollNamed
  <2> QED
    BY <2>3, <2>4
<1>6. ASSUME ~collided' PROVE \A g \in Slots : SocketWatched(g)'
  <2> TAKE g \in Slots
  <2>1. SocketWatched(g)
    BY <1>6 DEF DescriptorInv, SocketsWatched
  <2>2. CASE g = h
    <3>1. hd.writes = (hd.writes \/ hd.kind = "connector")
      OBVIOUS
    <3>2. handler[h].token # NoToken
      BY DEF TokensNamed, Tokens, NoToken
    <3>3. SUFFICES ASSUME h \notin deadSlots, owner[handler[h].fd] = h
                   PROVE  SocketWatched(h)'
      BY <2>2 DEF SocketWatched
    <3>4. epoll[handler[h].fd].token = handler[h].token
      BY <2>1, <2>2, <3>3 DEF SocketWatched, Sockets
    <3>5. epoll[handler[h].fd] # Unregistered
      BY <3>2, <3>4 DEF Unregistered
    <3>6. epoll'[handler[h].fd] = entry
      BY <3>5, <1>1
    <3> QED
      BY <3>1, <3>6 DEF SocketWatched
  <2>3. CASE g # h
    <3>1. handler'[g] = handler[g]
      BY <2>3
    <3>2. SUFFICES ASSUME handler[g].kind \in Sockets, owner[handler[g].fd] = g
                   PROVE  epoll'[handler[g].fd] = epoll[handler[g].fd]
      BY <2>1, <3>1 DEF SocketWatched
    <3>3. handler[g].fd \in Descriptors
      BY <3>2 DEF DescriptorInv, KindsHold
    <3> QED
      BY <2>3, <3>2, <3>3
  <2> QED
    BY <2>2, <2>3
<1> QED
  BY <1>2, <1>3, <1>4, <1>5, <1>6 DEF DescriptorInv, ClosersOwn, EpollNames,
     SocketsWatched

\* A protocol is enqueued: its handler stays for now.
LEMMA ProtocolEnqueued ==
  ASSUME ReactorTyped, DescriptorInv, step' = step,
         NEW h \in Slots, handler[h].prot = "live",
         NEW hd, hd.kind = handler[h].kind, hd.fd = handler[h].fd,
         hd.token = handler[h].token, hd.closes = handler[h].closes,
         hd.writes = handler[h].writes, hd.prot = "dead",
         \A g \in Slots : handler'[g] = IF g = h THEN hd ELSE handler[g],
         UNCHANGED <<owner, epoll, deadSlots, collided, stolen>>
  PROVE  DescriptorInv'
<1>1. handler[h].kind \in {"carrier", "udp", "timer"} /\ h \in Used
  BY DEF DescriptorInv, KindsHold, Used
<1>2. KindsHold'
  BY <1>1 DEF DescriptorInv, KindsHold, Used, Sockets
<1>3. OwnersClose'
  BY <1>1, DescriptorShapes DEF DescriptorInv, OwnersClose
<1>4. \A g \in Slots : CloserOwns(g)'
  <2> TAKE g \in Slots
  <2>1. CloserOwns(g)
    BY DEF DescriptorInv, ClosersOwn
  <2>2. \A x \in Slots : /\ handler'[x].kind = handler[x].kind
                         /\ handler'[x].fd = handler[x].fd
                         /\ handler'[x].closes = handler[x].closes
                         /\ handler[x].prot = "dead" => handler'[x].prot = "dead"
    OBVIOUS
  <2> QED
    BY <2>1, <2>2, CloserStays, DescriptorShapes
<1>5. \A x \in Slots : /\ handler'[x].kind = handler[x].kind
                       /\ handler'[x].fd = handler[x].fd
                       /\ handler'[x].token = handler[x].token
                       /\ handler'[x].writes = handler[x].writes
  OBVIOUS
<1>6. EpollNames'
  BY <1>5 DEF DescriptorInv, EpollNames, EpollNamed
<1>7. SocketsWatched'
  BY <1>5 DEF DescriptorInv, SocketsWatched, SocketWatched
<1> QED
  BY <1>2, <1>3, <1>4, <1>6, <1>7 DEF DescriptorInv, ClosersOwn

\* A timer is enqueued, and the socket whose descriptor is its number is not
\* watched any more.
LEMMA TimerEnqueued ==
  ASSUME ReactorTyped, DescriptorInv, step' = step,
         NEW h \in Slots, handler[h].kind = "timer",
         \A d \in Descriptors :
           epoll'[d] = IF d = handler[h].fd THEN Unregistered ELSE epoll[d],
         deadSlots' = deadSlots \cup {h},
         collided' = IF IsRegistered(World, handler[h].fd) THEN TRUE ELSE collided,
         UNCHANGED <<handler, owner, stolen>>
  PROVE  DescriptorInv'
<1>1. handler[h].kind \notin Sockets /\ ~handler[h].closes /\ h \in Used
  BY DEF DescriptorInv, KindsHold, Used, Sockets
<1>2. KindsHold'
  BY <1>1 DEF DescriptorInv, KindsHold, Used, Sockets
<1>3. OwnersClose'
  BY <1>1, DescriptorShapes DEF DescriptorInv, OwnersClose
<1>4. \A g \in Slots : CloserOwns(g)'
  <2> TAKE g \in Slots
  <2>1. CloserOwns(g)
    BY DEF DescriptorInv, ClosersOwn
  <2>2. CASE g = h
    BY <2>2, <1>1 DEF CloserOwns
  <2>3. CASE g # h
    BY <2>1, <2>3, CloserStays, DescriptorShapes
  <2> QED
    BY <2>2, <2>3
<1>5. \A d \in Descriptors : EpollNamed(d)'
  <2> TAKE d \in Descriptors
  <2>1. EpollNamed(d)
    BY DEF DescriptorInv, EpollNames
  <2> QED
    BY <1>1, <2>1 DEF EpollNamed
<1>6. ASSUME ~collided' PROVE \A g \in Slots : SocketWatched(g)'
  <2>1. ~collided /\ \A d \in Descriptors : epoll'[d] = epoll[d]
    BY <1>6 DEF IsRegistered, World
  <2> TAKE g \in Slots
  <2>2. SocketWatched(g) /\ (handler[g].kind \in Sockets => g # h)
    BY <1>1, <2>1 DEF DescriptorInv, SocketsWatched
  <2> QED
    BY <2>1, <2>2 DEF SocketWatched, DescriptorInv, KindsHold
<1> QED
  BY <1>2, <1>3, <1>4, <1>5, <1>6 DEF DescriptorInv, ClosersOwn, EpollNames,
     SocketsWatched

\* A handler is deleted, after the events; one whose protocol is deleted only
\* when no handler is enqueued any more.
LEMMA HandlerDeleted ==
  ASSUME ReactorTyped, DescriptorInv, step' = step, NEW h \in Used,
         \/ step = "handlers" /\ h \in deadSlots
         \/ step = "protocols" /\ deadSlots = {} /\ handler[h].prot = "dead",
         \A g \in Slots : handler'[g] = IF g = h THEN NoHandler ELSE handler[g],
         \A d \in Descriptors :
           owner'[d] = IF d = handler[h].fd /\ handler[h].closes THEN Free
                       ELSE owner[d],
         \A d \in Descriptors :
           epoll'[d] = IF d = handler[h].fd /\ handler[h].closes
                       THEN Unregistered ELSE epoll[d],
         deadSlots' = deadSlots \ {h}, collided' = collided,
         owner[handler[h].fd] \in {h, Free} \/ ~handler[h].closes =>
           stolen' = stolen
  PROVE  DescriptorInv'
<1>1. h \in Slots /\ handler[h].kind # "none" /\ CloserOwns(h)
  BY DEF Used, DescriptorInv, ClosersOwn
<1>2. /\ NoHandler.kind = "none" /\ ~NoHandler.closes /\ NoHandler.prot = "none"
      /\ NoHandler.kind \notin Sockets
  BY DEF NoHandler, Sockets
<1>3. handler[h].closes => handler[h].fd \in Descriptors
  BY <1>1, KindsAre DEF DescriptorInv
\* Only it, or its connector before it, closed this descriptor.
<1>4. handler[h].closes => owner[handler[h].fd] \in {h, Free}
  BY <1>1 DEF CloserOwns, SharesWith
<1>5. ~handler[h].closes => \A d \in Descriptors : owner[d] # h
  <2>1. handler[h].kind = "connector" => h \in deadSlots
    BY <1>1 DEF DescriptorInv, KindsHold
  <2> QED
    BY <1>1, <2>1 DEF DescriptorInv, OwnersClose
<1>6. \A d \in Descriptors : owner'[d] # h
  BY <1>1, <1>5, DescriptorShapes DEF DescriptorInv, OwnersClose
<1>7. KindsHold'
  BY <1>1, <1>2 DEF DescriptorInv, KindsHold, Used
<1>8. OwnersClose'
  <2> SUFFICES ASSUME NEW d \in Descriptors, owner'[d] \in Slots
               PROVE  LET g == owner'[d]
                      IN  /\ handler'[g].fd = d
                          /\ handler'[g].kind \in Sockets
                          /\ \/ handler'[g].closes
                             \/ handler'[g].kind = "connector" /\ g \notin deadSlots'
    BY DEF OwnersClose
  <2>1. owner'[d] = owner[d]
    BY DescriptorShapes
  <2>2. owner[d] # h /\ handler'[owner[d]] = handler[owner[d]]
    BY <1>6, <2>1
  <2> QED
    BY <2>1, <2>2 DEF DescriptorInv, OwnersClose
<1>9. \A g \in Slots : CloserOwns(g)'
  <2> TAKE g \in Slots
  <2>1. CloserOwns(g)
    BY DEF DescriptorInv, ClosersOwn
  <2>2. CASE g = h
    BY <2>2, <1>2 DEF CloserOwns
  <2>3. CASE g # h
    <3>1. handler'[g] = handler[g] /\ (g \in deadSlots <=> g \in deadSlots')
      BY <2>3
    <3>2. SUFFICES ASSUME \/ handler[g].closes
                          \/ handler[g].kind = "connector" /\ g \notin deadSlots
                   PROVE  CloserOwns(g)'
      BY <3>1 DEF CloserOwns
    <3>3. handler[g].fd \in Descriptors
      BY <3>2, KindsAre DEF DescriptorInv
    <3> DEFINE fd == handler[g].fd
               o == owner[fd]
    <3>4. CASE owner'[fd] = o /\ o # h
      <4>1. o \in deadSlots => o \in deadSlots' /\ handler'[o] = handler[o]
        BY <3>4, DescriptorShapes
      <4> QED
        BY <2>1, <3>1, <3>4, <4>1, CloserStays
    <3>5. CASE owner'[fd] = Free
      <4>1. \/ fd = handler[h].fd /\ handler[h].closes
            \/ o = Free
        BY <3>3, <3>5
      <4>2. o \in {h, Free}
        BY <1>4, <4>1
      <4>3. o = Free \/ SharesWith(g, h)
        BY <2>1, <2>3, <3>2, <4>2, <1>1, DescriptorShapes DEF CloserOwns
      <4>4. /\ handler[g].kind = "carrier" /\ handler[g].prot = "dead"
            /\ g \notin deadSlots
        BY <2>1, <2>3, <3>2, <4>3, <4>2, <1>1, DescriptorShapes
           DEF CloserOwns, SharesWith
      <4> QED
        BY <3>1, <3>5, <4>4 DEF CloserOwns
    <3> QED
      BY <3>3, <3>4, <3>5, <1>6
  <2> QED
    BY <2>2, <2>3
<1>10. \A d \in Descriptors : EpollNamed(d)'
  <2> TAKE d \in Descriptors
  <2>1. EpollNamed(d)
    BY DEF DescriptorInv, EpollNames
  <2>2. CASE d = handler[h].fd /\ handler[h].closes
    BY <2>2 DEF EpollNamed
  <2>3. CASE ~(d = handler[h].fd /\ handler[h].closes)
    <3>1. owner'[d] = owner[d] /\ epoll'[d] = epoll[d]
      BY <2>3
    <3>2. ASSUME NEW g \in Slots, handler[g].fd = d,
                 handler[g].kind \in Sockets, g \notin deadSlots
          PROVE  g # h
      <4>1. SUFFICES ASSUME g = h PROVE FALSE
        OBVIOUS
      <4>2. handler[h].prot = "dead" /\ ~handler[h].closes
        BY <2>3, <3>2, <4>1
      <4> QED
        BY <1>1, <3>2, <4>1, <4>2 DEF DescriptorInv, KindsHold, Sockets
    <3>3. \A g \in Slots : handler[g].fd = d /\ handler[g].kind \in Sockets
                           /\ g \notin deadSlots => handler'[g] = handler[g]
      BY <3>2
    <3> QED
      BY <2>1, <3>1, <3>3 DEF EpollNamed
  <2> QED
    BY <2>2, <2>3
<1>11. ASSUME ~collided' PROVE \A g \in Slots : SocketWatched(g)'
  <2> TAKE g \in Slots
  <2>1. SocketWatched(g)
    BY <1>11 DEF DescriptorInv, SocketsWatched
  <2>2. CASE g = h
    BY <2>2, <1>2 DEF SocketWatched
  <2>3. CASE g # h
    <3>1. handler'[g] = handler[g] /\ (g \in deadSlots <=> g \in deadSlots')
      BY <2>3
    <3>2. SUFFICES ASSUME handler[g].kind \in Sockets, owner'[handler[g].fd] = g
                   PROVE  /\ owner[handler[g].fd] = g
                          /\ epoll'[handler[g].fd] = epoll[handler[g].fd]
      BY <2>1, <3>1 DEF SocketWatched
    <3>3. handler[g].fd \in Descriptors
      BY <3>2 DEF DescriptorInv, KindsHold
    <3> QED
      BY <3>2, <3>3, DescriptorShapes
  <2> QED
    BY <2>2, <2>3
<1>12. ~stolen'
  BY <1>4 DEF DescriptorInv
<1> QED
  BY <1>7, <1>8, <1>9, <1>10, <1>11, <1>12 DEF DescriptorInv, ClosersOwn,
     EpollNames, SocketsWatched

-----------------------------------------------------------------------------
(* What the callbacks make *)

LEMMA SlotGiven ==
  ASSUME FreeSlots # {}
  PROVE  (CHOOSE s \in FreeSlots : TRUE) \in Slots \ Used /\ TokensLeft
  BY DEF FreeSlots

LEMMA NewFdGiven ==
  ASSUME FreeFds # {}
  PROVE  NewFd \in Descriptors /\ owner[NewFd] = Free
<1>1. FreeFds \subseteq Nat
  BY ReactorAssumption DEF FreeFds
<1>2. PICK d \in FreeFds : \A e \in FreeFds : d <= e
  BY <1>1, Least
<1>3. NewFd \in FreeFds
  BY <1>2 DEF NewFd
<1> QED
  BY <1>3 DEF FreeFds

\* What RegisterIOHandler and the first epoll_ctl make of the world w.
IsMaking(x, w, h, hd, fd, entry, t) ==
  /\ x \in Worlds
  /\ x.handler = [w.handler EXCEPT ![h] = hd]
  /\ x.epoll = [w.epoll EXCEPT ![fd] = entry]
  /\ x.payload = [payload EXCEPT ![t] = h]
  /\ x.vectors = TokenLeaves
  /\ x.dead = w.dead /\ x.owner = w.owner
  /\ x.collided = w.collided /\ x.stolen = w.stolen

LEMMA SocketMade ==
  ASSUME NEW w \in Worlds, w.payload = payload, w.vectors = vectors,
         TokenInv, TokensLeft, NEW h \in Slots, NEW kind \in Kinds,
         NEW fd \in Descriptors, NEW closes \in BOOLEAN,
         NEW prot \in {"none", "live", "dead"}, NEW out \in BOOLEAN,
         w.epoll[fd] = Unregistered
  PROVE  IsMaking(Add(Register(w, h, kind, fd, closes, prot), h, out), w, h,
                  NewHandler(kind, fd, SetupToken(w), closes, prot), fd,
                  Entry(SetupToken(w), out), SetupToken(w))
<1> DEFINE t == SetupToken(w)
           hd == NewHandler(kind, fd, t, closes, prot)
           y == Register(w, h, kind, fd, closes, prot)
           x == Add(y, h, out)
<1>1. fd \in Int
  BY ReactorAssumption
<1>2. IsRegistering(y, w, h, hd, t)
  BY <1>1, RegisterRegisters
<1>3. hd.fd = fd /\ hd.token = t
  BY DEF NewHandler
<1> HIDE DEF y, hd, t
<1>4. y.handler[h] = hd
  BY <1>2 DEF Worlds, IsRegistering
<1>5. /\ x \in Worlds
      /\ x.epoll = [y.epoll EXCEPT ![y.handler[h].fd] =
                      [token |-> y.handler[h].token, out |-> out]]
      /\ x.handler = y.handler /\ x.dead = y.dead /\ x.owner = y.owner
      /\ x.payload = y.payload /\ x.vectors = y.vectors
      /\ x.collided = y.collided /\ x.stolen = y.stolen
  <2>1. /\ y.handler[h].fd \in Descriptors
        /\ y.epoll[y.handler[h].fd] = Unregistered
    BY <1>2, <1>3, <1>4 DEF IsRegistering
  <2>2. y \in Worlds
    BY <1>2 DEF IsRegistering
  <2> QED
    BY <2>1, <2>2, AddAdds
<1> HIDE DEF x
<1>6. x.handler = [w.handler EXCEPT ![h] = hd]
      /\ x.epoll = [w.epoll EXCEPT ![fd] = Entry(t, out)]
  BY <1>2, <1>3, <1>4, <1>5 DEF IsRegistering, Entry
<1>7. IsMaking(x, w, h, hd, fd, Entry(t, out), t)
  BY <1>2, <1>5, <1>6 DEF IsRegistering, IsMaking
<1> QED
  BY <1>7 DEF hd, t, x, y

\* The carrier of a new connection, that has output at once or not.
Sending(w, h, sends) == IF sends THEN SignalOutputData(w, h) ELSE w

\* What a change of the interest in writing makes of the world w.
IsToggling(x, w, h, hd, fd, entry) ==
  /\ x \in Worlds
  /\ x.handler = [w.handler EXCEPT ![h] = hd]
  /\ x.epoll = [w.epoll EXCEPT ![fd] = entry]
  /\ x.dead = w.dead /\ x.owner = w.owner
  /\ x.payload = w.payload /\ x.vectors = w.vectors
  /\ x.collided = w.collided /\ x.stolen = w.stolen

LEMMA CarrierSends ==
  ASSUME NEW w \in Worlds, NEW h \in Slots, NEW sends \in BOOLEAN,
         NEW fd \in Descriptors, NEW t \in Tokens,
         NEW hd, w.handler[h] = hd, hd.kind = "carrier", hd.writes = FALSE,
         hd.fd = fd, hd.token = t, w.epoll[fd] = Entry(t, FALSE)
  PROVE  IsToggling(Sending(w, h, sends), w, h, Writing(hd, sends), fd,
                    Entry(t, sends))
<1>1. CASE sends = TRUE
  <2> DEFINE y == [w EXCEPT !.handler[h].writes = TRUE]
             x == Modify(y, h, TRUE)
  <2>1. y.handler[h].kind = "carrier"
    BY DEF Worlds, Handlers
  <2>2. Sending(w, h, sends) = x
    BY <1>1, <2>1 DEF Sending, SignalOutputData, EnableWriteData
  <2>3. w.epoll[fd] # Unregistered
    BY DEF Unregistered, Entry, Tokens, NoToken
  <2>4. /\ x \in Worlds
        /\ x.handler = [w.handler EXCEPT ![h] = [@ EXCEPT !.writes = TRUE]]
        /\ x.epoll =
             IF w.handler[h].fd \in Descriptors
                /\ w.epoll[w.handler[h].fd] # Unregistered
             THEN [w.epoll EXCEPT ![w.handler[h].fd] =
                     [token |-> w.handler[h].token, out |-> TRUE]]
             ELSE w.epoll
        /\ x.dead = w.dead /\ x.owner = w.owner
        /\ x.payload = w.payload /\ x.vectors = w.vectors
        /\ x.collided = w.collided /\ x.stolen = w.stolen
    BY WritesToggle
  <2> HIDE DEF x, y
  <2>5. /\ x.handler = [w.handler EXCEPT ![h] = Writing(hd, TRUE)]
        /\ x.epoll = [w.epoll EXCEPT ![fd] = Entry(t, TRUE)]
    BY <2>3, <2>4 DEF Writing, Entry
  <2> QED
    BY <1>1, <2>2, <2>4, <2>5 DEF IsToggling
<1>2. CASE sends = FALSE
  <2>1. Writing(hd, FALSE) = hd
    BY DEF Worlds, Handlers, Writing
  <2>2. w.handler = [w.handler EXCEPT ![h] = Writing(hd, FALSE)]
    BY <2>1 DEF Worlds
  <2>3. w.epoll = [w.epoll EXCEPT ![fd] = Entry(t, FALSE)]
    BY DEF Worlds
  <2>4. Sending(w, h, sends) = w
    BY <1>2 DEF Sending
  <2> QED
    BY <1>2, <2>2, <2>3, <2>4 DEF IsToggling
<1> QED
  BY <1>1, <1>2

\* No other event of the pulse is for the same handler.
LEMMA OthersInBatch ==
  ASSUME TokenInv, BatchHolds, NEW e \in batch, NEW f \in batch \ {e}
  PROVE  payload[f.token] # payload[e.token]
<1>1. SUFFICES ASSUME payload[f.token] = payload[e.token] PROVE FALSE
  OBVIOUS
<1>2. f.token = e.token
  BY <1>1 DEF TokenInv, TokensNamed, BatchHolds
<1> QED
  BY <1>2 DEF BatchHolds

LEMMA StepsStay ==
  ASSUME StepsHold, step = "events", step' = step, ticking' \subseteq ticking,
         \A g \in ticking' : handler'[g].kind = handler[g].kind
  PROVE  StepsHold'
  BY DEF StepsHold

\* What a callback that makes a handler keeps of the tokens and of the pulse.
LEMMA NewHandlerSettles ==
  ASSUME ReactorInv, step = "events", step' = step, ReactorTyped', DescriptorInv',
         TokensLeft, NEW w \in Worlds, w.payload = payload, w.vectors = vectors,
         NEW h \in Slots \ Used,
         handler'[h].token = SetupToken(w), handler'[h].kind # "none",
         \A g \in Slots \ {h} :
           /\ handler'[g].token = handler[g].token
           /\ handler'[g].kind = handler[g].kind
           /\ handler'[g].fd = handler[g].fd,
         payload' = [payload EXCEPT ![SetupToken(w)] = h],
         vectors' = TokenLeaves,
         batch' \subseteq batch, ticking' \subseteq ticking,
         \A f \in batch' :
           LET p == payload[f.token]
           IN  /\ p \in deadSlots' => p \in deadSlots
               /\ owner'[handler[p].fd] = owner[handler[p].fd]
  PROVE  ReactorInv'
<1>1. TokenInv'
  BY TokensTaken DEF ReactorInv
<1>2. SetupToken(w) \in Tokens /\ payload[SetupToken(w)] \notin Slots
  BY SetupTokenGives, ReactorAssumption DEF ReactorInv, Invalid, New
<1>3. handler[h].kind = "none"
  BY DEF Used
<1>4. BatchHolds'
  <2>1. ASSUME NEW f \in batch'
        PROVE  LET p == payload[f.token]
               IN  /\ payload'[f.token] = p /\ p \notin deadSlots'
                   /\ handler'[p].kind = handler[p].kind
                   /\ handler'[p].fd = handler[p].fd
                   /\ owner'[handler[p].fd] = owner[handler[p].fd]
    <3> DEFINE p == payload[f.token]
    <3>1. /\ f.token \in Tokens /\ p \in Slots /\ p \notin deadSlots
          /\ handler[p].kind \in Sockets
      BY DEF ReactorInv, BatchHolds
    <3>2. p # h /\ f.token # SetupToken(w)
      BY <1>2, <1>3, <3>1 DEF Sockets
    <3>3. payload'[f.token] = p
      BY <3>1, <3>2, DescriptorShapes DEF ReactorInv, TokenInv
    <3> QED
      BY <3>1, <3>2, <3>3
  <2> QED
    BY <2>1, BatchStays DEF ReactorInv
<1>5. StepsHold'
  <2>1. \A g \in ticking' : g \in Slots /\ g # h
    BY <1>3 DEF ReactorInv, StepsHold
  <2> QED
    BY <2>1, StepsStay DEF ReactorInv
<1> QED
  BY <1>1, <1>4, <1>5 DEF ReactorInv

LEMMA OpensIn ==
  ASSUME NEW q \in Worlds, NEW h \in Slots, NEW fd \in Descriptors
  PROVE  LET w == Opens(q, fd, h)
         IN  /\ w \in Worlds /\ w.owner = [q.owner EXCEPT ![fd] = h]
             /\ w.handler = q.handler /\ w.dead = q.dead /\ w.epoll = q.epoll
             /\ w.payload = q.payload /\ w.vectors = q.vectors
             /\ w.collided = q.collided /\ w.stolen = q.stolen
  BY DEF Worlds, Opens

\* A descriptor that nobody will close any more.
LEMMA LosesIn ==
  ASSUME NEW q \in Worlds, NEW fd \in Descriptors
  PROVE  LET w == Opens(q, fd, Lost)
         IN  /\ w \in Worlds /\ w.owner = [q.owner EXCEPT ![fd] = Lost]
             /\ w.handler = q.handler /\ w.dead = q.dead /\ w.epoll = q.epoll
             /\ w.payload = q.payload /\ w.vectors = q.vectors
             /\ w.collided = q.collided /\ w.stolen = q.stolen
  BY DEF Worlds, Opens

LEMMA OpensOpens ==
  ASSUME ReactorTyped, NEW h \in Slots, NEW fd \in Descriptors
  PROVE  LET w == Opens(World, fd, h)
         IN  /\ w \in Worlds /\ w.owner = [owner EXCEPT ![fd] = h]
             /\ w.handler = handler /\ w.dead = deadSlots /\ w.epoll = epoll
             /\ w.payload = payload /\ w.vectors = vectors
             /\ w.collided = collided /\ w.stolen = stolen
  BY DEF ReactorTyped, World, Worlds, Opens

LEMMA NewHandlerIs ==
  ASSUME NEW kind \in Kinds, NEW fd \in Descriptors, NEW t \in Tokens,
         NEW closes \in BOOLEAN, NEW prot \in {"none", "live", "dead"}
  PROVE  LET nh == NewHandler(kind, fd, t, closes, prot)
         IN  /\ nh \in Handlers /\ nh.kind = kind /\ nh.fd = fd /\ nh.token = t
             /\ nh.writes = FALSE /\ nh.closes = closes /\ nh.prot = prot
  BY ReactorAssumption DEF NewHandler, Handlers, Tokens

LEMMA WritingIs ==
  ASSUME NEW hd \in Handlers, NEW out \in BOOLEAN
  PROVE  LET x == Writing(hd, out)
         IN  /\ x \in Handlers /\ x.kind = hd.kind /\ x.fd = hd.fd
             /\ x.token = hd.token /\ x.writes = out
             /\ x.closes = hd.closes /\ x.prot = hd.prot
  BY DEF Writing, Handlers

\* A handler that opened a descriptor is new to the tokens and to the pulse.
LEMMA OpenedSettles ==
  ASSUME ReactorInv, step = "events", step' = step, ReactorTyped', DescriptorInv',
         TokensLeft, NEW w \in Worlds, w.payload = payload, w.vectors = vectors,
         NEW h \in Slots \ Used, NEW fd \in Descriptors, owner[fd] = Free,
         NEW hd, hd.token = SetupToken(w), hd.kind # "none",
         handler' = [handler EXCEPT ![h] = hd],
         owner' = [owner EXCEPT ![fd] = h],
         deadSlots' \subseteq deadSlots \cup {h},
         payload' = [payload EXCEPT ![SetupToken(w)] = h],
         vectors' = TokenLeaves,
         batch' \subseteq batch, ticking' \subseteq ticking
  PROVE  ReactorInv'
<1>1. ReactorTyped /\ DescriptorInv
  BY DEF ReactorInv, TokenInv
<1>2. /\ \A g \in Slots : handler'[g] = IF g = h THEN hd ELSE handler[g]
      /\ \A d \in Descriptors : owner'[d] = IF d = fd THEN h ELSE owner[d]
  BY <1>1, DescriptorShapes
<1>3. \A f \in batch' :
        LET p == payload[f.token]
        IN  /\ p \in deadSlots' => p \in deadSlots
            /\ owner'[handler[p].fd] = owner[handler[p].fd]
  <2> TAKE f \in batch'
  <2> DEFINE p == payload[f.token]
  <2>1. /\ p \in Slots /\ handler[p].kind \in Sockets
        /\ handler[p].fd \in Descriptors /\ owner[handler[p].fd] = p
    BY DEF ReactorInv, BatchHolds, DescriptorInv, KindsHold
  <2>2. p # h
    BY <2>1 DEF Used, Sockets
  <2> QED
    BY <2>1, <2>2, <1>1, <1>2, DescriptorShapes
<1>4. /\ handler'[h].token = SetupToken(w) /\ handler'[h].kind # "none"
      /\ \A g \in Slots \ {h} : /\ handler'[g].token = handler[g].token
                                /\ handler'[g].kind = handler[g].kind
                                /\ handler'[g].fd = handler[g].fd
  BY <1>2
<1> QED
  BY <1>3, <1>4, NewHandlerSettles

LEMMA AcceptKeeps ==
  ASSUME ReactorInv, NEW e \in batch, NEW sends \in BOOLEAN, Accept(e, sends)
  PROVE  ReactorInv'
<1> DEFINE h == CHOOSE s \in FreeSlots : TRUE
           fd == NewFd
           w == Opens(World, fd, h)
           t == SetupToken(w)
           nh == NewHandler("carrier", fd, t, TRUE, "live")
           hd == Writing(nh, sends)
           x == Add(Register(w, h, "carrier", fd, TRUE, "live"), h, FALSE)
           y == Sending(x, h, sends)
           entry == Entry(t, sends)
<1>1. /\ step = "events" /\ step' = step /\ Settle(y)
      /\ batch' = batch \ {e} /\ ticking' = ticking
      /\ h \in Slots \ Used /\ TokensLeft
      /\ fd \in Descriptors /\ owner[fd] = Free
  BY SlotGiven, NewFdGiven DEF Accept, Handles, Handled, EnableReadData, Sending
<1>2. ReactorTyped /\ DescriptorInv /\ TokenInv /\ "carrier" \in Kinds
  BY DEF ReactorInv, TokenInv, Kinds
<1> HIDE DEF h, fd
<1>3. /\ w \in Worlds /\ w.owner = [owner EXCEPT ![fd] = h]
      /\ w.handler = handler /\ w.dead = deadSlots /\ w.epoll = epoll
      /\ w.payload = payload /\ w.vectors = vectors
      /\ w.collided = collided /\ w.stolen = stolen
  BY <1>1, <1>2, OpensOpens
<1> HIDE DEF w
<1>4. t \in Tokens
  BY <1>1, <1>2, <1>3, SetupTokenGives
<1>5. IsMaking(x, w, h, nh, fd, Entry(t, FALSE), t)
  <2>1. w.epoll[fd] = Unregistered
    BY <1>1, <1>2, <1>3 DEF DescriptorInv, EpollNames, EpollNamed
  <2> QED
    BY <1>1, <1>2, <1>3, <2>1, SocketMade
<1> HIDE DEF t
<1>6. /\ nh \in Handlers /\ nh.kind = "carrier" /\ nh.writes = FALSE
      /\ nh.fd = fd /\ nh.token = t /\ nh.closes = TRUE /\ nh.prot = "live"
  BY <1>1, <1>2, <1>4, ReactorAssumption DEF NewHandler, Handlers, Tokens
<1> HIDE DEF x, nh
<1>7. /\ hd \in Handlers /\ hd.kind = "carrier" /\ hd.fd = fd /\ hd.token = t
      /\ hd.writes = sends /\ hd.closes = TRUE /\ hd.prot = "live"
  BY <1>6, WritingIs
<1>8. IsToggling(y, x, h, hd, fd, entry)
  <2>1. x \in Worlds /\ x.handler[h] = nh
    BY <1>1, <1>3, <1>5 DEF Worlds, IsMaking
  <2>2. x.epoll[fd] = Entry(t, FALSE)
    BY <1>1, <1>3, <1>5 DEF Worlds, IsMaking
  <2> QED
    BY <1>1, <1>4, <1>6, <2>1, <2>2, CarrierSends
<1> HIDE DEF y, hd
<1>9. ReactorTyped'
  BY <1>1, <1>2, <1>8, SettledTyped DEF IsToggling
<1>10. /\ handler' = [handler EXCEPT ![h] = hd]
       /\ epoll' = [epoll EXCEPT ![fd] = entry]
       /\ owner' = [owner EXCEPT ![fd] = h] /\ deadSlots' = deadSlots
       /\ payload' = [payload EXCEPT ![t] = h] /\ vectors' = TokenLeaves
       /\ collided' = collided /\ stolen' = stolen
  BY <1>1, <1>3, <1>5, <1>8 DEF Settle, IsMaking, IsToggling
<1>11. entry = [token |-> hd.token, out |-> hd.writes \/ hd.kind = "connector"]
  BY <1>7 DEF Entry
<1> HIDE DEF entry
<1>12. /\ \A g \in Slots : handler'[g] = IF g = h THEN hd ELSE handler[g]
       /\ \A d \in Descriptors : owner'[d] = IF d = fd THEN h ELSE owner[d]
       /\ \A d \in Descriptors : epoll'[d] = IF d = fd THEN entry ELSE epoll[d]
  BY <1>2, <1>10, DescriptorShapes
<1>13. DescriptorInv'
  BY <1>1, <1>2, <1>7, <1>10, <1>11, <1>12, SocketOpened
<1>14. hd.token = SetupToken(w) /\ hd.kind # "none"
  BY <1>7 DEF t
<1>15. payload' = [payload EXCEPT ![SetupToken(w)] = h]
  BY <1>10 DEF t
<1> QED
  BY <1>1, <1>3, <1>9, <1>10, <1>13, <1>14, <1>15, OpenedSettles

LEMMA OpenUDPKeeps ==
  ASSUME ReactorInv, OpenUDP
  PROVE  ReactorInv'
<1> DEFINE h == CHOOSE s \in FreeSlots : TRUE
           fd == NewFd
           w == Opens(World, fd, h)
           t == SetupToken(w)
           hd == NewHandler("udp", fd, t, TRUE, "live")
           x == Add(Register(w, h, "udp", fd, TRUE, "live"), h, FALSE)
           entry == Entry(t, FALSE)
<1>1. /\ step = "events" /\ step' = step /\ Settle(x)
      /\ batch' = batch /\ ticking' = ticking
      /\ h \in Slots \ Used /\ TokensLeft
      /\ fd \in Descriptors /\ owner[fd] = Free
  BY SlotGiven, NewFdGiven DEF OpenUDP, Calls, EnableReadData
<1>2. ReactorTyped /\ DescriptorInv /\ TokenInv /\ "udp" \in Kinds
  BY DEF ReactorInv, TokenInv, Kinds
<1> HIDE DEF h, fd
<1>3. /\ w \in Worlds /\ w.owner = [owner EXCEPT ![fd] = h]
      /\ w.handler = handler /\ w.dead = deadSlots /\ w.epoll = epoll
      /\ w.payload = payload /\ w.vectors = vectors
      /\ w.collided = collided /\ w.stolen = stolen
  BY <1>1, <1>2, OpensOpens
<1> HIDE DEF w
<1>4. t \in Tokens
  BY <1>1, <1>2, <1>3, SetupTokenGives
<1>5. IsMaking(x, w, h, hd, fd, entry, t)
  <2>1. w.epoll[fd] = Unregistered
    BY <1>1, <1>2, <1>3 DEF DescriptorInv, EpollNames, EpollNamed
  <2> QED
    BY <1>1, <1>2, <1>3, <2>1, SocketMade
<1> HIDE DEF t
<1>6. /\ hd \in Handlers /\ hd.kind = "udp" /\ hd.writes = FALSE
      /\ hd.fd = fd /\ hd.token = t /\ hd.closes = TRUE /\ hd.prot = "live"
  BY <1>1, <1>2, <1>4, ReactorAssumption DEF NewHandler, Handlers, Tokens
<1> HIDE DEF x, hd
<1>7. ReactorTyped'
  BY <1>1, <1>2, <1>5, SettledTyped DEF IsMaking
<1>8. /\ handler' = [handler EXCEPT ![h] = hd]
      /\ epoll' = [epoll EXCEPT ![fd] = entry]
      /\ owner' = [owner EXCEPT ![fd] = h] /\ deadSlots' = deadSlots
      /\ payload' = [payload EXCEPT ![t] = h] /\ vectors' = TokenLeaves
      /\ collided' = collided /\ stolen' = stolen
  BY <1>1, <1>3, <1>5 DEF Settle, IsMaking
<1>9. entry = [token |-> hd.token, out |-> hd.writes \/ hd.kind = "connector"]
  BY <1>6 DEF Entry
<1> HIDE DEF entry
<1>10. /\ \A g \in Slots : handler'[g] = IF g = h THEN hd ELSE handler[g]
       /\ \A d \in Descriptors : owner'[d] = IF d = fd THEN h ELSE owner[d]
       /\ \A d \in Descriptors : epoll'[d] = IF d = fd THEN entry ELSE epoll[d]
  BY <1>2, <1>8, DescriptorShapes
<1>11. DescriptorInv'
  BY <1>1, <1>2, <1>6, <1>8, <1>9, <1>10, SocketOpened
<1>12. hd.token = SetupToken(w) /\ hd.kind # "none"
  BY <1>6 DEF t
<1>13. payload' = [payload EXCEPT ![SetupToken(w)] = h]
  BY <1>8 DEF t
<1> QED
  BY <1>1, <1>3, <1>7, <1>8, <1>11, <1>12, <1>13, OpenedSettles

LEMMA StartTimerKeeps ==
  ASSUME ReactorInv, StartTimer, timerId \in Nat
  PROVE  ReactorInv'
<1> DEFINE h == CHOOSE s \in FreeSlots : TRUE
           fd == timerId + 1
           t == SetupToken(World)
           hd == NewHandler("timer", fd, t, FALSE, "live")
           x == Register(World, h, "timer", fd, FALSE, "live")
<1>1. /\ step = "events" /\ step' = step /\ Settle(x)
      /\ batch' = batch /\ ticking' = ticking
      /\ h \in Slots \ Used /\ TokensLeft
  BY SlotGiven DEF StartTimer, Calls
<1>2. ReactorTyped /\ DescriptorInv /\ TokenInv /\ fd \in Int /\ "timer" \in Kinds
  BY DEF ReactorInv, TokenInv, Kinds
<1> HIDE DEF h, fd
<1>3. /\ World \in Worlds /\ World.owner = owner
      /\ World.handler = handler /\ World.dead = deadSlots /\ World.epoll = epoll
      /\ World.payload = payload /\ World.vectors = vectors
      /\ World.collided = collided /\ World.stolen = stolen
  BY <1>2 DEF ReactorTyped, World
<1>4. t \in Tokens
  BY <1>1, <1>2, <1>3, SetupTokenGives
<1>5. IsRegistering(x, World, h, hd, t)
  BY <1>1, <1>2, <1>3, RegisterRegisters
<1> HIDE DEF t
<1>6. /\ hd \in Handlers /\ hd.kind = "timer" /\ hd.token = t /\ ~hd.closes
  BY <1>1, <1>2, <1>4, ReactorAssumption DEF NewHandler, Handlers, Tokens
<1> HIDE DEF x, hd
<1>7. ReactorTyped'
  BY <1>1, <1>2, <1>5, SettledTyped DEF IsRegistering
<1>8. /\ handler' = [handler EXCEPT ![h] = hd]
      /\ payload' = [payload EXCEPT ![t] = h] /\ vectors' = TokenLeaves
      /\ UNCHANGED <<owner, epoll, deadSlots, collided, stolen>>
  BY <1>1, <1>3, <1>5 DEF Settle, IsRegistering
<1>9. \A g \in Slots : handler'[g] = IF g = h THEN hd ELSE handler[g]
  BY <1>2, <1>8, DescriptorShapes
<1>10. DescriptorInv'
  BY <1>1, <1>2, <1>6, <1>8, <1>9, TimerStarted
<1>11. /\ handler'[h].token = SetupToken(World) /\ handler'[h].kind # "none"
       /\ payload' = [payload EXCEPT ![SetupToken(World)] = h]
       /\ batch' \subseteq batch /\ ticking' \subseteq ticking
       /\ \A g \in Slots \ {h} : /\ handler'[g].token = handler[g].token
                                 /\ handler'[g].kind = handler[g].kind
                                 /\ handler'[g].fd = handler[g].fd
  BY <1>1, <1>6, <1>8, <1>9 DEF t
<1>12. \A f \in batch' :
         LET p == payload[f.token]
         IN  /\ p \in deadSlots' => p \in deadSlots
             /\ owner'[handler[p].fd] = owner[handler[p].fd]
  BY <1>8
<1> QED
  BY <1>1, <1>3, <1>7, <1>8, <1>10, <1>11, <1>12, NewHandlerSettles

\* _closeSocket of a handler is set, and nothing else.
ClosesTo(w, h, b) == [w EXCEPT !.handler[h].closes = b]
Closing(hd, b) == [hd EXCEPT !.closes = b]

IsAltering(x, w, h, hd) ==
  /\ x \in Worlds
  /\ x.handler = [w.handler EXCEPT ![h] = hd]
  /\ x.dead = w.dead /\ x.epoll = w.epoll /\ x.owner = w.owner
  /\ x.payload = w.payload /\ x.vectors = w.vectors
  /\ x.collided = w.collided /\ x.stolen = w.stolen

LEMMA ClosingIs ==
  ASSUME NEW hd \in Handlers, NEW b \in BOOLEAN
  PROVE  LET x == Closing(hd, b)
         IN  /\ x \in Handlers /\ x.kind = hd.kind /\ x.fd = hd.fd
             /\ x.token = hd.token /\ x.writes = hd.writes
             /\ x.closes = b /\ x.prot = hd.prot
  BY DEF Closing, Handlers

LEMMA ClosesSets ==
  ASSUME NEW w \in Worlds, NEW h \in Slots, NEW b \in BOOLEAN
  PROVE  IsAltering(ClosesTo(w, h, b), w, h, Closing(w.handler[h], b))
<1> DEFINE hd == Closing(w.handler[h], b)
           x == [w EXCEPT !.handler[h] = hd]
<1>1. w.handler[h] \in Handlers
  BY DEF Worlds
<1>2. hd \in Handlers
  BY <1>1, ClosingIs
<1>3. ClosesTo(w, h, b) = x
  BY DEF ClosesTo, Closing
<1> HIDE DEF hd
<1>4. IsAltering(x, w, h, hd)
  BY <1>2 DEF IsAltering, Worlds
<1> QED
  BY <1>3, <1>4 DEF hd

\* EnqueueForDelete of the handler of a socket.
IsEnqueuing(x, w, h) ==
  /\ x \in Worlds
  /\ x.dead = w.dead \cup {h}
  /\ x.epoll = [w.epoll EXCEPT ![w.handler[h].fd] = Unregistered]
  /\ x.handler = w.handler /\ x.owner = w.owner
  /\ x.payload = w.payload /\ x.vectors = w.vectors
  /\ x.collided = w.collided /\ x.stolen = w.stolen

LEMMA SocketEnqueues ==
  ASSUME NEW w \in Worlds, NEW h \in Slots, w.handler[h].kind # "timer"
  PROVE  IsEnqueuing(EnqueueHandler(w, h), w, h)
  BY EnqueueEnqueues DEF IsEnqueuing

LEMMA ConnectKeeps ==
  ASSUME ReactorInv, NEW ok \in BOOLEAN, Connect(ok)
  PROVE  ReactorInv'
<1> DEFINE h == CHOOSE s \in FreeSlots : TRUE
           fd == NewFd
           w == Opens(World, fd, h)
           t == SetupToken(w)
           nh == NewHandler("connector", fd, t, TRUE, "none")
           r == Register(w, h, "connector", fd, TRUE, "none")
           x == Add(r, h, TRUE)
           entry == Entry(t, TRUE)
<1>1. /\ step = "events" /\ step' = step
      /\ Settle(IF ok THEN ClosesTo(EnableWriteData(r, h), h, FALSE)
                ELSE EnqueueHandler(EnableWriteData(r, h), h))
      /\ batch' = batch /\ ticking' = ticking
      /\ h \in Slots \ Used /\ TokensLeft
      /\ fd \in Descriptors /\ owner[fd] = Free
  BY SlotGiven, NewFdGiven DEF Connect, Calls, ClosesTo
<1>2. ReactorTyped /\ DescriptorInv /\ TokenInv /\ "connector" \in Kinds
  BY DEF ReactorInv, TokenInv, Kinds
<1> HIDE DEF h, fd
<1>3. /\ w \in Worlds /\ w.owner = [owner EXCEPT ![fd] = h]
      /\ w.handler = handler /\ w.dead = deadSlots /\ w.epoll = epoll
      /\ w.payload = payload /\ w.vectors = vectors
      /\ w.collided = collided /\ w.stolen = stolen
  BY <1>1, <1>2, OpensOpens
<1> HIDE DEF w
<1>4. t \in Tokens /\ fd \in Int
  BY <1>1, <1>2, <1>3, SetupTokenGives, ReactorAssumption
<1>5. IsMaking(x, w, h, nh, fd, entry, t) /\ IsRegistering(r, w, h, nh, t)
  <2>1. w.epoll[fd] = Unregistered
    BY <1>1, <1>2, <1>3 DEF DescriptorInv, EpollNames, EpollNamed
  <2>2. IsMaking(x, w, h, nh, fd, entry, t)
    BY <1>1, <1>2, <1>3, <2>1, SocketMade
  <2>3. IsRegistering(r, w, h, nh, t)
    BY <1>1, <1>2, <1>3, <1>4, RegisterRegisters
  <2> QED
    BY <2>2, <2>3
<1> HIDE DEF t, r
<1>6. /\ nh \in Handlers /\ nh.kind = "connector" /\ nh.writes = FALSE
      /\ nh.fd = fd /\ nh.token = t /\ nh.closes = TRUE /\ nh.prot = "none"
  BY <1>1, <1>2, <1>4, ReactorAssumption DEF NewHandler, Handlers, Tokens
<1> HIDE DEF nh
<1>7. EnableWriteData(r, h) = x
  <2>1. r.handler[h] = nh
    BY <1>1, <1>3, <1>5 DEF IsRegistering, Worlds
  <2> QED
    BY <1>6, <2>1 DEF EnableWriteData
<1> HIDE DEF x
<1>8. x \in Worlds /\ x.handler[h] = nh
  BY <1>1, <1>3, <1>5 DEF IsMaking, Worlds
<1>9. CASE ok = TRUE
  <2> DEFINE hd == Closing(nh, FALSE)
             y == ClosesTo(x, h, FALSE)
  <2>1. IsAltering(y, x, h, hd)
    BY <1>1, <1>8, ClosesSets
  <2>2. /\ hd \in Handlers /\ hd.kind = "connector" /\ hd.fd = fd /\ hd.token = t
        /\ ~hd.closes /\ hd.prot = "none"
    BY <1>6, ClosingIs
  <2>3. Settle(y)
    BY <1>1, <1>7, <1>9
  <2> HIDE DEF y, hd
  <2>4. ReactorTyped'
    BY <1>2, <2>1, <2>3, SettledTyped DEF IsAltering
  <2>5. /\ handler' = [handler EXCEPT ![h] = hd]
        /\ epoll' = [epoll EXCEPT ![fd] = entry]
        /\ owner' = [owner EXCEPT ![fd] = h] /\ deadSlots' = deadSlots
        /\ payload' = [payload EXCEPT ![t] = h] /\ vectors' = TokenLeaves
        /\ collided' = collided /\ stolen' = stolen
    BY <1>3, <1>5, <2>1, <2>3 DEF Settle, IsMaking, IsAltering
  <2>6. entry = [token |-> hd.token, out |-> hd.writes \/ hd.kind = "connector"]
    BY <2>2 DEF Entry
  <2> HIDE DEF entry
  <2>7. /\ \A g \in Slots : handler'[g] = IF g = h THEN hd ELSE handler[g]
        /\ \A d \in Descriptors : owner'[d] = IF d = fd THEN h ELSE owner[d]
        /\ \A d \in Descriptors : epoll'[d] = IF d = fd THEN entry ELSE epoll[d]
    BY <1>2, <2>5, DescriptorShapes
  <2>8. DescriptorInv'
    BY <1>1, <1>2, <2>2, <2>5, <2>6, <2>7, SocketOpened
  <2>9. hd.token = SetupToken(w) /\ hd.kind # "none"
        /\ payload' = [payload EXCEPT ![SetupToken(w)] = h]
    BY <2>2, <2>5 DEF t
  <2> QED
    BY <1>1, <1>3, <2>4, <2>5, <2>8, <2>9, OpenedSettles
<1>10. CASE ok = FALSE
  <2> DEFINE y == EnqueueHandler(x, h)
  <2>1. IsEnqueuing(y, x, h)
    BY <1>1, <1>6, <1>8, SocketEnqueues
  <2>2. Settle(y)
    BY <1>1, <1>7, <1>10
  <2> HIDE DEF y, entry
  <2>3. ReactorTyped'
    BY <1>2, <2>1, <2>2, SettledTyped DEF IsEnqueuing
  <2>4. /\ handler' = [handler EXCEPT ![h] = nh]
        /\ epoll' = [[epoll EXCEPT ![fd] = entry] EXCEPT ![fd] = Unregistered]
        /\ owner' = [owner EXCEPT ![fd] = h]
        /\ deadSlots' = deadSlots \cup {h}
        /\ payload' = [payload EXCEPT ![t] = h] /\ vectors' = TokenLeaves
        /\ collided' = collided /\ stolen' = stolen
    BY <1>3, <1>5, <1>6, <1>8, <2>1, <2>2 DEF Settle, IsMaking, IsEnqueuing
  <2>5. epoll[fd] = Unregistered
    BY <1>1, <1>2 DEF DescriptorInv, EpollNames, EpollNamed
  <2>6. nh.closes
    BY <1>6
  <2>7. /\ \A g \in Slots : handler'[g] = IF g = h THEN nh ELSE handler[g]
        /\ \A d \in Descriptors : owner'[d] = IF d = fd THEN h ELSE owner[d]
        /\ \A d \in Descriptors : epoll'[d] = epoll[d]
    BY <1>2, <2>4, <2>5, DescriptorShapes
  <2>8. DescriptorInv'
    <3>1. /\ step = "events" /\ step' = step
          /\ h \in Slots \ Used /\ fd \in Descriptors /\ owner[fd] = Free
          /\ deadSlots' = deadSlots \cup {h}
          /\ collided' = collided /\ stolen' = stolen
      BY <1>1, <2>4
    <3> QED
      BY <3>1, <1>2, <1>6, <2>7, <2>6, SocketFailed
  <2>9. nh.token = SetupToken(w) /\ nh.kind # "none"
        /\ payload' = [payload EXCEPT ![SetupToken(w)] = h]
    BY <1>6, <2>4 DEF t
  <2> QED
    BY <1>1, <1>3, <2>3, <2>4, <2>8, <2>9, OpenedSettles
<1> QED
  BY <1>9, <1>10

\* The world that the connector c has left, in which o is to close its descriptor.
Left(c, o) == Opens(EnqueueHandler(World, c), handler[c].fd, o)

\* The carrier h is made on the descriptor of the connector c.
Taking(c, h, o, prot, b) ==
  ClosesTo(Add(Register(Left(c, o), h, "carrier", handler[c].fd, TRUE, prot),
               h, FALSE), c, b)

IsTaking(y, c, h, fd, o, nh, cd, t) ==
  /\ y \in Worlds
  /\ y.handler = [[handler EXCEPT ![h] = nh] EXCEPT ![c] = cd]
  /\ y.epoll = [[epoll EXCEPT ![fd] = Unregistered] EXCEPT ![fd] = Entry(t, FALSE)]
  /\ y.owner = [owner EXCEPT ![fd] = o] /\ y.dead = deadSlots \cup {c}
  /\ y.payload = [payload EXCEPT ![t] = h] /\ y.vectors = TokenLeaves
  /\ y.collided = collided /\ y.stolen = stolen

LEMMA TakingTakes ==
  ASSUME ReactorTyped, TokenInv, TokensLeft, NEW c \in Slots,
         handler[c].kind = "connector", handler[c].fd \in Descriptors,
         NEW h \in Slots, h # c, NEW o \in Slots,
         NEW prot \in {"none", "live", "dead"}, NEW b \in BOOLEAN
  PROVE  LET t == SetupToken(Left(c, o))
         IN  /\ IsTaking(Taking(c, h, o, prot, b), c, h, handler[c].fd, o,
                         NewHandler("carrier", handler[c].fd, t, TRUE, prot),
                         Closing(handler[c], b), t)
             /\ t \in Tokens
             /\ Left(c, o) \in Worlds /\ Left(c, o).payload = payload
             /\ Left(c, o).vectors = vectors
<1> DEFINE fd == handler[c].fd
           q == EnqueueHandler(World, c)
           w == Left(c, o)
           t == SetupToken(w)
           nh == NewHandler("carrier", fd, t, TRUE, prot)
           x == Add(Register(w, h, "carrier", fd, TRUE, prot), h, FALSE)
           y == ClosesTo(x, c, b)
<1>1. IsEnqueuing(q, World, c)
  <2>1. World \in Worlds /\ World.handler = handler
    BY DEF ReactorTyped, World
  <2> QED
    BY <2>1, SocketEnqueues
<1> HIDE DEF q
<1>2. /\ q \in Worlds /\ q.dead = deadSlots \cup {c}
      /\ q.epoll = [epoll EXCEPT ![fd] = Unregistered]
      /\ q.handler = handler /\ q.owner = owner
      /\ q.payload = payload /\ q.vectors = vectors
      /\ q.collided = collided /\ q.stolen = stolen
  BY <1>1 DEF IsEnqueuing, World
<1>3. /\ w \in Worlds /\ w.dead = deadSlots \cup {c}
      /\ w.epoll = [epoll EXCEPT ![fd] = Unregistered]
      /\ w.handler = handler /\ w.owner = [owner EXCEPT ![fd] = o]
      /\ w.payload = payload /\ w.vectors = vectors
      /\ w.collided = collided /\ w.stolen = stolen
  <2>1. w = Opens(q, fd, o)
    BY DEF Left, q
  <2> QED
    BY <1>2, <2>1, OpensIn
<1> HIDE DEF w
<1>4. t \in Tokens
  BY <1>3, SetupTokenGives
<1>5. IsMaking(x, w, h, nh, fd, Entry(t, FALSE), t)
  <2>1. w.epoll[fd] = Unregistered /\ "carrier" \in Kinds
    BY <1>3, DescriptorShapes DEF Kinds
  <2> QED
    BY <1>3, <2>1, SocketMade
<1> HIDE DEF t, nh, x
<1>6. x \in Worlds /\ x.handler[c] = handler[c]
  BY <1>3, <1>5, DescriptorShapes DEF IsMaking
<1>7. IsAltering(y, x, c, Closing(handler[c], b))
  BY <1>6, ClosesSets
<1> HIDE DEF y
<1>8. IsTaking(y, c, h, fd, o, nh, Closing(handler[c], b), t)
  BY <1>3, <1>5, <1>7 DEF IsMaking, IsAltering, IsTaking
<1> QED
  BY <1>3, <1>4, <1>8 DEF y, x, nh, t, w, Taking

\* The connector of an event, before it is handled.
LEMMA ConnectorOfEvent ==
  ASSUME ReactorInv, NEW e \in batch, NEW c, payload[e.token] = c
  PROVE  /\ c \in Slots \ deadSlots /\ c \in Used /\ handler[c].kind \in Sockets
         /\ handler[c].fd \in Descriptors /\ owner[handler[c].fd] = c
         /\ handler[c] \in Handlers
         /\ \A f \in batch \ {e} :
              LET p == payload[f.token]
              IN  /\ p \in Slots /\ p # c /\ p \notin deadSlots
                  /\ handler[p].fd \in Descriptors /\ handler[p].fd # handler[c].fd
<1>1. ReactorTyped /\ TokenInv /\ BatchHolds /\ KindsHold
  BY DEF ReactorInv, TokenInv, DescriptorInv
<1>2. /\ c \in Slots \ deadSlots /\ handler[c].kind \in Sockets
      /\ owner[handler[c].fd] = c
  BY <1>1 DEF BatchHolds
<1>3. handler[c].fd \in Descriptors /\ c \in Used /\ handler[c] \in Handlers
  BY <1>1, <1>2, DescriptorShapes DEF KindsHold, Used, Sockets
<1>4. ASSUME NEW f \in batch \ {e}
      PROVE  LET p == payload[f.token]
             IN  /\ p \in Slots /\ p # c /\ p \notin deadSlots
                 /\ handler[p].fd \in Descriptors /\ handler[p].fd # handler[c].fd
  <2>1. payload[f.token] # c
    BY <1>1, OthersInBatch
  <2> QED
    BY <1>1, <1>2, <2>1 DEF BatchHolds, KindsHold
<1> QED
  BY <1>2, <1>3, <1>4

LEMMA ConnectedKeeps ==
  ASSUME ReactorInv, NEW e \in batch, NEW c \in Slots, NEW sends \in BOOLEAN,
         Connected(e, c, sends)
  PROVE  ReactorInv'
<1> DEFINE h == CHOOSE s \in FreeSlots : TRUE
           fd == handler[c].fd
           w == Left(c, h)
           t == SetupToken(w)
           nh == NewHandler("carrier", fd, t, TRUE, "live")
           hd == Writing(nh, sends)
           cd == Closing(handler[c], FALSE)
           y == Taking(c, h, h, "live", FALSE)
           z == Sending(y, h, sends)
           entry == Entry(t, sends)
<1>1. /\ step = "events" /\ step' = step /\ Settle(z)
      /\ batch' = batch \ {e} /\ ticking' = ticking
      /\ payload[e.token] = c /\ handler[c].kind = "connector"
      /\ h \in Slots \ Used /\ TokensLeft
  BY SlotGiven DEF Connected, Handles, Handled, EnableReadData, Sending, Taking,
                   ClosesTo, Left
<1>2. ReactorTyped /\ DescriptorInv /\ TokenInv
  BY DEF ReactorInv, TokenInv
<1>3. /\ c \in Slots \ deadSlots /\ c \in Used /\ owner[fd] = c
      /\ fd \in Descriptors /\ handler[c] \in Handlers
  BY <1>1, ConnectorOfEvent
<1> HIDE DEF h
<1>4. h # c
  BY <1>1, <1>3
<1>5. /\ IsTaking(y, c, h, fd, h, nh, cd, t) /\ t \in Tokens
      /\ w \in Worlds /\ w.payload = payload /\ w.vectors = vectors
  BY ZenonT(60), <1>1, <1>2, <1>3, <1>4, TakingTakes
<1> HIDE DEF t, w, y
<1>6. /\ nh \in Handlers /\ nh.kind = "carrier" /\ nh.writes = FALSE
      /\ nh.fd = fd /\ nh.token = t /\ nh.closes = TRUE /\ nh.prot = "live"
  BY <1>3, <1>5, ReactorAssumption DEF NewHandler, Handlers, Tokens, Kinds
<1> HIDE DEF nh
<1>7. /\ hd \in Handlers /\ hd.kind = "carrier" /\ hd.fd = fd /\ hd.token = t
      /\ hd.writes = sends /\ hd.closes /\ hd.prot = "live"
  BY <1>6, WritingIs
<1>8. /\ cd \in Handlers /\ cd.kind = "connector" /\ cd.fd = fd
      /\ cd.token = handler[c].token /\ cd.closes = FALSE
      /\ cd.prot = handler[c].prot
  BY <1>1, <1>3, ClosingIs
<1> HIDE DEF hd, cd
<1>9. y.handler[h] = nh /\ y.epoll[fd] = Entry(t, FALSE) /\ y \in Worlds
  BY <1>1, <1>2, <1>3, <1>4, <1>5, DescriptorShapes DEF IsTaking
<1>10. IsToggling(z, y, h, hd, fd, entry)
  BY <1>1, <1>3, <1>5, <1>6, <1>9, CarrierSends DEF hd
<1> HIDE DEF z
<1>11. ReactorTyped'
  BY <1>1, <1>2, <1>10, SettledTyped DEF IsToggling
<1>12. entry = [token |-> hd.token, out |-> hd.writes]
  BY <1>7 DEF Entry
<1> HIDE DEF entry
<1>13. /\ handler' = [[[handler EXCEPT ![h] = nh] EXCEPT ![c] = cd] EXCEPT ![h] = hd]
       /\ epoll' = [[[epoll EXCEPT ![fd] = Unregistered]
                       EXCEPT ![fd] = Entry(t, FALSE)] EXCEPT ![fd] = entry]
       /\ owner' = [owner EXCEPT ![fd] = h]
  BY <1>1, <1>5, <1>10 DEF Settle, IsTaking, IsToggling
<1>14. /\ deadSlots' = deadSlots \cup {c}
       /\ payload' = [payload EXCEPT ![t] = h] /\ vectors' = TokenLeaves
       /\ collided' = collided /\ stolen' = stolen
  BY <1>1, <1>5, <1>10 DEF Settle, IsTaking, IsToggling
<1>15. \A g \in Slots : handler'[g] = IF g = h THEN hd
                                      ELSE IF g = c THEN cd ELSE handler[g]
  BY <1>1, <1>2, <1>4, <1>13, DescriptorShapes
<1>16. /\ \A d \in Descriptors : owner'[d] = IF d = fd THEN h ELSE owner[d]
       /\ \A d \in Descriptors : epoll'[d] = IF d = fd THEN entry ELSE epoll[d]
  BY <1>2, <1>3, <1>13, DescriptorShapes
<1>17. DescriptorInv'
  <2>1. step' = step /\ handler[c].kind = "connector" /\ h \in Slots \ Used
    BY <1>1
  <2>2. IF cd.closes THEN h = c /\ hd.prot = "dead" ELSE h = h
    BY <1>8
  <2>3. hd \in Handlers /\ hd.fd = fd /\ hd.kind = "carrier" /\ hd.closes
    BY <1>7
  <2>4. cd.kind = "connector" /\ cd.fd = fd /\ cd.prot = handler[c].prot
    BY <1>8
  <2>5. /\ deadSlots' = deadSlots \cup {c}
        /\ collided' = collided /\ stolen' = stolen
    BY <1>14
  <2> QED
    BY <1>2, <1>3, <2>1, <2>2, <2>3, <2>4, <2>5, <1>12, <1>15, <1>16, SocketTaken
<1>18. hd.token = SetupToken(w) /\ hd.kind # "none"
       /\ payload' = [payload EXCEPT ![SetupToken(w)] = h]
  BY <1>7, <1>14 DEF t
<1>19. \A d \in Descriptors : d # handler[c].fd => owner'[d] = owner[d]
  BY <1>16
<1>20. /\ batch' \subseteq batch /\ ticking' \subseteq ticking
       /\ handler'[h].token = SetupToken(w) /\ handler'[h].kind # "none"
       /\ \A g \in Slots \ {h} : /\ handler'[g].token = handler[g].token
                                 /\ handler'[g].kind = handler[g].kind
                                 /\ handler'[g].fd = handler[g].fd
  BY <1>1, <1>8, <1>15, <1>18
<1>21. \A f \in batch' :
         LET p == payload[f.token]
         IN  /\ p \in deadSlots' => p \in deadSlots
             /\ owner'[handler[p].fd] = owner[handler[p].fd]
  BY <1>1, <1>14, <1>19, ConnectorOfEvent
<1> QED
  <2>1. /\ step = "events" /\ step' = step /\ TokensLeft /\ h \in Slots \ Used
        /\ w \in Worlds /\ w.payload = payload /\ w.vectors = vectors
        /\ vectors' = TokenLeaves
        /\ payload' = [payload EXCEPT ![SetupToken(w)] = h]
    BY <1>1, <1>5, <1>14, <1>18
  <2> QED
    BY <2>1, <1>11, <1>17, <1>20, <1>21, NewHandlerSettles

LEMMA RefusedKeeps ==
  ASSUME ReactorInv, NEW e \in batch, NEW c \in Slots, Refused(e, c)
  PROVE  ReactorInv'
<1> DEFINE h == CHOOSE s \in FreeSlots : TRUE
           fd == handler[c].fd
           w == Left(c, c)
           t == SetupToken(w)
           hd == NewHandler("carrier", fd, t, TRUE, "dead")
           cd == Closing(handler[c], TRUE)
           y == Taking(c, h, c, "dead", TRUE)
           entry == Entry(t, FALSE)
<1>1. /\ step = "events" /\ step' = step /\ Settle(y)
      /\ batch' = batch \ {e} /\ ticking' = ticking
      /\ payload[e.token] = c /\ handler[c].kind = "connector"
      /\ h \in Slots \ Used /\ TokensLeft
  BY SlotGiven DEF Refused, Handles, Handled, EnableReadData, Taking, ClosesTo, Left
<1>2. ReactorTyped /\ DescriptorInv /\ TokenInv
  BY DEF ReactorInv, TokenInv
<1>3. /\ c \in Slots \ deadSlots /\ c \in Used /\ owner[fd] = c
      /\ fd \in Descriptors /\ handler[c] \in Handlers
  BY <1>1, ConnectorOfEvent
<1> HIDE DEF h
<1>4. h # c
  BY <1>1, <1>3
<1>5. /\ IsTaking(y, c, h, fd, c, hd, cd, t) /\ t \in Tokens
      /\ w \in Worlds /\ w.payload = payload /\ w.vectors = vectors
  BY ZenonT(60), <1>1, <1>2, <1>3, <1>4, TakingTakes
<1> HIDE DEF t, w, y
<1>6. /\ hd \in Handlers /\ hd.kind = "carrier" /\ hd.writes = FALSE
      /\ hd.fd = fd /\ hd.token = t /\ hd.closes /\ hd.prot = "dead"
  BY <1>3, <1>5, ReactorAssumption DEF NewHandler, Handlers, Tokens, Kinds
<1>7. /\ cd \in Handlers /\ cd.kind = "connector" /\ cd.fd = fd
      /\ cd.token = handler[c].token /\ cd.closes = TRUE
      /\ cd.prot = handler[c].prot
  BY <1>1, <1>3, ClosingIs
<1> HIDE DEF hd, cd
<1>8. ReactorTyped'
  BY <1>1, <1>2, <1>5, SettledTyped DEF IsTaking
<1>9. entry = [token |-> hd.token, out |-> hd.writes]
  BY <1>6 DEF Entry
<1>10. /\ handler' = [[handler EXCEPT ![h] = hd] EXCEPT ![c] = cd]
       /\ epoll' = [[epoll EXCEPT ![fd] = Unregistered] EXCEPT ![fd] = entry]
       /\ owner' = [owner EXCEPT ![fd] = c]
  BY <1>1, <1>5 DEF Settle, IsTaking
<1>11. /\ deadSlots' = deadSlots \cup {c}
       /\ payload' = [payload EXCEPT ![t] = h] /\ vectors' = TokenLeaves
       /\ collided' = collided /\ stolen' = stolen
  BY <1>1, <1>5 DEF Settle, IsTaking
<1> HIDE DEF entry
<1>12. \A g \in Slots : handler'[g] = IF g = h THEN hd
                                      ELSE IF g = c THEN cd ELSE handler[g]
  BY <1>1, <1>2, <1>4, <1>10, DescriptorShapes
<1>13. /\ \A d \in Descriptors : owner'[d] = IF d = fd THEN c ELSE owner[d]
       /\ \A d \in Descriptors : epoll'[d] = IF d = fd THEN entry ELSE epoll[d]
  BY <1>2, <1>3, <1>10, DescriptorShapes
<1>14. DescriptorInv'
  <2>1. step' = step /\ handler[c].kind = "connector" /\ h \in Slots \ Used
    BY <1>1
  <2>2. IF cd.closes THEN c = c /\ hd.prot = "dead" ELSE c = h
    BY <1>6, <1>7
  <2>3. hd \in Handlers /\ hd.fd = fd /\ hd.kind = "carrier" /\ hd.closes
    BY <1>6
  <2>4. cd.kind = "connector" /\ cd.fd = fd /\ cd.prot = handler[c].prot
    BY <1>7
  <2>5. /\ deadSlots' = deadSlots \cup {c}
        /\ collided' = collided /\ stolen' = stolen
    BY <1>11
  <2> QED
    BY <1>2, <1>3, <2>1, <2>2, <2>3, <2>4, <2>5, <1>9, <1>12, <1>13, SocketTaken
<1>15. hd.token = SetupToken(w) /\ hd.kind # "none"
       /\ payload' = [payload EXCEPT ![SetupToken(w)] = h]
  BY <1>6, <1>11 DEF t
<1>16. \A d \in Descriptors : d # handler[c].fd => owner'[d] = owner[d]
  BY <1>13
<1>17. /\ batch' \subseteq batch /\ ticking' \subseteq ticking
       /\ handler'[h].token = SetupToken(w) /\ handler'[h].kind # "none"
       /\ \A g \in Slots \ {h} : /\ handler'[g].token = handler[g].token
                                 /\ handler'[g].kind = handler[g].kind
                                 /\ handler'[g].fd = handler[g].fd
  BY <1>1, <1>7, <1>12, <1>15
<1>18. \A f \in batch' :
         LET p == payload[f.token]
         IN  /\ p \in deadSlots' => p \in deadSlots
             /\ owner'[handler[p].fd] = owner[handler[p].fd]
  BY <1>1, <1>11, <1>16, ConnectorOfEvent
<1> QED
  <2>1. /\ step = "events" /\ step' = step /\ TokensLeft /\ h \in Slots \ Used
        /\ w \in Worlds /\ w.payload = payload /\ w.vectors = vectors
        /\ vectors' = TokenLeaves
        /\ payload' = [payload EXCEPT ![SetupToken(w)] = h]
    BY <1>1, <1>5, <1>11, <1>15
  <2> QED
    BY <2>1, <1>8, <1>14, <1>17, <1>18, NewHandlerSettles

-----------------------------------------------------------------------------
(* Callbacks that make no handler *)

LEMMA WorldIs ==
  ASSUME ReactorTyped
  PROVE  /\ World \in Worlds /\ World.owner = owner
         /\ World.handler = handler /\ World.dead = deadSlots /\ World.epoll = epoll
         /\ World.payload = payload /\ World.vectors = vectors
         /\ World.collided = collided /\ World.stolen = stolen
  BY DEF ReactorTyped, World

\* What a callback that makes no handler keeps of the tokens and of the pulse.
LEMMA CallbackSettles ==
  ASSUME ReactorInv, step = "events", step' = step, ReactorTyped', DescriptorInv',
         payload' = payload, vectors' = vectors,
         \A g \in Slots : /\ handler'[g].token = handler[g].token
                          /\ handler'[g].kind = handler[g].kind
                          /\ handler'[g].fd = handler[g].fd,
         batch' \subseteq batch, ticking' \subseteq ticking,
         \A f \in batch' :
           LET p == payload[f.token]
           IN  /\ p \in deadSlots' => p \in deadSlots
               /\ owner'[handler[p].fd] = owner[handler[p].fd]
  PROVE  ReactorInv'
<1>1. TokenInv'
  BY TokensStay DEF ReactorInv
<1>2. BatchHolds'
  <2>1. ASSUME NEW f \in batch'
        PROVE  LET p == payload[f.token]
               IN  /\ payload'[f.token] = p /\ p \notin deadSlots'
                   /\ handler'[p].kind = handler[p].kind
                   /\ handler'[p].fd = handler[p].fd
                   /\ owner'[handler[p].fd] = owner[handler[p].fd]
    BY DEF ReactorInv, BatchHolds
  <2> QED
    BY <2>1, BatchStays DEF ReactorInv
<1>3. StepsHold'
  <2>1. \A g \in ticking' : g \in Slots
    BY DEF ReactorInv, StepsHold
  <2> QED
    BY <2>1, StepsStay DEF ReactorInv
<1> QED
  BY <1>1, <1>2, <1>3 DEF ReactorInv

\* A callback that changes no handler and no descriptor.
LEMMA NothingChanges ==
  ASSUME ReactorInv, step = "events", step' = step, Settle(World),
         batch' \subseteq batch, ticking' \subseteq ticking
  PROVE  ReactorInv'
<1>1. ReactorTyped
  BY DEF ReactorInv, TokenInv
<1>2. /\ UNCHANGED <<handler, deadSlots, epoll, owner, payload, vectors, collided,
                     stolen>>
      /\ ReactorTyped'
  BY <1>1, WorldIs, SettledTyped DEF Settle
<1>3. DescriptorInv'
  <2>1. DescriptorInv
    BY DEF ReactorInv
  <2>2. KindsHold'
    BY <1>2, <2>1 DEF DescriptorInv, KindsHold, Used
  <2>3. OwnersClose'
    BY <1>2, <2>1 DEF DescriptorInv, OwnersClose
  <2>4. ClosersOwn'
    BY <1>2, <2>1 DEF DescriptorInv, ClosersOwn, CloserOwns, SharesWith
  <2>5. EpollNames' /\ SocketsWatched'
    BY <1>2, <2>1
       DEF DescriptorInv, EpollNames, EpollNamed, SocketsWatched, SocketWatched
  <2> QED
    BY <1>2, <2>1, <2>2, <2>4, <2>5, <2>3 DEF DescriptorInv
<1> QED
  BY <1>2, <1>3, CallbackSettles

\* The handler of a socket is enqueued in the callback of its event: it is to
\* close its descriptor, or the descriptor is lost.
LEMMA EnqueuedSettles ==
  ASSUME ReactorInv, step = "events", step' = step, ReactorTyped',
         NEW e \in batch, NEW h, payload[e.token] = h,
         NEW hd, hd.kind = handler[h].kind, hd.fd = handler[h].fd,
         hd.token = handler[h].token, hd.prot = handler[h].prot,
         hd.closes \in BOOLEAN, handler[h].kind # "connector" => hd.closes,
         handler' = [handler EXCEPT ![h] = hd],
         NEW o, o = IF hd.closes THEN h ELSE Lost,
         owner' = [owner EXCEPT ![handler[h].fd] = o],
         epoll' = [epoll EXCEPT ![handler[h].fd] = Unregistered],
         deadSlots' = deadSlots \cup {h},
         UNCHANGED <<payload, vectors, collided, stolen>>,
         batch' = batch \ {e}, ticking' = ticking
  PROVE  ReactorInv'
<1>1. ReactorTyped /\ DescriptorInv
  BY DEF ReactorInv, TokenInv
<1>2. /\ h \in Slots \ deadSlots /\ handler[h].kind \in Sockets
      /\ handler[h].fd \in Descriptors /\ owner[handler[h].fd] = h
  BY ConnectorOfEvent
<1>3. /\ \A g \in Slots : handler'[g] = IF g = h THEN hd ELSE handler[g]
      /\ \A d \in Descriptors :
           owner'[d] = IF d = handler[h].fd THEN o ELSE owner[d]
      /\ \A d \in Descriptors :
           epoll'[d] = IF d = handler[h].fd THEN Unregistered ELSE epoll[d]
  BY <1>1, <1>2, DescriptorShapes
<1>4. \A d \in Descriptors :
        owner'[d] = IF d = handler[h].fd /\ ~hd.closes THEN Lost ELSE owner[d]
  BY <1>2, <1>3
<1>5. DescriptorInv'
  BY <1>1, <1>2, <1>3, <1>4, SocketEnqueued
<1>6. \A f \in batch' :
        LET p == payload[f.token]
        IN  /\ p \in deadSlots' => p \in deadSlots
            /\ owner'[handler[p].fd] = owner[handler[p].fd]
  BY <1>3, ConnectorOfEvent
<1>7. \A g \in Slots : /\ handler'[g].token = handler[g].token
                       /\ handler'[g].kind = handler[g].kind
                       /\ handler'[g].fd = handler[g].fd
  BY <1>3
<1> QED
  BY <1>5, <1>6, <1>7, CallbackSettles

LEMMA CarrierFailsKeeps ==
  ASSUME ReactorInv, NEW e \in batch, NEW h \in Slots, CarrierFails(e, h)
  PROVE  ReactorInv'
<1> DEFINE hd == handler[h]
           x == EnqueueHandler(World, h)
<1>1. /\ step = "events" /\ step' = step /\ Settle(x)
      /\ batch' = batch \ {e} /\ ticking' = ticking
      /\ payload[e.token] = h /\ hd.kind \in {"carrier", "udp"}
  BY DEF CarrierFails, Handles, Handled
<1>2. ReactorTyped /\ DescriptorInv
  BY DEF ReactorInv, TokenInv
<1>3. /\ owner[hd.fd] = h /\ hd.fd \in Descriptors
  BY <1>1, ConnectorOfEvent
<1>4. IsEnqueuing(x, World, h)
  BY <1>1, <1>2, WorldIs, SocketEnqueues
<1> HIDE DEF x
<1>5. ReactorTyped'
  BY <1>1, <1>2, <1>4, SettledTyped DEF IsEnqueuing
<1>6. hd.closes = TRUE
  BY <1>1, <1>2, DescriptorShapes DEF DescriptorInv, KindsHold, Handlers
<1>7. handler' = handler /\ owner' = owner
  BY <1>1, <1>2, <1>4, WorldIs DEF Settle, IsEnqueuing
<1>8. /\ epoll' = [epoll EXCEPT ![hd.fd] = Unregistered]
      /\ deadSlots' = deadSlots \cup {h}
      /\ UNCHANGED <<payload, vectors, collided, stolen>>
  BY <1>1, <1>2, <1>4, WorldIs DEF Settle, IsEnqueuing
<1>9. handler' = [handler EXCEPT ![h] = hd] /\ owner' = [owner EXCEPT ![hd.fd] = h]
  BY <1>2, <1>3, <1>7, DescriptorShapes
<1> QED
  BY <1>1, <1>5, <1>6, <1>8, <1>9, EnqueuedSettles

LEMMA ConnectorFailsKeeps ==
  ASSUME ReactorInv, NEW e \in batch, NEW c \in Slots, ConnectorFails(e, c)
  PROVE  ReactorInv'
<1> DEFINE fd == handler[c].fd
           hd == Closing(handler[c], TRUE)
           x == EnqueueHandler(World, c)
           y == ClosesTo(x, c, TRUE)
<1>1. /\ step = "events" /\ step' = step /\ Settle(y)
      /\ batch' = batch \ {e} /\ ticking' = ticking
      /\ payload[e.token] = c /\ handler[c].kind = "connector"
  BY DEF ConnectorFails, Handles, Handled, ClosesTo
<1>2. ReactorTyped /\ DescriptorInv
  BY DEF ReactorInv, TokenInv
<1>3. owner[fd] = c /\ fd \in Descriptors /\ handler[c] \in Handlers
  BY <1>1, ConnectorOfEvent
<1>4. IsEnqueuing(x, World, c)
  BY <1>1, <1>2, WorldIs, SocketEnqueues
<1> HIDE DEF x
<1>5. x \in Worlds /\ x.handler = handler
  BY <1>2, <1>4, WorldIs DEF IsEnqueuing
<1>6. IsAltering(y, x, c, hd)
  BY <1>5, ClosesSets
<1>7. /\ hd.kind = handler[c].kind /\ hd.fd = fd /\ hd.token = handler[c].token
      /\ hd.closes = TRUE /\ hd.prot = handler[c].prot
  BY <1>3, ClosingIs
<1> HIDE DEF y, hd
<1>8. ReactorTyped'
  BY <1>1, <1>2, <1>6, SettledTyped DEF IsAltering
<1>9. /\ handler' = [handler EXCEPT ![c] = hd]
      /\ epoll' = [epoll EXCEPT ![fd] = Unregistered]
      /\ deadSlots' = deadSlots \cup {c}
      /\ UNCHANGED <<owner, payload, vectors, collided, stolen>>
  BY <1>1, <1>2, <1>4, <1>6, WorldIs DEF Settle, IsEnqueuing, IsAltering
<1>10. owner' = [owner EXCEPT ![fd] = c]
  BY <1>2, <1>3, <1>9, DescriptorShapes
<1>11. hd.closes \in BOOLEAN /\ hd.closes /\ c = IF hd.closes THEN c ELSE Lost
  BY <1>7
<1> QED
  BY ZenonT(60), <1>1, <1>7, <1>8, <1>9, <1>10, <1>11, EnqueuedSettles

LEMMA ConnectorErredKeeps ==
  ASSUME ReactorInv, NEW e \in batch, NEW c \in Slots, ConnectorErred(e, c)
  PROVE  ReactorInv'
<1> DEFINE fd == handler[c].fd
           hd == handler[c]
           x == EnqueueHandler(World, c)
           y == Opens(x, fd, Lost)
<1>1. /\ step = "events" /\ step' = step /\ Settle(y)
      /\ batch' = batch \ {e} /\ ticking' = ticking
      /\ payload[e.token] = c /\ handler[c].kind = "connector"
  BY DEF ConnectorErred, Handles, Handled, Opens
<1>2. ReactorTyped /\ DescriptorInv
  BY DEF ReactorInv, TokenInv
<1>3. fd \in Descriptors /\ c \notin deadSlots
  BY <1>1, ConnectorOfEvent
<1>4. IsEnqueuing(x, World, c)
  BY <1>1, <1>2, WorldIs, SocketEnqueues
<1> HIDE DEF x
<1>5. x \in Worlds
  BY <1>4 DEF IsEnqueuing
<1>6. /\ y \in Worlds /\ y.owner = [x.owner EXCEPT ![fd] = Lost]
      /\ y.handler = x.handler /\ y.dead = x.dead /\ y.epoll = x.epoll
      /\ y.payload = x.payload /\ y.vectors = x.vectors
      /\ y.collided = x.collided /\ y.stolen = x.stolen
  BY <1>3, <1>5, LosesIn
<1> HIDE DEF y
<1>7. hd.closes = FALSE
  BY <1>1, <1>2, <1>3, DescriptorShapes DEF DescriptorInv, KindsHold, Handlers
<1>8. ReactorTyped'
  BY <1>1, <1>2, <1>6, SettledTyped
<1>9. /\ handler' = handler
      /\ owner' = [owner EXCEPT ![fd] = Lost]
      /\ epoll' = [epoll EXCEPT ![fd] = Unregistered]
      /\ deadSlots' = deadSlots \cup {c}
      /\ UNCHANGED <<payload, vectors, collided, stolen>>
  BY <1>1, <1>2, <1>4, <1>6, WorldIs DEF Settle, IsEnqueuing
<1>10. handler' = [handler EXCEPT ![c] = hd]
  BY <1>2, <1>9, DescriptorShapes
<1> QED
  BY <1>1, <1>7, <1>8, <1>9, <1>10, EnqueuedSettles

\* The interest in writing of a carrier that is live, or whose event it is.
LEMMA InterestSettles ==
  ASSUME ReactorInv, step = "events", step' = step,
         NEW h \in Slots, handler[h].kind \in {"carrier", "udp"},
         NEW out \in BOOLEAN,
         Settle(Modify([World EXCEPT !.handler[h].writes = out], h, out)),
         epoll[handler[h].fd] # Unregistered =>
           h \notin deadSlots /\ owner[handler[h].fd] = h,
         batch' \subseteq batch, ticking' \subseteq ticking
  PROVE  ReactorInv'
<1> DEFINE fd == handler[h].fd
           hd == Writing(handler[h], out)
           entry == [token |-> handler[h].token, out |-> out]
           x == Modify([World EXCEPT !.handler[h].writes = out], h, out)
<1>1. ReactorTyped /\ TokensNamed /\ DescriptorInv
  BY DEF ReactorInv, TokenInv
<1>2. fd \in Descriptors /\ handler[h] \in Handlers
  BY <1>1, DescriptorShapes DEF DescriptorInv, KindsHold, Sockets
<1>3. /\ x \in Worlds
      /\ x.handler = [World.handler EXCEPT ![h] = [@ EXCEPT !.writes = out]]
      /\ x.epoll =
           IF World.handler[h].fd \in Descriptors
              /\ World.epoll[World.handler[h].fd] # Unregistered
           THEN [World.epoll EXCEPT ![World.handler[h].fd] =
                   [token |-> World.handler[h].token, out |-> out]]
           ELSE World.epoll
      /\ x.dead = World.dead /\ x.owner = World.owner
      /\ x.payload = World.payload /\ x.vectors = World.vectors
      /\ x.collided = World.collided /\ x.stolen = World.stolen
  BY <1>1, WorldIs, WritesToggle
<1>4. Settle(x)
  OBVIOUS
<1> HIDE DEF x
<1>5. ReactorTyped'
  BY <1>1, <1>3, <1>4, SettledTyped
<1>6. /\ handler' = [handler EXCEPT ![h] = hd]
      /\ epoll' = IF epoll[fd] # Unregistered THEN [epoll EXCEPT ![fd] = entry]
                  ELSE epoll
      /\ UNCHANGED <<owner, deadSlots, payload, vectors, collided, stolen>>
  BY <1>1, <1>2, <1>3, <1>4, WorldIs DEF Settle, Writing
<1>7. /\ hd.kind = handler[h].kind /\ hd.fd = fd /\ hd.token = handler[h].token
      /\ hd.closes = handler[h].closes /\ hd.prot = handler[h].prot
      /\ hd.writes = out
  BY <1>2, WritingIs
<1>8. entry = [token |-> handler[h].token, out |-> hd.writes]
  BY <1>7
<1> HIDE DEF hd, entry
<1>9. \A g \in Slots : handler'[g] = IF g = h THEN hd ELSE handler[g]
  BY <1>1, <1>6, DescriptorShapes
<1>10. \A d \in Descriptors :
         epoll'[d] = IF d = fd /\ epoll[d] # Unregistered THEN entry ELSE epoll[d]
  BY <1>1, <1>2, <1>6, DescriptorShapes
<1>11. hd.writes \in BOOLEAN
  BY <1>7
<1>12. DescriptorInv'
  <2>1. UNCHANGED <<owner, deadSlots, collided, stolen>>
    BY <1>6
  <2> QED
    BY <2>1, <1>1, <1>7, <1>8, <1>9, <1>10, <1>11, InterestChanges
<1>13. \A g \in Slots : /\ handler'[g].token = handler[g].token
                        /\ handler'[g].kind = handler[g].kind
                        /\ handler'[g].fd = handler[g].fd
  BY <1>7, <1>9
<1>14. UNCHANGED <<owner, deadSlots, payload, vectors>>
  BY <1>6
<1> QED
  BY <1>5, <1>12, <1>13, <1>14, CallbackSettles

LEMMA CarrierEventKeeps ==
  ASSUME ReactorInv, NEW e \in batch, NEW h \in Slots, NEW drains \in BOOLEAN,
         CarrierEvent(e, h, drains)
  PROVE  ReactorInv'
<1>1. /\ step = "events" /\ step' = step
      /\ batch' \subseteq batch /\ ticking' \subseteq ticking
      /\ payload[e.token] = h /\ handler[h].kind \in {"carrier", "udp"}
      /\ \/ Settle(StopWriting(World, h))
         \/ Settle(World)
  BY DEF CarrierEvent, Handles, Handled
<1>2. h \notin deadSlots /\ owner[handler[h].fd] = h
  BY <1>1, ConnectorOfEvent
<1>3. \/ Settle(Modify([World EXCEPT !.handler[h].writes = FALSE], h, FALSE))
      \/ Settle(World)
  BY <1>1 DEF StopWriting
<1> QED
  BY <1>1, <1>2, <1>3, InterestSettles, NothingChanges

\* The entry of a live carrier in the epoll set is its own.
LEMMA LiveCarrierOwns ==
  ASSUME ReactorInv, step = "events", NEW h \in Slots,
         handler[h].kind = "carrier", handler[h].prot = "live",
         epoll[handler[h].fd] # Unregistered
  PROVE  h \notin deadSlots /\ owner[handler[h].fd] = h
<1> DEFINE fd == handler[h].fd
<1>1. ReactorTyped /\ DescriptorInv /\ KindsHold
  BY DEF ReactorInv, TokenInv, DescriptorInv
<1>2. fd \in Descriptors /\ handler[h].closes
  BY <1>1 DEF KindsHold, Sockets
<1>3. owner[fd] = h
  BY <1>1, <1>2 DEF DescriptorInv, ClosersOwn, CloserOwns, SharesWith
<1>4. PICK g \in Slots : /\ handler[g].fd = fd /\ handler[g].kind \in Sockets
                         /\ g \notin deadSlots
  BY <1>1, <1>2 DEF DescriptorInv, EpollNames, EpollNamed
<1>5. CloserOwns(g) /\ (handler[g].closes \/ handler[g].kind = "connector")
  BY <1>1, <1>4 DEF DescriptorInv, ClosersOwn, KindsHold, Sockets
<1>6. owner[fd] = g
  BY <1>1, <1>3, <1>4, <1>5, DescriptorShapes DEF CloserOwns, SharesWith
<1> QED
  BY <1>3, <1>4, <1>6

LEMMA SendKeeps ==
  ASSUME ReactorInv, NEW h \in Slots, Send(h)
  PROVE  ReactorInv'
<1>1. /\ step = "events" /\ step' = step
      /\ batch' \subseteq batch /\ ticking' \subseteq ticking
      /\ handler[h].kind = "carrier" /\ handler[h].prot = "live"
      /\ ~handler[h].writes /\ Settle(SignalOutputData(World, h))
  BY DEF Send, Calls
<1>2. ReactorTyped
  BY DEF ReactorInv, TokenInv
<1> DEFINE y == [World EXCEPT !.handler[h].writes = TRUE]
<1>3. y.handler[h].kind = "carrier"
  BY <1>1, <1>2, WorldIs DEF Worlds, Handlers
<1>4. SignalOutputData(World, h) = Modify(y, h, TRUE)
  BY <1>1, <1>2, <1>3, WorldIs DEF SignalOutputData, EnableWriteData
<1>5. Settle(Modify([World EXCEPT !.handler[h].writes = TRUE], h, TRUE))
  BY <1>1, <1>4
<1> QED
  BY <1>1, <1>5, LiveCarrierOwns, InterestSettles

LEMMA CloseProtocolKeeps ==
  ASSUME ReactorInv, NEW h \in Slots, CloseProtocol(h)
  PROVE  ReactorInv'
<1> DEFINE hd == [handler[h] EXCEPT !.prot = "dead"]
           x == [World EXCEPT !.handler[h] = hd]
<1>1. /\ step = "events" /\ step' = step /\ Settle(x)
      /\ batch' \subseteq batch /\ ticking' \subseteq ticking
      /\ handler[h].prot = "live"
  <2>1. [World EXCEPT !.handler[h].prot = "dead"] = x
    BY DEF World
  <2> QED
    BY <2>1 DEF CloseProtocol, Calls
<1>2. ReactorTyped /\ DescriptorInv
  BY DEF ReactorInv, TokenInv
<1>3. handler[h] \in Handlers
  BY <1>2, DescriptorShapes
<1>4. /\ hd \in Handlers /\ hd.kind = handler[h].kind /\ hd.fd = handler[h].fd
      /\ hd.token = handler[h].token /\ hd.closes = handler[h].closes
      /\ hd.writes = handler[h].writes /\ hd.prot = "dead"
  BY <1>3 DEF Handlers
<1> HIDE DEF hd
<1>5. /\ x \in Worlds
      /\ x.handler = [World.handler EXCEPT ![h] = hd]
      /\ x.dead = World.dead /\ x.epoll = World.epoll /\ x.owner = World.owner
      /\ x.payload = World.payload /\ x.vectors = World.vectors
      /\ x.collided = World.collided /\ x.stolen = World.stolen
  BY <1>2, <1>4, WorldIs, SetsHandler
<1> HIDE DEF x
<1>6. ReactorTyped'
  BY <1>1, <1>2, <1>5, SettledTyped
<1>7. /\ handler' = [handler EXCEPT ![h] = hd]
      /\ UNCHANGED <<owner, epoll, deadSlots, payload, vectors, collided, stolen>>
  BY <1>1, <1>2, <1>5, WorldIs DEF Settle
<1>8. \A g \in Slots : handler'[g] = IF g = h THEN hd ELSE handler[g]
  BY <1>2, <1>7, DescriptorShapes
<1>9. UNCHANGED <<owner, epoll, deadSlots, payload, vectors, collided, stolen>>
  BY <1>7
<1>10. DescriptorInv'
  BY <1>1, <1>2, <1>4, <1>8, <1>9, ProtocolEnqueued
<1>11. \A g \in Slots : /\ handler'[g].token = handler[g].token
                        /\ handler'[g].kind = handler[g].kind
                        /\ handler'[g].fd = handler[g].fd
  BY <1>4, <1>8
<1> QED
  BY <1>1, <1>6, <1>9, <1>10, <1>11, CallbackSettles

LEMMA TickKeeps ==
  ASSUME ReactorInv, NEW h \in Slots, NEW ok \in BOOLEAN, Tick(h, ok)
  PROVE  ReactorInv'
<1> DEFINE x == EnqueueHandler(World, h)
           fd == handler[h].fd
<1>1. /\ step = "events" /\ step' = step /\ h \in ticking
      /\ batch' \subseteq batch /\ ticking' \subseteq ticking
      /\ Settle(World) \/ Settle(x)
  BY DEF Tick
<1>2. handler[h].kind = "timer" /\ ReactorTyped /\ DescriptorInv /\ BatchHolds
  BY <1>1 DEF ReactorInv, TokenInv, StepsHold
<1>3. CASE Settle(World)
  BY <1>1, <1>3, NothingChanges
<1>4. CASE Settle(x)
  <2>1. /\ x \in Worlds
        /\ x.dead = World.dead \cup {h}
        /\ x.epoll = [World.epoll EXCEPT ![World.handler[h].fd] = Unregistered]
        /\ x.collided = IF World.handler[h].kind = "timer"
                           /\ IsRegistered(World, World.handler[h].fd)
                        THEN TRUE ELSE World.collided
        /\ x.handler = World.handler /\ x.owner = World.owner
        /\ x.payload = World.payload /\ x.vectors = World.vectors
        /\ x.stolen = World.stolen
    BY <1>2, WorldIs, EnqueueEnqueues
  <2> HIDE DEF x
  <2>2. ReactorTyped'
    BY <1>2, <1>4, <2>1, SettledTyped
  <2>3. /\ deadSlots' = deadSlots \cup {h}
        /\ epoll' = [epoll EXCEPT ![fd] = Unregistered]
        /\ collided' = IF IsRegistered(World, fd) THEN TRUE ELSE collided
        /\ UNCHANGED <<handler, owner, payload, vectors, stolen>>
    BY <1>2, <1>4, <2>1, WorldIs DEF Settle
  <2>4. \A d \in Descriptors :
          epoll'[d] = IF d = fd THEN Unregistered ELSE epoll[d]
    BY <1>2, <2>3, DescriptorShapes
  <2>5. DescriptorInv'
    <3>1. /\ deadSlots' = deadSlots \cup {h}
          /\ collided' = IF IsRegistered(World, fd) THEN TRUE ELSE collided
          /\ UNCHANGED <<handler, owner, stolen>>
      BY <2>3
    <3> QED
      BY <3>1, <1>1, <1>2, <2>4, TimerEnqueued
  <2>6. \A f \in batch' :
          LET p == payload[f.token]
          IN  /\ p \in deadSlots' => p \in deadSlots
              /\ owner'[handler[p].fd] = owner[handler[p].fd]
    BY <1>1, <1>2, <2>3 DEF BatchHolds, Sockets
  <2>7. UNCHANGED <<handler, payload, vectors>>
    BY <2>3
  <2> QED
    BY <1>1, <2>2, <2>5, <2>6, <2>7, CallbackSettles
<1> QED
  BY <1>1, <1>3, <1>4

-----------------------------------------------------------------------------
(* The steps of a pulse *)

\* From one step to the next nothing happens to a descriptor; a carrier whose
\* connector closed its descriptor is gone before the reactor waits again.
LEMMA StepMoves ==
  ASSUME DescriptorInv,
         step \in {"handlers", "protocols"} =>
           \/ step' \in {"handlers", "protocols"}
           \/ \A h \in Slots : handler[h].prot # "dead",
         UNCHANGED <<handler, deadSlots, epoll, owner, collided, stolen>>
  PROVE  DescriptorInv'
<1>1. KindsHold'
  BY DEF DescriptorInv, KindsHold, Used
<1>2. OwnersClose'
  BY DEF DescriptorInv, OwnersClose
<1>3. \A h \in Slots : CloserOwns(h)'
  <2> TAKE h \in Slots
  <2>1. CloserOwns(h)
    BY DEF DescriptorInv, ClosersOwn
  <2> QED
    BY <2>1 DEF CloserOwns, SharesWith
<1>4. EpollNames' /\ SocketsWatched'
  BY DEF DescriptorInv, EpollNames, EpollNamed, SocketsWatched, SocketWatched
<1> QED
  BY <1>1, <1>2, <1>3, <1>4 DEF DescriptorInv, ClosersOwn

\* What is registered is the socket of a handler that owns it.
LEMMA RegisteredAre ==
  ASSUME ReactorInv, step = "wait", NEW d \in Descriptors,
         epoll[d] # Unregistered
  PROVE  \E h \in Slots : /\ handler[h].token = epoll[d].token
                          /\ handler[h].fd = d /\ handler[h].kind \in Sockets
                          /\ owner[d] = h /\ payload[epoll[d].token] = h
                          /\ epoll[d].token \in Tokens
<1>1. ReactorTyped /\ TokensNamed /\ DescriptorInv /\ deadSlots = {}
  BY DEF ReactorInv, TokenInv, StepsHold
<1>2. PICK h \in Slots : /\ handler[h].token = epoll[d].token
                         /\ handler[h].fd = d /\ handler[h].kind \in Sockets
  BY <1>1 DEF DescriptorInv, EpollNames, EpollNamed
<1>3. handler[h].closes \/ handler[h].kind = "connector"
  BY <1>1, <1>2 DEF DescriptorInv, KindsHold, Sockets
<1>4. owner[d] = h
  BY <1>1, <1>2, <1>3 DEF DescriptorInv, ClosersOwn, CloserOwns, SharesWith
<1>5. handler[h].token \in Tokens /\ payload[handler[h].token] = h
  BY <1>1, <1>2 DEF TokensNamed, Sockets
<1> QED
  BY <1>2, <1>4, <1>5

LEMMA WaitKeeps ==
  ASSUME ReactorInv, Wait
  PROVE  ReactorInv'
<1>1. /\ step = "wait" /\ step' = "events" /\ ticking' \in SUBSET Timers
      /\ UNCHANGED <<handler, deadSlots, epoll, owner, payload, vectors, fresh,
                     collided, stolen>>
  BY DEF Wait
<1>2. PICK ready \in SUBSET {d \in Descriptors : epoll[d] # Unregistered} :
        \E report \in [ready -> UNION {Reports(d) : d \in ready}] :
          batch' = {[token |-> epoll[d].token, ev |-> report[d]] : d \in ready}
  BY DEF Wait
<1>3. PICK report :
        batch' = {[token |-> epoll[d].token, ev |-> report[d]] : d \in ready}
  BY <1>2
<1>4. ReactorTyped /\ DescriptorInv /\ TokenInv /\ deadSlots = {}
  BY <1>1 DEF ReactorInv, TokenInv, StepsHold
<1>5. ReactorTyped'
  BY <1>1, <1>4 DEF ReactorTyped, World
<1>6. TokenInv'
  BY <1>1, <1>4, <1>5, TokensStay
<1>7. DescriptorInv'
  BY <1>1, <1>4, StepMoves
<1>8. ASSUME NEW e \in batch'
      PROVE  \E d \in Descriptors :
               /\ e = [token |-> epoll[d].token, ev |-> report[d]]
               /\ e.token \in Tokens
               /\ LET h == payload[e.token]
                  IN  /\ h \in Slots /\ handler[h].kind \in Sockets
                      /\ handler[h].fd = d /\ owner[d] = h
  <2>1. PICK d \in ready : e = [token |-> epoll[d].token, ev |-> report[d]]
    BY <1>3
  <2>2. d \in Descriptors /\ epoll[d] # Unregistered /\ e.token = epoll[d].token
    BY <1>2, <2>1
  <2> QED
    BY <1>1, <2>1, <2>2, RegisteredAre
<1>9. BatchHolds'
  <2>1. ASSUME NEW e \in batch'
        PROVE  /\ e.token \in Tokens
               /\ LET h == payload[e.token]
                  IN  /\ h \in Slots /\ h \notin deadSlots
                      /\ handler[h].kind \in Sockets
                      /\ owner[handler[h].fd] = h
    BY <1>4, <1>8
  <2>2. ASSUME NEW e \in batch', NEW f \in batch', e.token = f.token
        PROVE  e = f
    <3>1. PICK d \in Descriptors :
            /\ e = [token |-> epoll[d].token, ev |-> report[d]]
            /\ handler[payload[e.token]].fd = d
      BY <1>8
    <3>2. PICK c \in Descriptors :
            /\ f = [token |-> epoll[c].token, ev |-> report[c]]
            /\ handler[payload[f.token]].fd = c
      BY <1>8
    <3>3. d = c
      BY <2>2, <3>1, <3>2
    <3> QED
      BY <3>1, <3>2, <3>3
  <2> QED
    BY <1>1, <2>1, <2>2 DEF BatchHolds
<1>10. StepsHold'
  BY <1>1, <1>4 DEF StepsHold, Timers, Used
<1> QED
  BY <1>6, <1>7, <1>9, <1>10 DEF ReactorInv

\* After the events, and before the next.
LEMMA StepKeeps ==
  ASSUME ReactorInv, EndPulse \/ HandlersDone \/ ProtocolsDone
  PROVE  ReactorInv'
<1>1. /\ UNCHANGED <<handler, deadSlots, epoll, owner, payload, vectors, batch,
                     ticking, collided, stolen>>
      /\ fresh' = fresh \/ fresh' \in 1 .. 2
  BY DEF EndPulse, HandlersDone, ProtocolsDone
<1>2. ReactorTyped /\ DescriptorInv /\ TokenInv /\ StepsHold /\ BatchHolds
  BY DEF ReactorInv, TokenInv
<1>3. /\ step \in {"handlers", "protocols"} =>
           \/ step' \in {"handlers", "protocols"}
           \/ \A h \in Slots : handler[h].prot # "dead"
      /\ batch = {} /\ ticking = {}
      /\ step' \in {"wait", "protocols"} => deadSlots = {}
  BY <1>2 DEF EndPulse, HandlersDone, ProtocolsDone, StepsHold
<1>4. ReactorTyped'
  BY <1>1, <1>2 DEF ReactorTyped, World
<1>5. TokenInv'
  BY <1>1, <1>2, <1>4, TokensStay
<1>6. DescriptorInv'
  BY <1>1, <1>2, <1>3, StepMoves
<1>7. BatchHolds' /\ StepsHold'
  BY <1>1, <1>3 DEF BatchHolds, StepsHold
<1> QED
  BY <1>5, <1>6, <1>7 DEF ReactorInv

\* A handler is deleted, and with it what is in its slot.
LEMMA DeleteKeeps ==
  ASSUME ReactorInv, step' = step, NEW h \in Slots, Settle(Destroy(World, h)),
         \/ step = "handlers" /\ h \in deadSlots
         \/ step = "protocols" /\ handler[h].prot = "dead",
         UNCHANGED <<batch, ticking>>
  PROVE  ReactorInv'
<1> DEFINE hd == handler[h]
           t == hd.token
           x == Destroy(World, h)
<1>1. /\ ReactorTyped /\ DescriptorInv /\ TokenInv /\ StepsHold
      /\ batch = {} /\ ticking = {} /\ (step = "protocols" => deadSlots = {})
  BY DEF ReactorInv, TokenInv, StepsHold
<1>2. h \in Used
  BY <1>1 DEF DescriptorInv, KindsHold, Used
<1>3. t \in Tokens /\ fresh \in 1 .. 2
  BY <1>1, <1>2, DescriptorShapes DEF TokenInv, TokensNamed, Used
<1>4. /\ x \in Worlds
      /\ x.handler = [World.handler EXCEPT ![h] = NoHandler]
      /\ x.dead = World.dead \ {h}
      /\ x.payload = [World.payload EXCEPT ![World.handler[h].token] = Invalid]
      /\ x.vectors = [World.vectors EXCEPT ![3 - fresh] =
                        Append(@, World.handler[h].token)]
      /\ x.collided = World.collided
      /\ IF World.handler[h].closes
         THEN /\ x.epoll = [World.epoll EXCEPT ![World.handler[h].fd] = Unregistered]
              /\ x.owner = [World.owner EXCEPT ![World.handler[h].fd] = Free]
              /\ World.owner[World.handler[h].fd] \in {h, Free} =>
                   x.stolen = World.stolen
         ELSE /\ x.epoll = World.epoll /\ x.owner = World.owner
              /\ x.stolen = World.stolen
  BY <1>1, <1>3, WorldIs, DestroyDestroys
<1>5. Settle(x)
  OBVIOUS
<1> HIDE DEF x
<1>6. ReactorTyped'
  BY <1>1, <1>4, <1>5, SettledTyped
<1>7. /\ handler' = [handler EXCEPT ![h] = NoHandler]
      /\ deadSlots' = deadSlots \ {h}
      /\ payload' = [payload EXCEPT ![t] = Invalid]
      /\ vectors' = [vectors EXCEPT ![3 - fresh] = Append(@, t)]
      /\ collided' = collided
      /\ IF hd.closes
         THEN /\ epoll' = [epoll EXCEPT ![hd.fd] = Unregistered]
              /\ owner' = [owner EXCEPT ![hd.fd] = Free]
              /\ owner[hd.fd] \in {h, Free} => stolen' = stolen
         ELSE epoll' = epoll /\ owner' = owner /\ stolen' = stolen
  BY <1>1, <1>4, <1>5, WorldIs DEF Settle
<1>8. \A g \in Slots : handler'[g] = IF g = h THEN NoHandler ELSE handler[g]
  BY <1>1, <1>7, DescriptorShapes
<1>9. /\ \A d \in Descriptors :
           owner'[d] = IF d = hd.fd /\ hd.closes THEN Free ELSE owner[d]
      /\ \A d \in Descriptors :
           epoll'[d] = IF d = hd.fd /\ hd.closes THEN Unregistered ELSE epoll[d]
  BY <1>1, <1>7, DescriptorShapes
<1>10. /\ deadSlots' = deadSlots \ {h} /\ collided' = collided
       /\ owner[hd.fd] \in {h, Free} \/ ~hd.closes => stolen' = stolen
  BY <1>7
<1>11. DescriptorInv'
  BY <1>1, <1>2, <1>8, <1>9, <1>10, HandlerDeleted
<1>12. handler'[h] = NoHandler /\ \A g \in Slots \ {h} : handler'[g] = handler[g]
  BY <1>8
<1>13. /\ payload' = [payload EXCEPT ![t] = Invalid]
       /\ vectors' = [vectors EXCEPT ![3 - fresh] = Append(@, t)]
  BY <1>7
<1>14. TokenInv'
  BY <1>1, <1>2, <1>6, <1>12, <1>13, TokensFreed
<1>15. BatchHolds' /\ StepsHold'
  BY <1>1, <1>10 DEF BatchHolds, StepsHold
<1> QED
  BY <1>11, <1>14, <1>15 DEF ReactorInv

-----------------------------------------------------------------------------
(* The reactor *)

Inductive == ReactorInv /\ timerId \in Nat

\* Only the acceptor is there when the reactor starts.
LEMMA InitHolds ==
  ASSUME ReactorInit
  PROVE  Inductive
<1>1. PICK h \in Slots :
        \E d \in Descriptors :
          /\ handler = [s \in Slots |->
                          IF s = h THEN [kind |-> "acceptor", fd |-> d, token |-> 1,
                                         writes |-> FALSE, closes |-> TRUE,
                                         prot |-> "none"]
                          ELSE NoHandler]
          /\ epoll = [e \in Descriptors |->
                        IF e = d THEN [token |-> 1, out |-> FALSE] ELSE Unregistered]
          /\ owner \in [Descriptors -> {h, Free, File}] /\ owner[d] = h
          /\ \A e \in Descriptors : owner[e] = h => e = d
          /\ payload = [t \in Tokens |-> IF t = 1 THEN h ELSE New]
  <2>1. PICK h \in Slots, d \in Descriptors :
          /\ handler = [s \in Slots |->
                          IF s = h THEN [kind |-> "acceptor", fd |-> d, token |-> 1,
                                         writes |-> FALSE, closes |-> TRUE,
                                         prot |-> "none"]
                          ELSE NoHandler]
          /\ epoll = [e \in Descriptors |->
                        IF e = d THEN [token |-> 1, out |-> FALSE] ELSE Unregistered]
          /\ \/ owner = [e \in Descriptors |-> IF e = d THEN h ELSE Free]
             \/ \E f \in Descriptors \ {d} :
                  owner = [e \in Descriptors |->
                             IF e = d THEN h ELSE IF e = f THEN File ELSE Free]
          /\ payload = [t \in Tokens |-> IF t = 1 THEN h ELSE New]
    <3>1. PICK h \in Slots :
            \E d \in Descriptors :
              /\ \A e \in Descriptors : d <= e
              /\ h = CHOOSE s \in Slots : TRUE
              /\ handler = [s \in Slots |->
                              IF s = h THEN [kind |-> "acceptor", fd |-> d,
                                             token |-> 1, writes |-> FALSE,
                                             closes |-> TRUE, prot |-> "none"]
                              ELSE NoHandler]
              /\ epoll = [e \in Descriptors |->
                            IF e = d THEN [token |-> 1, out |-> FALSE]
                            ELSE Unregistered]
              /\ \/ timerId = MaxTimers
                    /\ owner = [e \in Descriptors |-> IF e = d THEN h ELSE Free]
                 \/ timerId = 0
                    /\ \E f \in Descriptors \ {d} :
                         /\ \A e \in Descriptors : e <= f
                         /\ owner = [e \in Descriptors |->
                                       IF e = d THEN h
                                       ELSE IF e = f THEN File ELSE Free]
              /\ payload = [t \in Tokens |-> IF t = 1 THEN h ELSE New]
      BY Zenon DEF ReactorInit
    <3>2. PICK d \in Descriptors :
            /\ handler = [s \in Slots |->
                            IF s = h THEN [kind |-> "acceptor", fd |-> d,
                                           token |-> 1, writes |-> FALSE,
                                           closes |-> TRUE, prot |-> "none"]
                            ELSE NoHandler]
            /\ epoll = [e \in Descriptors |->
                          IF e = d THEN [token |-> 1, out |-> FALSE]
                          ELSE Unregistered]
            /\ \/ owner = [e \in Descriptors |-> IF e = d THEN h ELSE Free]
               \/ \E f \in Descriptors \ {d} :
                    owner = [e \in Descriptors |->
                               IF e = d THEN h ELSE IF e = f THEN File ELSE Free]
            /\ payload = [t \in Tokens |-> IF t = 1 THEN h ELSE New]
      BY <3>1, ZenonT(40)
    <3> QED
      BY <3>2, Zenon
  <2>2. h # Free /\ h # File
    BY ReactorAssumption DEF Free, File
  <2>3. /\ owner \in [Descriptors -> {h, Free, File}] /\ owner[d] = h
        /\ \A e \in Descriptors : owner[e] = h => e = d
    <3>1. CASE owner = [e \in Descriptors |-> IF e = d THEN h ELSE Free]
      BY <3>1, <2>2
    <3>2. CASE \E f \in Descriptors \ {d} :
                 owner = [e \in Descriptors |->
                            IF e = d THEN h ELSE IF e = f THEN File ELSE Free]
      BY <3>2, <2>2
    <3> QED
      BY <2>1, <3>1, <3>2
  <2> QED
    BY <2>1, <2>3
<1>2. PICK d \in Descriptors :
        /\ handler = [s \in Slots |->
                        IF s = h THEN [kind |-> "acceptor", fd |-> d, token |-> 1,
                                       writes |-> FALSE, closes |-> TRUE,
                                       prot |-> "none"]
                        ELSE NoHandler]
        /\ epoll = [e \in Descriptors |->
                      IF e = d THEN [token |-> 1, out |-> FALSE] ELSE Unregistered]
        /\ owner \in [Descriptors -> {h, Free, File}] /\ owner[d] = h
        /\ \A e \in Descriptors : owner[e] = h => e = d
        /\ payload = [t \in Tokens |-> IF t = 1 THEN h ELSE New]
  BY <1>1
<1> DEFINE hd == [kind |-> "acceptor", fd |-> d, token |-> 1, writes |-> FALSE,
                  closes |-> TRUE, prot |-> "none"]
<1>3. /\ deadSlots = {} /\ fresh = 1 /\ batch = {} /\ ticking = {}
      /\ step = "wait" /\ collided = FALSE /\ stolen = FALSE /\ timerId \in Nat
  BY ReactorAssumption DEF ReactorInit
<1>4. vectors = [v \in 1 .. 2 |-> <<>>]
  BY DEF ReactorInit
<1>5. /\ hd \in Handlers /\ NoHandler \in Handlers /\ 1 \in Tokens
      /\ hd.kind = "acceptor" /\ hd.fd = d /\ hd.token = 1 /\ hd.writes = FALSE
      /\ hd.closes = TRUE /\ hd.prot = "none"
  BY ReactorAssumption
     DEF Handlers, Kinds, NoHandler, NoFd, NoToken, Tokens
<1>6. /\ NoHandler.kind = "none" /\ NoHandler.token = NoToken
      /\ NoHandler.closes = FALSE /\ NoHandler.prot = "none"
  BY DEF NoHandler
<1> HIDE DEF hd
<1>7. /\ \A g \in Slots : handler[g] = IF g = h THEN hd ELSE NoHandler
      /\ handler \in [Slots -> Handlers]
  BY <1>2, <1>5 DEF hd
<1>8. /\ epoll \in [Descriptors -> [token : Nat, out : BOOLEAN]]
      /\ \A e \in Descriptors :
           epoll[e] = IF e = d THEN [token |-> 1, out |-> FALSE] ELSE Unregistered
  BY <1>2 DEF Unregistered, NoToken
<1>9. /\ \A t \in Tokens : payload[t] = IF t = 1 THEN h ELSE New
      /\ payload \in [Tokens -> Slots \cup {New, Invalid}]
  BY <1>2
<1>10. h # New /\ h # Invalid /\ New # Invalid /\ h # Free /\ h # File
       /\ Free \notin Slots /\ File \notin Slots /\ New \notin Slots
  BY ReactorAssumption DEF New, Invalid, Free, File
<1>11. ReactorTyped
  <2>1. vectors \in [1 .. 2 -> Seq(Tokens)]
    BY <1>4
  <2>2. owner \in [Descriptors -> Slots \cup {Free, Lost, File}]
    BY <1>2
  <2>3. deadSlots \in SUBSET Slots /\ fresh \in 1 .. 2
    BY <1>3
  <2>4. collided \in BOOLEAN /\ stolen \in BOOLEAN
    BY <1>3
  <2> QED
    BY <1>7, <1>8, <1>9, <2>1, <2>2, <2>3, <2>4 DEF ReactorTyped, World, Worlds
<1>12. TokenInv
  <2>1. TokensNamed
    BY <1>5, <1>6, <1>7, <1>9, <1>10 DEF TokensNamed
  <2>2. MadeInOrder
    BY <1>9, <1>10 DEF MadeInOrder, Tokens
  <2>3. Pooled
    <3>1. \A v \in 1 .. 2 : Len(vectors[v]) = 0
      BY <1>4
    <3>2. \A t \in Tokens : payload[t] # Invalid
      BY <1>9, <1>10
    <3> QED
      BY <3>1, <3>2 DEF Pooled
  <2> QED
    BY <1>11, <2>1, <2>2, <2>3 DEF TokenInv
<1>13. DescriptorInv
  <2>1. KindsHold
    BY <1>3, <1>5, <1>6, <1>7 DEF KindsHold, Sockets
  <2>2. OwnersClose
    BY <1>2, <1>5, <1>7, <1>10 DEF OwnersClose, Sockets
  <2>3. ClosersOwn
    BY <1>2, <1>5, <1>6, <1>7 DEF ClosersOwn, CloserOwns
  <2>4. EpollNames
    <3>1. epoll[d].token = 1 /\ handler[h].token = 1 /\ handler[h].fd = d
          /\ handler[h].kind \in Sockets /\ h \notin deadSlots
      BY <1>3, <1>5, <1>7, <1>8 DEF Sockets
    <3> QED
      BY <1>2, <1>8, <1>10, <3>1 DEF EpollNames, EpollNamed
  <2>5. \A g \in Slots : SocketWatched(g)
    BY <1>2, <1>5, <1>6, <1>7, <1>8 DEF SocketWatched, Sockets
  <2> QED
    BY <1>3, <2>1, <2>2, <2>3, <2>4, <2>5 DEF DescriptorInv, SocketsWatched
<1> QED
  BY <1>3, <1>12, <1>13 DEF Inductive, ReactorInv, BatchHolds, StepsHold

\* What no step of the reactor is without.
LEMMA StutterKeeps ==
  ASSUME Inductive, UNCHANGED reactorVars
  PROVE  Inductive'
<1>1. ReactorTyped'
  BY DEF Inductive, ReactorInv, TokenInv, ReactorTyped, World, reactorVars
<1>2. TokenInv'
  BY <1>1, TokensStay DEF Inductive, ReactorInv, reactorVars
<1>3. DescriptorInv'
  BY StepMoves DEF Inductive, ReactorInv, reactorVars
<1> QED
  BY <1>2, <1>3 DEF Inductive, ReactorInv, BatchHolds, StepsHold, reactorVars

LEMMA NextKeeps ==
  ASSUME Inductive, ReactorNext
  PROVE  Inductive'
<1>1. ReactorInv /\ timerId \in Nat
  BY DEF Inductive
<1>2. timerId' \in Nat
  <2>1. StartTimer \/ timerId' = timerId
    <3>1. ASSUME NEW e \in batch, NEW h \in Slots, NEW b \in BOOLEAN,
                 \/ CarrierFails(e, h)
                 \/ Refused(e, h)
                 \/ ConnectorFails(e, h)
                 \/ ConnectorErred(e, h)
                 \/ CarrierEvent(e, h, b)
                 \/ Connected(e, h, b)
          PROVE  timerId' = timerId
      <4>1. Handled(e)
        BY <3>1 DEF CarrierFails, Refused, ConnectorFails, ConnectorErred,
           CarrierEvent, Connected
      <4> QED
        BY <4>1 DEF Handled
    <3>2. ASSUME NEW h \in Slots, NEW b \in BOOLEAN,
                 \/ Tick(h, b)
                 \/ Send(h) \/ CloseProtocol(h)
                 \/ DeleteDeadHandler(h) \/ DeleteDeadProtocol(h)
          PROVE  timerId' = timerId
      BY <3>2 DEF Tick, Send, CloseProtocol, DeleteDeadHandler,
         DeleteDeadProtocol
    <3>3. ASSUME Wait \/ OpenUDP \/ EndPulse \/ HandlersDone \/ ProtocolsDone
          PROVE  timerId' = timerId
      BY <3>3 DEF Wait, OpenUDP, EndPulse, HandlersDone, ProtocolsDone
    <3>4. ASSUME NEW e \in batch, NEW b \in BOOLEAN, Drop(e) \/ Accept(e, b)
          PROVE  timerId' = timerId
      <4>1. Handled(e)
        BY <3>4 DEF Drop, Accept
      <4> QED
        BY <4>1 DEF Handled
    <3>5. ASSUME NEW b \in BOOLEAN, Connect(b)
          PROVE  timerId' = timerId
      BY <3>5 DEF Connect
    <3> QED
      BY <3>1, <3>2, <3>3, <3>4, <3>5 DEF ReactorNext
  <2>2. StartTimer => timerId' = timerId + 1
    BY DEF StartTimer
  <2> QED
    BY <1>1, <2>1, <2>2
<1>3. ReactorInv'
  <2>1. CASE Wait
    BY <1>1, <2>1, WaitKeeps
  <2>2. ASSUME NEW h \in Slots, NEW ok \in BOOLEAN, Tick(h, ok)
        PROVE  ReactorInv'
    BY <1>1, <2>2, TickKeeps
  <2>3. ASSUME NEW e \in batch, NEW h \in Slots,
               \/ CarrierFails(e, h)
               \/ Refused(e, h)
               \/ ConnectorFails(e, h)
               \/ ConnectorErred(e, h)
        PROVE  ReactorInv'
    BY <1>1, <2>3, CarrierFailsKeeps, RefusedKeeps, ConnectorFailsKeeps,
       ConnectorErredKeeps
  <2>4. ASSUME NEW e \in batch, NEW h \in Slots, NEW b \in BOOLEAN,
               CarrierEvent(e, h, b) \/ Connected(e, h, b)
        PROVE  ReactorInv'
    BY <1>1, <2>4, CarrierEventKeeps, ConnectedKeeps
  <2>5. ASSUME NEW e \in batch, Drop(e)
        PROVE  ReactorInv'
    <3>1. /\ step = "events" /\ step' = step /\ Settle(World)
          /\ batch' \subseteq batch /\ ticking' \subseteq ticking
      BY <2>5 DEF Drop, Handles, Handled, Settle, World
    <3> QED
      BY <1>1, <3>1, NothingChanges
  <2>6. ASSUME NEW e \in batch, NEW sends \in BOOLEAN, Accept(e, sends)
        PROVE  ReactorInv'
    BY <1>1, <2>6, AcceptKeeps
  <2>7. ASSUME NEW h \in Slots, Send(h) \/ CloseProtocol(h)
        PROVE  ReactorInv'
    BY <1>1, <2>7, SendKeeps, CloseProtocolKeeps
  <2>8. ASSUME NEW ok \in BOOLEAN, Connect(ok)
        PROVE  ReactorInv'
    BY <1>1, <2>8, ConnectKeeps
  <2>9. CASE OpenUDP \/ StartTimer
    BY <1>1, <2>9, OpenUDPKeeps, StartTimerKeeps
  <2>10. CASE EndPulse \/ HandlersDone \/ ProtocolsDone
    BY <1>1, <2>10, StepKeeps
  <2>11. ASSUME NEW h \in Slots, DeleteDeadHandler(h) \/ DeleteDeadProtocol(h)
         PROVE  ReactorInv'
    <3>1. /\ step' = step /\ Settle(Destroy(World, h)) /\ UNCHANGED <<batch, ticking>>
          /\ \/ step = "handlers" /\ h \in deadSlots
             \/ step = "protocols" /\ handler[h].prot = "dead"
      BY <2>11 DEF DeleteDeadHandler, DeleteDeadProtocol
    <3> QED
      BY <1>1, <3>1, DeleteKeeps
  <2> QED
    BY <2>1, <2>2, <2>3, <2>4, <2>5, <2>6, <2>7, <2>8, <2>9, <2>10, <2>11
       DEF ReactorNext
<1> QED
  BY <1>2, <1>3 DEF Inductive

\* Whatever the callbacks of a pulse do, and in whatever order: handlers and
\* tokens name each other, an open descriptor has one handler that is to close
\* it, and the events that are yet to be handled are of handlers that stand.
THEOREM ReactorHolds == ReactorSpec => []Inductive
<1>1. ReactorInit => Inductive
  BY InitHolds
<1>2. Inductive /\ [ReactorNext]_reactorVars => Inductive'
  BY NextKeeps, StutterKeeps
<1> QED
  BY <1>1, <1>2, PTL DEF ReactorSpec

\* Where an element of two sequences put together comes from.
LEMMA Joined ==
  ASSUME NEW S, NEW s \in Seq(S), NEW u \in Seq(S)
  PROVE  /\ s \o u \in Seq(S) /\ DOMAIN (s \o u) = 1 .. Len(s) + Len(u)
         /\ \A i \in 1 .. Len(s) : (s \o u)[i] = s[i]
         /\ \A i \in 1 .. Len(u) : (s \o u)[Len(s) + i] = u[i]
         /\ Len(s) \in Nat /\ Len(u) \in Nat
  OBVIOUS

LEMMA PairedTokens ==
  ASSUME ReactorInv
  PROVE  TokensPaired
<1> DEFINE a == vectors[1]
           b == vectors[2]
           pooled == a \o b
           Half(i) == IF i <= Len(a) THEN 1 ELSE 2
           Place(i) == IF i <= Len(a) THEN i ELSE i - Len(a)
<1>1. ReactorTyped /\ TokensNamed /\ Pooled /\ BatchHolds
  BY DEF ReactorInv, TokenInv
<1>2. a \in Seq(Tokens) /\ b \in Seq(Tokens)
  BY <1>1 DEF ReactorTyped, World, Worlds
<1>3. vectors[1] = a /\ vectors[2] = b
  OBVIOUS
<1> HIDE DEF a, b
<1>4. /\ DOMAIN pooled = 1 .. Len(a) + Len(b)
      /\ \A i \in 1 .. Len(a) : pooled[i] = a[i]
      /\ \A i \in 1 .. Len(b) : pooled[Len(a) + i] = b[i]
      /\ Len(a) \in Nat /\ Len(b) \in Nat
  BY <1>2, Joined
<1> HIDE DEF pooled
<1>5. \A i \in DOMAIN pooled :
        /\ Half(i) \in 1 .. 2 /\ Place(i) \in 1 .. Len(vectors[Half(i)])
        /\ pooled[i] = vectors[Half(i)][Place(i)]
  <2> TAKE i \in DOMAIN pooled
  <2>1. CASE i <= Len(a)
    BY <2>1, <1>3, <1>4
  <2>2. CASE ~(i <= Len(a))
    <3>1. i - Len(a) \in 1 .. Len(b) /\ Len(a) + (i - Len(a)) = i
      BY <2>2, <1>4
    <3>2. pooled[i] = b[i - Len(a)]
      BY <3>1, <1>4
    <3> QED
      BY <2>2, <3>1, <3>2, <1>3
  <2> QED
    BY <2>1, <2>2, <1>4
<1>6. \A v \in 1 .. 2 : \A i \in 1 .. Len(vectors[v]) :
        \E j \in DOMAIN pooled : pooled[j] = vectors[v][i]
  <2> TAKE v \in 1 .. 2
  <2> TAKE i \in 1 .. Len(vectors[v])
  <2>1. CASE v = 1
    <3>1. i \in DOMAIN pooled /\ pooled[i] = a[i]
      BY <2>1, <1>3, <1>4
    <3> QED
      BY <2>1, <3>1, <1>3
  <2>2. CASE v = 2
    <3>1. Len(a) + i \in DOMAIN pooled /\ pooled[Len(a) + i] = b[i]
      BY <2>2, <1>3, <1>4
    <3> QED
      BY <2>2, <3>1, <1>3
  <2> QED
    BY <2>1, <2>2
<1>7. \A i, j \in DOMAIN pooled : Half(i) = Half(j) /\ Place(i) = Place(j) => i = j
  BY <1>4
<1> HIDE DEF Half, Place
<1>8. IsInjective(pooled)
  <2> SUFFICES ASSUME NEW i \in DOMAIN pooled, NEW j \in DOMAIN pooled,
                      pooled[i] = pooled[j]
               PROVE  i = j
    BY DEF IsInjective
  <2>1. /\ Half(i) \in 1 .. 2 /\ Place(i) \in 1 .. Len(vectors[Half(i)])
        /\ Half(j) \in 1 .. 2 /\ Place(j) \in 1 .. Len(vectors[Half(j)])
        /\ vectors[Half(i)][Place(i)] = vectors[Half(j)][Place(j)]
    BY <1>5
  <2>2. Half(i) = Half(j) /\ Place(i) = Place(j)
    BY <2>1, <1>1 DEF Pooled
  <2> QED
    BY <2>2, <1>7
<1>9. \A t \in Tokens : payload[t] = Invalid <=> \E i \in DOMAIN pooled : pooled[i] = t
  <2> TAKE t \in Tokens
  <2>1. ASSUME payload[t] = Invalid
        PROVE  \E i \in DOMAIN pooled : pooled[i] = t
    <3>1. PICK v \in 1 .. 2 : \E i \in 1 .. Len(vectors[v]) : vectors[v][i] = t
      BY <2>1, <1>1 DEF Pooled
    <3> QED
      BY <3>1, <1>6
  <2>2. ASSUME NEW i \in DOMAIN pooled, pooled[i] = t
        PROVE  payload[t] = Invalid
    BY <2>2, <1>1, <1>5 DEF Pooled
  <2> QED
    BY <2>1, <2>2
<1>10. \A h \in Used : payload[handler[h].token] = h
  BY <1>1 DEF TokensNamed, Used
<1>11. \A t \in Tokens : payload[t] \in Slots => handler[payload[t]].token = t
  BY <1>1 DEF TokensNamed
<1>12. \A e \in batch : payload[e.token] \in Slots
  BY <1>1 DEF BatchHolds
<1> QED
  BY <1>8, <1>9, <1>10, <1>11, <1>12 DEF TokensPaired, pooled, a, b

LEMMA SocketsAreOwned ==
  ASSUME ReactorInv, step = "wait", NEW h \in Slots, handler[h].kind \in Sockets
  PROVE  owner[handler[h].fd] = h
<1>1. DescriptorInv /\ deadSlots = {}
  BY DEF ReactorInv, StepsHold
<1>2. handler[h].closes \/ handler[h].kind = "connector"
  BY <1>1 DEF DescriptorInv, KindsHold, Sockets
<1> QED
  BY <1>1, <1>2 DEF DescriptorInv, ClosersOwn, CloserOwns, SharesWith

LEMMA WatchedSockets ==
  ASSUME ReactorInv
  PROVE  Watched
<1> SUFFICES ASSUME step = "wait", ~collided PROVE Watched
  BY DEF Watched
<1>1. DescriptorInv /\ deadSlots = {}
  BY DEF ReactorInv, StepsHold
<1>2. ASSUME NEW h \in Used, handler[h].kind \in Sockets
      PROVE  epoll[handler[h].fd] =
               [token |-> handler[h].token,
                out |-> handler[h].writes \/ handler[h].kind = "connector"]
  <2>1. h \in Slots /\ owner[handler[h].fd] = h
    BY <1>2, SocketsAreOwned DEF Used
  <2> QED
    BY <1>1, <1>2, <2>1 DEF DescriptorInv, SocketsWatched, SocketWatched
<1>3. \A d \in Descriptors :
        epoll[d] # Unregistered =>
          \E h \in Used : handler[h].token = epoll[d].token /\ handler[h].fd = d
  BY <1>1 DEF DescriptorInv, EpollNames, EpollNamed, Used, Sockets
<1> QED
  BY <1>2, <1>3 DEF Watched

\* A handler and its token name each other, the two vectors hold each freed
\* token once, and no event of a pulse reaches a handler that took over the
\* token of one that was deleted.
THEOREM TokensArePaired == ReactorSpec => []TokensPaired
<1>1. Inductive => TokensPaired
  BY PairedTokens DEF Inductive
<1> QED
  BY <1>1, ReactorHolds, PTL

\* Whenever the reactor waits, and until the number of a timer has hit a socket,
\* epoll watches the sockets of the handlers for what they want, and no other.
THEOREM SocketsAreWatched == ReactorSpec => []Watched
<1>1. Inductive => Watched
  BY WatchedSockets DEF Inductive
<1> QED
  BY <1>1, ReactorHolds, PTL

\* No handler closes the descriptor of another, and the handler that is to close
\* an open descriptor is there and has that descriptor.
THEOREM DescriptorsAreOwned == ReactorSpec => []DescriptorsOwned
<1>1. Inductive => DescriptorsOwned
  BY DEF Inductive, ReactorInv, DescriptorInv, OwnersClose, DescriptorsOwned
<1> QED
  BY <1>1, ReactorHolds, PTL

=============================================================================
