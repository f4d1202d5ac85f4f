--------------------------------- MODULE Amf ----------------------------------
(***************************************************************************)
(* The values a peer sends through the server: the data messages of a      *)
(* publisher (NOTIFY, FLEXSTREAMSEND), which lose their "@" strings and go *)
(* to every player, the changes of a shared object, which go to its other  *)
(* clients, and the parameters of an INVOKE, which the handlers get.  They *)
(* are read into Variants, AMF0 with values in AMF3, and written in AMF0.  *)
(* A byte stream is a sequence of tokens, one of which counts as one byte; *)
(* the order of the keys of a map is abstracted.                           *)
(***************************************************************************)
EXTENDS Integers, Sequences, FiniteSets, Functions, SequencesExt, TLC

CONSTANT AmfMessages  \* what peers send: [kind, params, encoding]; the changes
                      \* of a shared object are one value, an object

VARIABLES
  amfStage,  \* what has become of the message: "sent", "read", "relayed",
             \* "refused", "aborted" or "undefined"
  amfSent,   \* the message, as its sender means it
  amfWire,   \* its bytes
  amfRead,   \* its parameters as Variants, in the order of their indexes
  amfOut     \* the bytes written to a player

amfVars == <<amfStage, amfSent, amfWire, amfRead, amfOut>>

-----------------------------------------------------------------------------
(* Values of the peers.  A key is a name; the class of an object is a name. *)

Numerals == [i \in 0 .. 99 |-> ToString(i)]
IsNumeral(name) == \E i \in DOMAIN Numerals : Numerals[i] = name

Scalar(t) == t \in {"number", "string", "boolean", "null", "undefined", "xml"}
Complex(v) == ~Scalar(v.t)
Container(v) == v.t \in {"object", "strict", "ecma", "typed", "sealed"}

\* v and the values it holds
RECURSIVE Parts(_)
Parts(v) == {v} \cup (IF Container(v)
                      THEN UNION {Parts(v.m[k]) : k \in DOMAIN v.m} ELSE {})

\* The names of a container, those of the dense part of an array first.
Names(m) == LET dense == {n \in DOMAIN m : IsNumeral(n)}
            IN  SetToSortSeq(dense, LAMBDA a, b : \E i, j \in 0 .. 99 :
                               i < j /\ Numerals[i] = a /\ Numerals[j] = b)
                  \o SetToSeq(DOMAIN m \ dense)
DenseSize(m) == CHOOSE n \in 0 .. Cardinality(DOMAIN m) :
                  /\ \A i \in 0 .. n - 1 : Numerals[i] \in DOMAIN m
                  /\ Numerals[n] \notin DOMAIN m

Tok(k) == [k |-> k]

\* The seven bits at a time of a U29, most significant first; the fourth has eight.
U29(n) == IF n < 128 THEN <<n>>
          ELSE IF n < 16384 THEN <<128 + (n \div 128), n % 128>>
          ELSE IF n < 2097152
          THEN <<128 + (n \div 16384), 128 + ((n \div 128) % 128), n % 128>>
          ELSE <<128 + (n \div 4194304), 128 + ((n \div 32768) % 128),
                 128 + ((n \div 256) % 128), n % 256>>
TwoTo29 == 536870912

-----------------------------------------------------------------------------
(* The sender (external): AMF0, and AMF3 with its tables of references *)

\* Text in AMF3: by reference if it was sent before.
SendText(w, s) ==
  IF s # "" /\ Contains(w.strings, s)
  THEN [w EXCEPT !.out = Append(@, [k |-> "ref",
                                    i |-> SelectInSeq(w.strings, LAMBDA x : x = s) - 1])]
  ELSE [w EXCEPT !.out = Append(@, [k |-> "text", s |-> s]),
                 !.strings = IF s = "" THEN @ ELSE Append(@, s)]

Marked(w, toks) == [w EXCEPT !.out = @ \o toks]
Traits(v) == [sealed |-> IF v.t = "sealed" THEN Names(v.m) ELSE <<>>,
              dynamic |-> v.t = "object",
              class |-> IF v.t = "typed" THEN v.class ELSE ""]

RECURSIVE Send3(_, _), SendPairs3(_, _, _), SendValues3(_, _, _)
SendPairs3(w, m, names) ==
  IF names = <<>> THEN SendText(w, "")
  ELSE SendPairs3(Send3(SendText(w, Head(names)), m[Head(names)]), m, Tail(names))
SendValues3(w, m, names) ==
  IF names = <<>> THEN w
  ELSE SendValues3(Send3(w, m[Head(names)]), m, Tail(names))

\* An object, an array, a date or a byte array enters the table before what it holds.
Send3(w, v) ==
  IF Complex(v) /\ Contains(w.objects, v)
  THEN Marked(w, <<Tok(IF v.t = "strict" THEN "ecma" ELSE v.t),
                   [k |-> "ref",
                    i |-> SelectInSeq(w.objects, LAMBDA x : x = v) - 1]>>)
  ELSE
  LET w1 == IF Complex(v) THEN [w EXCEPT !.objects = Append(@, v)] ELSE w
      names == IF Container(v) THEN Names(v.m) ELSE <<>>
  IN  CASE v.t \in {"null", "undefined", "boolean", "xml"} -> Marked(w, <<v>>)
        [] v.t = "number" -> Marked(w, <<Tok("integer"),
                                         [k |-> "u29", b |-> U29(v.n % TwoTo29)]>>)
        [] v.t = "string" -> SendText(Marked(w, <<Tok("string")>>), v.s)
        [] v.t = "date" -> Marked(w1, <<Tok("date"), [k |-> "double", n |-> v.n]>>)
        [] v.t = "bytes" -> Marked(w1, <<Tok("bytes"),
                                         [k |-> "u29", b |-> U29(2 * v.n + 1)]>>)
        [] v.t \in {"ecma", "strict"} ->
             LET d == DenseSize(v.m)
                 w2 == Marked(w1, <<Tok("ecma"), [k |-> "dense", n |-> d]>>)
             IN  SendValues3(SendPairs3(w2, v.m, SubSeq(names, d + 1, Len(names))),
                             v.m, SubSeq(names, 1, d))
        [] v.t \in {"object", "typed", "sealed"} ->
             LET tr == Traits(v)
                 known == SelectInSeq(w.traits, LAMBDA x : x = tr)
                 w2 == IF known # 0
                       THEN Marked(w1, <<Tok(v.t), [k |-> "traitsref", i |-> known - 1]>>)
                       ELSE LET Named[i \in 0 .. Len(tr.sealed)] ==
                                  IF i = 0
                                  THEN SendText(Marked(w1, <<Tok(v.t),
                                         [k |-> "traits", n |-> Len(tr.sealed),
                                          dynamic |-> tr.dynamic]>>), tr.class)
                                  ELSE SendText(Named[i - 1], tr.sealed[i])
                            IN  [Named[Len(tr.sealed)] EXCEPT !.traits = Append(@, tr)]
                 w3 == SendValues3(w2, v.m, tr.sealed)
             IN  IF tr.dynamic THEN SendPairs3(w3, v.m, names) ELSE w3

Fresh3 == [out |-> <<>>, strings |-> <<>>, objects |-> <<>>, traits |-> <<>>]

\* encoding 3: containers and bytes are sent in AMF3, each with tables of its own.
RECURSIVE Send0(_, _), SendPairs0(_, _, _)
SendPairs0(m, names, encoding) ==
  IF names = <<>> THEN <<Tok("end")>>
  ELSE <<[k |-> "key", s |-> Head(names)]>> \o Send0(m[Head(names)], encoding)
         \o SendPairs0(m, Tail(names), encoding)
Send0(v, encoding) ==
  IF (Container(v) /\ encoding = 3) \/ v.t = "bytes"
  THEN <<Tok("amf3")>> \o Send3(Fresh3, v).out
  ELSE CASE v.t = "object" -> <<Tok("object")>> \o SendPairs0(v.m, Names(v.m), 0)
         [] v.t = "ecma" -> <<Tok("mixed"), [k |-> "count", n |-> v.count]>>
                              \o SendPairs0(v.m, Names(v.m), 0)
         [] v.t = "strict" ->
              <<Tok("array"), [k |-> "count", n |-> Cardinality(DOMAIN v.m)]>>
                \o FlattenSeq([i \in 1 .. Cardinality(DOMAIN v.m) |->
                                 Send0(v.m[Numerals[i - 1]], 0)])
         [] v.t \in {"typed", "sealed"} ->
              <<Tok("typed"), [k |-> "key", s |-> "class"]>>
                \o SendPairs0(v.m, Names(v.m), 0)
         [] OTHER -> <<v>>

\* The whole message; a byte of zero comes first in the messages of AMF3.
SendMessage(m) ==
  LET values == FlattenSeq([i \in DOMAIN m.params |-> Send0(m.params[i], m.encoding)])
      zero == IF m.encoding = 3 THEN <<Tok("zero")>> ELSE <<>>
      props == m.params[1].m
      pairs == SendPairs0(props, Names(props), m.encoding)
      primitive(p) == <<Tok("name"), [k |-> "setattribute", length |-> Len(p)]>> \o p
  IN  CASE m.kind = "notify" -> values
        [] m.kind = "flexsend" -> <<Tok("zero")>> \o values
        [] m.kind = "invoke" -> zero \o <<[t |-> "string", s |-> "a"],
                                         [t |-> "number", n |-> 1]>> \o values
        [] m.kind = "so" -> zero \o primitive(Front(pairs))

-----------------------------------------------------------------------------
(* Variants.  The key of operator[](uint32_t) is an index, of a string a name. *)

Index(i) == [index |-> TRUE, name |-> Numerals[i]]
Named(s) == [index |-> FALSE, name |-> s]

NullVariant == [t |-> "null"]
MapOf(m, array) == [t |-> "map", m |-> m, array |-> array]

\* operator[] on a new Variant makes it a map.
Put(v, key, x) ==
  LET m == IF v.t = "map" THEN v.m ELSE <<>>
  IN  MapOf([k \in DOMAIN m \cup {key} |-> IF k = key THEN x ELSE m[k]],
            IF v.t = "map" THEN v.array ELSE FALSE)
\* operator[], without assigning: Read(buffer, variant[key]) starts from this.
At(v, key) == IF v.t = "map" /\ key \in DOMAIN v.m THEN v.m[key] ELSE NullVariant

IsArray(v, array) == MapOf(IF v.t = "map" THEN v.m ELSE <<>>, array)

-----------------------------------------------------------------------------
(* AMF3Serializer::Read.  r is the buffer with the tables of the serializer: in, *)
(* strings, objects, traits, byteArrays, and the outcome: v and state.           *)

Fails(r) == [r EXCEPT !.state = "refused"]
Consume(r, n) == [r EXCEPT !.in = SubSeq(@, n + 1, Len(@))]
Yields(r, v) == [r EXCEPT !.v = v]

\* the byte of position 3 counts with eight bits
ReadU29(b) == LET V[i \in 0 .. Len(b)] ==
                    IF i = 0 THEN 0
                    ELSE IF i = 4 THEN V[3] * 256 + b[4]
                    ELSE V[i - 1] * 128 + (b[i] % 128)
              IN  V[Len(b)]

\* ReadString without its marker, for keys, classes and values.
ReadText(r) ==
  LET tok == Head(r.in) r1 == Consume(r, 1)
  IN  IF tok.k = "ref" THEN Yields(r1, [t |-> "string", s |-> r.strings[tok.i + 1]])
      ELSE [Yields(r1, [t |-> "string", s |-> tok.s])
              EXCEPT !.strings = IF tok.s = "" THEN @ ELSE Append(@, tok.s)]

\* A value that ends in the table is appended once it has been read whole.
Tabled(r) == [r EXCEPT !.objects = Append(@, r.v)]

\* _objects[i]; behind the end of the table the outcome is undefined.
Cached(r, i) == IF i < Len(r.objects) THEN Yields(r, r.objects[i + 1])
                ELSE [r EXCEPT !.state = "undefined"]

ReadDate3(r) ==
  LET tok == r.in[2] r1 == Consume(r, 2)
  IN  IF tok.k = "ref" THEN Cached(r1, tok.i)
      ELSE Tabled(Yields(r1, [t |-> "date", n |-> tok.n]))

\* _byteArrays is a table of its own, and what comes from it is a string.
ReadByteArray(r) ==
  LET tok == r.in[2] r1 == Consume(r, 2)
  IN  IF tok.k = "ref"
      THEN IF tok.i < Len(r.byteArrays)
           THEN Yields(r1, [t |-> "string", s |-> "raw"])
           ELSE [r EXCEPT !.state = "undefined"]
      ELSE LET length == ReadU29(tok.b) \div 2
           IN  [Yields(r1, [t |-> "bytes", n |-> length])
                  EXCEPT !.byteArrays = IF length = 0 THEN @ ELSE Append(@, length)]

RECURSIVE Read3(_), ReadPairs3(_, _), ReadDense3(_, _, _), ReadSealed3(_, _, _)

\* Keys and values up to an empty key.
ReadPairs3(r, v) ==
  LET put(s, read) == IF read.state # "ok" THEN read
                      ELSE ReadPairs3(read, Put(v, Named(s), read.v))
      pair(key) == IF key.v.s = "" THEN Yields(key, v)
                   ELSE put(key.v.s, Read3([key EXCEPT !.v = At(v, Named(key.v.s))]))
  IN  pair(ReadText(r))

ReadDense3(r, v, range) ==
  LET put(read) == IF read.state # "ok" THEN read
                   ELSE ReadDense3(read, Put(v, Index(range[1]), read.v),
                                   <<range[1] + 1, range[2]>>)
  IN  IF range[1] = range[2] THEN Yields(r, v)
      ELSE put(Read3([r EXCEPT !.v = At(v, Index(range[1]))]))

ReadArray3(r) ==
  LET tok == r.in[2] r1 == Consume(r, 2)
      table(dense) == IF dense.state # "ok" THEN dense
                      ELSE Tabled(Yields(dense, IsArray(dense.v, TRUE)))
      items(pairs) == IF pairs.state # "ok" THEN pairs
                      ELSE table(ReadDense3(pairs, pairs.v, <<0, tok.n>>))
  IN  IF tok.k = "ref" THEN Cached(r1, tok.i) ELSE items(ReadPairs3(r1, r.v))

\* Sealed members go into a map of their own under the key AMF3_TRAITS.
ReadSealed3(r, v, names) ==
  LET members == At(v, Named("__traits__"))
      put(read) == IF read.state # "ok" THEN read
                   ELSE ReadSealed3(read, Put(v, Named("__traits__"),
                                              Put(members, Named(Head(names)), read.v)),
                                    Tail(names))
  IN  IF names = <<>> THEN Yields(r, v)
      ELSE put(Read3([r EXCEPT !.v = At(members, Named(Head(names)))]))

\* The class name and the names of the members.
ReadTraits(r, tok) ==
  LET Texts[i \in 0 .. tok.n + 1] ==
        IF i = 0 THEN [r |-> r, names |-> <<>>]
        ELSE LET read == ReadText(Texts[i - 1].r)
             IN  [r |-> read, names |-> Append(Texts[i - 1].names, read.v.s)]
      all == Texts[tok.n + 1]
      tr == [class |-> Head(all.names), sealed |-> Tail(all.names),
             dynamic |-> tok.dynamic]
  IN  [r |-> [all.r EXCEPT !.traits = Append(@, tr)], traits |-> tr]

ReadObject3(r) ==
  LET tok == r.in[2]
      place == Len(r.objects) + 1
      r1 == [Consume(r, 2) EXCEPT !.objects = Append(@, NullVariant)]
      store(whole) == IF whole.state # "ok" THEN whole
                      ELSE [whole EXCEPT !.objects[place] = whole.v]
      rest(sealed, dynamic) == IF sealed.state = "ok" /\ dynamic
                               THEN ReadPairs3(sealed, sealed.v) ELSE sealed
      members(read) ==
        IF read.traits.class # "" THEN [r EXCEPT !.state = "aborted"]
        ELSE store(rest(ReadSealed3(read.r, r.v, read.traits.sealed),
                        read.traits.dynamic))
  IN  IF tok.k = "ref" THEN Cached(Consume(r, 2), tok.i)
      ELSE members(IF tok.k = "traitsref"
                   THEN [r |-> r1, traits |-> r.traits[tok.i + 1]]
                   ELSE ReadTraits(r1, tok))

Read3(r) ==
  LET tok == Head(r.in)
      k == IF "k" \in DOMAIN tok THEN tok.k ELSE tok.t
  IN  CASE k \in {"null", "undefined"} -> Yields(Consume(r, 1), NullVariant)
        [] k = "boolean" -> Yields(Consume(r, 1), tok)
        [] k = "integer" -> Yields(Consume(r, 2),
                                   [t |-> "number", n |-> ReadU29(r.in[2].b)])
        [] k = "string" -> ReadText(Consume(r, 1))
        [] k = "date" -> ReadDate3(r)
        [] k = "bytes" -> ReadByteArray(r)
        [] k = "ecma" -> ReadArray3(r)
        [] k \in {"object", "typed", "sealed"} -> ReadObject3(r)
        [] k = "xml" -> Fails(r)

NewAmf3(in, v) == [in |-> in, strings |-> <<>>, objects |-> <<>>, traits |-> <<>>,
                   byteArrays |-> <<>>, v |-> v, state |-> "ok"]

-----------------------------------------------------------------------------
(* AMF0Serializer::Read *)

RECURSIVE Read0(_), ReadPairs0(_, _), ReadCounted0(_, _, _), ReadItems0(_, _, _)

\* ReadObject and the uncounted part of ReadMixedArray: up to the end marker.
ReadPairs0(r, v) ==
  LET tok == Head(r.in)
      put(read) == IF read.state # "ok" THEN read
                   ELSE ReadPairs0(read, Put(v, Named(tok.s), read.v))
  IN  IF tok.k = "end" THEN Yields(Consume(r, 1), v) ELSE put(Read0(Consume(r, 1)))

\* The counted part.  An end marker inside it is an empty key and the type 9.
KeyOf(s) == IF IsNumeral(s) THEN [index |-> TRUE, name |-> s] ELSE Named(s)
ReadCounted0(r, v, n) ==
  LET tok == Head(r.in)
      put(read) == IF read.state # "ok" THEN read
                   ELSE ReadCounted0(read, Put(v, KeyOf(tok.s), read.v), n - 1)
  IN  IF n = 0 THEN Yields(r, v)
      ELSE IF tok.k = "end" THEN Fails(r)
      ELSE put(Read0(Consume(r, 1)))

ReadMixedArray(r) ==
  LET array(whole) == IF whole.state # "ok" THEN whole
                      ELSE Yields(whole, IsArray(whole.v, TRUE))
      rest(counted) == IF counted.state # "ok" THEN counted
                       ELSE array(ReadPairs0(counted, counted.v))
  IN  rest(ReadCounted0(Consume(r, 2), NullVariant, r.in[2].n))

ReadItems0(r, v, range) ==
  LET put(read) == IF read.state # "ok" THEN read
                   ELSE ReadItems0(read, Put(v, Index(range[1]), read.v),
                                   <<range[1] + 1, range[2]>>)
  IN  IF range[1] = range[2] THEN Yields(r, IsArray(v, TRUE)) ELSE put(Read0(r))

ReadObject0(r) ==
  LET object(whole) == IF whole.state # "ok" THEN whole
                       ELSE Yields(whole, IsArray(whole.v, FALSE))
  IN  object(ReadPairs0(Consume(r, 1), NullVariant))

ReadAMF3Object(r) ==
  LET back(read) == [in |-> read.in, v |-> read.v, state |-> read.state]
  IN  back(Read3(NewAmf3(Tail(r.in), NullVariant)))

Read0(r) ==
  LET tok == Head(r.in)
      k == IF "k" \in DOMAIN tok THEN tok.k ELSE tok.t
  IN  CASE k \in {"number", "string", "boolean", "date"} -> Yields(Consume(r, 1), tok)
        [] k \in {"null", "undefined"} -> Yields(Consume(r, 1), NullVariant)
        [] k = "object" -> ReadObject0(r)
        [] k = "mixed" -> ReadMixedArray(r)
        [] k = "array" -> ReadItems0(Consume(r, 2), NullVariant, <<0, r.in[2].n>>)
        [] k = "amf3" -> ReadAMF3Object(r)
        [] k \in {"typed", "xml"} -> Fails(r)

-----------------------------------------------------------------------------
(* RTMPProtocolSerializer *)

\* Values to the end of the message.
RECURSIVE ReadParams(_, _)
ReadParams(r, params) ==
  LET next(read) == IF read.state # "ok" THEN read
                    ELSE ReadParams(read, Append(params, read.v))
  IN  IF r.in = <<>> THEN Yields(r, params) ELSE next(Read0(r))

DeserializeInvoke(r, isFlex) ==
  LET params(id) == IF id.v.t # "number" THEN Fails(r) ELSE ReadParams(id, <<>>)
      named(function) == IF function.v.t # "string" THEN Fails(r)
                         ELSE params(Read0(function))
  IN  named(Read0(IF isFlex THEN Consume(r, 1) ELSE r))

\* Keys and values while fewer bytes were read than the primitive has.
RECURSIVE ReadAttributes(_, _, _)
ReadAttributes(r, payload, rawLength) ==
  LET next(read) ==
        IF read.state # "ok" THEN read
        ELSE ReadAttributes(read, Put(payload, Named(Head(r.in).s), read.v),
                            rawLength - (Len(r.in) - Len(read.in)))
  IN  IF rawLength = 0 THEN Yields(r, <<payload>>)
      ELSE IF rawLength < 0 THEN Fails(r)
      ELSE next(Read0(Consume(r, 1)))

DeserializeSharedObject(r) ==
  ReadAttributes(Consume(r, 2), NullVariant, r.in[2].length)

Deserialize(m, wire) ==
  LET r == [in |-> wire, v |-> NullVariant, state |-> "ok"]
  IN  CASE m.kind = "notify" -> ReadParams(r, <<>>)
        [] m.kind = "flexsend" -> ReadParams(Consume(r, 1), <<>>)
        [] m.kind = "invoke" -> DeserializeInvoke(r, m.encoding = 3)
        [] m.kind = "so" -> DeserializeSharedObject(IF m.encoding = 3 THEN Consume(r, 1)
                                                    ELSE r)

-----------------------------------------------------------------------------
(* AMF0Serializer::Write *)

LengthOf(s) == IF s = "long" THEN 65536 ELSE 1

\* The length of a short string has 16 bits.
WriteShortString(s) == [k |-> "string", s |-> s, length |-> LengthOf(s) % 65536]
WriteLongString(s) == [k |-> "longstring", s |-> s, length |-> LengthOf(s)]

\* Mutant: the longest short string is one longer.
WriteStringOver(s) == IF LengthOf(s) > 65536 THEN WriteLongString(s)
                      ELSE WriteShortString(s)
WriteString(s) == IF LengthOf(s) >= 65536 THEN WriteLongString(s)
                  ELSE WriteShortString(s)

WriteU29(n) ==
  CASE n \in 0 .. 127 -> <<n>>
    [] n \in 128 .. 16383 -> <<128 + (n \div 128), n % 128>>
    [] n \in 16384 .. 2097151 ->
         <<128 + (n \div 16384), 128 + ((n \div 128) % 128), n % 128>>
    [] OTHER -> <<128 + (n \div 4194304), 128 + ((n \div 32768) % 128),
                  128 + ((n \div 256) % 128), n % 256>>

\* An index loses its prefix: both kinds of keys are written by their names.
RECURSIVE Write0(_), WritePairs0(_, _)
WritePairs0(m, keys) ==
  IF keys = <<>> THEN <<Tok("end")>>
  ELSE <<[k |-> "key", s |-> Head(keys).name]>> \o Write0(m[Head(keys)])
         \o WritePairs0(m, Tail(keys))
Write0(v) ==
  CASE v.t = "map" ->
         (IF v.array THEN <<Tok("mixed"), [k |-> "count", n |-> Cardinality(DOMAIN v.m)]>>
                     ELSE <<Tok("object")>>)
           \o WritePairs0(v.m, SetToSeq(DOMAIN v.m))
    [] v.t = "bytes" -> <<Tok("amf3"), Tok("bytes"),
                          [k |-> "u29", b |-> WriteU29(2 * v.n + 1)]>>
    [] v.t = "string" -> <<WriteString(v.s)>>
    [] OTHER -> <<v>>

\* FOR_MAP over the parameters goes by the text of their keys, in which the
\* index 10 comes before the index 2.
Digits(i) == IF i < 10 THEN <<i>> ELSE <<i \div 10, i % 10>>
TextBefore(i, j) ==
  LET a == Digits(i) b == Digits(j)
  IN  a[1] < b[1] \/ (a[1] = b[1] /\ (Len(a) < Len(b)
                        \/ (Len(a) = 2 /\ Len(b) = 2 /\ a[2] < b[2])))
InTextOrder(indexes) == SortSeq(indexes, TextBefore)

\* ProcessNotify and ProcessFlexStreamSend: strings that start with @ are removed.
IsCommand(v) == v.t = "string" /\ v.s = "@s"
Kept(params) == SelectSeq([i \in DOMAIN params |-> i - 1],
                          LAMBDA i : ~IsCommand(params[i + 1]))

SerializeParams(params) ==
  LET order == InTextOrder(Kept(params))
  IN  FlattenSeq([i \in DOMAIN order |-> Write0(params[order[i] + 1])])

\* SO::Track and SerializeSharedObject: a primitive for each property, its length
\* set when the value is written.
SerializeSharedObject(payload) ==
  LET keys == SetToSeq(DOMAIN payload.m)
      update(i) == LET value == Write0(payload.m[keys[i]])
                   IN  <<[k |-> "update", length |-> Len(value) + 1],
                         [k |-> "key", s |-> keys[i].name]>> \o value
  IN  <<Tok("name")>> \o FlattenSeq([i \in DOMAIN keys |-> update(i)])

-----------------------------------------------------------------------------
(* The player (external): AMF0, and byte arrays in AMF3 *)

RECURSIVE Decode(_), DecodePairs(_, _)
DecodePairs(in, m) ==
  LET read == Decode(Tail(in))
  IN  IF "k" \in DOMAIN Head(in) /\ Head(in).k = "end" THEN [v |-> m, in |-> Tail(in)]
      ELSE DecodePairs(read.in, [n \in DOMAIN m \cup {Head(in).s} |->
                                   IF n = Head(in).s THEN read.v ELSE m[n]])
Decode(in) ==
  LET tok == Head(in)
      k == IF "k" \in DOMAIN tok THEN tok.k ELSE tok.t
      one(v) == [v |-> v, in |-> Tail(in)]
      pairs(t, skip) == LET p == DecodePairs(SubSeq(in, skip, Len(in)), <<>>)
                        IN  [v |-> [t |-> t, m |-> p.v], in |-> p.in]
  IN  CASE k \in {"string", "longstring"} ->
             one([t |-> "string", s |-> IF tok.length = LengthOf(tok.s) THEN tok.s
                                        ELSE "cut"])
        [] k = "object" -> pairs("object", 2)
        [] k = "mixed" -> pairs("array", 3)
        [] k = "amf3" -> [v |-> [t |-> "bytes", n |-> ReadU29(in[3].b) \div 2],
                          in |-> SubSeq(in, 4, Len(in))]
        [] OTHER -> one(tok)

RECURSIVE DecodeAll(_), DecodeUpdates(_, _)
DecodeAll(in) == IF in = <<>> THEN <<>>
                 ELSE LET read == Decode(in) IN <<read.v>> \o DecodeAll(read.in)
\* Updates of properties; length says where the next one starts.
DecodeUpdates(in, m) ==
  IF in = <<>> THEN m
  ELSE LET next == SubSeq(in, in[1].length + 2, Len(in))
           value == Decode(SubSeq(in, 3, in[1].length + 1)).v
       IN  DecodeUpdates(next, [n \in DOMAIN m \cup {in[2].s} |->
                                  IF n = in[2].s THEN value ELSE m[n]])

-----------------------------------------------------------------------------
NoMessage == [kind |-> "none", params |-> <<>>, encoding |-> 0]

AmfInit ==
  /\ amfStage = "idle" /\ amfSent = NoMessage /\ amfWire = <<>>
  /\ amfRead = <<>> /\ amfOut = <<>>

PeerSends ==
  /\ amfStage = "idle" /\ amfStage' = "sent"
  /\ \E m \in AmfMessages : amfSent' = m /\ amfWire' = SendMessage(m)
  /\ amfRead' = <<>> /\ amfOut' = <<>>

\* A message that cannot be read closes the connection.
DeserializeMessage ==
  /\ amfStage = "sent"
  /\ \E read \in {Deserialize(amfSent, amfWire)} :
       /\ amfStage' = IF read.state = "ok" THEN "read" ELSE read.state
       /\ amfRead' = IF read.state = "ok" THEN read.v ELSE <<>>
  /\ UNCHANGED <<amfSent, amfWire, amfOut>>

Relays(kinds, out) ==
  /\ amfStage = "read" /\ amfSent.kind \in kinds /\ amfStage' = "relayed"
  /\ amfOut' = out
  /\ UNCHANGED <<amfSent, amfWire, amfRead>>

SendStreamMessage == Relays({"notify", "flexsend"}, SerializeParams(amfRead))
TrackSharedObject == Relays({"so"}, SerializeSharedObject(amfRead[1]))

\* The handler of the invoke has the parameters, and is done with them.
Handled == amfSent.kind = "invoke" /\ amfStage = "read"

\* The next message, on this connection or, after a refusal, on a new one.
Ready ==
  /\ amfStage \in {"relayed", "refused"} \/ Handled
  /\ amfStage' = "idle"
  /\ amfSent' = NoMessage /\ amfWire' = <<>> /\ amfRead' = <<>> /\ amfOut' = <<>>

AmfNext == \/ PeerSends \/ DeserializeMessage
           \/ SendStreamMessage \/ TrackSharedObject \/ Ready

AmfSpec == AmfInit /\ [][AmfNext]_amfVars

-----------------------------------------------------------------------------
(* What is not kept, in so many words *)

AllParts == UNION {Parts(amfSent.params[i]) : i \in DOMAIN amfSent.params}
InAmf3 == amfSent.encoding = 3

\* Kinds that are refused with their message: typed objects and XML (ReadTypedObject,
\* ReadXML), and an array whose count is more than it has (the length of a sparse one).
Unsupported(v) == \/ v.t \in {"typed", "xml"}
                  \/ v.t = "sealed" /\ ~InAmf3
                  \/ v.t = "ecma" /\ v.count > Cardinality(DOMAIN v.m) /\ ~InAmf3

\* The tables of AMF3Serializer differ from the sender's: an array is stored after
\* what it holds, byte arrays have a table of their own.
TablesDiffer(v) == \/ v.t \in {"ecma", "strict"}
                      /\ \E k \in DOMAIN v.m : Complex(v.m[k])
                   \/ v.t = "bytes"
SendsReference(wire) == \E i \in 2 .. Len(wire) :
  /\ "k" \in DOMAIN wire[i] /\ wire[i].k = "ref"
  /\ "k" \in DOMAIN wire[i - 1] /\ wire[i - 1].k \in {"date", "bytes", "ecma", "object", "sealed"}

\* Negative integers of AMF3 (ReadInteger keeps them as 29 bits), members of a
\* class without a name (ReadObject), more than ten parameters (Serialize...).
Excused == \/ InAmf3 /\ \E v \in AllParts : v.t = "sealed"
           \/ InAmf3 /\ SendsReference(amfWire) /\ \E v \in AllParts : TablesDiffer(v)
           \/ InAmf3 /\ \E i \in DOMAIN amfSent.params :
                Container(amfSent.params[i])
                  /\ \E v \in Parts(amfSent.params[i]) : v.t = "number" /\ v.n < 0
           \/ Len(amfSent.params) > 10 /\ amfSent.kind # "invoke"

\* What a player is to get for v: all arrays are mixed ones, undefined is null,
\* and so is an empty object of AMF3.
RECURSIVE Meant(_, _)
Meant(v, in3) ==
  CASE v.t = "undefined" -> NullVariant
    [] v.t = "object" /\ in3 /\ v.m = <<>> -> NullVariant
    [] Container(v) -> [t |-> IF v.t = "object" THEN "object" ELSE "array",
                        m |-> [k \in DOMAIN v.m |-> Meant(v.m[k], in3)]]
    [] OTHER -> v

\* The meaning of a Variant to a handler.
RECURSIVE Meaning(_)
Meaning(v) ==
  IF v.t # "map" THEN v
  ELSE [t |-> IF v.array THEN "array" ELSE "object",
        m |-> [n \in {k.name : k \in DOMAIN v.m} |->
                 Meaning(v.m[CHOOSE k \in DOMAIN v.m : k.name = n])]]

MeantParams(params) == [i \in DOMAIN params |-> Meant(params[i], InAmf3)]
MeantChanges(props) == [n \in DOMAIN props |-> Meant(props[n], InAmf3)]

\* Values that the server supports reach the handler, the player or the client of the
\* shared object as they were meant, without the @ strings of a publisher, whatever
\* they repeat, nest or leave empty; a message with others is refused as a whole
\* (AMF0Serializer, AMF3Serializer, RTMPProtocolSerializer, ProcessNotify).
RelayedAsMeant ==
  /\ Handled /\ ~Excused =>
       [i \in DOMAIN amfRead |-> Meaning(amfRead[i])] = MeantParams(amfSent.params)
  /\ amfStage = "relayed" /\ ~Excused =>
       IF amfSent.kind = "so"
       THEN DecodeUpdates(Tail(amfOut), <<>>) = MeantChanges(amfSent.params[1].m)
       ELSE DecodeAll(amfOut) =
              MeantParams(SelectSeq(amfSent.params, LAMBDA v : ~IsCommand(v)))
  /\ amfStage = "refused" => \E v \in AllParts : Unsupported(v)
  /\ amfStage = "aborted" => InAmf3 /\ \E v \in AllParts : v.t = "typed"
  /\ amfStage = "undefined" => Excused
=============================================================================
