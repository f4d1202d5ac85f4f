------------------------------ MODULE MCLibrary -------------------------------
(***************************************************************************)
(* TLC instance of the parts below the protocols, which share no state:    *)
(* the timers (three of them, periods whose ring grows from 2 to 12 slots, *)
(* pulses that come up to two seconds late), the buffer, the windows of a  *)
(* file, a file that is recorded and played, the values of messages, and   *)
(* MP4 files.  A behaviour is one of a single part; the others stay in     *)
(* their initial state.                                                    *)
(***************************************************************************)
EXTENDS Timers, IOBuffer, MmapWindow, Recordings, Amf, Mp4

-----------------------------------------------------------------------------
(* The messages: values of every kind, containers of them (with the names a *)
(* and 0, so that arrays are dense or not), objects of three values that    *)
(* repeat each other, integers around the lengths of U29, up to eleven      *)
(* parameters; all in both encodings.                                       *)

Num(n) == [t |-> "number", n |-> n]
Str(s) == [t |-> "string", s |-> s]
Obj(m) == [t |-> "object", m |-> m]
Strict(m) == [t |-> "strict", m |-> m]
Leaves == {Num(1), Num(-1), Str("a"), Str(""), [t |-> "undefined"],
           [t |-> "date", n |-> 5], [t |-> "bytes", n |-> 64]}
Special == {[t |-> "typed", m |-> "a" :> Num(1), class |-> "C"],
            [t |-> "sealed", m |-> "a" :> Num(1)], [t |-> "xml"], Str("long"),
            [t |-> "boolean", b |-> TRUE]}
           \cup {[t |-> "bytes", n |-> n] :
                   n \in {0, 63, 64, 8191, 8192, 1048575, 1048576, 268435455}}

Maps(names, values) == UNION {[d -> values] : d \in SUBSET names}
Dense(m) == DOMAIN m = {Numerals[i] : i \in 0 .. Cardinality(DOMAIN m) - 1}
Containers(values) ==
  LET ms == Maps({"a", "0"}, values)
  IN  {Obj(m) : m \in ms}
      \cup {[t |-> "ecma", m |-> m, count |-> c] : m \in ms, c \in {1, 2}}
      \cup {Strict(m) : m \in {n \in Maps({"0", "1"}, values) : Dense(n)}}

Inner == {[t |-> "date", n |-> 5], Str("a"), Num(1), [t |-> "bytes", n |-> 64],
          Obj(<<>>), Obj("a" :> Str("a")), Obj("a" :> Num(1)),
          Strict("0" :> Str("a")), Strict("0" :> Obj("a" :> Num(1)))}
Triples == {Obj("a" :> u @@ "b" :> v @@ "c" :> w) : u, v, w \in Inner}
Values == Leaves \cup Special \cup Containers(Leaves) \cup Containers(Special)

Messages ==
  [kind : {"notify"}, encoding : {0, 3},
   params : {<<Str("@s"), Str("a"), v>> :
               v \in Values \cup Triples \cup Containers(Inner)}]
  \cup [kind : {"invoke", "flexsend"}, encoding : {0, 3},
        params : {<<v, v, Str("@s")>> : v \in Containers(Inner)}
                 \cup {[i \in 1 .. n |-> Num(i)] : n \in {10, 11}}]
  \cup [kind : {"so"}, encoding : {0, 3},
        params : {<<Obj("0" :> v @@ "a" :> w)>> :
                    v \in Values, w \in {Num(1), [t |-> "undefined"]}}]

-----------------------------------------------------------------------------
(* The films: up to three tracks of up to three samples in every order of   *)
(* chunks, muxed in each way a muxer can choose, whole or in one or two     *)
(* fragments.                                                               *)

Sampled(size, delta, cto, key) == [size |-> size, delta |-> delta, cto |-> cto, key |-> key]
Track(kind, codec, scale, samples) ==
  [kind |-> kind, codec |-> codec, scale |-> scale, samples |-> samples]
Video(n) == Track("vide", "avc", 500,
  SubSeq(<<Sampled(2, 1, 1, TRUE), Sampled(1, 2, 0, FALSE), Sampled(1, 1, 2, TRUE)>>, 1, n))
Audio(n) == Track("soun", "aac", 1000, Repeat(n, Sampled(1, 1, 0, TRUE)))
Text == Track("text", "other", 1000, <<Sampled(1, 1, 0, TRUE)>>)

\* The sequences of chunks that hold the samples left of each track; their parts.
RECURSIVE Layouts(_)
Layouts(left) ==
  IF \A t \in DOMAIN left : left[t] = 0 THEN {<<>>}
  ELSE UNION {{<<<<t, n>>>> \o rest : rest \in Layouts([left EXCEPT ![t] = @ - n])} :
                <<t, n>> \in {<<u, k>> \in (DOMAIN left) \X (1 .. 3) : k <= left[u]}}
LayoutsOf(tracks) == Layouts([t \in DOMAIN tracks |-> Len(tracks[t].samples)])
Splits(s) ==
  {<<s>>} \cup {<<SubSeq(s, 1, k), SubSeq(s, k + 1, Len(s))>> : k \in 1 .. Len(s) - 1}

Muxed(tracks, parts, options) == options @@ [tracks |-> tracks, parts |-> parts]
Usual == [fragmented |-> FALSE, moovFirst |-> TRUE, big |-> FALSE, toEnd |-> FALSE,
          compact |-> TRUE, stss |-> TRUE, cttsUpTo |-> 9, version |-> 0,
          extras |-> FALSE, defaults |-> "none"]
Options == {[Usual EXCEPT !.compact = c, !.stss = s, !.cttsUpTo = u, !.big = b,
                          !.moovFirst = m] :
              c, s, b, m \in BOOLEAN, u \in {0, 2, 9}}
Odd == {[Usual EXCEPT !.version = 1], [Usual EXCEPT !.version = 2],
        [Usual EXCEPT !.extras = TRUE], [Usual EXCEPT !.moovFirst = FALSE, !.extras = TRUE],
        [Usual EXCEPT !.toEnd = TRUE]}
Fragmented == [Usual EXCEPT !.fragmented = TRUE]
InParts == {Fragmented, [Fragmented EXCEPT !.big = TRUE], [Fragmented EXCEPT !.extras = TRUE],
            [Fragmented EXCEPT !.defaults = "duration"],
            [Fragmented EXCEPT !.defaults = "offset"]}

Casts == {<<Video(3), Audio(2)>>, <<Audio(2), Video(2)>>, <<Video(1)>>, <<Audio(1)>>,
          <<Text, Video(2), Audio(1)>>}
OddCasts == {<<Video(2), Video(3), Audio(1)>>,
             <<[Video(2) EXCEPT !.codec = "other"], Audio(2)>>,
             <<Video(2), [Audio(2) EXCEPT !.codec = "aac in wave"]>>}
MuxedFilms ==
  UNION {{Muxed(ts, <<l>>, o) : l \in LayoutsOf(ts), o \in Options \cup Odd} : ts \in Casts}
  \cup UNION {{Muxed(ts, <<l>>, o) : l \in LayoutsOf(ts), o \in Odd} : ts \in OddCasts}
  \cup UNION {UNION {{Muxed(ts, p, o) : p \in Splits(l)} : l \in LayoutsOf(ts)} :
                ts \in {<<Video(3), Audio(2)>>, <<Video(2)>>, <<Text, Video(2), Audio(1)>>},
                o \in InParts}

-----------------------------------------------------------------------------
VARIABLE part

LibraryInit ==
  /\ part \in {"timers", "buffer", "window", "recordings", "amf", "mp4"}
  /\ Init /\ IOInit /\ MmapInit /\ RecInit /\ AmfInit /\ Mp4Init

LibraryNext ==
  \/ /\ part = "timers" /\ Next
     /\ UNCHANGED <<ioVars, mmapVars, recVars, amfVars, mp4Vars, part>>
  \/ /\ part = "buffer" /\ IONext
     /\ UNCHANGED <<vars, mmapVars, recVars, amfVars, mp4Vars, part>>
  \/ /\ part = "window" /\ MmapNext
     /\ UNCHANGED <<vars, ioVars, recVars, amfVars, mp4Vars, part>>
  \/ /\ part = "recordings" /\ RecNext
     /\ UNCHANGED <<vars, ioVars, mmapVars, amfVars, mp4Vars, part>>
  \/ /\ part = "amf" /\ AmfNext
     /\ UNCHANGED <<vars, ioVars, mmapVars, recVars, mp4Vars, part>>
  \/ /\ part = "mp4" /\ Mp4Next
     /\ UNCHANGED <<vars, ioVars, mmapVars, recVars, amfVars, part>>
=============================================================================
