--------------------------------- MODULE Mp4 ----------------------------------
(***************************************************************************)
(* MP4Document: an MP4 file as muxers write them is read into a tree of    *)
(* atoms, and the sample tables of its tracks, or the runs of its          *)
(* fragments, become the table of frames that is played (InFile).  A file  *)
(* is a sequence of cells, one for a field or for a part of a sample;      *)
(* sizes and offsets count cells.                                          *)
(***************************************************************************)
EXTENDS Integers, Sequences, FiniteSets, SequencesExt, TLC

CONSTANT Films  \* what the muxers are given, records with the fields
                \* tracks: <<[kind, codec, scale, samples: <<[size, delta, cto, key]>>]>>
                \* parts: for each part of the file its chunks, <<track, samples>>
                \* fragmented, moovFirst, big, toEnd, compact, stss, cttsUpTo,
                \* version, extras, defaults

VARIABLES
  mp4Stage,  \* "closed", "opened", "parsed", "built", "refused", "undefined"
  film,      \* what the file holds
  mp4File,   \* its cells
  topAtoms,  \* _topAtoms, with the atoms in them
  mp4Frames  \* _frames

mp4Vars == <<mp4Stage, film, mp4File, topAtoms, mp4Frames>>

\* The types of atoms, numbers no size or offset of a small file comes near.
T == [ftyp |-> 10001, moov |-> 10002, moof |-> 10003, mvex |-> 10004, mvhd |-> 10005,
      mfhd |-> 10006, trak |-> 10007, traf |-> 10008, trex |-> 10009, trun |-> 10010,
      tkhd |-> 10011, tfhd |-> 10012, mdia |-> 10013, mdhd |-> 10014, hdlr |-> 10015,
      minf |-> 10016, smhd |-> 10017, dinf |-> 10018, stbl |-> 10019, vmhd |-> 10020,
      dref |-> 10021, stsd |-> 10022, stts |-> 10023, stsc |-> 10024, stsz |-> 10025,
      stco |-> 10026, ctts |-> 10027, stss |-> 10028, url |-> 10029, mp4a |-> 10030,
      avc1 |-> 10031, esds |-> 10032, avcc |-> 10033, udta |-> 10034, wave |-> 10035,
      meta |-> 10036, ilst |-> 10037, data |-> 10038, co64 |-> 10039, nam |-> 10040,
      \* types ReadAtom does not know
      mdat |-> 10041, free |-> 10042, edts |-> 10043, sdtp |-> 10044, tfdt |-> 10045,
      mp4v |-> 10046,
      \* the sub types of HDLR
      vide |-> 10047, soun |-> 10048, text |-> 10049]

Repeat(n, x) == [i \in 1 .. n |-> x]
Sum(s) == LET Upto[i \in 0 .. Len(s)] == IF i = 0 THEN 0 ELSE Upto[i - 1] + s[i]
          IN  Upto[Len(s)]
Bit(n, k) == (n \div 2^k) % 2 = 1

-----------------------------------------------------------------------------
(* The muxer (external) *)

Box(type, payload) == <<Len(payload) + 2, type>> \o payload

\* Runs of equal values as <<count, value>>, each value on its own if not compact.
RECURSIVE RunsOf(_, _)
RunsOf(s, compact) ==
  IF s = <<>> THEN <<>>
  ELSE LET n == IF compact
                THEN CHOOSE k \in 1 .. Len(s) :
                       /\ \A i \in 1 .. k : s[i] = s[1]
                       /\ k = Len(s) \/ s[k + 1] # s[1]
                ELSE 1
       IN  <<<<n, s[1]>>>> \o RunsOf(SubSeq(s, n + 1, Len(s)), compact)
Pairs(runs) == <<Len(runs)>> \o FlattenSeq(runs)

\* All chunks of a film; those of a track; the samples before a chunk in its track.
Chunks(f) == FlattenSeq(f.parts)
ChunksOf(chunks, t) == SelectSeq(chunks, LAMBDA c : c[1] = t)
FirstOf(chunks, n) ==
  Sum([i \in 1 .. n - 1 |-> IF chunks[i][1] = chunks[n][1] THEN chunks[i][2] ELSE 0])
Content(t, i, size) == [k \in 1 .. size |-> 20000 + 1000 * t + 10 * i + k]
Payload(f, n) ==
  LET c == Chunks(f)[n] first == FirstOf(Chunks(f), n)
  IN  FlattenSeq([i \in 1 .. c[2] |->
                    Content(c[1], first + i, f.tracks[c[1]].samples[first + i].size)])

\* The sample tables of track t, the chunks being at offsets.
SampleTables(f, t, offsets) ==
  LET track == f.tracks[t]
      samples == IF f.fragmented THEN <<>> ELSE track.samples
      chunks == IF f.fragmented THEN <<>> ELSE ChunksOf(Chunks(f), t)
      sizes == [i \in DOMAIN samples |-> samples[i].size]
      perChunk == RunsOf([i \in DOMAIN chunks |-> chunks[i][2]], f.compact)
      firsts == [i \in DOMAIN perChunk |->
                   1 + Sum([j \in 1 .. i - 1 |-> perChunk[j][1]])]
      keys == SelectSeq([i \in DOMAIN samples |-> i], LAMBDA i : samples[i].key)
      ctts == [i \in 1 .. (IF f.cttsUpTo < Len(samples) THEN f.cttsUpTo ELSE Len(samples))
                 |-> samples[i].cto]
      entry == CASE track.codec = "avc" ->
                      Box(T.avc1, <<0, 65535>> \o Box(T.avcc, <<1, 1, 2, 7, 7, 1, 1, 8>>))
                 [] track.codec = "aac" ->
                      Box(T.mp4a, <<0, 0>> \o Box(T.esds, <<0, 3, 4, 5, 2, 9, 9>>))
                 [] track.codec = "aac in wave" ->
                      Box(T.mp4a, <<0, 1, 0>> \o
                            Box(T.wave, Box(T.mp4a, <<0>>)
                                          \o Box(T.esds, <<0, 3, 4, 6, 0, 5, 2, 9, 9, 0>>)))
                 [] OTHER -> Box(T.mp4v, <<0, 0, 0>>)
  IN  Box(T.stsd, <<0, 1>> \o entry)
      \o Box(T.stts, <<0>> \o Pairs(RunsOf([i \in DOMAIN samples |-> samples[i].delta],
                                           f.compact)))
      \o (IF f.cttsUpTo > 0 THEN Box(T.ctts, <<0>> \o Pairs(RunsOf(ctts, f.compact)))
                            ELSE <<>>)
      \o Box(T.stsc, <<0, Len(perChunk)>>
                       \o FlattenSeq([i \in DOMAIN perChunk |-> <<firsts[i], perChunk[i][2], 1>>]))
      \o (IF f.compact /\ sizes # <<>> /\ \A i \in DOMAIN sizes : sizes[i] = sizes[1]
          THEN Box(T.stsz, <<0, sizes[1], Len(sizes)>>)
          ELSE Box(T.stsz, <<0, 0, Len(sizes)>> \o sizes))
      \o (IF f.big THEN Box(T.co64, <<0, Len(offsets)>>
                                      \o FlattenSeq([i \in DOMAIN offsets |-> <<0, offsets[i]>>]))
                   ELSE Box(T.stco, <<0, Len(offsets)>> \o offsets))
      \o (IF f.stss THEN Box(T.stss, <<0, Len(keys)>> \o keys) ELSE <<>>)
      \o (IF f.extras THEN Box(T.sdtp, <<0, 0>>) ELSE <<>>)

Trak(f, t, offsets) ==
  LET track == f.tracks[t]
      head == CASE track.kind = "vide" -> Box(T.vmhd, <<0, 0>>)
                [] track.kind = "soun" -> Box(T.smhd, <<0, 0>>)
                [] OTHER -> <<>>
  IN  Box(T.trak,
        Box(T.tkhd, IF f.version = 1 THEN <<1, 0, t, 0>> ELSE <<0, t, 0>>)
        \o (IF f.extras THEN Box(T.edts, <<0>>) \o Box(T.udta, <<1, 1>>) ELSE <<>>)
        \o Box(T.mdia,
             Box(T.mdhd, IF f.version > 0 THEN <<1, 0, track.scale>> ELSE <<0, track.scale>>)
             \o Box(T.hdlr, <<0, T[track.kind], 5, 5>>)
             \o Box(T.minf, head \o Box(T.dinf, Box(T.dref, <<0, 1>> \o Box(T.url, <<0>>)))
                              \o Box(T.stbl, SampleTables(f, t, offsets)))))

\* Tags: one in the way of QuickTime, one of iTunes, and the null atom at the end.
Tags == Box(T.udta, Box(T.nam, <<1, 5>>)
                    \o Box(T.meta, <<0>> \o Box(T.hdlr, <<0, 0, 5>>)
                           \o Box(T.ilst, Box(T.nam, Box(T.data, <<1, 0, 5>>))))
                    \o <<0>>)

\* offsets: of the chunks of each track.
Moov(f, offsets) ==
  Box(T.moov, Box(T.mvhd, <<0, 1000>>)
              \o FlattenSeq([t \in DOMAIN f.tracks |-> Trak(f, t, offsets[t])])
              \o (IF f.fragmented
                  THEN Box(T.mvex, FlattenSeq([t \in DOMAIN f.tracks |->
                                                 Box(T.trex, <<0, t, 1, 1, 1, 0>>)]))
                  ELSE <<>>)
              \o (IF f.extras THEN Tags ELSE <<>>))

MdatHeader(f, n) == IF f.toEnd THEN <<0, T.mdat>>
                    ELSE IF f.big THEN <<1, T.mdat, 0, n + 4>>
                    ELSE <<n + 2, T.mdat>>

\* One run per chunk, the flags of a run being the bits 0: offset, 1: first flags,
\* 2: duration, 3: size, 4: flags, 5: composition offset; data of the part at base.
Traf(f, part, t, base) ==
  LET before == Sum([p \in 1 .. part - 1 |-> Len(f.parts[p])])
      track == f.tracks[t]
      chunk(c) == before + c
      run(c) ==
        LET first == FirstOf(Chunks(f), chunk(c))
            n == f.parts[part][c][2]
            offset == Sum([d \in 1 .. c - 1 |-> Len(Payload(f, chunk(d)))])
            fields(i) == LET s == track.samples[first + i]
                         IN  (IF f.defaults = "duration" THEN <<>> ELSE <<s.delta>>)
                             \o <<s.size, IF s.key THEN 0 ELSE 1, s.cto>>
        IN  Box(T.trun,
                CASE f.defaults = "offset" ->
                       <<8 + 4 + 16 + 32, n>> \o FlattenSeq([i \in 1 .. n |-> fields(i)])
                  [] f.defaults = "duration" ->
                       <<1 + 8 + 16 + 32, n, offset>>
                         \o FlattenSeq([i \in 1 .. n |-> fields(i)])
                  [] OTHER -> <<1 + 4 + 8 + 16 + 32, n, offset>>
                                \o FlattenSeq([i \in 1 .. n |-> fields(i)]))
      runs == SelectSeq([c \in DOMAIN f.parts[part] |-> c], LAMBDA c : f.parts[part][c][1] = t)
  IN  IF runs = <<>> THEN <<>>
      ELSE Box(T.traf, Box(T.tfhd, IF f.defaults = "duration"
                                   THEN <<1 + 8, t, base, track.samples[1].delta>>
                                   ELSE <<1, t, base>>)
                       \o (IF f.extras THEN Box(T.tfdt, <<0, 0>>) ELSE <<>>)
                       \o FlattenSeq([c \in DOMAIN runs |-> run(runs[c])]))

\* The parts of a fragmented file from position at.
RECURSIVE Fragments(_, _, _)
Fragments(f, part, at) ==
  IF part > Len(f.parts) THEN <<>>
  ELSE LET before == Sum([p \in 1 .. part - 1 |-> Len(f.parts[p])])
           moof(base) == Box(T.moof, Box(T.mfhd, <<0, part>>)
                           \o FlattenSeq([t \in DOMAIN f.tracks |-> Traf(f, part, t, base)]))
           content == FlattenSeq([c \in DOMAIN f.parts[part] |-> Payload(f, before + c)])
           head == MdatHeader(f, Len(content))
           whole == moof(at + Len(moof(0)) + Len(head)) \o head \o content
       IN  whole \o Fragments(f, part + 1, at + Len(whole))

Mux(f) ==
  LET start == Box(T.ftyp, <<1, 2, 3>>) \o (IF f.extras THEN Box(T.free, <<0>>) ELSE <<>>)
      chunks == Chunks(f)
      content == FlattenSeq([n \in DOMAIN chunks |-> Payload(f, n)])
      head == MdatHeader(f, Len(content))
      zeros == [t \in DOMAIN f.tracks |->
                  Repeat(IF f.fragmented THEN 0 ELSE Len(ChunksOf(chunks, t)), 0)]
      base == Len(start) + Len(head) + (IF f.moovFirst THEN Len(Moov(f, zeros)) ELSE 0)
      at(n) == base + Sum([m \in 1 .. n - 1 |-> Len(Payload(f, m))])
      placed == [n \in DOMAIN chunks |-> <<chunks[n][1], at(n)>>]
      offsets == [t \in DOMAIN f.tracks |->
                    IF f.fragmented THEN <<>>
                    ELSE [i \in DOMAIN zeros[t] |-> ChunksOf(placed, t)[i][2]]]
      moov == Moov(f, offsets)
  IN  IF f.fragmented THEN start \o moov \o Fragments(f, 1, Len(start \o moov))
      ELSE IF f.moovFirst THEN start \o moov \o head \o content
      ELSE start \o head \o content \o moov

-----------------------------------------------------------------------------
(* ReadAtom.  Positions count from 0; at(p) is the cell at position p. *)

CellAt(file, p) == file[p + 1]

\* The atoms AtomCreated takes; it fails on others, but for those ReadAtom ignores.
MoovTakes == {T.mvex, T.mvhd, T.udta, T.trak, T.meta}
TrakTakes == {T.tkhd, T.mdia, T.hdlr, T.minf, T.dinf, T.stbl, T.udta, T.meta}
MdiaTakes == {T.mdhd, T.hdlr, T.minf, T.dinf, T.stbl}
MinfTakes == {T.smhd, T.dinf, T.stbl, T.vmhd, T.hdlr}
StblTakes == {T.stsd, T.stts, T.stsc, T.stsz, T.stco, T.co64, T.ctts, T.stss}
StsdTakes == {T.mp4a, T.avc1}
Mp4aTakes == {T.esds, T.wave}
WaveTakes == {T.mp4a, T.esds}
MoofTakes == {T.mfhd, T.traf}
TrafTakes == {T.tfhd, T.trun}
UdtaTakes == {T.meta, T.nam}
MetaTakes == {T.hdlr, T.ilst}
Takes == (T.moov :> MoovTakes @@ T.trak :> TrakTakes @@ T.mdia :> MdiaTakes
          @@ T.minf :> MinfTakes @@ T.stbl :> StblTakes @@ T.stsd :> StsdTakes
          @@ T.mp4a :> Mp4aTakes @@ T.wave :> WaveTakes @@ T.moof :> MoofTakes
          @@ T.traf :> TrafTakes @@ T.udta :> UdtaTakes @@ T.meta :> MetaTakes
          @@ T.mvex :> {T.trex} @@ T.dinf :> {T.dref} @@ T.dref :> {T.url}
          @@ T.avc1 :> {T.avcc} @@ T.ilst :> {T.nam} @@ T.nam :> {T.data})

\* The parameter sets of AVCC from p: a number of them, each with its length.
RECURSIVE AfterSets(_, _, _)
AfterSets(file, p, n) ==
  IF n = 0 THEN p ELSE AfterSets(file, p + 1 + CellAt(file, p), n - 1)

\* Where the data of a sample description's decoder starts: tags 3, 4 and 5, with
\* a tag 6 in front of the last in some files; -1 if there is none.
DecoderSpecific(file, p) ==
  LET tag == IF CellAt(file, p + 3) = 6 THEN p + 5 ELSE p + 3
  IN  IF CellAt(file, p + 2) = 4 /\ CellAt(file, tag) = 5 THEN tag + 2 ELSE -1

Bits(flags, ks) == Cardinality({k \in ks : Bit(flags, k)})
RunFields(flags) == Bits(flags, 2 .. 5)

\* Where the Read of each atom that is no box ends: its fields are at p, its own end
\* is at end; -1 if it fails.  TKHD and MVHD are read as version 0 whatever they are.
ReadSTTS(file, p) == p + 2 + 2 * CellAt(file, p + 1)
ReadCTTS(file, p) == p + 2 + 2 * CellAt(file, p + 1)
ReadSTSC(file, p) == p + 2 + 3 * CellAt(file, p + 1)
ReadSTSZ(file, p) == p + 3 + (IF CellAt(file, p + 1) = 0 THEN CellAt(file, p + 2) ELSE 0)
ReadSTCO(file, p) == p + 2 + CellAt(file, p + 1)
ReadCO64(file, p) == p + 2 + 2 * CellAt(file, p + 1)
ReadSTSS(file, p) == p + 2 + CellAt(file, p + 1)
ReadTKHD(p) == p + 3
ReadMVHD(p) == p + 2
ReadMDHD(file, p) == IF CellAt(file, p) = 1 THEN p + 3 ELSE p + 2
ReadTREX(p) == p + 6
ReadTFHD(file, p) == p + 2 + Bits(CellAt(file, p), {0, 1, 3, 4, 5})
ReadTRUN(file, p) ==
  p + 2 + Bits(CellAt(file, p), {0, 1}) + CellAt(file, p + 1) * RunFields(CellAt(file, p))
ReadAVCC(file, p) == LET q == AfterSets(file, p + 2, CellAt(file, p + 1))
                     IN  AfterSets(file, q + 1, CellAt(file, q))
ReadESDS(file, p, end) == IF DecoderSpecific(file, p) = -1 THEN -1 ELSE end
ReadDATA(file, p, end) == IF CellAt(file, p) \in {0, 1, 14, 15, 21} THEN end ELSE -1
ReadLeaf(file, type, p, end) ==
  CASE type = T.stts -> ReadSTTS(file, p)
    [] type = T.ctts -> ReadCTTS(file, p)
    [] type = T.stsc -> ReadSTSC(file, p)
    [] type = T.stsz -> ReadSTSZ(file, p)
    [] type = T.stco -> ReadSTCO(file, p)
    [] type = T.co64 -> ReadCO64(file, p)
    [] type = T.stss -> ReadSTSS(file, p)
    [] type = T.tkhd -> ReadTKHD(p)
    [] type = T.mvhd -> ReadMVHD(p)
    [] type = T.mdhd -> ReadMDHD(file, p)
    [] type = T.trex -> ReadTREX(p)
    [] type = T.tfhd -> ReadTFHD(file, p)
    [] type = T.trun -> ReadTRUN(file, p)
    [] type = T.avcc -> ReadAVCC(file, p)
    [] type = T.esds -> ReadESDS(file, p, end)
    [] type = T.data -> ReadDATA(file, p, end)
    [] type \in {T.mfhd, T.vmhd, T.smhd} -> p + 2
    [] type \in {T.ftyp, T.hdlr, T.url} -> end

\* Where the atoms in a box start, after the fields at p (ReadData); -1 if it fails.
ReadAVC1(file, p) == IF CellAt(file, p + 1) = 65535 THEN p + 2 ELSE -1
ReadMP4A(file, p, size) == IF size = 3 THEN p + 1
                           ELSE IF CellAt(file, p + 1) = 0 THEN p + 2 ELSE p + 3
ReadBoxData(file, type, p, size) ==
  CASE type = T.stsd \/ type = T.dref -> p + 2
    [] type = T.avc1 -> ReadAVC1(file, p)
    [] type = T.mp4a -> ReadMP4A(file, p, size)
    [] type = T.meta -> p + 1
    [] OTHER -> p

\* UDTA and META are skipped unless they are those of the movie; a tag is a box only
\* if an atom DATA is in it.
Skipped(file, type, p, path) ==
  \/ type = T.udta /\ path # <<T.moov>>
  \/ type = T.meta /\ path # <<T.moov, T.udta>>
  \/ type = T.nam /\ CellAt(file, p + 1) # T.data

NoAtom == [ok |-> FALSE]
Atom(type, start, size, fields, ignored, atoms) ==
  [ok |-> TRUE, type |-> type, start |-> start, size |-> size, fields |-> fields,
   ignored |-> ignored, atoms |-> atoms]
After(atom) == atom.start + atom.size

RECURSIVE ReadAtom(_, _, _), ReadAtoms(_, _, _, _)

\* BoxAtom::Read up to the position end, of a box that path leads to.
ReadAtoms(file, p, path, end) ==
  IF p = end THEN [ok |-> TRUE, atoms |-> <<>>]
  ELSE LET atom == ReadAtom(file, p, path)
           rest == ReadAtoms(file, After(atom), path, end)
       IN  IF \/ ~atom.ok
              \/ ~atom.ignored /\ atom.type \notin Takes[Last(path)]
              \/ ~rest.ok
           THEN NoAtom
           ELSE [ok |-> TRUE, atoms |-> <<atom>> \o rest.atoms]

\* A size of zero is an atom of that one field, a size of one is followed by a long one.
ReadAtom(file, p, path) ==
  IF p >= Len(file) THEN NoAtom
  ELSE IF CellAt(file, p) = 0 THEN Atom(0, p, 1, p + 1, TRUE, <<>>)
  ELSE IF p + 1 >= Len(file) THEN NoAtom
  ELSE
  LET type == CellAt(file, p + 1)
      size == IF CellAt(file, p) = 1 THEN CellAt(file, p + 3) ELSE CellAt(file, p)
      fields == IF CellAt(file, p) = 1 THEN p + 4 ELSE p + 2
      end == p + size
      inside == ReadBoxData(file, type, fields, size)
      box == ReadAtoms(file, inside, Append(path, type), end)
      known == type \in T.ftyp .. T.nam
  IN  IF end > Len(file) THEN NoAtom
      ELSE IF ~known THEN Atom(type, p, size, fields, TRUE, <<>>)
      ELSE IF Skipped(file, type, fields, path) THEN Atom(type, p, size, fields, FALSE, <<>>)
      ELSE IF type \in DOMAIN Takes
      THEN IF inside # -1 /\ box.ok THEN Atom(type, p, size, fields, FALSE, box.atoms)
                                    ELSE NoAtom
      ELSE IF ReadLeaf(file, type, fields, end) = end
      THEN Atom(type, p, size, fields, FALSE, <<>>)
      ELSE NoAtom

\* ParseDocument: at the top only FTYP, MOOV and MOOF, and what is ignored.
RECURSIVE TopAtoms(_, _)
TopAtoms(file, p) ==
  IF p = Len(file) THEN [ok |-> TRUE, atoms |-> <<>>]
  ELSE LET atom == ReadAtom(file, p, <<>>)
           rest == TopAtoms(file, After(atom))
       IN  IF \/ ~atom.ok
              \/ ~atom.ignored /\ atom.type \notin {T.ftyp, T.moov, T.moof}
              \/ ~rest.ok
           THEN NoAtom
           ELSE [ok |-> TRUE, atoms |-> <<atom>> \o rest.atoms]

-----------------------------------------------------------------------------
(* The tree of atoms *)

\* GetPath: the first atom of each type on the way.
RECURSIVE GetPath(_, _)
GetPath(atom, path) ==
  IF path = <<>> THEN atom
  ELSE LET i == SelectInSeq(atom.atoms, LAMBDA a : a.type = Head(path))
       IN  IF i = 0 THEN NoAtom ELSE GetPath(atom.atoms[i], Tail(path))

Moovs == SelectSeq(topAtoms, LAMBDA a : a.type = T.moov)
Moofs == SelectSeq(topAtoms, LAMBDA a : a.type = T.moof)

\* The field k of an atom, counted from 0 after its header.
Field(atom, k) == CellAt(mp4File, atom.fields + k)
Cells(from, n) == SubSeq(mp4File, from + 1, from + n)

\* GetTRAK: the first track whose handler says so.
GetTRAK(kind) ==
  LET tracks == SelectSeq(Last(Moovs).atoms, LAMBDA a : a.type = T.trak)
      i == SelectInSeq(tracks, LAMBDA t : Field(GetPath(t, <<T.mdia, T.hdlr>>), 1) = T[kind])
  IN  IF i = 0 THEN NoAtom ELSE tracks[i]

TrackId(trak) == Field(GetPath(trak, <<T.tkhd>>), 1)
TimeScale(trak) ==
  LET mdhd == GetPath(trak, <<T.mdia, T.mdhd>>)
  IN  Field(mdhd, IF Field(mdhd, 0) = 1 THEN 2 ELSE 1)
InStbl(trak, type) == GetPath(trak, <<T.mdia, T.minf, T.stbl, type>>)

\* GetTRAF: the last TRAF with the id of the track.
GetTRAF(moof, kind) ==
  LET trak == GetTRAK(kind)
      trafs == SelectSeq(moof.atoms, LAMBDA a :
                 a.type = T.traf /\ Field(GetPath(a, <<T.tfhd>>), 1) = TrackId(trak))
  IN  IF ~trak.ok \/ trafs = <<>> THEN NoAtom ELSE Last(trafs)

-----------------------------------------------------------------------------
(* The sample tables, one entry for each sample *)

\* Entries of two fields, a count and a value, from the field 2 on.
Expand(atom) ==
  FlattenSeq([i \in 1 .. Field(atom, 1) |-> Repeat(Field(atom, 2 * i), Field(atom, 2 * i + 1))])
SttsEntries(stts) == Expand(stts)
CttsEntries(ctts) == Expand(ctts)

StszEntries(stsz) ==
  IF Field(stsz, 1) # 0 THEN Repeat(Field(stsz, 2), Field(stsz, 1))
  ELSE [i \in 1 .. Field(stsz, 2) |-> Field(stsz, 2 + i)]

StcoEntries(stco) == [i \in 1 .. Field(stco, 1) |-> Field(stco, 1 + i)]
Co64Entries(co64) == [i \in 1 .. Field(co64, 1) |-> Field(co64, 1 + 2 * i)]
StssEntries(stss) == [i \in 1 .. Field(stss, 1) |-> Field(stss, 1 + i)]

\* The chunk of each sample, chunks counted from 1: an entry holds up to the first
\* chunk of the next, the last one for all that are left.
StscEntries(stsc, chunks) ==
  LET n == Field(stsc, 1)
      first(i) == Field(stsc, 3 * i - 1)
      per(i) == Field(stsc, 3 * i)
      middle == FlattenSeq([i \in 1 .. n - 1 |-> Repeat(first(i + 1) - first(i), per(i))])
      perChunk == middle \o Repeat(chunks - Len(middle), per(n))
  IN  IF n = 0 THEN <<>>
      ELSE FlattenSeq([c \in DOMAIN perChunk |-> Repeat(perChunk[c], c)])

-----------------------------------------------------------------------------
(* The frames *)

Frame(start, length, kind, key, time, delta, cto, header) ==
  [start |-> start, length |-> length, kind |-> kind, key |-> key, time |-> time,
   delta |-> delta, cto |-> cto, header |-> header]

\* Milliseconds; the scales of the model divide what they are applied to.
Ms(time, scale) == (time * 1000) \div scale

\* Mutant: the offset goes on over the end of a chunk.
OffsetsInChunksKept(chunkOf, sizes) ==
  LET Offset[i \in 1 .. Len(sizes)] == IF i = 1 THEN 0 ELSE Offset[i - 1] + sizes[i - 1]
  IN  Offset
OffsetsInChunks(chunkOf, sizes) ==
  LET Offset[i \in 1 .. Len(sizes)] ==
        IF i = 1 \/ chunkOf[i] # chunkOf[i - 1] THEN 0 ELSE Offset[i - 1] + sizes[i - 1]
  IN  Offset

\* BuildMOOVFrames; ok is false if a sample is in no chunk or has no duration.
BuildMOOVFrames(kind) ==
  LET trak == GetTRAK(kind)
      scale == TimeScale(trak)
      sizes == StszEntries(InStbl(trak, T.stsz))
      deltas == SttsEntries(InStbl(trak, T.stts))
      stco == InStbl(trak, T.stco)
      chunks == IF stco.ok THEN StcoEntries(stco) ELSE Co64Entries(InStbl(trak, T.co64))
      chunkOf == StscEntries(InStbl(trak, T.stsc), Len(chunks))
      stss == InStbl(trak, T.stss)
      ctts == InStbl(trak, T.ctts)
      keys == IF stss.ok THEN ToSet(StssEntries(stss)) ELSE DOMAIN sizes
      ctos == IF ctts.ok THEN CttsEntries(ctts) ELSE <<>>
      padded == ctos \o Repeat(Len(sizes) - Len(ctos), 0)
      offsets == OffsetsInChunks(chunkOf, sizes)
  IN  IF Len(chunkOf) < Len(sizes) \/ Len(deltas) < Len(sizes) THEN NoAtom
      ELSE [ok |-> TRUE,
            frames |-> [i \in DOMAIN sizes |->
              Frame(chunks[chunkOf[i]] + offsets[i], sizes[i], kind, i \in keys,
                    Ms(Sum(SubSeq(deltas, 1, i - 1)), scale), Ms(deltas[i], scale),
                    Ms(padded[i], scale), FALSE)]]

\* The samples of a TRUN: what its flags leave out is zero.
Samples(trun) ==
  LET flags == Field(trun, 0)
      start == 2 + Bits(flags, {0, 1})
      field(i, k) == IF Bit(flags, k)
                     THEN Field(trun, start + (i - 1) * RunFields(flags)
                                        + Bits(flags, 2 .. k - 1))
                     ELSE 0
  IN  [i \in 1 .. Field(trun, 1) |->
         [delta |-> field(i, 2), size |-> field(i, 3), flags |-> field(i, 4),
          cto |-> field(i, 5)]]

\* BuildMOOFFrames: times start at zero with each MOOF; the defaults of TFHD and TREX
\* are not used, and the offset of a run that has none is not initialized (ok false).
RunFrames(start, samples, earlier, kind, scale) ==
  LET all == earlier \o samples
  IN  [i \in DOMAIN samples |->
         Frame(start + Sum([j \in 1 .. i - 1 |-> samples[j].size]),
               samples[i].size, kind, kind = "vide" /\ samples[i].flags = 0,
               Ms(Sum([j \in 1 .. Len(earlier) + i - 1 |-> all[j].delta]), scale),
               Ms(samples[i].delta, scale), Ms(samples[i].cto, scale), FALSE)]

TrafFrames(traf, kind, scale) ==
  LET tfhd == GetPath(traf, <<T.tfhd>>)
      base == IF Bit(Field(tfhd, 0), 0) THEN Field(tfhd, 2) ELSE 0
      runs == SelectSeq(traf.atoms, LAMBDA a : a.type = T.trun)
      before(r) == FlattenSeq([q \in 1 .. r - 1 |-> Samples(runs[q])])
      frames(r) == RunFrames(base + Field(runs[r], 2), Samples(runs[r]), before(r),
                             kind, scale)
  IN  IF ~traf.ok THEN [ok |-> TRUE, frames |-> <<>>]
      ELSE IF \E r \in DOMAIN runs : ~Bit(Field(runs[r], 0), 0) THEN NoAtom
      ELSE [ok |-> TRUE, frames |-> FlattenSeq([r \in DOMAIN runs |-> frames(r)])]

BuildMOOFFrames(moof, kind) ==
  TrafFrames(GetTRAF(moof, kind), kind, TimeScale(GetTRAK(kind)))

CompareFrames(a, b) == IF a.time = b.time THEN a.start < b.start ELSE a.time < b.time

\* The atoms with the headers of the codecs, in the first description only.
InStsd(kind, path) == LET trak == GetTRAK(kind)
                      IN  IF trak.ok THEN GetPath(trak, <<T.mdia, T.minf, T.stbl, T.stsd>> \o path)
                          ELSE NoAtom
AVCC == InStsd("vide", <<T.avc1, T.avcc>>)
ESDS == LET plain == InStsd("soun", <<T.mp4a, T.esds>>)
        IN  IF plain.ok THEN plain ELSE InStsd("soun", <<T.mp4a, T.wave, T.esds>>)

VideoHeader == Frame(AVCC.start + 2, AVCC.size - 2, "vide", TRUE, 0, 0, 0, TRUE)
AudioHeader == LET extra == DecoderSpecific(mp4File, ESDS.fields)
               IN  Frame(extra, CellAt(mp4File, extra - 1), "soun", TRUE, 0, 0, 0, TRUE)

FilmParts ==
  LET none == [ok |-> TRUE, frames |-> <<>>]
  IN  <<IF ESDS.ok THEN BuildMOOVFrames("soun") ELSE none,
        IF AVCC.ok THEN BuildMOOVFrames("vide") ELSE none>>
      \o FlattenSeq([i \in DOMAIN Moofs |->
           <<BuildMOOFFrames(Moofs[i], "soun"), BuildMOOFFrames(Moofs[i], "vide")>>])

Joined(parts) ==
  (IF AVCC.ok THEN <<VideoHeader>> ELSE <<>>)
  \o (IF ESDS.ok THEN <<AudioHeader>> ELSE <<>>)
  \o SortSeq(FlattenSeq([i \in DOMAIN parts |-> parts[i].frames]), CompareFrames)

-----------------------------------------------------------------------------
Mp4Init == /\ mp4Stage = "closed" /\ film = "none" /\ mp4File = <<>>
           /\ topAtoms = <<>> /\ mp4Frames = <<>>

OpenFile ==
  /\ mp4Stage = "closed" /\ mp4Stage' = "opened"
  /\ \E f \in Films : film' = f /\ mp4File' = Mux(f)
  /\ UNCHANGED <<topAtoms, mp4Frames>>

ParseDocument ==
  /\ mp4Stage = "opened"
  /\ LET top == TopAtoms(mp4File, 0)
     IN  /\ mp4Stage' = IF top.ok THEN "parsed" ELSE "refused"
         /\ topAtoms' = IF top.ok THEN top.atoms ELSE <<>>
  /\ UNCHANGED <<film, mp4File, mp4Frames>>

BuildFrames ==
  /\ mp4Stage = "parsed"
  /\ \E parts \in {FilmParts} :
       LET ok == \A i \in DOMAIN parts : parts[i].ok
       IN  /\ mp4Stage' = IF ok THEN "built" ELSE "undefined"
           /\ mp4Frames' = IF ok THEN Joined(parts) ELSE <<>>
  /\ UNCHANGED <<film, mp4File, topAtoms>>

CloseFile ==
  /\ mp4Stage \in {"built", "refused"} /\ mp4Stage' = "closed"
  /\ film' = "none" /\ mp4File' = <<>> /\ topAtoms' = <<>> /\ mp4Frames' = <<>>

Mp4Next == OpenFile \/ ParseDocument \/ BuildFrames \/ CloseFile
Mp4Spec == Mp4Init /\ [][Mp4Next]_mp4Vars

-----------------------------------------------------------------------------
(* What the muxer was given *)

FirstTrack(kind) == SelectInSeq(film.tracks, LAMBDA t : t.kind = kind)
Plays(t) == film.tracks[t].codec # "other" /\ FirstTrack(film.tracks[t].kind) = t

\* The sample of track t that starts its part: times are kept since then.
PartStart(t, i) ==
  IF ~film.fragmented THEN 1
  ELSE LET count(p) == Sum([c \in DOMAIN film.parts[p] |->
                              IF film.parts[p][c][1] = t THEN film.parts[p][c][2] ELSE 0])
           upto(p) == Sum([q \in 1 .. p |-> count(q)])
           p == CHOOSE q \in DOMAIN film.parts : upto(q) >= i /\ upto(q - 1) < i
       IN  upto(p - 1) + 1

Sample(t, i) ==
  LET track == film.tracks[t] s == track.samples[i]
  IN  [kind |-> track.kind, content |-> Content(t, i, s.size),
       time |-> Ms(Sum([j \in 1 .. i - PartStart(t, i) |->
                          track.samples[PartStart(t, i) + j - 1].delta]), track.scale),
       delta |-> Ms(s.delta, track.scale),
       cto |-> IF film.fragmented \/ i <= film.cttsUpTo THEN Ms(s.cto, track.scale) ELSE 0,
       key |-> IF film.fragmented THEN s.key /\ track.kind = "vide" ELSE s.key \/ ~film.stss]

FilmMeant == UNION {{Sample(t, i) : i \in DOMAIN film.tracks[t].samples} :
                  t \in {u \in DOMAIN film.tracks : Plays(u)}}
Made == {[kind |-> f.kind, content |-> Cells(f.start, f.length), time |-> f.time,
          delta |-> f.delta, cto |-> f.cto, key |-> f.key] :
           f \in {g \in ToSet(mp4Frames) : ~g.header}}

Headers == SelectSeq(mp4Frames, LAMBDA f : f.header)

\* Each sample of the first video and the first audio track that can be played is a
\* frame, with its own bytes, its time, its composition offset and its being a key
\* frame, however the muxer laid the file out, and no frame is made of anything else;
\* the headers come first, the others in order of time.  In a fragmented file times
\* start again with each fragment.  Files of fragments that leave fields to defaults
\* lose them; a media box up to the end of the file, and a track header of version 1,
\* are refused (ReadAtom, the GetEntries of the tables, BuildMOOVFrames,
\* BuildMOOFFrames).
TableAsMuxed ==
  /\ mp4Stage = "built" /\ film.defaults = "none" =>
       /\ Made = FilmMeant
       /\ Len(mp4Frames) = Cardinality(FilmMeant) + Len(Headers)
       /\ [i \in DOMAIN Headers |-> Cells(Headers[i].start, Headers[i].length)] =
            (IF \E t \in DOMAIN film.tracks : Plays(t) /\ film.tracks[t].codec = "avc"
             THEN <<<<1, 1, 2, 7, 7, 1, 1, 8>>>> ELSE <<>>)
            \o (IF \E t \in DOMAIN film.tracks :
                     Plays(t) /\ film.tracks[t].codec \in {"aac", "aac in wave"}
                THEN <<<<9, 9>>>> ELSE <<>>)
       /\ SubSeq(mp4Frames, 1, Len(Headers)) = Headers
       /\ \A i \in Len(Headers) + 1 .. Len(mp4Frames) - 1 :
            mp4Frames[i].time <= mp4Frames[i + 1].time
  /\ mp4Stage = "refused" => film.toEnd \/ film.version = 1
  /\ mp4Stage = "undefined" => film.defaults = "offset"
=============================================================================
