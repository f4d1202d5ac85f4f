-------------------------------- MODULE InFile --------------------------------
(***************************************************************************)
(* Playback of a file: FLVDocument::BuildFrames turns the tags of a file   *)
(* into frames, BaseMediaDocument::SaveSeekFile makes the table from times *)
(* to frames, and BaseInFileStream feeds the frames to its player, ahead   *)
(* of the clock by at most the buffer of the client.  It feeds one frame   *)
(* each time the output of the player drains, its timer fires, or playback *)
(* is started, resumed or moved.                                           *)
(***************************************************************************)
EXTENDS Naturals, Integers, Sequences, SequencesExt

CONSTANTS
  Files,        \* the files: sequences of tags
  Second,       \* units of time in a second
  Granularity,  \* of the seek table, in units of time (seekGranularity)
  KeyframeSeek, \* seek to key frames only (keyframeSeek)
  Biggest,      \* the length of the biggest frame, as the table's trailer has it
  ClientBuffer, \* seconds the player buffers (clientSideBuffer)
  SeekTimes,    \* the times a player asks for
  MaxElapsed,   \* beyond it the clock no longer matters
  MaxCommands   \* bound on the commands of the player

ASSUME InFileAssumption ==
  /\ Second \in Nat \ {0} /\ Granularity \in Nat \ {0} /\ ClientBuffer \in Nat
  /\ KeyframeSeek \in BOOLEAN /\ Biggest \in Nat

VARIABLES
  frames,  \* _frames, as the seek file has them
  play,    \* BaseInFileStream, with its out stream
  elapsed, \* seconds since _startFeedingTime
  fed      \* history: what the player got since the last seek

fileVars == <<frames, play, elapsed, fed>>

-----------------------------------------------------------------------------
(* The documents. *)

\* Whether a tag is taken for a codec header: BuildFrames does not clear the flag
\* for a data tag.
HeaderFlags(file) ==
  LET flag[i \in 0..Len(file)] ==
        IF i = 0 THEN FALSE
        ELSE IF file[i].type = "data" THEN flag[i - 1] ELSE file[i].header
  IN  flag

\* The headers come first, the last one in front; the others by time and place.
BuildFrames(file) ==
  LET flag == HeaderFlags(file)
      tags == [i \in 1..Len(file) |->
                 [type |-> file[i].type, key |-> file[i].key, header |-> flag[i],
                  time |-> IF flag[i] THEN 0 ELSE file[i].time, start |-> i]]
      Precedes(a, b) == a.time < b.time \/ (a.time = b.time /\ a.start < b.start)
  IN  Reverse(SelectSeq(tags, LAMBDA t : t.header))
        \o SortSeq(SelectSeq(tags, LAMBDA t : ~t.header), Precedes)

HasVideo(fs) == \E i \in DOMAIN fs : fs[i].type = "video"
IsSeekPoint(fs, i) ==
  KeyframeSeek /\ HasVideo(fs) => fs[i].type = "video" /\ fs[i].key

\* SaveSeekFile: the walk that makes entry n of the table, n * Granularity into
\* the file; frames are numbered from 1, and 1 is the first seek point.
RECURSIVE Walk(_, _, _)
Walk(fs, w, time) ==
  IF fs[w.frame].time >= time THEN w
  ELSE Walk(fs, [frame |-> w.frame + 1,
                 point |-> IF IsSeekPoint(fs, w.frame + 1) THEN w.frame + 1 ELSE w.point],
            time)

\* Mutant: the point is kept as the walk enters the frame after it.
RECURSIVE WalkLate(_, _, _)
WalkLate(fs, w, time) ==
  IF fs[w.frame].time >= time THEN w
  ELSE WalkLate(fs, [frame |-> w.frame + 1,
                     point |-> IF IsSeekPoint(fs, w.frame) THEN w.frame ELSE w.point],
                time)

TableSize(fs) == Last(fs).time \div Granularity + 1
EntryLate(fs, n) == WalkLate(fs, [frame |-> 1, point |-> 1], n * Granularity).point
Entry(fs, n) == Walk(fs, [frame |-> 1, point |-> 1], n * Granularity).point

-----------------------------------------------------------------------------
(* Feeding. *)

Seconds(time) == time \div Second
Told(f, i) == [f EXCEPT !.headers = @ \cup {frames[i].type}]

\* Mutant: only the first of the two headers is sent.
SendCodecsFirst(s) ==
  [play |-> [s.play EXCEPT !.codecs = TRUE],
   fed |-> IF frames[1].header THEN Told(s.fed, 1) ELSE s.fed]

\* SendCodecs: of the frames in front at most two are taken for headers.
SendCodecs(s) ==
  [play |-> [s.play EXCEPT !.codecs = TRUE],
   fed |-> IF ~frames[1].header THEN s.fed
           ELSE IF ~frames[2].header THEN Told(s.fed, 1)
           ELSE Told(Told(s.fed, 1), 2)]

\* Data frames are passed on, then one frame of audio or video.
NextMedia(p) ==
  LET media == {i \in p.index..Len(frames) : frames[i].type # "data"}
  IN  IF media = {} THEN 0 ELSE Min(media)

\* Mutant: the stream does not pause at its end.
CompletedGoesOn(s) == s

Completed(s) == [s EXCEPT !.play.paused = TRUE]

FeedsFrame(s, i) ==
  LET type == frames[i].type
      bare == ~frames[i].header /\ type \notin s.fed.headers
              /\ \E h \in DOMAIN frames : frames[h].header /\ frames[h].type = type
  IN  [play |-> [s.play EXCEPT !.index = i + 1,
                               !.sentTime = Seconds(frames[i].time) - s.play.base],
       fed |-> [headers |-> IF frames[i].header THEN s.fed.headers \cup {type}
                            ELSE s.fed.headers,
                bare |-> s.fed.bare \/ bare, rested |-> s.fed.rested]]

\* Mutant: the clock is not compared with the buffer.
IsAheadNever(p) == FALSE

IsAhead(p) == p.sentTime - elapsed >= ClientBuffer

\* Feed.
Feed(s) ==
  IF s.play.paused THEN s
  ELSE LET c == IF s.play.codecs THEN s ELSE SendCodecs(s)
           past == c.play.limit >= 0 /\ c.play.limit < c.play.sentTime
           i == NextMedia(c.play)
       IN  IF IsAhead(c.play) THEN c
           ELSE IF c.play.index > Len(frames) \/ past \/ i = 0 THEN Completed(c)
           ELSE FeedsFrame(c, i)

Becomes(s) == play' = s.play /\ fed' = s.fed
Now == [play |-> play, fed |-> fed]

\* InternalSeek: past the table are the two halves of the size of the biggest
\* frame, and then its end.  A frame that is read past the frames has any time.
LandsAt(i, base) ==
  [play |-> [play EXCEPT !.index = i, !.codecs = FALSE, !.sentTime = 0, !.base = base],
   fed |-> [headers |-> {}, bare |-> FALSE, rested |-> play.paused]]

InternalSeek(time) ==
  LET n == time \div Granularity
      size == TableSize(frames)
      i == IF n < size THEN Entry(frames, n) ELSE IF n = size THEN Biggest + 1 ELSE 1
  IN  IF n > size + 1 THEN {}
      ELSE IF i <= Len(frames) THEN {LandsAt(i, Seconds(frames[i].time))}
      ELSE {LandsAt(i, base) : base \in {0, 1}}

-----------------------------------------------------------------------------
(* The player, the timer, the clock. *)

FileInit ==
  /\ \E file \in Files : frames = BuildFrames(file)
  /\ play = [paused |-> TRUE, open |-> TRUE, played |-> FALSE, index |-> 1,
             codecs |-> FALSE, sentTime |-> 0, base |-> 0, limit |-> -1,
             commands |-> 0]
  /\ elapsed = 0
  /\ fed = [headers |-> {}, bare |-> FALSE, rested |-> FALSE]

Command(p) == [p EXCEPT !.commands = @ + 1]
MayCommand == play.open /\ play.commands < MaxCommands

\* A seek that fails ends the connection.
SeekFails(time) ==
  /\ MayCommand
  /\ LET n == time \div Granularity
         size == TableSize(frames)
     IN  n > size + 1 \/ (n = size /\ Biggest >= Len(frames))
  /\ play' = [play EXCEPT !.open = FALSE, !.paused = TRUE]
  /\ UNCHANGED <<frames, elapsed, fed>>

SignalPlay(time, limit) ==
  /\ MayCommand /\ ~play.played
  /\ elapsed' = 0
  /\ \E s \in InternalSeek(time) :
       Becomes(Feed([play |-> Command([s.play EXCEPT !.paused = FALSE, !.limit = limit,
                                                     !.played = TRUE]),
                     fed |-> [s.fed EXCEPT !.rested = FALSE]]))
  /\ UNCHANGED frames

SignalSeek(time) ==
  /\ MayCommand /\ play.played
  /\ elapsed' = 0
  /\ \E s \in InternalSeek(time) : Becomes(Feed([s EXCEPT !.play = Command(@)]))
  /\ UNCHANGED frames

SignalPause ==
  /\ MayCommand /\ ~play.paused
  /\ play' = Command([play EXCEPT !.paused = TRUE])
  /\ fed' = [fed EXCEPT !.rested = TRUE]
  /\ UNCHANGED <<frames, elapsed>>

SignalResume ==
  /\ MayCommand /\ play.played /\ play.paused
  /\ Becomes(Feed([Now EXCEPT !.play = Command([@ EXCEPT !.paused = FALSE])]))
  /\ UNCHANGED <<frames, elapsed>>

\* ReadyForSend: the timer fires or the output has drained.
FileReadyForSend ==
  /\ play.open /\ Becomes(Feed(Now))
  /\ UNCHANGED <<frames, elapsed>>

FileTick ==
  /\ play.open /\ elapsed < MaxElapsed /\ elapsed' = elapsed + 1
  /\ UNCHANGED <<frames, play, fed>>

FileNext ==
  \/ \E time \in SeekTimes :
       \/ \E limit \in {-1, 1} : SignalPlay(time, limit)
       \/ SignalSeek(time) \/ SeekFails(time)
  \/ SignalPause \/ SignalResume \/ FileReadyForSend \/ FileTick

\* The timer is in the ring of the timers and the wall clock goes on.
FileFairness == WF_fileVars(FileReadyForSend) /\ WF_fileVars(FileTick)

FileSpec == FileInit /\ [][FileNext]_fileVars /\ FileFairness

-----------------------------------------------------------------------------
(* Properties. *)

\* The seek table names, for each of its times, the last seek point up to the
\* first frame at or after that time, the first frame if there is none.
SeekTableIsRight ==
  \A n \in 0..TableSize(frames) - 1 :
    LET after == CHOOSE i \in DOMAIN frames :
                   /\ frames[i].time >= n * Granularity
                   /\ \A j \in 1..i - 1 : frames[j].time < n * Granularity
        points == {1} \cup {i \in 2..after : IsSeekPoint(frames, i)}
    IN  Entry(frames, n) \in points /\ \A i \in points : i <= Entry(frames, n)

\* After every seek the player gets the codec header of audio and of video before
\* any frame of it, unless the file has more than two frames that are taken for
\* headers (SendCodecs looks at two).
PlayerHasCodecs ==
  fed.bare => \E i \in 3..Len(frames) : frames[i].header

\* The player is never fed further ahead of the clock than its buffer and one
\* frame, whatever it asks for, unless it paused since the last seek: the clock of
\* the stream goes on then, and the pause is made up for in one burst.
FeedsInTime ==
  LET gaps == {Seconds(frames[i + 1].time) - Seconds(frames[i].time) :
                 i \in 1..Len(frames) - 1}
  IN  play.sentTime - elapsed > ClientBuffer =>
        \/ fed.rested
        \/ \E g \in gaps : play.sentTime - elapsed < ClientBuffer + g

\* A file that plays comes to its end, or to its limit, or is stopped.
FileCompletes == ~play.paused ~> play.paused

=============================================================================
