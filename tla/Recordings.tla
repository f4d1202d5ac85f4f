------------------------------ MODULE Recordings ------------------------------
(***************************************************************************)
(* One media file that is recorded and played: the file, its seek table    *)
(* and its meta file on the disk, the recorder (OutFileRTMPFLVStream), and *)
(* the descriptors that all readers of a path share (MmapFile::_fds).  A   *)
(* recording replaces the file by a new one; GetMetaData decides by the    *)
(* modification times, in seconds, whether the table is still right.       *)
(* What a file holds is abstracted to its content, a number that no other  *)
(* recording has, and to the frames in it beyond the two that              *)
(* SignalAttachedToInStream writes.                                        *)
(***************************************************************************)
EXTENDS Naturals, FiniteSets

CONSTANTS Players,
          RenameBadFiles, \* renameBadFiles of the application
          MessagePieces,  \* chunks of a frame that is recorded
          MaxRecordings, MaxFrames, MaxSeconds  \* bounds

VARIABLES media,   \* the file: [content, frames, mtime] or None
          seekTable,   \* its .seek file: [content, frames, mtime, shared] or None
          meta,    \* the modification time of its .meta file or None
          recorder,\* [content, pending, unflushed] or None
          mediaFd, \* _fds of the file: [content, frames, useCount] or None
          seekFd,  \* _fds of the .seek file: [table, useCount, sameSecond] or None
          players, \* what each BaseInFileStream has open, or None
          now,     \* the clock, in seconds
          recordings

recVars == <<media, seekTable, meta, recorder, mediaFd, seekFd, players, now, recordings>>

None == [none |-> TRUE]

RecInit ==
  /\ media = None /\ seekTable = None /\ meta = None /\ recorder = None
  /\ mediaFd = None /\ seekFd = None
  /\ players = [p \in Players |-> None]
  /\ now = 1 /\ recordings = 0

-----------------------------------------------------------------------------
(* MmapFile. *)

\* A path that is open keeps its descriptor and the size it was opened with.
OpenedMedia ==
  IF mediaFd = None THEN [content |-> media.content, frames |-> media.frames, useCount |-> 1]
  ELSE [mediaFd EXCEPT !.useCount = @ + 1]

\* sameSecond: the table may have been made before the last change of the file, in
\* a second in which both happened.
OpenedSeek(file) ==
  IF seekFd = None
  THEN [table |-> file, useCount |-> 1, sameSecond |-> file.mtime = media.mtime]
  ELSE [seekFd EXCEPT !.useCount = @ + 1]

Released(fd) ==
  IF fd.useCount = 1 THEN None ELSE [fd EXCEPT !.useCount = @ - 1]

-----------------------------------------------------------------------------
(* GetMetaData. *)

\* Mutant: the time of the meta file decides alone.
FreshMeta == meta # None /\ seekTable # None /\ meta.mtime >= media.mtime

Fresh ==
  /\ meta # None /\ seekTable # None
  /\ meta.mtime >= media.mtime
  /\ seekTable.mtime >= media.mtime

\* BaseMediaDocument::Process opens the file like a reader and closes it again.
\* shared: it was given a descriptor of something else than the file of that name.
Generated ==
  [content |-> OpenedMedia.content, frames |-> OpenedMedia.frames, mtime |-> now,
   shared |-> \/ OpenedMedia.content # media.content
              \/ OpenedMedia.frames # media.frames]

\* The table and the meta file are moved to their names when both are complete;
\* a document that has too few frames, or that cannot be read, leaves the old ones.
Regenerated(works) == works /\ OpenedMedia.frames > 0

WriteMeta == meta' = [mtime |-> now]

-----------------------------------------------------------------------------
(* Recording. *)

\* ProcessInvokePublish with "record" or "append": the meta file of what is
\* there is refreshed if it is old, then the file is deleted and made anew.
StartRecording ==
  /\ recorder = None /\ recordings < MaxRecordings
  /\ IF media # None /\ ~Fresh THEN WriteMeta ELSE UNCHANGED meta
  /\ recordings' = recordings + 1
  /\ media' = [content |-> recordings', frames |-> 0, mtime |-> now]
  /\ recorder' = [content |-> recordings', pending |-> 0, unflushed |-> 0]
  /\ UNCHANGED <<seekTable, mediaFd, seekFd, players, now>>

\* FeedData: a piece of a frame is kept until the frame is whole.
FeedRecorder ==
  /\ recorder # None
  /\ recorder.unflushed < MaxFrames
  /\ media # None => media.frames + recorder.unflushed < MaxFrames
  /\ recorder' = IF recorder.pending + 1 < MessagePieces
                 THEN [recorder EXCEPT !.pending = @ + 1]
                 ELSE [recorder EXCEPT !.pending = 0, !.unflushed = @ + 1]
  /\ UNCHANGED <<media, seekTable, meta, mediaFd, seekFd, players, now, recordings>>

\* What the recorder wrote reaches the file it has open, which has the name no
\* more if it was renamed.
Flushed ==
  IF recorder.unflushed > 0 /\ media # None /\ media.content = recorder.content
  THEN [media EXCEPT !.frames = @ + recorder.unflushed, !.mtime = now]
  ELSE media

\* The buffer of stdio is written when it is full.
Flush ==
  /\ recorder # None /\ recorder.unflushed > 0
  /\ media' = Flushed
  /\ recorder' = [recorder EXCEPT !.unflushed = 0]
  /\ UNCHANGED <<seekTable, meta, mediaFd, seekFd, players, now, recordings>>

\* SignalDetachedFromInStream closes the file.
StopRecording ==
  /\ recorder # None
  /\ media' = Flushed
  /\ recorder' = None
  /\ UNCHANGED <<seekTable, meta, mediaFd, seekFd, players, now, recordings>>

-----------------------------------------------------------------------------
(* Playing. *)

\* BaseInFileStream::Initialize.
OpensWith(p, file) ==
  /\ mediaFd' = OpenedMedia
  /\ seekFd' = OpenedSeek(file)
  /\ players' = [players EXCEPT ![p] =
       [table |-> seekFd'.table,
        file |-> [content |-> mediaFd'.content, frames |-> mediaFd'.frames],
        sameSecond |-> seekFd'.sameSecond]]

PlayFresh(p) ==
  /\ players[p] = None /\ media # None /\ Fresh
  /\ OpensWith(p, seekTable)
  /\ UNCHANGED <<media, seekTable, meta, recorder, now, recordings>>

\* The table is made anew; the meta file is written over once more as text.
PlayRegenerated(p) ==
  /\ players[p] = None /\ media # None /\ ~Fresh /\ Regenerated(TRUE)
  /\ seekTable' = Generated
  /\ WriteMeta
  /\ OpensWith(p, Generated)
  /\ UNCHANGED <<media, recorder, now, recordings>>

\* The file cannot be read as a document: it may be put aside.
PlayFails(works) ==
  /\ media # None /\ ~Fresh /\ ~Regenerated(works)
  /\ media' = IF RenameBadFiles THEN None ELSE media
  /\ UNCHANGED <<seekTable, meta, recorder, mediaFd, seekFd, players, now, recordings>>

\* ~BaseInFileStream.
Leave(p) ==
  /\ players[p] # None
  /\ players' = [players EXCEPT ![p] = None]
  /\ mediaFd' = Released(mediaFd)
  /\ seekFd' = Released(seekFd)
  /\ UNCHANGED <<media, seekTable, meta, recorder, now, recordings>>

SecondPasses ==
  /\ now < MaxSeconds
  /\ now' = now + 1
  /\ UNCHANGED <<media, seekTable, meta, recorder, mediaFd, seekFd, players, recordings>>

RecNext ==
  \/ StartRecording \/ FeedRecorder \/ Flush \/ StopRecording
  \/ \E p \in Players : PlayFresh(p) \/ PlayRegenerated(p) \/ Leave(p)
  \/ \E works \in BOOLEAN : PlayFails(works)
  \/ SecondPasses

RecSpec == RecInit /\ [][RecNext]_recVars

-----------------------------------------------------------------------------
Readers == {p \in Players : players[p] # None}

\* Both descriptors are open exactly as long as someone reads, and every reader
\* has the same two (mmapfile.cpp:48-59, 172-210).
DescriptorsCounted ==
  /\ Readers = {} <=> mediaFd = None /\ seekFd = None
  /\ Readers # {} => /\ mediaFd.useCount = Cardinality(Readers)
                     /\ seekFd.useCount = Cardinality(Readers)
                     /\ \A p \in Readers : /\ players[p].file.content = mediaFd.content
                                           /\ players[p].table = seekFd.table

\* Whatever is recorded, replaced, renamed and played at the same time, a player
\* reads a file with the table of that file, of which every frame is there.  The
\* exceptions are a table made in the second of the last change of the file, which
\* the modification times cannot tell (basertmpappprotocolhandler.cpp:1772), and
\* one made through the descriptor of a file that is no longer the one of that
\* name (mmapfile.cpp:172).
TablesDescribeFiles ==
  /\ DescriptorsCounted
  /\ \A p \in Readers :
       \/ players[p].sameSecond \/ players[p].table.shared
       \/ /\ players[p].table.content = players[p].file.content
          /\ players[p].table.frames <= players[p].file.frames
=============================================================================
