----------------------------- MODULE MCProgress ------------------------------
(***************************************************************************)
(* TLC instance of what the loop must bring to an end, under the fairness  *)
(* it gives: the stacks that were enqueued, and the file that a player     *)
(* hears.  The two share no state here (ProtocolStack has the life of the  *)
(* file and of its timer): a behaviour is one of a single part, the other  *)
(* stays in an initial state.                                              *)
(***************************************************************************)
EXTENDS ProtocolStack, InFile

VARIABLE part

Tag(type, key, header, time) ==
  [type |-> type, key |-> key, header |-> header, time |-> time]
KeyFrame(time) == Tag("video", TRUE, FALSE, time)
Frame(time) == Tag("video", FALSE, FALSE, time)
Audio(time) == Tag("audio", TRUE, FALSE, time)
Data(time) == Tag("data", FALSE, FALSE, time)
VideoHeader == Tag("video", TRUE, TRUE, 0)
AudioHeader == Tag("audio", TRUE, TRUE, 0)

\* Metadata before and after the codec headers, audio alone, and a file with a
\* frame that goes back and a gap of several entries of the seek table.
MCFiles == {
  <<Data(0), VideoHeader, AudioHeader, KeyFrame(0), Audio(1), Frame(2), Data(2),
    Audio(3), KeyFrame(5), Frame(7), Audio(8)>>,
  <<VideoHeader, AudioHeader, Data(0), KeyFrame(0), Audio(1), Frame(3),
    KeyFrame(4), Audio(6)>>,
  <<AudioHeader, Audio(0), Audio(2), Audio(4), Data(9)>>,
  <<KeyFrame(0), Frame(3), Frame(2), KeyFrame(6), Frame(12)>>}

progressVars == <<vars, fileVars, part>>

ProgressInit ==
  /\ part \in {"stack", "file"} /\ Init /\ FileInit
  /\ part = "stack" => Len(frames) = 5 /\ frames[1].type = "audio"

ProgressNext ==
  \/ part = "stack" /\ Next /\ UNCHANGED <<fileVars, part>>
  \/ part = "file" /\ FileNext /\ UNCHANGED <<vars, part>>

InStack(A) == part = "stack" /\ A /\ UNCHANGED <<fileVars, part>>
InFilePart(A) == part = "file" /\ A /\ UNCHANGED <<vars, part>>

\* FairSpec and FileFairness, each while its part goes on.
ProgressSpec ==
  /\ ProgressInit
  /\ [][ProgressNext]_progressVars
  /\ WF_progressVars(InStack(Next))
  /\ \A f \in Ids : /\ SF_progressVars(InStack(Poll /\ f \in rout'))
                    /\ SF_progressVars(InStack(WriteDrains(f)))
  /\ WF_progressVars(InFilePart(FileReadyForSend))
  /\ WF_progressVars(InFilePart(FileTick))
=============================================================================
