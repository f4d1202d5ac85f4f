---------------------------- MODULE MCRtmpChunks -----------------------------
(***************************************************************************)
(* TLC instances of the chunk streams of one connection: in the first,     *)
(* with the constants of the .cfg, two players hear audio and video that   *)
(* is interleaved with messages; in the second, Times, one player hears    *)
(* audio of several lengths whose time advances, wraps and needs the       *)
(* extended field, while channels are aborted and the player seeks.        *)
(***************************************************************************)
EXTENDS RtmpChunks

VARIABLE case

Times == INSTANCE RtmpChunks WITH
  Sizes <- {1, 2}, Lengths <- {0, 1, 2}, InvokeLength <- 1, MaxPlays <- 1,
  MaxTs <- 1, TsRange <- 4, Extended <- 2, AbortedChannels <- {20},
  FedKinds <- {"audio"}, SetupKinds <- {"audio"}, CommandIds <- {0},
  Offsets <- {1}, StreamIds <- {1}

ChunksInit == \/ case = "media" /\ Init
              \/ case = "times" /\ Times!Init

ChunksNext == \/ case = "media" /\ Next /\ UNCHANGED case
              \/ case = "times" /\ Times!Next /\ UNCHANGED case

\* The properties InStep, AllOrNothing and LaterFramesOnTime of RtmpChunks are
\* checked in the states of both instances: of the constants that differ, they name
\* CommandIds, where stream 0 is always allowed, and MaxPlays, which is the larger
\* one here.
=============================================================================
