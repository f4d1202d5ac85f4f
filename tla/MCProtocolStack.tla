--------------------------- MODULE MCProtocolStack ---------------------------
(***************************************************************************)
(* TLC instance of two parts that share no state: the stacks of protocols, *)
(* of which at most MaxProtocols are ever created, enough for two stacks   *)
(* and the timer of one of them; and the application of this repository,   *)
(* with two controllers and a client.  A behaviour is one of a single      *)
(* part; the other stays in its initial state.                             *)
(***************************************************************************)
EXTENDS ProtocolStack, Encre

VARIABLE case

\* What a controller may write: every kind of command over one room and user.
MCCommands ==
  [do : {"meeting.new", "meeting.del"}, name : {"r"}]
    \cup [do : {"user.new"}, uid : {"u"}, token : {"s", "t"}, room : {"r"}]
    \cup [do : {"user.del"}, uid : {"u"}, room : {"r"}]
    \cup [do : {"long"}]

StackInit == case \in {"stacks", "encre"} /\ Init /\ EncreInit

\* A client's step and the bytes of a controller that are on their way do not
\* touch one another: clients step when there are none.
StackNext ==
  \/ case = "stacks" /\ Next /\ UNCHANGED <<encreVars, case>>
  \/ case = "encre" /\ ControllersNext /\ UNCHANGED <<vars, case>>
  \/ case = "encre" /\ (\A c \in Clis : wire[c] = <<>>) /\ ClientsNext
     /\ UNCHANGED <<vars, case>>
=============================================================================
