----------------------------- MODULE EncreService -----------------------------
(***************************************************************************)
(* What the connector to UCEngine relies on: the commands of a controller  *)
(* are carried out one by one, in the order they were sent, and answered   *)
(* in that order; a user is admitted to a room with the token the last     *)
(* command about that user in that room gave, and with no other.           *)
(***************************************************************************)
EXTENDS Integers, Sequences

CONSTANTS Controllers, Peers, Rooms, Uids, Tokens, Commands

VARIABLES
  rooms,    \* the meetings
  rights,   \* <<room, uid, token>>: who may connect where with what
  asked,    \* the commands of a controller not yet carried out
  answers,  \* the answers a controller has been given
  session   \* the right a peer was admitted with, or <<>>

serviceVars == <<rooms, rights, asked, answers, session>>

ServiceInit ==
  /\ rooms = {} /\ rights = {}
  /\ asked = [c \in Controllers |-> <<>>]
  /\ answers = [c \in Controllers |-> <<>>]
  /\ session = [p \in Peers |-> <<>>]

\* The state <<rooms, rights, answers>> after a command, by its kind.
Served(s, cmd) ==
  LET Has(keys) == keys \subseteq DOMAIN cmd
      held == {r \in s.rights : /\ Has({"uid", "room"})
                                /\ r[1] = cmd.room /\ r[2] = cmd.uid}
      Answer(ok, rs, rts) == [rooms |-> rs, rights |-> rts,
                              answers |-> Append(s.answers, ok)]
      Refuse == Answer("FAIL", s.rooms, s.rights)
  IN  CASE cmd.do = "meeting.new" ->
             Answer("SUCCESS", s.rooms \cup {cmd.name}, s.rights)
        [] cmd.do = "meeting.del" ->
             IF cmd.name \notin s.rooms THEN Refuse
             ELSE Answer("SUCCESS", s.rooms \ {cmd.name},
                         {r \in s.rights : r[1] # cmd.name})
        [] cmd.do = "user.new" ->
             IF ~Has({"uid", "token", "room"}) \/ cmd.room \notin s.rooms
             THEN Refuse
             ELSE Answer("SUCCESS", s.rooms, (s.rights \ held)
                           \cup {<<cmd.room, cmd.uid, cmd.token>>})
        [] cmd.do = "user.del" ->
             IF held = {} THEN Refuse
             ELSE Answer("SUCCESS", s.rooms, s.rights \ held)
        [] cmd.do \in {"stream.mute", "stream.record"} ->
             Answer("SUCCESS", s.rooms, s.rights)
        [] OTHER -> Refuse

Ask(c, cmd) ==
  /\ UNCHANGED session
  /\ asked' = [asked EXCEPT ![c] = Append(@, cmd)]
  /\ UNCHANGED <<rooms, rights, answers>>

\* The next n commands of a controller are carried out.
Done(c, n) ==
  LET After[i \in 0 .. n] ==
        IF i > 0 THEN Served(After[i - 1], asked[c][i])
        ELSE [rooms |-> rooms, rights |-> rights, answers |-> answers[c]]
  IN  After[n]

Serve(c, n) ==
  /\ UNCHANGED session
  /\ asked' = [asked EXCEPT ![c] = SubSeq(@, n + 1, Len(@))]
  /\ LET s == Done(c, n)
     IN  /\ rooms' = s.rooms /\ rights' = s.rights
         /\ answers' = [answers EXCEPT ![c] = s.answers]

\* A controller goes; some of what it asked may be carried out unanswered.
Leave(c, n) ==
  /\ UNCHANGED session
  /\ asked' = [asked EXCEPT ![c] = <<>>]
  /\ answers' = [answers EXCEPT ![c] = <<>>]
  /\ LET s == Done(c, n) IN rooms' = s.rooms /\ rights' = s.rights

Admit(p, r) ==
  /\ session' = [session EXCEPT ![p] = r]
  /\ UNCHANGED <<rooms, rights, asked, answers>>

Depart(p) ==
  /\ session' = [session EXCEPT ![p] = <<>>]
  /\ UNCHANGED <<rooms, rights, asked, answers>>

ServiceNext ==
  \/ \E c \in Controllers :
       \/ \E cmd \in Commands : Ask(c, cmd)
       \/ \E n \in 0 .. Len(asked[c]) : Serve(c, n) \/ Leave(c, n)
  \/ \E p \in Peers : Depart(p) \/ \E r \in rights : Admit(p, r)

Service == ServiceInit /\ [][ServiceNext]_serviceVars
=============================================================================
