----------------------------- MODULE TimerService -----------------------------
(***************************************************************************)
(* What the owners of timers rely on (IOTimer::EnqueueForTimeEvent): an    *)
(* armed timer is called every period seconds, the first time within one   *)
(* period, until it is removed or its callback fails.  A failed callback   *)
(* may cost the other timers of the same second their call, or the whole   *)
(* server, because it erases the map node the loop of                      *)
(* TimersManager::TimeElapsed is about to advance from.                    *)
(***************************************************************************)
EXTENDS Naturals

CONSTANTS Ids, Periods   \* I/O handler ids, and the periods in seconds

VARIABLES
  period,    \* the period of a timer, 0 when it is not armed
  left,      \* the seconds until its next call, 0 when it is not armed
  calling,   \* the timers of this second that have not been called yet
  crashed    \* the process died in the loop

vars == <<period, left, calling, crashed>>

Armed == {i \in Ids : period[i] # 0}

Init ==
  /\ period = [i \in Ids |-> 0]
  /\ left = [i \in Ids |-> 0]
  /\ calling = {}
  /\ crashed = FALSE

Arm(i, p) ==
  /\ ~crashed /\ calling = {} /\ i \notin Armed
  /\ period' = [period EXCEPT ![i] = p]
  /\ \E first \in 1 .. p : left' = [left EXCEPT ![i] = first]
  /\ UNCHANGED <<calling, crashed>>

Disarm(i) ==
  /\ period' = [period EXCEPT ![i] = 0]
  /\ left' = [left EXCEPT ![i] = 0]

Remove(i) ==
  /\ ~crashed /\ calling = {} /\ i \in Armed
  /\ Disarm(i)
  /\ UNCHANGED <<calling, crashed>>

\* A second passes.
Second ==
  /\ ~crashed /\ calling = {}
  /\ calling' = {i \in Armed : left[i] = 1}
  /\ left' = [i \in Ids |-> IF i \notin Armed THEN 0
                            ELSE IF left[i] = 1 THEN period[i] ELSE left[i] - 1]
  /\ UNCHANGED <<period, crashed>>

CallSucceeds(i) ==
  /\ ~crashed /\ i \in calling
  /\ calling' = calling \ {i}
  /\ UNCHANGED <<period, left, crashed>>

CallFails(i) ==
  /\ ~crashed /\ i \in calling
  /\ Disarm(i)
  /\ calling' \in {calling \ {i}, {}}
  /\ crashed' \in BOOLEAN

Next ==
  \/ Second
  \/ \E i \in Ids : \/ Remove(i) \/ CallSucceeds(i) \/ CallFails(i)
                    \/ \E p \in Periods : Arm(i, p)

Spec == Init /\ [][Next]_vars

=============================================================================
