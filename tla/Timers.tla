-------------------------------- MODULE Timers --------------------------------
(***************************************************************************)
(* TimersManager: the timers sit in a ring of slots, one slot per second,  *)
(* whose size is the least common multiple of the periods seen so far.     *)
(* TimeElapsed walks one slot per second and calls IOTimer::OnEvent        *)
(* through IOHandlerManager::ProcessTimer.                                 *)
(***************************************************************************)
EXTENDS Integers, FiniteSets, Sequences

CONSTANTS
  Ids,        \* the ids of the I/O handlers that are timers, ordered
  Periods,    \* the periods in seconds
  UintSize,   \* 2^32 in the code: periods and slot counts are uint32_t
  MaxTicks,   \* bound on _currentSlotIndex
  MaxDelta    \* bound on the seconds between two pulses

ASSUME ParametersAssumption ==
  /\ Ids \subseteq Nat \ {0}
  /\ Periods \subseteq Nat \ {0}
  /\ MaxTicks \in Nat /\ UintSize \in Nat /\ MaxTicks < UintSize
  /\ MaxDelta \in Nat

VARIABLES
  slots,             \* _pSlots, a function on 0 .. _slotsCount - 1
  period,            \* TimerEvent::period of the timers in the slots
  periodsVector,     \* _periodsVector
  currentSlotIndex,  \* _currentSlotIndex
  ticks,             \* the iterations TimeElapsed still has to make
  walking,           \* TimeElapsed is inside FOR_MAP over a slot
  cursor,            \* the key of the node FOR_MAP visited last
  crashed            \* the iterator led nowhere

table == <<slots, period, periodsVector>>
loop == <<ticks, walking, cursor, currentSlotIndex, crashed>>
vars == <<table, loop>>

-----------------------------------------------------------------------------
(* Arithmetic. *)

Uint(n) == n % UintSize

\* TimersManager::GCD of two numbers.
GCD[a \in Nat, b \in Nat] == IF b = 0 THEN a ELSE GCD[b, a % b]

\* TimersManager::LCM of two numbers; the product may overflow.
LCM(a, b) == IF a = 0 \/ b = 0 THEN 0 ELSE Uint(a * b) \div GCD[a, b]

\* TimersManager::LCM of a vector, which answers 0 for fewer than two numbers.
LCMOfAll(v) ==
  LET from[i \in 1 .. Len(v)] ==
        IF i = Len(v) THEN v[i] ELSE LCM(v[i], from[i + 1])
  IN IF Len(v) <= 1 THEN 0 ELSE from[1]

SlotsCount == Cardinality(DOMAIN slots)

Armed == {i \in Ids : \E s \in DOMAIN slots : i \in slots[s]}

-----------------------------------------------------------------------------
Init ==
  /\ slots = [s \in {} |-> {}]
  /\ period = [i \in Ids |-> 0]
  /\ periodsVector = <<>>
  /\ currentSlotIndex = 0
  /\ ticks = 0 /\ walking = FALSE /\ cursor = 0 /\ crashed = FALSE

\* Mutant: the new slots beyond the old ones start empty.
GrownFlat(n) ==
  [s \in 0 .. n - 1 |-> IF s < SlotsCount THEN slots[s] ELSE {}]

\* The ring of n slots UpdatePeriods builds: the old ring, repeated.
Grown(n) ==
  [s \in 0 .. n - 1 |-> IF SlotsCount = 0 THEN {} ELSE slots[s % SlotsCount]]

\* TimersManager::UpdatePeriods.
UpdatedSlots(p) ==
  LET v == Append(periodsVector, p)
      n == IF LCMOfAll(v) = 0 THEN p ELSE LCMOfAll(v)
  IN IF \E k \in DOMAIN periodsVector : periodsVector[k] = p THEN slots
     ELSE Grown(n)

\* The slots the loop of AddTimer fills: from start on, every p-th, until it
\* comes to one that has the timer already.
Occupied(start, p, n) == {(start + k * p) % n : k \in 0 .. n - 1}

\* The first slot among those with the fewest timers.
IsStart(start, ring) ==
  /\ \A s \in DOMAIN ring : Cardinality(ring[start]) <= Cardinality(ring[s])
  /\ \A s \in DOMAIN ring :
       s < start => Cardinality(ring[s]) > Cardinality(ring[start])

\* IOHandlerManager::EnableTimer -> TimersManager::AddTimer, between two
\* walks; each IOTimer is enqueued once.
AddTimer(i, p) ==
  /\ ~crashed /\ ticks = 0
  /\ i \notin Armed
  /\ LET ring == UpdatedSlots(p)
         n == Cardinality(DOMAIN ring)
     IN \E start \in DOMAIN ring :
          /\ IsStart(start, ring)
          /\ slots' = [s \in DOMAIN ring |->
                         IF s \in Occupied(start, p, n)
                         THEN ring[s] \cup {i} ELSE ring[s]]
  /\ period' = [period EXCEPT ![i] = p]
  /\ periodsVector' = IF \E k \in DOMAIN periodsVector : periodsVector[k] = p
                      THEN periodsVector ELSE Append(periodsVector, p)
  /\ UNCHANGED loop

\* TimersManager::RemoveTimer: the timer leaves every slot.
Erase(i) ==
  /\ slots' = [s \in DOMAIN slots |-> slots[s] \ {i}]
  /\ period' = [period EXCEPT ![i] = 0]
  /\ UNCHANGED periodsVector

\* ~IOTimer -> IOHandlerManager::DisableTimer, between two walks.
RemoveTimer(i) ==
  /\ ~crashed /\ ticks = 0
  /\ i \in Armed
  /\ Erase(i)
  /\ UNCHANGED loop

-----------------------------------------------------------------------------
(* TimersManager::TimeElapsed. *)

CurrentSlot == slots[currentSlotIndex % SlotsCount]

\* The nodes FOR_MAP has not reached yet.
Ahead == IF walking THEN {i \in CurrentSlot : i > cursor} ELSE {}

\* The clock advanced by delta seconds since the last call.  (When it did not
\* advance, or when there is no slot, the call returns at once.)
TimeElapsed(delta) ==
  /\ ~crashed /\ ticks = 0
  /\ SlotsCount # 0
  /\ currentSlotIndex + delta <= MaxTicks
  /\ ticks' = delta
  /\ UNCHANGED <<table, walking, cursor, currentSlotIndex, crashed>>

EnterSlot ==
  /\ ~crashed /\ ticks > 0 /\ ~walking
  /\ walking' = TRUE
  /\ cursor' = 0
  /\ UNCHANGED <<table, ticks, currentSlotIndex, crashed>>

IsVisited(i) == i \in Ahead /\ \A j \in Ahead : i <= j

\* IOTimer::OnEvent answers true.
CallSucceeds(i) ==
  /\ ~crashed /\ IsVisited(i)
  /\ cursor' = i
  /\ UNCHANGED <<table, ticks, walking, currentSlotIndex, crashed>>

\* IOTimer::OnEvent answers false: the handler is enqueued for deletion, which
\* removes the timer, hence the node the iterator of FOR_MAP points to.
\* Advancing it then is undefined: the walk goes on, ends early, or crashes.
CallFails(i) ==
  /\ ~crashed /\ IsVisited(i)
  /\ Erase(i)
  /\ cursor' \in {i} \cup {last \in Ids : \A j \in Ids : j <= last}
  /\ crashed' \in BOOLEAN
  /\ UNCHANGED <<ticks, walking, currentSlotIndex>>

NextIndex == Uint(currentSlotIndex + 1)

LeaveSlot ==
  /\ ~crashed /\ walking /\ Ahead = {}
  /\ walking' = FALSE
  /\ cursor' = 0
  /\ ticks' = ticks - 1
  /\ currentSlotIndex' = NextIndex
  /\ UNCHANGED <<table, crashed>>

-----------------------------------------------------------------------------
Next ==
  \/ \E i \in Ids : \/ RemoveTimer(i) \/ CallSucceeds(i) \/ CallFails(i)
                    \/ \E p \in Periods : AddTimer(i, p)
  \/ \E delta \in 1 .. MaxDelta : TimeElapsed(delta)
  \/ EnterSlot \/ LeaveSlot

Spec == Init /\ [][Next]_vars

-----------------------------------------------------------------------------
TypeOK ==
  /\ \E n \in 0 .. UintSize - 1 : slots \in [0 .. n - 1 -> SUBSET Ids]
  /\ period \in [Ids -> Periods \cup {0}]
  /\ periodsVector \in Seq(Periods)
  /\ currentSlotIndex \in 0 .. MaxTicks
  /\ ticks \in 0 .. MaxDelta
  /\ walking \in BOOLEAN /\ cursor \in Ids \cup {0} /\ crashed \in BOOLEAN

\* Whatever periods were added in whatever order, the ring can be walked over
\* and over: an armed timer sits in every period-th slot, across its end too.
\* (UpdatePeriods, AddTimer, RemoveTimer)
RingIsPeriodic ==
  \A i \in Armed :
    \E r \in 0 .. period[i] - 1 :
      {s \in DOMAIN slots : i \in slots[s]} =
        {s \in DOMAIN slots : s % period[i] = r}

\* The ring starts over without a break: its size is a multiple of the period
\* of every timer, though it is computed from a history of periods.
RingFitsPeriods == \A i \in Armed : SlotsCount % period[i] = 0

\* The ring of TimersManager is right at every second, those of the growth of
\* the ring and of the removal of timers in the middle of a slot included.
RingRight == TypeOK /\ RingIsPeriodic /\ RingFitsPeriods

-----------------------------------------------------------------------------
(* The ring implements the service its users rely on. *)

\* The slot of the next second that was not entered yet.
NextSlot == IF walking THEN currentSlotIndex + 1 ELSE currentSlotIndex

SecondsLeft(i) ==
  IF i \notin Armed THEN 0
  ELSE CHOOSE k \in 1 .. SlotsCount :
         /\ i \in slots[(NextSlot + k - 1) % SlotsCount]
         /\ \A h \in 1 .. k - 1 : i \notin slots[(NextSlot + h - 1) % SlotsCount]

Service == INSTANCE TimerService WITH
  left <- [i \in Ids |-> SecondsLeft(i)],
  calling <- IF crashed THEN {} ELSE Ahead

\* Every armed timer is called once per period, and nobody else.
ImplementsService == Service!Spec

=============================================================================
