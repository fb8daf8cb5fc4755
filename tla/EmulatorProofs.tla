--------------------------- MODULE EmulatorProofs ---------------------------
(***************************************************************************)
(* Theorems of Scheduler and of Emulator, for every clock, delay and bound *)
(* that satisfies their assumptions, and of EmuThread, whose two threads   *)
(* are around it.  The emulator implements the scheduler, so that the      *)
(* scheduler's inductive invariant holds of it; a second one relates the   *)
(* events of a frame to the call of run() that added them.                 *)
(*                                                                         *)
(* The two threads share the emulator without a lock: they never use it at *)
(* once, one frame is in flight, and the HOME interrupts alternate, for    *)
(* any number of frames, errors and boots.  The right to use the emulator  *)
(* is a token that the threads pass on by the flag and the queue           *)
(* (OneToken).  The user may boot only when there is none: the menu's      *)
(* entries are enabled by the message of a frame that failed, whose thread *)
(* then does nothing but end (Bootable), and are disabled before the first *)
(* settings make a new token (Booted).  What SetQuit does to a boot in the *)
(* meantime does not matter here.                                          *)
(***************************************************************************)
EXTENDS Emulator, EmuThread, TLAPS

-----------------------------------------------------------------------------

(* What the calculations return. *)

(* Converting a delay to ticks never yields a negative duration. *)
LEMMA TicksIsNat ==
    ASSUME NEW request \in Requests
    PROVE  Ticks(request) \in Nat
<1>1. request.cycles \in Nat /\ request.clockrate \in 1..QUANTUM
    BY RequestAssumption
<1>2. QUANTUM \div request.clockrate \in Nat
    BY <1>1, ClockAssumption
<1>3. \A m, n \in Nat : m * n \in Nat
    OBVIOUS
<1> QED
    BY <1>1, <1>2, <1>3 DEF Ticks

(* A processor is never handed a negative number of cycles, even for a slice *)
(* of negative length: the product wraps.                                    *)
LEMMA RunForIsNat ==
    ASSUME NEW delta \in Int, NEW rate \in 1..QUANTUM
    PROVE  RunFor(delta, rate) \in Nat
<1> DEFINE product == (delta * rate) % WORD
<1>1. delta * rate \in Int
    OBVIOUS
<1>2. product \in Nat
    BY <1>1, ClockAssumption
<1> HIDE DEF product
<1>3. product \div QUANTUM \in Nat
    BY <1>2, ClockAssumption
<1> QED
    BY <1>3 DEF RunFor, product

-----------------------------------------------------------------------------

(* The inductive invariant. *)

(* The id of an event is its place in the list, and next_id is the end. *)
IdsAreDistinct ==
    /\ \A e \in events : e.id < next_id
    /\ \A e, f \in events : e.id = f.id => e = f

(* A slice is at most MAX_CYCLES long, forwards or backwards, and the clock *)
(* stays below the time that stands for an empty list.                      *)
ClockIsBounded ==
    /\ quantum <= MaxTime + MAX_CYCLES
    /\ phase = "slice" =>
           /\ quantum <= MaxTime
           /\ quantum_cycles \in (-MAX_CYCLES)..MAX_CYCLES

(* The clock has passed the closest time by at most a slice, or will have   *)
(* when the slice ends.  The scan only runs when the clock reached it.      *)
ClosestIsNear ==
    /\ phase = "idle" => quantum - MAX_CYCLES <= closest
    /\ phase = "slice" => quantum + quantum_cycles - MAX_CYCLES <= closest
    /\ phase \in {"scan", "callback"} =>
           quantum - MAX_CYCLES <= closest /\ closest <= quantum

(* closest_event_time bounds every event from below, also during a scan. *)
ClosestIsLowerBound == \A e \in events : closest <= e.time

(* What the scan has passed stays, is not due, and is counted in new_time;  *)
(* the event that is called is due.                                         *)
ScanProgress ==
    phase \in {"scan", "callback"} =>
        /\ it <= next_id
        /\ closest < new_time
        /\ \A e \in events : e.id < it => closest < e.time /\ new_time <= e.time
        /\ phase = "callback" => \A e \in events : e.id = it => e.time <= closest
        /\ phase = "callback" => \E e \in events : e.id = it

(* The clock has not passed an exact event, and will not in this slice. *)
NotPassed ==
    \A e \in events : e.exact =>
        quantum + (IF phase = "slice" THEN quantum_cycles ELSE 0) <= e.time

IInv ==
    /\ TypeOK
    /\ IdsAreDistinct
    /\ ClockIsBounded
    /\ ClosestIsNear
    /\ ClosestIsLowerBound
    /\ ScanProgress
    /\ NotPassed

(* The facts about the constants that the steps use. *)
LEMMA Constants ==
    /\ MAX_CYCLES \in Nat /\ MAX_CYCLES > 0
    /\ QUANTUM \in Nat
    /\ RATE11 \in RATES11
    /\ MaxTime \in Nat /\ FAR \in Nat /\ MaxTime + MAX_CYCLES < FAR
BY ClockAssumption, BoundAssumption

LEMMA InitIInv == Init => IInv
BY Constants DEF Init, IInv, TypeOK, IdsAreDistinct, ClockIsBounded, ClosestIsNear,
    ClosestIsLowerBound, ScanProgress, NotPassed, Phases, Event

LEMMA ResetIInv == Reset => IInv'
BY Constants DEF Reset, Clear, IInv, TypeOK, IdsAreDistinct, ClockIsBounded,
    ClosestIsNear, ClosestIsLowerBound, ScanProgress, NotPassed, Phases, Event

(* Computing a slice keeps the invariant: its length is between -MAX_CYCLES *)
(* and MAX_CYCLES because the closest time is near.                         *)
LEMMA CalculateIInv == IInv /\ CalculateCycles => IInv'
<1> SUFFICES ASSUME IInv, CalculateCycles PROVE IInv'
    OBVIOUS
<1> USE Constants
<1>1. SliceLength \in Int
    BY DEF IInv, TypeOK, SliceLength
<1>2. SliceLength \in (-MAX_CYCLES)..MAX_CYCLES
    BY DEF IInv, TypeOK, SliceLength, ClosestIsNear, CalculateCycles
<1>3. quantum + SliceLength - MAX_CYCLES <= closest
    BY DEF IInv, TypeOK, SliceLength, ClosestIsNear, CalculateCycles
<1>4. to_run' \in [arm11 : Nat, arm9 : Nat, xtensa : Nat]
  <2>1. rate11 \in 1..QUANTUM /\ RATE9 \in 1..QUANTUM /\ RATE_XTENSA \in 1..QUANTUM
    BY ClockAssumption DEF IInv, TypeOK
  <2> QED
    BY <1>1, <2>1, RunForIsNat DEF CalculateCycles
<1>5. TypeOK'
    BY <1>1, <1>4 DEF IInv, TypeOK, CalculateCycles, Phases
<1>6. ClockIsBounded'
    BY <1>2 DEF IInv, TypeOK, ClockIsBounded, CalculateCycles
<1>7. ClosestIsNear'
    BY <1>3 DEF CalculateCycles, ClosestIsNear
<1>8. NotPassed'
  <2>1. quantum + SliceLength <= closest
    BY DEF IInv, TypeOK, SliceLength
  <2>2. \A e \in events : closest <= e.time /\ e.time \in Int
    BY DEF IInv, TypeOK, Event, ClosestIsLowerBound
  <2>3. quantum' = quantum /\ quantum_cycles' = SliceLength /\ phase' = "slice"
        /\ events' = events
    BY DEF CalculateCycles
  <2>4. quantum \in Int /\ closest \in Int
    BY DEF IInv, TypeOK
  <2> QED
    BY <1>1, <2>1, <2>2, <2>3, <2>4 DEF NotPassed
<1> QED
    BY <1>5, <1>6, <1>7, <1>8 DEF IInv, IdsAreDistinct, ClosestIsLowerBound, ScanProgress,
        CalculateCycles

(* Adding an event keeps the invariant, in each of the phases that add. *)
LEMMA AddIInv ==
    ASSUME IInv, phase \in {"idle", "slice", "callback"},
           NEW request \in Requests, AddEvent(request)
    PROVE  IInv'
<1> USE Constants
<1> DEFINE time == quantum + Ticks(request)
           new == [id |-> next_id, time |-> time, kind |-> request.kind,
                  exact |-> Exact(request)]
<1>1. time \in Int /\ quantum <= time /\ time <= MaxTime
    BY TicksIsNat DEF IInv, TypeOK, AddEvent
<1>2. request.kind \in Kinds
    BY RequestAssumption
<1>3. events' = events \union {new} /\ next_id' = next_id + 1
    BY DEF AddEvent
<1>4. closest' = IF time < closest THEN time ELSE closest
    BY DEF AddEvent
<1>5. UNCHANGED <<quantum, quantum_cycles, rate11, to_run, phase, it, new_time>>
    BY DEF AddEvent
<1>6. new \in Event /\ new.id = next_id /\ new.time = time
    BY <1>1, <1>2 DEF IInv, TypeOK, Event, Exact
<1>14. new.exact => phase # "slice" \/ quantum + MAX_CYCLES <= time
  <2>1. new.exact = Exact(request)
    OBVIOUS
  <2>2. quantum \in Int /\ Ticks(request) \in Nat
    BY TicksIsNat DEF IInv, TypeOK
  <2>3. MAX_CYCLES <= Ticks(request) => quantum + MAX_CYCLES <= time
    BY <2>2
  <2> QED
    BY <2>1, <2>3 DEF Exact
<1> HIDE DEF time, new
<1>7. TypeOK'
    BY <1>1, <1>3, <1>4, <1>5, <1>6 DEF IInv, TypeOK
<1>8. IdsAreDistinct'
    BY <1>3, <1>6 DEF IInv, TypeOK, IdsAreDistinct, Event
<1>9. ClockIsBounded'
    BY <1>5 DEF IInv, ClockIsBounded
<1>10. ClosestIsNear'
    BY <1>1, <1>4, <1>5 DEF IInv, TypeOK, ClosestIsNear, ClockIsBounded
<1>11. ClosestIsLowerBound'
    BY <1>1, <1>3, <1>4, <1>6 DEF IInv, TypeOK, ClosestIsLowerBound, Event
<1>12. ScanProgress'
  <2>1. CASE phase = "callback"
    <3>1. closest' = closest
        BY <2>1, <1>1, <1>4 DEF IInv, TypeOK, ClosestIsNear
    <3>2. it < next_id
        BY <2>1 DEF IInv, TypeOK, ScanProgress, IdsAreDistinct, Event
    <3> QED
        BY <2>1, <3>1, <3>2, <1>3, <1>5, <1>6 DEF IInv, TypeOK, ScanProgress, Event
  <2> QED
    BY <2>1, <1>5 DEF ScanProgress
<1>13. NotPassed'
  <2>1. ASSUME new.exact
        PROVE  quantum + (IF phase = "slice" THEN quantum_cycles ELSE 0) <= new.time
    <3>1. quantum \in Int /\ quantum_cycles \in Int
        BY DEF IInv, TypeOK
    <3>2. CASE phase = "slice"
        BY <1>1, <1>6, <1>14, <2>1, <3>1, <3>2 DEF IInv, ClockIsBounded
    <3>3. CASE phase # "slice"
        BY <1>1, <1>6, <3>1, <3>3
    <3> QED
        BY <3>2, <3>3
  <2> QED
    BY <2>1, <1>3, <1>5 DEF IInv, NotPassed
<1> QED
    BY <1>7, <1>8, <1>9, <1>10, <1>11, <1>12, <1>13 DEF IInv

(* Advancing the clock keeps the invariant. *)
LEMMA ProcessIInv == IInv /\ ProcessEvents => IInv'
<1> SUFFICES ASSUME IInv, ProcessEvents PROVE IInv'
    OBVIOUS
<1> USE Constants
<1>1. TypeOK'
    BY DEF IInv, TypeOK, ProcessEvents, Phases
<1>2. ClockIsBounded'
    BY DEF IInv, TypeOK, ClockIsBounded, ProcessEvents
<1>3. ClosestIsNear'
    BY DEF IInv, TypeOK, ClockIsBounded, ClosestIsNear, ProcessEvents
<1>4. ScanProgress'
    BY DEF IInv, TypeOK, Event, ClockIsBounded, ScanProgress, ProcessEvents
<1>5. NotPassed'
    BY DEF IInv, TypeOK, Event, NotPassed, ProcessEvents
<1> QED
    BY <1>1, <1>2, <1>3, <1>4, <1>5 DEF IInv, IdsAreDistinct, ClosestIsLowerBound,
        ProcessEvents

(* Each step of the scan keeps the invariant. *)
LEMMA ScanIInv == IInv /\ (Scan \/ Erase \/ SetClockrate11) => IInv'
<1> SUFFICES ASSUME IInv, Scan \/ Erase \/ SetClockrate11 PROVE IInv'
    OBVIOUS
<1> USE Constants
<1>1. CASE EndScan
  <2>1. TypeOK'
    BY <1>1 DEF IInv, TypeOK, EndScan, Phases
  <2>2. \A e \in events : e.id < it
    BY <1>1 DEF IInv, TypeOK, Event, EndScan, Unvisited
  <2>3. ClosestIsLowerBound'
    BY <1>1, <2>2 DEF IInv, EndScan, ScanProgress, ClosestIsLowerBound
  <2>4. ClosestIsNear'
    BY <1>1 DEF IInv, TypeOK, EndScan, ScanProgress, ClosestIsNear
  <2> QED
    BY <1>1, <2>1, <2>3, <2>4 DEF IInv, EndScan, IdsAreDistinct, ClockIsBounded,
        ScanProgress, NotPassed
<1>2. ASSUME NEW e \in events, Call(e)
      PROVE  IInv'
  <2>1. \A f \in events : f.id < e.id => f.id < it
    BY <1>2 DEF IInv, TypeOK, Event, Call, AtIterator, Unvisited
  <2>2. e.id \in Nat /\ e.id < next_id /\ e.time <= closest
    BY <1>2 DEF IInv, TypeOK, Event, Call, IdsAreDistinct
  <2>3. TypeOK'
    BY <1>2, <2>2 DEF IInv, TypeOK, Call, Phases
  <2>4. ScanProgress'
    BY <1>2, <2>1, <2>2 DEF IInv, TypeOK, Event, Call, ScanProgress, IdsAreDistinct
  <2> QED
    BY <1>2, <2>3, <2>4 DEF IInv, Call, IdsAreDistinct, ClockIsBounded, ClosestIsNear,
        ClosestIsLowerBound, NotPassed
<1>3. ASSUME NEW e \in events, Skip(e)
      PROVE  IInv'
  <2>1. e.id \in Nat /\ e.id < next_id /\ e.time \in Int /\ closest < e.time
    BY <1>3 DEF IInv, TypeOK, Event, Skip, IdsAreDistinct
  <2>2. \A f \in events : f.id < e.id + 1 => f.id < it \/ f = e
    BY <1>3, <2>1 DEF IInv, TypeOK, Event, Skip, AtIterator, Unvisited, IdsAreDistinct
  <2>3. TypeOK'
    BY <1>3, <2>1 DEF IInv, TypeOK, Skip, Phases
  <2>4. ScanProgress'
    BY <1>3, <2>1, <2>2 DEF IInv, TypeOK, Event, Skip, ScanProgress
  <2> QED
    BY <1>3, <2>3, <2>4 DEF IInv, Skip, IdsAreDistinct, ClockIsBounded, ClosestIsNear,
        ClosestIsLowerBound, NotPassed
<1>4. CASE Erase
  <2>1. events' \subseteq events /\ it' = it + 1 /\ \A f \in events' : f.id # it
    BY <1>4 DEF Erase
  <2>2. TypeOK'
    BY <1>4, <2>1 DEF IInv, TypeOK, Erase, Phases
  <2>3. ScanProgress'
    <3>1. it < next_id
        BY <1>4 DEF IInv, TypeOK, Erase, ScanProgress, IdsAreDistinct, Event
    <3> QED
        BY <1>4, <2>1, <3>1 DEF IInv, TypeOK, Event, Erase, ScanProgress
  <2> QED
    BY <1>4, <2>1, <2>2, <2>3 DEF IInv, Erase, IdsAreDistinct, ClockIsBounded,
        ClosestIsNear, ClosestIsLowerBound, NotPassed
<1>5. CASE SetClockrate11
    BY <1>5 DEF IInv, TypeOK, SetClockrate11, IdsAreDistinct, ClockIsBounded,
        ClosestIsNear, ClosestIsLowerBound, ScanProgress, NotPassed
<1> QED
    BY <1>1, <1>2, <1>3, <1>4, <1>5 DEF Scan

(* The invariant is inductive. *)
LEMMA NextIInv == IInv /\ [Next]_vars => IInv'
<1> SUFFICES ASSUME IInv, [Next]_vars PROVE IInv'
    OBVIOUS
<1>1. CASE AddWhenIdle
    BY <1>1, AddIInv DEF AddWhenIdle, Requests
<1>2. CASE AddInSlice
    BY <1>2, AddIInv DEF AddInSlice, Requests
<1>3. CASE AddInCallback
    BY <1>3, AddIInv DEF AddInCallback, Requests
<1>4. CASE UNCHANGED vars
    BY <1>4 DEF vars, IInv, TypeOK, IdsAreDistinct, ClockIsBounded, ClosestIsNear,
        ClosestIsLowerBound, ScanProgress, NotPassed
<1> QED
    BY <1>1, <1>2, <1>3, <1>4, CalculateIInv, ProcessIInv, ScanIInv, ResetIInv DEF Next

LEMMA SpecIInv == Spec => []IInv
BY InitIInv, NextIInv, PTL DEF Spec

-----------------------------------------------------------------------------

LEMMA CallsEarliestFirst == IInv => EarliestFirst
BY DEF IInv, TypeOK, Event, IdsAreDistinct, ClosestIsLowerBound, ScanProgress,
       EarliestFirst

LEMMA CallsOnTime == IInv => OnTime
BY Constants DEF IInv, TypeOK, Event, ClosestIsNear, ClosestIsLowerBound,
       ScanProgress, NotPassed, OnTime

(* Every variable keeps its type: a slice of negative length, and a product *)
(* that wraps, still hand out a natural number of cycles.                   *)
THEOREM SchedulerTypeOK == Spec => []TypeOK
BY SpecIInv, PTL DEF IInv

(* Whatever is added, and whenever, no event is forgotten: see              *)
(* NothingForgotten.                                                        *)
THEOREM SchedulerForgetsNothing == Spec => []NothingForgotten
<1>1. IInv => NothingForgotten
    BY DEF IInv, ClosestIsLowerBound, NothingForgotten
<1> QED
    BY <1>1, SpecIInv, PTL

(* Events are called in the order of their times, and then of the list: the *)
(* scan calls only events at the closest time, and has passed none of them. *)
THEOREM SchedulerCallsEarliestFirst == Spec => []EarliestFirst
BY CallsEarliestFirst, SpecIInv, PTL

(* No event is called early, or late by more than the longest slice; and an *)
(* event whose delay a slice cannot outlast is called on its tick, whatever *)
(* other devices ask for: see OnTime.                                       *)
THEOREM SchedulerIsOnTime == Spec => []OnTime
BY CallsOnTime, SpecIInv, PTL

(* The clock is set back by at most the longest slice.                      *)
THEOREM SchedulerSetBackIsBounded == Spec => SetBackIsBounded
<1>1. IInv /\ [Next]_vars => [Reset \/ quantum' >= quantum - MAX_CYCLES]_vars
    BY Constants DEF IInv, TypeOK, ClockIsBounded, Next, vars, CalculateCycles,
        AddWhenIdle, AddInSlice, AddInCallback, AddEvent, SetClockrate11,
        ProcessEvents, Scan, EndScan, Call, Skip, Erase
<1> QED
    BY <1>1, SpecIInv, PTL DEF Spec, SetBackIsBounded

-----------------------------------------------------------------------------

(* When the clock is past the closest time, or will be at the end of its    *)
(* slice, an event is due then; a slice begins before the exact ones.       *)

DueAt(time) == \E e \in events : e.time = time

SliceEnd == quantum + quantum_cycles

ClosestIsOfEvent ==
    /\ phase = "idle" /\ closest < quantum => DueAt(closest)
    /\ phase = "slice" /\ quantum_cycles < 0 => SliceEnd = closest /\ DueAt(closest)
    /\ phase = "slice" /\ closest < SliceEnd => DueAt(closest)
    /\ phase = "slice" => \A e \in events : e.exact => quantum <= e.time
    /\ phase \in {"scan", "callback"} =>
           new_time = FAR \/ \E e \in events : e.id < it /\ e.time = new_time

LEMMA InitOfEvent == Init => ClosestIsOfEvent
BY DEF Init, ClosestIsOfEvent

LEMMA NextOfEvent ==
    ASSUME IInv, ClosestIsOfEvent, [Next]_vars
    PROVE  ClosestIsOfEvent'
<1> USE Constants
<1>1. CASE Reset
    BY <1>1 DEF Reset, Clear, ClosestIsOfEvent
<1>2. CASE CalculateCycles
  <2>1. /\ phase = "idle" /\ phase' = "slice" /\ quantum_cycles' = SliceLength
        /\ UNCHANGED <<quantum, closest, events>>
    BY <1>2 DEF CalculateCycles
  <2>2. closest < quantum => DueAt(closest)'
    BY <2>1 DEF ClosestIsOfEvent, DueAt
  <2>3. SliceLength < 0 => closest < quantum /\ quantum + SliceLength = closest
    BY DEF IInv, TypeOK, SliceLength
  <2>4. quantum + SliceLength <= closest
    BY DEF IInv, TypeOK, SliceLength
  <2>5. quantum \in Int /\ closest \in Int /\ SliceLength \in Int
    BY DEF IInv, TypeOK, SliceLength
  <2>6. \A e \in events : e.exact => quantum <= e.time
    BY <2>1 DEF IInv, TypeOK, Event, NotPassed
  <2> HIDE DEF SliceLength
  <2> QED
    BY <2>1, <2>2, <2>3, <2>4, <2>5, <2>6 DEF ClosestIsOfEvent, SliceEnd
<1>3. ASSUME NEW request \in Requests, AddEvent(request)
      PROVE  ClosestIsOfEvent'
  <2> DEFINE time == quantum + Ticks(request)
  <2>1. time \in Int /\ quantum <= time
    BY TicksIsNat DEF IInv, TypeOK
  <2>2. \E e \in events' : e.time = time
    <3> DEFINE e == [id |-> next_id, time |-> quantum + Ticks(request),
                     kind |-> request.kind, exact |-> Exact(request)]
    <3>1. e \in events'
      BY <1>3 DEF AddEvent
    <3>2. e.time = time
      OBVIOUS
    <3> HIDE DEF e
    <3> QED
      BY <3>1, <3>2
  <2>3. /\ events \subseteq events' /\ closest' = IF time < closest THEN time ELSE closest
        /\ UNCHANGED <<quantum, quantum_cycles, phase, it, new_time>>
    BY <1>3 DEF AddEvent
  <2> HIDE DEF time
  <2>4. closest' # closest =>
            (\E e \in events' : e.time = closest') /\ quantum <= closest' /\ closest' < closest
    BY <2>1, <2>2, <2>3 DEF IInv, TypeOK
  <2>5. DueAt(closest) /\ closest' = closest => \E e \in events' : e.time = closest'
    BY <2>3 DEF DueAt
  <2>6. /\ closest \in Int /\ closest' \in Int /\ quantum \in Int
        /\ quantum_cycles \in Int
    BY <2>1, <2>3 DEF IInv, TypeOK
  <2>7. \A e \in events' : e \in events \/ e.time = time
    BY <1>3 DEF AddEvent, time
  <2>8. (phase = "slice" => \A e \in events : e.exact => quantum <= e.time)'
    BY <2>1, <2>3, <2>7 DEF ClosestIsOfEvent
  <2>9. (phase \in {"scan", "callback"} =>
            new_time = FAR \/ \E e \in events : e.id < it /\ e.time = new_time)'
    BY <2>3 DEF ClosestIsOfEvent
  <2>10. (phase = "idle" /\ closest < quantum => DueAt(closest))'
    BY <2>3, <2>4, <2>5, <2>6 DEF ClosestIsOfEvent, DueAt
  <2>11. (phase = "slice" /\ quantum_cycles < 0 => SliceEnd = closest /\ DueAt(closest))'
    BY <2>3, <2>4, <2>5, <2>6 DEF ClosestIsOfEvent, SliceEnd, DueAt
  <2>12. (phase = "slice" /\ closest < SliceEnd => DueAt(closest))'
    BY <2>3, <2>4, <2>5, <2>6 DEF ClosestIsOfEvent, SliceEnd, DueAt
  <2> QED
    BY <2>8, <2>9, <2>10, <2>11, <2>12 DEF ClosestIsOfEvent
<1>4. CASE ProcessEvents
    BY <1>4 DEF IInv, TypeOK, ProcessEvents, ClosestIsOfEvent
<1>5. CASE EndScan
    BY <1>5 DEF IInv, TypeOK, ClockIsBounded, EndScan, ClosestIsOfEvent, DueAt
<1>6. ASSUME NEW e \in events, Call(e) \/ Skip(e)
      PROVE  ClosestIsOfEvent'
  <2>1. e.id \in Nat /\ it \in Nat /\ it <= e.id
    BY <1>6 DEF IInv, TypeOK, Event, Call, Skip, AtIterator, Unvisited
  <2>2. CASE Call(e)
    BY <2>1, <2>2 DEF IInv, TypeOK, Event, Call, ClosestIsOfEvent
  <2>3. CASE Skip(e)
    BY <2>1, <2>3 DEF IInv, TypeOK, Event, Skip, ClosestIsOfEvent
  <2> QED
    BY <1>6, <2>2, <2>3
<1>7. CASE Erase
    BY <1>7 DEF IInv, TypeOK, Event, Erase, ClosestIsOfEvent
<1>8. CASE SetClockrate11 \/ UNCHANGED vars
    BY <1>8 DEF SetClockrate11, vars, ClosestIsOfEvent, DueAt, SliceEnd
<1> QED
    BY <1>1, <1>2, <1>3, <1>4, <1>5, <1>6, <1>7, <1>8
       DEF Next, Scan, AddWhenIdle, AddInSlice, AddInCallback, Requests

LEMMA SpecOfEvent == Spec => []ClosestIsOfEvent
<1>1. ClosestIsOfEvent /\ IInv /\ [Next]_vars => ClosestIsOfEvent'
    BY NextOfEvent
<1> QED
    BY <1>1, InitOfEvent, SpecIInv, PTL DEF Spec

(* But for a reset the clock is only set back to the tick of the next event *)
(* of the list, which was asked for within a slice with a short delay.      *)
THEOREM SchedulerSetBackForLateEvents == Spec => SetBackForLateEvents
<1>1. ASSUME IInv, ClosestIsOfEvent, [Next]_vars, ~Reset, ~UNCHANGED vars, ~(quantum' >= quantum)
      PROVE  \E e \in events : Late(e)
  <2>1. ProcessEvents
    BY <1>1 DEF IInv, TypeOK, Next, vars, CalculateCycles, AddWhenIdle, AddInSlice,
                AddInCallback, AddEvent, SetClockrate11, Scan, EndScan, Call, Skip, Erase
  <2>2. phase = "slice" /\ quantum' = SliceEnd /\ quantum_cycles < 0 /\ quantum \in Int
    BY <1>1, <2>1 DEF IInv, TypeOK, ProcessEvents, SliceEnd
  <2>3. quantum' = closest /\ DueAt(closest)
    BY <1>1, <2>2 DEF ClosestIsOfEvent
  <2>4. PICK e \in events : e.time = closest
    BY <2>3 DEF DueAt
  <2>5. \A f \in events : e.time <= f.time
    BY <1>1, <2>4 DEF IInv, ClosestIsLowerBound
  <2>6. ~e.exact
    <3>1. /\ quantum_cycles \in Int /\ e.time \in Int
          /\ e.time = quantum + quantum_cycles /\ quantum_cycles < 0
      BY <1>1, <2>2, <2>3, <2>4 DEF SliceEnd, IInv, TypeOK
    <3> QED
      BY <1>1, <2>2, <2>4, <3>1 DEF ClosestIsOfEvent
  <2> QED
    BY <2>3, <2>4, <2>5, <2>6 DEF Late
<1> QED
    BY <1>1, SpecIInv, SpecOfEvent, PTL DEF Spec, SetBackForLateEvents

-----------------------------------------------------------------------------

(* The cycles of a slice are those its length and the rates give: no rate   *)
(* changes while it runs.                                                   *)
GivenCycles ==
    phase = "slice" =>
        to_run = [arm11  |-> RunFor(quantum_cycles, rate11),
                  arm9   |-> RunFor(quantum_cycles, RATE9),
                  xtensa |-> RunFor(quantum_cycles, RATE_XTENSA)]

LEMMA InitGiven == Init => GivenCycles
BY DEF Init, GivenCycles

LEMMA NextGiven == GivenCycles /\ [Next]_vars => GivenCycles'
BY DEF GivenCycles, Next, vars, Reset, Clear, CalculateCycles, AddWhenIdle, AddInSlice,
       AddInCallback, AddEvent, SetClockrate11, ProcessEvents, Scan, EndScan, Call, Skip, Erase

LEMMA SpecGiven == Spec => []GivenCycles
BY InitGiven, NextGiven, PTL DEF Spec

(* The rounding of RunFor, in a slice that goes forward. *)
LEMMA RunForIsNear ==
    ASSUME NEW delta \in 0..MAX_CYCLES, NEW rate \in 1..QUANTUM
    PROVE  /\ delta * rate < RunFor(delta, rate) * QUANTUM + QUANTUM \div rate
           /\ RunFor(delta, rate) * QUANTUM + QUANTUM \div rate <= delta * rate + QUANTUM
<1> DEFINE product == delta * rate
           whole == product \div QUANTUM
           rest == product % QUANTUM
           least == QUANTUM \div rate
<1>1. product \in Nat /\ product < WORD
  <2>1. delta * rate <= MAX_CYCLES * QUANTUM
    <3>1. \A a, b, m, n \in Nat : a <= m /\ b <= n => a * b <= m * n
        OBVIOUS
    <3>2. delta \in Nat /\ rate \in Nat /\ MAX_CYCLES \in Nat /\ QUANTUM \in Nat
        BY ClockAssumption
    <3> QED
        BY <3>1, <3>2
  <2>2. delta * rate \in Nat /\ MAX_CYCLES * QUANTUM \in Nat
    BY ClockAssumption
  <2> QED
    BY <2>1, <2>2, WordAssumption, ClockAssumption
<1>2. product % WORD = product
    BY <1>1, ClockAssumption
<1>3. whole \in Nat /\ rest \in 0..(QUANTUM - 1) /\ product = QUANTUM * whole + rest
  <2> HIDE DEF product
  <2> QED
    BY <1>1, ClockAssumption
<1>4. least \in Nat /\ 1 <= least /\ least <= QUANTUM
    BY ClockAssumption
<1>5. RunFor(delta, rate) = whole + IF rest >= least THEN 1 ELSE 0
    BY <1>2 DEF RunFor
<1> HIDE DEF product, whole, rest, least
<1>6. (whole + 1) * QUANTUM = QUANTUM * whole + QUANTUM
      /\ whole * QUANTUM = QUANTUM * whole /\ QUANTUM * whole \in Nat
    BY <1>3, ClockAssumption
<1>7. /\ product < RunFor(delta, rate) * QUANTUM + least
      /\ RunFor(delta, rate) * QUANTUM + least <= product + QUANTUM
  <2>1. CASE rest >= least
    BY <1>3, <1>4, <1>5, <1>6, <2>1, ClockAssumption
  <2>2. CASE ~(rest >= least)
    BY <1>3, <1>4, <1>5, <1>6, <2>2, ClockAssumption
  <2> QED
    BY <2>1, <2>2
<1> QED
    BY <1>7 DEF product, least

LEMMA GivesEnough == IInv /\ GivenCycles => CyclesMatchSlice
<1> SUFFICES ASSUME IInv, GivenCycles, phase = "slice", quantum_cycles >= 0
             PROVE  CyclesMatchSlice
  BY DEF CyclesMatchSlice
<1>1. quantum_cycles \in 0..MAX_CYCLES
  BY DEF IInv, ClockIsBounded
<1>2. rate11 \in 1..QUANTUM /\ RATE9 \in 1..QUANTUM /\ RATE_XTENSA \in 1..QUANTUM
  BY ClockAssumption DEF IInv, TypeOK
<1>3. /\ to_run.arm11 = RunFor(quantum_cycles, rate11)
      /\ to_run.arm9 = RunFor(quantum_cycles, RATE9)
      /\ to_run.xtensa = RunFor(quantum_cycles, RATE_XTENSA)
  BY DEF GivenCycles
<1> QED
  BY <1>1, <1>2, <1>3, RunForIsNear DEF CyclesMatchSlice

(* Every processor runs the cycles that fit into the slice, or one more     *)
(* from a threshold on, and carries nothing over: see CyclesMatchSlice.     *)
THEOREM SchedulerCyclesMatchSlice == Spec => []CyclesMatchSlice
BY GivesEnough, SpecIInv, SpecGiven, PTL

-----------------------------------------------------------------------------
(* The emulator. *)

Starts == {e \in events : e.kind = "vblank_start"}
Ends == {e \in events : e.kind = "vblank_end"}

(* Between frames the list holds no event of a frame; entering run() it     *)
(* holds the first of this frame; then the two of this frame, until each is *)
(* called, and the first of them is due before the second.                  *)
FrameInv ==
    /\ thread \in {"between", "entering", "running", "stopped"}
    /\ thread = "between" => Starts = {} /\ Ends = {}
    /\ thread = "entering" =>
           /\ phase = "idle"
           /\ ~frame_ended /\ ~vblank
           /\ Ends = {}
           /\ \A s, t \in Starts : s = t
           /\ \E s \in Starts : s.time = quantum + Ticks(FrameStart)
    /\ thread = "running" =>
           /\ \A s, t \in Starts : s = t
           /\ \A e \in Ends : e.id = end_event
           /\ vblank => Starts = {}
           /\ frame_ended => Ends = {} /\ vblank
           /\ ~vblank => \E s \in Starts : \A e \in Ends : s.time < e.time

LEMMA FrameConstants ==
    /\ FrameStart \in Requests /\ FrameEnd \in Requests
    /\ Ticks(FrameStart) \in Nat /\ Ticks(FrameEnd) \in Nat
    /\ Ticks(FrameStart) < Ticks(FrameEnd)
    /\ FrameStart.kind = "vblank_start" /\ FrameEnd.kind = "vblank_end"
BY FrameAssumption, TicksIsNat DEF Requests

(* Every step of the emulator is a step of the scheduler. *)
LEMMA ENextImplementsNext == [ENext]_emuVars => [Next]_vars
<1>1. RunBegins => Next
    BY FrameAssumption DEF RunBegins, AddWhenIdle, Next
<1>2. RunArmsFrameEnd => Next
    BY FrameAssumption DEF RunArmsFrameEnd, AddWhenIdle, Next
<1>3. PowerButton => Next
    BY DEF PowerButton, AddWhenIdle, Next
<1>4. SliceBegins \/ DeviceAddsEvent \/ ClockAdvances \/ CallbackReturns => Next
    BY DEF SliceBegins, DeviceAddsEvent, ClockAdvances, CallbackReturns, Next
<1>5. RunReturns \/ FatalError => UNCHANGED vars
    BY DEF RunReturns, FatalError
<1>6. Reboot \/ Boot => Next
    BY DEF Reboot, Boot, Next
<1>7. UNCHANGED emuVars => UNCHANGED vars
    BY DEF emuVars
<1> QED
    BY <1>1, <1>2, <1>3, <1>4, <1>5, <1>6, <1>7 DEF ENext

(* A step of the emulator keeps the scheduler's invariant. *)
LEMMA EmulatorIInv == ESpec => []IInv
<1>1. EInit => IInv
    BY InitIInv DEF EInit
<1>2. IInv /\ [ENext]_emuVars => IInv'
    BY NextIInv, ENextImplementsNext
<1> QED
    BY <1>1, <1>2, PTL DEF ESpec

(* The emulator implements the scheduler. *)
THEOREM EmulatorImplementsScheduler == ESpec => ImplementsScheduler
<1>1. EInit => Init
    BY DEF EInit
<1> QED
    BY <1>1, ENextImplementsNext, PTL DEF ESpec, ImplementsScheduler

(* The scheduler's promises hold in the frame loop: events are called in     *)
(* order and on time, and every processor runs the time of its slice.       *)
THEOREM EmulatorKeepsTime == ESpec => [](EarliestFirst /\ OnTime /\ CyclesMatchSlice)
<1>1. ESpec => []GivenCycles
  <2>1. EInit => GivenCycles
    BY InitGiven DEF EInit
  <2>2. GivenCycles /\ [ENext]_emuVars => GivenCycles'
    BY NextGiven, ENextImplementsNext
  <2> QED
    BY <2>1, <2>2, PTL DEF ESpec
<1> QED
    BY <1>1, EmulatorIInv, CallsEarliestFirst, CallsOnTime, GivesEnough, PTL

-----------------------------------------------------------------------------

LEMMA EInitFrameInv == EInit => FrameInv
BY DEF EInit, Init, FrameInv, Starts, Ends

(* Adding an event that is not one of a frame changes neither set. *)
LEMMA AddDeviceEvent ==
    ASSUME NEW request \in Requests \ {FrameStart, FrameEnd}, AddEvent(request)
    PROVE  Starts' = Starts /\ Ends' = Ends
<1>1. request.kind \notin {"vblank_start", "vblank_end"}
    BY FrameAssumption
<1> QED
    BY <1>1 DEF AddEvent, Starts, Ends

(* Beginning a frame, up to the loop of run(). *)
LEMMA BeginFrameInv ==
    ASSUME IInv, FrameInv, RunBegins \/ RunArmsFrameEnd \/ PowerButton
    PROVE  FrameInv'
<1> USE FrameConstants
<1>1. CASE RunBegins
  <2> DEFINE new == [id |-> next_id, time |-> quantum + Ticks(FrameStart),
                     kind |-> FrameStart.kind, exact |-> Exact(FrameStart)]
  <2>1. Starts' = {new} /\ Ends' = {}
    BY <1>1 DEF RunBegins, AddEvent, FrameInv, Starts, Ends
  <2>2. quantum' = quantum /\ phase' = phase /\ phase = "idle"
    BY <1>1 DEF RunBegins, AddEvent
  <2>3. thread' = "entering" /\ ~frame_ended' /\ ~vblank'
    BY <1>1 DEF RunBegins
  <2>4. new.time = quantum + Ticks(FrameStart)
    OBVIOUS
  <2>5. \E s \in Starts' : s.time = quantum' + Ticks(FrameStart)
    BY <2>1, <2>2, <2>4
  <2> QED
    BY <2>1, <2>2, <2>3, <2>5 DEF FrameInv
<1>2. CASE RunArmsFrameEnd
  <2> DEFINE new == [id |-> next_id, time |-> quantum + Ticks(FrameEnd),
                     kind |-> FrameEnd.kind, exact |-> Exact(FrameEnd)]
  <2>1. Starts' = Starts /\ Ends' = {new} /\ end_event' = next_id
    BY <1>2 DEF RunArmsFrameEnd, AddEvent, FrameInv, Starts, Ends
  <2>2. thread' = "running" /\ ~frame_ended' /\ ~vblank'
    BY <1>2 DEF RunArmsFrameEnd, FrameInv
  <2>3. \A s, t \in Starts' : s = t
    BY <1>2, <2>1 DEF RunArmsFrameEnd, FrameInv
  <2>4. \A e \in Ends' : e.id = end_event' /\ e.time = quantum + Ticks(FrameEnd)
    BY <2>1
  <2>5. \E s \in Starts' : \A e \in Ends' : s.time < e.time
    <3>1. PICK s \in Starts : s.time = quantum + Ticks(FrameStart)
        BY <1>2 DEF RunArmsFrameEnd, FrameInv
    <3>2. quantum + Ticks(FrameStart) < quantum + Ticks(FrameEnd)
        BY DEF IInv, TypeOK
    <3> QED
        BY <2>1, <2>4, <3>1, <3>2
  <2> QED
    BY <2>2, <2>3, <2>4, <2>5 DEF FrameInv
<1>3. CASE PowerButton
  <2>1. Starts' = Starts /\ Ends' = Ends
    BY <1>3, AddDeviceEvent DEF PowerButton, Requests
  <2> QED
    BY <1>3, <2>1 DEF PowerButton, FrameInv, frameVars
<1> QED
    BY <1>1, <1>2, <1>3

(* The loop of run(), but for the return of a callback. *)
LEMMA LoopFrameInv ==
    ASSUME FrameInv, SliceBegins \/ DeviceAddsEvent \/ ClockAdvances
    PROVE  FrameInv'
<1>1. Starts' = Starts /\ Ends' = Ends
  <2>1. CASE SliceBegins \/ ClockAdvances
    BY <2>1 DEF SliceBegins, ClockAdvances, CalculateCycles, ProcessEvents, Scan,
        EndScan, Call, Skip, SetClockrate11, Starts, Ends
  <2>2. CASE DeviceAddsEvent
    BY <2>2, AddDeviceEvent, FrameAssumption DEF DeviceAddsEvent, AddInSlice,
        AddInCallback, Requests
  <2> QED
    BY <2>1, <2>2
<1>2. thread = "running" /\ UNCHANGED frameVars
    BY DEF SliceBegins, DeviceAddsEvent, ClockAdvances
<1> QED
    BY <1>1, <1>2 DEF FrameInv, frameVars

(* A callback returns: the event that leaves the list is the earliest, so   *)
(* that VBLANK start leaves it before VBLANK end.                           *)
LEMMA CallbackFrameInv ==
    ASSUME IInv, FrameInv, CallbackReturns
    PROVE  FrameInv'
<1>1. thread = "running" /\ phase = "callback"
      /\ UNCHANGED <<thread, end_event>> /\ events' = {e \in events : e.id # it}
    BY DEF CallbackReturns, Erase
<1>2. PICK called \in events : called.id = it
    BY <1>1 DEF IInv, ScanProgress
<1>3. Called = {called} /\ events' = events \ {called}
    BY <1>1, <1>2 DEF IInv, IdsAreDistinct, Called
<1>4. \A f \in events : called.time <= f.time
    BY <1>1, <1>2 DEF IInv, TypeOK, Event, ScanProgress, ClosestIsLowerBound
<1>5. /\ vblank' = (vblank \/ called.kind = "vblank_start")
      /\ frame_ended' = (frame_ended \/ called.kind = "vblank_end")
    BY <1>3 DEF CallbackReturns
<1>6. Starts' = Starts \ {called} /\ Ends' = Ends \ {called}
    BY <1>3 DEF Starts, Ends
<1>7. CASE called.kind = "vblank_start"
  <2>1. Starts' = {} /\ Ends' = Ends
    BY <1>1, <1>2, <1>6, <1>7 DEF FrameInv, Starts, Ends
  <2>2. vblank' /\ (frame_ended' <=> frame_ended)
    BY <1>5, <1>7
  <2> QED
    BY <1>1, <2>1, <2>2 DEF FrameInv
<1>8. CASE called.kind = "vblank_end"
  <2>1. called \in Ends
    BY <1>2, <1>8 DEF Ends
  <2>2. vblank
    <3>1. SUFFICES ASSUME ~vblank PROVE FALSE
        OBVIOUS
    <3>2. PICK s \in Starts : s.time < called.time
        BY <1>1, <2>1, <3>1 DEF FrameInv
    <3>3. s \in events
        BY DEF Starts
    <3> QED
        BY <1>2, <1>4, <3>2, <3>3 DEF IInv, TypeOK, Event
  <2>3. Ends' = {}
    <3>1. \A e \in Ends : e = called
        BY <1>1, <1>2, <2>1 DEF FrameInv, IInv, IdsAreDistinct, Ends
    <3> QED
        BY <1>6, <3>1
  <2>4. Starts' = {}
    BY <1>1, <1>6, <2>2 DEF FrameInv
  <2> QED
    BY <1>1, <1>5, <1>8, <2>2, <2>3, <2>4 DEF FrameInv
<1>9. CASE called.kind \notin {"vblank_start", "vblank_end"}
  <2>1. Starts' = Starts /\ Ends' = Ends
    BY <1>6, <1>9 DEF Starts, Ends
  <2>2. (vblank' <=> vblank) /\ (frame_ended' <=> frame_ended)
    BY <1>5, <1>9
  <2> QED
    BY <1>1, <2>1, <2>2 DEF FrameInv
<1> QED
    BY <1>7, <1>8, <1>9

(* Leaving run(), with the frame, an exception or a reset. *)
LEMMA LeaveFrameInv ==
    ASSUME FrameInv, RunReturns \/ FatalError \/ Reboot \/ Boot
    PROVE  FrameInv'
<1>1. CASE RunReturns
  <2>1. Starts' = {} /\ Ends' = {} /\ thread' = "between"
    BY <1>1 DEF RunReturns, FrameInv, vars, Starts, Ends
  <2> QED
    BY <2>1 DEF FrameInv
<1>2. CASE FatalError
    BY <1>2 DEF FatalError, FrameInv
<1>3. CASE Reboot \/ Boot
  <2>1. Starts' = {} /\ Ends' = {} /\ thread' = "between"
    BY <1>3 DEF Reboot, Boot, Reset, Clear, Starts, Ends
  <2> QED
    BY <2>1 DEF FrameInv
<1> QED
    BY <1>1, <1>2, <1>3

LEMMA ENextFrameInv == IInv /\ FrameInv /\ [ENext]_emuVars => FrameInv'
<1>1. UNCHANGED emuVars /\ FrameInv => FrameInv'
    BY DEF emuVars, vars, frameVars, FrameInv, Starts, Ends
<1> QED
    BY <1>1, BeginFrameInv, LoopFrameInv, CallbackFrameInv, LeaveFrameInv DEF ENext

LEMMA ESpecFrameInv == ESpec => []FrameInv
BY EInitFrameInv, ENextFrameInv, EmulatorIInv, PTL DEF ESpec

(* No callback stores through a dangling reference: see NoDanglingCapture.  *)
THEOREM EmulatorNoDanglingCapture == ESpec => []NoDanglingCapture
<1>1. FrameInv => NoDanglingCapture
    BY DEF FrameInv, NoDanglingCapture, Called, Ends
<1> QED
    BY <1>1, ESpecFrameInv, PTL

(* Between frames no event of a frame is left: see FrameLeavesNothing.      *)
THEOREM EmulatorFrameLeavesNothing == ESpec => []FrameLeavesNothing
<1>1. FrameInv => FrameLeavesNothing
    BY DEF FrameInv, FrameLeavesNothing, Starts, Ends
<1> QED
    BY <1>1, ESpecFrameInv, PTL

(* A frame ends after its VBLANK interrupt, also when short delays make the *)
(* scheduler late and set the clock back.                                   *)
THEOREM EmulatorVblankBeforeFrameEnd == ESpec => []VblankBeforeFrameEnd
<1>1. FrameInv => VblankBeforeFrameEnd
    BY DEF FrameInv, VblankBeforeFrameEnd
<1> QED
    BY <1>1, ESpecFrameInv, PTL

-----------------------------------------------------------------------------
(* The threads. *)

(* run() has failed or not begun. *)
Ending == {"stop", "leave", "finished"}

Unread == has_frame_settings /\ emu # "take"
InFrame == emu \in {"take", "frame", "emit", "report"}
Posted == signals # <<>>
Drawing == ui = "draw"

OneToken ==
    /\ signals \in {<<>>, <<"frame_complete">>, <<"emu_error">>}
    /\ Unread => ~InFrame /\ ~Posted /\ ~Drawing
    /\ InFrame => ~Posted /\ ~Drawing
    /\ Posted => ~Drawing

Bootable ==
    /\ boot_enabled => emu \in Ending /\ ~has_frame_settings /\ ~Posted /\ ~Drawing
    /\ signals = <<"emu_error">> => emu \in Ending

Booted ==
    /\ ui \in {"load", "arm", "clear"} => boot_enabled
    /\ ui \in {"pass", "start"} => emu \in Ending /\ ~Posted /\ ~boot_enabled
    /\ ui = "pass" => ~has_frame_settings

HomeInv ==
    /\ HomeInterruptsAlternate
    /\ ui \in {"arm", "clear"} => mcu_home = FALSE

ThreadInv == ThreadTypeOK /\ OneToken /\ Bootable /\ Booted /\ HomeInv

(* A queue of one signal. *)
LEMMA Queue ==
    ASSUME NEW s
    PROVE  /\ Append(<<>>, s) = <<s>> /\ Head(<<s>>) = s /\ Tail(<<s>>) = <<>>
           /\ <<s>> # <<>> /\ Len(<<s>>) = 1
<1>1. Append(<<>>, s) = <<s>>
  OBVIOUS
<1>2. Head(<<s>>) = s /\ Tail(<<s>>) = <<>>
  OBVIOUS
<1> QED BY <1>1, <1>2

LEMMA OneSignal ==
    ThreadInv => \/ signals = <<>>
            \/ /\ signals \in {<<"frame_complete">>, <<"emu_error">>}
               /\ signals = <<Head(signals)>> /\ Tail(signals) = <<>> /\ Len(signals) = 1
BY Queue DEF ThreadInv, OneToken

LEMMA ThreadInitInv == ThreadInit => ThreadInv
<1> SUFFICES ASSUME ThreadInit PROVE ThreadInv
  OBVIOUS
<1>1. ThreadTypeOK
  <2>1. <<>> \in Seq(Signals)
    OBVIOUS
  <2> QED BY <2>1 DEF ThreadInit, ThreadTypeOK, EmuPlaces, UiPlaces
<1>2. signals # <<"emu_error">>
  BY Queue DEF ThreadInit
<1> QED BY <1>1, <1>2
        DEF ThreadInit, ThreadInv, OneToken, Bootable, Booted, HomeInv, HomeInterruptsAlternate,
            Unread, InFrame, Posted, Drawing, Ending

LEMMA ThreadTypeStep == ThreadTypeOK /\ OneToken /\ [ThreadNext]_threadVars => ThreadTypeOK'
<1> SUFFICES ASSUME ThreadTypeOK, OneToken, [ThreadNext]_threadVars PROVE ThreadTypeOK'
  OBVIOUS
<1>1. CASE EmuStep
  <2>1. signals' \in Seq(Signals)
    BY <1>1 DEF ThreadTypeOK, EmuStep, TestQuit, EndWait, TakeSettings, FrameEnds,
                EmitFrameComplete, FrameFails, EmitError, SetQuit, Finish, Signals
  <2> QED BY <1>1, <2>1
          DEF ThreadTypeOK, EmuStep, TestQuit, EndWait, TakeSettings, FrameEnds,
              EmitFrameComplete, FrameFails, EmitError, SetQuit, Finish, EmuPlaces, homeVars
<1>2. CASE UiStep
  <2>1. signals' \in Seq(Signals)
    <3>1. signals # <<>> => Tail(signals) \in Seq(Signals)
      BY DEF ThreadTypeOK
    <3> QED BY <1>2, <3>1
            DEF ThreadTypeOK, UiStep, FrameComplete, PassNextSettings, DisplayEmuError, LoadFails,
                LoadSucceeds, ClearQuit, ClearSettings, PassFirstSettings, Start
  <2> QED BY <1>2, <2>1
          DEF ThreadTypeOK, UiStep, FrameComplete, PassNextSettings, DisplayEmuError, LoadFails,
              LoadSucceeds, ClearQuit, ClearSettings, PassFirstSettings, PassFrameSettings,
              Start, EmuPlaces, UiPlaces, homeVars
<1>3. CASE UserBoots \/ HomeKey \/ UNCHANGED threadVars
  BY <1>3 DEF ThreadTypeOK, UserBoots, HomeKey, threadVars, homeVars, UiPlaces
<1> QED BY <1>1, <1>2, <1>3 DEF ThreadNext

LEMMA EmuThreadStep == ThreadInv /\ EmuStep => OneToken' /\ Bootable' /\ Booted' /\ HomeInv'
<1> SUFFICES ASSUME ThreadInv, EmuStep PROVE OneToken' /\ Bootable' /\ Booted' /\ HomeInv'
  OBVIOUS
<1> USE DEF ThreadInv, OneToken, Bootable, Booted, Unread, InFrame, Posted, Drawing, Ending
<1>1. UNCHANGED <<ui, boot_enabled, home_button, old_home_button, mcu_home>>
  BY DEF EmuStep, TestQuit, EndWait, TakeSettings, FrameEnds, EmitFrameComplete, FrameFails,
         EmitError, SetQuit, Finish, homeVars
<1>2. HomeInv'
  BY <1>1 DEF HomeInv, HomeInterruptsAlternate
<1>3. CASE TestQuit \/ EndWait \/ TakeSettings \/ FrameEnds \/ FrameFails
  BY <1>1, <1>2, <1>3 DEF TestQuit, EndWait, TakeSettings, FrameEnds, FrameFails
<1>4. CASE SetQuit \/ Finish
  BY <1>1, <1>2, <1>4 DEF SetQuit, Finish
<1>5. CASE EmitFrameComplete
  <2>1. signals = <<>> /\ signals' = <<"frame_complete">>
    BY <1>5, Queue DEF EmitFrameComplete
  <2> QED BY <1>1, <1>2, <1>5, <2>1 DEF EmitFrameComplete
<1>6. CASE EmitError
  <2>1. signals = <<>> /\ signals' = <<"emu_error">>
    BY <1>6, Queue DEF EmitError
  <2> QED BY <1>1, <1>2, <1>6, <2>1 DEF EmitError
<1> QED BY <1>3, <1>4, <1>5, <1>6 DEF EmuStep

LEMMA UiThreadStep ==
    ThreadInv /\ (UiStep \/ UserBoots \/ HomeKey) => OneToken' /\ Bootable' /\ Booted' /\ HomeInv'
<1> SUFFICES ASSUME ThreadInv, UiStep \/ UserBoots \/ HomeKey
             PROVE  OneToken' /\ Bootable' /\ Booted' /\ HomeInv'
  OBVIOUS
<1> USE DEF ThreadInv, OneToken, Bootable, Booted, Unread, InFrame, Posted, Drawing, Ending,
            HomeInv, HomeInterruptsAlternate
<1>1. CASE FrameComplete
  <2>1. signals # <<>> /\ signals' = <<>>
    BY <1>1, OneSignal DEF FrameComplete
  <2> QED BY <1>1, <2>1 DEF FrameComplete, homeVars
<1>2. CASE DisplayEmuError
  <2>1. signals = <<"emu_error">> /\ signals' = <<>>
    BY <1>2, OneSignal DEF DisplayEmuError
  <2> QED BY <1>2, <2>1 DEF DisplayEmuError, homeVars
<1>3. CASE PassNextSettings
  BY <1>3 DEF PassNextSettings, PassFrameSettings
<1>4. CASE PassFirstSettings
  BY <1>4 DEF PassFirstSettings, PassFrameSettings
<1>5. CASE UserBoots \/ LoadFails \/ LoadSucceeds \/ ClearQuit
  BY <1>5 DEF UserBoots, LoadFails, LoadSucceeds, ClearQuit, homeVars
<1>6. CASE ClearSettings
  BY <1>6 DEF ClearSettings
<1>7. CASE Start \/ HomeKey
  BY <1>7 DEF Start, HomeKey, homeVars
<1> QED BY <1>1, <1>2, <1>3, <1>4, <1>5, <1>6, <1>7 DEF UiStep

LEMMA ThreadInductive == ThreadInv /\ [ThreadNext]_threadVars => ThreadInv'
<1>1. ThreadInv /\ UNCHANGED threadVars => OneToken' /\ Bootable' /\ Booted' /\ HomeInv'
  BY DEF ThreadInv, OneToken, Bootable, Booted, Unread, InFrame, Posted, Drawing, HomeInv,
         HomeInterruptsAlternate, threadVars, homeVars
<1> QED BY <1>1, ThreadTypeStep, EmuThreadStep, UiThreadStep DEF ThreadNext, ThreadInv

LEMMA AlwaysThreadInv == ThreadSpec => []ThreadInv
BY ThreadInitInv, ThreadInductive, PTL DEF ThreadSpec

-----------------------------------------------------------------------------
(* The theorems about the threads. *)

(* The flags, places and queue keep their types. *)
THEOREM EmuThreadTypeOK == ThreadSpec => []ThreadTypeOK
<1>1. ThreadInv => ThreadTypeOK
  BY DEF ThreadInv
<1> QED BY <1>1, AlwaysThreadInv, PTL

(* The threads never use the emulator at the same time, without a lock and  *)
(* however their steps interleave: see EmulatorIsNotShared.                 *)
THEOREM EmuThreadEmulatorIsNotShared == ThreadSpec => []EmulatorIsNotShared
<1>1. ThreadInv => EmulatorIsNotShared
  BY DEF ThreadInv, OneToken, Bootable, Booted, Ending, Unread, InFrame, Posted, Drawing,
         EmulatorIsNotShared
<1> QED BY <1>1, AlwaysThreadInv, PTL

(* Settings, frame and signal are never in flight together, and the queue   *)
(* never holds two signals: see OneFrameInFlight.                           *)
THEOREM EmuThreadOneFrameInFlight == ThreadSpec => []OneFrameInFlight
<1>1. ThreadInv => OneFrameInFlight
  <2> SUFFICES ASSUME ThreadInv PROVE OneFrameInFlight
    OBVIOUS
  <2> DEFINE tokens == <<has_frame_settings /\ emu # "take",
                         emu \in {"take", "frame", "emit", "report"},
                         signals # <<>>, ui = "draw">>
  <2>1. /\ tokens[1] <=> Unread
        /\ tokens[2] <=> InFrame
        /\ tokens[3] <=> Posted
        /\ tokens[4] <=> Drawing
    BY DEF Unread, InFrame, Posted, Drawing
  <2>2. 1..4 = {1, 2, 3, 4}
    OBVIOUS
  <2>3. Len(signals) <= 1
    <3>1. Len(<<>>) = 0
      OBVIOUS
    <3> QED BY OneSignal, <3>1
  <2>4. \A i, j \in 1..4 : tokens[i] /\ tokens[j] => i = j
    <3> HIDE DEF tokens
    <3> QED BY <2>1, <2>2 DEF ThreadInv, OneToken
  <2> QED BY <2>3, <2>4 DEF OneFrameInFlight
<1> QED BY <1>1, AlwaysThreadInv, PTL

(* HOME interrupts alternate from a boot on: see HomeInterruptsAlternate.   *)
THEOREM EmuThreadHomeInterruptsAlternate == ThreadSpec => []HomeInterruptsAlternate
<1>1. ThreadInv => HomeInterruptsAlternate
  BY DEF ThreadInv, HomeInv
<1> QED BY <1>1, AlwaysThreadInv, PTL
=============================================================================
