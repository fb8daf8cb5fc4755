----------------------------- MODULE Scheduler -----------------------------
(***************************************************************************)
(* The event scheduler of the emulator (core/scheduler.cpp) and the clock  *)
(* it keeps.  Time is counted in ticks of the quantum clock.  The emulator *)
(* thread repeats: compute the length of the next slice, run every         *)
(* processor and device for it, advance the clock and call back the events *)
(* that are due.  Events are added between slices, by a register write in  *)
(* the middle of a slice, or by a callback while the list is scanned.      *)
(***************************************************************************)
EXTENDS Integers, FiniteSets

CONSTANTS
    MAX_CYCLES,         \* Longest slice, in ticks (256 in the code).
    FAR,                \* closest_event_time of an empty list (0x7FFFFFFF << 32).
    WORD,               \* Products are computed modulo WORD (2^64 in the code).
    QUANTUM,            \* Rate of the quantum clock (3 * ARM11_CLOCKRATE).
    RATE9, RATE_XTENSA, \* Rates of the ARM9 and of the Xtensa processor.
    RATE11,             \* Rate of the ARM11 cores after a reset.
    RATES11,            \* Every rate set_clockrate_11 is called with.
    Kinds,              \* What an event does when it is called back.
    IdleRequests,       \* [cycles, clockrate, kind] asked for between slices,
    SliceRequests,      \* during a slice, by a register write,
    CallbackRequests,   \* and by a callback.
    MaxEvents,          \* Bound: events added between two resets.
    MaxTime             \* Bound: the last tick an event is asked for.

Requests == IdleRequests \union SliceRequests \union CallbackRequests

ASSUME ClockAssumption ==
    /\ MAX_CYCLES \in Nat \ {0}
    /\ WORD \in Nat \ {0}
    /\ QUANTUM \in Nat \ {0}
    /\ RATE9 \in 1..QUANTUM
    /\ RATE_XTENSA \in 1..QUANTUM
    /\ RATES11 \subseteq 1..QUANTUM
    /\ RATE11 \in RATES11

(* A slice of full length does not make a product wrap. *)
ASSUME WordAssumption == MAX_CYCLES * QUANTUM < WORD

ASSUME RequestAssumption ==
    Requests \subseteq [cycles : Nat, clockrate : 1..QUANTUM, kind : Kinds]

ASSUME BoundAssumption ==
    /\ MaxEvents \in Nat
    /\ MaxTime \in Nat
    /\ FAR \in Nat
    /\ MaxTime + MAX_CYCLES < FAR

VARIABLES
    events,         \* The list of events; the id of an event is its position in
                    \* the order of insertion, which is the order of the list.
    next_id,        \* How many events were added since the reset.
    closest,        \* closest_event_time.
    quantum,        \* quantum.count, the clock.
    quantum_cycles, \* Length of the current slice, in ticks.
    rate11,         \* cycles11.clockrate.
    to_run,         \* Cycles each processor runs in the current slice.
    phase,          \* Where the emulator thread is, see Phases.
    it,             \* Iterator of the scan: events with a smaller id are done.
    new_time        \* Local of process_events: closest event that stays.

vars == <<events, next_id, closest, quantum, quantum_cycles, rate11, to_run,
          phase, it, new_time>>

-----------------------------------------------------------------------------

(* The duration of a request in ticks, as add_event converts it. *)
Ticks(request) == request.cycles * (QUANTUM \div request.clockrate)

(* The thread is between two slices, in a slice, scanning the list, or in a *)
(* callback.                                                                *)
Phases == {"idle", "slice", "scan", "callback"}

(* exact is not in the code: the event was not asked for in the middle of a *)
(* slice with a delay that the slice may outlast.                           *)
Event == [id : Nat, time : Int, kind : Kinds, exact : BOOLEAN]

Exact(request) == phase # "slice" \/ MAX_CYCLES <= Ticks(request)

(* Mutant of RunFor: the remainder is dropped. *)
RunFor_DropsRemainder(delta, rate) == ((delta * rate) % WORD) \div QUANTUM

(* Whole cycles a processor of this rate runs in delta ticks.  The product  *)
(* of a signed delta and an unsigned rate wraps; a remainder that is worth  *)
(* one more cycle rounds the result up.                                     *)
RunFor(delta, rate) ==
    LET product == (delta * rate) % WORD
        roundUp == product % QUANTUM >= QUANTUM \div rate
    IN  product \div QUANTUM + IF roundUp THEN 1 ELSE 0

(* Mutant of SliceLength: no event shortens the slice. *)
SliceLength_Whole == MAX_CYCLES

(* The length of the next slice.  The code's "if (delta < 0) delta = 0" is  *)
(* on an inner variable that shadows delta, and clamps nothing.             *)
SliceLength ==
    IF quantum + MAX_CYCLES <= closest THEN MAX_CYCLES ELSE closest - quantum

(* Mutant of Clear: the list of events survives the reset. *)
Clear_KeepsEvents ==
    /\ closest' = 0
    /\ quantum' = 0
    /\ quantum_cycles' = 0
    /\ rate11' = RATE11
    /\ to_run' = [arm11 |-> 0, arm9 |-> 0, xtensa |-> 0]
    /\ phase' = "idle"
    /\ it' = 0
    /\ new_time' = FAR
    /\ UNCHANGED <<events, next_id>>

(* The list as reset() leaves it.  Not all of the locals are reset by the   *)
(* code; those are written before they are next read.                       *)
Clear ==
    /\ events' = {}
    /\ next_id' = 0
    /\ closest' = 0
    /\ quantum' = 0
    /\ quantum_cycles' = 0
    /\ rate11' = RATE11
    /\ to_run' = [arm11 |-> 0, arm9 |-> 0, xtensa |-> 0]
    /\ phase' = "idle"
    /\ it' = 0
    /\ new_time' = FAR

Init ==
    /\ events = {}
    /\ next_id = 0
    /\ closest = 0
    /\ quantum = 0
    /\ quantum_cycles = 0
    /\ rate11 = RATE11
    /\ to_run = [arm11 |-> 0, arm9 |-> 0, xtensa |-> 0]
    /\ phase = "idle"
    /\ it = 0
    /\ new_time = FAR

(* Emulator::reset: from any phase, as an exception may leave a slice or a  *)
(* callback, and the thread's handler then resets the machine.              *)
Reset == Clear

(* calculate_cycles_to_run. *)
CalculateCycles ==
    /\ phase = "idle"
    /\ quantum <= MaxTime
    /\ quantum_cycles' = SliceLength
    /\ to_run' = [arm11  |-> RunFor(SliceLength, rate11),
                  arm9   |-> RunFor(SliceLength, RATE9),
                  xtensa |-> RunFor(SliceLength, RATE_XTENSA)]
    /\ phase' = "slice"
    /\ UNCHANGED <<events, next_id, closest, quantum, rate11, it, new_time>>

(* add_event: the delay counts from quantum, which during a slice is still  *)
(* the tick the slice began at.                                             *)
AddEvent(request) ==
    LET time == quantum + Ticks(request)
    IN  /\ next_id < MaxEvents
        /\ time <= MaxTime
        /\ events' = events \union
               {[id |-> next_id, time |-> time, kind |-> request.kind,
                 exact |-> Exact(request)]}
        /\ next_id' = next_id + 1
        /\ closest' = IF time < closest THEN time ELSE closest
        /\ UNCHANGED <<quantum, quantum_cycles, rate11, to_run, phase, it,
                       new_time>>

(* run() adds the events of the frame, the UI thread the power button's. *)
AddWhenIdle ==
    phase = "idle" /\ \E request \in IdleRequests : AddEvent(request)

(* A processor or a DMA engine writes a register that starts a delay. *)
AddInSlice ==
    phase = "slice" /\ \E request \in SliceRequests : AddEvent(request)

(* A callback does. *)
AddInCallback ==
    phase = "callback" /\ \E request \in CallbackRequests : AddEvent(request)

(* process_events up to its loop: the clock advances by the slice, and the  *)
(* list is scanned from its front when something is due.                    *)
ProcessEvents ==
    /\ phase = "slice"
    /\ quantum' = quantum + quantum_cycles
    /\ IF quantum' >= closest
       THEN phase' = "scan" /\ it' = 0 /\ new_time' = FAR
       ELSE phase' = "idle" /\ UNCHANGED <<it, new_time>>
    /\ UNCHANGED <<events, next_id, closest, quantum_cycles, rate11, to_run>>

(* The events the iterator has not passed, and the one it is at. *)
Unvisited == {e \in events : e.id >= it}
AtIterator(e) == e \in Unvisited /\ \A f \in Unvisited : e.id <= f.id

(* Mutant of Call: what is due by now is called, in the order of the list. *)
Call_AllDue(e) ==
    /\ phase = "scan"
    /\ AtIterator(e)
    /\ e.time <= quantum
    /\ it' = e.id
    /\ phase' = "callback"
    /\ UNCHANGED <<events, next_id, closest, quantum, quantum_cycles, rate11,
                   to_run, new_time>>

(* The event at the iterator is due: it is called. *)
Call(e) ==
    /\ phase = "scan"
    /\ AtIterator(e)
    /\ e.time <= closest
    /\ it' = e.id
    /\ phase' = "callback"
    /\ UNCHANGED <<events, next_id, closest, quantum, quantum_cycles, rate11,
                   to_run, new_time>>

(* The callback of MPCORE_CLKCNT changes the rate of the ARM11 cores. *)
SetClockrate11 ==
    /\ phase = "callback"
    /\ rate11' \in RATES11
    /\ UNCHANGED <<events, next_id, closest, quantum, quantum_cycles, to_run,
                   phase, it, new_time>>

(* The callback returned: the event is erased, the iterator moves on. *)
Erase ==
    /\ phase = "callback"
    /\ events' = {e \in events : e.id # it}
    /\ it' = it + 1
    /\ phase' = "scan"
    /\ UNCHANGED <<next_id, closest, quantum, quantum_cycles, rate11, to_run,
                   new_time>>

(* The event at the iterator is not due: it stays. *)
Skip(e) ==
    /\ phase = "scan"
    /\ AtIterator(e)
    /\ e.time > closest
    /\ it' = e.id + 1
    /\ new_time' = IF e.time < new_time THEN e.time ELSE new_time
    /\ UNCHANGED <<events, next_id, closest, quantum, quantum_cycles, rate11,
                   to_run, phase>>

(* Mutant of EndScan: what stays in the list is not looked at. *)
EndScan_LosesClosest ==
    /\ phase = "scan"
    /\ Unvisited = {}
    /\ closest' = FAR
    /\ phase' = "idle"
    /\ UNCHANGED <<events, next_id, quantum, quantum_cycles, rate11, to_run, it,
                   new_time>>

(* The end of the list: what stays decides the next closest time. *)
EndScan ==
    /\ phase = "scan"
    /\ Unvisited = {}
    /\ closest' = new_time
    /\ phase' = "idle"
    /\ UNCHANGED <<events, next_id, quantum, quantum_cycles, rate11, to_run, it,
                   new_time>>

Scan == EndScan \/ \E e \in events : Call(e) \/ Skip(e)

Next ==
    \/ CalculateCycles
    \/ AddWhenIdle
    \/ AddInSlice
    \/ AddInCallback
    \/ SetClockrate11
    \/ ProcessEvents
    \/ Scan
    \/ Erase
    \/ Reset

(* The loop of run() never blocks: each slice ends and each scan goes on.   *)
(* Adding events, changing a rate and resetting the machine are up to the   *)
(* emulated program and to the user.                                        *)
Fairness == WF_vars(CalculateCycles \/ ProcessEvents \/ Scan \/ Erase)

Spec == Init /\ [][Next]_vars /\ Fairness

-----------------------------------------------------------------------------

TypeOK ==
    /\ events \subseteq Event
    /\ next_id \in Nat
    /\ closest \in Int
    /\ quantum \in Int
    /\ quantum_cycles \in Int
    /\ rate11 \in RATES11
    /\ to_run \in [arm11 : Nat, arm9 : Nat, xtensa : Nat]
    /\ phase \in Phases
    /\ it \in Nat
    /\ new_time \in Int

(* No event is forgotten: outside a scan, closest_event_time is never later *)
(* than an event of the list, although adding and scanning recompute it     *)
(* separately and a callback may add while the scan is half done            *)
(* (add_event's min, process_events' new_time).                             *)
NothingForgotten ==
    phase \in {"idle", "slice"} => \A e \in events : closest <= e.time

(* Events are called in the order they are due, and in the order they were  *)
(* added when they are due at the same tick: the event being called is      *)
(* before every other event of the list.                                    *)
EarliestFirst ==
    phase = "callback" =>
        \A e \in events : e.id = it =>
            \A f \in events \ {e} :
                e.time < f.time \/ (e.time = f.time /\ e.id < f.id)

(* An event is never called early, and late by one maximal slice at most.   *)
(* It is called at exactly the tick it was asked for, whatever else is      *)
(* late, unless it was asked for in a slice with a delay shorter than the   *)
(* longest slice: when the clock is set back for a late event it stops at   *)
(* the others.                                                              *)
OnTime ==
    phase = "callback" =>
        \A e \in events : e.id = it =>
            /\ e.time <= quantum /\ quantum <= e.time + MAX_CYCLES
            /\ e.exact => e.time = quantum

(* In a slice that goes forward every processor runs the whole cycles that  *)
(* fit into it, and one more if the remainder, in units of 1/QUANTUM of a   *)
(* cycle, is at least QUANTUM \div rate: nothing is carried from slice to   *)
(* slice, as the remainder the code keeps is overwritten (scheduler.cpp:48).*)
CyclesMatchSlice ==
    phase = "slice" /\ quantum_cycles >= 0 =>
        \A run \in {<<to_run.arm11, rate11>>, <<to_run.arm9, RATE9>>,
                    <<to_run.xtensa, RATE_XTENSA>>} :
            LET exact == quantum_cycles * run[2]
                given == run[1] * QUANTUM + QUANTUM \div run[2]
            IN  exact < given /\ given <= exact + QUANTUM

(* The clock never runs backwards, except when the machine is reset.  This  *)
(* is what the clamp of calculate_cycles_to_run is there for.               *)
TimeNeverRunsBackwards == [][Reset \/ quantum' >= quantum]_vars

(* When an event is late by a slice the clock is set back, and by no more   *)
(* than the longest slice.                                                  *)
SetBackIsBounded == [][Reset \/ quantum' >= quantum - MAX_CYCLES]_vars

(* Nothing but a reset and a late event sets the clock back: it goes to the *)
(* tick of an event that was asked for in the middle of a slice with a      *)
(* delay that the slice may outlast, and that is next in the list.          *)
Late(e) == ~e.exact /\ e.time = quantum' /\ \A f \in events : e.time <= f.time

SetBackForLateEvents ==
    [][Reset \/ quantum' >= quantum \/ \E e \in events : Late(e)]_vars

=============================================================================
