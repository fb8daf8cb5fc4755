------------------------------- MODULE Timers -------------------------------
(***************************************************************************)
(* The timers (timers.cpp): four of the ARM9 that count up and may be      *)
(* chained, and a timer and a watchdog of each ARM11 core that count down. *)
(* The emulator advances them after the processors have run a slice, by    *)
(* the cycles of the slice, while the programs read and write them within  *)
(* it.                                                                     *)
(***************************************************************************)
EXTENDS Integers

CONSTANTS
    W9,           \* The width of an ARM9 counter, 2^16,
    W11,          \* and of an ARM11 counter, 2^32.
    Timers9,      \* The ARM9 timers, 0..3,
    Timers11,     \* and the ARM11 timers, 0..7: the watchdogs are the last.
    Prescalars9,  \* The divisors programs choose,
    Prescalars11,
    Counts9,      \* and the counts they write.
    Counts11,
    Slices,       \* The cycles a slice may have.
    MaxClocks     \* Bound: clocks an ARM11 timer accumulates.

ASSUME TimersAssumption ==
    /\ W9 \in Nat \ {0} /\ W11 \in Nat \ {0}
    /\ \A i \in Timers9 : i \in Nat /\ 0..i \subseteq Timers9
    /\ Timers11 \subseteq Nat
    /\ Prescalars9 \subseteq Nat \ {0} /\ Prescalars11 \subseteq Nat \ {0}
    /\ Counts9 \subseteq 0..(W9 - 1) /\ Counts11 \subseteq 0..(W11 - 1)
    /\ Slices \subseteq Nat
    /\ MaxClocks \in Nat

VARIABLES
    arm9_timers, arm11_timers,
    fired9, fired11  \* The interrupts of the last run: the timers they are of.

vars == <<arm9_timers, arm11_timers, fired9, fired11>>

Timer9 == [counter : 0..(W9 - 1), clocks : Nat, prescalar : Nat,
           countup : BOOLEAN, overflow_irq : BOOLEAN, enabled : BOOLEAN]
Timer11 == [load : 0..(W11 - 1), counter : 0..(W11 - 1), clocks : Nat, prescalar : Nat,
            int_enabled : BOOLEAN, auto_reload : BOOLEAN, enabled : BOOLEAN,
            int_flag : BOOLEAN]

Reset9 == [counter |-> 0, clocks |-> 0, prescalar |-> 0,
           countup |-> FALSE, overflow_irq |-> FALSE, enabled |-> FALSE]
Reset11 == [load |-> 0, counter |-> 0, clocks |-> 0, prescalar |-> 0,
            int_enabled |-> FALSE, auto_reload |-> FALSE, enabled |-> FALSE,
            int_flag |-> FALSE]

Init ==
    /\ arm9_timers = [i \in Timers9 |-> Reset9]
    /\ arm11_timers = [i \in Timers11 |-> Reset11]
    /\ fired9 = {} /\ fired11 = {}

-----------------------------------------------------------------------------
(* The ARM9's timers run. *)

(* The times a timer counts for its own clock. *)
Ticks9(t, cycles) ==
    IF t.enabled /\ ~t.countup THEN (t.clocks + cycles) \div t.prescalar ELSE 0

(* Mutant of Steps9: a chained timer counts one overflow of a run. *)
Steps9_AtMostOne(timers, cycles) ==
    LET steps[i \in Timers9] ==
            IF timers[i].enabled /\ timers[i].countup /\ i # 0
            THEN IF timers[i - 1].counter + steps[i - 1] >= W9 THEN 1 ELSE 0
            ELSE Ticks9(timers[i], cycles)
    IN  steps

(* The steps of each counter: its own ticks, or the overflows of the timer  *)
(* before it if it counts these.                                            *)
Steps9(timers, cycles) ==
    LET steps[i \in Timers9] ==
            IF timers[i].enabled /\ timers[i].countup /\ i # 0
            THEN (timers[i - 1].counter + steps[i - 1]) \div W9
            ELSE Ticks9(timers[i], cycles)
    IN  steps

(* Mutant of Run9: the clocks that make no whole tick are lost. *)
Run9_DropsClocks(timers, cycles) ==
    [i \in Timers9 |->
        LET t == timers[i]
        IN  [t EXCEPT
               !.counter = (@ + Steps9(timers, cycles)[i]) % W9,
               !.clocks = IF t.enabled /\ ~t.countup THEN 0 ELSE @]]

Run9(timers, cycles) ==
    [i \in Timers9 |->
        LET t == timers[i]
        IN  [t EXCEPT
               !.counter = (@ + Steps9(timers, cycles)[i]) % W9,
               !.clocks = IF t.enabled /\ ~t.countup
                          THEN (@ + cycles) % t.prescalar ELSE @]]

(* Those that overflow (handle_overflow) and interrupt. *)
Fired9(timers, cycles) ==
    {i \in Timers9 : /\ timers[i].overflow_irq
                     /\ timers[i].counter + Steps9(timers, cycles)[i] >= W9}

-----------------------------------------------------------------------------
(* An ARM11 timer runs.  One that stops itself keeps the clocks it has not  *)
(* used, and starts with them again: more each time.                        *)

(* Mutant of Tick: the counter fires a tick after it reached 0. *)
Tick_OneLate(t) ==
    LET counter == (t.counter - 1) % W11
        ticked == [t EXCEPT !.clocks = @ - t.prescalar, !.counter = counter]
    IN  IF t.counter # 0 THEN ticked
        ELSE [ticked EXCEPT !.counter = IF t.auto_reload THEN t.load ELSE 0,
                            !.enabled = t.auto_reload,
                            !.int_flag = TRUE]

(* A tick: the counter is 0 only after a load of 0, and then wraps. *)
Tick(t) ==
    LET counter == (t.counter - 1) % W11
        ticked == [t EXCEPT !.clocks = @ - t.prescalar, !.counter = counter]
    IN  IF counter # 0 THEN ticked
        ELSE [ticked EXCEPT !.counter = IF t.auto_reload THEN t.load ELSE 0,
                            !.enabled = t.auto_reload,
                            !.int_flag = TRUE]

(* It ticks while it is enabled: what n iterations of the loop make of t. *)
TickOrStay(t) == IF t.enabled THEN Tick(t) ELSE t

Ticked(t, n) ==
    LET after[k \in Nat] == IF k = 0 THEN t ELSE TickOrStay(after[k - 1])
    IN  after[n]

(* It has as many ticks as its clocks make. *)
Run11(t, cycles) ==
    IF ~t.enabled THEN t
    ELSE LET clocks == t.clocks + cycles
         IN  Ticked([t EXCEPT !.clocks = clocks], clocks \div t.prescalar)

(* set_pending_irq: 29, or 30 for a watchdog, on the core of the timer. *)
Fires(t, cycles) == Run11([t EXCEPT !.int_flag = FALSE], cycles).int_flag

Fired11(timers, cycles) ==
    {i \in Timers11 : timers[i].int_enabled /\ Fires(timers[i], cycles)}

run(cycles11, cycles9) ==
    /\ \A i \in Timers11 : arm11_timers[i].clocks + cycles11 <= MaxClocks
    /\ arm9_timers' = Run9(arm9_timers, cycles9)
    /\ fired9' = Fired9(arm9_timers, cycles9)
    /\ arm11_timers' = [i \in Timers11 |-> Run11(arm11_timers[i], cycles11)]
    /\ fired11' = Fired11(arm11_timers, cycles11)

-----------------------------------------------------------------------------
(* The programs. *)

set_counter(i, value) ==
    /\ arm9_timers' = [arm9_timers EXCEPT ![i].counter = value, ![i].clocks = 0]
    /\ UNCHANGED <<arm11_timers, fired9, fired11>>

set_control(i, prescalar, countup, overflow_irq, enabled) ==
    /\ arm9_timers' = [arm9_timers EXCEPT ![i] =
           [counter |-> @.counter, clocks |-> 0, prescalar |-> prescalar,
            countup |-> countup, overflow_irq |-> overflow_irq, enabled |-> enabled]]
    /\ UNCHANGED <<arm11_timers, fired9, fired11>>

Set11(i, timer) ==
    /\ arm11_timers' = [arm11_timers EXCEPT ![i] = timer]
    /\ UNCHANGED <<arm9_timers, fired9, fired11>>

arm11_set_load(i, value) ==
    Set11(i, [arm11_timers[i] EXCEPT !.load = value, !.counter = value])

arm11_set_counter(i, value) == Set11(i, [arm11_timers[i] EXCEPT !.counter = value])

(* The clocks of the last divisor stay. *)
arm11_set_control(i, prescalar, int_enabled, auto_reload, enabled) ==
    Set11(i, [arm11_timers[i] EXCEPT
                 !.prescalar = prescalar, !.int_enabled = int_enabled,
                 !.auto_reload = auto_reload, !.enabled = enabled])

arm11_set_int_status(i) == Set11(i, [arm11_timers[i] EXCEPT !.int_flag = FALSE])

(* Mutant of arm11_get_counter: the cycles are not divided. *)
arm11_get_counter_Undivided(t, delta) ==
    IF t.enabled THEN (t.counter - delta) % W11 ELSE t.counter

(* What a core reads that has run delta cycles of the slice. *)
arm11_get_counter(t, delta) ==
    IF t.enabled THEN (t.counter - delta \div t.prescalar) % W11 ELSE t.counter

reset ==
    /\ arm9_timers' = [i \in Timers9 |-> Reset9]
    /\ arm11_timers' = [i \in Timers11 |-> Reset11]
    /\ fired9' = {} /\ fired11' = {}

Next ==
    \/ \E cycles11, cycles9 \in Slices : run(cycles11, cycles9)
    \/ \E i \in Timers9, value \in Counts9 : set_counter(i, value)
    \/ \E i \in Timers9, prescalar \in Prescalars9,
          countup, overflow_irq, enabled \in BOOLEAN :
           set_control(i, prescalar, countup, overflow_irq, enabled)
    \/ \E i \in Timers11, value \in Counts11 :
           arm11_set_load(i, value) \/ arm11_set_counter(i, value)
    \/ \E i \in Timers11, prescalar \in Prescalars11,
          int_enabled, auto_reload, enabled \in BOOLEAN :
           arm11_set_control(i, prescalar, int_enabled, auto_reload, enabled)
    \/ \E i \in Timers11 : arm11_set_int_status(i)
    \/ reset

Spec == Init /\ [][Next]_vars

(* The two kinds share nothing but the call that runs them, so a behaviour  *)
(* in which only one processor programs its timers shows the most there is. *)
OneSideNext ==
    /\ Next
    /\ \/ arm9_timers' = [i \in Timers9 |-> Reset9]
       \/ arm11_timers' = [i \in Timers11 |-> Reset11]

OneSideSpec == Init /\ [][OneSideNext]_vars
-----------------------------------------------------------------------------

(* The types; and a timer that runs has a divisor, so that the loops that   *)
(* take its ticks out of its clocks end, though a reset leaves 0.           *)
TypeOK ==
    /\ arm9_timers \in [Timers9 -> Timer9]
    /\ arm11_timers \in [Timers11 -> Timer11]
    /\ fired9 \in SUBSET Timers9 /\ fired11 \in SUBSET Timers11
    /\ \A i \in Timers9 : arm9_timers[i].enabled => arm9_timers[i].prescalar # 0
    /\ \A i \in Timers11 : arm11_timers[i].enabled => arm11_timers[i].prescalar # 0

(* How the emulator cuts time into slices is invisible to the programs: one *)
(* run of two slices, or a run of each, count and interrupt the same.  On   *)
(* the ARM9 this holds through the whole chain; on the ARM11 but for the    *)
(* clocks that a timer which stopped itself has left over, which depend on  *)
(* the slices.                                                              *)
SlicesAreInvisible ==
    \A a, b \in Slices :
        /\ LET after == Run9(arm9_timers, a)
           IN  /\ Run9(after, b) = Run9(arm9_timers, a + b)
               /\ Fired9(arm9_timers, a) \union Fired9(after, b)
                      = Fired9(arm9_timers, a + b)
        /\ \A i \in Timers11 :
               LET t == arm11_timers[i]
                   once == Run11(t, a + b)
                   twice == Run11(Run11(t, a), b)
               IN  /\ [twice EXCEPT !.clocks = once.clocks] = once
                   /\ once.enabled => twice = once
                   /\ Fires(t, a + b) = (Fires(t, a) \/ Fires(Run11(t, a), b))

(* A timer fires in the run in which it has ticks enough to reach 0, and a  *)
(* count of 0 is a full turn.                                               *)
FiresWhenDue ==
    \A i \in Timers11 : \A cycles \in Slices :
        LET t == arm11_timers[i]
        IN  Fires(t, cycles) <=>
                /\ t.enabled
                /\ (t.clocks + cycles) \div t.prescalar
                       >= IF t.counter = 0 THEN W11 ELSE t.counter

(* A chain of ARM9 timers counts as one wide counter. *)
Linked(i) == arm9_timers[i].enabled /\ arm9_timers[i].countup

Weight(n) ==
    LET weight[i \in Nat] == IF i = 0 THEN 1 ELSE W9 * weight[i - 1]
    IN  weight[n]

Wide(timers, n) ==
    LET wide[i \in Timers9] ==
            IF i = 0 THEN timers[0].counter
            ELSE wide[i - 1] + timers[i].counter * Weight(i)
    IN  wide[n]

ChainIsOneCounter ==
    \A cycles \in Slices, n \in Timers9 : (\A i \in 1..n : Linked(i)) =>
        Wide(Run9(arm9_timers, cycles), n)
            = (Wide(arm9_timers, n) + Ticks9(arm9_timers[0], cycles)) % Weight(n + 1)

(* What a core reads of its timer within a slice lies between the counts at *)
(* the two ends of the slice, if the timer does not fire in it: time read   *)
(* from it never goes back.                                                 *)
ReadingsGoDown ==
    \A i \in Timers11 : \A cycles \in Slices : \A delta \in 0..cycles :
        LET t == arm11_timers[i]
            reading == arm11_get_counter(t, delta)
        IN  ~Fires(t, cycles) /\ t.counter # 0 =>
                Run11(t, cycles).counter <= reading /\ reading <= t.counter
=============================================================================
