----------------------------- MODULE MPCorePMR -----------------------------
(***************************************************************************)
(* The interrupt controller of the ARM11 cores (arm11/mpcore_pmr.cpp) with *)
(* the cores it interrupts.  A device asserts an interrupt, which becomes  *)
(* pending on the cores it targets; a core is signalled the pending and    *)
(* enabled interrupt of highest priority, acknowledges it by a read, and   *)
(* ends it by a write.  Every operation that changes what is pending       *)
(* evaluates the line of the cores again (check_if_can_assert_irq).        *)
(*                                                                         *)
(* The cores run an operating system that is free to use any register at   *)
(* any time, but follows the protocol of the controller: its IRQ vector    *)
(* acknowledges, the handler ends the interrupt and returns.               *)
(***************************************************************************)
EXTENDS Integers, ArmCpu

CONSTANTS
    Cores,            \* core_count cores, as 0..(core_count - 1).
    Ids,              \* The interrupts that are used.
    Priorities,       \* Priorities the program writes,
    PriorityMasks,    \* priority masks,
    PreemptionMasks,  \* preemption masks (binary points),
    TargetLists,      \* and target lists of hardware interrupts.
    UsesWfe,          \* Does the program wait for events?
    MaxSends          \* Bound: interrupts asserted between two resets.

(* Software interrupts, those each core has for itself, and the others. *)
Swis == {i \in Ids : i < 16}
Privates == {i \in Ids : i < 32}
Globals == Ids \ Privates

ASSUME PmrAssumption ==
    /\ Cores \subseteq Nat /\ 0 \in Cores
    /\ Ids \subseteq 0..127
    /\ Priorities \subseteq 0..15
    /\ PriorityMasks \subseteq 0..15
    /\ PreemptionMasks \subseteq 0..7
    /\ TargetLists \subseteq SUBSET Cores
    /\ UsesWfe \in BOOLEAN
    /\ MaxSends \in Nat

VARIABLES
    cpu,      \* The cores.
    running,  \* The core whose run() is executing, or Nobody.
    tables,   \* What is pending, enabled and of which priority, see Tables.
    targets,  \* global_int_targets: the cores a hardware interrupt goes to.
    local,    \* local_irq_ctrl of each core.
    dead,     \* A FatalError was thrown.
    sends     \* How many interrupts were asserted since the reset.

vars == <<cpu, running, tables, targets, local, dead, sends>>

Nobody == -1

(* private_int_pending and private_int_requestor (who sent a software       *)
(* interrupt last) of each core, global_int_mask, and the two arrays of     *)
(* priorities.                                                              *)
Tables == [pending : [Cores -> SUBSET Ids],
           requestor : [Cores -> [Swis -> Cores]],
           enabled : SUBSET Ids,
           private_priority : [Cores -> [Privates -> 0..15]],
           global_priority : [Globals -> 0..15]]

(* An interrupt with the core that requested it; SPURIOUS_INT is 0x3FF. *)
SPURIOUS_INT == 1023
Spurious == [id |-> SPURIOUS_INT, from |-> 0]
Cause == [id : Ids, from : Nat] \union {Spurious}

Local == [irq_cause : Cause, cur_active_irq : Cause,
          highest_priority_pending : Cause,
          preemption_mask : 3..7, priority_mask : 0..15]

ResetLocal == [irq_cause |-> Spurious, cur_active_irq |-> Spurious,
               highest_priority_pending |-> Spurious,
               preemption_mask |-> 3, priority_mask |-> 15]

(* The arrays that reset() leaves alone hold any value when the emulator is *)
(* constructed, and later whatever the last program left in them.           *)
Init ==
    /\ cpu = [c \in Cores |-> ResetCpu]
    /\ running = Nobody
    /\ tables \in [pending : {[c \in Cores |-> {}]},
                   requestor : [Cores -> [Swis -> {0}]],
                   enabled : {Swis \union on : on \in SUBSET Globals},
                   private_priority : [Cores -> [Privates -> {0}]],
                   global_priority : [Globals -> Priorities]]
    /\ targets \in [Globals -> TargetLists]
    /\ local = [c \in Cores |-> ResetLocal]
    /\ dead = FALSE
    /\ sends = 0

-----------------------------------------------------------------------------
(* Evaluating the line of a core, in tables t and with local state loc.     *)

(* get_int_priority. *)
Priority(t, core, i) ==
    IF i \in Privates THEN t.private_priority[core][i] ELSE t.global_priority[i]

(* find_highest_priority_pending: of the pending and enabled interrupts the *)
(* one of least priority number, and of these the one of least id.          *)
Candidates(t, core) == t.pending[core] \intersect t.enabled

Before(t, core, i, j) ==
    \/ Priority(t, core, i) < Priority(t, core, j)
    \/ Priority(t, core, i) = Priority(t, core, j) /\ i <= j

Highest(t, core) ==
    IF Candidates(t, core) = {} THEN Spurious
    ELSE LET i == CHOOSE i \in Candidates(t, core) :
                      \A j \in Candidates(t, core) : Before(t, core, i, j)
         IN  [id |-> i, from |-> IF i \in Swis THEN t.requestor[core][i] ELSE 0]

(* The priority bits that count for preemption. *)
PreemptionPriority(priority, preemption_mask) ==
    LET unit == CASE preemption_mask = 4 -> 2
                  [] preemption_mask = 5 -> 4
                  [] preemption_mask = 6 -> 8
                  [] OTHER -> 1
    IN  (priority \div unit) * unit

(* The conditions of check_if_can_assert_irq: an interrupt of sufficient    *)
(* priority is pending; no interrupt is active; one is, and would be        *)
(* preempted, which is not implemented (7 allows no preemption).            *)
Sufficient(t, core, loc) ==
    /\ Candidates(t, core) # {}
    /\ Priority(t, core, Highest(t, core).id) < loc.priority_mask

NoneActive(loc) == loc.cur_active_irq.id = SPURIOUS_INT

(* Mutant of Asserts: an active interrupt does not hold back others. *)
Asserts_WhileActive(t, core, loc) == Sufficient(t, core, loc)

Asserts(t, core, loc) == Sufficient(t, core, loc) /\ NoneActive(loc)

Preempts(t, core, loc) ==
    LET active == Priority(t, core, loc.cur_active_irq.id)
        highest == Priority(t, core, Highest(t, core).id)
        seen(priority) == PreemptionPriority(priority, loc.preemption_mask)
    IN  /\ Sufficient(t, core, loc)
        /\ ~NoneActive(loc)
        /\ loc.preemption_mask # 7
        /\ seen(highest) < seen(active)

(* Mutant of CheckedLocal: when nothing is to be signalled the cause goes. *)
CheckedLocal_DropsCause(t, core, loc) ==
    [loc EXCEPT !.highest_priority_pending = Highest(t, core),
                !.irq_cause = IF Asserts(t, core, loc) THEN Highest(t, core)
                              ELSE Spurious]

(* The local state and the processor after check_if_can_assert_irq: the     *)
(* line drops, and rises again if an interrupt is to be signalled.          *)
CheckedLocal(t, core, loc) ==
    [loc EXCEPT !.highest_priority_pending = Highest(t, core),
                !.irq_cause = IF Asserts(t, core, loc) THEN Highest(t, core) ELSE @]

CheckedCpu(t, core, loc, proc) ==
    SetIntSignal(SetIntSignal(proc, FALSE), Asserts(t, core, loc))

(* An operation leaves the tables t and the local states l, and evaluates   *)
(* the lines of some cores.                                                 *)
Check(cores, t, l) ==
    /\ tables' = t
    /\ local' = [c \in Cores |->
           IF c \in cores THEN CheckedLocal(t, c, l[c]) ELSE l[c]]
    /\ cpu' = [c \in Cores |->
           IF c \in cores THEN CheckedCpu(t, c, l[c], cpu[c]) ELSE cpu[c]]
    /\ dead' = \E c \in cores : Preempts(t, c, l[c])

-----------------------------------------------------------------------------
(* Interrupts become pending. *)

AddPending(cores, i) ==
    [c \in Cores |-> IF c \in cores THEN tables.pending[c] \union {i}
                     ELSE tables.pending[c]]

(* assert_hw_irq, by a device between or during the runs of the cores. *)
AssertHwIrq(i) ==
    /\ ~dead /\ sends < MaxSends
    /\ sends' = sends + 1
    /\ Check(targets[i], [tables EXCEPT !.pending = AddPending(targets[i], i)], local)
    /\ UNCHANGED <<running, targets>>

(* set_pending_irq by the private timer or watchdog of a core. *)
AssertPrivateIrq(c, i) ==
    /\ ~dead /\ sends < MaxSends
    /\ sends' = sends + 1
    /\ Check({c}, [tables EXCEPT !.pending = AddPending({c}, i)], local)
    /\ UNCHANGED <<running, targets>>

(* The core executes an instruction; of its program or of its handler. *)
Executes(c) == ~dead /\ running = c /\ ~cpu[c].halted
InProgram(c) == Executes(c) /\ cpu[c].mode \in {"thread", "handler"}

(* 17E01F00: a core sends a software interrupt to a list of cores, or to    *)
(* all others.  A core remembers the last sender only.                      *)
SendSwi(c, i, cores) ==
    /\ InProgram(c) /\ sends < MaxSends
    /\ sends' = sends + 1
    /\ Check(cores,
             [tables EXCEPT !.pending = AddPending(cores, i),
                            !.requestor = [d \in Cores |->
                  IF d \in cores THEN [@[d] EXCEPT ![i] = c] ELSE @[d]]],
             local)
    /\ UNCHANGED <<running, targets>>

-----------------------------------------------------------------------------
(* The registers of the controller. *)

(* A read of 17E0010C acknowledges the last cause, even if it was cleared   *)
(* or disabled since the line rose.  Without a cause the code clears a bit  *)
(* out of the array's bounds; see AcknowledgeHasCause.                      *)
Acknowledge(c) ==
    LET cause == local[c].irq_cause
    IN  /\ Executes(c)
        /\ cpu[c].mode = "irq"
        /\ tables' = [tables EXCEPT !.pending[c] = @ \ {cause.id}]
        /\ LET acknowledged == [local EXCEPT ![c].irq_cause = Spurious,
                                             ![c].cur_active_irq = cause]
           IN  /\ local' = [acknowledged EXCEPT ![c] = CheckedLocal(tables', c, @)]
               /\ cpu' = [cpu EXCEPT ![c] = [CheckedCpu(tables', c, acknowledged[c], @)
                                             EXCEPT !.mode = "handler"]]
               /\ dead' = Preempts(tables', c, acknowledged[c])
        /\ UNCHANGED <<running, targets, sends>>

(* 17E00110: the handler ends the active interrupt. *)
EndInterrupt(c) ==
    /\ Executes(c)
    /\ cpu[c].mode = "handler"
    /\ ~NoneActive(local[c])
    /\ Check({c}, tables, [local EXCEPT ![c].cur_active_irq = Spurious])
    /\ UNCHANGED <<running, targets, sends>>

(* 17E01100: enable; 17E01180: disable, but for the software interrupts. *)
SetMask(c, i) ==
    /\ InProgram(c)
    /\ Check(Cores, [tables EXCEPT !.enabled = @ \union {i}], local)
    /\ UNCHANGED <<running, targets, sends>>

(* Mutant of ClearMask: only the line of the writing core is evaluated. *)
ClearMask_OwnLine(c, i) ==
    /\ InProgram(c)
    /\ Check({c}, [tables EXCEPT !.enabled = (@ \ {i}) \union Swis], local)
    /\ UNCHANGED <<running, targets, sends>>

ClearMask(c, i) ==
    /\ InProgram(c)
    /\ Check(Cores, [tables EXCEPT !.enabled = (@ \ {i}) \union Swis], local)
    /\ UNCHANGED <<running, targets, sends>>

(* 17E01280: a private interrupt is cleared on this core, others on all. *)
ClearPending(c, i) ==
    /\ InProgram(c)
    /\ LET cleared == IF i \in Privates THEN {c} ELSE Cores
       IN  Check(Cores,
                 [tables EXCEPT !.pending = [d \in Cores |->
                      IF d \in cleared THEN @[d] \ {i} ELSE @[d]]],
                 local)
    /\ UNCHANGED <<running, targets, sends>>

(* Mutant of WritePriority: no line is evaluated. *)
WritePriority_NoCheck(c, i, p) ==
    /\ InProgram(c)
    /\ tables' = IF i \in Privates
                  THEN [tables EXCEPT !.private_priority[c][i] = p]
                  ELSE [tables EXCEPT !.global_priority[i] = p]
    /\ UNCHANGED <<cpu, local, dead, running, targets, sends>>

(* 17E01400. *)
WritePriority(c, i, p) ==
    /\ InProgram(c)
    /\ Check(Cores,
             IF i \in Privates
             THEN [tables EXCEPT !.private_priority[c][i] = p]
             ELSE [tables EXCEPT !.global_priority[i] = p],
             local)
    /\ UNCHANGED <<running, targets, sends>>

(* 17E01820, 17E00104 and 17E00108: the lines are not evaluated again. *)
WriteTargets(c, i, cores) ==
    /\ InProgram(c)
    /\ targets' = [targets EXCEPT ![i] = cores]
    /\ UNCHANGED <<cpu, running, tables, local, dead, sends>>

WritePriorityMask(c, m) ==
    /\ InProgram(c)
    /\ local' = [local EXCEPT ![c].priority_mask = m]
    /\ UNCHANGED <<cpu, running, tables, targets, dead, sends>>

WritePreemptionMask(c, m) ==
    /\ InProgram(c)
    /\ local' = [local EXCEPT ![c].preemption_mask = IF m < 3 THEN 3 ELSE m]
    /\ UNCHANGED <<cpu, running, tables, targets, dead, sends>>

-----------------------------------------------------------------------------
(* The cores: ARM_CPU::run and the instructions about interrupts. *)

SetCpu(c, proc) ==
    /\ cpu' = [cpu EXCEPT ![c] = proc]
    /\ UNCHANGED <<tables, targets, local, dead, sends>>

BeginRun(c) ==
    /\ ~dead /\ running = Nobody
    /\ ~cpu[c].halted
    /\ running' = c
    /\ UNCHANGED <<cpu, tables, targets, local, dead, sends>>

FinishRun(c) ==
    /\ ~dead /\ running = c
    /\ SetCpu(c, EndRun(cpu[c]))
    /\ running' = Nobody

DisableIrq(c) ==
    /\ Executes(c) /\ cpu[c].mode = "thread"
    /\ SetCpu(c, Cps(cpu[c], TRUE))
    /\ UNCHANGED running

EnableIrq(c) ==
    /\ Executes(c) /\ cpu[c].mode = "thread"
    /\ SetCpu(c, Cps(cpu[c], FALSE))
    /\ UNCHANGED running

WaitForInterrupt(c) ==
    /\ Executes(c) /\ cpu[c].mode = "thread"
    /\ SetCpu(c, Halt(cpu[c]))
    /\ UNCHANGED running

WaitForEvent(c) ==
    /\ UsesWfe
    /\ Executes(c) /\ cpu[c].mode = "thread"
    /\ SetCpu(c, Wfe(cpu[c]))
    /\ UNCHANGED running

(* SEV: Emulator::arm11_send_events calls send_event of every core. *)
SendEvents(c) ==
    /\ UsesWfe
    /\ InProgram(c)
    /\ cpu' = [d \in Cores |-> IF d = c THEN cpu[d] ELSE SendEvent(cpu[d])]
    /\ UNCHANGED <<running, tables, targets, local, dead, sends>>

Return(c) ==
    /\ Executes(c)
    /\ cpu[c].mode = "handler" /\ NoneActive(local[c])
    /\ SetCpu(c, ReturnFromIrq(cpu[c]))
    /\ UNCHANGED running

(* Emulator::reset, after an error or a reboot: what was enabled, hardware  *)
(* priorities, targets and requestors stay.                                 *)
Reset ==
    /\ cpu' = [c \in Cores |-> ResetCpu]
    /\ running' = Nobody
    /\ tables' = [tables EXCEPT
           !.pending = [c \in Cores |-> {}],
           !.enabled = Swis \union (@ \intersect Globals),
           !.private_priority = [c \in Cores |-> [i \in Privates |-> 0]]]
    /\ local' = [c \in Cores |-> ResetLocal]
    /\ dead' = FALSE
    /\ sends' = 0
    /\ UNCHANGED targets

-----------------------------------------------------------------------------

Devices ==
    \/ \E i \in Globals : AssertHwIrq(i)
    \/ \E c \in Cores, i \in Privates \ Swis : AssertPrivateIrq(c, i)

Registers(c) ==
    \/ \E i \in Swis, cores \in SUBSET Cores : SendSwi(c, i, cores)
    \/ \E i \in Ids : SetMask(c, i) \/ ClearMask(c, i) \/ ClearPending(c, i)
    \/ \E i \in Ids, p \in Priorities : WritePriority(c, i, p)
    \/ \E i \in Globals, cores \in TargetLists : WriteTargets(c, i, cores)
    \/ \E m \in PriorityMasks : WritePriorityMask(c, m)
    \/ \E m \in PreemptionMasks : WritePreemptionMask(c, m)

Instructions(c) ==
    \/ DisableIrq(c) \/ EnableIrq(c)
    \/ WaitForInterrupt(c) \/ WaitForEvent(c) \/ SendEvents(c)

Vector(c) == Acknowledge(c) \/ EndInterrupt(c) \/ Return(c)

Next ==
    \/ Devices
    \/ \E c \in Cores : Registers(c) \/ Instructions(c) \/ Vector(c)
    \/ \E c \in Cores : BeginRun(c) \/ FinishRun(c)
    \/ Reset

(* The emulator thread runs every core that is not halted again and again,  *)
(* and each run ends.  Of the program it is assumed that in its runs it     *)
(* executes its vector, enables interrupts again, and does not disable them *)
(* whenever a run is about to end.                                          *)
Fairness ==
    \A c \in Cores :
        /\ SF_vars(BeginRun(c))
        /\ WF_vars(FinishRun(c))
        /\ SF_vars(Vector(c))
        /\ SF_vars(EnableIrq(c))
        /\ SF_vars(FinishRun(c) /\ ~cpu[c].irq_disable)

Spec == Init /\ [][Next]_vars /\ Fairness

-----------------------------------------------------------------------------

TypeOK ==
    /\ cpu \in [Cores -> Cpu]
    /\ running \in Cores \union {Nobody}
    /\ tables \in Tables
    /\ targets \in [Globals -> SUBSET Cores]
    /\ local \in [Cores -> Local]
    /\ dead \in BOOLEAN
    /\ sends \in 0..MaxSends

(* When a core's line is high, the cause it will read is the pending and    *)
(* enabled interrupt that comes first: whatever was cleared, disabled or    *)
(* given another priority since, by this core or another, has been followed *)
(* by an evaluation of the line.                                            *)
SignalledIsHighest ==
    \A c \in Cores : cpu[c].int_pending /\ ~dead =>
        /\ Candidates(tables, c) # {}
        /\ local[c].irq_cause = Highest(tables, c)

(* A core in its IRQ vector reads a cause, also when the interrupt that     *)
(* brought it there was taken back: the read never clears a bit out of      *)
(* bounds, and never makes "no interrupt" the active one.                   *)
AcknowledgeHasCause ==
    \A c \in Cores : cpu[c].mode = "irq" => local[c].irq_cause # Spurious

(* While an interrupt is active, its core is in the handler and no other is *)
(* signalled: interrupts do not nest.                                       *)
NoNesting ==
    \A c \in Cores : ~NoneActive(local[c]) /\ ~dead =>
        cpu[c].mode = "handler" /\ ~cpu[c].int_pending /\ cpu[c].irq_disable

(* A halted core has no pending interrupt, so that the edge of the next one *)
(* will wake it, and has not taken one whose vector it should execute:      *)
(* halt() tests the line, and set_int_signal wakes the core before the      *)
(* exception.  (WFE does not test the line.)                                *)
HaltedHasNoInterrupt ==
    \A c \in Cores : cpu[c].halted => ~cpu[c].int_pending /\ cpu[c].mode # "irq"

(* An interrupt that is pending and enabled is acknowledged, cleared or     *)
(* disabled, whatever the cores do around it, unless a preemption stopped   *)
(* the emulator.                                                            *)
EveryInterruptIsServed ==
    \A c \in Cores, i \in Ids :
        i \in Candidates(tables, c) ~> (i \notin Candidates(tables, c) \/ dead)
=============================================================================
