------------------------------- MODULE ArmCpu -------------------------------
(***************************************************************************)
(* What interrupts and events do to an ARM processor (cpu/arm.cpp): the    *)
(* interrupt line, the exception it causes, and the instructions that halt *)
(* and wake a core.  A processor is a record; each operator is a method of *)
(* ARM_CPU and yields the processor after the call.                        *)
(***************************************************************************)

(* mode is where the program is: in its own code, at the first instruction  *)
(* of the IRQ vector, or in a handler that acknowledged the interrupt.      *)
Modes == {"thread", "irq", "handler"}

Cpu == [halted : BOOLEAN,             \* run() returns at once
        waiting_for_event : BOOLEAN,  \* halted by WFE
        event_pending : BOOLEAN,      \* an event came before the WFE
        int_pending : BOOLEAN,        \* the interrupt line
        irq_disable : BOOLEAN,        \* CPSR.I
        mode : Modes]

(* ARM_CPU::reset. *)
ResetCpu == [halted |-> FALSE, waiting_for_event |-> FALSE,
             event_pending |-> FALSE, int_pending |-> FALSE,
             irq_disable |-> TRUE, mode |-> "thread"]

(* int_check: the exception is taken unless interrupts are disabled.  It    *)
(* does not look at halted.                                                 *)
IntCheck(cpu) ==
    IF cpu.irq_disable THEN cpu
    ELSE [cpu EXCEPT !.irq_disable = TRUE, !.mode = "irq"]

(* set_int_signal: a rising edge wakes the core and takes the exception at  *)
(* once, also in the middle of an instruction of this or another core.      *)
SetIntSignal(cpu, pending) ==
    LET woken == IF ~cpu.int_pending /\ pending
                 THEN IntCheck([cpu EXCEPT !.halted = FALSE]) ELSE cpu
    IN  [woken EXCEPT !.int_pending = pending]

(* Mutant of Halt: the line is not looked at. *)
Halt_Always(cpu) == [cpu EXCEPT !.halted = TRUE]

(* halt, the WFI of CP15: a core does not halt on a pending interrupt. *)
Halt(cpu) == IF cpu.int_pending THEN cpu ELSE [cpu EXCEPT !.halted = TRUE]

(* Mutant of Wfe: an event that came before is not looked at. *)
Wfe_ForgetsEvent(cpu) == [cpu EXCEPT !.waiting_for_event = TRUE, !.halted = TRUE]

(* wfe does not look at int_pending. *)
Wfe(cpu) ==
    IF cpu.event_pending THEN [cpu EXCEPT !.event_pending = FALSE]
    ELSE [cpu EXCEPT !.waiting_for_event = TRUE, !.halted = TRUE]

(* send_event, of a core other than the one that executes SEV. *)
SendEvent(cpu) ==
    IF cpu.waiting_for_event
    THEN [cpu EXCEPT !.halted = FALSE, !.waiting_for_event = FALSE]
    ELSE [cpu EXCEPT !.event_pending = TRUE]

(* Mutant of EndRun: an interrupt that was masked as its line rose is lost. *)
EndRun_NoCheck(cpu) == cpu

(* The end of run(): a pending interrupt is taken if it now can be. *)
EndRun(cpu) == IF cpu.int_pending THEN IntCheck(cpu) ELSE cpu

(* The instructions of the program and of its handler. *)
Cps(cpu, disable) == [cpu EXCEPT !.irq_disable = disable]
ReturnFromIrq(cpu) == [cpu EXCEPT !.irq_disable = FALSE, !.mode = "thread"]
=============================================================================
