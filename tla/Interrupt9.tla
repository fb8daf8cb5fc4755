----------------------------- MODULE Interrupt9 -----------------------------
(***************************************************************************)
(* The interrupt controller of the ARM9 (arm9/interrupt9.cpp) with its     *)
(* processor.  Devices assert interrupts; the program enables and clears   *)
(* them, and executes the instructions that mask, await and end them.      *)
(***************************************************************************)
EXTENDS ArmCpu

CONSTANT Irqs  \* The interrupts of the devices.

VARIABLES
    IE, IF_,  \* The interrupts enabled, and those asserted (IF).
    arm9      \* The processor.

arm9Vars == <<IE, IF_, arm9>>

(* Neither register is initialised, and Emulator::reset resets neither: the *)
(* class has no reset().                                                    *)
Arm9Init ==
    /\ IE \in SUBSET Irqs /\ IF_ \in SUBSET Irqs
    /\ arm9 = ResetCpu

Arm9Reset ==
    /\ arm9' = ResetCpu
    /\ UNCHANGED <<IE, IF_>>

(* Every method ends by giving the processor its line. *)
SignalLine == arm9' = SetIntSignal(arm9, IE' \intersect IF_' # {})

Executes == ~arm9.halted

write_ie(value) ==
    /\ Executes
    /\ IE' = value
    /\ IF_' = IF_
    /\ SignalLine

write_if(value) ==
    /\ Executes
    /\ IF_' = IF_ \ value
    /\ IE' = IE
    /\ SignalLine

assert_irq(id) ==
    /\ IF_' = IF_ \union {id}
    /\ IE' = IE
    /\ SignalLine

-----------------------------------------------------------------------------
(* The program: its own code may mask interrupts and wait for them; the     *)
(* vector leads to a handler, which clears interrupts (write_if) and        *)
(* returns.                                                                 *)

Instruction(mode, arm) ==
    /\ Executes
    /\ arm9.mode = mode
    /\ arm9' = arm
    /\ UNCHANGED <<IE, IF_>>

DisableIrq == Instruction("thread", Cps(arm9, TRUE))
EnableIrq == Instruction("thread", Cps(arm9, FALSE))
WaitForInterrupt == Instruction("thread", Halt(arm9))
EnterHandler == Instruction("irq", [arm9 EXCEPT !.mode = "handler"])
Return == Instruction("handler", ReturnFromIrq(arm9))

(* The end of a run, which takes a pending interrupt. *)
FinishRun == Instruction(arm9.mode, EndRun(arm9))

Program == DisableIrq \/ EnableIrq \/ WaitForInterrupt \/ EnterHandler \/ Return

Arm9Next ==
    \/ \E id \in Irqs : assert_irq(id)
    \/ \E value \in SUBSET Irqs : write_ie(value) \/ write_if(value)
    \/ Program \/ FinishRun
    \/ Arm9Reset

Arm9Spec == Arm9Init /\ [][Arm9Next]_arm9Vars

-----------------------------------------------------------------------------

Arm9TypeOK ==
    /\ IE \in SUBSET Irqs /\ IF_ \in SUBSET Irqs
    /\ arm9 \in Cpu

(* The line is high only for an interrupt that is enabled and asserted,     *)
(* also after a reboot, whose first access finds old values.                *)
LineMeansInterrupt == arm9.int_pending => IE \intersect IF_ # {}

(* The ARM9 does not sleep on a high line: the edge that would wake it has  *)
(* passed.                                                                  *)
SleepsOnLowLine == arm9.halted => ~arm9.int_pending

(* No interrupt is asserted to a sleeping ARM9 without waking it. *)
AssertionWakes ==
    [][IF_' # IF_ /\ IE \intersect IF_' # {} => ~arm9'.halted]_arm9Vars
=============================================================================
