------------------------------ MODULE ArmBanks ------------------------------
(***************************************************************************)
(* The instructions and exceptions of an ARM core as far as they change     *)
(* modes and write registers, and what they implement: separate registers   *)
(* for each mode.                                                           *)
(***************************************************************************)
EXTENDS ArmModes

CONSTANTS Registers,  \* The numbers of the registers.
          Values      \* What they hold.

ASSUME RegistersAssumption == Registers \subseteq 0..14 /\ LR \in Registers

VARIABLES regs,  \* gpr and the banks.
          mode   \* CPSR.mode.

vars == <<regs, mode>>

Files == [gpr : [Registers -> Values], bank : [Modes -> [Registers -> Values]]]

Init ==
    /\ mode = "svc"
    /\ \E v \in Values :
          regs = [gpr  |-> [r \in Registers |-> v],
                  bank |-> [m \in Modes |-> [r \in Registers |-> v]]]

(* msr, cps, rfe, spsr_to_cpsr, and the moves and subtractions into the PC  *)
(* that restore the CPSR.                                                   *)
ChangeMode(m) ==
    /\ regs' = update_reg_mode(regs, mode, m)
    /\ mode' = m

(* Any instruction that writes a register of its own mode.                  *)
WriteRegister(r, v) ==
    /\ regs' = SetRegister(regs, r, v)
    /\ UNCHANGED mode

(* srs, which writes the stack pointer of another mode, and the transfers   *)
(* of the user's registers by LDM and STM: the mode is changed and changed  *)
(* back.                                                                    *)
WriteOther(m, r, v) ==
    /\ regs' = update_reg_mode(SetRegister(update_reg_mode(regs, mode, m), r, v), m, mode)
    /\ UNCHANGED mode

(* An exception, which may be taken in its own mode. *)
TakeException(m, lr) ==
    /\ m \in ExceptionModes
    /\ regs' = EnterException(regs, mode, m, lr)
    /\ mode' = m

Next ==
    \/ \E m \in Modes : ChangeMode(m)
    \/ \E r \in Registers, v \in Values : WriteRegister(r, v)
    \/ \E m \in Modes, r \in Registers, v \in Values : WriteOther(m, r, v)
    \/ \E m \in Modes, v \in Values : TakeException(m, v)

Spec == Init /\ [][Next]_vars

-----------------------------------------------------------------------------

TypeOK == regs \in Files /\ mode \in Modes

(* Where the registers of a mode are: those of the current mode in gpr, and *)
(* the user's, where the current mode has its own, in the slots of its bank.*)
FileOf(f, current) ==
    [m \in Modes |-> [r \in Registers |->
        IF r \in Banked(current)
        THEN IF m = "usr" THEN f.bank[current][r]
             ELSE IF m = current THEN f.gpr[r] ELSE f.bank[m][r]
        ELSE IF m = "usr" THEN f.gpr[r] ELSE f.bank[m][r]]]

Seen == INSTANCE BankedRegisters WITH file <- FileOf(regs, mode)

(* Whatever the order of exceptions, returns, changes of mode and transfers *)
(* of another mode's registers, no mode loses or sees another's registers   *)
(* (arm.cpp: update_reg_mode), but for an exception in its own mode: it     *)
(* leaves that mode's link register and writes the user's.                  *)
BanksArePrivate == Seen!Spec
=============================================================================
