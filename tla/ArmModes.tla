------------------------------ MODULE ArmModes ------------------------------
(***************************************************************************)
(* The banked registers of an ARM core.  The code keeps the registers of    *)
(* the current mode in gpr and swaps a mode's bank in and out of it, so that *)
(* the slots of the current mode's bank hold the user's registers meanwhile. *)
(* A register file f is a record: gpr, and bank with the slots of each mode. *)
(***************************************************************************)
EXTENDS Integers

SP == 13
LR == 14
PC == 15

Modes == {"usr", "fiq", "irq", "svc", "abt", "und", "sys"}

(* The registers that update_reg_mode swaps when it leaves or enters mode.  *)
Banked(mode) ==
    IF mode \in {"usr", "sys"} THEN {}
    ELSE IF mode = "fiq" THEN 8..14 ELSE {SP, LR}

(* The modes of prefetch and data aborts, SVCs, undefined instructions and  *)
(* interrupts.                                                              *)
ExceptionModes == {"abt", "svc", "und", "irq"}

SwapBank(f, mode) ==
    [gpr  |-> [r \in DOMAIN f.gpr |->
                  IF r \in Banked(mode) THEN f.bank[mode][r] ELSE f.gpr[r]],
     bank |-> [m \in Modes |-> [r \in DOMAIN f.bank[m] |->
                  IF m = mode /\ r \in Banked(mode) THEN f.gpr[r] ELSE f.bank[m][r]]]]

(* Mutant: the bank of FIQ is taken for one of the other modes'.            *)
update_reg_mode_ShortFiq(f, old, new) ==
    LET short(m) == IF m = "fiq" THEN "irq" ELSE m IN
    IF new = old THEN f ELSE SwapBank(SwapBank(f, short(old)), new)

update_reg_mode(f, old, new) ==
    IF new = old THEN f ELSE SwapBank(SwapBank(f, old), new)

SetRegister(f, r, v) == [f EXCEPT !.gpr[r] = v]

(* data_abort, prefetch_abort, swi, und and int_check write the slot of the *)
(* link register before they change the mode, and then swap it in; in the   *)
(* exception's own mode, nothing is swapped.                                *)
EnterException(f, old, new, lr) ==
    update_reg_mode([f EXCEPT !.bank[new][LR] = lr], old, new)
=============================================================================
