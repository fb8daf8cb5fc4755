-------------------------- MODULE BankedRegisters --------------------------
(***************************************************************************)
(* What a program sees of the registers: each mode has registers of its own *)
(* and shares the others with the user's mode, and only an instruction that *)
(* names a register or an exception changes one.                            *)
(***************************************************************************)
EXTENDS ArmModes

CONSTANTS Registers,  \* The numbers of the registers.
          Values      \* What they hold.

VARIABLES file,  \* The registers of each mode.
          mode   \* The current mode.

vars == <<file, mode>>

Owner(m, r) == IF r \in Banked(m) THEN m ELSE "usr"

Init ==
    /\ mode = "svc"
    /\ \E v \in Values : file = [m \in Modes |-> [r \in Registers |-> v]]

Change(m) == mode' = m /\ UNCHANGED file

Assign(m, r, v) == file' = [file EXCEPT ![Owner(m, r)][r] = v]

(* An instruction writes a register of its own mode, or of another one that *)
(* it names.                                                                *)
Write(m, r, v) == Assign(m, r, v) /\ UNCHANGED mode

(* An exception returns by the link register of its mode.  The code writes  *)
(* the user's instead when the exception is taken in its own mode.          *)
Except(m, lr) ==
    /\ m \in ExceptionModes
    /\ Assign(IF m = mode THEN "usr" ELSE m, LR, lr)
    /\ mode' = m

Next ==
    \/ \E m \in Modes : Change(m)
    \/ \E m \in Modes, r \in Registers, v \in Values : Write(m, r, v)
    \/ \E m \in Modes, v \in Values : Except(m, v)

Spec == Init /\ [][Next]_vars
=============================================================================
