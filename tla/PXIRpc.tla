------------------------------- MODULE PXIRpc -------------------------------
(***************************************************************************)
(* Requests and their answers through PXI and Interrupt9: a program on the *)
(* ARM11 sends requests, a server on the ARM9 answers each with a word,    *)
(* and both sleep while they have nothing to do.  Neither program is part  *)
(* of the emulator: they use its registers as the 3DS's do, and what is    *)
(* checked is that the emulator's interrupts suffice for them.  They start *)
(* after a boot or a reboot, with whatever it left in the registers.       *)
(***************************************************************************)
EXTENDS PXI

VARIABLES
    IE,        \* The ARM9's interrupts that are enabled.
    arm9,      \* The ARM9.
    pc9, pc11  \* Where the programs are.

rpc_vars == <<vars, IE, arm9, pc9, pc11>>

I9 == INSTANCE Interrupt9 WITH Irqs <- Irqs9, IF_ <- asserted9

Places9 == {"boot", "accept", "enable", "look", "sleep", "woken", "read", "answer",
            "told"}
Places11 == {"boot", "idle", "sent", "full", "read"}

RInit ==
    /\ Init
    /\ I9!Arm9Init
    /\ pc9 = "boot" /\ pc11 = "boot"

(* An action of PXI gives the ARM9 its line if it asserts something to it,  *)
(* which may be something that was asserted before.                         *)
Signals ==
    /\ IE' = IE
    /\ I9!SignalLine \/ UNCHANGED <<asserted9, arm9>>

Goto9(from, to) == pc9 = from /\ pc9' = to /\ pc11' = pc11
Goto11(from, to) == pc11 = from /\ pc11' = to /\ pc9' = pc9

(* The registers of PXI that write_ie and the processor leave alone. *)
Elsewhere == UNCHANGED <<fifos, cnt9, cnt11, local_irq9, local_irq11,
                         sending_hle_cmd, pending11>>

-----------------------------------------------------------------------------
(* The server.  It runs with interrupts masked and uses them to wake up:    *)
(* it sleeps after finding nothing to read, clears the interrupts that woke *)
(* it, and then looks again.                                                *)

Boot9 ==
    /\ Goto9("boot", "accept")
    /\ I9!write_ie({RECV9, SYNC9}) /\ Elsewhere

Accept9 ==
    /\ Goto9("accept", "enable")
    /\ write_sync9(TRUE, FALSE) /\ Signals

(* It clears its send FIFO and enables one of its interrupts. *)
Enable9 ==
    /\ Goto9("enable", "look")
    /\ write_cnt9([send_empty_irq |-> FALSE, recv_not_empty_irq |-> TRUE], TRUE)
    /\ Signals

Look9 ==
    /\ ~arm9.halted
    /\ Goto9("look", IF recv9 = <<>> THEN "sleep" ELSE "read")
    /\ UNCHANGED <<vars, IE, arm9>>

Sleep9 ==
    /\ Goto9("sleep", "woken")
    /\ I9!WaitForInterrupt /\ Elsewhere

Woken9 ==
    /\ Goto9("woken", "look")
    /\ I9!write_if({RECV9, SYNC9}) /\ Elsewhere

Read9 ==
    /\ Goto9("read", "answer")
    /\ read_msg9 /\ Signals

SeeRoom9 ==
    /\ pc9 = "answer" /\ ~room11
    /\ read_cnt9
    /\ UNCHANGED <<IE, arm9, pc9, pc11>>

Answer9 ==
    /\ Goto9("answer", "told")
    /\ Send11 /\ Signals

Trigger9 ==
    /\ Goto9("told", "look")
    /\ write_sync9(TRUE, TRUE) /\ Signals

Server ==
    \/ Boot9 \/ Accept9 \/ Enable9
    \/ Look9 \/ Sleep9 \/ Woken9
    \/ Read9 \/ SeeRoom9 \/ Answer9 \/ Trigger9

-----------------------------------------------------------------------------
(* The client.  It may send while answers are outstanding; when it finds    *)
(* its FIFO full it waits to be told that it is empty, or of an answer.     *)

Enable11 ==
    /\ Goto11("boot", "idle")
    /\ write_cnt11([send_empty_irq |-> TRUE, recv_not_empty_irq |-> TRUE], TRUE)
    /\ Signals

SeeRoom11 ==
    /\ Goto11("idle", IF Len(recv9) = Depth THEN "full" ELSE "idle")
    /\ ~room9
    /\ read_cnt11
    /\ UNCHANGED <<IE, arm9>>

Request11 ==
    /\ Goto11("idle", "sent")
    /\ Send9 /\ Signals

(* It announces its command, for which the emulator logs it. *)
Trigger11 ==
    /\ Goto11("sent", "idle")
    /\ \E trigger \in BOOLEAN : write_sync11(TRUE, trigger)
    /\ Signals

HasRoom11 ==
    /\ Goto11("full", "idle")
    /\ Acknowledge11(SEND_EMPTY11)
    /\ UNCHANGED <<IE, arm9>>

Woken11 ==
    /\ Goto11("idle", "read") \/ Goto11("full", "read")
    /\ Acknowledge11(RECV11)
    /\ UNCHANGED <<IE, arm9>>

(* The other's SYNC, which means nothing to it. *)
Told11 ==
    /\ Goto11("idle", "idle")
    /\ Acknowledge11(SYNC11)
    /\ UNCHANGED <<IE, arm9>>

Read11 ==
    /\ Goto11("read", "read")
    /\ read_msg11 /\ Signals

Empty11 ==
    /\ recv11 = <<>>
    /\ Goto11("read", "idle")
    /\ UNCHANGED <<vars, IE, arm9>>

(* Nothing is left to do. *)
Done ==
    /\ sent9 = MaxWords /\ last_recv11 = MaxWords
    /\ UNCHANGED rpc_vars

Receive11 == HasRoom11 \/ Woken11 \/ Read11 \/ Empty11

RNext ==
    \/ Server
    \/ Enable11 \/ SeeRoom11 \/ Request11 \/ Trigger11 \/ Told11 \/ Receive11
    \/ Done

(* Both processors run in every slice; the client sends when it likes. *)
RSpec ==
    /\ RInit /\ [][RNext]_rpc_vars
    /\ WF_rpc_vars(Server)
    /\ WF_rpc_vars(Receive11) /\ WF_rpc_vars(Trigger11)

-----------------------------------------------------------------------------

(* The types; the ARM9's registers are those of Interrupt9. *)
RTypeOK ==
    /\ TypeOK
    /\ I9!Arm9TypeOK
    /\ pc9 \in Places9 /\ pc11 \in Places11

(* Nobody waits for what has happened already.  The server does not sleep   *)
(* on a request, although it may arrive between its look at the FIFO and    *)
(* its WFI: the line is then high, and halt() returns.  The client does not *)
(* wait for an answer it will not be told of, nor for room that it has.     *)
NobodyWaitsInVain ==
    /\ arm9.halted => recv9 = <<>>
    /\ pc11 \in {"idle", "full"} /\ recv11 # <<>> => RECV11 \in pending11
    /\ pc11 = "full" /\ recv9 = <<>> => SEND_EMPTY11 \in pending11

(* Every request is answered, whoever sleeps and whenever it is sent. *)
EveryRequestIsAnswered ==
    \A n \in 1..MaxWords : sent9 = n ~> last_recv11 >= n
=============================================================================
