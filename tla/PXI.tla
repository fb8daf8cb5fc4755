-------------------------------- MODULE PXI --------------------------------
(***************************************************************************)
(* The interface between the ARM9 and the ARM11 (pxi.cpp): a FIFO of words *)
(* each way with interrupts when it stops being empty (to the receiver) or *)
(* becomes empty (to the sender), and a register by which either raises an *)
(* interrupt of the other.  What is asserted to each side is a set here:   *)
(* the IF register of Interrupt9, and what MPCorePMR keeps as pending.     *)
(*                                                                         *)
(* Both programs use the registers as they like; they send a word only     *)
(* after reading that the FIFO is not full, however long ago: the code      *)
(* takes any number of words.  The words are told apart by numbering them.  *)
(* The data byte of the SYNC registers, and the bits enable and error of    *)
(* the CNT registers, which nothing reads, are left out.                    *)
(***************************************************************************)
EXTENDS Integers, Sequences

CONSTANTS
    Depth,    \* The size at which a FIFO is full (16).
    Cnts,     \* What the programs write to the CNT registers,
    Accepts,  \* and to the bit of SYNC that accepts interrupts.
    MaxWords  \* Bound: words sent each way.

VARIABLES
    recv9, recv11,            \* The FIFOs, named for who reads them.
    last_recv9, last_recv11,  \* The words last read.
    cnt9, cnt11,              \* The interrupts each side has enabled,
    local_irq9, local_irq11,  \* and whether it accepts those of the other.
    sending_hle_cmd,          \* The next command to the ARM9 is logged.
    asserted9, pending11,     \* The interrupts asserted to each.
    sent9, sent11,            \* The number of the last word sent to each.
    room9, room11             \* Has its sender seen room in the FIFO?

fifos == <<recv9, recv11, last_recv9, last_recv11, sent9, sent11, room9, room11>>
vars == <<fifos, cnt9, cnt11, local_irq9, local_irq11, sending_hle_cmd, asserted9, pending11>>

(* The interrupts of the ARM9, and of the ARM11. *)
SYNC9 == 12        SYNC11 == 80
SEND_EMPTY9 == 13  SEND_EMPTY11 == 82
RECV9 == 14        RECV11 == 83
Irqs9 == {SYNC9, SEND_EMPTY9, RECV9}
Irqs11 == {SYNC11, SEND_EMPTY11, RECV11}

Cnt == [send_empty_irq : BOOLEAN, recv_not_empty_irq : BOOLEAN]
ResetCnt == [send_empty_irq |-> FALSE, recv_not_empty_irq |-> FALSE]

ASSUME PxiAssumption ==
    /\ Depth \in Nat \ {0}
    /\ Cnts \subseteq Cnt
    /\ Accepts \subseteq BOOLEAN
    /\ MaxWords \in Nat

(* The IF register is not initialised. *)
Init ==
    /\ recv9 = <<>> /\ recv11 = <<>>
    /\ last_recv9 = 0 /\ last_recv11 = 0
    /\ cnt9 = ResetCnt /\ cnt11 = ResetCnt
    /\ local_irq9 = FALSE /\ local_irq11 = FALSE
    /\ sending_hle_cmd = FALSE
    /\ asserted9 \in SUBSET Irqs9
    /\ pending11 = {}
    /\ sent9 = 0 /\ sent11 = 0
    /\ room9 = FALSE /\ room11 = FALSE

-----------------------------------------------------------------------------
(* The registers. *)

(* The interrupts a call asserts. *)
Raise9(ids) == asserted9' = asserted9 \union ids
Raise11(ids) == pending11' = pending11 \union ids

Only(condition, id) == IF condition THEN {id} ELSE {}

write_sync9(accept, trigger) ==
    /\ local_irq9' = accept
    /\ Raise11(Only(trigger /\ local_irq11, SYNC11))
    /\ UNCHANGED <<fifos, cnt9, cnt11, local_irq11, sending_hle_cmd, asserted9>>

write_sync11(accept, trigger) ==
    /\ local_irq11' = accept
    /\ sending_hle_cmd' = (sending_hle_cmd \/ (trigger /\ local_irq9))
    /\ Raise9(Only(trigger /\ local_irq9, SYNC9))
    /\ UNCHANGED <<fifos, cnt9, cnt11, local_irq9, pending11>>

(* Enabling an interrupt whose condition holds asserts it.  Last, the       *)
(* sender may clear its FIFO; that raises nothing.                          *)
write_cnt9(cnt, clear) ==
    /\ Raise9(Only(/\ ~cnt9.recv_not_empty_irq /\ cnt.recv_not_empty_irq
                   /\ recv9 # <<>>, RECV9)
              \union
              Only(/\ ~cnt9.send_empty_irq /\ cnt.send_empty_irq
                   /\ recv11 = <<>>, SEND_EMPTY9))
    /\ cnt9' = cnt
    /\ recv11' = IF clear THEN <<>> ELSE recv11
    /\ UNCHANGED <<recv9, last_recv9, last_recv11, sent9, sent11, room9, room11,
                   cnt11, local_irq9, local_irq11, sending_hle_cmd, pending11>>

(* The ARM11's register asserts the interrupts of the ARM9, and for its     *)
(* send FIFO tests the other one.                                           *)
write_cnt11(cnt, clear) ==
    /\ Raise9(Only(/\ ~cnt11.recv_not_empty_irq /\ cnt.recv_not_empty_irq
                   /\ recv11 # <<>>, RECV9)
              \union
              Only(/\ ~cnt11.send_empty_irq /\ cnt.send_empty_irq
                   /\ recv11 = <<>>, SEND_EMPTY9))
    /\ cnt11' = cnt
    /\ recv9' = IF clear THEN <<>> ELSE recv9
    /\ UNCHANGED <<recv11, last_recv9, last_recv11, sent9, sent11, room9, room11,
                   cnt9, local_irq9, local_irq11, sending_hle_cmd, pending11>>

(* Mutant of Logged: the words are put back in the opposite order. *)
Logged_Reverses(fifo) == [k \in DOMAIN fifo |-> fifo[Len(fifo) + 1 - k]]

(* The logging of a command takes cnt words out of the FIFO, into an array  *)
(* of 16, and puts them back behind what is left.                           *)
Logged(fifo) ==
    LET cnt == Len(fifo)
    IN  SubSeq(fifo, cnt + 1, Len(fifo)) \o SubSeq(fifo, 1, cnt)

(* Reading an empty FIFO yields the last word again. *)
read_msg9 ==
    /\ recv9 # <<>>
    /\ LET fifo == IF sending_hle_cmd THEN Logged(recv9) ELSE recv9
       IN  /\ last_recv9' = Head(fifo)
           /\ recv9' = Tail(fifo)
    /\ sending_hle_cmd' = FALSE
    /\ Raise11(Only(recv9' = <<>> /\ cnt11.send_empty_irq, SEND_EMPTY11))
    /\ UNCHANGED <<recv11, last_recv11, sent9, sent11, room9, room11,
                   cnt9, cnt11, local_irq9, local_irq11, asserted9>>

read_msg11 ==
    /\ recv11 # <<>>
    /\ last_recv11' = Head(recv11)
    /\ recv11' = Tail(recv11)
    /\ Raise9(Only(recv11' = <<>> /\ cnt9.send_empty_irq, SEND_EMPTY9))
    /\ UNCHANGED <<recv9, last_recv9, sent9, sent11, room9, room11,
                   cnt9, cnt11, local_irq9, local_irq11, sending_hle_cmd, pending11>>

(* The full bit of the CNT registers, as the sender reads it. *)
read_cnt9 ==
    /\ room11' = (Len(recv11) # Depth)
    /\ UNCHANGED <<recv9, recv11, last_recv9, last_recv11, sent9, sent11, room9,
                   cnt9, cnt11, local_irq9, local_irq11, sending_hle_cmd, asserted9, pending11>>

(* Mutant of read_cnt11: the FIFO is full one word late. *)
read_cnt11_OneLate ==
    /\ room9' = (Len(recv9) <= Depth)
    /\ UNCHANGED <<recv9, recv11, last_recv9, last_recv11, sent9, sent11, room11,
                   cnt9, cnt11, local_irq9, local_irq11, sending_hle_cmd, asserted9, pending11>>

read_cnt11 ==
    /\ room9' = (Len(recv9) # Depth)
    /\ UNCHANGED <<recv9, recv11, last_recv9, last_recv11, sent9, sent11, room11,
                   cnt9, cnt11, local_irq9, local_irq11, sending_hle_cmd, asserted9, pending11>>

(* Mutant of send_to_9: only the second word raises an interrupt. *)
send_to_9_OneLate ==
    /\ sent9 < MaxWords
    /\ sent9' = sent9 + 1
    /\ recv9' = Append(recv9, sent9')
    /\ Raise9(Only(Len(recv9) = 1 /\ cnt9.recv_not_empty_irq, RECV9))
    /\ UNCHANGED <<recv11, last_recv9, last_recv11, sent11, room11,
                   cnt9, cnt11, local_irq9, local_irq11, sending_hle_cmd, pending11>>

(* The call appends a word whatever the size of the FIFO. *)
send_to_9 ==
    /\ sent9 < MaxWords
    /\ sent9' = sent9 + 1
    /\ recv9' = Append(recv9, sent9')
    /\ Raise9(Only(Len(recv9') = 1 /\ cnt9.recv_not_empty_irq, RECV9))
    /\ UNCHANGED <<recv11, last_recv9, last_recv11, sent11, room11,
                   cnt9, cnt11, local_irq9, local_irq11, sending_hle_cmd, pending11>>

(* Mutant of send_to_11: only the second word raises an interrupt. *)
send_to_11_OneLate ==
    /\ sent11 < MaxWords
    /\ sent11' = sent11 + 1
    /\ recv11' = Append(recv11, sent11')
    /\ Raise11(Only(Len(recv11) = 1 /\ cnt11.recv_not_empty_irq, RECV11))
    /\ UNCHANGED <<recv9, last_recv9, last_recv11, sent9, room9,
                   cnt9, cnt11, local_irq9, local_irq11, sending_hle_cmd, asserted9>>

send_to_11 ==
    /\ sent11 < MaxWords
    /\ sent11' = sent11 + 1
    /\ recv11' = Append(recv11, sent11')
    /\ Raise11(Only(Len(recv11') = 1 /\ cnt11.recv_not_empty_irq, RECV11))
    /\ UNCHANGED <<recv9, last_recv9, last_recv11, sent9, room9,
                   cnt9, cnt11, local_irq9, local_irq11, sending_hle_cmd, asserted9>>

(* A program sends once for each look that found room. *)
Send9 == room9 /\ room9' = FALSE /\ send_to_9
Send11 == room11 /\ room11' = FALSE /\ send_to_11

-----------------------------------------------------------------------------
(* Each side acknowledges interrupts at its controller. *)

Acknowledge9(i) ==
    /\ i \in asserted9
    /\ asserted9' = asserted9 \ {i}
    /\ UNCHANGED <<fifos, cnt9, cnt11, local_irq9, local_irq11, sending_hle_cmd, pending11>>

Acknowledge11(i) ==
    /\ i \in pending11
    /\ pending11' = pending11 \ {i}
    /\ UNCHANGED <<fifos, cnt9, cnt11, local_irq9, local_irq11, sending_hle_cmd, asserted9>>

(* Emulator::reset: the words last read, and the interrupts asserted to the *)
(* ARM9, stay.                                                              *)
Reset ==
    /\ recv9' = <<>> /\ recv11' = <<>>
    /\ cnt9' = ResetCnt /\ cnt11' = ResetCnt
    /\ local_irq9' = FALSE /\ local_irq11' = FALSE
    /\ sending_hle_cmd' = FALSE
    /\ pending11' = {}
    /\ room9' = FALSE /\ room11' = FALSE
    /\ UNCHANGED <<last_recv9, last_recv11, sent9, sent11, asserted9>>

Registers9 ==
    \/ \E accept \in Accepts, trigger \in BOOLEAN : write_sync9(accept, trigger)
    \/ \E cnt \in Cnts, clear \in BOOLEAN : write_cnt9(cnt, clear)
    \/ read_msg9 \/ read_cnt9 \/ Send11

Registers11 ==
    \/ \E accept \in Accepts, trigger \in BOOLEAN : write_sync11(accept, trigger)
    \/ \E cnt \in Cnts, clear \in BOOLEAN : write_cnt11(cnt, clear)
    \/ read_msg11 \/ read_cnt11 \/ Send9

Next ==
    \/ Registers9 \/ \E i \in Irqs9 : Acknowledge9(i)
    \/ Registers11 \/ \E i \in Irqs11 : Acknowledge11(i)
    \/ Reset

Spec == Init /\ [][Next]_vars

-----------------------------------------------------------------------------

TypeOK ==
    /\ recv9 \in Seq(1..MaxWords) /\ recv11 \in Seq(1..MaxWords)
    /\ last_recv9 \in 0..MaxWords /\ last_recv11 \in 0..MaxWords
    /\ cnt9 \in Cnt /\ cnt11 \in Cnt
    /\ local_irq9 \in BOOLEAN /\ local_irq11 \in BOOLEAN
    /\ sending_hle_cmd \in BOOLEAN
    /\ asserted9 \in SUBSET Irqs9 /\ pending11 \in SUBSET Irqs11
    /\ sent9 \in 0..MaxWords /\ sent11 \in 0..MaxWords
    /\ room9 \in BOOLEAN /\ room11 \in BOOLEAN

(* A sender that saw room keeps it, whatever the receiver and the logging   *)
(* do in between: no FIFO outgrows its size, and the array a command is     *)
(* logged from (hle_cmd_buffer) is never overrun.                           *)
FifosAreBounded ==
    /\ Len(recv9) <= Depth /\ Len(recv11) <= Depth
    /\ room9 => Len(recv9) < Depth
    /\ room11 => Len(recv11) < Depth

(* A FIFO holds the words sent last, in the order they were sent, and none  *)
(* that was read before: clearing, logging and resetting lose words, but    *)
(* never some in the middle, and never reorder or repeat any.               *)
InOrder ==
    /\ \A k \in DOMAIN recv9 : recv9[k] = sent9 - Len(recv9) + k
    /\ \A k \in DOMAIN recv11 : recv11[k] = sent11 - Len(recv11) + k
    /\ last_recv9 <= sent9 - Len(recv9)
    /\ last_recv11 <= sent11 - Len(recv11)

(* When the ARM9 comes to have words to read and to want an interrupt for   *)
(* them, by whichever side and in whichever order, it gets one.             *)
Waiting9 == recv9 # <<>> /\ cnt9.recv_not_empty_irq
Receiver9IsTold == [][~Waiting9 /\ Waiting9' => RECV9 \in asserted9']_vars

(* When the ARM9 comes to have its words read and to want an interrupt for  *)
(* that, it gets one.  (It gets none for a FIFO it clears itself.)          *)
Drained9 == recv11 = <<>> /\ cnt9.send_empty_irq
Sender9IsTold ==
    [][~Drained9 /\ Drained9' /\ (recv11' = recv11 \/ last_recv11' # last_recv11)
       => SEND_EMPTY9 \in asserted9']_vars
=============================================================================
