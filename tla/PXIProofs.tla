----------------------------- MODULE PXIProofs -----------------------------
(***************************************************************************)
(* Proofs about PXI, for FIFOs of any size and programs that look at the    *)
(* full flag before they send and otherwise use the registers in any way:  *)
(* no FIFO outgrows its size, words are neither reordered nor repeated,    *)
(* and the ARM9 is told of its words.                                      *)
(* About PXIRpc: neither its server nor its client waits in vain.          *)
(*                                                                         *)
(* The argument: that a FIFO holds the words sent last is inductive once   *)
(* it is known that the logging of a command puts back what it took        *)
(* (LoggingRestores); room seen earlier is not lost, because only its      *)
(* sender, which forgets the room by sending, makes a FIFO longer.         *)
(***************************************************************************)
EXTENDS PXIRpc, SequenceTheorems, TLAPS

Words == 1..MaxWords

IInv == TypeOK /\ FifosAreBounded /\ InOrder

(* The words a FIFO holds, and the one its receiver read last. *)
Holds(fifo, sent, last) ==
    /\ \A k \in DOMAIN fifo : fifo[k] = sent - Len(fifo) + k
    /\ last <= sent - Len(fifo)

LEMMA LoggingRestores ==
    ASSUME NEW fifo \in Seq(Words)
    PROVE  Logged(fifo) = fifo
<1>1. SubSeq(fifo, 1, Len(fifo)) = fifo
  BY SubSeqFull
<1>2. SubSeq(fifo, Len(fifo) + 1, Len(fifo)) = <<>>
  BY SubSeqEmpty
<1>3. <<>> \o fifo = fifo
  BY ConcatEmptySeq
<1> QED BY <1>1, <1>2, <1>3 DEF Logged

LEMMA Received ==
    ASSUME NEW fifo \in Seq(Words), fifo # <<>>, NEW sent \in Nat, NEW last \in Nat,
           Holds(fifo, sent, last)
    PROVE  /\ Tail(fifo) \in Seq(Words) /\ Len(Tail(fifo)) = Len(fifo) - 1
           /\ Head(fifo) \in Words
           /\ Holds(Tail(fifo), sent, Head(fifo))
<1>1. /\ Tail(fifo) \in Seq(Words) /\ Len(Tail(fifo)) = Len(fifo) - 1
      /\ Head(fifo) \in Words /\ Head(fifo) = fifo[1]
      /\ Len(fifo) \in Nat \ {0}
      /\ \A k \in 1..(Len(fifo) - 1) : Tail(fifo)[k] = fifo[k + 1]
  BY HeadTailProperties
<1>6. DOMAIN fifo = 1..Len(fifo) /\ DOMAIN Tail(fifo) = 1..(Len(fifo) - 1)
  BY <1>1
<1>2. fifo[1] = sent - Len(fifo) + 1
  <2>1. 1 \in DOMAIN fifo
    BY <1>1, <1>6
  <2> QED BY <2>1 DEF Holds
<1>3. \A k \in 1..(Len(fifo) - 1) : fifo[k + 1] = sent - Len(fifo) + (k + 1)
  <2>1. \A k \in 1..(Len(fifo) - 1) : k + 1 \in DOMAIN fifo
    BY <1>1, <1>6
  <2> QED BY <2>1 DEF Holds
<1>4. \A k \in DOMAIN Tail(fifo) : Tail(fifo)[k] = sent - Len(Tail(fifo)) + k
  BY <1>1, <1>3, <1>6
<1>5. Head(fifo) <= sent - Len(Tail(fifo))
  BY <1>1, <1>2
<1> QED BY <1>1, <1>4, <1>5 DEF Holds

LEMMA Sent ==
    ASSUME NEW fifo \in Seq(Words), NEW sent \in 0..MaxWords, sent < MaxWords,
           NEW last \in Nat, Holds(fifo, sent, last)
    PROVE  /\ Append(fifo, sent + 1) \in Seq(Words)
           /\ Len(Append(fifo, sent + 1)) = Len(fifo) + 1
           /\ Holds(Append(fifo, sent + 1), sent + 1, last)
<1>1. sent + 1 \in Words /\ Len(fifo) \in Nat
  BY PxiAssumption DEF Words
<1>2. /\ Append(fifo, sent + 1) \in Seq(Words)
      /\ Len(Append(fifo, sent + 1)) = Len(fifo) + 1
      /\ \A k \in 1..Len(fifo) : Append(fifo, sent + 1)[k] = fifo[k]
      /\ Append(fifo, sent + 1)[Len(fifo) + 1] = sent + 1
  BY <1>1, AppendProperties
<1>3. \A k \in 1..Len(fifo) : fifo[k] = sent - Len(fifo) + k
  BY DEF Holds
<1> QED BY <1>1, <1>2, <1>3 DEF Holds

LEMMA Emptied ==
    ASSUME NEW fifo \in Seq(Words), NEW sent \in Nat, NEW last \in Nat,
           Holds(fifo, sent, last)
    PROVE  <<>> \in Seq(Words) /\ Len(<<>>) = 0 /\ Holds(<<>>, sent, last)
BY DEF Holds

-----------------------------------------------------------------------------

LEMMA Unfolded ==
    IInv => /\ recv9 \in Seq(Words) /\ recv11 \in Seq(Words)
            /\ Len(recv9) \in Nat /\ Len(recv11) \in Nat
            /\ last_recv9 \in 0..MaxWords /\ last_recv11 \in 0..MaxWords
            /\ sent9 \in 0..MaxWords /\ sent11 \in 0..MaxWords
            /\ last_recv9 \in Nat /\ last_recv11 \in Nat /\ sent9 \in Nat /\ sent11 \in Nat
            /\ Holds(recv9, sent9, last_recv9)
            /\ Holds(recv11, sent11, last_recv11)
BY PxiAssumption DEF IInv, TypeOK, InOrder, Words, Holds

LEMMA InitInv == Init => IInv
<1> SUFFICES ASSUME Init PROVE IInv
  OBVIOUS
<1>1. recv9 = <<>> /\ recv11 = <<>> /\ <<>> \in Seq(1..MaxWords) /\ Len(<<>>) = 0
  BY DEF Init
<1>2. ResetCnt \in Cnt /\ 0 \in 0..MaxWords
  BY PxiAssumption DEF ResetCnt, Cnt
<1>3. TypeOK
  BY <1>1, <1>2 DEF Init, TypeOK
<1>4. FifosAreBounded
  BY <1>1, PxiAssumption DEF Init, FifosAreBounded
<1>5. InOrder
  BY <1>1 DEF Init, InOrder
<1> QED BY <1>3, <1>4, <1>5 DEF IInv

(* The registers that do not touch the FIFOs. *)
LEMMA SyncStep ==
    ASSUME IInv, NEW accept \in BOOLEAN, NEW trigger \in BOOLEAN,
           write_sync9(accept, trigger) \/ write_sync11(accept, trigger)
    PROVE  IInv'
BY DEF IInv, TypeOK, FifosAreBounded, InOrder, fifos, write_sync9, write_sync11,
       Raise9, Raise11, Only, Irqs9, Irqs11

LEMMA AcknowledgeStep ==
    ASSUME IInv, NEW i, Acknowledge9(i) \/ Acknowledge11(i)
    PROVE  IInv'
BY DEF IInv, TypeOK, FifosAreBounded, InOrder, fifos, Acknowledge9, Acknowledge11

(* Enabling interrupts, which may clear the FIFO of the other side. *)
LEMMA CntStep ==
    ASSUME IInv, NEW cnt \in Cnt, NEW clear \in BOOLEAN,
           write_cnt9(cnt, clear) \/ write_cnt11(cnt, clear)
    PROVE  IInv'
<1> USE Unfolded
<1>1. /\ Holds(<<>>, sent9, last_recv9) /\ Holds(<<>>, sent11, last_recv11)
      /\ <<>> \in Seq(Words) /\ Len(<<>>) = 0
  BY Emptied
<1>2. /\ recv9' \in {recv9, <<>>} /\ recv11' \in {recv11, <<>>}
      /\ UNCHANGED <<last_recv9, last_recv11, sent9, sent11, room9, room11,
                     local_irq9, local_irq11, sending_hle_cmd, pending11>>
  BY DEF write_cnt9, write_cnt11
<1>3. cnt9' \in Cnt /\ cnt11' \in Cnt /\ asserted9' \in SUBSET Irqs9
  BY DEF IInv, TypeOK, write_cnt9, write_cnt11, Raise9, Only, Irqs9
<1>4. TypeOK'
  BY <1>1, <1>2, <1>3 DEF IInv, TypeOK, Words
<1>5. FifosAreBounded'
  BY <1>1, <1>2, PxiAssumption DEF IInv, FifosAreBounded
<1>6. Holds(recv9', sent9', last_recv9') /\ Holds(recv11', sent11', last_recv11')
  BY <1>1, <1>2
<1> QED BY <1>4, <1>5, <1>6 DEF IInv, InOrder, Holds

LEMMA ReadStep ==
    ASSUME IInv, read_msg9 \/ read_msg11
    PROVE  IInv'
<1> USE Unfolded
<1>1. CASE read_msg9
  <2>1. /\ recv9 # <<>> /\ last_recv9' = Head(recv9) /\ recv9' = Tail(recv9)
        /\ UNCHANGED <<recv11, last_recv11, sent9, sent11, room9, room11,
                       cnt9, cnt11, local_irq9, local_irq11, asserted9>>
    BY <1>1, LoggingRestores DEF read_msg9
  <2>2. /\ recv9' \in Seq(Words) /\ Len(recv9') = Len(recv9) - 1
        /\ last_recv9' \in Words
        /\ Holds(recv9', sent9', last_recv9')
    BY <2>1, Received
  <2>3. sending_hle_cmd' \in BOOLEAN /\ pending11' \in SUBSET Irqs11
    BY <1>1 DEF read_msg9, IInv, TypeOK, Raise11, Only, Irqs11
  <2>4. TypeOK'
    BY <2>1, <2>2, <2>3, PxiAssumption DEF IInv, TypeOK, Words
  <2>5. FifosAreBounded'
    BY <2>1, <2>2, PxiAssumption DEF IInv, FifosAreBounded
  <2> QED BY <2>1, <2>2, <2>4, <2>5 DEF IInv, InOrder, Holds
<1>2. CASE read_msg11
  <2>1. /\ recv11 # <<>> /\ last_recv11' = Head(recv11) /\ recv11' = Tail(recv11)
        /\ UNCHANGED <<recv9, last_recv9, sent9, sent11, room9, room11,
                       cnt9, cnt11, local_irq9, local_irq11, sending_hle_cmd, pending11>>
    BY <1>2 DEF read_msg11
  <2>2. /\ recv11' \in Seq(Words) /\ Len(recv11') = Len(recv11) - 1
        /\ last_recv11' \in Words
        /\ Holds(recv11', sent11', last_recv11')
    BY <2>1, Received
  <2>3. asserted9' \in SUBSET Irqs9
    BY <1>2 DEF read_msg11, IInv, TypeOK, Raise9, Only, Irqs9
  <2>4. TypeOK'
    BY <2>1, <2>2, <2>3, PxiAssumption DEF IInv, TypeOK, Words
  <2>5. FifosAreBounded'
    BY <2>1, <2>2, PxiAssumption DEF IInv, FifosAreBounded
  <2> QED BY <2>1, <2>2, <2>4, <2>5 DEF IInv, InOrder, Holds
<1> QED BY <1>1, <1>2

LEMMA SeeRoomStep ==
    ASSUME IInv, read_cnt9 \/ read_cnt11
    PROVE  IInv'
<1> USE DEF IInv, TypeOK
<1>1. /\ room9' \in BOOLEAN /\ (room9' => room9 \/ Len(recv9) # Depth)
      /\ room11' \in BOOLEAN /\ (room11' => room11 \/ Len(recv11) # Depth)
      /\ UNCHANGED <<recv9, recv11, last_recv9, last_recv11, sent9, sent11,
                     cnt9, cnt11, local_irq9, local_irq11, sending_hle_cmd,
                     asserted9, pending11>>
  <2>1. CASE read_cnt9
    BY <2>1 DEF read_cnt9
  <2>2. CASE read_cnt11
    BY <2>2 DEF read_cnt11
  <2> QED BY <2>1, <2>2
<1>2. TypeOK'
  BY <1>1 DEF IInv, TypeOK
<1>3. FifosAreBounded'
  BY <1>1, Unfolded, PxiAssumption DEF IInv, FifosAreBounded
<1> QED BY <1>1, <1>2, <1>3 DEF IInv, InOrder

LEMMA SendStep ==
    ASSUME IInv, Send9 \/ Send11
    PROVE  IInv'
<1> USE Unfolded
<1>1. CASE Send9
  <2>1. /\ room9 /\ room9' = FALSE /\ sent9 < MaxWords
        /\ sent9' = sent9 + 1 /\ recv9' = Append(recv9, sent9 + 1)
        /\ UNCHANGED <<recv11, last_recv9, last_recv11, sent11, room11,
                       cnt9, cnt11, local_irq9, local_irq11, sending_hle_cmd, pending11>>
    BY <1>1 DEF Send9, send_to_9
  <2>2. /\ recv9' \in Seq(Words) /\ Len(recv9') = Len(recv9) + 1
        /\ Holds(recv9', sent9', last_recv9')
    BY <2>1, Sent
  <2>3. asserted9' \in SUBSET Irqs9
    BY <1>1 DEF Send9, send_to_9, IInv, TypeOK, Raise9, Only, Irqs9
  <2>4. sent9 + 1 \in 0..MaxWords
    BY <2>1, PxiAssumption
  <2>5. TypeOK'
    BY <2>1, <2>2, <2>3, <2>4 DEF IInv, TypeOK, Words
  <2>6. FifosAreBounded'
    BY <2>1, <2>2, PxiAssumption DEF IInv, FifosAreBounded
  <2> QED BY <2>1, <2>2, <2>5, <2>6 DEF IInv, InOrder, Holds
<1>2. CASE Send11
  <2>1. /\ room11 /\ room11' = FALSE /\ sent11 < MaxWords
        /\ sent11' = sent11 + 1 /\ recv11' = Append(recv11, sent11 + 1)
        /\ UNCHANGED <<recv9, last_recv9, last_recv11, sent9, room9,
                       cnt9, cnt11, local_irq9, local_irq11, sending_hle_cmd, asserted9>>
    BY <1>2 DEF Send11, send_to_11
  <2>2. /\ recv11' \in Seq(Words) /\ Len(recv11') = Len(recv11) + 1
        /\ Holds(recv11', sent11', last_recv11')
    BY <2>1, Sent
  <2>3. pending11' \in SUBSET Irqs11
    BY <1>2 DEF Send11, send_to_11, IInv, TypeOK, Raise11, Only, Irqs11
  <2>4. sent11 + 1 \in 0..MaxWords
    BY <2>1, PxiAssumption
  <2>5. TypeOK'
    BY <2>1, <2>2, <2>3, <2>4 DEF IInv, TypeOK, Words
  <2>6. FifosAreBounded'
    BY <2>1, <2>2, PxiAssumption DEF IInv, FifosAreBounded
  <2> QED BY <2>1, <2>2, <2>5, <2>6 DEF IInv, InOrder, Holds
<1> QED BY <1>1, <1>2

LEMMA ResetStep ==
    ASSUME IInv, Reset
    PROVE  IInv'
<1> USE Unfolded
<1>1. /\ Holds(<<>>, sent9, last_recv9) /\ Holds(<<>>, sent11, last_recv11)
      /\ <<>> \in Seq(Words) /\ Len(<<>>) = 0
  BY Emptied
<1>2. /\ recv9' = <<>> /\ recv11' = <<>> /\ room9' = FALSE /\ room11' = FALSE
      /\ cnt9' = ResetCnt /\ cnt11' = ResetCnt /\ pending11' = {}
      /\ local_irq9' = FALSE /\ local_irq11' = FALSE /\ sending_hle_cmd' = FALSE
      /\ UNCHANGED <<last_recv9, last_recv11, sent9, sent11, asserted9>>
  BY DEF Reset
<1>3. ResetCnt \in Cnt
  BY DEF ResetCnt, Cnt
<1>4. TypeOK'
  BY <1>1, <1>2, <1>3 DEF IInv, TypeOK, Words
<1>5. FifosAreBounded'
  BY <1>1, <1>2, PxiAssumption DEF FifosAreBounded
<1>6. Holds(recv9', sent9', last_recv9') /\ Holds(recv11', sent11', last_recv11')
  BY <1>1, <1>2
<1> QED BY <1>4, <1>5, <1>6 DEF IInv, InOrder, Holds

LEMMA Inductive == IInv /\ [Next]_vars => IInv'
<1>1. ASSUME IInv, UNCHANGED vars
      PROVE  IInv'
  BY <1>1 DEF vars, fifos, IInv, TypeOK, FifosAreBounded, InOrder
<1>2. ASSUME IInv, Registers9 \/ Registers11
      PROVE  IInv'
  BY <1>2, SyncStep, CntStep, ReadStep, SeeRoomStep, SendStep, PxiAssumption
     DEF Registers9, Registers11
<1> QED BY <1>1, <1>2, AcknowledgeStep, ResetStep DEF Next

LEMMA AlwaysIInv == Spec => []IInv
BY InitInv, Inductive, PTL DEF Spec

-----------------------------------------------------------------------------
(* The theorems. *)

(* Every register keeps its type, whatever the programs write. *)
THEOREM PxiTypeOK == Spec => []TypeOK
<1>1. IInv => TypeOK
  BY DEF IInv
<1> QED BY <1>1, AlwaysIInv, PTL

(* No FIFO outgrows its size, if the programs send only after they saw room,*)
(* each look for one word: see FifosAreBounded.                             *)
THEOREM PxiFifosAreBounded == Spec => []FifosAreBounded
<1>1. IInv => FifosAreBounded
  BY DEF IInv
<1> QED BY <1>1, AlwaysIInv, PTL

(* Words are neither reordered nor repeated: see InOrder. *)
THEOREM PxiInOrder == Spec => []InOrder
<1>1. IInv => InOrder
  BY DEF IInv
<1> QED BY <1>1, AlwaysIInv, PTL

(* The ARM9 is told of the words it comes to wait for: see Receiver9IsTold. *)
THEOREM PxiReceiver9IsTold == Spec => Receiver9IsTold
<1> DEFINE Told == ~Waiting9 /\ Waiting9' => RECV9 \in asserted9'
<1>1. ASSUME IInv, NEW accept \in BOOLEAN, NEW trigger \in BOOLEAN,
             write_sync9(accept, trigger) \/ write_sync11(accept, trigger)
      PROVE  Told
  BY <1>1 DEF write_sync9, write_sync11, fifos, Waiting9
<1>2. ASSUME IInv, NEW cnt \in Cnt, NEW clear \in BOOLEAN,
             write_cnt9(cnt, clear) \/ write_cnt11(cnt, clear)
      PROVE  Told
  <2>1. CASE write_cnt9(cnt, clear)
    BY <2>1 DEF write_cnt9, Waiting9, Raise9, Only
  <2>2. CASE write_cnt11(cnt, clear)
    BY <2>2 DEF write_cnt11, Waiting9
  <2> QED BY <1>2, <2>1, <2>2
<1>3. ASSUME IInv, read_msg9 \/ read_msg11 \/ read_cnt9 \/ read_cnt11 \/ send_to_11
      PROVE  Told
  BY <1>3 DEF read_msg9, read_msg11, read_cnt9, read_cnt11, send_to_11, Waiting9
<1>4. ASSUME IInv, send_to_9
      PROVE  Told
  <2>1. recv9 \in Seq(Words) /\ sent9 + 1 \in Words
    BY <1>4, Unfolded, PxiAssumption DEF Words, send_to_9
  <2>2. recv9 = <<>> => Len(Append(recv9, sent9 + 1)) = 1
    BY <2>1, AppendProperties
  <2> QED BY <1>4, <2>2 DEF send_to_9, Waiting9, Raise9, Only
<1>5. ASSUME IInv, Reset \/ (\E i : Acknowledge9(i) \/ Acknowledge11(i)) \/ UNCHANGED vars
      PROVE  Told
  BY <1>5 DEF Reset, Acknowledge9, Acknowledge11, vars, fifos, Waiting9
<1>6. IInv /\ [Next]_vars => [Told]_vars
  BY <1>1, <1>2, <1>3, <1>4, <1>5, PxiAssumption
     DEF Next, Registers9, Registers11, Send9, Send11
<1> QED BY <1>6, AlwaysIInv, PTL DEF Spec, Receiver9IsTold

(* The ARM9 is told when its words have been read: see Sender9IsTold. *)
THEOREM PxiSender9IsTold == Spec => Sender9IsTold
<1> DEFINE Read == recv11' = recv11 \/ last_recv11' # last_recv11
           Told == ~Drained9 /\ Drained9' /\ Read => SEND_EMPTY9 \in asserted9'
<1>1. ASSUME IInv, NEW accept \in BOOLEAN, NEW trigger \in BOOLEAN,
             write_sync9(accept, trigger) \/ write_sync11(accept, trigger)
      PROVE  Told
  BY <1>1 DEF write_sync9, write_sync11, fifos, Drained9
<1>2. ASSUME IInv, NEW cnt \in Cnt, NEW clear \in BOOLEAN,
             write_cnt9(cnt, clear) \/ write_cnt11(cnt, clear)
      PROVE  Told
  <2>1. CASE write_cnt9(cnt, clear)
    BY <2>1 DEF write_cnt9, Drained9, Raise9, Only
  <2>2. CASE write_cnt11(cnt, clear)
    BY <2>2 DEF write_cnt11, Drained9
  <2> QED BY <1>2, <2>1, <2>2
<1>3. ASSUME IInv, read_msg9 \/ read_cnt9 \/ read_cnt11 \/ send_to_9
      PROVE  Told
  BY <1>3 DEF read_msg9, read_cnt9, read_cnt11, send_to_9, Drained9
<1>4. ASSUME IInv, read_msg11
      PROVE  Told
  BY <1>4 DEF read_msg11, Drained9, Raise9, Only
<1>5. ASSUME IInv, send_to_11
      PROVE  Told
  <2>1. recv11 \in Seq(Words) /\ sent11 + 1 \in Words
    BY <1>5, Unfolded, PxiAssumption DEF Words, send_to_11
  <2>2. Append(recv11, sent11 + 1) # <<>>
    BY <2>1, AppendProperties
  <2> QED BY <1>5, <2>2 DEF send_to_11, Drained9
<1>6. ASSUME IInv, Reset
      PROVE  Told
  BY <1>6 DEF Reset, Drained9, ResetCnt
<1>7. ASSUME IInv, (\E i : Acknowledge9(i) \/ Acknowledge11(i)) \/ UNCHANGED vars
      PROVE  Told
  BY <1>7 DEF Acknowledge9, Acknowledge11, vars, fifos, Drained9
<1>8. IInv /\ [Next]_vars => [Told]_vars
  BY <1>1, <1>2, <1>3, <1>4, <1>5, <1>6, <1>7, PxiAssumption
     DEF Next, Registers9, Registers11, Send9, Send11
<1> QED BY <1>8, AlwaysIInv, PTL DEF Spec, Sender9IsTold

-----------------------------------------------------------------------------
(* Requests and answers (PXIRpc).  The server sleeps only where it will     *)
(* look again, and a word that came since its look keeps its line high; the *)
(* client is told of a word unless it is reading, and of room since it saw  *)
(* none.  Before the client enables its interrupts nothing is sent either   *)
(* way.                                                                     *)

ClientBoots ==
    pc11 = "boot" => recv9 = <<>> /\ recv11 = <<>> /\ pc9 \notin {"read", "answer", "told"}

ServerListens ==
    /\ pc9 # "boot" => /\ IE = {RECV9, SYNC9}
                       /\ arm9.int_pending <=> IE \intersect asserted9 # {}
    /\ pc9 \notin {"boot", "accept", "enable"} => cnt9.recv_not_empty_irq
    /\ arm9.halted => pc9 = "woken" /\ ~arm9.int_pending
    /\ pc9 \in {"sleep", "woken"} /\ recv9 # <<>> => RECV9 \in asserted9

ClientListens ==
    /\ pc11 # "boot" => cnt11.recv_not_empty_irq /\ cnt11.send_empty_irq
    /\ pc11 \in {"idle", "sent", "full"} /\ recv11 # <<>> => RECV11 \in pending11
    /\ pc11 = "full" /\ recv9 = <<>> => SEND_EMPTY11 \in pending11

RInv ==
    /\ IInv
    /\ IE \in SUBSET Irqs9 /\ arm9 \in I9!Cpu
    /\ pc9 \in Places9 /\ pc11 \in Places11
    /\ ClientBoots /\ ServerListens /\ ClientListens

(* The processor's line, its WFI, and a processor after a boot. *)
LEMMA Processor ==
    /\ I9!ResetCpu \in I9!Cpu /\ ~I9!ResetCpu.halted /\ ~I9!ResetCpu.int_pending
    /\ \A p \in I9!Cpu, b \in BOOLEAN :
           /\ I9!SetIntSignal(p, b) \in I9!Cpu
           /\ I9!SetIntSignal(p, b).int_pending = b
           /\ I9!SetIntSignal(p, b).halted => p.halted /\ (p.int_pending \/ ~b)
    /\ \A p \in I9!Cpu :
           /\ I9!Halt(p) \in I9!Cpu
           /\ I9!Halt(p).int_pending = p.int_pending
           /\ I9!Halt(p).halted => p.halted \/ ~p.int_pending
<1>1. /\ I9!ResetCpu \in I9!Cpu /\ ~I9!ResetCpu.halted /\ ~I9!ResetCpu.int_pending
  BY DEF I9!ResetCpu, I9!Cpu, I9!Modes
<1>2. ASSUME NEW p \in I9!Cpu, NEW b \in BOOLEAN
      PROVE  /\ I9!SetIntSignal(p, b) \in I9!Cpu
             /\ I9!SetIntSignal(p, b).int_pending = b
             /\ I9!SetIntSignal(p, b).halted => p.halted /\ (p.int_pending \/ ~b)
  <2> DEFINE woken == IF ~p.int_pending /\ b
                      THEN I9!IntCheck([p EXCEPT !.halted = FALSE]) ELSE p
  <2>1. woken \in I9!Cpu /\ (woken.halted => p.halted /\ (p.int_pending \/ ~b))
    BY DEF I9!IntCheck, I9!Cpu, I9!Modes
  <2>2. I9!SetIntSignal(p, b) = [woken EXCEPT !.int_pending = b]
    BY DEF I9!SetIntSignal
  <2> HIDE DEF woken
  <2> QED BY <2>1, <2>2 DEF I9!Cpu
<1>3. ASSUME NEW p \in I9!Cpu
      PROVE  /\ I9!Halt(p) \in I9!Cpu
             /\ I9!Halt(p).int_pending = p.int_pending
             /\ I9!Halt(p).halted => p.halted \/ ~p.int_pending
  BY DEF I9!Halt, I9!Cpu
<1> QED BY <1>1, <1>2, <1>3

(* An action of PXI moves the line with what it asserts. *)
LEMMA SignalsKeep ==
    ASSUME RInv, Signals, IInv'
    PROVE  /\ IE' = IE /\ arm9' \in I9!Cpu
           /\ arm9'.halted => arm9.halted /\ ~arm9'.int_pending
           /\ pc9 # "boot" =>
                  (arm9'.int_pending <=> IE' \intersect asserted9' # {})
<1>1. /\ arm9 \in I9!Cpu /\ (arm9.halted => ~arm9.int_pending)
      /\ pc9 # "boot" => (arm9.int_pending <=> IE \intersect asserted9 # {})
  BY DEF RInv, ServerListens
<1>2. CASE UNCHANGED <<asserted9, arm9>>
  BY <1>1, <1>2 DEF Signals
<1>3. CASE I9!SignalLine
  <2> DEFINE line == IE' \intersect asserted9' # {}
  <2>1. line \in BOOLEAN /\ IE' = IE /\ arm9' = I9!SetIntSignal(arm9, line)
    BY <1>3 DEF Signals, I9!SignalLine
  <2>2. /\ arm9' \in I9!Cpu /\ arm9'.int_pending = line
        /\ arm9'.halted => arm9.halted /\ (arm9.int_pending \/ ~line)
    <3> HIDE DEF line
    <3> QED BY <1>1, <2>1, Processor
  <2>3. arm9'.int_pending <=> line
    <3> HIDE DEF line
    <3> QED BY <2>1, <2>2
  <2> QED BY <1>1, <2>1, <2>2, <2>3
<1> QED BY <1>2, <1>3 DEF Signals

LEMMA InitRpc == RInit => RInv
BY InitInv, Processor
   DEF RInit, Init, I9!Arm9Init, RInv, ClientBoots, ServerListens, ClientListens,
       Places9, Places11

(* The words the server's and the client's FIFOs lose and gain. *)
LEMMA Words9 ==
    /\ IInv /\ send_to_9 => /\ recv9' # <<>>
                            /\ recv9 = <<>> /\ cnt9.recv_not_empty_irq => RECV9 \in asserted9'
                            /\ asserted9 \subseteq asserted9'
    /\ IInv /\ read_msg9 => /\ recv9' = <<>> /\ cnt11.send_empty_irq
                                => SEND_EMPTY11 \in pending11'
                            /\ pending11 \subseteq pending11'
<1>1. ASSUME IInv, send_to_9
      PROVE  /\ recv9' # <<>>
             /\ recv9 = <<>> /\ cnt9.recv_not_empty_irq => RECV9 \in asserted9'
             /\ asserted9 \subseteq asserted9'
  <2>1. /\ recv9 \in Seq(Words) /\ sent9 + 1 \in Words /\ recv9' = Append(recv9, sent9 + 1)
        /\ Len(recv9) = 0 <=> recv9 = <<>>
    BY <1>1, Unfolded, PxiAssumption, EmptySeq DEF send_to_9, Words
  <2>2. recv9' # <<>> /\ (recv9 = <<>> => Len(recv9') = 1)
    BY <2>1, AppendProperties
  <2> QED BY <1>1, <2>2 DEF send_to_9, Raise9, Only
<1>2. ASSUME IInv, read_msg9
      PROVE  /\ recv9' = <<>> /\ cnt11.send_empty_irq => SEND_EMPTY11 \in pending11'
             /\ pending11 \subseteq pending11'
  BY <1>2 DEF read_msg9, Raise11, Only
<1> QED BY <1>1, <1>2

LEMMA Words11 ==
    IInv /\ send_to_11 =>
        /\ recv11' # <<>>
        /\ recv11 = <<>> /\ cnt11.recv_not_empty_irq => RECV11 \in pending11'
        /\ pending11 \subseteq pending11'
<1> SUFFICES ASSUME IInv, send_to_11
             PROVE  /\ recv11' # <<>>
                    /\ recv11 = <<>> /\ cnt11.recv_not_empty_irq => RECV11 \in pending11'
                    /\ pending11 \subseteq pending11'
  OBVIOUS
<1>1. /\ recv11 \in Seq(Words) /\ sent11 + 1 \in Words
      /\ recv11' = Append(recv11, sent11 + 1)
      /\ Len(recv11) = 0 <=> recv11 = <<>>
  BY Unfolded, PxiAssumption, EmptySeq DEF send_to_11, Words
<1>2. recv11' # <<>> /\ (recv11 = <<>> => Len(recv11') = 1)
  BY <1>1, AppendProperties
<1> QED BY <1>2 DEF send_to_11, Raise11, Only

(* The processor after an instruction of the server. *)
LEMMA ServerStep ==
    ASSUME RInv, Server
    PROVE  RInv'
<1> DEFINE Data == UNCHANGED <<recv9, recv11, cnt9, cnt11, asserted9, pending11>>
<1>1. CASE Boot9
  <2>1. /\ Data /\ IInv' /\ IE' = {RECV9, SYNC9} /\ I9!SignalLine
        /\ pc9 = "boot" /\ pc9' = "accept" /\ pc11' = pc11
    BY <1>1 DEF Boot9, I9!write_ie, Elsewhere, Goto9, fifos, RInv, IInv, TypeOK,
                FifosAreBounded, InOrder
  <2> DEFINE line == IE' \intersect asserted9' # {}
  <2>2. line \in BOOLEAN /\ arm9' = I9!SetIntSignal(arm9, line)
    BY <2>1 DEF I9!SignalLine
  <2>3. arm9' \in I9!Cpu /\ arm9'.int_pending = line /\ ~arm9'.halted
    <3> HIDE DEF line
    <3> QED BY <2>1, <2>2, Processor DEF RInv, ServerListens
  <2> QED BY <2>1, <2>3 DEF RInv, ClientBoots, ServerListens, ClientListens, Places9, Irqs9
<1>2. CASE Accept9 \/ Trigger9
  <2>1. /\ UNCHANGED <<recv9, recv11, cnt9, cnt11, asserted9>> /\ pending11 \subseteq pending11'
        /\ Signals /\ IInv'
        /\ pc11' = pc11 /\ <<pc9, pc9'>> \in {<<"accept", "enable">>, <<"told", "look">>}
    BY <1>2, SyncStep
       DEF Accept9, Trigger9, write_sync9, Goto9, fifos, RInv, Raise11
  <2> QED BY <2>1, SignalsKeep
          DEF RInv, ClientBoots, ServerListens, ClientListens, Places9
<1>3. CASE Enable9
  <2>1. /\ UNCHANGED <<recv9, cnt11, pending11>> /\ recv11' = <<>> /\ cnt9'.recv_not_empty_irq
        /\ Signals /\ IInv'
        /\ pc11' = pc11 /\ pc9 = "enable" /\ pc9' = "look"
    BY <1>3, CntStep DEF Enable9, write_cnt9, Goto9, RInv, Cnt
  <2> QED BY <2>1, SignalsKeep
          DEF RInv, ClientBoots, ServerListens, ClientListens, Places9
<1>4. CASE Look9
  <2>1. /\ Data /\ UNCHANGED <<IE, arm9, pc11>> /\ IInv' /\ ~arm9.halted /\ pc9 = "look"
        /\ pc9' = IF recv9 = <<>> THEN "sleep" ELSE "read"
    BY <1>4 DEF Look9, Goto9, vars, fifos, RInv, IInv, TypeOK, FifosAreBounded, InOrder
  <2> QED BY <2>1 DEF RInv, ClientBoots, ServerListens, ClientListens, Places9
<1>5. CASE Sleep9
  <2>1. /\ Data /\ UNCHANGED <<IE, pc11>> /\ IInv' /\ pc9 = "sleep" /\ pc9' = "woken"
        /\ ~arm9.halted /\ arm9' = I9!Halt(arm9)
    BY <1>5 DEF Sleep9, I9!WaitForInterrupt, I9!Instruction, I9!Executes, Elsewhere, Goto9,
                fifos, RInv, IInv, TypeOK, FifosAreBounded, InOrder
  <2>2. /\ arm9' \in I9!Cpu /\ arm9'.int_pending = arm9.int_pending
        /\ arm9'.halted => ~arm9.int_pending
    BY <2>1, Processor DEF RInv
  <2> QED BY <2>1, <2>2 DEF RInv, ClientBoots, ServerListens, ClientListens, Places9
<1>6. CASE Woken9
  <2>1. /\ UNCHANGED <<recv9, recv11, cnt9, cnt11, pending11, IE, pc11>>
        /\ IInv' /\ pc9 = "woken" /\ pc9' = "look" /\ ~arm9.halted /\ I9!SignalLine
    BY <1>6 DEF Woken9, I9!write_if, I9!Executes, Elsewhere, Goto9, fifos, RInv, IInv, TypeOK,
                FifosAreBounded, InOrder
  <2> DEFINE line == IE' \intersect asserted9' # {}
  <2>2. line \in BOOLEAN /\ arm9' = I9!SetIntSignal(arm9, line)
    BY <2>1 DEF I9!SignalLine
  <2>3. arm9' \in I9!Cpu /\ arm9'.int_pending = line /\ ~arm9'.halted
    <3> HIDE DEF line
    <3> QED BY <2>1, <2>2, Processor DEF RInv, ServerListens
  <2> QED BY <2>1, <2>3 DEF RInv, ClientBoots, ServerListens, ClientListens, Places9
<1>7. CASE Read9
  <2>1. /\ UNCHANGED <<recv11, cnt9, cnt11, asserted9, pc11>> /\ recv9 # <<>>
        /\ recv9' = <<>> /\ cnt11.send_empty_irq => SEND_EMPTY11 \in pending11'
        /\ pending11 \subseteq pending11'
        /\ Signals /\ IInv' /\ pc9 = "read" /\ pc9' = "answer"
    BY <1>7, ReadStep, Words9 DEF Read9, read_msg9, Goto9, RInv
  <2> QED BY <2>1, SignalsKeep
          DEF RInv, ClientBoots, ServerListens, ClientListens, Places9
<1>8. CASE SeeRoom9
  <2>1. Data /\ UNCHANGED <<IE, arm9, pc9, pc11>> /\ IInv'
    BY <1>8, SeeRoomStep DEF SeeRoom9, read_cnt9, RInv
  <2> QED BY <2>1 DEF RInv, ClientBoots, ServerListens, ClientListens
<1>9. CASE Answer9
  <2>1. /\ UNCHANGED <<recv9, cnt9, cnt11, asserted9, pc11>> /\ recv11' # <<>>
        /\ recv11 = <<>> /\ cnt11.recv_not_empty_irq => RECV11 \in pending11'
        /\ pending11 \subseteq pending11'
        /\ Signals /\ IInv' /\ pc9 = "answer" /\ pc9' = "told"
    BY <1>9, SendStep, Words11 DEF Answer9, Send11, send_to_11, Goto9, RInv
  <2> QED BY <2>1, SignalsKeep
          DEF RInv, ClientBoots, ServerListens, ClientListens, Places9
<1> QED BY <1>1, <1>2, <1>3, <1>4, <1>5, <1>6, <1>7, <1>8, <1>9 DEF Server

LEMMA ClientStep ==
    ASSUME RInv,
           Enable11 \/ SeeRoom11 \/ Request11 \/ Trigger11 \/ Told11 \/ Receive11
    PROVE  RInv'
<1>1. CASE Enable11
  <2>1. /\ UNCHANGED <<recv11, cnt9, pending11, pc9>> /\ recv9' = <<>>
        /\ asserted9 \subseteq asserted9'
        /\ cnt11'.recv_not_empty_irq /\ cnt11'.send_empty_irq
        /\ Signals /\ IInv' /\ pc11 = "boot" /\ pc11' = "idle"
    BY <1>1, CntStep DEF Enable11, write_cnt11, Raise9, Goto11, RInv, Cnt
  <2> QED BY <2>1, SignalsKeep
          DEF RInv, ClientBoots, ServerListens, ClientListens, Places11
<1>2. CASE SeeRoom11
  <2>1. /\ UNCHANGED <<recv9, recv11, cnt9, cnt11, asserted9, pending11, IE, arm9, pc9>>
        /\ IInv' /\ pc11 = "idle"
        /\ pc11' \in {"idle", "full"} /\ (pc11' = "full" => recv9 # <<>>)
    BY <1>2, SeeRoomStep, PxiAssumption DEF SeeRoom11, read_cnt11, Goto11, RInv
  <2> QED BY <2>1 DEF RInv, ClientBoots, ServerListens, ClientListens, Places11
<1>3. CASE Request11
  <2>1. /\ UNCHANGED <<recv11, cnt9, cnt11, pending11, pc9>> /\ recv9' # <<>>
        /\ recv9 = <<>> /\ cnt9.recv_not_empty_irq => RECV9 \in asserted9'
        /\ asserted9 \subseteq asserted9'
        /\ Signals /\ IInv' /\ pc11 = "idle" /\ pc11' = "sent"
    BY <1>3, SendStep, Words9 DEF Request11, Send9, send_to_9, Goto11, RInv
  <2> QED BY <2>1, SignalsKeep
          DEF RInv, ClientBoots, ServerListens, ClientListens, Places11
<1>4. CASE Trigger11
  <2>1. /\ UNCHANGED <<recv9, recv11, cnt9, cnt11, pending11, pc9>>
        /\ asserted9 \subseteq asserted9'
        /\ Signals /\ IInv' /\ pc11 = "sent" /\ pc11' = "idle"
    BY <1>4, SyncStep DEF Trigger11, write_sync11, Raise9, Goto11, fifos, RInv
  <2> QED BY <2>1, SignalsKeep
          DEF RInv, ClientBoots, ServerListens, ClientListens, Places11
<1>5. CASE HasRoom11 \/ Woken11 \/ Told11
  <2>1. /\ UNCHANGED <<recv9, recv11, cnt9, cnt11, asserted9, IE, arm9, pc9>> /\ IInv'
        /\ \/ pc11 = "full" /\ pc11' = "idle" /\ pending11' = pending11 \ {SEND_EMPTY11}
           \/ pc11 \in {"idle", "full"} /\ pc11' = "read"
           \/ pc11 = "idle" /\ pc11' = "idle" /\ pending11' = pending11 \ {SYNC11}
    BY <1>5, AcknowledgeStep
       DEF HasRoom11, Woken11, Told11, Acknowledge11, fifos, Goto11, RInv
  <2>2. RECV11 \notin {SEND_EMPTY11, SYNC11}
    BY DEF RECV11, SEND_EMPTY11, SYNC11
  <2> QED BY <2>1, <2>2 DEF RInv, ClientBoots, ServerListens, ClientListens, Places11
<1>6. CASE Read11
  <2>1. /\ UNCHANGED <<recv9, cnt9, cnt11, pending11, pc9>>
        /\ asserted9 \subseteq asserted9'
        /\ Signals /\ IInv' /\ pc11 = "read" /\ pc11' = "read"
    BY <1>6, ReadStep DEF Read11, read_msg11, Raise9, Goto11, RInv
  <2> QED BY <2>1, SignalsKeep
          DEF RInv, ClientBoots, ServerListens, ClientListens, Places11
<1>7. CASE Empty11
  <2>1. /\ UNCHANGED <<recv9, recv11, cnt9, cnt11, asserted9, pending11, IE, arm9, pc9>>
        /\ IInv' /\ pc11 = "read" /\ pc11' = "idle" /\ recv11 = <<>>
    BY <1>7 DEF Empty11, Goto11, vars, fifos, RInv, IInv, TypeOK, FifosAreBounded, InOrder
  <2> QED BY <2>1 DEF RInv, ClientBoots, ServerListens, ClientListens, Places11
<1> QED BY <1>1, <1>2, <1>3, <1>4, <1>5, <1>6, <1>7 DEF Receive11

LEMMA RpcStep == RInv /\ [RNext]_rpc_vars => RInv'
<1>1. RInv /\ (Done \/ UNCHANGED rpc_vars) => RInv'
  BY DEF Done, rpc_vars, vars, fifos, RInv, IInv, TypeOK, FifosAreBounded, InOrder,
         ClientBoots, ServerListens, ClientListens
<1> QED BY <1>1, ServerStep, ClientStep DEF RNext

(* The programs of PXIRpc, too, neither overrun nor reorder the FIFOs. *)
THEOREM PXIRpcFifos == RSpec => [](FifosAreBounded /\ InOrder)
<1>1. RInv => FifosAreBounded /\ InOrder
  BY DEF RInv, IInv
<1> QED BY <1>1, InitRpc, RpcStep, PTL DEF RSpec

(* Neither side waits for what has happened: see NobodyWaitsInVain. *)
THEOREM PXIRpcNobodyWaitsInVain == RSpec => []NobodyWaitsInVain
<1>1. RInv => NobodyWaitsInVain
  BY DEF RInv, ServerListens, ClientListens, NobodyWaitsInVain
<1> QED BY <1>1, InitRpc, RpcStep, PTL DEF RSpec
=============================================================================
