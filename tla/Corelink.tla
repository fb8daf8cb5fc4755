------------------------------ MODULE Corelink ------------------------------
(***************************************************************************)
(* The DMA engine of ARM (corelink_dma.cpp), as the XDMA of the ARM9: its  *)
(* channels run programs of DMA instructions, which a debug register       *)
(* starts.  In its turn of a slice a channel runs until it ends or waits   *)
(* for a peripheral, whose line is looked at once, when the turn begins;   *)
(* the only one is the SHA engine.  (On the ARM11 no device ever raises a  *)
(* line of the same engine.)                                               *)
(*                                                                         *)
(* A program counter counts instructions, sizes count words, and a loop's  *)
(* jump names its target.  Reads and writes of memory are the              *)
(* composition's, one word at a time.                                      *)
(***************************************************************************)
EXTENDS Dma9

CONSTANTS
    LastXChan,  \* The channels are 0..LastXChan; 7 in the code.
    Code        \* The programs: a sequence of instructions.

ASSUME CorelinkAssumption == LastXChan \in Nat

VARIABLE xdma  \* [chan, int_enable, int_flag].

CorelinkReset ==
    xdma' = [chan |-> [c \in 0..LastXChan |-> [xdma.chan[c] EXCEPT !.state = "STOP", !.fifo = <<>>]],
             int_enable |-> {}, int_flag |-> {}]

CorelinkInit ==
    xdma = [chan |-> [c \in 0..LastXChan |->
                [state |-> "STOP", PC |-> 1, source_addr |-> Nowhere, dest_addr |-> Nowhere,
                 inc_src |-> 0, inc_dest |-> 0, load_size |-> 0, store_size |-> 0,
                 loop_ctr |-> <<0, 0>>, fifo |-> <<>>]],
            int_enable |-> {}, int_flag |-> {}]

XChan == xdma.chan[run.ch]
Instr == Code[XChan.PC]

(* Channel run.ch is to carry out an instruction op. *)
Executes(op) ==
    run.phase = "xdma" /\ run.ch <= LastXChan /\ XChan.state = "EXEC" /\ Instr.op = op

-----------------------------------------------------------------------------
(* Registers.                                                               *)

WriteIe(events) ==
    /\ xdma' = [xdma EXCEPT !.int_enable = events]
    /\ UNCHANGED <<pending, late, IF_>>

ClearIf(events) ==
    /\ xdma' = [xdma EXCEPT !.int_flag = @ \ events]
    /\ UNCHANGED <<pending, late, IF_>>

(* exec_debug of DMAGO, by the manager, and of DMAKILL, by the channel.  A  *)
(* channel that is started has the FIFO it was left with.                   *)
DebugGo(c, pc) ==
    /\ xdma' = [xdma EXCEPT !.chan[c].state = "EXEC", !.chan[c].PC = pc]
    /\ UNCHANGED <<pending, late, IF_>>

DebugKill(c) ==
    /\ xdma' = [xdma EXCEPT !.chan[c].state = "STOP"]
    /\ UNCHANGED <<pending, late, IF_>>

-----------------------------------------------------------------------------
(* Corelink_DMA::run.                                                       *)

(* The turn of a channel that waits begins: it goes on if its line is       *)
(* raised.                                                                  *)
Wakes ==
    /\ run.phase = "xdma" /\ run.ch <= LastXChan
    /\ XChan.state = "WFP" /\ pending["XDMA_SHA"]
    /\ xdma' = [xdma EXCEPT !.chan[run.ch].state = "EXEC"]
    /\ UNCHANGED <<pending, late, IF_, chan, run>>

NextXChan ==
    /\ run.phase = "xdma" /\ run.ch <= LastXChan
    /\ XChan.state = "STOP" \/ (XChan.state = "WFP" /\ ~pending["XDMA_SHA"])
    /\ run' = [run EXCEPT !.ch = @ + 1]
    /\ UNCHANGED <<pending, late, IF_, chan, xdma>>

EndXdma ==
    /\ run.phase = "xdma" /\ run.ch > LastXChan
    /\ run' = [Cpu_ EXCEPT !.phase = "events"]
    /\ UNCHANGED <<pending, late, IF_, chan, xdma>>

(* DMALD, DMAST and the forms for a peripheral, which do nothing unless     *)
(* they are bursts: word run.i is moved, or the addresses are advanced.     *)
LoadSize == IF Instr.burst THEN XChan.load_size ELSE 0
StoreSize == IF Instr.burst THEN XChan.store_size ELSE 0
XSource == Moved(XChan.source_addr, run.i, XChan.inc_src)
XDest == Moved(XChan.dest_addr, run.i, XChan.inc_dest)
Moves_(op, size) == Executes(op) /\ run.i < size
AllMoved(op, size) == Executes(op) /\ run.i >= size

IsLoaded(word) ==
    /\ xdma' = [xdma EXCEPT !.chan[run.ch].fifo = Append(@, word)]
    /\ run' = [run EXCEPT !.i = @ + 1]
    /\ UNCHANGED chan

(* The FIFO must hold a word: an empty queue has none to return (undefined  *)
(* behaviour).                                                              *)
IsStored ==
    /\ XChan.fifo # <<>>
    /\ xdma' = [xdma EXCEPT !.chan[run.ch].fifo = Tail(@)]
    /\ run' = [run EXCEPT !.i = @ + 1]
    /\ UNCHANGED chan

EndLoad ==
    /\ AllMoved("LD", LoadSize)
    /\ xdma' = [xdma EXCEPT !.chan[run.ch].PC = @ + 1,
           !.chan[run.ch].source_addr = Moved(@, LoadSize, XChan.inc_src)]
    /\ run' = [run EXCEPT !.i = 0]
    /\ UNCHANGED <<pending, late, IF_, chan>>

EndStore ==
    /\ AllMoved("ST", StoreSize)
    /\ xdma' = [xdma EXCEPT !.chan[run.ch].PC = @ + 1,
           !.chan[run.ch].dest_addr = Moved(@, StoreSize, XChan.inc_dest)]
    /\ run' = [run EXCEPT !.i = 0]
    /\ UNCHANGED <<pending, late, IF_, chan>>

(* Mutant of LoopEnd: the loop ends when its counter reaches 0. *)
LoopEnd_OneLess(c, i, to) ==
    IF c.loop_ctr[i] > 1 THEN [c EXCEPT !.loop_ctr[i] = @ - 1, !.PC = to]
    ELSE [c EXCEPT !.PC = @ + 1]

(* DMALPEND: as many jumps as the counter says, and one turn more. *)
LoopEnd(c, i, to) ==
    IF c.loop_ctr[i] > 0 THEN [c EXCEPT !.loop_ctr[i] = @ - 1, !.PC = to]
    ELSE [c EXCEPT !.PC = @ + 1]

(* What an instruction does to its own channel. *)
Executed(c, instr) ==
    LET next == [c EXCEPT !.PC = @ + 1] IN
    CASE instr.op \in {"END", "KILL"} -> [next EXCEPT !.state = "STOP"]
      [] instr.op = "WFP" -> [next EXCEPT !.state = "WFP"]
      [] instr.op = "LP" -> [next EXCEPT !.loop_ctr[instr.index] = instr.n]
      [] instr.op = "LPEND" -> LoopEnd(c, instr.index, instr.to)
      [] instr.op = "MOV" -> Updated(next, instr.fields)
      [] OTHER -> next

(* exec_instr, of the others: SEV interrupts if its event is enabled, and   *)
(* FLUSHP drops a request, which nobody repeats.  A channel that ends or    *)
(* waits has had its turn, even if its line is raised already.              *)
XInstruction ==
    LET enabled == Instr.op = "SEV" /\ Instr.event \in xdma.int_enable
        goes == Executed(XChan, Instr).state = "EXEC"
    IN
    /\ run.phase = "xdma" /\ run.ch <= LastXChan /\ XChan.state = "EXEC"
    /\ Instr.op \notin {"LD", "ST"}
    /\ xdma' = [xdma EXCEPT !.chan[run.ch] = Executed(@, Instr),
                            !.int_flag = IF enabled THEN @ \union {Instr.event} ELSE @]
    /\ IF_' = IF enabled THEN IF_ \union {28} ELSE IF_
    /\ pending' = IF Instr.op = "FLUSHP" THEN Lines({}, {"XDMA_SHA"}) ELSE pending
    /\ run' = IF goes THEN run ELSE [run EXCEPT !.ch = @ + 1]
    /\ UNCHANGED <<late, chan>>
=============================================================================
