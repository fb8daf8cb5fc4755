-------------------------------- MODULE Dma9 --------------------------------
(***************************************************************************)
(* The NDMA of the ARM9 (arm9/dma9.cpp): request lines that the devices    *)
(* raise and drop, and channels that copy a block of words each time their *)
(* line is found raised, once per slice of Emulator::run.  A copy of a     *)
(* word is a read and a write on the bus, which may change any line; the   *)
(* processor does not run meanwhile.                                       *)
(*                                                                         *)
(* The bus is the composition's (module Arm9Devices): an address is a port *)
(* and a position, which only the memory looks at.  Words are opaque.      *)
(***************************************************************************)
EXTENDS Integers, Sequences, FiniteSets, TLC

CONSTANTS
    LastChan,   \* The channels are 0..LastChan; 7 in the code.
    CountLimit  \* transfer_count is modulo this; 2^32 in the code.

ASSUME Dma9Assumption == LastChan \in Nat /\ CountLimit \in Nat \ {0}

VARIABLES
    pending,  \* pending_ndma_reqs; XDMA_SHA stands for the XDMA's line.
    chan,     \* ndma_chan.
    late,     \* The requests for which a try_ndma_transfer_event is scheduled.
    run,      \* Where Emulator::run and run_ndma are.
    IF_       \* The interrupts asserted to the ARM9.

dmaVars == <<pending, chan, late, run, IF_>>

Requests == {"TIMER0", "CTRCARD0", "MMC1", "AES_WRITEFREE", "AES_READFREE",
             "SHA_IN", "SHA_OUT", "AES2", "XDMA_SHA"}

Nowhere == [port |-> "mem", at |-> 0]

IdleChan ==
    [source_addr |-> Nowhere, dest_addr |-> Nowhere, int_src |-> Nowhere,
     int_dest |-> Nowhere, transfer_count |-> 0, write_count |-> 0,
     src_step |-> 1, dest_step |-> 1, src_reload |-> FALSE,
     dest_reload |-> FALSE, startup_mode |-> "TIMER0", imm_mode |-> FALSE,
     repeating_mode |-> FALSE, irq_enable |-> FALSE, busy |-> FALSE]

(* The word that the memory and the drives hold at a position. *)
Data(n) == [data |-> n]

(* What is written over what was there, by position. *)
Over(new, old) ==
    [n \in DOMAIN new \union DOMAIN old |-> IF n \in DOMAIN new THEN new[n] ELSE old[n]]

(* run.phase is "cpu" while the processors run; "scan" while                *)
(* process_ndma_reqs is at channel run.ch; "read" or "write" while run_ndma *)
(* copies word run.i of that channel; "xdma" while the XDMA runs (Corelink);  *)
(* and "events" when the slice's events are due.                                                                 *)
Cpu_ == [phase |-> "cpu", ch |-> 0, i |-> 0, word |-> Data(0), imm |-> FALSE]
Scan(c) == [Cpu_ EXCEPT !.phase = "scan", !.ch = c]
Block(c, imm) == [Cpu_ EXCEPT !.phase = "read", !.ch = c, !.imm = imm]

DmaInit ==
    /\ pending = [r \in Requests |-> FALSE]
    /\ chan = [c \in 0..LastChan |-> IdleChan]
    /\ late = {}
    /\ run = Cpu_
    /\ IF_ = {}

(* DMA9::reset; the events that were scheduled are gone too. *)
DmaReset ==
    /\ pending' = [r \in Requests |-> FALSE]
    /\ chan' = [c \in 0..LastChan |-> IdleChan]
    /\ late' = {} /\ run' = Cpu_ /\ IF_' = {}

(* Lines that a device raises and drops in one call, and interrupts. *)
Lines(up, down) == [r \in Requests |-> r \in up \/ (pending[r] /\ r \notin down)]

(* A register of which some fields are written. *)
Updated(register, fields) ==
    [f \in DOMAIN register |-> IF f \in DOMAIN fields THEN fields[f] ELSE register[f]]

(* Source, destination, transfer count and block size of a channel. *)
WriteRegisters(c, source, dest, count, size) ==
    /\ chan' = [chan EXCEPT ![c].source_addr = source, ![c].dest_addr = dest,
                            ![c].transfer_count = count, ![c].write_count = size]
    /\ UNCHANGED <<pending, late, run, IF_>>

(* The control register.  ctrl has the fields it sets.  Only a channel that *)
(* was idle loads its addresses.                                            *)
WriteControl(c, ctrl) ==
    LET starts == ctrl.busy /\ ~chan[c].busy
        new == Updated(chan[c], ctrl)
    IN /\ chan' = [chan EXCEPT ![c] =
              IF starts THEN [new EXCEPT !.int_src = new.source_addr,
                                         !.int_dest = new.dest_addr]
              ELSE new]
       /\ run' = IF starts /\ ctrl.imm_mode THEN Block(c, TRUE) ELSE run
       /\ UNCHANGED <<pending, late, IF_>>

-----------------------------------------------------------------------------
(* process_ndma_reqs, and what surrounds it in a slice.                     *)

EndCpuSlice ==
    /\ run.phase = "cpu"
    /\ run' = Scan(0)
    /\ UNCHANGED <<pending, chan, late, IF_>>

Visit ==
    /\ run.phase = "scan" /\ run.ch <= LastChan
    /\ run' = IF chan[run.ch].busy /\ pending[chan[run.ch].startup_mode]
              THEN Block(run.ch, FALSE) ELSE Scan(run.ch + 1)
    /\ UNCHANGED <<pending, chan, late, IF_>>

EndScan ==
    /\ run.phase = "scan" /\ run.ch > LastChan
    /\ run' = [Cpu_ EXCEPT !.phase = "xdma"]
    /\ UNCHANGED <<pending, chan, late, IF_>>

(* Mutant of Wanted: the line is raised for nobody too. *)
Wanted_Always(req) == TRUE

Wanted(req) == \E c \in 0..LastChan : chan[c].busy /\ chan[c].startup_mode = req

(* try_ndma_transfer_event, for the events that are due. *)
TryNdmaTransferEvents(due) ==
    /\ run.phase = "events"
    /\ pending' = [r \in Requests |-> IF r \in due THEN Wanted(r) ELSE pending[r]]
    /\ late' = late \ due
    /\ run' = Cpu_
    /\ UNCHANGED <<chan, IF_>>

-----------------------------------------------------------------------------
(* run_ndma.                                                                *)

Copying == run.phase \in {"read", "write"}

Moved(addr, words, step) == [addr EXCEPT !.at = @ + words * step]

SourceAddr == Moved(chan[run.ch].int_src, run.i, chan[run.ch].src_step)
DestAddr == Moved(chan[run.ch].int_dest, run.i, chan[run.ch].dest_step)

HasMoreWords == run.phase = "read" /\ run.i < chan[run.ch].write_count

(* The device's part of each, which may change the rest, is the            *)
(* composition's.                                                          *)
WordIsRead(word) ==
    /\ run' = [run EXCEPT !.phase = "write", !.word = word]
    /\ UNCHANGED chan

WordIsWritten ==
    /\ run' = [run EXCEPT !.phase = "read", !.i = @ + 1]
    /\ UNCHANGED chan

(* Counting, for a channel that is not immediate and does not repeat: what  *)
(* is left wraps below 0.                                                   *)
Ended(c) ==
    LET left == (chan[c].transfer_count - chan[c].write_count) % CountLimit IN
    IF chan[c].imm_mode THEN [chan[c] EXCEPT !.busy = FALSE]
    ELSE IF chan[c].repeating_mode THEN chan[c]
    ELSE [chan[c] EXCEPT !.transfer_count = left,
                         !.busy = IF left = 0 THEN FALSE ELSE @]

(* The flags are swapped: dest_reload keeps the source, and vice versa. *)
Advanced(ch, words) ==
    [ch EXCEPT !.int_src = IF ch.dest_reload THEN @ ELSE Moved(@, words, ch.src_step),
               !.int_dest = IF ch.src_reload THEN @ ELSE Moved(@, words, ch.dest_step)]

(* Channels with AES2 that follow run as well, whatever their state. *)
AfterBlock(c) ==
    IF run.imm THEN Cpu_
    ELSE IF c < LastChan /\ chan[c + 1].startup_mode = "AES2" THEN Block(c + 1, FALSE)
    ELSE Scan(c + 1)

EndBlock ==
    LET c == run.ch
        finished == chan[c].imm_mode
                    \/ (~chan[c].repeating_mode /\ Ended(c).transfer_count = 0)
    IN /\ run.phase = "read" /\ run.i >= chan[c].write_count
       /\ chan' = [chan EXCEPT ![c] = Advanced(Ended(c), chan[c].write_count)]
       /\ IF_' = IF finished /\ chan[c].irq_enable THEN IF_ \union {c} ELSE IF_
       /\ run' = AfterBlock(c)
       /\ UNCHANGED <<pending, late>>
=============================================================================
