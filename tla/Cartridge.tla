----------------------------- MODULE Cartridge -----------------------------
(***************************************************************************)
(* The game card (arm9/cartridge.cpp): commands of its two modes, which    *)
(* share one buffer, the FIFO that empties or fills it, and the SPI bus of *)
(* the save memory.  Lengths are in words.  The card holds at position n   *)
(* the word n; the other things it returns are one word each kind.         *)
(***************************************************************************)
EXTENDS Dma9

CONSTANTS
    Early,        \* The words after which the NDMA is asked; 8 in the code.
    BufferWords,  \* The words fetched from the card at a time; 1024.
    SectorWords,  \* The words of a block of a command; 128.
    Header,       \* The position of the header; 1024.
    SaveWords     \* The words of the save's FIFO buffers; 256.

ASSUME CartridgeAssumption ==
    /\ Early \in Nat \ {0} /\ BufferWords \in Nat /\ SectorWords \in Nat \ {0}
    /\ SaveWords \in Nat \ {0} /\ Header \in Nat /\ Early < BufferWords

VARIABLES
    card,  \* The interfaces for commands, and the card's stream.
    save   \* The save memory and its bus.

cardVars == <<card, save>>

CartridgeInit ==
    /\ card = [busy |-> FALSE, ready |-> FALSE, irq_enable |-> FALSE,
               ntr_busy |-> FALSE, ntr_ready |-> FALSE,
               pos |-> 0, left |-> 0, blocks |-> 0, base |-> 0, kind |-> "none",
               at |-> 0, card2_active |-> FALSE, block |-> <<>>, written |-> <<>>]
    /\ save = [state |-> "IDLE", data |-> [n \in 0..(4 * SaveWords) |-> 0],
               addr |-> 0, cmd |-> 0, input |-> [n \in 0..(SaveWords - 1) |-> 0],
               in_pos |-> 0, output |-> [n \in 0..(SaveWords - 1) |-> 0],
               out_pos |-> 0, len |-> 0]

(* Cartridge::reset: what was read or is to be written to the card stays,   *)
(* and so do the buffers and the data of the save.                          *)
CartridgeReset ==
    /\ card' = [card EXCEPT !.busy = FALSE, !.ready = FALSE, !.ntr_busy = FALSE,
                            !.ntr_ready = FALSE, !.pos = 0, !.left = 0,
                            !.blocks = 0, !.card2_active = FALSE, !.block = <<>>]
    /\ save' = [save EXCEPT !.state = "IDLE", !.in_pos = 0, !.out_pos = 0, !.len = 0]

Quiet == UNCHANGED <<pending, late, IF_>>

WriteBlockCount(n) ==
    /\ card' = [card EXCEPT !.blocks = n + 1]
    /\ UNCHANGED save /\ Quiet

(* What a command has the FIFO return: how many words, of what.  Every      *)
(* command sets data_pos back, and so drops the words of a sector that was  *)
(* not complete.  (Reading the FIFO between two words of a sector would     *)
(* move data_pos too; no program does that, and it is not modelled.)        *)
Answer(words, kind, base) ==
    [card EXCEPT !.pos = 0, !.left = words, !.kind = kind, !.base = base, !.block = <<>>]

(* Commands of the NTR mode: those that return words, and those that do not. *)
NtrWords == [x90 |-> 1, x9F |-> 2 * BufferWords, xA0 |-> 1]

NtrCommand(cmd) ==
    /\ ~card.ntr_busy
    /\ \/ /\ cmd \in DOMAIN NtrWords
          /\ card' = [Answer(NtrWords[cmd], cmd, 0) EXCEPT
                          !.ntr_busy = TRUE, !.ntr_ready = TRUE]
       \/ /\ cmd \in {"x3E", "x71"}
          /\ card' = [card EXCEPT !.pos = 0, !.ntr_ready = FALSE, !.block = <<>>]
    /\ UNCHANGED save /\ Quiet

(* Commands of the CTR mode that return words, but for the sector of the    *)
(* header, command 82, which leaves the card behind that sector.            *)
CtrWords == [xA2 |-> 1, xA3 |-> 1, xC6 |-> 16]

CtrCommand(cmd, irq) ==
    /\ ~card.busy
    /\ \/ /\ cmd \in DOMAIN CtrWords
          /\ card' = [Answer(CtrWords[cmd], cmd, 0) EXCEPT
                          !.busy = TRUE, !.ready = TRUE, !.irq_enable = irq]
       \/ /\ cmd = "x82"
          /\ card' = [Answer(SectorWords, "card", Header) EXCEPT
                          !.busy = TRUE, !.ready = TRUE, !.irq_enable = irq,
                          !.at = Header + SectorWords]
       \/ /\ cmd \in {"x83", "xC4", "xC5"}
          /\ card' = [card EXCEPT !.pos = 0, !.ready = (cmd = "xC4"), !.irq_enable = irq,
                                  !.block = <<>>]
    /\ UNCHANGED save /\ Quiet

SmallerOf(a, b) == IF a < b THEN a ELSE b

(* Command BF reads the blocks of the count register, the first bufferful   *)
(* at once.                                                                 *)
CtrRead(addr, irq) ==
    LET words == card.blocks * SectorWords IN
    /\ ~card.busy
    /\ card' = [Answer(words, "card", addr) EXCEPT
                    !.busy = TRUE, !.ready = TRUE, !.irq_enable = irq,
                    !.at = addr + SmallerOf(words, BufferWords)]
    /\ UNCHANGED save /\ Quiet

(* Command C3 prepares a Card2 for writes, and C7 returns whether it is     *)
(* still expecting some: one word more than what is left.                   *)
Card2Begin(addr, sectors) ==
    /\ ~card.busy
    /\ card' = [Answer(sectors * SectorWords, "none", 0) EXCEPT
                    !.ready = TRUE, !.card2_active = TRUE, !.at = addr]
    /\ UNCHANGED save /\ Quiet

Card2Status ==
    /\ ~card.busy
    /\ card' = [Answer(card.left + 1, "status", 0) EXCEPT !.ready = TRUE]
    /\ UNCHANGED save /\ Quiet

-----------------------------------------------------------------------------
(* The FIFO.  It is read while it has words: beyond them the code reads     *)
(* past what it fetched, and past its buffer.                               *)

CardFifo == Data(IF card.kind = "card" THEN card.base + card.pos ELSE 0)

(* read32_ntr. *)
ReadNtrFifo ==
    LET last == card.left = 1 IN
    /\ card.ntr_ready /\ card.left > 0
    /\ card' = [card EXCEPT !.left = @ - 1, !.pos = @ + 1,
                            !.ntr_busy = @ /\ ~last, !.ntr_ready = @ /\ ~last]
    /\ UNCHANGED save /\ Quiet

(* Mutant of CtrAfterRead: the position is kept from one buffer to the next. *)
CtrAfterRead_KeepsPos(pos, left) ==
    IF left = 0 THEN [card EXCEPT !.left = 0, !.pos = pos, !.busy = FALSE, !.ready = FALSE]
    ELSE IF pos = BufferWords
    THEN [card EXCEPT !.left = left, !.pos = pos, !.base = card.at, !.at = @ + BufferWords]
    ELSE [card EXCEPT !.left = left, !.pos = pos]

CtrAfterRead(pos, left) ==
    IF left = 0 THEN [card EXCEPT !.left = 0, !.pos = pos, !.busy = FALSE, !.ready = FALSE]
    ELSE IF pos = BufferWords
    THEN [card EXCEPT !.left = left, !.pos = 0, !.base = card.at, !.at = @ + BufferWords]
    ELSE [card EXCEPT !.left = left, !.pos = pos]

(* read32_ctr: the line rises after the first words of each bufferful, and  *)
(* falls with its last.                                                     *)
ReadCardFifo ==
    LET pos == card.pos + 1
        left == card.left - 1
    IN /\ card.left > 0
       /\ card' = CtrAfterRead(pos, left)
       /\ pending' = IF left = 0 \/ pos = BufferWords THEN Lines({}, {"CTRCARD0"})
                     ELSE IF pos = Early THEN Lines({"CTRCARD0"}, {}) ELSE pending
       /\ IF_' = IF left = 0 /\ card.irq_enable THEN IF_ \union {23} ELSE IF_
       /\ UNCHANGED <<save, late>>

(* write32_ctr, of the FIFO: a sector is written when it is complete, and   *)
(* words after the last are dropped.                                        *)
WriteCardFifo(word) ==
    LET words == Append(card.block, word)
        full == Len(words) = SectorWords
    IN /\ card' = IF ~card.card2_active THEN card
                  ELSE [card EXCEPT
                           !.pos = IF full THEN 0 ELSE @ + 1,
                           !.left = @ - 1,
                           !.block = IF full THEN <<>> ELSE words,
                           !.at = IF full THEN @ + SectorWords ELSE @,
                           !.written = IF full
                               THEN Over([n \in card.at..(card.at + SectorWords - 1) |->
                                             words[n - card.at + 1]], @)
                               ELSE @,
                           !.card2_active = card.left > 1]
       /\ UNCHANGED save /\ Quiet

-----------------------------------------------------------------------------
(* The bus of the save memory.  The words of a command are its number and   *)
(* its address.                                                             *)

Fetched(addr, len) ==
    [n \in DOMAIN save.output |->
        IF n < len THEN save.data[addr + n] ELSE save.output[n]]

(* A write of NSPI_CNT that starts a command.  The first after an idle bus  *)
(* only selects the memory.  Command 5 returns the status and 9F the number *)
(* of the memory, 6 enables writes; any other ends the emulation, and so    *)
(* does one after a write that was not completed.                           *)
SpiCommand ==
    LET cmd == save.input[0]
        addr == save.input[1]
        started == [save EXCEPT !.in_pos = 0, !.out_pos = 0]
    IN /\ save.state # "WRITE_READY"
       /\ save.state = "SELECTED" => cmd \in {2, 3, 5, 6, 159, 235}
       /\ save' =
              IF save.state = "IDLE" THEN [started EXCEPT !.state = "SELECTED"]
              ELSE IF save.state = "NEEDS_PARAMS"
              THEN [started EXCEPT !.state = "SELECTED", !.addr = save.input[0],
                                   !.output = Fetched(save.input[0], save.len)]
              ELSE IF cmd = 2
              THEN [started EXCEPT !.state = "WRITE_READY", !.addr = addr, !.cmd = cmd]
              ELSE IF cmd = 3
              THEN [started EXCEPT !.addr = addr, !.cmd = cmd,
                                   !.output = Fetched(addr, save.len)]
              ELSE IF cmd = 235 THEN [started EXCEPT !.state = "NEEDS_PARAMS", !.cmd = cmd]
              ELSE IF cmd = 6 THEN [started EXCEPT !.cmd = cmd]
              ELSE [started EXCEPT !.cmd = cmd, !.output[0] = cmd]
       /\ UNCHANGED card /\ Quiet

WriteSpiLength(n) ==
    /\ save' = [save EXCEPT !.len = n]
    /\ UNCHANGED card /\ Quiet

WriteSpiFifo(word) ==
    /\ save.in_pos < SaveWords - 1  \* Otherwise the emulation ends: the last word never fits.
    /\ save' = [save EXCEPT !.input[save.in_pos] = word, !.in_pos = @ + 1]
    /\ UNCHANGED card /\ Quiet

SpiFifo == save.output[save.out_pos]

(* Mutant of Refilled: the address is not advanced. *)
Refilled_SameAddress(s) == [s EXCEPT !.out_pos = 0, !.output = Fetched(save.addr, s.len)]

(* A read of more than a bufferful goes on where the last ended. *)
Refilled(s) ==
    [s EXCEPT !.out_pos = 0, !.addr = @ + SaveWords,
              !.output = Fetched(save.addr + SaveWords, s.len)]

ReadSpiFifo ==
    LET s == [save EXCEPT !.out_pos = @ + 1, !.len = @ - 1]
        refill == s.out_pos >= SaveWords /\ s.len > 0
    IN
    /\ save.len > 0                       \* Otherwise the emulation ends,
    /\ refill => save.cmd \in {3, 235}    \* and so it does here.
    /\ save' = IF refill THEN Refilled(s) ELSE s
    /\ UNCHANGED card /\ Quiet

(* The end of a selection, which completes a write of the length's words. *)
ClearChipSelect ==
    /\ save' = [save EXCEPT
           !.state = "IDLE",
           !.data = IF save.state # "WRITE_READY" THEN @
                    ELSE Over([n \in save.addr..(save.addr + save.len - 1) |->
                                  save.input[n - save.addr]], @)]
    /\ UNCHANGED card /\ Quiet
=============================================================================
