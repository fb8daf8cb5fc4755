-------------------------------- MODULE Emmc --------------------------------
(***************************************************************************)
(* The controller of the NAND and the SD card (arm9/emmc.cpp): commands,   *)
(* the state of the card, and transfers of blocks through a FIFO with      *)
(* interrupts and requests to the NDMA.                                    *)
(*                                                                         *)
(* Lengths and positions are in words; a block length that is not a        *)
(* multiple of a word is not modelled.  The drive holds at position n the  *)
(* word n, until it is written.                                            *)
(***************************************************************************)
EXTENDS Dma9

VARIABLES
    mmc,    \* The controller and the state of its card.
    drive   \* [at, written]: the stream's position and what was written, by position.

mmcVars == <<mmc, drive>>

Fields == {"CMDEND", "DATAEND", "RXRDY", "TXRQ"}

(* The lengths of the two registers a card returns as data. *)
StatusWords == 16
ScrWords == 2

EmmcInit ==
    /\ mmc = [istat |-> {}, imask |-> {}, app_command |-> FALSE, state |-> "Idle",
              rd32rdy_pending |-> FALSE, rd32rdy_enable |-> FALSE,
              tx32rq_enable |-> FALSE, size |-> 0, pos |-> 0, blocks |-> 0,
              block_transfer |-> FALSE, buffer |-> "none", data_blocks |-> 0,
              block_len |-> 0, base |-> 0, block |-> <<>>, asserts |-> FALSE]
    /\ drive = [at |-> 0, written |-> <<>>]

(* EMMC::reset: the register of lengths and blocks stay. *)
EmmcReset ==
    /\ mmc' = [mmc EXCEPT !.istat = {}, !.imask = {}, !.app_command = FALSE,
                          !.size = 0, !.pos = 0, !.blocks = 0, !.buffer = "none",
                          !.block_transfer = FALSE, !.state = "Idle",
                          !.rd32rdy_pending = FALSE]
    /\ UNCHANGED drive

(* set_istat, of several fields: an interrupt for one that was not set. *)
SetIstat(m, fields) ==
    [m EXCEPT !.istat = @ \union fields,
              !.asserts = @ \/ (fields \intersect m.imask) \ m.istat # {}]

(* What a call that left the controller as m does to it and to the ARM9.    *)
Leaves(m) ==
    /\ mmc' = [m EXCEPT !.asserts = FALSE]
    /\ IF_' = IF m.asserts THEN IF_ \union {16} ELSE IF_

CommandEnd(m) == SetIstat(m, {"CMDEND"})

DataReady(m) ==
    SetIstat([m EXCEPT !.rd32rdy_pending = TRUE],
             IF m.rd32rdy_enable THEN {"RXRDY"} ELSE {})

WriteReady(m) ==
    SetIstat([m EXCEPT !.rd32rdy_pending = FALSE],
             IF m.tx32rq_enable THEN {"TXRQ"} ELSE {})

(* transfer_end, which also drops the lines MMC1 and AES2. *)
TransferEnd(m) ==
    SetIstat([m EXCEPT !.buffer = "none", !.block_transfer = FALSE,
                       !.rd32rdy_pending = FALSE,
                       !.state = IF @ \in {"Data", "Receive"} THEN "Transfer" ELSE "Standby",
                       !.istat = @ \ {"CMDEND"}],
             {"DATAEND", "CMDEND"})

EndLines == {"MMC1", "AES2"}

-----------------------------------------------------------------------------
(* Commands.  One that replies and nothing else ends at once.               *)

Moves == [Ready |-> [cmd |-> 2, to |-> "Identify"],
          Identify |-> [cmd |-> 3, to |-> "Standby"],
          Transfer |-> [cmd |-> 6, to |-> "Program"]]

SimpleCommands == {1, 2, 3, 6, 7, 8, 9, 10, 13, 16, 55}

SimpleCommand(cmd) ==
    /\ cmd \in SimpleCommands /\ ~mmc.app_command
    /\ Leaves(CommandEnd([mmc EXCEPT
           !.app_command = @ \/ cmd = 55,
           !.state = IF @ \in DOMAIN Moves /\ Moves[@].cmd = cmd THEN Moves[@].to ELSE @]))
    /\ UNCHANGED <<drive, pending, late>>

GoIdle ==
    /\ ~mmc.app_command
    /\ Leaves(CommandEnd([mmc EXCEPT !.istat = {}, !.state = "Idle"]))
    /\ UNCHANGED <<drive, pending, late>>

(* CMD12: the transition of transfer_end is made first, then its own. *)
StopTransmission ==
    LET m == TransferEnd([mmc EXCEPT !.size = 0]) IN
    /\ ~mmc.app_command
    /\ Leaves([m EXCEPT !.state = IF @ = "Transfer" THEN "Standby" ELSE @])
    /\ pending' = Lines({}, EndLines)
    /\ UNCHANGED <<drive, late>>

Begun(m, state) ==
    [m EXCEPT !.state = state, !.pos = 0, !.blocks = m.data_blocks,
              !.size = m.block_len, !.block_transfer = TRUE, !.buffer = "block"]

(* CMD18: the first block is fetched, and only the line AES2 is raised. *)
ReadMultiple(start) ==
    /\ ~mmc.app_command
    /\ Leaves(DataReady([Begun(mmc, "Data") EXCEPT !.base = start]))
    /\ drive' = [drive EXCEPT !.at = start + mmc.block_len]
    /\ pending' = Lines({"AES2"}, {})
    /\ UNCHANGED late

(* CMD25: no line is raised. *)
WriteMultiple(start) ==
    /\ ~mmc.app_command
    /\ Leaves(WriteReady([Begun(mmc, "Receive") EXCEPT !.block = <<>>]))
    /\ drive' = [drive EXCEPT !.at = start]
    /\ UNCHANGED <<pending, late>>

SimpleAppCommands == {6, 41, 42}

(* ACMD13 and ACMD51 return a register as data.  block_transfer is as the   *)
(* last transfer left it.                                                   *)
AppCommand(cmd) ==
    LET m == [mmc EXCEPT !.app_command = FALSE, !.istat = @ \ {"CMDEND"}]
        data == SetIstat([m EXCEPT !.rd32rdy_pending = TRUE, !.pos = 0, !.base = 0,
                                   !.buffer = IF cmd = 13 THEN "status" ELSE "scr",
                                   !.size = IF cmd = 13 THEN StatusWords ELSE ScrWords],
                         {"RXRDY", "CMDEND"})
    IN /\ mmc.app_command /\ cmd \in SimpleAppCommands \union {13, 51}
       /\ Leaves(IF cmd \in SimpleAppCommands
                 THEN CommandEnd([m EXCEPT
                          !.state = IF cmd = 41 /\ @ = "Idle" THEN "Ready" ELSE @])
                 ELSE data)
       /\ pending' = Lines(IF cmd = 51 THEN {"AES2"} ELSE {}, {})
       /\ UNCHANGED <<drive, late>>

-----------------------------------------------------------------------------
(* The FIFO.  Without a transfer it reads as 0 and drops what is written.   *)

MmcFifo == Data(IF mmc.size = 0 THEN 0 ELSE mmc.base + mmc.pos)

(* Mutant of BlocksLeft: the last block is not counted. *)
BlocksLeft_OneLate(m) == m.blocks

BlocksLeft(m) == m.blocks - 1

(* A block of several has been read: is there another?                      *)
NextRead(m) ==
    IF BlocksLeft(m) = 0 THEN TransferEnd([m EXCEPT !.blocks = 0])
    ELSE [m EXCEPT !.blocks = BlocksLeft(m), !.size = m.block_len, !.base = drive.at]

(* read_fifo32. *)
ReadMmcFifo ==
    LET taken == [mmc EXCEPT !.pos = @ + 1, !.size = @ - 1]
        read == [DataReady(taken) EXCEPT !.pos = 0]
        next == IF mmc.block_transfer THEN NextRead(read) ELSE TransferEnd(read)
    IN IF mmc.size # 1
       THEN /\ mmc' = IF mmc.size = 0 THEN mmc ELSE taken
            /\ UNCHANGED <<drive, pending, late, IF_>>
       ELSE /\ Leaves(next)
            /\ IF next.size = 0
               THEN /\ pending' = Lines({}, EndLines)
                    /\ UNCHANGED <<drive, late>>
               ELSE /\ drive' = [drive EXCEPT !.at = @ + mmc.block_len]
                    /\ pending' = Lines({"AES2"}, {})
                    /\ late' = late \union {"MMC1"}

(* read_fifo, which takes half a word and ends the transfer with the block; *)
(* here for the two halves of a word.                                       *)
ReadMmcFifo16 ==
    LET taken == [mmc EXCEPT !.pos = @ + 1, !.size = @ - 1] IN
    /\ mmc.size > 0
    /\ IF mmc.size > 1
       THEN mmc' = taken /\ UNCHANGED <<pending, IF_>>
       ELSE Leaves(TransferEnd(taken)) /\ pending' = Lines({}, EndLines)
    /\ UNCHANGED <<drive, late>>

(* Mutant of Stored: the words of a block go where the first went. *)
Stored_InPlace(words) == Over([n \in {drive.at} |-> words[1]], drive.written)

Stored(words) ==
    Over([n \in drive.at..(drive.at + Len(words) - 1) |-> words[n - drive.at + 1]],
         drive.written)

(* write_fifo32. *)
WriteMmcFifo(word) ==
    LET words == Append(mmc.block, word)
        taken == [mmc EXCEPT !.pos = @ + 1, !.size = @ - 1, !.block = words]
        done == [taken EXCEPT !.pos = 0, !.block = <<>>, !.blocks = BlocksLeft(taken)]
        more == mmc.block_transfer /\ BlocksLeft(taken) # 0
    IN IF mmc.size # 1
       THEN /\ mmc' = IF mmc.size = 0 THEN mmc ELSE taken
            /\ UNCHANGED <<drive, pending, late, IF_>>
       ELSE /\ drive' = [at |-> drive.at + Len(words), written |-> Stored(words)]
            /\ Leaves(IF more THEN WriteReady([done EXCEPT !.size = mmc.block_len])
                      ELSE TransferEnd(done))
            /\ IF more THEN late' = late \union {"MMC1"} /\ pending' = pending
               ELSE pending' = Lines({}, EndLines) /\ late' = late

-----------------------------------------------------------------------------
(* Registers. *)

WriteMmcRegisters(len, blocks) ==
    /\ mmc' = [mmc EXCEPT !.block_len = len, !.data_blocks = blocks]
    /\ UNCHANGED <<drive, pending, late, IF_>>

(* A mask that admits a field that is set does not interrupt. *)
WriteImask(fields, rd, tx) ==
    /\ mmc' = [mmc EXCEPT !.imask = fields, !.rd32rdy_enable = rd, !.tx32rq_enable = tx]
    /\ UNCHANGED <<drive, pending, late, IF_>>

(* ISTAT: the fields that are not in the value are cleared. *)
WriteIstat(fields) ==
    /\ mmc' = [mmc EXCEPT !.istat = @ \intersect fields]
    /\ UNCHANGED <<drive, pending, late, IF_>>
=============================================================================
