---------------------------- MODULE Arm9Devices ----------------------------
(***************************************************************************)
(* The engines on the ARM9's bus, composed through the request lines of    *)
(* the NDMA: Emulator::run gives the processor a slice, then the NDMA, then *)
(* the scheduled requests.  In its slices a driver of the ARM9 does jobs   *)
(* of one kind (job.route) and checks nothing but interrupts and the       *)
(* registers it may read.                                                  *)
(*                                                                         *)
(* What is written to the memory goes to out.                              *)
(***************************************************************************)
EXTENDS Aes, Sha, Emmc, Cartridge, Corelink, Rsa

CONSTANTS
    Jobs,       \* The jobs of a driver: records of a route and parameters.
    MaxJobs     \* Jobs a driver does.

(* A message for the SHA engine ends with a write of CNT; the channel that  *)
(* feeds it copies whole blocks, of which there is one, and no more words   *)
(* than it can count; and its end leaves room for the length in SHA-1       *)
(* (mode 2 and 3), where the code ends the emulation otherwise.             *)
ASSUME ShaJobsAssumption ==
    \A j \in Jobs : j.route = "sha" =>
        /\ j.n \in Nat /\ (j.mode = 0 \/ j.n % 16 < 14)
        /\ {"cnt", "end"} \subseteq j.todo
        /\ "in" \in j.todo => j.n \in 16..(CountLimit - 1)
        /\ "in!" \in j.todo <=> "in" \in j.todo
        /\ j.echo \in Requests \union {"none"}

(* The drivers of the other engines, likewise: what a register can hold, a  *)
(* channel that is started has been set up, and a transfer is one of whole  *)
(* blocks; a driver does all the steps of its protocol.  The jobs of the    *)
(* save memory are of one size: what an earlier job wrote stays there, and  *)
(* would be read after the words of a shorter one.                          *)
ASSUME JobsAssumption ==
    \A j \in Jobs :
        /\ j.route = "aes" =>
               /\ j.n \in Nat \ {0} /\ 4 * j.n < CountLimit
               /\ j.size \in {4, 8} /\ (4 * j.n) % j.size = 0
        /\ j.route = "mmc" =>
               /\ j.n \in Nat \ {0} /\ j.len \in Nat \ {0} /\ j.write \in BOOLEAN
               /\ j.by \in {"cpu", "AES2", "MMC1"}
               /\ "chan!" \in j.todo <=> j.by # "cpu"
        /\ j.route = "card" =>
               /\ j.n \in Nat \ {0} /\ {"blocks", "cmd", "chan", "chan!"} \subseteq j.todo
               /\ (j.n * SectorWords) % BufferWords = 0 /\ j.n * SectorWords < CountLimit
        /\ j.route = "copy" => j.n \in Nat /\ {"in", "in!"} \subseteq j.todo
        /\ j.route = "sd" => {"cmd", "ack"} \subseteq j.todo
        /\ j.route = "card2" => j.n \in Nat /\ {"begin", "end", "plain"} \subseteq j.todo
        /\ j.route = "rsa" =>
               /\ j.slot \in KeySlots /\ j.keyorder \in BOOLEAN /\ j.order \in BOOLEAN
               /\ {"slot", "order", "go"} \subseteq j.todo
        /\ j.route = "save" =>
               /\ j.n \in Nat /\ j.read \in 0..(4 * SaveWords) /\ j.cmd \in {3, 235}
               /\ {"select", "write", "addr", "cmd", "len", "off", "select2", "read",
                   "addr2", "len2", "param", "cmd2"} \subseteq j.todo
               /\ \A k \in Jobs : k.route = "save" => k.n = j.n

VARIABLES
    out,  \* What was written to memory, by address.
    job   \* The driver: its job, what it has yet to do, and how many are left.

devices == <<aesVars, sha, rsa, mmcVars, cardVars>>  \* But for the XDMA.
vars == <<dmaVars, devices, xdma, out, job>>

Program(j, left) == [j |-> j, todo |-> j.todo, left |-> left, fed |-> 0, from |-> 1]

Init ==
    /\ DmaInit /\ CorelinkInit /\ RsaInit /\ AesInit /\ ShaInit /\ EmmcInit /\ CartridgeInit
    /\ out = <<>>
    /\ \E j \in Jobs : job = Program(j, IF j.route = "keys" THEN 1 ELSE MaxJobs)

-----------------------------------------------------------------------------
(* The bus: Emulator::arm9_read32 and arm9_write32.                         *)

ByAes == UNCHANGED <<sha, rsa, mmcVars, cardVars>>
BySha == UNCHANGED <<aesVars, rsa, mmcVars, cardVars>>
ByMmc == UNCHANGED <<aesVars, sha, rsa, cardVars>>
ByCard == UNCHANGED <<aesVars, sha, rsa, mmcVars>>
ByRsa == UNCHANGED <<aesVars, sha, mmcVars, cardVars>>
NoDevice == UNCHANGED <<devices, pending, late, IF_>>

(* A word is written to the memory. *)
Store(at, word) == out' = Over([n \in {at} |-> word], out)

Word(addr) ==
    CASE addr.port = "mem" -> Data(addr.at)
      [] addr.port = "AES" -> RdFifo
      [] addr.port = "SHA" -> ShaFifo
      [] addr.port = "MMC" -> MmcFifo
      [] addr.port = "CARD" -> CardFifo

arm9_read32(addr) ==
    \/ addr.port = "mem" /\ NoDevice
    \/ addr.port = "AES" /\ ReadRdFifo /\ ByAes
    \/ addr.port = "SHA" /\ ReadShaFifo /\ BySha
    \/ addr.port = "MMC" /\ ReadMmcFifo /\ ByMmc
    \/ addr.port = "CARD" /\ ReadCardFifo /\ ByCard

arm9_write32(addr, word) ==
    \/ addr.port = "mem" /\ Store(addr.at, word) /\ NoDevice
    \/ addr.port = "AES" /\ write_input_fifo(word) /\ ByAes /\ out' = out
    \/ addr.port = "SHA" /\ WriteShaFifo(word) /\ BySha /\ out' = out
    \/ addr.port = "MMC" /\ WriteMmcFifo(word) /\ ByMmc /\ out' = out

DmaRead ==
    /\ HasMoreWords
    /\ WordIsRead(Word(SourceAddr)) /\ arm9_read32(SourceAddr)
    /\ UNCHANGED <<xdma, out, job>>

DmaWrite ==
    /\ run.phase = "write"
    /\ WordIsWritten /\ arm9_write32(DestAddr, run.word)
    /\ UNCHANGED <<xdma, job>>

XdmaLoad ==
    /\ Moves_("LD", LoadSize)
    /\ IsLoaded(Word(XSource)) /\ arm9_read32(XSource)
    /\ UNCHANGED <<out, job>>

XdmaStore ==
    /\ Moves_("ST", StoreSize)
    /\ IsStored /\ arm9_write32(XDest, Head(XChan.fifo))
    /\ UNCHANGED job

Ndma == (Visit \/ EndScan \/ EndBlock) /\ UNCHANGED <<devices, xdma, out, job>>
Xdma ==
    /\ Wakes \/ NextXChan \/ EndXdma \/ EndLoad \/ EndStore \/ XInstruction
    /\ UNCHANGED <<devices, out, job>>

Dma == DmaRead \/ DmaWrite \/ Ndma \/ XdmaLoad \/ XdmaStore \/ Xdma

(* A slice of less than a cycle of the ARM9 leaves the events to the next.  *)
Events(due) == TryNdmaTransferEvents(due) /\ UNCHANGED <<devices, xdma, out, job>>
Defer == Events({})
Deliver == late # {} /\ Events(late)

-----------------------------------------------------------------------------
(* The driver.                                                              *)

Mem(at) == [port |-> "mem", at |-> at]
Fifo(port) == [port |-> port, at |-> 0]

On(route) == run.phase = "cpu" /\ job.j.route = route

(* A step of the job, after those in needed. *)
Step(name, needed) ==
    /\ name \in job.todo /\ needed \intersect job.todo = {}
    /\ job' = [job EXCEPT !.todo = @ \ {name}]

(* An access of one device that is one step. *)
OnlyDma == UNCHANGED <<devices, xdma, out>>
OnlyXdma == UNCHANGED <<devices, chan, run, out>>
Registers_ == UNCHANGED <<chan, run, xdma, out>>

Control(mode, src, dest, irq) ==
    [src_step |-> src, dest_step |-> dest, startup_mode |-> mode, busy |-> TRUE,
     imm_mode |-> FALSE, irq_enable |-> irq]

(* The registers of a channel, then its control. *)
SetUp(c, name, needed, source, dest, count, size) ==
    /\ Step(name, needed) /\ OnlyDma
    /\ WriteRegisters(c, source, dest, count, size)

Launch(c, name, needed, mode, src, dest, irq) ==
    /\ Step(name, needed) /\ OnlyDma
    /\ WriteControl(c, Control(mode, src, dest, irq))

Fed(words) == job' = [job EXCEPT !.fed = @ + words]

(* AES: channel 0 feeds the engine and channel 1 empties it; they and the   *)
(* engine are started in any order.                                         *)
AesJob ==
    LET j == job.j
        n == 4 * j.n
    IN /\ On("aes")
       /\ \/ Step("count", {}) /\ write_block_count(j.n) /\ ByAes /\ Registers_
          \/ Step("ctr", {}) /\ write_ctr(job.from) /\ ByAes /\ Registers_
          \/ /\ Step("cnt", {"count", "ctr"}) /\ ByAes /\ Registers_
             /\ WriteCnt([mode |-> j.mode, in_word_order |-> j.inorder,
                          out_word_order |-> j.outorder, irq_enable |-> TRUE,
                          busy |-> TRUE], TRUE)
          \/ SetUp(0, "in", {}, Mem(job.from), Fifo("AES"), n, j.size)
          \/ Launch(0, "in!", {"in"}, "AES_WRITEFREE", 1, 0, FALSE)
          \/ SetUp(1, "out", {}, Fifo("AES"), Mem(job.from), n, 4)
          \/ Launch(1, "out!", {"out"}, "AES_READFREE", 0, 1, TRUE)

AesDone == {1, 15} \subseteq IF_

(* SHA: the processor writes the message, or channel 0 its whole blocks;    *)
(* channel 1 may read them back, for which it waits for SHA_OUT or AES2.    *)
(* AES2 is left raised by the last block that was read back, and a channel  *)
(* set up for it runs after channel 0 even before it is started: the driver *)
(* first lowers the line, and starts channel 0 last, before which a block   *)
(* could be lost.                                                           *)
ShaChannels(j) ==
    LET n == 16 * (j.n \div 16) IN
    \/ SetUp(0, "in", {}, Mem(job.from), Fifo("SHA"), n, 16)
    \/ Launch(0, "in!", {"in", "cnt", "out!"}, "SHA_IN", 1, 0, TRUE)
    \/ SetUp(1, "out", {}, Fifo("SHA"), Mem(job.from), n, 16)
    \/ Launch(1, "out!", {"out", "clear"}, j.echo, 0, 1, TRUE)

ShaCnt(j) == [mode |-> j.mode, in_dma |-> "in" \in j.todo, out_dma |-> "out" \in j.todo]

ByDma(j) == IF "in" \in j.todo THEN 16 * (j.n \div 16) ELSE 0
ChannelsDone(j) ==
    /\ "in" \in j.todo => 0 \in IF_
    /\ "out" \in j.todo => 1 \in IF_

ShaJob ==
    LET j == job.j
        next == ByDma(j) + job.fed
    IN /\ On("sha")
       /\ \/ /\ Step("cnt", {}) /\ BySha /\ Registers_
             /\ WriteShaCnt(ShaCnt(j), TRUE, FALSE)
          \/ /\ Step("clear", {}) /\ ByAes /\ Registers_
             /\ WriteCnt([in_word_order |-> aes.in_word_order], FALSE)
          \/ ShaChannels(j)
          \/ /\ job.todo = {"end"} /\ ChannelsDone(j) /\ next < j.n
             /\ Fed(1) /\ WriteShaFifo(Data(job.from + next)) /\ BySha /\ Registers_
          \/ /\ job.todo = {"end"} /\ ChannelsDone(j) /\ next = j.n
             /\ Step("end", {}) /\ BySha /\ Registers_
             /\ WriteShaCnt(ShaCnt(j), FALSE, TRUE)

ShaDone == job.todo = {}

(* XDMA: a program of Code at j.at, which copies memory or, for n blocks,   *)
(* reads back what NDMA channel 0 has had hashed.  The NDMA runs before the *)
(* XDMA in a slice, and the first word of its next block discards the last: *)
(* the driver starts it when it reads that the XDMA's channel waits, before *)
(* which a block could be lost.                                             *)
XdmaJob ==
    LET j == job.j IN
    /\ On("xdma")
    /\ \/ Step("ie", {}) /\ WriteIe({j.event}) /\ OnlyXdma
       \/ Step("if", {}) /\ ClearIf({j.event}) /\ OnlyXdma
       \/ Step("kill", {}) /\ DebugKill(j.chan) /\ OnlyXdma
       \/ Step("go", {"ie", "if", "kill"}) /\ DebugGo(j.chan, j.at) /\ OnlyXdma
       \/ /\ Step("cnt", {}) /\ BySha /\ Registers_
          /\ WriteShaCnt([mode |-> 0, in_dma |-> TRUE, out_dma |-> TRUE], TRUE, FALSE)
       \/ SetUp(0, "in", {}, Mem(job.from), Fifo("SHA"), 16 * j.n, 16)
       \/ /\ xdma.chan[j.chan].state = "WFP"
          /\ Launch(0, "in!", {"in", "cnt", "go"}, "SHA_IN", 1, 0, FALSE)

XdmaDone == 28 \in IF_ /\ job.todo = {}

(* eMMC.  A transfer is read or written by the processor, by a channel that *)
(* waits for AES2, or by the processor for its first block and a channel    *)
(* that waits for MMC1 for the others.                                      *)
MmcWords(j) == j.n * j.len
MmcByCpu(j) == IF j.by = "cpu" THEN MmcWords(j) ELSE IF j.by = "MMC1" THEN j.len ELSE 0

MmcSetUp(j) ==
    LET first == job.from + MmcByCpu(j)
        n == MmcWords(j) - MmcByCpu(j)
    IN \/ SetUp(0, "chan", {}, IF j.write THEN Mem(first) ELSE Fifo("MMC"),
                IF j.write THEN Fifo("MMC") ELSE Mem(first), n, j.len)
       \/ Launch(0, "chan!", {"chan"}, j.by, IF j.write THEN 1 ELSE 0,
                 IF j.write THEN 0 ELSE 1, TRUE)

MmcWord(j) ==
    /\ "cmd" \notin job.todo /\ "stop" \notin job.todo
    /\ job.fed < MmcByCpu(j) /\ ~(16 \in IF_) /\ Fed(1) /\ ByMmc /\ UNCHANGED <<chan, run, xdma>>
    /\ IF j.write THEN WriteMmcFifo(Data(job.from + job.fed)) /\ UNCHANGED out
       ELSE ReadMmcFifo /\ Store(job.from + job.fed, MmcFifo)

MmcJob ==
    LET j == job.j IN
    /\ On("mmc")
    /\ \/ /\ Step("regs", {}) /\ ByMmc /\ Registers_
          /\ WriteMmcRegisters(j.len, j.n)
       \/ /\ Step("mask", {}) /\ ByMmc /\ Registers_
          /\ WriteImask({"DATAEND"}, TRUE, TRUE)
       \/ Step("ack", {}) /\ WriteIstat({}) /\ ByMmc /\ Registers_
       \/ MmcSetUp(j)
       \/ /\ Step("cmd", {"regs", "mask", "ack", "chan!"}) /\ ByMmc /\ Registers_
          /\ IF j.write THEN WriteMultiple(job.from) ELSE ReadMultiple(job.from)
       \/ MmcWord(j)

(* A driver that gives up stops its channel before it sends CMD12, and      *)
(* begins its next job after a slice.                                       *)
MmcStopChannel ==
    /\ On("mmc") /\ job.j.stops /\ job.todo = {} /\ ~(16 \in IF_)
    /\ job' = [job EXCEPT !.todo = {"stop"}] /\ OnlyDma
    /\ WriteControl(0, [chan[0] EXCEPT !.busy = FALSE])

MmcStop ==
    /\ On("mmc") /\ Step("stop", {}) /\ ByMmc /\ Registers_
    /\ StopTransmission

(* The registers of an SD card are read by halves of words. *)
SdJob ==
    LET j == job.j IN
    /\ On("sd") /\ ByMmc /\ UNCHANGED <<chan, run, xdma>>
    /\ \/ Step("idle", {}) /\ GoIdle /\ out' = out
       \/ Step("any", {"idle"}) /\ (\E cmd \in SimpleCommands \ {55} : SimpleCommand(cmd))
          /\ out' = out
       \/ Step("app", {"any"}) /\ SimpleCommand(55) /\ out' = out
       \/ Step("cmd", {"app"}) /\ AppCommand(j.cmd) /\ out' = out
       \/ /\ "cmd" \notin job.todo /\ ReadMmcFifo16 /\ Fed(1)
          /\ Store(job.from + job.fed, MmcFifo)
       \/ Step("ack", {"cmd"}) /\ mmc.size = 0 /\ WriteIstat({}) /\ out' = out

SdDone == job.todo = {} /\ late = {}

MmcDone == job.todo = {} /\ 16 \in IF_ /\ late = {} /\ ~chan[0].busy

(* The card.  The processor reads the words before the line rises in each   *)
(* bufferful, and channel 0 the others, which go behind those; a Card2 is   *)
(* written by the processor.                                                *)
CardWord(j) ==
    /\ job.todo = {} /\ card.busy /\ card.pos < Early
    /\ ReadCardFifo /\ ByCard
    /\ Store(card.base + card.pos, CardFifo)
    /\ Fed(1) /\ UNCHANGED <<chan, run, xdma>>

CardJob ==
    LET j == job.j
        buffers == (j.n * SectorWords) \div BufferWords
        n == buffers * (BufferWords - Early)
    IN /\ On("card")
       /\ \/ Step("blocks", {}) /\ WriteBlockCount(j.n - 1) /\ ByCard /\ Registers_
          \/ Step("cmd", {"blocks"}) /\ CtrRead(job.from, TRUE) /\ ByCard /\ Registers_
          \/ SetUp(0, "chan", {}, Fifo("CARD"), Mem(job.from + j.n * SectorWords),
                   n, BufferWords - Early)
          \/ Launch(0, "chan!", {"chan"}, "CTRCARD0", 0, 1, TRUE)
          \/ CardWord(j)

CardDone == {0, 23} \subseteq IF_

Card2Job ==
    LET j == job.j IN
    /\ On("card2") /\ ByCard /\ Registers_
    /\ \/ Step("begin", {}) /\ Card2Begin(job.from, j.n)
       \/ /\ "end" \in job.todo /\ "begin" \notin job.todo /\ job.fed < j.n * SectorWords
          /\ Fed(1) /\ WriteCardFifo(Data(job.from + job.fed))
       \/ job.fed = j.n * SectorWords /\ Step("end", {"begin"}) /\ Card2Status
       \/ Step("plain", {"end"}) /\ \E cmd \in {"x82", "x83", "xA2", "xC4"} :
                                        CtrCommand(cmd, FALSE)
       \/ Step("ntr", {"plain"}) /\ ~card.busy /\ \E cmd \in {"x90", "x3E"} : NtrCommand(cmd)
       \/ "plain" \notin job.todo /\ card.busy /\ ReadCardFifo /\ job' = job
       \/ job.todo = {} /\ card.ntr_ready /\ ReadNtrFifo /\ job' = job

Card2Done == job.todo = {} /\ ~card.ntr_ready

(* The save memory: words are written, then read back, by either command.   *)
SaveJob ==
    LET j == job.j IN
    /\ On("save") /\ ByCard /\ UNCHANGED <<chan, run, xdma>>
    /\ \/ /\ Registers_
          /\ \/ Step("select", {}) /\ SpiCommand
             \/ Step("write", {"select"}) /\ WriteSpiFifo(2)
             \/ Step("addr", {"write"}) /\ WriteSpiFifo(0)
             \/ Step("cmd", {"addr"}) /\ SpiCommand
             \/ Step("len", {"cmd"}) /\ WriteSpiLength(j.n)
             \/ /\ job.fed < j.n /\ "len" \notin job.todo /\ "off" \in job.todo
                /\ Fed(1) /\ WriteSpiFifo(job.from + job.fed)
             \/ job.fed = j.n /\ Step("off", {"len"}) /\ ClearChipSelect
             \/ Step("select2", {"off"}) /\ SpiCommand
             \/ Step("read", {"select2"}) /\ WriteSpiFifo(j.cmd)
             \/ Step("addr2", {"read", "len2"} \ (IF j.cmd = 235 THEN {"len2"} ELSE {}))
                /\ (IF j.cmd = 235 THEN SpiCommand ELSE WriteSpiFifo(0))
             \/ Step("len2", {"read"}) /\ WriteSpiLength(j.read)
             \/ Step("param", {"addr2", "len2"})
                /\ (IF j.cmd = 235 THEN WriteSpiFifo(0) ELSE WriteSpiLength(j.read))
             \/ Step("cmd2", {"param"}) /\ SpiCommand
             \/ /\ job.todo = {} /\ save.len = 0 /\ save.state = "SELECTED"
                /\ ClearChipSelect /\ job' = job
       \/ /\ job.todo = {} /\ save.len > 0 /\ ReadSpiFifo /\ job' = job
          /\ Store(job.from + (j.read - save.len), SpiFifo)

SaveDone == job.todo = {} /\ save.state = "IDLE"

(* An immediate copy within the memory, forwards or backwards. *)
CopyJob ==
    LET j == job.j IN
    /\ On("copy")
    /\ \/ SetUp(0, "in", {}, Mem(job.from), Mem(job.from + j.n - 1), j.n, j.n)
       \/ /\ Step("in!", {"in"}) /\ OnlyDma
          /\ WriteControl(0, [Control("TIMER0", 1, -1, TRUE) EXCEPT !.imm_mode = TRUE])

CopyDone == 0 \in IF_

(* RSA: the key and the message are written unit by unit, each in its own   *)
(* order, and the result is read back.                                      *)
RsaJob ==
    LET j == job.j
        written == job.fed
    IN /\ On("rsa") /\ ByRsa
       /\ \/ /\ Registers_
             /\ \/ Step("slot", {}) /\ WriteRsaCnt(j.slot, j.keyorder, FALSE)
                \/ /\ "slot" \notin job.todo /\ "order" \in job.todo /\ written < 2 * Cells
                   /\ Fed(1)
                   /\ IF written % 2 = 0 THEN WriteExp(Data(job.from + written))
                      ELSE WriteMod(Data(job.from + written))
                \/ /\ written = 2 * Cells /\ Step("order", {"slot"})
                   /\ WriteRsaCnt(j.slot, j.order, FALSE)
                \/ /\ "order" \notin job.todo /\ written < 3 * Cells
                   /\ Fed(1) /\ WriteMsg(Data(job.from + written))
                \/ /\ written = 3 * Cells /\ Step("go", {"order"})
                   /\ WriteRsaCnt(j.slot, j.order, TRUE)
          \/ /\ 22 \in IF_ /\ \E n \in 0..(Cells - 1) :
                    /\ job.from + n \notin DOMAIN out
                    /\ Store(job.from + n, RsaWord(n))
             /\ job' = [job EXCEPT !.fed = @ + 1]
             /\ UNCHANGED <<chan, run, xdma, rsa, pending, late, IF_>>

RsaDone == Cardinality(DOMAIN out) = Cells

(* Keys: the words of this driver are numbered in the order it writes them. *)
KeyJob ==
    LET word == 10 + job.fed IN
    /\ On("keys") /\ ByAes /\ Registers_
    /\ \/ /\ job.fed < job.j.n
          /\ \E kind \in {"x", "y"} : WriteKeyFifo(kind, word) /\ Fed(1)
       \/ Step("dsi", {}) /\ \E i \in 0..3 : WriteDsiKey(0, "y", i, word)
       \/ Step("flip", {}) /\ WriteCnt([in_word_order |-> ~aes.in_word_order], TRUE)
       \/ Step("slot", {}) /\ WriteKeySelectors(0, 63)

KeyDone == job.fed = job.j.n

-----------------------------------------------------------------------------

Done ==
    CASE job.j.route = "aes" -> AesDone
      [] job.j.route = "sha" -> ShaDone
      [] job.j.route = "xdma" -> XdmaDone
      [] job.j.route = "rsa" -> RsaDone
      [] job.j.route = "mmc" -> MmcDone
      [] job.j.route = "sd" -> SdDone
      [] job.j.route = "card" -> CardDone
      [] job.j.route = "card2" -> Card2Done
      [] job.j.route = "save" -> SaveDone
      [] job.j.route = "copy" -> CopyDone
      [] job.j.route = "keys" -> KeyDone

(* A slice after which the DMAs find nothing and no request is due leaves   *)
(* everything as it is: it is a step only when all jobs are done.           *)
EndSlice ==
    /\ \/ late # {} \/ (Done /\ job.left = 1)
       \/ \E c \in 0..LastChan : chan[c].busy /\ pending[chan[c].startup_mode]
       \/ \E c \in 0..LastXChan :
              \/ xdma.chan[c].state = "EXEC"
              \/ xdma.chan[c].state = "WFP" /\ pending["XDMA_SHA"]
    /\ EndCpuSlice /\ UNCHANGED <<devices, xdma, out, job>>

NextProgram ==
    \E j \in Jobs :
        /\ j.route = job.j.route /\ j.todo = job.j.todo
        /\ job' = [Program(j, job.left - 1) EXCEPT !.from = job.from + 100]

(* The driver acknowledges its interrupts, and begins another job of the    *)
(* kind elsewhere in memory.                                                *)
NextJob ==
    /\ run.phase = "cpu" /\ Done /\ job.left > 1
    /\ IF_' = {} /\ out' = <<>>
    /\ NextProgram
    /\ UNCHANGED <<pending, chan, late, run, xdma, devices>>

(* Emulator::reset.  The FIFOs of the AES and SHA engines outlive it: they  *)
(* are reset when they have done their work.                                *)
Reset ==
    /\ run.phase = "cpu" /\ job.left > 1
    /\ job.j.route \in {"aes", "sha"} => Done
    /\ DmaReset /\ CorelinkReset /\ RsaReset /\ AesReset /\ ShaReset /\ EmmcReset /\ CartridgeReset
    /\ out' = <<>>
    /\ NextProgram

Driver ==
    \/ AesJob \/ ShaJob \/ XdmaJob \/ MmcJob \/ SdJob \/ MmcStopChannel \/ MmcStop \/ CardJob
    \/ Card2Job \/ SaveJob \/ RsaJob \/ CopyJob \/ KeyJob \/ NextJob

Next == Reset \/ Driver \/ EndSlice \/ Dma \/ Defer \/ Deliver

(* The processor and the NDMA run in every slice, and the processor long    *)
(* enough to go on with its job; not every slice is shorter than a cycle.   *)
(* Every one of these steps changes what progress names.                    *)
places == [c \in 0..LastXChan |-> <<xdma.chan[c].PC, xdma.chan[c].state>>]
progress == <<run.phase, run.ch, run.i, places, job, cardVars>>
Fairness ==
    /\ WF_progress(Dma) /\ WF_progress(EndSlice) /\ WF_progress(Defer \/ Deliver)
    /\ SF_progress(Driver) /\ SF_progress(Deliver)
Spec == Init /\ [][Next]_vars /\ Fairness

-----------------------------------------------------------------------------
(* What the devices should deliver, from the job alone. *)

(* Block b of the AES engine's input, and what the cipher makes of it: the  *)
(* modes are CCM decryption (which copies), CTR, CBC in both directions and *)
(* ECB.                                                                     *)
AesInput(b) ==
    [k \in 1..4 |-> Data(job.from + 4 * b + (IF job.j.inorder THEN k ELSE 5 - k) - 1)]

CbcEncrypted[b \in Nat] ==
    [k \in 1..4 |->
        [enc |-> IF b = 0 THEN <<"ctr", job.from>> ELSE <<"block", CbcEncrypted[b - 1]>>,
         key |-> None4, at |-> k, of |-> AesInput(b)]]

AesOutput(b) ==
    CASE job.j.mode = 0 -> AesInput(b)
      [] job.j.mode = 2 -> [k \in 1..4 |->
             [ctr |-> <<"ctr", job.from + b>>, key |-> None4, at |-> k,
              of |-> AesInput(b)[k]]]
      [] job.j.mode = 4 -> [k \in 1..4 |->
             [cbc |-> IF b = 0 THEN <<"ctr", job.from>> ELSE <<"block", AesInput(b - 1)>>,
              key |-> None4, at |-> k, of |-> AesInput(b)]]
      [] job.j.mode = 5 -> CbcEncrypted[b]
      [] job.j.mode = 6 -> [k \in 1..4 |-> [ecb |-> None4, at |-> k, of |-> AesInput(b)]]

AesExpected(n) ==
    LET i == n - job.from
        k == (i % 4) + 1
    IN AesOutput(i \div 4)[IF job.j.outorder THEN k ELSE 5 - k]

(* The power of the message by the key, in the order of the reader: the     *)
(* modulus and the message are numbers whose first unit written is the last *)
(* one without word_order, and the exponent always begins with it.          *)
RsaExpected(n) ==
    LET turned(order, i) == IF order THEN i - 1 ELSE Cells - i
        units(f(_)) == [i \in 1..Cells |-> Data(job.from + f(i))]
        exp(i) == 2 * (i - 1)
        mod(i) == 2 * turned(job.j.keyorder, i) + 1
        msg(i) == 2 * Cells + turned(job.j.order, i)
    IN [power |-> units(msg), exp |-> units(exp), mod |-> units(mod),
        at |-> turned(job.j.order, n - job.from + 1) + 1]

(* Where in the card the words come from that channel 0 writes. *)
CardExpected(n) ==
    LET i == n - job.from - job.j.n * SectorWords
        size == BufferWords - Early
    IN Data(IF i < 0 THEN n ELSE
            job.from + (i \div size) * BufferWords + Early + (i % size))

Expected(n) ==
    CASE job.j.route = "aes" -> AesExpected(n)
      [] job.j.route = "xdma" -> Data((IF job.j.n = 0 THEN job.j.first ELSE job.from - 1) + n)
      [] job.j.route = "rsa" -> RsaExpected(n)
      [] job.j.route = "sd" -> Data(n - job.from)
      [] job.j.route = "card" -> CardExpected(n)
      [] job.j.route = "save" -> IF n < job.from + job.j.n THEN n ELSE 0
      [] job.j.route = "copy" -> Data(2 * job.from + job.j.n - 1 - n)
      [] OTHER -> Data(n)

(* How many words a job that has ended leaves in the memory, and on a       *)
(* medium.  A transfer that was stopped has left its card on standby.       *)
InMemory(j) ==
    CASE j.route = "aes" -> 4 * j.n
      [] j.route = "sha" -> IF "out" \in j.todo THEN ByDma(j) ELSE 0
      [] j.route = "xdma" -> j.words
      [] j.route = "rsa" -> Cells
      [] j.route = "mmc" -> IF j.write THEN 0 ELSE MmcWords(j)
      [] j.route = "sd" -> CASE j.cmd = 13 -> StatusWords [] j.cmd = 51 -> ScrWords
                             [] OTHER -> 0
      [] j.route = "card" -> j.n * SectorWords
      [] j.route = "save" -> j.read
      [] j.route = "copy" -> j.n
      [] OTHER -> 0

OnMedium(j) ==
    CASE j.route = "mmc" -> IF j.write THEN MmcWords(j) ELSE 0
      [] j.route = "card2" -> j.n * SectorWords
      [] OTHER -> 0

Stopped == job.j.route = "mmc" /\ mmc.state = "Standby"

(* Every word that a device has delivered is the one that belongs at its    *)
(* address: none is repeated, taken from an empty FIFO or carried over from *)
(* an earlier job, however slices, requests and the steps of the driver     *)
(* interleave, and after a reset.  What is written to the drive and to a    *)
(* Card2 is the word of the memory at the same position.  And when a job    *)
(* has ended no word is missing.                                            *)
DeliveredIsExpected ==
    /\ \A n \in DOMAIN out : out[n] = Expected(n)
    /\ \A n \in DOMAIN drive.written : drive.written[n] = Data(n)
    /\ \A n \in DOMAIN card.written : card.written[n] = Data(n)
    /\ (run.phase = "cpu" /\ Done /\ ~Stopped) =>
           /\ Cardinality(DOMAIN out) = InMemory(job.j)
           /\ \A n \in job.from..(job.from + OnMedium(job.j) - 1) :
                  n \in DOMAIN drive.written \union DOMAIN card.written

(* A digest is that of the job's message, and of nothing that was in the    *)
(* FIFO before, wherever blocks end and whoever fed them.                   *)
DigestIsOfMessage ==
    (job.j.route = "sha" /\ job.todo = {}) =>
        sha.hash = Digest([i \in 1..job.j.n |-> Data(job.from + i - 1)])

(* A half of a key that came through a FIFO is four words in the order they *)
(* were written, in one of the two directions; and the key of a slot is     *)
(* made of the last Y of that slot.                                         *)
Ordered(v) ==
    \/ v = None4
    \/ \A i \in 1..3 : v[i] < v[i + 1]
    \/ \A i \in 1..3 : v[i] > v[i + 1]

KeysAreWhole ==
    /\ \A s \in Slots : Ordered(keys.slot[s]["x"])
    /\ Ordered(keys.slot[63]["y"])
    /\ \A s \in Slots : keys.slot[s]["normal"] # None4 =>
           keys.slot[s]["normal"][3] = keys.slot[s]["y"]

(* Every job ends: no channel waits for a line that nobody raises again.    *)
JobsEnd == <>(job.left = 1 /\ Done)
=============================================================================
