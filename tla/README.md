# Formal verification of Corgi3DS

Corgi3DS is a low-level emulator of the Nintendo 3DS: an ARM9 (the security
processor), two or four ARM11 cores (the application processor), a DSP, an
Xtensa core for Wi-Fi, and the devices around them. This directory holds TLA+
modules translated from its C++ source, TLC configurations that model-check
them on small instances, and proofs for TLAPS. Paths of source files are those
of the repository, relative to `src/`.

## 1. The system

One host thread (`EmuThread`) runs all emulated processors and devices, slice by
slice of emulated time; the Qt thread shows frames and passes input. Everything
"concurrent" in the emulated machine is therefore an interleaving that the frame
loop chooses: within a slice each ARM11 core, the ARM9, the DMA engines, the
DSP, the Xtensa core and the timers run in turn, and the cores interrupt each
other in the middle of each other's instructions through calls.

```
Qt thread:  EmuWindow --settings, boot--> EmuThread --> Emulator::run (one frame)
                      <--frame_complete, emu_error--        |
             +----------------------------------------------+
             | calculate_cycles_to_run | ARM11 cores, ARM9, DMA9, Corelink, DSP, Xtensa, timers |
             | process_events -> callbacks of I2C, NDMA, CLKCNT, VBLANK |
             +----------------------------------------------+
ARM11 cores <--line-- MPCore PMR <-- timers, GPU, PXI, I2C, DSP, Wi-Fi, DMA
ARM9        <--line-- Interrupt9 <-- timers, PXI, NDMA/XDMA, eMMC, AES, RSA, cartridge
ARM11 <----- PXI FIFOs, sync ----> ARM9      ARM11 <-- exclusive monitors, events --> ARM11
```

### Components

| Component (source) | State | Operations | Interacts with | What is hard | What makes it correct |
|---|---|---|---|---|---|
| Event scheduler (`core/scheduler.*`) | clock, list of events, closest time, slice lengths | `calculate_cycles_to_run`, `add_event`, `process_events`, `set_clockrate_11`, `reset` | everything that needs a delay | callbacks add to the list that is scanned; requests within a slice; signed and unsigned arithmetic | no event forgotten, early or out of order; lateness bounded; processors get the time of the slice |
| Frame loop (`core/emulator.*`) | `frame_ended`, all components | `run`, `reset`, memory-mapped register dispatch | all | exceptions leave a frame anywhere; a callback holds a reference to a local | frames end, after VBLANK; no reference outlives its frame |
| Emulator thread and window (`qt/emuthread.*`, `qt/emuwindow.*`) | `quit`, `has_frame_settings`, signal queue, key state | `run`, `boot_emulator`, `pass_frame_settings`, slots | frame loop | two threads, flags without a lock, an event queue | the emulator is used by one thread at a time; no lost or doubled frame; a boot starts emulation |
| ARM cores (`core/cpu/arm.*`, `arm_interpret.cpp`, `cp15.*`) | registers, mode, interrupt line, `halted`, event flag, exclusive region | instructions; here WFI, WFE, SEV, CPS, exception entry and return, LDREX, STREX, CLREX | PMR, Interrupt9, other cores | calls of other devices change the mode in mid-instruction; sleeping races waking | no sleeper is forgotten; interrupts are taken when and only when allowed; exclusives build locks |
| ARM11 interrupt controller (`core/arm11/mpcore_pmr.*`) | pending and active sets, masks, priorities, targets, per-core cause | `assert_hw_irq`, register reads and writes | ARM11 cores | every change must re-evaluate every core's line; early returns keep old causes | what is signalled is what comes first; an acknowledgement has a cause; all are served |
| ARM9 interrupt controller (`core/arm9/interrupt9.*`) | IE, IF | `write_ie`, `write_if`, `assert_irq` | ARM9 | no reset; line and registers are separate | line high exactly when needed; assertions wake |
| PXI (`core/pxi.*`) | two FIFOs, CNT and SYNC of both sides | register reads and writes | both interrupt controllers, Process9 logging | sender and receiver sleep; two interrupts per direction; logging edits the FIFO | order, no loss, no overflow, nobody waits in vain |
| Timers (`core/timers.*`) | 4 ARM9, 2 per ARM11 core | `run`, counter, load and control registers | both interrupt controllers | advanced by whole slices, read within them; chains | the cut into slices is invisible; interrupts at the exact tick |
| NDMA, XDMA (`core/arm9/dma9.*`) | 8 NDMA channels, request lines, XDMA engine | `try_ndma_transfer`, `process_ndma_reqs`, `run_ndma`, registers | scheduler, eMMC, AES, SHA, Interrupt9 | requests are delivered one cycle late; counters reload; AES2 lets the next channel run too | all words moved once; jobs end |
| Corelink DMA (`core/corelink_dma.*`) | channel threads, decoder state, per-channel FIFO | `run`, `exec_instr`, `set_pending` | memory, PMR / Interrupt9 | decoder state is shared by all channels; waits for peripherals and events | no lost event or request; loops count right |
| eMMC/SD (`core/arm9/emmc.*`) | command and transfer state, buffers | commands, `read_fifo`, `write_fifo`, `data_ready` | NDMA, files, Interrupt9 | transfers in blocks, commands in mid-transfer, two FIFO widths | every block once; the end is announced once |
| AES, SHA, RSA (`core/arm9/aes.*`, `core/sha_engine.*`, `core/arm9/rsa.*`) | FIFOs, counters, key slots | register writes, block processing | NDMA, Interrupt9 | FIFO levels, request lines, a shared line, halves of keys word by word | no FIFO overflow or underflow; what comes out is the function of what went in |
| Cartridge (`core/arm9/cartridge.*`) | command and transfer state, SPI save | register writes, block reads | DMA, Interrupt9 | transfer by request lines that fall and rise in its middle | as eMMC |
| I2C and MCU, SPI (`core/i2c.*`, `core/spi.*`) | per-bus registers, device state, MCU interrupt bits | `set_cnt`, `do_transfer`, MCU registers, buttons | scheduler, PMR, frame loop (reboot) | transfers complete later; reboot is thrown out of a callback | one completion per transfer; no button edge lost |
| ARM and Thumb interpreters (`core/cpu/arm.*`, `arm_interpret.cpp`, `thumb_interpret.cpp`) | registers, their banks, status words, caches of instruction page and table | instructions, exceptions, modes | MMU, memory, interrupt line | exceptions between and within instructions; return offsets; banks copied in and out | an interrupted or restarted program computes what an undisturbed one does; modes keep their registers |
| MMU, CP15 (`core/cpu/mmu.*`, `cp15.*`) | tables, caches of translations; the ARM9's regions | translation, reload, invalidation, regions | ARM cores | stale translations; regions overlap | an address translates as tables and regions say |
| DSP (`core/arm11/dsp*`) | core, contexts, interrupt controller, timers, sound FIFOs, API registers | instructions, `run`, registers | PMR | interrupts with and without a context of their own; loops that end by address | programs undisturbed by interrupts; replies and semaphores as PXI |
| Wi-Fi, Xtensa (`core/arm11/wifi*`, `xtensa*`) | the core's windows, levels, loops; SDIO card, mailboxes | instructions, `send_irq`; SDIO commands | PMR | windows rotate with calls and not with interrupts; masked interrupts | programs undisturbed by interrupts |
| GPU (`core/arm11/gpu.*`) | registers, fill/transfer engines, command list | register writes, interrupts | PMR, scheduler | completion delays | each completion interrupts once |
| VFP; disassemblers, `p9_hle`, settings windows, tests | none that the rest reads | | | | |

The hazards of each, at the line where they bite and with the properties that
cover them, are listed in `PROJECT.json`.

## 2. Modules

| Module | Models | EXTENDS | Checked by | Proved in |
|---|---|---|---|---|
| `Scheduler` | `core/scheduler.*` | | `emulator`, `scheduler_clamp` | `EmulatorProofs` |
| `Emulator` | `Emulator::run` on the scheduler | `Scheduler` | `emulator` | `EmulatorProofs` |
| `EmuThread` | `qt/emuthread.*` with the slots of `qt/emuwindow.*` | | `emu_thread`, `emu_thread_boot` | `EmulatorProofs` |
| `ArmCpu` | operators: interrupts and events of one ARM core | | with its users | |
| `MPCorePMR` | the ARM11's interrupt controller, with its cores | `ArmCpu` | `pmr`, `pmr_pair` | `MPCorePMRProofs` |
| `Interrupt9` | the ARM9's interrupt controller, with its core | `ArmCpu` | `pxi_rpc` | `ArmCpuProofs` |
| `PXI` | PXI, with the interrupts it raises | | `pxi_rpc` | `PXIProofs` |
| `PXIRpc` | an ARM11 client and an ARM9 server that talk through PXI | `PXI` (and an instance of `Interrupt9`) | `pxi_rpc` | `PXIProofs` |
| `Timers` | `core/timers.*` | | `timers` | `TimersProofs` |
| `Exclusives` | LDREX, STREX, CLREX and the monitors | | `spin_lock` | `ArmCpuProofs` |
| `SpinLock` | a lock that the cores build of them, with WFE and SEV | `Exclusives`, `ArmCpu` | `spin_lock` | `ArmCpuProofs` |
| `Dma9` | NDMA and its request lines | | `arm9_devices` | |
| `Corelink` | the XDMA's engine | `Dma9` | `arm9_devices` | |
| `Emmc`, `Aes`, `Sha`, `Rsa`, `Cartridge` | one engine of the ARM9's bus each | `Dma9` | `arm9_devices` | `Aes`: `Arm9DevicesProofs` |
| `Arm9Devices` | the bus, a driver's jobs, the slices that interleave them | all of these | `arm9_devices` | `Arm9DevicesProofs` (keys, digests, deliveries) |
| `Words`, `ArmAlu` | operators: words, shifts, arithmetic and flags | | with their users | |
| `ArmModes` | operators: the banks of registers | | with its users | |
| `ArmInterpreter`, `ThumbInterpreter` | operators: memory accesses, exceptions, instructions | `ArmAlu`, `ArmModes` | `processors` | |
| `ArmPrograms` | the loop of an ARM core, with programs and handlers | `ThumbInterpreter` | `processors`, `wide_compare` | |
| `BankedRegisters` | abstract: each mode has registers of its own | `ArmModes` | `processors` | |
| `ArmBanks` | the instructions that change modes; refines it | `ArmModes` | `processors` | `ProcessorProofs` |
| `Mmu`, `Pu` | the ARM11's translation; the ARM9's regions | | `processors` | `ProcessorProofs` |
| `Xtensa`, `XtensaPrograms` | the Wi-Fi card's core, and programs on it | `Words` | `processors` | |
| `Teak`, `TeakPrograms` | the DSP's core and devices, its loop and programs on it | | `processors` | |
| `Processors` | these processors in one specification | `ArmPrograms`, `ArmBanks`, `Mmu`, `Pu` | `processors` | |
| `NumberLemmas` | lemmas about numbers that the proofs share: induction, recursion, division | | by TLAPS | itself |

`MC*` modules give the values of the constants. A definition whose name ends in
`_Something` after that of another (`Call_AllDue`) is a mutant: the same
definition with a plausible bug. No specification uses it; replacing the
original by it makes a property fail, which shows that the property depends on
that piece of the code.

### How state and actions correspond to the code

**Scheduler.** Time is in ticks of the quantum clock. An event is a record with
its position in the order of insertion, its time and its kind; the list is in the
order of ids. `phase` is where the thread is (between slices, in a slice, scanning, in a callback): `add_event` can be called in three
of them and measures from a clock that during a slice still stands at its
beginning. `process_events` is one action for its head and one for each turn of
its loop, since callbacks add events between the turns; `it` is the iterator and
`new_time` the local. `exact` on an event is history, for the property `OnTime`.
The clamp in `calculate_cycles_to_run` assigns a variable that shadows the one
used, so the model has none. `RunFor` computes modulo `WORD` as the C++ does
with a signed and an unsigned operand.

**Emulator.** `RunBegins` and `RunArmsFrameEnd` are the two `add_event` calls of
`run()`, `SliceBegins` to `ClockAdvances` are the scheduler's actions under its
loop, `CallbackReturns` gives the callbacks of VBLANK their effect. The
reference that the second callback captures is `end_event`: the event that the
running call of `run()` added. `FatalError` may happen anywhere in a slice or a
callback (`EmuException::die` is called in about two hundred places), `Reboot` in
a callback of a device only (the MCU's I2C register).

**EmuThread.** Each access to a shared flag is a step. `quit` is a plain `bool`
that both threads write and one reads; the loop that reads it calls functions of
other translation units, so that every turn reads it again, and the model takes
each access as one step. The signals between the threads are Qt's queued connections (external), in order.

**ArmCpu, MPCorePMR, Interrupt9.** A core is a record of its line
(`int_pending`), its I bit, `halted`, `waiting_for_event`, `event_pending`, and
whether it is in IRQ mode. The operators of `ArmCpu` are the C++ functions of
the same name. `MPCorePMR` applies them to several cores with the registers of
the controller: each register write is an action, followed at once by the
evaluation (`Check`) that the code makes, and by no evaluation where it makes
none (priority mask, targets). Instructions are guarded by what the program
could do at that point: the program acknowledges in its IRQ vector and ends
interrupts before it returns. A core runs its instructions in a slice; the end
of its run tests the line (`FinishRun`).

**PXI, PXIRpc.** FIFOs are sequences of words; a word is its number, so that
order, loss and repetition show. `PXI` allows any register access at any time,
but that a program sends one word at most for each look that found room (`Send9`, `Send11`): `send_to_9` and
`send_to_11` themselves push without a limit, as the code does. `PXI` is what the theorems are about. `PXIRpc` restricts it to two programs: the
client on the ARM11 sends requests and sleeps while the FIFO is full or no
answer is there; the server on the ARM9 sleeps when there is no request or no
room. The model of their loops is external code: it is the protocol that the
registers and interrupts exist for (`PXI_CNT.send_empty`, `recv_not_empty`,
`sync`).

**Timers.** Both kinds of timer as functions of a number of clocks; ARM9 timers
count up modulo `W9` (2^16 in the code) and feed the next of a chain, ARM11
timers count down modulo `W11` (2^32). `fired9` and `fired11` are the interrupts of the last `run`.
`SlicesAreInvisible` compares, in every reachable state, one run of two slices'
length with two runs.

**Exclusives, SpinLock.** A region is the code's `[start, end]` pair; loads and
stores of several sizes at adjacent addresses. `SpinLock` adds the memory cell
and the program: LDREX, WFE while taken, STREX, and SEV after the store that
frees it.

**Dma9, Corelink, Arm9Devices.** A slice is a turn of the processor, then of the
NDMA, then of the XDMA, then of the scheduler's events, in the order of
`Emulator::run`; `run.phase` says where it is. One word read and one word written
are a step each, because each may raise or drop a request line, which the scan
of the channels reads later. `late` holds the requests that were asked for and
not yet delivered (`try_ndma_transfer` schedules them one cycle later); a slice
may deliver them or leave them to the next. The devices are functions of their
own state; the bus of `Arm9Devices` dispatches words to them by port
(`arm9_read32`, `arm9_write32`). The driver is external: a job is a record with
the set of its remaining steps, and each step names only the steps that the
hardware's protocol wants before it, so that TLC takes register writes in every
order that a driver may choose. Jobs of one kind follow each other without a
reset of the device. A word is a number; what the AES, the hash and
RSA make of words is a record of the arguments (an uninterpreted function), so
that a result is right exactly if it was computed of the right words in the
right order with the right key. `Reset` may end a job between any two steps of
its driver (for AES and SHA, whose FIFOs outlive it, only a job that is done).
A channel of the XDMA has its turn once in a slice: its line is tested at the
beginning, and an instruction that makes it wait ends the turn, also when the line is
high (`Wakes`, `NextXChan`, `XInstruction`). It then goes on a slice later, after the NDMA's turn,
whose next block makes the SHA engine drop what was not read of the last one. The driver of such a job
therefore starts the NDMA only when the channel waits.

**ArmInterpreter, ThumbInterpreter, ArmPrograms.** Decoding is left out: an
instruction is a record of the fields that its handler cuts out of the word, and
the operators have the handlers' names. A core is a record `s`, a step a function
of it. Data aborts are C++ exceptions in the code; here a field `fault` that
stops what follows it in the instruction. The program comes with external
handlers of the kind an operating system has: the interrupt handler saves what it uses
(by SRS and a push, or on the mode's own stack) and acknowledges; the abort handlers map the page
and return to the same instruction. Interrupts may be raised between any two
instructions, `MaxInterrupts` times; pages are absent at the start, so that
every access and fetch misses once. Where the code logs a system call or a return it reads the
program's memory, and such a read may abort like any other. What ends the emulation (`EmuException::die`)
sets `died`, after which the machine takes no step, so that `ProgramsEnd` fails if a program comes there; the
same holds of the other two machines.

**ArmModes, ArmBanks, BankedRegisters.** The code keeps the current mode's
registers in `gpr` and exchanges them with a bank on a change of mode, so that
the current mode's bank holds the user's registers meanwhile. `FileOf` is the
refinement mapping: what each mode's registers are, given that. `ArmBanks`
writes registers of the current mode and of another (block transfers with `^`, SRS),
changes mode and takes exceptions of every kind, in any mode. An exception that is taken in its own mode
(a system call in supervisor mode, a data abort in an abort handler) writes the slot in which that
mode keeps the user's link register, so `BankedRegisters` has it write the user's.

**Mmu, Pu.** `Mmu`'s tables are data of the program, which may change an entry and a base
at any time and then owes the invalidations the architecture asks for; `stale`
is the set of pages it owes. An access that misses loads the whole section, as
`reload_tlb_by_table` does. `Pu` places, moves, disables and enables the regions and sets
their permissions, in any order and as often as the program likes, and checks
each page's permission against the enabled region with the highest number. `leftover` is history: pages that a
region was moved away from, which stay as they were until something maps them.

**Xtensa, XtensaPrograms.** As the ARM core: a record, instructions as records,
programs that interrupts of all levels break into, with handlers that use the
program's own window. A program is interrupted for the input with which it runs
longest, at each of its instructions; for its other inputs it runs alone, as on
the DSP.

**Teak, TeakPrograms.** A state record `d` with the registers, the context that is swapped,
the address units, loops, and the devices in the core's address space: interrupt
controller, a timer, a sound FIFO and the command registers that the ARM side
writes. Words have 8 bits instead of 16 and accumulators 20 instead of 40, whose
wider integers are kept as in the code. Fields of the status registers keep
their order, but sit where a word of 8 bits has room for them. The
programs are dot products, scaling and saturation, circular buffers, bit
reversal, nested block repeats, calls in loops, double-word arithmetic, frames
on the stack, bit tests, the timer, the sound FIFO and the exchange of commands;
interrupts come with a context switch, with a vector and
without, and by a line. `logic` and `moves` run without interrupts.

**Processors.** The machines share nothing, so `focus` chooses one of them in the initial
state and only it moves; the state of the others is a constant. One run then checks
all of them.

## 3. Runs

| Run | Instance | What it shows |
|---|---|---|
| `emulator` | slices of 8 ticks, frame of 15, events up to tick 40, 6 events, delays from 0 ticks to longer than a slice, 2 ARM11 rates | events in order and on time, processors get their cycles, a frame ends and after its VBLANK, no dangling reference, and every step is a step of `Scheduler` |
| `scheduler_clamp` (violation) | the instance of `emulator` | an event added within a slice with a short delay sets the clock back |
| `emu_thread` | no parameter: the hand-over is finite | the emulator is never shared, one frame in flight, HOME edges alternate, settings that are waited for arrive |
| `emu_thread_boot` (violation) | the same | a boot on the heels of an error is lost |
| `pmr` | 1 core, a private timer and a device, 2 priorities, 2 priority masks, 3 preemption masks, WFE | every register in every order: the cause is the best, no nesting |
| `pmr_pair` | 2 cores, a software interrupt and a device for both, no WFE | a cause at each acknowledgement, no sleeper with an interrupt, every interrupt served |
| `pxi_rpc` | FIFOs of 2 words, 4 words per direction | both sides fill, drain, sleep and wake; all is answered in order |
| `timers` | a chain of three ARM9 timers that count modulo 3, or one ARM11 timer that counts modulo 6, slices of 1 and 7, 12 clocks | advancing by slices is advancing continuously; interrupts exactly when due |
| `spin_lock` | 3 cores, cells of 2, 4 and 8 bytes side by side | reservations exact, exclusion, no sleeper on a free lock, the lock is taken |
| `arm9_devices` | 36 jobs of eleven kinds, two in a row of each, channels 0 and 1 of the NDMA and of the XDMA, late requests, a reset | each delivered word is the right one at its place, none is missing at the end, digests and keys are whole, every job ends |
| `processors` | words of 8 bits (bytes of 2), ARM programs with an interrupt at any instruction and every page missing once; 7 modes with the registers 8 and LR; two tables of 4 sections of 2 pages; 3 regions of 8 pages; 8 windows; DSP programs with up to two interrupts | interrupted programs compute their functions and end; banks are private; translations and regions are as the tables say |
| `wide_compare` (violation) | the ARM core without interrupts, all pairs of numbers of two words of `Few` | the comparison of two-word numbers by CMP, SBCS and LT is wrong for some |

**Bounds, and why they suffice.**
`MaxEvents` and `MaxTime` (scheduler) leave room for two frames with two device
events each, or one with four, added in every phase. Time is scaled so that a
slice of 256 ticks is one of 8: the 6 ticks of an NDMA request become 0, the 96
of a change of the clock rate 3, and delays of 6, 9 and 12 ticks end within the
slice or after it. The ratios of the clock rates are those of the machine.
`MaxSends` (PMR) is the number of
interrupts that are asserted between two resets: two, so that one arrives while
another is pending, signalled or active. `Depth` is 2 instead of 16:
the code compares the size with 16, empty and nothing else, and logging keeps
words behind those of one command. `MaxWords` is twice the depth. In `PXIRpc.cfg`,
`Cnts` and `Accepts` are empty because they parameterise only the free register
writes of `PXI`'s own next-state relation, which `PXIRpc` does not use; its
programs write the values they need. `MaxClocks` lets an ARM11 timer
accumulate the clocks of more than one slice of 7; counters of 3 and 6 values
wrap within a slice and in several places of it. Only one processor programs its timers
in a behaviour (`OneSideSpec`), since the two kinds share nothing but the call that runs them.
Three cores for the lock give a holder, a taker and a sleeper.

The jobs of `arm9_devices` are of the lengths around a block's: one block, a
word less or more, several blocks, and message ends at which the padding of a hash takes one block
or two. `MaxJobs` is two, since what a job leaves
behind in FIFOs, counters and lines is met by the next. A buffer of the card has
four words instead of 128, of which two (`Early`) come before the line rises; a
sector is one buffer. `Header` is where a card's header is, behind what the jobs read. `CountLimit` and `BlockLimit` are those of the code. Channels
beyond two of each engine differ only by their number, and by their place in the scan.

In `processors`, a word of 8 bits is as wide as four bytes of 2 bits, which keeps
every width relation the code writes as 8, 16, 24 or 32; `Few`, `More` and `SomeWords` hold
the smallest and largest words, both sides of the sign, and some in between. One
interrupt per ARM program is raised at any of its instructions,
including those of the abort handlers; two on the Wi-Fi core and the DSP make
one interrupt another. `MaxWrites` is 1: one entry of a table changes at a time, at any
time, and the bases as often as the program likes. `Places` are one place for the lowest region, two for the
second and one for the highest: inside a lower region at either end, overlapping, and disjoint. `Permissions` of two values tell a mapped page with
rights from one without.

Deadlock is checked except in the `emu_thread` runs, where the emulator stops
for good when nobody boots it, and in `processors` and `wide_compare`, where a
program ends and its core is not given another.

**Fairness.** `Scheduler` and `Emulator`: the thread's own steps (weak), as the
loop of `run()` has no other way to go on; nothing is assumed of devices, errors
or the user. `EmuThread`: each thread is scheduled by the host; the user need do
nothing; a frame ends because `FramesEnd` of `Emulator` holds. `MPCorePMR`:
`run()` gives each core that is not halted its turn in each slice and the turn
ends (`BeginRun`, `FinishRun`); of the program it is assumed that in its turns it
executes its vector, which acknowledges, ends and returns, that it enables
interrupts again and again, and that it does not disable them before the end of
every single run. These are strong, since the turns of a core come and go. `PXIRpc`: both programs run, as both
processors get cycles in each slice (`CyclesMatchSlice`). `SpinLock`: each core
runs its program (weak), so that the holder frees the lock. `LockIsTaken` does
not promise that each core gets its turn: the lock has no queue.
`Arm9Devices`: the loop of `Emulator::run` goes on (weak fairness of the DMA's steps, of
the end of a slice, and of the events' turn); a request that was asked for is delivered in some
slice, since time passes, and a driver that can always again take a step in its
slices takes one (strong, as slices come and go). `progress` names the variables
that each of these steps changes. `Processors`: a core that is not at the end of its program and whose next
instruction changes anything runs it. The formulas `<>[]P => []<><<A>>_v` are weak
fairness of the step `A`, with its enabling condition `P` written out, since TLC
would otherwise evaluate a whole instruction to see whether it is enabled.

## 4. Theorems

TLAPS checks the modules `*Proofs` and `NumberLemmas`. The constants are
arbitrary: any slice length, rates, number of events, cores, interrupts, cells,
FIFO depth, counter width, page tables and regions. The inductive invariants
were checked by TLC on the runs' instances before they were proved.

* **Scheduler** (`EmulatorProofs`). The properties are not inductive by themselves. `IInv` adds:
  `closest` bounds every event from below, also while callbacks add events to the
  list that is scanned; the clock is within one slice of `closest`; what a scan
  has passed is later than `closest` and not earlier than `new_time`; the event
  that is called is at `closest` exactly; and the clock has not passed an event
  that was not asked for within a slice with a short delay. The order of calls,
  timeliness and the bound on a set-back follow.
  `SchedulerCyclesMatchSlice` is a fact about two integer divisions: a processor is
  given the whole cycles that fit into the slice, and one more exactly when the remainder reaches the threshold of
  `scheduler.cpp:49-53`; nothing is carried over, since the next slice overwrites the remainder.
  `SchedulerSetBackForLateEvents` says why the clock is ever set back: but for a reset, it goes to the
  tick of the next event of the list, and that was asked for within a slice with a delay that the slice may outlast (NDMA asks
  for 6 ticks, CLKCNT for 96, a slice has 256), which is the finding of `scheduler_clamp`. Its invariant
  is `ClosestIsOfEvent`: whenever `closest_event_time` lies before the clock or before the end of the slice, an event
  of the list is due then, so that a negative slice always has one that asked for it.
  *Assumptions*: `ClockAssumption`, `WordAssumption` (a slice of full length times
  the quantum rate does not wrap the word it is computed in), `RequestAssumption`,
  `BoundAssumption`, which hold of the code's constants.
* **Emulator** (`EmulatorProofs`). Each action maps to a step of the scheduler or a stutter, so the
  scheduler's invariant carries over (`EmulatorKeepsTime`). `FrameInv` counts the events of a frame:
  between frames none is in the list, while entering only the first, while
  running at most one of each, and the end is later than the start.
  An exception leaves them in the list, but then the machine is reset before the
  next frame; the proof needs exactly that.
* **EmuThread** (`EmulatorProofs`). The right to use the emulator is a token that the
  two threads pass on without a lock: unread settings, a frame, a signal in the
  queue, a drawing (`OneToken`: one of them at most). A boot is the only other user,
  and is possible only when there is no token (`Bootable`, `Booted`). From these and
  `HomeInv` follow the three safety properties, for any number of frames,
  errors and boots, including the boot that the finding of `emu_thread_boot` loses.
* **MPCorePMR**. `IInv` relates each core's line to the local controller: a line
  is high only with a cause, the cause is the first of what can be asserted, and
  active interrupts mask it. `PmrHaltedHasNoInterrupt` has the hypothesis that
  programs do not use WFE, which sleeps without a look at the line.
* **Interrupt9** (`ArmCpuProofs`). The line is high only for an interrupt enabled and asserted; no
  sleep on a high line; an assertion wakes. From any IE and IF, since nothing
  resets them.
* **SpinLock** (`ArmCpuProofs`). `MonitorInv` relates reservations to the history of writes and
  gives `ReservationIsExact`; `LockInv` says that a core between its successful
  STREX and its release is the only one and that the cell is 1, from which
  exclusion follows for any number of cores. `SleepInv` gives
  `NobodySleepsOnAFreeLock`: a core that sleeps, *or is about to without an event
  pending*, has its event on the way from a core that has the lock or is at its SEV;
  the second half is what makes it inductive, since it covers a core between its
  look at the lock and its WFE.
* **PXI** (`PXIProofs`). Sizes, order and the interrupts of the ARM9, for programs that write any
  register at any time but send a word only after they read that the FIFO is not
  full (`Send9`, `Send11`). The code has no such limit of its own; programs that do not look overrun the FIFO. A FIFO holds the words sent last, one after the other, and what was read
  is older; the logging of a command takes all words out and puts them back,
  which restores the FIFO (`LoggingRestores`).
  `PXIRpcFifos` states the same of the two programs without that hypothesis, which they meet.
  `PXIRpcNobodyWaitsInVain` says that none of them sleeps while what it waits for is there,
  for any depth and number of words: `RInv` says for each place of a program at
  which it may sleep that either what it saw still holds, or its interrupt is
  pending or its line is high (`ServerListens`, `ClientListens`); the programs enable what they wait
  for while they boot (`ClientBoots`).
* **Timers** (`TimersProofs`). For any widths, prescalers, loads and slices: an ARM11
  timer interrupts in a slice exactly if its clocks reach its counter
  (`TimersFireWhenDue`), what a program reads of it goes down by the clocks
  that passed (`TimersReadingsGoDown`), the cut of time into slices is invisible up to the
  left-over of a one-shot timer (`TimersSlicesAreInvisible`), and a chain of ARM9
  timers counts as one wide counter (`TimersChainIsOneCounter`). The loops of
  `Timers::run` are recursive functions on the naturals; their values are known by
  induction, in the form `NumberLemmas` proves it in: over a set of numbers, not over an
  operator. The divisions of a chain are `DivSplit` and `DivMonotone`. The theorems are
  of `Spec`, in which a program drives both sides at once; the run checks the restriction `OneSideSpec`.
* **Keys of the AES engine** (`Arm9DevicesProofs`). `Arm9KeysAreWhole`, for any jobs: what a key FIFO holds
  are the first words of a half of a key in the order they were written, placed from the end
  that CNT names (`Partial`); a change of that order empties the FIFO. The NDMA, the
  XDMA, the other engines' drivers, and a reset do not touch the slots or, but for CNT, the order, which is a
  lemma for each of them (`DmaKeeps`, `AesJobKeeps`, ...).
* **Digests of the SHA engine** (`Arm9DevicesProofs`). `Arm9DigestIsOfMessage`, for messages of any length, fed by the
  processor, by channel 0, or by one after the other, with any number of other channels. `ShaInv`
  says that the engine has taken the first words of the message, as many as it was given
  (`Accepted`): whole blocks of 16 in its hash and the rest in its FIFO (`Taken`). How many channel 0
  gave it follows from its registers, which step by blocks while `run` says where in a block
  it is (`Working`, `CopyingFeeds`), so that the next word is that of the message after the
  last whether or not its line stayed raised; the next job and a reset find the FIFO empty, which neither of
  them empties, because a driver ends a message with a final round. Each step of the DMAs, the driver and
  the reset is a lemma (`ShaDmaRead`, `FedBlockEnds`, `FeederIsStarted`, ...). `FinalIsDigest` is about the operators alone: the blocks
  hashed so far, followed by `FinalBlocks` of the rest, are the blocks of the padded message,
  in both of the code's cases, one final block and two.
  *Assumption*: `ShaJobsAssumption` on the drivers: a message has a start and an end, a channel that is set up is also
  started, and copies one block at least and no more words than its register counts; and SHA-1 and mode 3 leave
  room for the length in the last block, where the code otherwise ends the emulation.
* **Deliveries** (`Arm9DevicesProofs`). `Arm9DeliveredIsExpected`: what these jobs put into
  the memory and onto the media is what the run's property says, word by word and at the
  end as a whole, for jobs of any size, cut anywhere into slices, after any earlier jobs and a reset at any
  time: the immediate copy, the registers of the SD card, the game card, a
  Card2, RSA and the save memory. `BusInv` holds in every job but the XDMA's: the DMA's bus
  reaches the memory and the FIFO of the job's device only, no channel repeats or reloads,
  the driver does no step but the job's. On it rests one invariant per kind of job, whose
  steps (the DMA's, the driver's, the next job and the reset) are lemmas:
  - `CopyInv`: the source goes up and the destination down; what channel 0 has copied are the
    last words of the reversed copy, and nothing else is written (`Copied`).
  - `CardInv`: the processor reads the first words of a bufferful (`CardFeeds`), channel 0 the others when
    the line rises (`CardCopies`). The words the processor has are a beginning of the card's and
    those of the channel follow each other behind them, whatever the slices do (`OfCard`); the
    two parts of a bufferful, and the bufferfuls of a transfer, come in order
    (`Bufferful`), also when channel 0 is set up late and the line waits for it.
  - `Card2Inv`, `SdInv`: sectors and commands that the processor alone reads or writes; no DMA runs (`NoDma`).
  - `RsaInv`: key and message come word by word in either order of words, the units of exponent and modulus in turn; the
    counter of each names its next cell (`CtrAfter`), and nothing of a previous job's key stays (`KeyPhase`,
    `MsgPhase`). The power itself is uninterpreted.
  - `SaveInv`: each state of the SPI command in turn, writing (`SaveWriting`) and reading back
    (`SaveReading`, `ReadBack`), where the reply's position and what the save memory has yet to give add up.

  *Assumption*: `JobsAssumption` on the drivers, named in `Arm9Devices`: a driver does all the steps of its protocol, a
  transfer of the card is of whole bufferfuls and no longer than the channel's register counts, and
  the jobs of the save memory are of one size, because what an earlier one wrote stays there.
* **ArmBanks** (`ProcessorProofs`). For any set of registers that holds the link register, and any
  values: `BanksImplementRegisters` shows that each step of the code's register file
  (banks copied in and out of `gpr`) is, under the mapping `FileOf`, the step of
  `BankedRegisters` in which each mode has registers of its own. The argument:
  a swap with the current mode's bank leaves `FileOf` of the user's mode what
  `FileOf` of that mode was (`LeaveKeepsFile`), and back (`EnterKeepsFile`), so a
  change of mode keeps it (`SameModeKeepsFile`); a write to `gpr` writes the
  register the current mode owns (`WriteOwner`), and the exception's write of a slot writes the link
  register of the new mode (`SlotIsOthers`), and the user's if the new mode is the current one, whose bank's slots hold the
  user's registers. This breaks the privacy of the modes in the code, and the abstract specification says so; the theorem
  is that nothing else is lost. The type invariant suffices as the
  inductive invariant.
  *Assumption*: `RegistersAssumption`.
* **Mmu** (`ProcessorProofs`). `MmuTranslationsAreCurrent`: every translation that is kept is that
  of the tables, or its page is owed an invalidation. `MmuInv` adds the types and
  `SupersectionsAreWhole` (the entries of a supersection change together), since a miss
  fills the whole section it is in and an invalidation forgets whole sections too.
  *Assumption*: `MmuAssumption`, the shape of the tables and entries the program uses.
* **Pu** (`ProcessorProofs`). `PuHighestRegionCounts`: a page has the permissions of the highest enabled region it is in,
  after any placing, moving, disabling and enabling of regions. Two kinds of pages are excepted: those a
  region was moved away from and that were not mapped since (`leftover`), and those in the place of a disabled region
  above all enabled ones, which may allow nothing (`Hidden`): disabling clears the pages and maps no lower region.
  The code keeps of a region an interval: each higher region cuts off its beginning or end
  (`Cut`). `RemainingIs` proves by induction over the higher regions that what remains is exactly what none
  of them covers, and `HighestIs` that the remainders are disjoint.
  *Assumption*: `PuAssumption`: no place of a region lies in the middle of a lower one's. For such
  places the property is false, as the code drops what follows the higher region.
* **NumberLemmas**. Induction and recursion for sets and functions, from the
  well-foundedness of `<`, since the library's theorems take operators as parameters; smallest and greatest elements;
  uniqueness of quotient and remainder.

Proved as invariants or action properties without a run of their own, being
steps of the arguments: `NothingForgotten`, `SetBackIsBounded`,
`FrameLeavesNothing`, `LineMeansInterrupt`, `SleepsOnLowLine`, `AssertionWakes`,
`Receiver9IsTold`, `Sender9IsTold`.

**Only model-checked**: all liveness (`FramesEnd`, `WaitEnds`,
`EveryInterruptIsServed`, `EveryRequestIsAnswered`, `LockIsTaken`, `JobsEnd`, `ProgramsEnd`), which is out
of the prover's reach; `DeliveredIsExpected` for the
jobs of AES, SHA, the eMMC and the XDMA (the hash of a SHA job is proved, the words it echoes to
the memory are not), where
two channels, or a channel and the device's own buffers, advance at different paces, the XDMA's
programs are arbitrary, and the CBC mode's expected words are a recursion over the
blocks; and `ArmProgramsAreRight`, `XtensaProgramsAreRight` and `DspProgramsAreRight`: they
are about particular programs, whose runs are finite, and their modules use `Bitwise`.

## 5. What the work found

* `scheduler.cpp:40-43`: the clamp of a negative slice has no effect, because it
  assigns an inner variable. A request with a delay shorter than what a slice has
  run makes the next slice negative, sets the clock back, and gives the
  processors a wrapped number of cycles (run `scheduler_clamp`).
* `emuthread.cpp:34-36`: `emu_error` is posted before `quit` is set and before
  the thread has finished. A boot on the error message is lost: `QThread::start`
  does nothing on a running thread, which then leaves (run `emu_thread_boot`).
* `arm.cpp:983`: the overflow flag of a subtraction with borrow is
  `A1 && (B1 | A2) && B2` instead of the disjunction of two overflows, because
  the macro `SUB_OVERFLOW` (`arm.hpp:15`) is not parenthesised: comparisons
  of two-word numbers come out wrong (run `wide_compare`).
* Behaviour that no document of the repository forbids, hence no finding, but
  worth knowing: a core in WFE ignores a line that is already high
  (`arm.cpp:417`); writes of the priority mask and of targets evaluate nothing
  (`mpcore_pmr.cpp:381,392`); PXI's CNT write of the ARM11 raises the ARM9's
  interrupts and tests the wrong FIFO (`pxi.cpp:144-154`); one-shot ARM11 timers
  keep left-over clocks and fire early the next time (`timers.cpp:236`), the one
  thing that `SlicesAreInvisible` excepts.
* Met while modelling the devices and processors, and translated as they are:
  the channel after one with AES2 runs in the same visit, whatever its
  state (`dma9.cpp:36`); a word store across two pages merges the wrong
  bytes into the second (`arm.cpp:783`); block loads of the user's registers and SRS that abort in
  mid-way leave the mode changed; a change of the MMU's control register
  invalidates nothing, and an invalidation by address clears one page of a large
  one; moving a region of the ARM9 leaves its old pages, and disabling one takes the pages of lower
  regions in its place away, also at each miss (`mmu.cpp:460-472`, `546-554`); the reload of a
  section without a table clears 256 pages from the one that missed, for the last section past the array (`mmu.cpp:148`);
  an exception that is taken in its own mode overwrites the user's link register (`arm.cpp:243-390`); an XDMA channel that
  comes to wait with its line high waits a slice, in which the hash engine may drop the block it waits for
  (`corelink_dma.cpp:72-85`, `sha.cpp:131-137`); PXI's FIFOs have no limit (`pxi.cpp:213-227`); logging a system call or a return from an
  exception reads the program's memory and may abort it (`arm.cpp:290-325`, `1255-1284`); an Xtensa interrupt
  raised while its level is masked is never delivered (`xtensa.cpp:104`); the DSP's
  search for interrupts goes on after it has entered a vector, so that two of them
  nest (`dsp.cpp:2345`), and takes the test for a context switch with the number of the
  interrupt instead of that of its line (`dsp.cpp:2337`); a single repeat as the
  last instruction of a block counts the block down. The programs of the
  models avoid those that would break any program, and their comments say so.

## 6. Not modelled, and what is left

Not modelled for good: VFP, rasterisation and shaders, ciphers, compression
functions and RSA's arithmetic as numbers (pure computation, far larger than what TLC
enumerates; ciphers and hashes appear as uninterpreted functions); decoding of instruction words (tables of bit
patterns, which a comparison with an assembler tests better); disassemblers, logging,
file and window code (I/O).

Left out of parts that are modelled, and why:

* Interpreters: coprocessor instructions (what they change is in `Mmu` and `Pu`), the
  cached pointer to the page of instructions, and media
  instructions that `ArmAlu` does not name.
* MMU: domains and the FCSE, which the code ignores or stores only.
* DSP: the status registers read as words, the memory interface's pages, its DMA, and
  the FIFO through which the ARM side reads its memory. Wi-Fi: the SDIO card and its mailboxes.
* Emulator: memory maps and register dispatch, but for the ports that the DMA
  engines use.

What would add most next:

1. **I2C, MCU, SPI**: transfers as events of the scheduler, reboot thrown out of
   a callback, buttons; refines `Emulator`'s device events.
2. **GPU**: memory fill, display transfer and command lists with their interrupts.
3. **Wi-Fi mailboxes and the DSP's side of the ARM11**: look-ahead of mailboxes,
   semaphores and FIFOs, as PXI.
4. Proofs: `DeliveredIsExpected` for the jobs of AES, SHA and the eMMC: invariants like `CardInv`'s,
   with a second channel that takes the device's words while the first one feeds it.
