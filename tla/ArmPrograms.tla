---------------------------- MODULE ArmPrograms ----------------------------
(***************************************************************************)
(* Programs on an ARM core: each computes a function of its input while     *)
(* interrupts are raised between any two instructions and its pages are     *)
(* brought in when it touches them.  The handlers are those an operating    *)
(* system has: they save what they use, acknowledge or map, and return.     *)
(***************************************************************************)
EXTENDS ThumbInterpreter

CONSTANTS MaxInterrupts,  \* How often a program is interrupted.
          Few, More       \* Small and larger sets of words for inputs.

ASSUME ProgramsAssumption == Bits = 8 /\ PageBytes = 32 /\ SectionPages = 4

VARIABLES arm,     \* The state of the core.
          job,     \* The program and its input.
          raised   \* How often an interrupt was raised.

armVars == <<arm, job, raised>>

-----------------------------------------------------------------------------
(* An assembler: instructions as records.                                   *)

Im(v) == [kind |-> "imm", v |-> v, rot |-> 0]
Sh(m, type, n) == [kind |-> "reg", rm |-> m, type |-> type, n |-> n]
By(m, type, rs) == [kind |-> "by", rm |-> m, type |-> type, rs |-> rs]
R(m) == Sh(m, "lsl", 0)

If(cond, i) == [cond |-> cond] @@ i
Dp(alu, d, n, o) == [op |-> "dp", alu |-> alu, s |-> alu \in OnlyFlags, rd |-> d, rn |-> n, operand |-> o]
DpS(alu, d, n, o) == [Dp(alu, d, n, o) EXCEPT !.s = TRUE]
Mov(d, o) == Dp("MOV", d, 0, o)

LoadStore(load, size, d, n, o, form) ==
    [op |-> IF size = "double" THEN "double" ELSE "ls", load |-> load, size |-> size, rd |-> d,
     rn |-> n, offset |-> o, up |-> TRUE, pre |-> form # "post", wb |-> form = "pre"]
Ldr(size, d, n, o, form) == LoadStore(TRUE, size, d, n, o, form)
Str(size, d, n, o, form) == LoadStore(FALSE, size, d, n, o, form)

Block(load, n, list, up, pre) ==
    [op |-> "block", load |-> load, rn |-> n, list |-> list, wb |-> TRUE, psr |-> FALSE,
     up |-> up, pre |-> pre]
Push(n, list) == Block(FALSE, n, list, FALSE, TRUE)
Pop(n, list) == Block(TRUE, n, list, TRUE, FALSE)
Hat(i) == [i EXCEPT !.psr = TRUE]

(* Branches by a number of instructions. *)
B(d) == [op |-> "b", link |-> FALSE, to |-> Wrap(4 * d - 8)]
BL(d) == [op |-> "b", link |-> TRUE, to |-> Wrap(4 * d - 8)]
BX(m) == [op |-> "bx", rm |-> m]
Swi == [op |-> "swi", n |-> SendSyncRequest]
External(f) == [op |-> "external", f |-> f]
Halt == External("halt")
TB(cond, d) == [op |-> "b", cond |-> cond, to |-> Wrap(2 * d - 4)]
T(alu, d, m) == [op |-> "alu", alu |-> alu, rd |-> d, kind |-> "reg", rm |-> m]
Ti(alu, d, v) == [op |-> "alu", alu |-> alu, rd |-> d, kind |-> "imm", v |-> v]
Tls(load, size, d, n, v) ==
    [op |-> "ls", load |-> load, size |-> size, rd |-> d, rn |-> n, kind |-> "imm", v |-> v]

At(base, size, code) ==
    [a \in {base + size * (k - 1) : k \in DOMAIN code} |->
        LET i == code[((a - base) \div size) + 1] IN
        IF "cond" \in DOMAIN i THEN i ELSE [cond |-> "AL"] @@ i]

-----------------------------------------------------------------------------
(* The system's code.  Page 0 holds the vectors, and pages 1 and 2 the      *)
(* handlers; the stacks of the modes are in page 3; programs are in pages 4 *)
(* and 5, and their data in pages 6 and 7.                                  *)

UserCode == 4 * PageBytes
UserData == 6 * PageBytes
ThumbCode == 5 * PageBytes
UserStack == 7 * PageBytes
SvcStack == 4 * PageBytes
IrqStack == 4 * PageBytes - 16
SomeProcess == 100      \* The running process, for the log.

Handlers ==
    At(8, 4, <<B(10), B(7), B(4)>>)                           \* swi, prefetch, data
    @@ At(24, 4, <<B(10)>>)                                   \* irq
    @@ At(32, 4, <<External("page_in_data"), DpS("SUB", PC, LR, Im(8)),
                   External("page_in_code"), DpS("SUB", PC, LR, Im(4)),
                   DpS("ADD", 0, 0, Im(1)), DpS("MOV", PC, 0, R(LR))>>)

(* Three ways to serve an interrupt: at once, on the stack of the IRQ mode, *)
(* and on that of the supervisor as processors with SRS and RFE can.        *)
Served ==
    [short |-> <<External("ack"), DpS("SUB", PC, LR, Im(4))>>,
     stack |-> <<Dp("SUB", LR, LR, Im(4)), Push(SP, {0, LR}), External("ack"),
                 DpS("MOV", 0, 0, Im(0)), Hat(Pop(SP, {0, PC}))>>,
     srs   |-> <<Dp("SUB", LR, LR, Im(4)),
                 [op |-> "srs", mode |-> "svc", wb |-> TRUE, up |-> FALSE, pre |-> TRUE],
                 [op |-> "cps", mode |-> "svc", imod |-> "disable", i |-> TRUE, f |-> FALSE],
                 Push(SP, {0, LR}), External("ack"), DpS("ADD", 0, 0, Im(255)), Pop(SP, {0, LR}),
                 [op |-> "rfe", rn |-> SP, wb |-> TRUE, up |-> TRUE, pre |-> FALSE]>>]

Irqs == DOMAIN Served

(* The programs.  Inputs are in r0 to r3, and r10 points to the data.       *)
Relations == <<"EQ", "NE", "CS", "CC", "HI", "LS", "GE", "LT", "GT", "LE">>

Arm ==
    [relations |-> <<Mov(4, Im(0)), Mov(5, Im(0)), Dp("CMP", 0, 0, R(1))>>
                   \o [k \in 1..10 |-> If(Relations[k],
                          Dp("ORR", IF k > 5 THEN 5 ELSE 4, IF k > 5 THEN 5 ELSE 4,
                             Im(2^((k - 1) % 5))))] \o <<Halt>>,
     long |-> <<DpS("ADD", 4, 0, R(2)), Dp("ADC", 5, 1, R(3)),
                DpS("SUB", 6, 0, R(2)), DpS("SBC", 7, 1, R(3)), Mov(8, Im(0)), If("CC", Mov(8, Im(1))),
                DpS("RSB", 0, 0, Im(0)), Dp("RSC", 1, 1, Im(0)), Halt>>,
     \* A comparison of two words with two.
     wide |-> <<Mov(4, Im(0)), Dp("CMP", 0, 0, R(2)), DpS("SBC", 5, 1, R(3)), If("LT", Mov(4, Im(1))), Halt>>,
     shifts |-> <<DpS("MOV", 2, 0, Sh(0, "lsl", 1)), Dp("ADC", 3, 1, R(1)),
                  DpS("MOV", 5, 0, Sh(1, "lsr", 1)), Mov(4, Sh(0, "ror", 0)),
                  DpS("MOV", 7, 0, Sh(1, "asr", 1)), Mov(6, Sh(0, "ror", 0)), Halt>>,
     products |-> <<[op |-> "mull", rm |-> 0, rs |-> 1, lo |-> 2, hi |-> 3, is_signed |-> TRUE,
                     accumulate |-> TRUE, s |-> FALSE],
                    [op |-> "mull", rm |-> 0, rs |-> 1, lo |-> 4, hi |-> 5, is_signed |-> FALSE,
                     accumulate |-> FALSE, s |-> FALSE],
                    [op |-> "mul", rd |-> 6, rm |-> 0, rs |-> 1, rn |-> 0, accumulate |-> TRUE, s |-> TRUE],
                    [op |-> "mulxy", rd |-> 7, rm |-> 0, rs |-> 1, rn |-> 1, mtop |-> TRUE,
                     stop |-> FALSE, accumulate |-> TRUE], Halt>>,
     bytes |-> <<[op |-> "lanes", lane |-> "USUB8", rd |-> 2, rn |-> 0, rm |-> 1],
                 [op |-> "sel", rd |-> 2, rn |-> 0, rm |-> 1],
                 Dp("EOR", 3, 0, Sh(0, "ror", 2 * ByteBits)),
                 Dp("BIC", 3, 3, Im((Byte - 1) * Byte^2)), Mov(4, Sh(0, "ror", ByteBits)),
                 Dp("EOR", 3, 4, Sh(3, "lsr", ByteBits)),
                 [op |-> "unary", f |-> "rev16", rd |-> 4, rm |-> 0],
                 Mov(4, Sh(4, "ror", 2 * ByteBits)),
                 [op |-> "lanes", lane |-> "UQSUB8", rd |-> 5, rn |-> 0, rm |-> 1],
                 [op |-> "lanes", lane |-> "UADD8", rd |-> 5, rn |-> 5, rm |-> 1], Halt>>,
     clamp |-> <<[op |-> "sat", is_signed |-> FALSE, rd |-> 2, rm |-> 0, to |-> 4, arith |-> FALSE, n |-> 0],
                 [op |-> "sat", is_signed |-> TRUE, rd |-> 3, rm |-> 0, to |-> 4, arith |-> FALSE, n |-> 0],
                 [op |-> "mrs", rd |-> 4, spsr |-> FALSE],
                 [op |-> "ext", rd |-> 5, rm |-> 0, rot |-> 1, width |-> ByteBits, is_signed |-> TRUE,
                  add |-> TRUE, rn |-> 1], Halt>>,
     \* Greatest common divisor by conditional subtraction.
     gcd |-> <<Dp("CMP", 0, 0, R(1)), If("GT", Dp("SUB", 0, 0, R(1))), If("LT", Dp("SUB", 1, 1, R(0))),
               If("NE", B(-3)), Halt>>,
     \* Division: the divisor is shifted to the dividend's first bit and back.
     divide |-> <<[op |-> "unary", f |-> "clz", rd |-> 2, rm |-> 0],
                  [op |-> "unary", f |-> "clz", rd |-> 3, rm |-> 1], Dp("SUB", 3, 3, R(2)),
                  Mov(4, Im(0)), DpS("SUB", 5, 3, Im(0)), If("MI", B(8)),
                  Mov(6, By(1, "lsl", 3)), Dp("CMP", 0, 0, R(6)), If("CS", Dp("SUB", 0, 0, R(6))),
                  Dp("ADC", 4, 4, R(4)), Dp("SUB", 3, 3, Im(1)) ,
                  Dp("CMP", 0, 3, Im(0)), If("GE", B(-6)), Halt>>,
     \* Stores a word, copies four with blocks that lie in two pages, and reads
     \* over the end of a page.
     copy |-> <<Str("word", 3, 11, Im(4), "post"), Push(10, {0, 1, 2, 3}), Pop(10, {4, 5, 6, 7}), Dp("ADD", 0, 4, R(5)),
                Dp("ADD", 0, 0, R(6)), Dp("ADD", 0, 0, R(7)), Ldr("word", 1, 10, Im(Wrap(-10)), "off"),
                Str("byte", 0, 10, Im(1), "pre"), Str("byte", 6, 10, Im(1), "post"),
                Ldr("half", 2, 10, Im(Wrap(-11)), "off"), Ldr("sbyte", 3, 10, Im(Wrap(-1)), "off"),
                Halt>>,
     \* The sum of the numbers up to r0, by recursion on a stack.
     sum |-> <<BL(2), Halt, Push(10, {4, LR}), Mov(4, R(0)), Dp("SUB", 0, 0, Im(1)),
               Dp("CMP", 0, 0, Im(0)), If("NE", BL(-4)), Dp("ADD", 0, 0, R(4)), Pop(10, {4, PC})>>,
     \* A call of Thumb code, which calls ARM code and the system.
     interwork |-> <<Mov(4, Im(ThumbCode + 1)), [op |-> "blx", kind |-> "reg", rm |-> 4],
                     Dp("ADD", 0, 0, R(1)), Halt, Dp("ADD", 1, 0, R(0)), BX(LR)>>,
     doubles |-> <<Str("double", 0, 10, Im(Wrap(-4)), "off"), Mov(6, Im(4)),
                   Ldr("double", 2, 10, Im(Wrap(-4)), "off"),
                   [op |-> "swp", byte |-> FALSE, rd |-> 4, rm |-> 6, rn |-> 10],
                   Swi, Ldr("word", 5, 10, Sh(6, "lsr", 3), "off"), Halt>>,
     \* An operating system's switch of tasks: the user's registers of one
     \* task are stored and those of the next loaded, which then runs.
     switch |-> <<[Block(FALSE, 11, {0, 1}, TRUE, FALSE) EXCEPT !.wb = FALSE],
                  Hat([Push(10, {SP, LR}) EXCEPT !.wb = FALSE]),
                  Hat([Block(TRUE, 11, {SP, LR}, TRUE, FALSE) EXCEPT !.wb = FALSE]),
                  [op |-> "msr", spsr |-> TRUE, imm |-> FALSE, rm |-> 2, f |-> TRUE, c |-> TRUE],
                  Mov(LR, Im(UserCode + 24)), DpS("MOV", PC, 0, R(LR)),
                  Dp("ADD", 0, SP, R(LR)), Halt>>]

(* Thumb code at ThumbCode, which ARM code reaches by BX in the program      *)
(* interwork and which else is the whole program.                           *)
Thumb ==
    [interwork |-> <<[op |-> "push", list |-> {}, lr |-> TRUE], Ti("ADD", 0, 1), Swi,
                     [op |-> "bl1", to |-> 0], [op |-> "bl2", to |-> Wrap(UserCode + 16 - (ThumbCode + 10)),
                      exchange |-> TRUE],
                     [op |-> "pop", list |-> {}, pc |-> TRUE]>>,
     bits |-> <<Ti("MOV", 2, 0), [op |-> "shift", type |-> "lsr", n |-> 1, rm |-> 0, rd |-> 0],
                TB("CC", 2), Ti("ADD", 2, 1), Ti("CMP", 0, 0), TB("NE", -4),
                T("NEG", 3, 2), T("MUL", 3, 1), T("MVN", 3, 3), Halt>>,
     frame |-> <<[op |-> "push", list |-> {0, 1, 2}, lr |-> FALSE],
                 [op |-> "adr", rd |-> 3, rn |-> SP, v |-> 4],
                 [op |-> "ldmia", rn |-> 3, list |-> {4, 5}],
                 [op |-> "sp", v |-> 4], Tls(FALSE, "half", 5, SP, 2),
                 Tls(TRUE, "shalf", 6, SP, 2),
                 [op |-> "addsub", alu |-> "SUB", rd |-> 7, rn |-> 3, kind |-> "reg", rm |-> 3],
                 [op |-> "pop", list |-> {1, 2}, pc |-> FALSE],
                 [op |-> "hi", f |-> "mov", rd |-> 8, rm |-> 1], [op |-> "hi", f |-> "add", rd |-> 8, rm |-> 4],
                 Halt>>]

Names == DOMAIN Arm \cup DOMAIN Thumb

Code ==
    [n \in Names |-> [q \in Irqs |->
        Handlers @@ At(64, 4, Served[q])
        @@ (IF n \in DOMAIN Thumb THEN At(PageBytes + ThumbCode, 2, Thumb[n]) ELSE <<>>)
        @@ (IF n \in DOMAIN Arm THEN At(PageBytes + UserCode, 4, Arm[n]) ELSE <<>>)]]

(* Inputs; the programs that are interrupted, and those whose pages are     *)
(* brought in.  No abort comes in Thumb state, where the code's link        *)
(* registers are wrong, and no Thumb program returns by LDM.                *)
Inputs(n) ==
    CASE n \in {"relations", "bytes", "products", "bits", "clamp"} -> {<<a, b, a, b>> : a \in More, b \in More}
      [] n \in {"long", "shifts", "wide"} -> [1..4 -> Few]
      [] n = "gcd" -> {<<a, b, 0, 0>> : a \in {6, 9, 35}, b \in {14, 15}}
      [] n = "divide" -> {<<a, b, 0, 0>> : a \in More, b \in More \ {0}}
      [] n = "sum" -> {<<a, 0, 0, 0>> : a \in 1..3}
      [] n = "frame" -> {<<1, 2, 11, 4>>}
      [] OTHER -> {<<1, 2, 3, 4>>}

Paged == {"copy", "sum", "doubles"}
Interrupted == {"copy", "sum", "doubles", "interwork", "frame", "gcd", "switch"}
IrqsOf(n) == IF n \notin Interrupted THEN {"short"}
             ELSE IF n \in DOMAIN Thumb THEN {"short", "srs"} ELSE Irqs

-----------------------------------------------------------------------------
(* The system.                                                              *)

(* The pages of programs lie one frame further on, the last in the frame of *)
(* the first.                                                               *)
Frame(p) == IF p \in 4..7 THEN 4 + ((p - 3) % 4) ELSE p
Mapped(p) == [page |-> Frame(p), r |-> TRUE, w |-> TRUE, x |-> TRUE]

PageIn(s, p) == [s EXCEPT !.table[p] = Mapped(p)]

Service(s, i) ==
    CASE i.f = "page_in_data" -> PageIn(s, PageOf(s.far))
      [] i.f = "page_in_code" -> PageIn(s, PageOf(s.gpr[LR] - 4))
      [] i.f = "ack" -> set_int_signal(s, FALSE)
      [] i.f = "halt" -> s

Status(mode, thumb) ==
    [negative |-> FALSE, zero |-> FALSE, carry |-> FALSE, overflow |-> FALSE, q_overflow |-> FALSE,
     ge |-> [k \in 0..3 |-> FALSE], irq_disable |-> FALSE, fiq_disable |-> FALSE,
     thumb |-> thumb, mode |-> mode]

Core(j) ==
    LET thumb == j.name \notin DOMAIN Arm
        start == IF thumb THEN ThumbCode ELSE UserCode
        psr == Status(IF j.name = "switch" THEN "svc" ELSE "usr", thumb)
        gpr == [r \in 0..15 |->
                  CASE r < 4 -> (IF j.name = "switch" /\ r = 2 THEN get(Status("usr", FALSE)) ELSE j.in[r + 1])
                    [] r = SP -> (IF psr.mode = "svc" THEN SvcStack ELSE UserStack)
                    [] r = 10 -> IF j.name = "doubles" THEN UserStack ELSE UserStack + 8
                    [] r = 11 -> UserData
                    [] OTHER -> 0]
        bank == [m \in Modes |-> [r \in 0..14 |->
                   IF r # SP THEN 7
                   ELSE CASE m = "irq" -> IrqStack
                          [] m = "svc" -> (IF psr.mode = "svc" THEN 40 ELSE SvcStack)
                          [] OTHER -> 1]]
    IN jp([gpr |-> gpr, bank |-> bank, psr |-> psr, spsr |-> [m \in Modes |-> psr], id |-> 11,
           tlb |-> [p \in 0..7 |-> Unmapped],
           table |-> [p \in 0..7 |-> IF p \in j.present \cup 0..3 THEN Mapped(p) ELSE Unmapped],
           instr_page |-> 0, prefetch_abort_occurred |-> FALSE,
           mem |-> [w \in 0..(2 * PageBytes - 1) |-> IF w = 1 THEN SomeProcess ELSE 0],
           data |-> 0, fault |-> <<>>, far |-> 0,
           int_pending |-> FALSE, tls |-> ThumbCode - 128, offs |-> 16, died |-> FALSE], start, FALSE)

JobsOf(n) ==
    [name : {n}, irq : IrqsOf(n), in : Inputs(n),
     present : IF n \in Paged THEN SUBSET (4..7) ELSE {4..7}]

Jobs == UNION {JobsOf(n) : n \in Names \ {"wide"}}

ArmInit(j) == job = j /\ arm = Core(j) /\ raised = 0

(* The instruction at a physical address; where no code lies it ends.       *)
InstrIn(code, a) == IF a \in DOMAIN code THEN code[a] ELSE Halt
InstrAt(a) == InstrIn(Code[job.name][job.irq], a)

InstrSize(s) == IF s.psr.thumb THEN 2 ELSE 4
NextInstr(s) == InstrAt(s.instr_page * PageBytes + (Wrap(s.gpr[PC] - InstrSize(s)) % PageBytes))

IsHalt(i) == IF i.op = "external" THEN i.f = "halt" ELSE FALSE
AtHalt == ~arm.prefetch_abort_occurred /\ IsHalt(NextInstr(arm))

(* One round of ARM_CPU::run.  An instruction that is not the core's own is *)
(* what the system does.                                                    *)
Fetched(s) ==
    LET t == IF s.gpr[PC] % PageBytes = 0 THEN fetch_new_instr_ptr(s, s.gpr[PC]) ELSE s
    IN [t EXCEPT !.gpr[PC] = Wrap(@ + InstrSize(s))]

Executed(s, i) ==
    IF i.op = "external" THEN Service(s, i)
    ELSE IF s.psr.thumb THEN interpret_thumb(s, i) ELSE interpret_arm(s, i)

AbortIfFaulty(s) == IF s.fault # <<>> THEN data_abort(s) ELSE s

RunInstr(s) ==
    IF s.prefetch_abort_occurred THEN prefetch_abort(s, Wrap(s.gpr[PC] - InstrSize(s)))
    ELSE AbortIfFaulty(Executed(Fetched(s), NextInstr(s)))

EndSlice(s, ends) == IF ends /\ s.int_pending THEN int_check(s) ELSE s

(* The core runs an instruction; it may be the last of the core's slice.    *)
Step ==
    /\ ~AtHalt /\ ~arm.died
    /\ \E slice_ends \in BOOLEAN : arm' = EndSlice(RunInstr(arm), slice_ends)
    /\ UNCHANGED <<job, raised>>

(* Between slices of the core a device raises its interrupt.                *)
Raise ==
    /\ ~AtHalt /\ ~arm.died
    /\ job.name \in Interrupted /\ raised < MaxInterrupts
    /\ arm' = set_int_signal(arm, TRUE)
    /\ raised' = raised + 1
    /\ UNCHANGED job

ArmNext == Step \/ Raise

WideSpec == (\E j \in JobsOf("wide") : ArmInit(j)) /\ [][ArmNext]_armVars

-----------------------------------------------------------------------------
(* What the programs compute: the registers r at their ends and the words   *)
(* that they leave in memory.                                               *)

Flag(b, n) == IF b THEN 2^n ELSE 0
Long(lo, hi) == TwoWords(OfTwoWords(lo, hi))
Clamp(n, low, high) == IF n < low THEN low ELSE IF n > high THEN high ELSE n
Ones(v) == Cardinality({k \in 0..(Bits - 1) : Bit(v, k)})
MaxLanes(a, b) ==
    OfLanes([k \in 0..3 |-> IF Lane(a, k) < Lane(b, k) THEN Lane(b, k) ELSE Lane(a, k)])
IsGcd(d, a, b) == a % d = 0 /\ b % d = 0 /\ \A k \in 1..a : a % k = 0 /\ b % k = 0 => k <= d

Computes(n, in, r, word(_)) ==
    LET a == in[1]
        b == in[2]
        signed == Signed(a) < Signed(b)
    IN CASE n = "relations" ->
              /\ r[4] = Flag(a = b, 0) + Flag(a # b, 1) + Flag(a >= b, 2) + Flag(a < b, 3) + Flag(a > b, 4)
              /\ r[5] = Flag(a <= b, 0) + Flag(~signed, 1) + Flag(signed, 2)
                        + Flag(~signed /\ a # b, 3) + Flag(signed \/ a = b, 4)
         [] n = "long" ->
              LET x == OfTwoWords(a, b)
                  y == OfTwoWords(in[3], in[4])
              IN /\ <<r[4], r[5]>> = TwoWords(x + y)
                 /\ <<r[6], r[7]>> = TwoWords(x - y)
                 /\ r[8] = Flag(x < y, 0)
                 /\ <<r[0], r[1]>> = TwoWords(-x)
         [] n = "shifts" ->
              LET x == OfTwoWords(a, b) IN
              /\ <<r[2], r[3]>> = TwoWords(2 * x)
              /\ <<r[4], r[5]>> = TwoWords(x \div 2)
              /\ <<r[6], r[7]>> = TwoWords(SignedPart(x, 2 * Bits) \div 2)
         [] n = "products" ->
              /\ <<r[2], r[3]>> = TwoWords(Signed(a) * Signed(b) + OfTwoWords(a, b))
              /\ <<r[4], r[5]>> = TwoWords(a * b)
              /\ r[6] = Wrap(a * b + a)
              /\ r[7] = Wrap((Signed(a) \div Half) * SignedPart(b, Bits \div 2) + b)
         [] n = "bytes" ->
              /\ r[2] = MaxLanes(a, b)
              /\ \A k \in 0..3 : Lane(r[3], k) = Lane(a, 3 - k)
              /\ r[4] = r[3]
              /\ r[5] = MaxLanes(a, b)
         [] n = "clamp" ->
              /\ r[2] = Clamp(Signed(a), 0, 15)
              /\ Signed(r[3]) = Clamp(Signed(a), -16, 15)
              /\ OfWord(r[4]).q_overflow = (Signed(a) \notin 0..15)
              /\ Wrap(r[5] - b) = Wrap(SignedPart(a \div Byte, ByteBits))
         [] n = "gcd" -> r[0] = r[1] /\ IsGcd(r[0], a, b)
         [] n = "divide" -> r[4] = a \div b /\ r[0] = a % b
         [] n = "copy" ->
              /\ [k \in 1..4 |-> r[k + 3]] = in
              /\ [k \in 1..4 |-> word(UserStack + 4 * k - 12)] = in
              /\ r[11] = UserData + 4 /\ word(UserData) = in[4]
              /\ r[0] = a + b + in[3] + in[4]
              /\ r[1] = Half * in[3] /\ r[2] = Byte * in[3]
              /\ word(UserStack + 8) = Byte * in[3] /\ r[3] = Limit - 1 /\ r[10] = UserStack + 10
         [] n = "sum" -> 2 * r[0] = a * (a + 1) /\ r[4] = 0
         [] n = "interwork" -> r[0] = 3 * (a + 2) /\ r[1] = 2 * (a + 2) /\ r[SP] = UserStack
         [] n = "doubles" ->
              /\ r[2] = a /\ r[3] = b /\ r[4] = b /\ r[5] = 4 /\ r[0] = a + 1
              /\ word(UserStack - 4) = a /\ word(UserStack) = 4
         [] n = "switch" ->
              /\ r[0] = a + b
              /\ word(UserStack) = 40 /\ word(UserStack + 4) = 7
         [] n = "bits" -> r[2] = Ones(a) /\ r[3] = Wrap(Ones(a) * b - 1)
         [] n = "frame" ->
              /\ <<r[4], r[5]>> = <<in[2], in[3]>>
              /\ Signed(r[6]) = SignedPart(in[3], Bits \div 2)
              /\ r[7] = 0 /\ r[8] = Wrap(in[2] + Half * in[3] + in[2])
              /\ r[SP] = UserStack

(* A program computes the function that it was written for, whatever words  *)
(* it is given, whichever of its pages come in late and wherever it is      *)
(* interrupted: no flag, register of another mode, faulting access or       *)
(* return address of the core shows in its result.                          *)
ProgramsComputeTheirFunction ==
    AtHalt =>
        /\ Computes(job.name, job.in, arm.gpr,
                    LAMBDA a : arm.mem[(Frame(PageOf(a)) * PageBytes + (a % PageBytes)) \div 4])
        /\ arm.psr.mode = "usr"
        /\ (raised > 0 /\ arm.int_pending) => ~arm.psr.irq_disable

(* What the comment of the condition LT says (arm.cpp:586), for numbers of  *)
(* two words, which CMP and SBCS compare: it holds if the first is less     *)
(* than the second.                                                         *)
LessThanOfTwoWords ==
    job.name = "wide" /\ AtHalt =>
        LET x == SignedPart(OfTwoWords(job.in[1], job.in[2]), 2 * Bits)
            y == SignedPart(OfTwoWords(job.in[3], job.in[4]), 2 * Bits)
        IN arm.gpr[4] = Flag(x < y, 0)
=============================================================================
