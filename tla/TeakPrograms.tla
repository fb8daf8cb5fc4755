----------------------------- MODULE TeakPrograms -----------------------------
(***************************************************************************)
(* Programs on the DSP, which its devices and the ARM cores interrupt.       *)
(***************************************************************************)
EXTENDS Teak

CONSTANTS MaxIrqs,    \* How often a program is interrupted.
          SomeWords,  \* Words for inputs.
          Commands    \* How many commands the ARM side sends.

VARIABLES dsp, program,
          irqs_raised,  \* Ghost: how often each interrupt was irqs_raised.
          host     \* The ARM side: the commands it sent and the last reply it read.

teakVars == <<dsp, program, irqs_raised, host>>

-----------------------------------------------------------------------------
(* Instructions.                                                            *)

Imm(v) == [k |-> "imm", imm |-> v]
Reg(r) == [k |-> "reg", reg |-> r]
Acc(n) == [k |-> "acc", acc |-> n]
Prod(n) == [k |-> "product", n |-> n]
Page(v) == [k |-> "page", imm |-> v]
Abs(v) == [k |-> "abs", imm |-> v]
At(n, step) == [k |-> "rn", rn |-> n, step |-> step]

Mov(from, to) == [op |-> "mov", from |-> from, to |-> to]
Alm(f, n, src) == [op |-> "alm", f |-> f, acc |-> n, src |-> src]
Alb(f, v, to) == [op |-> "alb", f |-> f, imm |-> v, to |-> to]
Moda(f, n) == [op |-> "moda", f |-> f, acc |-> n, cond |-> "always"]
Mul(f, n, src, y) == [op |-> "mul", f |-> f, acc |-> n, x |-> src, y |-> y]
App(n, base, align1, sub1) ==
    [op |-> "app", acc |-> n, base |-> base, align0 |-> FALSE, align1 |-> align1, sub1 |-> sub1]
Push(what) == [op |-> "push", what |-> what]
Pop(what) == [op |-> "pop", what |-> what]
Brr(cond, offset) == [op |-> "brr", cond |-> cond, offset |-> offset]
Do(op) == [op |-> op]
Halt == Do("halt")
Return(op) == [op |-> op, cond |-> "always"]
Y0 == [k |-> "y0"]

Start == Half
Vector == [k \in {14, 15} |-> IF k = 15 THEN 30 ELSE Half + 64]

Served == [k \in {10, 11, 14, 15} |-> CASE k = 15 -> 8 [] k = 10 -> 9 [] k = 11 -> 10 [] k = 14 -> 11]
Total == 12
MaskOf(id) == 2^(id + WordBits - 16)

(* A handler counts and acknowledges.  That of the ARM's commands has the    *)
(* other context, and adds the command to the total that it replies.        *)
Handler(id) ==
    IF id = 14
    THEN <<Push(Reg("r0")), Mov(Imm(Mmio.int_ack), Reg("r0")), Alb("set", MaskOf(14), At(0, "0")),
           Mov(Abs(Mmio.cmd2), Reg("a1")), Alm("add", "a1", Page(Total)), Mov(Reg("a1l"), Abs(Total)),
           Mov(Reg("a1l"), Abs(Mmio.reply2)), Alb("addv", 1, Page(Served[14])),
           [op |-> "rep", lc |-> Imm(1)], Moda("inc", "b1"), Pop(Reg("r0")), Return("retic")>>
    ELSE <<Push(Reg("stt0")), Push(Reg("r0")), Mov(Imm(Served[id]), Reg("r0")), Alb("addv", 1, At(0, "0")),
           Mov(Imm(Mmio.int_ack), Reg("r0")), Alb("set", MaskOf(id), At(0, "0")),
           Pop(Reg("r0")), Pop(Reg("stt0")), Return("reti")>>

Programs ==
    [dot |-> <<Mov(Imm(16), Reg("r1")), Mov(Imm(20), Reg("r4")), Moda("clr", "a0"),
               Mul("mpy", "a0", At(1, "+1"), At(4, "+1")), [op |-> "rep", lc |-> Imm(1)],
               Mul("mac", "a0", At(1, "+1"), At(4, "+1")), Alm("add", "a0", Reg("p")), Halt>>,
     \* The function that the inner loop calls saves the outer loop.
     loops |-> <<Mov(Page(0), Reg("r6")), Moda("clr", "a0"), Moda("clr", "b0"),
                 [op |-> "bkrep", lc |-> Reg("r6"), end |-> Start + 7],
                 [op |-> "bkrep", lc |-> Imm(1), end |-> Start + 6], Alm("add", "a0", Imm(2)),
                 [op |-> "callr", cond |-> "always", offset |-> 2], Moda("inc", "a0"), Halt,
                 Do("bkrepsto"), [op |-> "add", acc |-> "b0", src |-> Acc("a0")], Do("bkreprst"),
                 Return("ret")>>,
     buffer |-> <<Mov(Imm(2 * 2^StepBits), Reg("cfgi")), Moda("clr", "a0"), Mov(Page(0), Reg("r1")), [op |-> "rep", lc |-> Imm(4)],
                  Alm("add", "a0", At(1, "+1")), [op |-> "modr", rn |-> 1, step |-> "-2"],
                  Alm("sub", "a0", At(1, "-1")), [op |-> "mova", store |-> TRUE, what |-> Acc("a0"), n |-> 0],
                  [op |-> "mova", store |-> FALSE, what |-> Acc("b0"), n |-> 1], Halt>>,
     scale |-> <<Mov(Page(0), Reg("a0h")), Alb("set", 1, Reg("a0l")), [op |-> "shfi", a |-> "a0", acc |-> "a0", imm |-> 0],
                 [op |-> "exp", src |-> Acc("a0")], [op |-> "shfc", a |-> "a0", acc |-> "a1", cond |-> "always"],
                 [op |-> "shfi", a |-> "a1", acc |-> "b1", imm |-> -3], Halt>>,
     limits |-> <<Mov(Page(0), Reg("a0h")), Mov(Page(1), Reg("b0")), Alm("addh", "a0", Page(0)),
                  [op |-> "lim", src |-> "a0", acc |-> "a1"], Push(Acc("a0")), Pop(Acc("b1")),
                  Push([k |-> "ext", acc |-> "a0"]), Pop([k |-> "ext", acc |-> "b0"]), Mov(Reg("a0h"), Page(2)), Halt>>,
     order |-> <<Mov(Page(0), Reg("a0")), Mov(Page(1), Reg("a1")), [op |-> "swap", f |-> "a0b0"],
                 Mov(Acc("b0"), Reg("a0")), Mov(Imm(9), Reg("r0")),
                 [op |-> "max_min", f |-> "max_gt", acc |-> "a0", step |-> "+1"],
                 Alm("cmp", "a1", Page(0)), Brr("ge", 1), Mov(Acc("a1"), Reg("b0")),
                 Mov([k |-> "mixp"], Reg("r2")), Halt>>,
     bits |-> <<Mov(Page(0), Reg("r2")), Alb("rst", 15, Reg("r2")), Alb("chng", 129, Reg("r2")),
                Mov(Page(1), Reg("a0l")), Alb("subv", 3, Reg("a0l")), [op |-> "tstb", src |-> Page(1), n |-> 1],
                Brr("ne", 1), Alb("set", 2, Reg("r2")), [op |-> "and_imm8", acc |-> "a0", imm |-> 6],
                Alb("tst0", 4, Page(0)), Brr("eq", 1), Mov(Imm(1), Reg("r3")), Halt>>,
     \* A product of a long word, whose low part is unsigned.
     long |-> <<Mov(Page(1), Reg("y0")), Moda("clr", "a0"), Mul("mpysu", "a0", Page(2), Y0),
                Mul("maa", "a0", Page(0), Y0), Push(Prod(0)), [op |-> "clrp", which |-> {0}],
                Pop(Prod(0)), Alm("add", "a0", Reg("p")), Halt>>,
     pairs |-> <<[op |-> "clrp", which |-> {0, 1}], Mov(Imm(16), Reg("r1")), Mov(Imm(20), Reg("r4")),
                 [op |-> "load_ps", imm |-> <<0, 1>>],
                 [op |-> "mma", acc |-> "a0", n |-> 0, base |-> "zero", sub |-> FALSE, align0 |-> FALSE,
                  align1 |-> FALSE, signs |-> <<TRUE, TRUE, TRUE>>],
                 App("a0", "zero", FALSE, FALSE), App("b0", "zero", FALSE, TRUE), Halt>>,
     \* The other context, while no handler can use it.
     context |-> <<[op |-> "load_page", imm |-> 1], Mov(Page(0), Reg("a1")), Mov(Page(1), Reg("b1")), Do("dint"),
                   Do("cntx_s"), Moda("not", "a1"), Moda("clr", "b1"),
                   [op |-> "banke", sides |-> {"i"}, regs |-> {1}], Mov(Imm(3), Reg("r1")),
                   [op |-> "banke", sides |-> {"i"}, regs |-> {1}], Do("cntx_r"), Do("eint"), Halt>>,
     frame |-> <<Push(Imm(7)), Push(Reg("r1")), Mov(Imm(1), Reg("a0h")), Alb("set", 6, Reg("a0l")),
                 [op |-> "calla", acc |-> "a0"], Halt,
                 Mov(Reg("sp"), Reg("r7")), Mov([k |-> "r7", imm |-> 3], Reg("a1")), [op |-> "rets", imm |-> 2]>>,
     moves |-> <<Mov(Imm(3), Reg("sv")), Mov(Page(1), Reg("r2")),
                 [op |-> "movs", f |-> "movs", src |-> Page(0), acc |-> "a0"],
                 [op |-> "movs", f |-> "movsi", src |-> Reg("r2"), acc |-> "b0", imm |-> -1],
                 Mov(Reg("a0l"), [k |-> "y1"]), Push([k |-> "y1"]), Pop([k |-> "x", n |-> 1]),
                 Push([k |-> "x", n |-> 1]), Pop(Reg("r3")), Mov(Imm(3), Reg("r6")), Moda("clr", "b1"),
                 [op |-> "bkrep", lc |-> Imm(9), end |-> Start + 15],
                 [op |-> "modr", rn |-> 6, step |-> "-1"], Brr("nr", 1), Do("break"), Moda("inc", "b1"),
                 Mov(Reg("lc"), Reg("y0")), Mov(Imm(18), Reg("r1")), Mov(Imm(17), Reg("r5")), [op |-> "exchange", acc |-> "a0", n |-> 1],
                 [op |-> "call", cond |-> "always", to |-> Start + 22], Halt,
                 [op |-> "br", cond |-> "ge", to |-> Start + 23], Return("ret")>>,
     logic |-> <<Mov(Page(0), Reg("a0")), Mov(Page(1), Reg("a1")), [op |-> "or", a |-> "a0", b |-> "a1", acc |-> "b0"],
                 [op |-> "and", a |-> "a0", b |-> "a1", acc |-> "b1"], [op |-> "sub", acc |-> "b0", src |-> Acc("b1")],
                 Mov(Page(0), Reg("y0")), [op |-> "mpyi", imm |-> 5], Alm("add", "a0", Reg("p")), Alm("sqr", "a1", Page(1)),
                 [op |-> "add", acc |-> "b1", src |-> Prod(0)], Moda("neg", "a0"), Moda("shr", "a0"), Moda("dec", "a1"),
                 Do("nop"), [op |-> "max_min", f |-> "min_lt", acc |-> "a0", step |-> "0"], Halt>>,
     timer |-> <<Mov(Imm(Served[10]), Reg("r5")), Mov(Imm(20), Reg("a0l")), Mov(Reg("a0l"), Abs(Mmio.restart0)),
                 Mov(Imm(13), Reg("a0l")), Mov(Reg("a0l"), Abs(Mmio.timer0)),
                 Alb("cmpv", 2, At(5, "0")), Brr("lt", -2), Mov(Imm(0), Reg("a0l")),
                 Mov(Reg("a0l"), Abs(Mmio.timer0)), Halt>>,
     sound |-> <<Mov(Imm(Served[11]), Reg("r5")), Mov(Imm(5), Reg("a0l")), Mov(Reg("a0l"), Abs(Mmio.fifo)),
                 Mov(Reg("a0l"), Abs(Mmio.fifo)), Mov(Reg("a0l"), Abs(Mmio.transmit)),
                 Alb("tst0", 1, At(5, "0")), Brr("eq", -2), Mov(Imm(0), Reg("a0l")),
                 Mov(Reg("a0l"), Abs(Mmio.transmit)), Halt>>,
     echo |-> <<Brr("always", -1)>>]

JumpTo(addr) == [op |-> "br", cond |-> "always", to |-> addr]

CodeAt(pc) ==
    CASE pc = 6  -> JumpTo(Start + 96)
      [] pc = 14 -> JumpTo(Start + 128)
      [] pc \in 30..46 -> Handler(15)[pc - 29]
      [] pc \in Start..(Start + 63)         -> Programs[program.name][pc - Start + 1]
      [] pc \in (Start + 64)..(Start + 95)  -> Handler(14)[pc - Start - 63]
      [] pc \in (Start + 96)..(Start + 127) -> Handler(10)[pc - Start - 95]
      [] pc >= Start + 128                  -> Handler(11)[pc - Start - 127]

-----------------------------------------------------------------------------
(* The core when a program begins: interrupts are connected and on.         *)

NoStatus == [page |-> 0, ps |-> [k \in 0..1 |-> 0], s |-> FALSE, sat |-> FALSE, sata |-> FALSE, hwm |-> 0,
             stp16 |-> FALSE, cmd |-> FALSE, m |-> {}, br |-> {},
             arp |-> [k \in 0..1 |-> [i |-> [rn |-> 1, step |-> "+1", offset |-> "+1"],
                                      j |-> [rn |-> k, step |-> "+1", offset |-> "+1"]]],
             ar |-> [k \in 0..1 |-> [rn |-> k + 2, step |-> "+1", offset |-> "+1"]]]

Status(p) ==
    [NoStatus EXCEPT !.page = 1, !.sata = (p.name \in {"dot", "limits", "long", "pairs"}),
                     !.m = IF p.name = "buffer" THEN {1} ELSE {}]

Boot(p) ==
    [pc |-> Start, sp |-> MmioBase, r |-> [n \in 0..7 |-> IF n \in {2, 3} THEN 24 ELSE 0],
     acc |-> [n \in {"a0", "a1", "b0", "b1"} |-> 0], acc_s |-> [a1 |-> 0, b1 |-> 0],
     x |-> [k \in 0..1 |-> 0], y |-> [k \in 0..1 |-> 0], p |-> [k \in 0..1 |-> 0], pe |-> [k \in 0..1 |-> 0],
     sv |-> 0, mixp |-> 0, flags |-> {}, st |-> Status(p),
     ie |-> [lines |-> {0, 1}, vectored |-> TRUE],
     shadow |-> [flags |-> {}, st |-> NoStatus, ie |-> [lines |-> {}, vectored |-> FALSE]],
     cfg |-> [s \in {"i", "j"} |-> [step |-> 0, mod |-> 0, step0 |-> 0]],
     bank |-> [i |-> [step |-> 1, mod |-> 0, step0 |-> 0], j |-> [step |-> 1, mod |-> 0, step0 |-> 0],
               r |-> [n \in {0, 1, 4, 7} |-> 5]],
     rep |-> FALSE, repc |-> 0, repcs |-> 0, bcn |-> 0, lp |-> FALSE,
     loops |-> [k \in 0..3 |-> [start |-> 0, end |-> 0, lc |-> 0]],
     mode |-> [ccnta |-> FALSE, crep |-> FALSE, reverse |-> p.reverse, int_ctx |-> {}],
     mie |-> TRUE, halted |-> FALSE, died |-> FALSE,
     icu |-> [pending |-> {}, signals |-> {}, connection |-> [i \in 0..2 |-> IF i = 0 THEN {10} ELSE IF i = 1 THEN {11} ELSE {}],
              vectored |-> {14, 15}, vector_ctx |-> {14}, vector_addr |-> Vector],
     timers |-> [i \in 0..1 |-> [enabled |-> FALSE, mode |-> 0, counter |-> 0, restart |-> 0]],
     btdmp |-> [enabled |-> FALSE, period |-> 4, left |-> 0, irq_on_empty |-> TRUE, queue |-> <<>>],
     apbp |-> [cmd |-> 0, cmd_ready |-> FALSE, reply |-> 0, reply_ready |-> FALSE, reply_int |-> FALSE,
               arm_irqs |-> 0],
     mem |-> [n \in 0..(MmioBase - 1) |->
                CASE n \in 16..18 -> p.in[n - 15] [] n = 20 -> 2 [] n = 21 -> 3 [] n = 22 -> 250 [] OTHER -> 0]]

InputsOf(n) ==
    CASE n \in {"order", "limits", "bits", "moves", "context", "logic"} -> {<<u, v, 0>> : u \in SomeWords, v \in SomeWords}
      [] n \in {"dot", "long", "pairs"} -> SomeWords \X SomeWords \X {0, 200}
      [] n = "scale"  -> {<<u, 0, 0>> : u \in SomeWords}
      [] n = "loops"  -> {<<u, 0, 0>> : u \in 0..2}
      [] n = "buffer" -> {<<u, 0, 0>> : u \in 20..22}
      [] OTHER        -> {<<0, 0, 0>>}

(* Programs that are interrupted at each instruction, with few inputs.      *)
Few3 == {<<3, 250, 7>>}
AnInput(n) == CHOOSE in \in InputsOf(n) : in[1] # 0 \/ Cardinality(InputsOf(n)) = 1
Interrupted == DOMAIN Programs \ {"timer", "sound", "echo", "logic", "moves"}

AllPrograms ==
    UNION {[name : {n}, in : InputsOf(n), irqs : {0}, reverse : {FALSE}] : n \in DOMAIN Programs}
      \cup UNION {[name : {n}, in : IF InputsOf(n) \cap Few3 = {} THEN {AnInput(n)} ELSE Few3, irqs : {MaxIrqs},
                   reverse : {TRUE}] : n \in Interrupted}

TeakInit(p) ==
    /\ program = p
    /\ dsp = Boot(p)
    /\ irqs_raised = [id \in {10, 14, 15} |-> 0]
    /\ host = [sent |-> 0, total |-> 0, got |-> 0]

(* A cycle of the core; of one that sleeps only the devices move.  The code *)
(* knows an instruction to be repeated by an address other than 0.          *)
CountRep(d) == IF ~d.rep THEN d ELSE IF d.repc = 0 THEN [d EXCEPT !.rep = FALSE] ELSE [d EXCEPT !.repc = @ - 1]
Execute(d) == EndOfBlock(interpret([CountRep(d) EXCEPT !.pc = @ + 1], CodeAt(d.pc)))

Cycle(d) ==
    IF d.halted THEN d
    ELSE int_check([Execute(d) EXCEPT !.pc = IF d.rep /\ d.repc # 0 /\ d.pc # 0 THEN d.pc ELSE @])

WakeUp(d) == IF d.halted THEN int_check(d) ELSE d
run(d) == Cycle(WakeUp(transmit(count(count(d, 0), 1))))

ProgramEnded == IF CodeAt(dsp.pc) = Halt THEN ~dsp.rep ELSE FALSE

CanRun == IF ProgramEnded \/ dsp.died THEN FALSE ELSE run(dsp) # dsp

TeakStep ==
    /\ ~ProgramEnded /\ ~dsp.died
    /\ dsp' = run(dsp)
    /\ UNCHANGED <<program, irqs_raised, host>>

(* A timer, a command of the ARM side or the end of a DMA transfer.         *)
Raise(id) ==
    /\ ~ProgramEnded /\ ~dsp.died
    /\ MapThenSumSet(LAMBDA i : irqs_raised[i], DOMAIN irqs_raised) < program.irqs
    /\ id \notin dsp.icu.pending
    /\ dsp' = IF id = 14 THEN apbp_send_cmd(dsp, 0) ELSE assert_dsp_irq(dsp, id)
    /\ irqs_raised' = [irqs_raised EXCEPT ![id] = @ + 1]
    /\ UNCHANGED <<program, host>>

(* The ARM side sends when its last command was taken.                      *)
SendCommand ==
    /\ program.name = "echo" /\ ~dsp.apbp.cmd_ready
    /\ host.sent < Commands
    /\ dsp' = apbp_send_cmd(dsp, host.sent + 1)
    /\ host' = [host EXCEPT !.sent = @ + 1, !.total = @ + host.sent + 1]
    /\ UNCHANGED <<program, irqs_raised>>

ReadReply ==
    /\ dsp.apbp.reply_ready /\ program.name = "echo"
    /\ host' = [host EXCEPT !.got = dsp.apbp.reply]
    /\ dsp' = read_reply(dsp)
    /\ UNCHANGED <<program, irqs_raised>>

TeakNext == TeakStep \/ (\E id \in DOMAIN irqs_raised : Raise(id)) \/ SendCommand \/ ReadReply

-----------------------------------------------------------------------------

Ran(name) == IF ProgramEnded THEN program.name = name ELSE FALSE

u == program.in[1]
v == program.in[2]
w == program.in[3]
Clamped(n) == IF n >= Limit \div 2 THEN Limit \div 2 - 1 ELSE IF n < -(Limit \div 2) THEN -(Limit \div 2) ELSE n

(* Sums of products, nested loops, a ring buffer, and moves of two words.   *)
LoopsAreRight ==
    /\ Ran("dot") => dsp.acc["a0"] = Ext16(u) * 2 + Ext16(v) * 3 + Ext16(w) * Ext16(250)
    /\ Ran("loops") => dsp.acc["a0"] = 5 * (u + 1) /\ dsp.acc["b0"] = 5 * u * (u + 1) + 6 * (u + 1)
    /\ Ran("buffer") =>
         LET In(k) == Ext16(dsp.mem[20 + ((u + k - 20) % 3)])
         IN /\ dsp.acc["a0"] = 2 * (In(0) + In(1)) + In(2) - In(0)
            /\ dsp.acc["b0"] = dsp.acc["a0"] /\ dsp.r[1] = 20 + ((u + 2 - 20) % 3)
    /\ Ran("frame") => dsp.acc["a1"] = 7

(* Scaling, saturation, comparison, bits, long products and pairs of them.  *)
ArithmeticIsRight ==
    /\ Ran("scale") => \E n \in 0..(LongBits - 1) :
         /\ dsp.acc["a1"] = (Ext16(u) * Half + 1) * 2^n /\ dsp.acc["b1"] = dsp.acc["a1"] \div 8
         /\ dsp.acc["a1"] \notin (-(2^(LongBits - 2)))..(2^(LongBits - 2) - 1)
    /\ Ran("limits") =>
         LET sum == 2 * Ext16(u) * Half
         IN /\ dsp.acc["a0"] = sum /\ dsp.acc["a1"] = Clamped(sum) /\ dsp.acc["b1"] = Clamped(sum)
            /\ dsp.mem[18] = Word(Clamped(sum) \div Half)
    /\ Ran("order") =>
         /\ dsp.acc["a0"] = Max({Ext16(u), Ext16(v)}) /\ dsp.acc["b0"] = Min({Ext16(u), Ext16(v)})
         /\ dsp.r[2] = IF Ext16(v) > Ext16(u) THEN 9 ELSE 0
    /\ Ran("logic") =>
         /\ dsp.acc["b0"] = Ext16(u ^^ v) /\ dsp.acc["b1"] = Ext16(u & v) + Ext16(v) * Ext16(v)
         /\ dsp.acc["a0"] = Min({-3 * Ext16(u), Ext16(v) - 1})
    /\ Ran("bits") =>
         /\ dsp.r[2] = (((u - (u % Byte)) ^^ 129) | (IF Bit(v, 1) THEN 2 ELSE 0))
         /\ Word(dsp.acc["a0"]) % Byte = Word(v - 3) & 6
         /\ dsp.r[3] = IF Bit(u, 2) THEN 1 ELSE 24
    /\ Ran("long") => dsp.acc["a0"] = (w * Ext16(v)) \div Half + Ext16(u) * Ext16(v)
    /\ Ran("pairs") =>
         LET q == (Ext16(v) * 3) \div 2
         IN dsp.acc["a0"] = Ext16(u) * 2 + q /\ dsp.acc["b0"] = Ext16(u) * 2 - q
    /\ Ran("context") => /\ dsp.acc["a1"] = Ext16(u) /\ dsp.acc["b1"] = Ext16(v)
                         /\ dsp.r[1] = 0 /\ dsp.st.page = 1
    /\ Ran("moves") =>
         /\ dsp.acc["b0"] = Ext16(v) \div 2 /\ dsp.acc["b1"] = 3 /\ dsp.y[0] = 7 /\ dsp.r[3] = Word(8 * Ext16(u))
         /\ dsp.mem[18] = Word((8 * Ext16(u)) \div Half) /\ dsp.acc["a0"] = Ext16(v) * Half

Times(id) == dsp.mem[Served[id]]

(* Every interrupt was handled, and the program is at the level that it     *)
(* began at.                                                                *)
InterruptsAreHandled ==
    ProgramEnded =>
        /\ dsp.sp = MmioBase /\ dsp.mie /\ ~dsp.lp
        /\ dsp.st.page = 1 /\ dsp.ie = Boot(program).ie
        /\ dsp.icu.pending = {} => \A id \in DOMAIN irqs_raised : program.irqs > 0 => Times(id) = irqs_raised[id]
        /\ program.name = "timer" => Times(10) \in 2..3
        /\ program.name = "sound" => Times(11) = 1

(* What the DSP answers is the total of the commands, none of which is lost. *)
CommandsAreAnswered ==
    program.name = "echo" /\ dsp.halted /\ dsp.icu.pending = {} /\ ~dsp.apbp.reply_ready =>
        host.got = Word(host.total)

(* A program of the DSP computes its function, whenever it is interrupted,  *)
(* by handlers in its own context and in the other.                         *)
ProgramsComputeTheirFunction ==
    LoopsAreRight /\ ArithmeticIsRight /\ InterruptsAreHandled /\ CommandsAreAnswered
=============================================================================
