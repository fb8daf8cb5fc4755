-------------------------------- MODULE Xtensa --------------------------------
(***************************************************************************)
(* The Xtensa core of the Wi-Fi card, as functions of its state x, a record:  *)
(*   gpr, window_base     the registers and the first of those in sight, in   *)
(*                        groups of four                                     *)
(*   pc, lbeg, lend, lcount, sar, litbase                                      *)
(*   ps                   int_level, exception and call_inc                   *)
(*   epc, eps, excsave    of each interrupt level                            *)
(*   intenable, interrupt  sets of interrupts                                *)
(*   halted, mem, died    died: an error ended the emulation                 *)
(* Instructions are records of the fields that their handlers cut out; their *)
(* addresses count instructions.                                            *)
(***************************************************************************)
EXTENDS Words, FiniteSetsExt

CONSTANTS NumWindows,  \* 256 in the code.
          FirstNmi     \* 15 in the code: the first interrupt of the third level.

a(x, r) == x.gpr[r + 4 * x.window_base]
SetA(x, r, v) == [x EXCEPT !.gpr[r + 4 * x.window_base] = Wrap(v)]

branch(x, offset) == [x EXCEPT !.pc = @ + offset]

-----------------------------------------------------------------------------
(* Windows: a call leaves the return address and the rotation in the        *)
(* callee's first register; ENTRY rotates and makes the frame.              *)

AddressLimit == Limit \div 4

windowed_call(x, to, inc) ==
    [SetA(x, 4 * inc, (x.pc % AddressLimit) + inc * AddressLimit) EXCEPT
        !.ps.call_inc = inc, !.pc = to]

Died(x) == [x EXCEPT !.died = TRUE]

(* There are no exceptions of windows: calls too deep end the emulation, as *)
(* does a return beyond the first window.                                   *)
entry(x, sp, frame) ==
    IF x.window_base + x.ps.call_inc >= NumWindows THEN Died(x)
    ELSE [SetA(x, sp + 4 * x.ps.call_inc, a(x, sp) - frame) EXCEPT !.window_base = @ + x.ps.call_inc]

(* Mutant: the window is rotated back by the caller's last call.            *)
windowed_ret_CallInc(x) ==
    [x EXCEPT !.window_base = @ - x.ps.call_inc, !.pc = a(x, 0) % AddressLimit]

windowed_ret(x) ==
    LET n == a(x, 0) \div AddressLimit IN
    IF x.window_base = n THEN Died(x)
    ELSE [x EXCEPT !.window_base = @ - n,
                   !.pc = (a(x, 0) % AddressLimit) + (@ - (@ % AddressLimit))]

call0(x, to) == [SetA(x, 0, x.pc) EXCEPT !.pc = to]

-----------------------------------------------------------------------------
(* Interrupts.                                                              *)

Level(id) == IF id = 0 THEN 1 ELSE IF id < FirstNmi THEN 2 ELSE 3
Vector == <<24, 36, 48>>

(* An interrupt that is not enabled now is recorded, but nothing looks at   *)
(* it again when it is.                                                     *)
send_irq(x, id) ==
    LET level == Level(id)
        y == [x EXCEPT !.interrupt = @ \cup {id}]
    IN IF id \in x.intenable /\ x.ps.int_level < level
       THEN [y EXCEPT !.epc[level] = x.pc, !.eps[level] = x.ps, !.pc = Vector[level],
                      !.ps.int_level = level, !.ps.exception = TRUE, !.halted = FALSE]
       ELSE y

rfi(x, level) == [x EXCEPT !.pc = x.epc[level], !.ps = x.eps[level]]

rsil(x, r, level) == [SetA(x, r, x.ps.int_level) EXCEPT !.ps.int_level = level]
waiti(x, level) == [x EXCEPT !.ps.int_level = level, !.halted = TRUE]

-----------------------------------------------------------------------------
(* Special registers.                                                       *)

SetBits(v) == {k \in 0..(Bits - 1) : Bit(v, k)}
OfBits(S) == MapThenSumSet(LAMBDA k : 2^k, S)

Excsave == [excsave1 |-> 1, excsave2 |-> 2, excsave3 |-> 3]

get_xsr(x, r) ==
    CASE r = "lbeg"      -> x.lbeg
      [] r = "lend"      -> x.lend
      [] r = "lcount"    -> x.lcount
      [] r = "sar"       -> x.sar
      [] r = "epc2"      -> x.epc[2]
      [] r \in DOMAIN Excsave -> x.excsave[Excsave[r]]
      [] r = "interrupt" -> OfBits(x.interrupt)
      [] r = "intenable" -> OfBits(x.intenable)

(* Five bits are kept of SAR, and what is written to the interrupts is      *)
(* cleared.                                                                 *)
set_xsr(x, r, v) ==
    CASE r = "lbeg"      -> [x EXCEPT !.lbeg = v]
      [] r = "lend"      -> [x EXCEPT !.lend = v]
      [] r = "lcount"    -> [x EXCEPT !.lcount = v]
      [] r = "sar"       -> [x EXCEPT !.sar = v % Bits]
      [] r = "litbase"   -> [x EXCEPT !.litbase = v]
      [] r = "window"    -> [x EXCEPT !.window_base = v]
      [] r \in DOMAIN Excsave -> [x EXCEPT !.excsave[Excsave[r]] = v]
      [] r = "interrupt" -> [x EXCEPT !.interrupt = @ \ SetBits(v)]
      [] r = "intenable" -> [x EXCEPT !.intenable = SetBits(v)]

xsr(x, r, i) == SetA(set_xsr(x, r, a(x, i)), i, get_xsr(x, r))

-----------------------------------------------------------------------------
(* Arithmetic.                                                              *)

Least(m, n) == IF m < n THEN m ELSE n
Greatest(m, n) == IF m > n THEN m ELSE n
Low(v) == v % Half
LowSigned(v) == SignedPart(v, 2 * ByteBits)

Combined(op, m, n) ==
    CASE op = "and"    -> m & n
      [] op = "or"     -> m | n
      [] op = "xor"    -> m ^^ n
      [] op = "add"    -> m + n
      [] op = "addx2"  -> 2 * m + n
      [] op = "addx4"  -> 4 * m + n
      [] op = "addx8"  -> 8 * m + n
      [] op = "sub"    -> m - n
      [] op = "subx2"  -> 2 * m - n
      [] op = "subx4"  -> 4 * m - n
      [] op = "subx8"  -> 8 * m - n
      [] op = "mul16u" -> Low(m) * Low(n)
      [] op = "mul16s" -> LowSigned(m) * LowSigned(n)
      [] op = "mull"   -> m * n
      [] op = "min"    -> Least(Signed(m), Signed(n))
      [] op = "max"    -> Greatest(Signed(m), Signed(n))
      [] op = "minu"   -> Least(m, n)
      [] op = "maxu"   -> Greatest(m, n)

(* ABS clears the sign.                                                     *)
Unary(op, v) ==
    CASE op = "neg"  -> -v
      [] op = "abs"  -> v % (Limit \div 2)
      [] op = "nsau" -> Cardinality({k \in 0..(Bits - 1) : v < 2^k})

MoveIf(op, v) ==
    CASE op = "moveqz" -> v = 0
      [] op = "movnez" -> v # 0
      [] op = "movltz" -> IsNegative(v)
      [] op = "movgez" -> ~IsNegative(v)

(* The amount of SLL and SSL is kept as the number of bits that stay.       *)
ShiftAmount(op, v) ==
    CASE op = "ssr"   -> v % Bits
      [] op = "ssl"   -> Bits - (v % Bits)
      [] op = "ssa8l" -> (v % 4) * ByteBits
      [] op = "ssai"  -> v

sll(v, n) == v * 2^n
srl(v, n) == v \div 2^n
sra(v, n) == Signed(v) \div 2^n
src(high, low, n) == (high * Limit + low) \div 2^n

extui(v, n, width) == (v \div 2^n) % 2^width

-----------------------------------------------------------------------------
(* Memory, of words; the program keeps to aligned addresses.                *)

Slot(addr) == addr \div 4
SizeBits(size) == CASE size = 1 -> ByteBits [] size = 2 -> 2 * ByteBits [] size = 4 -> Bits
Shift8(addr) == (addr % 4) * ByteBits

Read(x, addr, size) == (x.mem[Slot(addr)] \div 2^Shift8(addr)) % 2^SizeBits(size)

Write(x, addr, size, v) ==
    LET old == Read(x, addr, size) * 2^Shift8(addr)
        new == (v % 2^SizeBits(size)) * 2^Shift8(addr)
    IN [x EXCEPT !.mem[Slot(addr)] = @ - old + new]

l32r(x, i) == SetA(x, i.rd, Read(x, i.literal, 4))

-----------------------------------------------------------------------------
(* Branches and loops.                                                      *)

Taken(op, m, n) ==
    CASE op = "eq"   -> m = n
      [] op = "ne"   -> m # n
      [] op = "lt"   -> Signed(m) < Signed(n)
      [] op = "ge"   -> Signed(m) >= Signed(n)
      [] op = "ltu"  -> m < n
      [] op = "geu"  -> m >= n
      [] op = "none" -> (m & n) = 0
      [] op = "any"  -> (m & n) # 0
      [] op = "bc"   -> ~Bit(m, n % Bits)
      [] op = "bs"   -> Bit(m, n % Bits)

setup_loop(x, count, size, cond) ==
    [x EXCEPT !.lcount = IF count > 0 THEN count - 1 ELSE 0,
              !.lbeg = x.pc, !.lend = x.pc + size,
              !.pc = IF cond THEN @ ELSE x.pc + size]

loop(x, i) ==
    LET count == Signed(a(x, i.rs)) IN
    setup_loop(x, count, i.size, IF i.nez THEN count # 0 ELSE count > 0)

(* The end of a loop's body, which counts outside of exceptions only.       *)
LoopBack(x) ==
    IF x.lcount > 0 /\ x.pc = x.lend /\ ~x.ps.exception
    THEN [x EXCEPT !.pc = x.lbeg, !.lcount = @ - 1] ELSE x

-----------------------------------------------------------------------------

(* The instructions, by the tables in which they are found.                 *)

op0_qrst_rst0(x, i) ==
    CASE i.op = "alu"    -> SetA(x, i.rd, Combined(i.f, a(x, i.rs), a(x, i.rt)))
      [] i.op = "unary"  -> SetA(x, i.rd, Unary(i.f, a(x, i.rs)))
      [] i.op = "amount" -> [x EXCEPT !.sar = ShiftAmount(i.f, IF i.f = "ssai" THEN i.v ELSE a(x, i.rs))]

op0_qrst_rst0_st0(x, i) ==
    CASE i.op = "ret"   -> windowed_ret(x)
      [] i.op = "jx"    -> [x EXCEPT !.pc = a(x, i.rs)]
      [] i.op = "callx" -> windowed_call(x, a(x, i.rs), i.inc)
      [] i.op = "rsil"  -> rsil(x, i.rd, i.level)
      [] i.op = "waiti" -> waiti(x, i.level)
      [] i.op = "rfi"   -> rfi(x, i.level)
      [] i.op = "nop"   -> x

op0_qrst_rst1(x, i) ==
    CASE i.op = "slli" -> SetA(x, i.rd, sll(a(x, i.rs), i.n))
      [] i.op = "srai" -> SetA(x, i.rd, sra(a(x, i.rs), i.n))
      [] i.op = "srli" -> SetA(x, i.rd, srl(a(x, i.rs), i.n))
      [] i.op = "sll"  -> SetA(x, i.rd, sll(a(x, i.rs), Bits - x.sar))
      [] i.op = "srl"  -> SetA(x, i.rd, srl(a(x, i.rs), x.sar))
      [] i.op = "sra"  -> SetA(x, i.rd, sra(a(x, i.rs), x.sar))
      [] i.op = "src"  -> SetA(x, i.rd, src(a(x, i.rs), a(x, i.rt), x.sar))
      [] i.op = "xsr"  -> xsr(x, i.xsr, i.rd)

op0_qrst_rst3(x, i) ==
    CASE i.op = "move" -> IF MoveIf(i.f, a(x, i.rt)) THEN SetA(x, i.rd, a(x, i.rs)) ELSE x
      [] i.op = "rsr"  -> SetA(x, i.rd, get_xsr(x, i.xsr))
      [] i.op = "wsr"  -> set_xsr(x, i.xsr, a(x, i.rs))

op0_lsai(x, i) ==
    LET v == Read(x, Wrap(a(x, i.rs) + i.v), i.size) IN
    CASE i.op = "load"  -> SetA(x, i.rd, IF i.is_signed THEN SignedPart(v, SizeBits(i.size)) ELSE v)
      [] i.op = "store" -> Write(x, Wrap(a(x, i.rs) + i.v), i.size, a(x, i.rd))

op0_arri(x, i) ==
    CASE i.op = "movi" -> SetA(x, i.rd, i.v)
      [] i.op = "addi" -> SetA(x, i.rd, a(x, i.rs) + i.v)

op0_calln(x, i) ==
    CASE i.op = "call0" -> call0(x, i.to)
      [] i.op = "call"  -> windowed_call(x, i.to, i.inc)

op0_si(x, i) ==
    CASE i.op = "j"     -> branch(x, i.to)
      [] i.op = "bi"    -> IF Taken(i.f, a(x, i.rs), Wrap(i.v)) THEN branch(x, i.to) ELSE x
      [] i.op = "entry" -> entry(x, i.rs, i.v)
      [] i.op = "loop"  -> loop(x, i)

op0_b(x, i) == IF Taken(i.f, a(x, i.rs), a(x, i.rt)) THEN branch(x, i.to) ELSE x

(* The instructions of two bytes; ADDI.N has -1 in the place of 0.          *)
op0_n(x, i) ==
    CASE i.op = "l32i_n" -> SetA(x, i.rd, Read(x, Wrap(a(x, i.rs) + i.v), 4))
      [] i.op = "s32i_n" -> Write(x, Wrap(a(x, i.rs) + i.v), 4, a(x, i.rd))
      [] i.op = "add_n"  -> SetA(x, i.rd, a(x, i.rs) + a(x, i.rt))
      [] i.op = "addi_n" -> SetA(x, i.rd, a(x, i.rs) + (IF i.v = 0 THEN -1 ELSE i.v))

op0_st2(x, i) ==
    CASE i.op = "movi_n" -> SetA(x, i.rd, i.v)
      [] i.op = "beqz_n" -> IF a(x, i.rs) = 0 THEN branch(x, i.to) ELSE x
      [] i.op = "bnez_n" -> IF a(x, i.rs) # 0 THEN branch(x, i.to) ELSE x

op0_st3(x, i) ==
    CASE i.op = "mov"   -> SetA(x, i.rd, a(x, i.rs))
      [] i.op = "ret_n" -> windowed_ret(x)
      [] i.op = "nop_n" -> x

interpret(x, i) ==
    CASE i.op \in {"alu", "unary", "amount"} -> op0_qrst_rst0(x, i)
      [] i.op \in {"ret", "jx", "callx", "rsil", "waiti", "rfi", "nop"} -> op0_qrst_rst0_st0(x, i)
      [] i.op \in {"slli", "srai", "srli", "sll", "srl", "sra", "src", "xsr"} -> op0_qrst_rst1(x, i)
      [] i.op \in {"move", "rsr", "wsr"} -> op0_qrst_rst3(x, i)
      [] i.op = "extui" -> SetA(x, i.rd, extui(a(x, i.rs), i.n, i.width))
      [] i.op = "l32r" -> l32r(x, i)
      [] i.op \in {"load", "store"} -> op0_lsai(x, i)
      [] i.op \in {"movi", "addi"} -> op0_arri(x, i)
      [] i.op \in {"call0", "call"} -> op0_calln(x, i)
      [] i.op \in {"j", "bi", "entry", "loop"} -> op0_si(x, i)
      [] i.op = "b" -> op0_b(x, i)
      [] i.op \in {"l32i_n", "s32i_n", "add_n", "addi_n"} -> op0_n(x, i)
      [] i.op \in {"movi_n", "beqz_n", "bnez_n"} -> op0_st2(x, i)
      [] i.op \in {"mov", "ret_n", "nop_n"} -> op0_st3(x, i)

(* One round of Xtensa::run.                                                *)
run(x, Code(_)) == LoopBack(interpret([x EXCEPT !.pc = @ + 1], Code(x.pc)))
=============================================================================
