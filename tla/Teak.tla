--------------------------------- MODULE Teak ---------------------------------
(***************************************************************************)
(* The DSP's core, as functions of its state d, a record:                    *)
(*   pc, sp, r, acc, x, y, p, pe, sv, mixp   the registers                    *)
(*   flags              the set of those of STT0 and ST0 that are set         *)
(*   st, ie             the other status registers; the enabled interrupts   *)
(*   shadow             flags, st and ie of the other context                *)
(*   cfg, bank          the address units, and what BANKE exchanges           *)
(*   rep, repc, repcs, loops, bcn, lp         repetition                      *)
(*   acc_s              the copies of the second accumulators                *)
(*   mode, mie, halted  MOD3's switches; interrupts are on; asleep            *)
(*   icu, timers, btdmp, apbp, mem            the devices and the memory      *)
(*   died               an error ended the emulation                        *)
(* An accumulator has two words and a byte.                                 *)
(* Instructions are records of the fields that their handlers cut out; their *)
(* addresses count instructions.  An accumulator is an integer: the code's   *)
(* 64 bits do not always extend the sign of bit 39.                          *)
(***************************************************************************)
EXTENDS Integers, Bitwise, SequencesExt

CONSTANTS WordBits,  \* The bits of a word: 16 in the code.
          MmioBase   \* Data addresses from here on are devices' registers.

ByteBits == WordBits \div 2
LongBits == 2 * WordBits
AccBits == LongBits + ByteBits

Byte == 2^ByteBits
Half == 2^WordBits
Limit == 2^LongBits

Word(v) == v % Half
Wrap(v) == v % Limit
trunc_to_40(v) == v % 2^AccBits

Bit(v, i) == (v \div 2^i) % 2 = 1

SignedPart(v, n) ==
    LET low == v % 2^n IN IF low >= 2^(n - 1) THEN low - 2^n ELSE low

Ext16(v) == SignedPart(v, WordBits)
Ext24(v) == SignedPart(v, WordBits + ByteBits)
Ext32(v) == SignedPart(v, LongBits)
Ext40(v) == SignedPart(v, AccBits)

Has(d, flag) == flag \in d.flags
Set(d, flag, v) == [d EXCEPT !.flags = IF v THEN @ \cup {flag} ELSE @ \ {flag}]

-----------------------------------------------------------------------------
(* Interrupts and their contexts.                                           *)

assert_dsp_irq(d, id) == [d EXCEPT !.icu.pending = @ \cup {id}]

acknowledge(d, ids) ==
    [d EXCEPT !.icu.pending = @ \ ids,
              !.icu.signals = {k \in @ : IF k = 3 THEN d.icu.vectored \cap ids = {}
                                         ELSE d.icu.connection[k] \cap ids = {}}]

set_acc_flags(d, v) ==
    LET e == v # Ext32(v)
        n == v = 0 \/ (~e /\ Bit(v, LongBits - 1) # Bit(v, LongBits - 2))
    IN Set(Set(Set(Set(d, "z", v = 0), "m", Bit(v, AccBits - 1)), "e", e), "n", n)

set_acc_and_flag(d, acc, v) == [set_acc_flags(d, v) EXCEPT !.acc[acc] = v]

swap_shadows(d) ==
    [d EXCEPT !.flags = d.shadow.flags, !.st = d.shadow.st, !.ie = d.shadow.ie,
              !.shadow = [flags |-> d.flags, st |-> d.st, ie |-> d.ie]]

save_context(d) ==
    LET s == swap_shadows([d EXCEPT !.shadow.flags = d.flags])
        t == IF d.mode.crep THEN s ELSE [s EXCEPT !.repcs = d.repc]
    IN IF d.mode.ccnta
       THEN set_acc_and_flag([t EXCEPT !.acc["b1"] = d.acc["a1"]], "a1", d.acc["b1"])
       ELSE [t EXCEPT !.acc_s = [a1 |-> d.acc["a1"], b1 |-> d.acc["b1"]]]

(* Mutant: the context keeps the accumulators of the handler.               *)
restore_context_NoAcc(d) ==
    LET s == swap_shadows([d EXCEPT !.flags = d.shadow.flags])
    IN IF d.mode.crep THEN s ELSE [s EXCEPT !.repc = d.repcs]

restore_context(d) ==
    LET s == swap_shadows([d EXCEPT !.flags = d.shadow.flags])
        t == IF d.mode.crep THEN s ELSE [s EXCEPT !.repc = d.repcs]
    IN [t EXCEPT !.acc["a1"] = IF d.mode.ccnta THEN d.acc["b1"] ELSE d.acc_s.a1,
                 !.acc["b1"] = IF d.mode.ccnta THEN d.acc["a1"] ELSE d.acc_s.b1]

push16(d, v) == [d EXCEPT !.sp = Word(@ - 1), !.mem[Word(d.sp - 1)] = v]

(* The order of the two words of an address is a mode.                      *)
push_pc(d) ==
    LET low == Word(d.pc)
        high == d.pc \div Half
    IN IF d.mode.reverse THEN push16(push16(d, high), low) ELSE push16(push16(d, low), high)

pop_pc(d) ==
    LET first == d.mem[d.sp]
        second == d.mem[Word(d.sp + 1)]
    IN [d EXCEPT !.sp = Word(@ + 2),
                 !.pc = IF d.mode.reverse THEN first + Half * second ELSE second + Half * first]

do_irq(d, addr, type) ==
    LET e == [push_pc(d) EXCEPT !.mie = FALSE, !.halted = FALSE, !.pc = addr]
        line == IF type > 2 THEN 3 ELSE type
        switch == IF type > 2 THEN (type - 3) \in d.icu.vector_ctx ELSE type \in d.mode.int_ctx
        f == [e EXCEPT !.icu.signals = @ \cup {line}]
    IN IF switch THEN save_context(f) ELSE f

(* The interrupts that are pending, from the first: a line ends the search, *)
(* a vector does not.  A line's type is the interrupt's number.             *)
int_check(d) ==
    LET Enter(s, id) ==
            LET lines == {i \in s.d.ie.lines : id \in s.d.icu.connection[i]}
            IN IF s.found THEN s
               ELSE IF lines # {} THEN [d |-> do_irq(s.d, 6 + 8 * Min(lines), id), found |-> TRUE]
               ELSE IF s.d.ie.vectored /\ id \in s.d.icu.vectored
                    THEN [s EXCEPT !.d = do_irq(s.d, s.d.icu.vector_addr[id], 3 + id)]
               ELSE s
    IN IF d.mie /\ ~d.rep
       THEN FoldLeft(Enter, [d |-> d, found |-> FALSE], SetToSortSeq(d.icu.pending, <)).d
       ELSE d

-----------------------------------------------------------------------------
(* The devices, and what the core's accesses do to them; the fields of their *)
(* registers are moved to fit a short word.                                 *)

do_timer_overflow(d, i) ==
    LET e == assert_dsp_irq(d, 10 - i)
    IN CASE d.timers[i].mode = 0 -> [e EXCEPT !.timers[i].enabled = FALSE]
         [] d.timers[i].mode = 1 -> [e EXCEPT !.timers[i].counter = d.timers[i].restart]
         [] d.timers[i].mode = 2 -> e

count(d, i) ==
    LET e == [d EXCEPT !.timers[i].counter = Wrap(@ - 1)]
    IN IF ~d.timers[i].enabled THEN d
       ELSE IF e.timers[i].counter = 0 THEN do_timer_overflow(e, i) ELSE e

transmit(d) ==
    LET b == d.btdmp
        rest == IF b.queue = <<>> THEN b.queue ELSE Tail(b.queue)
        e == [d EXCEPT !.btdmp.left = b.period, !.btdmp.queue = rest]
    IN IF ~b.enabled THEN d
       ELSE IF b.left # 1 THEN [d EXCEPT !.btdmp.left = @ - 1]
       ELSE IF Len(b.queue) = 1 /\ b.irq_on_empty THEN assert_dsp_irq(e, 11) ELSE e

Mmio == [cmd2 |-> MmioBase, reply2 |-> MmioBase + 1, sts |-> MmioBase + 2, timer0 |-> MmioBase + 3,
         restart0 |-> MmioBase + 4, int_ack |-> MmioBase + 5, fifo |-> MmioBase + 6,
         transmit |-> MmioBase + 7]

Ids(v) == {id \in 0..(WordBits - 1) : Bit(v, id)}

(* A short word has the bits of the last interrupts.                        *)
IdsOfWord(v) == {id + 16 - WordBits : id \in Ids(v)}

read_data_word(d, addr) ==
    CASE addr = Mmio.cmd2 -> d.apbp.cmd
      [] addr = Mmio.sts  -> IF d.apbp.cmd_ready THEN 1 ELSE 0
      [] addr < MmioBase  -> d.mem[addr]
      [] OTHER            -> 0

AfterRead(d, addr) == IF addr = Mmio.cmd2 THEN [d EXCEPT !.apbp.cmd_ready = FALSE] ELSE d

write_data_word(d, addr, v) ==
    CASE addr = Mmio.reply2 ->
            [d EXCEPT !.apbp.reply = v, !.apbp.reply_ready = TRUE,
                      !.apbp.arm_irqs = @ + (IF d.apbp.reply_int THEN 1 ELSE 0)]
      [] addr = Mmio.timer0 ->
            [d EXCEPT !.timers[0].mode = v % 4, !.timers[0].enabled = Bit(v, 2),
                      !.timers[0].counter = IF Bit(v, 3) THEN d.timers[0].restart ELSE @]
      [] addr = Mmio.restart0 -> [d EXCEPT !.timers[0].restart = v]
      [] addr = Mmio.int_ack -> acknowledge(d, IdsOfWord(v))
      [] addr = Mmio.fifo -> [d EXCEPT !.btdmp.queue = Append(@, v)]
      [] addr = Mmio.transmit -> [d EXCEPT !.btdmp.enabled = (v # 0),
                                           !.btdmp.left = IF v # 0 THEN d.btdmp.period ELSE @]
      [] OTHER -> [d EXCEPT !.mem[addr] = v]

-----------------------------------------------------------------------------
(* Addresses.                                                               *)

Side(rn) == IF rn < 4 THEN "i" ELSE "j"

(* The code's std20_log2p1: how many bits a number takes.                   *)
log2p1(n) == Min({k \in 0..WordBits : 2^k > n})

StepBits == (7 * WordBits) \div 16

Delta(d, rn, step) ==
    LET c == d.cfg[Side(rn)]
        reversed == rn \in d.st.br /\ rn \notin d.st.m
    IN CASE step \in {"+1", "+2"} -> IF step = "+1" THEN 1 ELSE 2
         [] step \in {"-1", "-2"} -> IF step = "-1" THEN -1 ELSE -2
         [] step = "+s" /\ d.st.stp16 /\ ~d.st.cmd ->
              IF rn \in d.st.m THEN SignedPart(c.step0, WordBits - StepBits) ELSE c.step0
         [] step = "+s" -> IF reversed THEN c.step0 ELSE SignedPart(c.step, StepBits)

(* One step within the buffer of mod + 1 words that holds value.            *)
NextInBuffer(value, mod, delta, cmd) ==
    LET reach == IF ~cmd THEN mod ELSE mod | (IF delta < 0 THEN -delta - 1 ELSE delta)
        size == 2^log2p1(reach)
        at == value % size
        next == CASE cmd /\ delta >= 0 -> IF at = mod THEN 0 ELSE at + delta
                  [] cmd /\ delta < 0 -> IF at = 0 THEN 0 ELSE at + delta
                  [] ~cmd /\ delta >= 0 -> IF (at + delta) % size = (mod + 1) % size THEN 0 ELSE at + delta
                  [] ~cmd /\ delta < 0 -> (IF at = 0 THEN mod + 1 ELSE at) + delta
    IN value - at + (next % size)

step_addr(d, rn, value, step) ==
    LET mod == d.cfg[Side(rn)].mod
        delta == Delta(d, rn, step)
        By(v, n) == NextInBuffer(v, mod, n, d.st.cmd)
    IN CASE step = "0" -> value
         [] step # "0" /\ rn \in d.st.m \ d.st.br ->
              IF mod = 0 THEN value
              ELSE IF step \in {"+2", "-2"} /\ ~d.st.cmd THEN By(By(value, delta \div 2), delta \div 2)
              ELSE By(value, delta)
         [] OTHER -> Word(value + delta)

offset_addr(d, rn, addr, offset) ==
    LET mod == d.cfg[Side(rn)].mod
        at == addr % 2^(IF mod = 0 THEN 1 ELSE log2p1(mod))
    IN CASE offset = "0" -> addr
         [] offset = "-1" -> Word(addr - 1)
         [] offset = "+1" -> IF rn \in d.st.m \ d.st.br /\ at = mod THEN addr - at ELSE Word(addr + 1)

rn_and_modify(d, rn, step) == [d EXCEPT !.r[rn] = step_addr(d, rn, @, step)]

check_fr(d, rn) == Set(d, "r", d.r[rn] = 0)

page_addr(d, imm) == Word(d.st.page * Byte + imm)

(* Where an operand in memory is, and the state once its address is made.   *)
Locate(d, o) ==
    CASE o.k = "page" -> [d |-> d, addr |-> page_addr(d, o.imm)]
      [] o.k = "abs"  -> [d |-> d, addr |-> o.imm]
      [] o.k = "rn"   -> [d |-> rn_and_modify(d, o.rn, o.step), addr |-> d.r[o.rn]]
      [] o.k = "r7"   -> [d |-> d, addr |-> Word(d.r[7] + o.imm)]

-----------------------------------------------------------------------------
(* Products and accumulators.                                               *)

saturate(v) == IF v = Ext32(v) THEN v ELSE IF Bit(v, AccBits - 1) THEN -(Limit \div 2) ELSE Limit \div 2 - 1

Limited(d, v) == Set(d, "lm", Has(d, "lm") \/ v # Ext32(v))

get_saturated_acc(d, acc) == IF d.st.sat THEN d.acc[acc] ELSE saturate(d.acc[acc])
AfterSaturated(d, acc) == IF d.st.sat THEN d ELSE Limited(d, d.acc[acc])

saturate_acc_with_flag(d, acc, v) ==
    LET e == set_acc_flags(d, v)
    IN IF d.st.sata THEN [e EXCEPT !.acc[acc] = v]
       ELSE [Limited(e, v) EXCEPT !.acc[acc] = saturate(v)]

get_product(d, k) ==
    LET v == d.p[k] + d.pe[k] * Limit
    IN CASE d.st.ps[k] = 0 -> SignedPart(v, LongBits + 1)
         [] d.st.ps[k] = 1 -> Ext32(v \div 2)
         [] d.st.ps[k] = 2 -> SignedPart(2 * v, LongBits + 2)
         [] d.st.ps[k] = 3 -> SignedPart(4 * v, LongBits + 3)

set_product(d, k, v) == [d EXCEPT !.p[k] = Wrap(v), !.pe[k] = IF Bit(v, LongBits - 1) THEN 1 ELSE 0]

get_add_sub_result(a, b, is_sub) ==
    Ext40(IF is_sub THEN trunc_to_40(a) - trunc_to_40(b) ELSE trunc_to_40(a) + trunc_to_40(b))

AfterAddSub(d, a, b, is_sub) ==
    LET full == IF is_sub THEN trunc_to_40(a) - trunc_to_40(b) ELSE trunc_to_40(a) + trunc_to_40(b)
        Sign(v) == Bit(v, AccBits - 1)
        v == Sign(a) = (Sign(b) # is_sub) /\ Sign(a) # Sign(full)
    IN Set(Set(Set(d, "c", Bit(full, AccBits)), "v", v), "vl", v \/ Has(d, "vl"))

AddTo(d, acc, a, b, is_sub) ==
    saturate_acc_with_flag(AfterAddSub(d, a, b, is_sub), acc, get_add_sub_result(a, b, is_sub))

(* The accumulator, a value or nothing, plus or minus both products.        *)
product_sum(d, base, acc, sub0, align0, sub1, align1) ==
    LET Aligned(v, align) == IF align THEN Ext24(v \div Half) ELSE v
        pa == Aligned(get_product(d, 0), align0)
        pb == Aligned(get_product(d, 1), align1)
        start == CASE base = "zero"   -> 0
                   [] base = "acc"    -> d.acc[acc]
                   [] base = "sv"     -> Ext32(d.sv * Half)
                   [] base = "sv_rnd" -> Ext32(d.sv * Half) + Half \div 2
        Both(d1, d2, flag) ==
            IF sub0 = sub1 THEN Has(d1, flag) \/ Has(d2, flag) ELSE Has(d1, flag) # Has(d2, flag)
        Flagged(d1, d2) == Set(Set(d2, "c", Both(d1, d2, "c")), "v", Both(d1, d2, "v"))
        Second(d1, half, b) ==
            saturate_acc_with_flag(Flagged(d1, AfterAddSub(d1, half, b, sub1)), acc,
                                   get_add_sub_result(half, b, sub1))
        First(a) == Second(AfterAddSub(d, start, a, sub0), get_add_sub_result(start, a, sub0), pb)
    IN First(pa)

multiply(d, k, x_sign, y_sign) ==
    LET y == CASE d.st.hwm = 0 -> d.y[k]
               [] d.st.hwm = 1 \/ (d.st.hwm = 3 /\ k = 0) -> d.y[k] \div Byte
               [] OTHER -> d.y[k] % Byte
        product == Wrap((IF x_sign THEN Ext16(d.x[k]) ELSE d.x[k]) * (IF y_sign THEN Ext16(y) ELSE y))
        negative == (x_sign \/ y_sign) /\ Bit(product, LongBits - 1)
    IN [d EXCEPT !.p[k] = product, !.pe[k] = IF negative THEN 1 ELSE 0]

(* An arithmetic shift notices what it loses, and saturates.                *)
shift_reg_40(d, value, dest, shift) ==
    LET v == trunc_to_40(value)
        arith == ~d.st.s
        n == IF shift < 0 THEN -shift ELSE shift
        result ==
            IF shift >= 0
            THEN IF n >= AccBits THEN 0 ELSE (v % 2^(AccBits + 1 - n)) * 2^n
            ELSE IF arith THEN Ext40(v) \div 2^(IF n < AccBits THEN n ELSE AccBits)
            ELSE IF n < AccBits THEN v \div 2^n ELSE 0
        carry == IF shift >= 0 THEN Bit(result, AccBits)
                 ELSE IF n < AccBits THEN Bit(v, n - 1) ELSE arith /\ Bit(v, AccBits - 1)
        overflow == shift >= 0 /\ (IF n < AccBits THEN Ext40(v) # SignedPart(v, AccBits - n) ELSE v # 0)
        c == Set(d, "c", carry)
        e == set_acc_flags(IF arith THEN Set(Set(c, "v", overflow), "vl", overflow \/ Has(c, "vl")) ELSE c,
                           Ext40(result))
        lost == arith /\ ~d.st.sata /\ (overflow \/ Ext32(result) # Ext40(result))
    IN IF lost
       THEN [Set(e, "lm", TRUE) EXCEPT
                !.acc[dest] = IF Bit(v, AccBits - 1) THEN -(Limit \div 2) ELSE Limit \div 2 - 1]
       ELSE [e EXCEPT !.acc[dest] = Ext40(result)]

exp(v) ==
    LET other == {k \in 0..(AccBits - 2) : Bit(v, k) # Bit(v, AccBits - 1)}
    IN Word((IF other = {} THEN AccBits - 1 ELSE AccBits - 2 - Max(other)) - ByteBits)

-----------------------------------------------------------------------------
(* Registers of a word.                                                     *)

Rn == [r0 |-> 0, r1 |-> 1, r2 |-> 2, r3 |-> 3, r4 |-> 4, r5 |-> 5, r6 |-> 6, r7 |-> 7]
LowOf == [a0l |-> "a0", a1l |-> "a1", b0l |-> "b0", b1l |-> "b1"]
HighOf == [a0h |-> "a0", a1h |-> "a1", b0h |-> "b0", b1h |-> "b1"]
SideOf == [cfgi |-> "i", cfgj |-> "j"]
Stt0 == <<"lm", "vl", "e", "c", "v", "n", "m", "z">>

AccOf(reg) == IF reg \in DOMAIN LowOf THEN LowOf[reg] ELSE HighOf[reg]
IsPart(reg) == reg \in DOMAIN LowOf \cup DOMAIN HighOf

get_reg16(d, reg, sat) ==
    LET part == IF sat THEN get_saturated_acc(d, AccOf(reg)) ELSE d.acc[AccOf(reg)]
    IN CASE reg \in DOMAIN Rn     -> d.r[Rn[reg]]
         [] reg \in DOMAIN LowOf  -> Word(part)
         [] reg \in DOMAIN HighOf -> Word(part \div Half)
         [] reg = "y0" -> d.y[0]
         [] reg = "p"  -> Word(get_product(d, 0) \div Half)
         [] reg = "sp" -> d.sp
         [] reg = "sv" -> d.sv
         [] reg \in DOMAIN SideOf -> Word(d.cfg[SideOf[reg]].step + d.cfg[SideOf[reg]].mod * 2^StepBits)
         [] reg = "lc" -> d.loops[IF d.lp THEN d.bcn - 1 ELSE 0].lc
         [] reg = "stt0" -> MapThenSumSet(LAMBDA k : 2^(k - 1), {k \in 1..8 : Has(d, Stt0[k])})

AfterGet(d, reg) == IF IsPart(reg) THEN AfterSaturated(d, AccOf(reg)) ELSE d

(* LC is written to the innermost loop and to the outermost.                *)
set_reg16(d, reg, v) ==
    CASE reg \in DOMAIN Rn     -> [d EXCEPT !.r[Rn[reg]] = v]
      [] reg \in DOMAIN d.acc  -> saturate_acc_with_flag(d, reg, Ext16(v))
      [] reg \in DOMAIN LowOf  -> saturate_acc_with_flag(d, LowOf[reg], v)
      [] reg \in DOMAIN HighOf -> saturate_acc_with_flag(d, HighOf[reg], Ext16(v) * Half)
      [] reg = "y0" -> [d EXCEPT !.y[0] = v]
      [] reg = "p"  -> [d EXCEPT !.p[0] = (@ % Half) + v * Half, !.pe[0] = IF v >= Half \div 2 THEN 1 ELSE 0]
      [] reg = "sp" -> [d EXCEPT !.sp = v]
      [] reg = "sv" -> [d EXCEPT !.sv = v]
      [] reg \in DOMAIN SideOf -> [d EXCEPT !.cfg[SideOf[reg]].step = v % 2^StepBits,
                                            !.cfg[SideOf[reg]].mod = v \div 2^StepBits]
      [] reg = "lc" -> LET e == IF d.lp THEN [d EXCEPT !.loops[d.bcn - 1].lc = v] ELSE d
                       IN [e EXCEPT !.loops[0].lc = v]
      [] reg = "stt0" -> [d EXCEPT !.flags = (@ \cap {"r"}) \cup {Stt0[k] : k \in {j \in 1..8 : Bit(v, j - 1)}}]

(* A part of an accumulator that a bit operation writes: the rest keeps its  *)
(* 40 bits, but not its sign.                                               *)
set_acc_part(d, reg, v) ==
    LET acc == trunc_to_40(d.acc[AccOf(reg)])
    IN [d EXCEPT !.acc[AccOf(reg)] =
            IF reg \in DOMAIN LowOf THEN acc - (acc % Half) + v
            ELSE acc - (acc % Limit) + v * Half + (acc % Half)]

(* An operand's value, and the state once it was read.                      *)
ReadAt(at) == [d |-> AfterRead(at.d, at.addr), v |-> read_data_word(at.d, at.addr)]

Read(d, o) ==
    CASE o.k = "imm" -> [d |-> d, v |-> o.imm]
      [] o.k = "reg" -> [d |-> d, v |-> get_reg16(d, o.reg, FALSE)]
      [] OTHER -> ReadAt(Locate(d, o))

-----------------------------------------------------------------------------
(* Arithmetic and bits.                                                     *)

meets_condition(d, cond) ==
    CASE cond = "always" -> TRUE
      [] cond = "eq" -> Has(d, "z")
      [] cond = "ne" -> ~Has(d, "z")
      [] cond = "gt" -> ~Has(d, "z") /\ ~Has(d, "m")
      [] cond = "ge" -> ~Has(d, "m")
      [] cond = "lt" -> Has(d, "m")
      [] cond = "le" -> Has(d, "m") \/ Has(d, "z")
      [] cond = "nr" -> ~Has(d, "r")

Or64(m, n) ==
    LET v == trunc_to_40(m) | trunc_to_40(n) IN IF m < 0 \/ n < 0 THEN v - 2^AccBits ELSE v
And64(m, n) ==
    LET v == trunc_to_40(m) & trunc_to_40(n) IN IF m < 0 /\ n < 0 THEN v - 2^AccBits ELSE v

signextend_alm(v, op) ==
    CASE op \in {"add", "cmp", "sub"} -> Ext16(v)
      [] op \in {"addh", "subh"}      -> Ext16(v) * Half
      [] OTHER                        -> v

do_alm_op(d, acc, v, op) ==
    LET u == d.acc[acc]
        low == Word(u)
    IN CASE op = "or"   -> set_acc_and_flag(d, acc, Ext40(Or64(u, v)))
         [] op = "and"  -> set_acc_and_flag(d, acc, Ext40(And64(u, v)))
         [] op = "xor"  -> set_acc_and_flag(d, acc, Ext40(trunc_to_40(u) ^^ trunc_to_40(v)))
         [] op = "tst0" -> Set(d, "z", low & trunc_to_40(v) = 0)
         [] op = "tst1" -> Set(d, "z", low & trunc_to_40(v) = trunc_to_40(v))
         [] op \in {"cmp", "cmpu"} -> set_acc_flags(AfterAddSub(d, u, v, TRUE), get_add_sub_result(u, v, TRUE))
         [] op \in {"add", "addh", "addl"} -> AddTo(d, acc, u, v, FALSE)
         [] op \in {"sub", "subh", "subl"} -> AddTo(d, acc, u, v, TRUE)
         [] op = "sqr"  -> multiply([d EXCEPT !.x[0] = Word(v), !.y[0] = Word(v)], 0, TRUE, TRUE)

alm(d, i) ==
    LET whole == IF i.src.k # "reg" THEN FALSE ELSE i.src.reg \in {"p", "a0", "a1"}
        Extended(s) == [s EXCEPT !.v = signextend_alm(@, i.f)]
        With(s) == do_alm_op(s.d, i.acc, s.v, i.f)
    IN With(IF whole THEN [d |-> d, v |-> IF i.src.reg = "p" THEN get_product(d, 0) ELSE d.acc[i.src.reg]]
            ELSE Extended(Read(d, i.src)))

(* AND with a byte keeps the second byte.                                   *)
and_imm8(d, i) ==
    LET second == Word(d.acc[i.acc]) - (Word(d.acc[i.acc]) % Byte)
    IN [do_alm_op(d, i.acc, i.imm, "and") EXCEPT !.acc[i.acc] = @ + second]

AddSum(d, i) ==
    LET m == IF i.src.k = "product" THEN get_product(d, i.src.n) ELSE d.acc[i.src.acc]
    IN AddTo(d, i.acc, d.acc[i.acc], m, i.op = "sub")

do_alb_op(d, m, n, op) ==
    LET sum == IF op = "addv" THEN n + m ELSE n - m
        result ==
            CASE op = "set"  -> m | n
              [] op = "rst"  -> (Half - 1 - m) & n
              [] op = "chng" -> m ^^ n
              [] op = "tst0" -> IF m & n # 0 THEN 1 ELSE 0
              [] op = "tst1" -> IF m & (Half - 1 - n) # 0 THEN 1 ELSE 0
              [] OTHER       -> Word(sum)
        signed == IF op = "addv" THEN Ext16(n) + Ext16(m) ELSE Ext16(n) - Ext16(m)
        e == CASE op \in {"set", "rst", "chng"} -> Set(d, "m", Bit(result, WordBits - 1))
               [] op \in {"tst0", "tst1"}       -> d
               [] OTHER -> Set(Set(d, "c", sum \notin 0..(Half - 1)), "m", signed < 0)
    IN [d |-> Set(e, "z", result = 0), v |-> result]

is_alb_modifying(op) == op \in {"set", "rst", "chng", "addv", "subv"}

alb(d, i) ==
    LET Done(s) == do_alb_op(s.d, i.imm, s.v, i.f)
        ToReg(z) == IF IsPart(i.to.reg) THEN set_acc_part(z.d, i.to.reg, z.v)
                    ELSE set_reg16(z.d, i.to.reg, z.v)
        ToMemory(z, addr) == write_data_word(z.d, addr, z.v)
        AtMemory(at) == ToMemory(Done(ReadAt(at)), at.addr)
    IN CASE ~is_alb_modifying(i.f) -> Done(Read(d, i.to)).d
         [] is_alb_modifying(i.f) /\ i.to.k = "reg" -> ToReg(Done(Read(d, i.to)))
         [] is_alb_modifying(i.f) /\ i.to.k # "reg" -> AtMemory(Locate(d, i.to))

(* The bit that is tested goes to the zero flag as it is; a register is     *)
(* read saturated.                                                          *)
tstb(d, i) ==
    LET Tested(s) == Set(s.d, "z", Bit(s.v, i.n))
    IN Tested(IF i.src.k = "reg"
              THEN [d |-> AfterGet(d, i.src.reg), v |-> get_reg16(d, i.src.reg, TRUE)]
              ELSE Read(d, i.src))

moda(d, i) ==
    LET u == d.acc[i.acc]
        other == IF i.acc = "a0" THEN "a1" ELSE "a0"
        least == u = -(2^(AccBits - 1))
    IN CASE ~meets_condition(d, i.cond) -> d
         [] i.f = "shr"  -> shift_reg_40(d, u, i.acc, -1)
         [] i.f = "shl"  -> shift_reg_40(d, u, i.acc, 1)
         [] i.f = "clr"  -> saturate_acc_with_flag(d, i.acc, 0)
         [] i.f = "clrr" -> saturate_acc_with_flag(d, i.acc, Half \div 2)
         [] i.f = "not"  -> set_acc_and_flag(d, i.acc, -u - 1)
         [] i.f = "neg"  ->
              LET e == Set(d, "c", u # 0)
                  f == IF least THEN Set(Set(e, "v", TRUE), "vl", TRUE) ELSE e
              IN saturate_acc_with_flag(f, i.acc, Ext40(-u))
         [] i.f = "rnd"  -> AddTo(d, i.acc, u, Half \div 2, FALSE)
         [] i.f = "inc"  -> AddTo(d, i.acc, u, 1, FALSE)
         [] i.f = "dec"  -> AddTo(d, i.acc, u, 1, TRUE)
         [] i.f = "copy" -> saturate_acc_with_flag(d, i.acc, d.acc[other])

Exchanged(d, m, n) == saturate_acc_with_flag(saturate_acc_with_flag(d, n, d.acc[m]), m, d.acc[n])

swap(d, i) ==
    CASE i.f = "a0b0" -> Exchanged(d, "a0", "b0")
      [] i.f = "a0b1" -> Exchanged(d, "a0", "b1")
      [] i.f = "a1b0" -> Exchanged(d, "a1", "b0")
      [] i.f = "a1b1" -> Exchanged(d, "a1", "b1")
      [] i.f = "a0b0a1b1" -> Exchanged(Exchanged(d, "b1", "a1"), "a0", "b0")
      [] i.f = "a0b1a1b0" -> Exchanged(Exchanged(d, "b0", "a1"), "a0", "b1")

lim(d, i) == set_acc_and_flag(Limited(d, d.acc[i.src]), i.acc, saturate(d.acc[i.src]))

(* The other of a0 and a1 is taken if it is greater, or less, and MIXP is    *)
(* where it came from.                                                      *)
max_min(d, i) ==
    LET v == d.acc[IF i.acc = "a0" THEN "a1" ELSE "a0"]
        taken == IF i.f = "max_gt" THEN v > d.acc[i.acc] ELSE v < d.acc[i.acc]
        e == rn_and_modify(d, 0, i.step)
    IN IF taken THEN [Set(e, "m", TRUE) EXCEPT !.mixp = d.r[0], !.acc[i.acc] = v] ELSE Set(e, "m", FALSE)

-----------------------------------------------------------------------------
(* Multiplication: the product before is accumulated, then a new one made.  *)

Mul3 == [mpy |-> <<TRUE, TRUE>>, mac |-> <<TRUE, TRUE>>, maa |-> <<TRUE, TRUE>>,
         mpysu |-> <<FALSE, TRUE>>, macsu |-> <<FALSE, TRUE>>, maasu |-> <<FALSE, TRUE>>,
         macus |-> <<TRUE, FALSE>>, macuu |-> <<FALSE, FALSE>>]

do_mul3_op(d, acc, op) ==
    LET product == get_product(d, 0)
        aligned == IF op \in {"maa", "maasu"} THEN Ext24(product \div Half) ELSE product
        e == IF op \in {"mpy", "mpysu"} THEN d ELSE AddTo(d, acc, d.acc[acc], aligned, FALSE)
    IN multiply(e, 0, Mul3[op][1], Mul3[op][2])

(* Y0 is an operand or stays.                                               *)
mul(d, i) ==
    LET Of(x, y) == do_mul3_op([x.d EXCEPT !.y[0] = y, !.x[0] = x.v], i.acc, i.f)
        WithY(y) == Of(Read(y.d, i.x), y.v)
    IN WithY(IF i.y.k = "y0" THEN [d |-> d, v |-> d.y[0]] ELSE Read(d, i.y))

app(d, i) == product_sum(d, i.base, i.acc, FALSE, i.align0, i.sub1, i.align1)

(* Both units are loaded from two words each, after the products were added. *)
mma(d, i) ==
    LET ui == d.st.arp[i.n].i
        uj == d.st.arp[i.n].j
        e == product_sum(d, i.base, i.acc, i.sub, i.align0, i.sub, i.align1)
        Two(f, a, rn, u) == [k \in 0..1 |-> IF k = 0 THEN read_data_word(f, a)
                                            ELSE read_data_word(f, offset_addr(f, rn, a, u.offset))]
        Loaded(f) == [f EXCEPT !.x = Two(f, d.r[ui.rn], ui.rn, ui),
                               !.y = Two(f, d.r[uj.rn + 4], uj.rn + 4, uj)]
    IN multiply(multiply(Loaded(rn_and_modify(rn_and_modify(e, ui.rn, ui.step), uj.rn + 4, uj.step)),
                         0, i.signs[1], TRUE),
                1, i.signs[2], i.signs[3])

-----------------------------------------------------------------------------
(* Control.                                                                 *)

Died(d) == [d EXCEPT !.died = TRUE]

block_repeat(d, lc, end) ==
    IF d.bcn > 3 THEN Died(d)
    ELSE [d EXCEPT !.loops[d.bcn] = [start |-> d.pc, end |-> end, lc |-> lc], !.bcn = @ + 1, !.lp = TRUE]

break_(d) == IF d.lp THEN [d EXCEPT !.bcn = @ - 1, !.lp = d.bcn > 1] ELSE Died(d)

(* The outermost loop goes to the stack, the others move out.               *)
store_block_repeat(d) ==
    LET l == d.loops[0]
        flag == (IF d.lp THEN Half \div 2 ELSE 0) + l.start \div Half + (l.end \div Half) * Byte
        e == push16(push16(push16(push16(d, l.lc), Word(l.start)), Word(l.end)), flag)
    IN IF d.lp THEN [e EXCEPT !.loops = [k \in 0..3 |-> IF k < d.bcn - 1 THEN d.loops[k + 1] ELSE d.loops[k]],
                              !.bcn = @ - 1, !.lp = d.bcn > 1]
       ELSE e

restore_block_repeat(d) ==
    LET At(n) == d.mem[Word(d.sp + n)]
        loop == [start |-> At(2) + (At(0) % 4) * Half, end |-> At(1) + ((At(0) \div Byte) % 4) * Half,
                 lc |-> At(3)]
        moved == [k \in 0..3 |-> IF d.lp /\ k \in 1..d.bcn THEN d.loops[k - 1] ELSE d.loops[k]]
        was == At(0) >= Half \div 2
    IN [d EXCEPT !.sp = Word(@ + 4), !.loops = [moved EXCEPT ![0] = loop],
                 !.bcn = IF d.lp THEN @ + 1 ELSE IF was THEN 1 ELSE @,
                 !.lp = @ \/ was]

Exchange(d, s) ==
    [d EXCEPT !.cfg[s] = [d.bank[s] EXCEPT !.step0 = IF d.st.stp16 THEN @ ELSE d.cfg[s].step0],
              !.bank[s] = [d.cfg[s] EXCEPT !.step0 = IF d.st.stp16 THEN @ ELSE d.bank[s].step0]]

banke(d, i) ==
    LET Sided(e, s) == IF s \in i.sides THEN Exchange(e, s) ELSE e
        e == Sided(Sided(d, "i"), "j")
    IN [e EXCEPT !.r = [n \in 0..7 |-> IF n \in i.regs THEN d.bank.r[n] ELSE d.r[n]],
                 !.bank.r = [n \in {0, 1, 4, 7} |-> IF n \in i.regs THEN d.r[n] ELSE d.bank.r[n]]]

br(d, i) == IF meets_condition(d, i.cond) THEN [d EXCEPT !.pc = i.to] ELSE d

(* A branch to itself waits for an interrupt.                               *)
brr(d, i) ==
    IF meets_condition(d, i.cond) THEN [d EXCEPT !.pc = @ + i.offset, !.halted = @ \/ i.offset = -1] ELSE d

call(d, i) == IF meets_condition(d, i.cond) THEN [push_pc(d) EXCEPT !.pc = i.to] ELSE d
callr(d, i) == IF meets_condition(d, i.cond) THEN [push_pc(d) EXCEPT !.pc = @ + i.offset] ELSE d
calla(d, i) == [push_pc(d) EXCEPT !.pc = d.acc[i.acc] % (4 * Half)]

ret(d, i) ==
    IF ~meets_condition(d, i.cond) THEN d
    ELSE CASE i.op = "ret"   -> pop_pc(d)
           [] i.op = "reti"  -> [pop_pc(d) EXCEPT !.mie = TRUE]
           [] i.op = "retic" -> restore_context([pop_pc(d) EXCEPT !.mie = TRUE])

rets(d, i) == LET e == pop_pc(d) IN [e EXCEPT !.sp = Word(@ + i.imm)]

-----------------------------------------------------------------------------
(* The stack and moves.                                                     *)

Pushed2(d, v) == push16(push16(d, Word(v)), Word(v \div Half))

push(d, i) ==
    CASE i.what.k = "imm"  -> push16(d, i.what.imm)
      [] i.what.k = "reg"  -> push16(AfterGet(d, i.what.reg), get_reg16(d, i.what.reg, TRUE))
      [] i.what.k = "ext"  -> push16(AfterSaturated(d, i.what.acc),
                                     Word(get_saturated_acc(d, i.what.acc) \div Limit))
      [] i.what.k = "acc"  -> Pushed2(AfterSaturated(d, i.what.acc), get_saturated_acc(d, i.what.acc))
      [] i.what.k = "product" -> Pushed2(d, get_product(d, i.what.n))
      [] i.what.k = "x"    -> push16(d, d.x[i.what.n])
      [] i.what.k = "y1"   -> push16(d, d.y[1])

pop(d, i) ==
    LET v == d.mem[d.sp]
        long == d.mem[Word(d.sp + 1)] + Half * v
        e == [d EXCEPT !.sp = Word(@ + (IF i.what.k \in {"acc", "product"} THEN 2 ELSE 1))]
    IN CASE i.what.k = "reg"  -> set_reg16(e, i.what.reg, v)
         [] i.what.k = "ext"  -> set_acc_and_flag(e, i.what.acc,
                                                  (d.acc[i.what.acc] % Limit) + Limit * SignedPart(v, ByteBits))
         [] i.what.k = "acc"  -> set_acc_and_flag(e, i.what.acc, Ext32(long))
         [] i.what.k = "product" -> set_product(e, i.what.n, long)
         [] i.what.k = "x"    -> [e EXCEPT !.x[i.what.n] = v]
         [] i.what.k = "y1"   -> [e EXCEPT !.y[1] = v]

(* From and to memory, registers, whole accumulators and products; the       *)
(* address is made before the register is read.                             *)
mov(d, i) ==
    LET Stored(at, reg) == write_data_word(AfterGet(at.d, reg), at.addr, get_reg16(at.d, reg, TRUE))
        Given(reg, s) == set_reg16(s.d, reg, s.v)
        Got(reg) == [d |-> AfterGet(d, reg), v |-> get_reg16(d, reg, TRUE)]
    IN CASE i.to.k \notin {"reg", "y1", "mixp", "product"} -> Stored(Locate(d, i.to), i.from.reg)
         [] i.to.k = "product" -> set_product(AfterSaturated(d, i.from.acc), 0, get_saturated_acc(d, i.from.acc))
         [] i.to.k = "y1"      -> [AfterGet(d, i.from.reg) EXCEPT !.y[1] = get_reg16(d, i.from.reg, TRUE)]
         [] i.to.k = "mixp"    -> [AfterGet(d, i.from.reg) EXCEPT !.mixp = get_reg16(d, i.from.reg, TRUE)]
         [] i.to.k = "reg" /\ i.from.k = "acc"     -> saturate_acc_with_flag(d, i.to.reg, d.acc[i.from.acc])
         [] i.to.k = "reg" /\ i.from.k = "product" -> saturate_acc_with_flag(d, i.to.reg, get_product(d, i.from.n))
         [] i.to.k = "reg" /\ i.from.k \notin {"acc", "product"} ->
              Given(i.to.reg, CASE i.from.k = "mixp" -> [d |-> d, v |-> d.mixp]
                                [] i.from.k = "reg"  -> Got(i.from.reg)
                                [] OTHER             -> Read(d, i.from))

(* Two words at the address of a unit: the second is beside the first.      *)
Pair(d, i) ==
    LET u == d.st.ar[i.n]
    IN [d |-> rn_and_modify(d, u.rn, u.step), high |-> d.r[u.rn],
        low |-> offset_addr(d, u.rn, d.r[u.rn], u.offset)]

mova(d, i) ==
    LET v == IF i.what.k = "acc" THEN get_saturated_acc(d, i.what.acc) ELSE d.p[i.what.n]
        Got(e) == IF i.what.k = "acc" THEN AfterSaturated(e, i.what.acc) ELSE e
        Long(at) == read_data_word(at.d, at.low) + Half * read_data_word(at.d, at.high)
        Stored(at) == write_data_word(write_data_word(Got(at.d), at.low, Word(v)), at.high, Word(v \div Half))
        Given(at) == IF i.what.k = "acc" THEN saturate_acc_with_flag(at.d, i.what.acc, Ext32(Long(at)))
                     ELSE set_product(at.d, i.what.n, Long(at))
    IN IF i.store THEN Stored(Pair(d, i)) ELSE Given(Pair(d, i))

movs(d, i) ==
    LET Shifted(s) == shift_reg_40(s.d, Ext16(s.v), i.acc, IF i.f = "movsi" THEN i.imm ELSE Ext16(d.sv))
    IN Shifted(Read(d, i.src))

(* The high part of an accumulator for the word at another address.         *)
exchange(d, i) ==
    LET ui == d.st.arp[i.n].i
        uj == d.st.arp[i.n].j
        Stored(e) == write_data_word(e, d.r[ui.rn], Word(d.acc[i.acc] \div Half))
        Given(f) == [f EXCEPT !.acc[i.acc] = Ext16(read_data_word(f, d.r[uj.rn + 4])) * Half]
    IN Given(Stored(rn_and_modify(rn_and_modify(d, ui.rn, ui.step), uj.rn + 4, uj.step)))

modr(d, i) == check_fr(rn_and_modify(d, i.rn, i.step), i.rn)

-----------------------------------------------------------------------------

interpret(d, i) ==
    CASE i.op = "nop"      -> d
      [] i.op = "alm"      -> alm(d, i)
      [] i.op = "and_imm8" -> and_imm8(d, i)
      [] i.op = "or"       -> set_acc_and_flag(d, i.acc, Or64(d.acc[i.a], d.acc[i.b]))
      [] i.op = "and"      -> set_acc_and_flag(d, i.acc, And64(d.acc[i.a], d.acc[i.b]))
      [] i.op = "alb"      -> alb(d, i)
      [] i.op \in {"add", "sub"} -> AddSum(d, i)
      [] i.op = "app"      -> app(d, i)
      [] i.op = "mul"      -> mul(d, i)
      [] i.op = "mpyi"     -> multiply([d EXCEPT !.x[0] = i.imm], 0, TRUE, TRUE)
      [] i.op = "mma"      -> mma(d, i)
      [] i.op = "moda"     -> moda(d, i)
      [] i.op = "swap"     -> swap(d, i)
      [] i.op = "lim"      -> lim(d, i)
      [] i.op = "max_min"  -> max_min(d, i)
      [] i.op = "clrp"     -> [d EXCEPT !.p = [k \in 0..1 |-> IF k \in i.which THEN 0 ELSE @[k]],
                                        !.pe = [k \in 0..1 |-> IF k \in i.which THEN 0 ELSE @[k]]]
      [] i.op = "bkrep"    -> block_repeat(d, Read(d, i.lc).v, i.end)
      [] i.op = "bkrepsto" -> store_block_repeat(d)
      [] i.op = "bkreprst" -> restore_block_repeat(d)
      [] i.op = "break"    -> break_(d)
      [] i.op = "rep"      -> [d EXCEPT !.rep = TRUE, !.repc = Read(d, i.lc).v]
      [] i.op = "banke"    -> banke(d, i)
      [] i.op = "br"       -> br(d, i)
      [] i.op = "brr"      -> brr(d, i)
      [] i.op = "call"     -> call(d, i)
      [] i.op = "callr"    -> callr(d, i)
      [] i.op = "calla"    -> calla(d, i)
      [] i.op \in {"ret", "reti", "retic"} -> ret(d, i)
      [] i.op = "rets"     -> rets(d, i)
      [] i.op = "cntx_s"   -> save_context(d)
      [] i.op = "cntx_r"   -> restore_context(d)
      [] i.op = "eint"     -> [d EXCEPT !.mie = TRUE]
      [] i.op = "dint"     -> [d EXCEPT !.mie = FALSE]
      [] i.op = "push"     -> push(d, i)
      [] i.op = "pop"      -> pop(d, i)
      [] i.op = "mov"      -> mov(d, i)
      [] i.op = "mova"     -> mova(d, i)
      [] i.op = "movs"     -> movs(d, i)
      [] i.op = "exchange" -> exchange(d, i)
      [] i.op = "modr"     -> modr(d, i)
      [] i.op = "tstb"     -> tstb(d, i)
      [] i.op = "shfi"     -> shift_reg_40(d, d.acc[i.a], i.acc, i.imm)
      [] i.op = "shfc"     -> IF meets_condition(d, i.cond)
                              THEN shift_reg_40(d, d.acc[i.a], i.acc, Ext16(d.sv)) ELSE d
      [] i.op = "exp"      -> [d EXCEPT !.sv = exp(IF i.src.k = "acc" THEN d.acc[i.src.acc]
                                                   ELSE Ext16(get_reg16(d, i.src.reg, FALSE)) * Half)]
      [] i.op = "load_page" -> [d EXCEPT !.st.page = i.imm]
      [] i.op = "load_ps"  -> [d EXCEPT !.st.ps = [k \in 0..1 |-> i.imm[k + 1]]]

(* The end of the innermost loop's last instruction.                        *)
EndOfBlock(d) ==
    LET l == d.loops[d.bcn - 1]
    IN IF ~d.lp THEN d
       ELSE IF l.end + 1 # d.pc THEN d
       ELSE IF l.lc = 0 THEN break_(d)
       ELSE [d EXCEPT !.pc = l.start, !.loops[d.bcn - 1].lc = @ - 1]

-----------------------------------------------------------------------------
(* The ARM side of the DSP's registers.                                     *)

apbp_send_cmd(d, v) == assert_dsp_irq([d EXCEPT !.apbp.cmd = v, !.apbp.cmd_ready = TRUE], 14)

read_reply(d) == [d EXCEPT !.apbp.reply_ready = FALSE]
=============================================================================
