--------------------------- MODULE ArmInterpreter ---------------------------
(***************************************************************************)
(* An ARM core: its memory accesses, exceptions and ARM instructions, as     *)
(* functions of the core's state s, a record:                               *)
(*   gpr, bank, psr, spsr     the registers (ArmModes)                       *)
(*   tlb, table               the pages that are mapped, and those that the  *)
(*                            page tables map                                *)
(*   instr_page, prefetch_abort_occurred      where instructions come from   *)
(*   mem                      the words of physical memory                   *)
(*   data                     what the last read returned                    *)
(*   fault                    the data abort thrown by this instruction:     *)
(*                            empty, or its address and direction            *)
(*   far, int_pending                                                        *)
(*   tls                      the thread's register of CP15                 *)
(*   offs                     where a process holds its number: see         *)
(*                            get_hos_process_info                          *)
(*   died                     an error ended the emulation                  *)
(* An instruction is a record of the fields that its handler cuts out.      *)
(***************************************************************************)
EXTENDS ArmAlu, ArmModes, SequencesExt

CONSTANTS PageBytes,    \* 4096 in the code.
          SectionPages  \* 256 in the code: what one miss loads.

WordBytes == 4
Unmapped == [page |-> -1, r |-> FALSE, w |-> FALSE, x |-> FALSE]
PageOf(a) == a \div PageBytes
Aligned(a) == a - (a % WordBytes)

Reg(s, r) == s.gpr[r]
Set(s, r, v) == [s EXCEPT !.gpr[r] = v]

(* An exception ends the instruction where it is thrown.                    *)
Then(s, Op(_)) == IF s.fault = <<>> THEN Op(s) ELSE s

-----------------------------------------------------------------------------
(* Memory.                                                                  *)

reload_tlb(s, a) ==
    [s EXCEPT !.tlb = [p \in DOMAIN @ |->
        IF p \div SectionPages = PageOf(a) \div SectionPages THEN s.table[p] ELSE @[p]]]

Loaded(s, a, perm) == IF s.tlb[PageOf(a)][perm] THEN s ELSE reload_tlb(s, a)

(* The look at tlb_map: on a miss the entry is loaded and looked at again,  *)
(* by the stores of bytes and halfwords for the right to read.              *)
Access(s, a, perm, again) ==
    Then(s, LAMBDA t :
        LET u == Loaded(t, a, perm)
            granted == t.tlb[PageOf(a)][perm] \/ u.tlb[PageOf(a)][again]
        IN IF granted THEN u ELSE [u EXCEPT !.fault = <<a, perm = "w">>])

Physical(s, a) == s.tlb[PageOf(a)].page * PageBytes + (a % PageBytes)
ByteAt(s, q) == Lane(s.mem[q \div WordBytes], q % WordBytes)
Got(s, v) == [s EXCEPT !.data = v]

read8(s, a) ==
    Then(Access(s, a, "r", "r"), LAMBDA t : Got(t, ByteAt(t, Physical(t, a))))

(* At the end of a page the bytes are read one by one.                      *)
read16(s, a) ==
    IF a % PageBytes = PageBytes - 1
    THEN Then(read8(s, a), LAMBDA t :
             Then(read8(t, Wrap(a + 1)), LAMBDA u : Got(u, t.data + Byte * u.data)))
    ELSE Then(Access(s, a, "r", "r"), LAMBDA t :
             LET q == Physical(t, a) IN Got(t, ByteAt(t, q) + Byte * ByteAt(t, q + 1)))

WordAt(s, q) ==
    IF q % WordBytes = 0 THEN s.mem[q \div WordBytes]
    ELSE OfLanes([i \in 0..3 |-> ByteAt(s, q + i)])

ReadInPage(s, a) ==
    Then(Access(s, a, "r", "r"), LAMBDA t : Got(t, WordAt(t, Physical(t, a))))

(* A word over the end of a page is put together of two.                    *)
read32(s, a) ==
    LET low == a % WordBytes IN
    IF a % PageBytes <= PageBytes - WordBytes THEN ReadInPage(s, a)
    ELSE Then(ReadInPage(s, Aligned(a)), LAMBDA t :
             Then(ReadInPage(t, Wrap(Aligned(a) + WordBytes)), LAMBDA u :
                 Got(u, (t.data \div Byte^low) + Wrap(u.data * Byte^(WordBytes - low)))))

Put(s, q, v) == [s EXCEPT !.mem[q \div WordBytes] =
                    OfLanes([i \in 0..3 |-> IF i = q % WordBytes THEN v ELSE Lane(@, i)])]

write8(s, a, v) == Then(Access(s, a, "w", "r"), LAMBDA t : Put(t, Physical(t, a), v % Byte))

write16(s, a, v) ==
    Then(Access(s, a, "w", "r"), LAMBDA t :
        LET q == Physical(t, a) IN Put(Put(t, q, v % Byte), q + 1, (v \div Byte) % Byte))

PutWord(s, q, v) ==
    IF q % WordBytes = 0 THEN [s EXCEPT !.mem[q \div WordBytes] = v]
    ELSE FoldLeft(LAMBDA t, i : Put(t, q + i - 1, Lane(v, i - 1)), s, <<1, 2, 3, 4>>)

WriteInPage(s, a, v) ==
    Then(Access(s, a, "w", "w"), LAMBDA t : PutWord(t, Physical(t, a), v))

(* A word over the end of a page is split in two, the second of which takes *)
(* and keeps the wrong bytes; then it is written whole as well, beyond the  *)
(* end of the physical page.  No program here stores such a word.           *)
write32(s, a, v) ==
    LET low == a % WordBytes
        first == Aligned(a)
        second == Wrap(first + WordBytes)
        FirstWord(old) == Wrap(v * Byte^low) + (old % Byte^low)
        SecondWord(old) == ((v % Byte^(low + 1)) \div Byte^(WordBytes - low)) | (old % Byte^(3 - low))
        split == Then(ReadInPage(s, first), LAMBDA t :
                 Then(ReadInPage(t, second), LAMBDA u :
                 Then(WriteInPage(u, first, FirstWord(t.data)), LAMBDA x :
                      WriteInPage(x, second, SecondWord(u.data)))))
    IN WriteInPage(IF a % PageBytes <= PageBytes - WordBytes THEN s ELSE split, a, v)

(* The page that instructions are fetched from.                             *)
fetch_new_instr_ptr(s, a) ==
    LET t == Loaded(s, a, "x")
        e == t.tlb[PageOf(a)]
    IN [t EXCEPT !.instr_page = e.page, !.prefetch_abort_occurred = @ \/ ~e.x]

jp(s, a, change_thumb_state) ==
    LET t == fetch_new_instr_ptr(s, a)
        thumb == IF change_thumb_state THEN a % 2 = 1 ELSE s.psr.thumb
    IN [t EXCEPT !.psr.thumb = thumb,
                 !.gpr[PC] = Wrap(IF thumb THEN a - (a % 2) + 2 ELSE Aligned(a) + 4)]

-----------------------------------------------------------------------------
(* Modes and exceptions.                                                    *)

(* A status register in a word; with short words, above the numbers that    *)
(* programs calculate with.                                                 *)
PsrFields == <<"thumb", "fiq_disable", "irq_disable", "q_overflow",
               "overflow", "carry", "zero", "negative">>
ModeNumber == [usr |-> 1, fiq |-> 2, irq |-> 3, svc |-> 4, abt |-> 5, und |-> 6, sys |-> 7]
Bit01(b, k) == IF b THEN 2^k ELSE 0

get(p) ==
    Limit * (ModeNumber[p.mode] + FoldLeft(LAMBDA n, k : n + Bit01(p[PsrFields[k]], k + 2), 0, <<1, 2, 3, 4, 5, 6, 7, 8>>)
             + FoldLeft(LAMBDA n, k : n + Bit01(p.ge[k], k + 11), 0, <<0, 1, 2, 3>>))

OfWord(v) ==
    LET n == v \div Limit IN
    [f \in Range(PsrFields) \cup {"mode", "ge"} |->
        CASE f = "mode" -> CHOOSE m \in Modes : ModeNumber[m] = n % 8
          [] f = "ge"   -> [k \in 0..3 |-> Bit(n, k + 11)]
          [] OTHER      -> \E k \in 1..8 : PsrFields[k] = f /\ Bit(n, k + 2)]

WithFile(s, f) == [s EXCEPT !.gpr = f.gpr, !.bank = f.bank]
FileOfCore(s) == [gpr |-> s.gpr, bank |-> s.bank]

SetMode(s, mode) ==
    [WithFile(s, update_reg_mode(FileOfCore(s), s.psr.mode, mode)) EXCEPT !.psr.mode = mode]

spsr_to_cpsr(s) ==
    LET p == s.spsr[s.psr.mode] IN [SetMode(s, p.mode) EXCEPT !.psr = p]

Vector == [und |-> 4, swi |-> 8, prefetch |-> 12, data |-> 16, irq |-> 24]

Exception(s, mode, lr, vector) ==
    LET t == WithFile(s, EnterException(FileOfCore(s), s.psr.mode, mode, Wrap(lr)))
        u == [t EXCEPT !.spsr[mode] = s.psr, !.psr.mode = mode, !.psr.irq_disable = TRUE]
    IN jp(u, vector, TRUE)

data_abort(s) ==
    Exception([s EXCEPT !.far = s.fault[1], !.fault = <<>>], "abt", s.gpr[PC], Vector.data)

(* Mutant: the core goes on taking the abort of the page it left.           *)
prefetch_abort_KeepFlag(s, a) ==
    [Exception(s, "abt", a + (IF s.psr.thumb THEN 2 ELSE 4), Vector.prefetch) EXCEPT
        !.prefetch_abort_occurred = TRUE]

prefetch_abort(s, a) ==
    Exception([s EXCEPT !.prefetch_abort_occurred = FALSE], "abt",
              a + (IF s.psr.thumb THEN 2 ELSE 4), Vector.prefetch)

Died(s) == [s EXCEPT !.died = TRUE]

(* The running process, for the log.  Its number and name are looked for in *)
(* three places; a place that cannot be read is not tried again, and an     *)
(* abort of these reads is no exception of the program's.                   *)
get_hos_process_info(s) ==
    LET process == read32(s, Wrap(-28668))
        name(t) == FoldLeft(LAMBDA u, k : Then(u, LAMBDA w : read8(w, Wrap(t.data + 80 + k))),
                            t, <<0, 1, 2, 3, 4, 5, 6, 7>>)
        found(t, offs) ==
            Then(read32([t EXCEPT !.fault = <<>>, !.offs = offs], Wrap(process.data + 172 + offs)),
                 LAMBDA u : Then(read32(u, Wrap(process.data + 168 + offs)), name))
        places == SelectSeq(<<8, 0>>, LAMBDA offs : offs < s.offs)
        last == FoldLeft(LAMBDA t, offs : IF t.fault = <<>> THEN t ELSE found(t, offs),
                         found(process, s.offs), places)
    IN IF process.fault # <<>> \/ process.data = 0 THEN [process EXCEPT !.fault = <<>>]
       ELSE IF last.fault = <<>> THEN last ELSE Died(last)

SendSyncRequest == 50
Break == 60
PutChar == 255

(* The instruction is read through the TLB, as data.                        *)
swi(s, i) ==
    LET size == IF s.psr.thumb THEN 2 ELSE 4
        seen == read32(s, Wrap(s.gpr[PC] - 2 * size))
        logged == IF s.id = 9 \/ i.n # SendSyncRequest THEN seen
                  ELSE Then(seen, LAMBDA t :
                       Then(read32(t, Wrap(t.tls + 128)), get_hos_process_info))
    IN Then(logged, LAMBDA t :
           IF s.id = 9 /\ i.n = PutChar THEN t
           ELSE IF i.n = Break THEN Died(t)
           ELSE Exception(t, "svc", t.gpr[PC] - size, Vector.swi))

(* Mutant: in Thumb state the link register is as far ahead as in ARM's.    *)
int_check_ArmOffset(s) ==
    IF s.psr.irq_disable THEN s ELSE Exception(s, "irq", s.gpr[PC], Vector.irq)

int_check(s) ==
    IF s.psr.irq_disable THEN s
    ELSE Exception(s, "irq", s.gpr[PC] + (IF s.psr.thumb THEN 2 ELSE 0), Vector.irq)

set_int_signal(s, pending) ==
    [(IF pending /\ ~s.int_pending THEN int_check(s) ELSE s) EXCEPT !.int_pending = pending]

-----------------------------------------------------------------------------
(* Data processing.                                                         *)

(* The second operand: an immediate value, a register shifted by an amount  *)
(* in the code word, or one shifted by the low byte of another register,    *)
(* when the PC is a word further on.                                        *)
Operand2(s, o) ==
    LET c == s.psr.carry
        ahead == IF o.kind = "by" /\ o.rm = PC THEN Wrap(Reg(s, PC) + 4) ELSE Reg(s, o.rm)
    IN CASE o.kind = "imm" -> rotr(o.v, o.rot, c)
         [] o.kind = "reg" -> ShiftImm(o.type, Reg(s, o.rm), o.n, c)
         [] o.kind = "by"  -> ShiftBy(o.type, ahead, Reg(s, o.rs), c)

(* A result for the PC is a jump, or with S the return from an exception,   *)
(* which subtractions with carry give flags of their own; for sums that is  *)
(* not supported.  The other operations only write the register.            *)
WriteResult(s, i, v, psr) ==
    LET returned == jp(spsr_to_cpsr(s), v, FALSE) IN
    CASE i.rd # PC \/ i.alu \in {"AND", "ORR", "EOR", "BIC", "MVN"} ->
           [Set(s, i.rd, v) EXCEPT !.psr = IF i.s THEN psr ELSE @]
      [] OTHER ->
           IF ~i.s THEN jp(s, v, TRUE)
           ELSE IF i.alu \in {"ADD", "ADC"} THEN Died(s)
           ELSE IF i.alu \in {"SBC", "RSC"}
           THEN [returned EXCEPT !.psr.carry = psr.carry, !.psr.overflow = psr.overflow]
           ELSE returned

data_processing(s, i) ==
    LET x == Reg(s, i.rn)
        o == Operand2(s, i.operand)
        shifted == [s.psr EXCEPT !.carry = o.carry]
        psr == Flags(i.alu, x, o.v, s.psr, shifted)
    IN IF i.alu \in OnlyFlags THEN [s EXCEPT !.psr = psr]
       ELSE WriteResult(s, i, Result(i.alu, x, o.v, s.psr), psr)

mul(s, i) ==
    LET v == Wrap(Reg(s, i.rm) * Reg(s, i.rs) + (IF i.accumulate THEN Reg(s, i.rn) ELSE 0)) IN
    Set([s EXCEPT !.psr = IF i.s THEN SetZeroNeg(@, v) ELSE @], i.rd, v)

mul_long(s, i) ==
    LET v == MulLong(Reg(s, i.rm), Reg(s, i.rs), i.is_signed,
                     Reg(s, i.lo), Reg(s, i.hi), i.accumulate)
        t == Set(Set(s, i.lo, v[1]), i.hi, v[2])
    IN IF i.s THEN [t EXCEPT !.psr.zero = v = <<0, 0>>, !.psr.negative = IsNegative(v[2])]
       ELSE t

mul_halves(s, i) ==
    LET m == MulHalves(Reg(s, i.rm), i.mtop, Reg(s, i.rs), i.stop,
                       IF i.accumulate THEN Reg(s, i.rn) ELSE 0)
    IN Set([s EXCEPT !.psr.q_overflow = @ \/ (i.accumulate /\ m.q)], i.rd, m.v)

(* USAT and SSAT shift their operand first.                                 *)
saturate(s, i) ==
    LET v == (IF i.arith THEN ShiftImm("asr", Reg(s, i.rm), i.n, FALSE)
              ELSE ShiftBy("lsl", Reg(s, i.rm), i.n, FALSE)).v
        r == IF i.is_signed THEN ssat(v, i.to) ELSE usat(v, i.to)
    IN Set([s EXCEPT !.psr.q_overflow = @ \/ r.q], i.rd, r.v)

extend(s, i) ==
    Set(s, i.rd, Extended(Reg(s, i.rm), i.rot, i.width, i.is_signed,
                          IF i.add THEN Reg(s, i.rn) ELSE 0))

lanes(s, i) ==
    LET x == Reg(s, i.rn)
        y == Reg(s, i.rm)
    IN Set([s EXCEPT !.psr.ge = GreaterEqual(i.lane, x, y, @)], i.rd, Lanes8(i.lane, x, y))

unary(s, i) ==
    LET v == Reg(s, i.rm) IN
    Set(s, i.rd, CASE i.f = "clz" -> clz(v) [] i.f = "rev" -> rev(v) [] i.f = "rev16" -> rev16(v))

-----------------------------------------------------------------------------
(* Loads and stores.                                                        *)

Moved(a, up, n) == Wrap(IF up THEN a + n ELSE a - n)

(* Offsets are immediate values or registers, shifted for words and bytes.  *)
Offset(s, i) == Operand2(s, i.offset).v

Target(s, i) == IF i.pre THEN Moved(Reg(s, i.rn), i.up, Offset(s, i)) ELSE Reg(s, i.rn)

(* The base is written back unless it was loaded; the signed loads forget   *)
(* this when they index first.                                              *)
WriteBack(s, t, i) ==
    LET signed == i.size \in {"sbyte", "shalf"} IN
    IF (i.pre /\ ~i.wb) \/ (i.load /\ i.rd = i.rn /\ ~(signed /\ i.pre)) THEN t
    ELSE Set(t, i.rn, Moved(Reg(s, i.rn), i.up, Offset(s, i)))

(* The ARM9 rotates a word that is not aligned.                             *)
load_word(s, a) ==
    IF s.id = 9 /\ a % WordBytes # 0
    THEN Then(read32(s, Aligned(a)), LAMBDA t :
             Got(t, rotr(t.data, (a % WordBytes) * ByteBits, FALSE).v))
    ELSE read32(s, a)

ReadSize(s, a, size) ==
    CASE size = "word"  -> load_word(s, a)
      [] size = "byte"  -> read8(s, a)
      [] size = "half"  -> read16(s, a)
      [] size = "sbyte" -> Then(read8(s, a), LAMBDA t : Got(t, Wrap(SignedPart(t.data, ByteBits))))
      [] size = "shalf" -> Then(read16(s, a), LAMBDA t : Got(t, Wrap(SignedPart(t.data, 2 * ByteBits))))

WriteSize(s, a, size, v) ==
    CASE size = "word" -> write32(s, a, v)
      [] size = "byte" -> write8(s, a, v)
      [] size = "half" -> write16(s, a, v)

arm_load(s, i) ==
    Then(ReadSize(s, Target(s, i), i.size), LAMBDA t :
        WriteBack(s, IF i.rd = PC THEN jp(t, t.data, TRUE) ELSE Set(t, i.rd, t.data), i))

(* Mutant: the base is written back before the access.                      *)
arm_store_BaseFirst(s, i) == WriteSize(WriteBack(s, s, i), Target(s, i), i.size, Reg(s, i.rd))

(* The ARM9 aligns the address of a word, which is also what it writes      *)
(* back.                                                                    *)
arm_store(s, i) ==
    LET at == IF s.id = 9 /\ i.size = "word" THEN Aligned(Target(s, i)) ELSE Target(s, i) IN
    Then(WriteSize(s, at, i.size, Reg(s, i.rd)), LAMBDA t :
        IF i.pre /\ ~i.wb THEN t
        ELSE Set(t, i.rn, IF i.pre THEN at ELSE Moved(at, i.up, Offset(s, i))))

(* Two words; the second access may fault when the first has been made.     *)
doubleword(s, i) ==
    LET a == Target(s, i)
        t == IF i.load
             THEN Then(read32(s, a), LAMBDA u :
                      Then(read32(Set(u, i.rd, u.data), Wrap(a + 4)), LAMBDA w :
                          Set(w, i.rd + 1, w.data)))
             ELSE Then(write32(s, a, Reg(s, i.rd)), LAMBDA u :
                      write32(u, Wrap(a + 4), Reg(s, i.rd + 1)))
    IN Then(t, LAMBDA u :
           IF i.pre /\ ~i.wb THEN u ELSE Set(u, i.rn, Moved(Reg(s, i.rn), i.up, Offset(s, i))))

swp(s, i) ==
    LET a == Reg(s, i.rn) IN
    IF i.byte
    THEN Then(read8(s, a), LAMBDA t :
             Then(write8(t, a, Reg(s, i.rm)), LAMBDA u : Set(u, i.rd, t.data)))
    ELSE Then(read32(s, Aligned(a)), LAMBDA t :
             Then(write32(t, a, Reg(s, i.rm)), LAMBDA u :
                 Set(u, i.rd, rotr(t.data, (a % WordBytes) * ByteBits, FALSE).v)))

(* The registers of a list in the order in which they are transferred, and  *)
(* the address of the k-th of them.                                         *)
Order(i) == LET up == SetToSortSeq(i.list, <) IN IF i.up THEN up ELSE Reverse(up)
BlockAddress(s, i, k) == Moved(Reg(s, i.rn), i.up, 4 * (IF i.pre THEN k ELSE k - 1))

(* With ^, and without the PC in the list, the user's registers.            *)
OfUser(i) == i.psr /\ PC \notin i.list
EnterBank(s, i) == IF OfUser(i) THEN SetMode(s, "usr") ELSE s
LeaveBank(s, t, i) == IF OfUser(i) THEN SetMode(t, s.psr.mode) ELSE t
Length_(i) == 4 * Len(Order(i))

load_block(s, i) ==
    LET one(t, k) ==
            LET r == Order(i)[k] IN
            Then(read32(t, BlockAddress(s, i, k)), LAMBDA u :
                IF r = PC THEN jp(u, u.data, TRUE) ELSE Set(u, r, u.data))
    IN Then(FoldLeft(one, EnterBank(s, i), [k \in 1..Len(Order(i)) |-> k]), LAMBDA t :
           LET u == LeaveBank(s, t, i)
               w == IF i.wb /\ i.rn \notin i.list
                    THEN Set(u, i.rn, Moved(Reg(s, i.rn), i.up, Length_(i))) ELSE u
           IN IF i.psr /\ PC \in i.list THEN spsr_to_cpsr(w) ELSE w)

store_block(s, i) ==
    LET one(t, k) == Then(t, LAMBDA u : write32(u, BlockAddress(s, i, k), Reg(u, Order(i)[k]))) IN
    Then(FoldLeft(one, EnterBank(s, i), [k \in 1..Len(Order(i)) |-> k]), LAMBDA t :
        LET u == LeaveBank(s, t, i) IN
        IF i.wb THEN Set(u, i.rn, Moved(Reg(s, i.rn), i.up, Length_(i))) ELSE u)

-----------------------------------------------------------------------------
(* Branches and status registers.                                           *)

arm_b(s, i) ==
    jp(IF i.link THEN Set(s, LR, Wrap(Reg(s, PC) - 4)) ELSE s, Wrap(Reg(s, PC) + i.to), FALSE)

arm_bx(s, i) == jp(s, Reg(s, i.rm), TRUE)

(* BLX: to a register, whose value is taken before the link register is     *)
(* written, or to an address in Thumb code.                                 *)
arm_blx(s, i) ==
    LET target == IF i.kind = "reg" THEN Reg(s, i.rm) ELSE Wrap(Reg(s, PC) + i.to + 1) IN
    jp(Set(s, LR, Wrap(Reg(s, PC) - 4)), target, TRUE)

mrs(s, i) == Set(s, i.rd, get(IF i.spsr THEN s.spsr[s.psr.mode] ELSE s.psr))

(* MSR: the flags, and unless the mode is user's, the control field, whose  *)
(* Thumb bit only a SPSR takes.                                             *)
msr(s, i) ==
    LET old == IF i.spsr THEN s.spsr[s.psr.mode] ELSE s.psr
        new == OfWord(IF i.imm THEN i.v ELSE Reg(s, i.rm))
        flags == IF ~i.f THEN old
                 ELSE [old EXCEPT !.negative = new.negative, !.zero = new.zero,
                                  !.carry = new.carry, !.overflow = new.overflow,
                                  !.q_overflow = new.q_overflow]
        both == IF ~i.c \/ s.psr.mode = "usr" THEN flags
                ELSE [flags EXCEPT !.mode = new.mode, !.irq_disable = new.irq_disable,
                                   !.fiq_disable = new.fiq_disable,
                                   !.thumb = IF i.spsr THEN new.thumb ELSE @]
    IN IF i.spsr THEN [s EXCEPT !.spsr[s.psr.mode] = both]
       ELSE [SetMode(s, both.mode) EXCEPT !.psr = both]

(* CPS: a mode, none being "", and what is done to the interrupt bits i, f. *)
cps(s, i) ==
    IF s.psr.mode = "usr" THEN s
    ELSE LET t == IF i.mode = "" THEN s ELSE SetMode(s, i.mode) IN
         CASE i.imod = "enable" ->
                [t EXCEPT !.psr.irq_disable = @ /\ ~i.i, !.psr.fiq_disable = @ /\ ~i.f]
           [] i.imod = "disable" ->
                [t EXCEPT !.psr.irq_disable = @ \/ i.i, !.psr.fiq_disable = @ \/ i.f]
           [] OTHER -> t

(* SRS stores the link register and the SPSR on another mode's stack.       *)
srs(s, i) ==
    LET t == SetMode(s, i.mode)
        base == Reg(t, SP)
        k == IF i.pre THEN 1 ELSE 0
        lr_at == Moved(base, i.up, 4 * (IF i.up THEN k ELSE k + 1))
        psr_at == Moved(base, i.up, 4 * (IF i.up THEN k + 1 ELSE k))
        first == IF i.up THEN write32(t, lr_at, Reg(s, LR)) ELSE write32(t, psr_at, get(s.spsr[s.psr.mode]))
    IN Then(first, LAMBDA u :
           Then(IF i.up THEN write32(u, psr_at, get(s.spsr[s.psr.mode])) ELSE write32(u, lr_at, Reg(s, LR)),
               LAMBDA w : SetMode(IF i.wb THEN Set(w, SP, Moved(base, i.up, 8)) ELSE w, s.psr.mode)))

(* A return to the user's part of memory is logged, when the mode has       *)
(* changed already: these reads may abort it.                               *)
ReturnLogged(s, base) ==
    LET t == get_hos_process_info(s) IN
    IF base % (SectionPages * PageBytes) = 0 THEN t
    ELSE Then(read32(t, Wrap(base - 4)), LAMBDA u :
             IF u.data = Wrap(-285212622) THEN read32(u, Wrap(u.tls + 132)) ELSE u)

rfe(s, i) ==
    LET base == Reg(s, i.rn)
        k == IF i.pre THEN 1 ELSE 0
        pc_at == Moved(base, i.up, 4 * (IF i.up THEN k ELSE k + 1))
        psr_at == Moved(base, i.up, 4 * (IF i.up THEN k + 1 ELSE k))
    IN Then(read32(s, IF i.up THEN pc_at ELSE psr_at), LAMBDA t :
           Then(read32(t, IF i.up THEN psr_at ELSE pc_at), LAMBDA u :
               LET pc == IF i.up THEN t.data ELSE u.data
                   psr == OfWord(IF i.up THEN u.data ELSE t.data)
                   w == IF i.wb THEN Set(u, i.rn, Moved(base, i.up, 8)) ELSE u
                   x == [SetMode(w, psr.mode) EXCEPT !.psr = psr]
               IN Then(IF pc < Limit \div 4 THEN ReturnLogged(x, base) ELSE x,
                       LAMBDA y : jp(y, pc, FALSE))))

-----------------------------------------------------------------------------

(* Exclusive accesses, coprocessors and waiting are left out.               *)
interpret_transfer(s, i) ==
    CASE i.op = "ls"     -> IF i.load THEN arm_load(s, i) ELSE arm_store(s, i)
      [] i.op = "double" -> doubleword(s, i)
      [] i.op = "swp"    -> swp(s, i)
      [] i.op = "block"  -> IF i.load THEN load_block(s, i) ELSE store_block(s, i)
      [] i.op = "srs"    -> srs(s, i)
      [] i.op = "rfe"    -> rfe(s, i)

interpret_arm(s, i) ==
    IF ~MeetsCondition(s.psr, i.cond) THEN s
    ELSE CASE i.op = "dp"     -> data_processing(s, i)
           [] i.op = "mul"    -> mul(s, i)
           [] i.op = "mull"   -> mul_long(s, i)
           [] i.op = "mulxy"  -> mul_halves(s, i)
           [] i.op = "sat"    -> saturate(s, i)
           [] i.op = "ext"    -> extend(s, i)
           [] i.op = "lanes"  -> lanes(s, i)
           [] i.op = "sel"    -> Set(s, i.rd, sel(Reg(s, i.rn), Reg(s, i.rm), s.psr.ge))
           [] i.op = "unary"  -> unary(s, i)
           [] i.op = "pkhbt"  -> Set(s, i.rd, pkhbt(Reg(s, i.rn), Reg(s, i.rm), i.n))
           [] i.op = "b"      -> arm_b(s, i)
           [] i.op = "bx"     -> arm_bx(s, i)
           [] i.op = "blx"    -> arm_blx(s, i)
           [] i.op = "swi"    -> swi(s, i)
           [] i.op = "mrs"    -> mrs(s, i)
           [] i.op = "msr"    -> msr(s, i)
           [] i.op = "cps"    -> cps(s, i)
           [] OTHER           -> interpret_transfer(s, i)
=============================================================================
