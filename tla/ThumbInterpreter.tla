-------------------------- MODULE ThumbInterpreter --------------------------
(***************************************************************************)
(* The Thumb instructions of an ARM core.                                   *)
(***************************************************************************)
EXTENDS ArmInterpreter

thumb_move_shift(s, i) ==
    LET n == IF i.n = 0 /\ i.type # "lsl" THEN Bits ELSE i.n
        r == ShiftBy(i.type, Reg(s, i.rm), n, s.psr.carry)
    IN Set([s EXCEPT !.psr = SetZeroNeg([@ EXCEPT !.carry = r.carry], r.v)], i.rd, r.v)

(* The operations on the low registers set the flags.  A shift is by the    *)
(* whole register, and one of a negative number is undefined: no program    *)
(* here shifts by more than a word has bits.                                *)
thumb_alu(s, i) ==
    LET x == Reg(s, i.rd)
        y == IF i.kind = "imm" THEN i.v ELSE Reg(s, i.rm)
        shift == ShiftBy(i.alu, x, y, s.psr.carry)
    IN CASE i.alu \in {"lsl", "lsr", "asr", "ror"} ->
              Set([s EXCEPT !.psr = SetZeroNeg([@ EXCEPT !.carry = shift.carry], shift.v)],
                  i.rd, shift.v)
         [] i.alu = "NEG" -> Set([s EXCEPT !.psr = Cmp(@, 0, y)], i.rd, Wrap(-y))
         [] i.alu = "MUL" ->
              LET v == Wrap(x * y) IN Set([s EXCEPT !.psr = SetZeroNeg(@, v)], i.rd, v)
         [] i.alu \in OnlyFlags -> [s EXCEPT !.psr = Flags(i.alu, x, y, @, @)]
         [] OTHER -> Set([s EXCEPT !.psr = Flags(i.alu, x, y, @, @)],
                         i.rd, Result(i.alu, x, y, s.psr))

(* ADD and SUB of a third register or a small number.                       *)
thumb_add_sub(s, i) ==
    LET y == IF i.kind = "imm" THEN i.v ELSE Reg(s, i.rm) IN
    Set([s EXCEPT !.psr = Flags(i.alu, Reg(s, i.rn), y, @, @)],
        i.rd, Result(i.alu, Reg(s, i.rn), y, s.psr))

thumb_hi_reg_op(s, i) ==
    LET v == Reg(s, i.rm) IN
    CASE i.f = "add" -> IF i.rd = PC THEN jp(s, Wrap(Reg(s, PC) + v), FALSE)
                        ELSE Set(s, i.rd, Wrap(Reg(s, i.rd) + v))
      [] i.f = "cmp" -> [s EXCEPT !.psr = Cmp(@, Reg(s, i.rd), v)]
      [] i.f = "mov" -> IF i.rd = PC THEN jp(s, v, FALSE) ELSE Set(s, i.rd, v)
      [] i.f = "bx"  -> jp(IF i.link THEN Set(s, LR, Wrap(Reg(s, PC) - 1)) ELSE s, v, TRUE)

(* The address of a load or store: a base and an offset; that of the PC is  *)
(* rounded to a word.                                                       *)
ThumbAddress(s, i) ==
    LET offset == IF i.kind = "imm" THEN i.v ELSE Reg(s, i.rm)
        a == Wrap(Reg(s, i.rn) + offset)
    IN IF i.rn = PC THEN Aligned(a)
       ELSE IF s.id = 9 /\ i.kind = "reg" /\ i.size \in {"half", "shalf"} THEN a - (a % 2) ELSE a

thumb_load_store(s, i) ==
    LET a == ThumbAddress(s, i) IN
    IF i.load THEN Then(ReadSize(s, a, i.size), LAMBDA t : Set(t, i.rd, t.data))
    ELSE CASE i.size = "word" -> write32(s, a, Reg(s, i.rd))
           [] i.size = "byte" -> write8(s, a, Reg(s, i.rd))
           [] i.size = "half" -> write16(s, a, Reg(s, i.rd))

thumb_load_addr(s, i) ==
    Set(s, i.rd, Wrap(i.v + (IF i.rn = SP THEN Reg(s, SP) ELSE Aligned(Reg(s, PC)))))

thumb_offset_sp(s, i) == Set(s, SP, Wrap(Reg(s, SP) + i.v))

thumb_extend(s, i) == Set(s, i.rd, Extended(Reg(s, i.rm), 0, i.width, i.is_signed, 0))

thumb_load_block(s, i) ==
    load_block(s, [rn |-> i.rn, list |-> i.list, wb |-> TRUE, up |-> TRUE, pre |-> FALSE, psr |-> FALSE])

thumb_store_block(s, i) ==
    store_block(s, [rn |-> i.rn, list |-> i.list, wb |-> TRUE, up |-> TRUE, pre |-> FALSE, psr |-> FALSE])

(* PUSH goes down from the link register, POP up to the PC; the stack       *)
(* pointer changes last.                                                    *)
thumb_push(s, i) ==
    store_block(s, [rn |-> SP, list |-> i.list \cup (IF i.lr THEN {LR} ELSE {}),
                    wb |-> TRUE, up |-> FALSE, pre |-> TRUE, psr |-> FALSE])

thumb_pop(s, i) ==
    load_block(s, [rn |-> SP, list |-> i.list \cup (IF i.pc THEN {PC} ELSE {}),
                   wb |-> TRUE, up |-> TRUE, pre |-> FALSE, psr |-> FALSE])

thumb_branch(s, i) ==
    IF MeetsCondition(s.psr, i.cond) THEN jp(s, Wrap(Reg(s, PC) + i.to), FALSE) ELSE s

(* BL and BLX are two instructions: the first leaves the upper part of the  *)
(* target in the link register, where an exception between them keeps it.   *)
thumb_long_branch_prep(s, i) == Set(s, LR, Wrap(Reg(s, PC) + i.to))

thumb_long_branch(s, i) ==
    LET a == Wrap(Reg(s, LR) + i.to)
        back == Wrap(Reg(s, PC) - 2)
    IN jp(Set(s, LR, back + 1 - (back % 2)), a, i.exchange)

interpret_thumb(s, i) ==
    CASE i.op = "shift"  -> thumb_move_shift(s, i)
      [] i.op = "alu"    -> thumb_alu(s, i)
      [] i.op = "addsub" -> thumb_add_sub(s, i)
      [] i.op = "hi"     -> thumb_hi_reg_op(s, i)
      [] i.op = "ls"     -> thumb_load_store(s, i)
      [] i.op = "adr"    -> thumb_load_addr(s, i)
      [] i.op = "sp"     -> thumb_offset_sp(s, i)
      [] i.op = "ext"    -> thumb_extend(s, i)
      [] i.op = "unary"  -> unary(s, i)
      [] i.op = "ldmia"  -> thumb_load_block(s, i)
      [] i.op = "stmia"  -> thumb_store_block(s, i)
      [] i.op = "push"   -> thumb_push(s, i)
      [] i.op = "pop"    -> thumb_pop(s, i)
      [] i.op = "b"      -> thumb_branch(s, i)
      [] i.op = "bl1"    -> thumb_long_branch_prep(s, i)
      [] i.op = "bl2"    -> thumb_long_branch(s, i)
      [] i.op = "swi"    -> swi(s, i)
=============================================================================
