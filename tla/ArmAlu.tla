------------------------------- MODULE ArmAlu -------------------------------
(***************************************************************************)
(* What the ARM's arithmetic instructions compute, of words and flags.     *)
(***************************************************************************)
EXTENDS Words

-----------------------------------------------------------------------------
(* Flags.                                                                   *)

SetZeroNeg(psr, v) == [psr EXCEPT !.negative = IsNegative(v), !.zero = (v = 0)]

AddOverflow(a, b, r) == IsNegative(a) = IsNegative(b) /\ IsNegative(a) # IsNegative(r)
SubOverflow(a, b, r) == IsNegative(a) # IsNegative(b) /\ IsNegative(a) # IsNegative(r)
CarryAdd(a, b) == Limit - 1 - a < b
CarrySub(a, b) == a >= b

Cmn(psr, x, y) ==
    LET r == Wrap(x + y) IN
    [SetZeroNeg(psr, r) EXCEPT !.carry = CarryAdd(x, y), !.overflow = AddOverflow(x, y, r)]

Cmp(psr, x, y) ==
    LET r == Wrap(x - y) IN
    [SetZeroNeg(psr, r) EXCEPT !.carry = CarrySub(x, y), !.overflow = SubOverflow(x, y, r)]

(* The flags of ADC and SBC are those of two steps.  The overflow of ADC is  *)
(* set if either overflows, although the second may undo the first; that of *)
(* SBC joins the two steps' in another way, for | binds closer than the &&   *)
(* of the macro SUB_OVERFLOW.                                               *)
AdcFlags(psr, x, y) ==
    LET c == IF psr.carry THEN 1 ELSE 0
        t == Wrap(x + y)
    IN [Cmn(psr, Wrap(x + c), y) EXCEPT
           !.carry = CarryAdd(x, y) \/ CarryAdd(t, c),
           !.overflow = AddOverflow(x, y, t) \/ AddOverflow(t, c, Wrap(t + c))]

SbcFlags(psr, x, y) ==
    LET b == IF psr.carry THEN 0 ELSE 1
        t == Wrap(x - y)
        differ(p, q) == IsNegative(p) # IsNegative(q)
    IN [Cmp(psr, x, Wrap(y + b)) EXCEPT
           !.carry = CarrySub(x, y) /\ CarrySub(t, b),
           !.overflow = /\ differ(x, y)
                        /\ differ(x, t) \/ differ(t, b)
                        /\ differ(t, Wrap(t - b))]

Conditions == {"EQ", "NE", "CS", "CC", "MI", "PL", "VS", "VC", "HI", "LS",
               "GE", "LT", "GT", "LE", "AL"}

MeetsCondition(psr, cond) ==
    LET less == psr.negative # psr.overflow IN
    CASE cond = "EQ" -> psr.zero
      [] cond = "NE" -> ~psr.zero
      [] cond = "CS" -> psr.carry
      [] cond = "CC" -> ~psr.carry
      [] cond = "MI" -> psr.negative
      [] cond = "PL" -> ~psr.negative
      [] cond = "VS" -> psr.overflow
      [] cond = "VC" -> ~psr.overflow
      [] cond = "HI" -> psr.carry /\ ~psr.zero
      [] cond = "LS" -> ~psr.carry \/ psr.zero
      [] cond = "GE" -> ~less
      [] cond = "LT" -> less
      [] cond = "GT" -> ~psr.zero /\ ~less
      [] cond = "LE" -> psr.zero \/ less
      [] OTHER -> TRUE

-----------------------------------------------------------------------------
(* Shifts: the value and the carry, which a shift by 0 leaves alone.        *)

Shift(v, carry) == [v |-> v, carry |-> carry]

lsl(v, n, carry) ==
    IF n = 0 THEN Shift(v, carry)
    ELSE IF n > Bits THEN Shift(0, FALSE)
    ELSE Shift(Wrap(v * 2^n), Bit(v, Bits - n))

lsr(v, n, carry) ==
    IF n = 0 THEN Shift(v, carry)
    ELSE IF n > Bits THEN Shift(0, FALSE)
    ELSE Shift(v \div 2^n, Bit(v, n - 1))

asr(v, n, carry) ==
    IF n = 0 THEN Shift(v, carry)
    ELSE IF n >= Bits THEN Shift(IF IsNegative(v) THEN Limit - 1 ELSE 0, IsNegative(v))
    ELSE Shift(Wrap(Signed(v) \div 2^n), Bit(v, n - 1))

rrx(v, carry) == Shift((v \div 2) + (IF carry THEN Limit \div 2 ELSE 0), Bit(v, 0))

rotr(v, n, carry) ==
    LET k == n % Bits
        r == (v \div 2^k) + Wrap(v * 2^(Bits - k))
    IN IF n = 0 THEN Shift(v, carry)
       ELSE IF k = 0 THEN Shift(v, IsNegative(v)) ELSE Shift(r, Bit(v, k - 1))

ShiftBy(type, v, n, carry) ==
    CASE type = "lsl" -> lsl(v, n, carry)
      [] type = "lsr" -> lsr(v, n, carry)
      [] type = "asr" -> asr(v, n, carry)
      [] type = "ror" -> rotr(v, n, carry)

(* An amount of 0 in the code word means a full shift, or RRX. *)
ShiftImm(type, v, n, carry) ==
    IF n # 0 \/ type = "lsl" THEN ShiftBy(type, v, n, carry)
    ELSE IF type = "ror" THEN rrx(v, carry)
    ELSE ShiftBy(type, v, Bits, carry)

-----------------------------------------------------------------------------
(* The data processing instructions: what x, y and the flags give, and the  *)
(* flags they leave, where shifted are the flags with the carry of the      *)
(* second operand's shift.                                                  *)

Result(op, x, y, psr) ==
    LET c == IF psr.carry THEN 1 ELSE 0 IN
    CASE op \in {"AND", "TST"} -> x & y
      [] op \in {"EOR", "TEQ"} -> x ^^ y
      [] op = "ORR" -> x | y
      [] op = "BIC" -> x & Not_(y)
      [] op = "MOV" -> y
      [] op = "MVN" -> Not_(y)
      [] op \in {"ADD", "CMN"} -> Wrap(x + y)
      [] op \in {"SUB", "CMP"} -> Wrap(x - y)
      [] op = "RSB" -> Wrap(y - x)
      [] op = "ADC" -> Wrap(x + c + y)
      [] op = "SBC" -> Wrap(x - Wrap(y + 1 - c))
      [] op = "RSC" -> Wrap(y - Wrap(x + 1 - c))

Logical == {"AND", "TST", "EOR", "TEQ", "ORR", "BIC", "MOV", "MVN"}
OnlyFlags == {"TST", "TEQ", "CMP", "CMN"}

Flags(op, x, y, psr, shifted) ==
    CASE op \in Logical -> SetZeroNeg(shifted, Result(op, x, y, psr))
      [] op \in {"ADD", "CMN"} -> Cmn(psr, x, y)
      [] op \in {"SUB", "CMP"} -> Cmp(psr, x, y)
      [] op = "RSB" -> Cmp(psr, y, x)
      [] op = "ADC" -> AdcFlags(psr, x, y)
      [] op = "SBC" -> SbcFlags(psr, x, y)
      [] op = "RSC" -> SbcFlags(psr, y, x)

-----------------------------------------------------------------------------
(* Multiplication.  Two words hold n, the lower first. *)

TwoWords(n) == <<n % Limit, (n \div Limit) % Limit>>
OfTwoWords(lo, hi) == hi * Limit + lo

(* arm_mul_long: is_signed, accumulate.                                     *)
MulLong(x, y, is_signed, lo, hi, accumulate) ==
    TwoWords((IF is_signed THEN Signed(x) * Signed(y) ELSE x * y)
             + (IF accumulate THEN OfTwoWords(lo, hi) ELSE 0))

Top(v, top) == SignedPart(IF top THEN v \div Half ELSE v, 2 * ByteBits)

(* SMLAxy and SMULxy, with the sticky overflow of the sum. *)
MulHalves(x, xtop, y, ytop, acc) ==
    LET product == Wrap(Top(x, xtop) * Top(y, ytop)) IN
    [v |-> Wrap(product + acc), q |-> AddOverflow(product, acc, Wrap(product + acc))]

-----------------------------------------------------------------------------
(* Bytes.                                                                   *)

clz(v) ==
    LET ones == {i \in 0..(Bits - 1) : Bit(v, i)} IN
    IF ones = {} THEN Bits ELSE CHOOSE n \in 0..(Bits - 1) :
        (Bits - 1 - n) \in ones /\ \A i \in ones : i <= Bits - 1 - n

(* SXTB, SXTH, UXTB and UXTH of a register rotated by rot bytes, with an    *)
(* addend.                                                                  *)
Extended(v, rot, width, is_signed, addend) ==
    LET r == rotr(v, rot * ByteBits, FALSE).v IN
    Wrap(addend + (IF is_signed THEN SignedPart(r, width) ELSE r % 2^width))

rev(v) == OfLanes([i \in 0..3 |-> Lane(v, 3 - i)])
rev16(v) == OfLanes([i \in 0..3 |-> Lane(v, IF i % 2 = 0 THEN i + 1 ELSE i - 1)])

pkhbt(x, y, n) == (x % Half) + (Wrap(y * 2^n) \div Half) * Half

(* The lane operations, the carries of UADD8 and USUB8 in ge. *)
Lanes8(op, x, y) ==
    LET a(i) == Lane(x, i)
        b(i) == Lane(y, i)
        lane(i) ==
            CASE op = "UADD8" -> (a(i) + b(i)) % Byte
              [] op = "UHADD8" -> (a(i) + b(i)) \div 2
              [] op = "USUB8" -> (a(i) - b(i)) % Byte
              [] op = "UQADD8" -> IF a(i) + b(i) >= Byte THEN Byte - 1 ELSE a(i) + b(i)
              [] op = "UQSUB8" -> IF a(i) < b(i) THEN 0 ELSE a(i) - b(i)
              [] op = "QSUB8" ->  \* Of unsigned bytes.
                  IF a(i) - b(i) > Byte \div 2 - 1 THEN Byte \div 2 - 1
                  ELSE IF a(i) - b(i) < -(Byte \div 2) THEN Byte \div 2
                  ELSE (a(i) - b(i)) % Byte
    IN OfLanes([i \in 0..3 |-> lane(i)])

GreaterEqual(op, x, y, ge) ==
    CASE op = "UADD8" -> [i \in 0..3 |-> Lane(x, i) + Lane(y, i) >= Byte]
      [] op = "USUB8" -> [i \in 0..3 |-> Lane(x, i) >= Lane(y, i)]
      [] OTHER -> ge

sel(x, y, ge) == OfLanes([i \in 0..3 |-> Lane(IF ge[i] THEN x ELSE y, i)])

(* USAT and SSAT to n bits: the value and whether it was cut. *)
usat(v, n) ==
    IF IsNegative(v) THEN [v |-> 0, q |-> TRUE]
    ELSE IF v > 2^n - 1 THEN [v |-> 2^n - 1, q |-> TRUE] ELSE [v |-> v, q |-> FALSE]

ssat(v, n) ==
    IF Signed(v) < -(2^n) THEN [v |-> Wrap(-(2^n)), q |-> TRUE]
    ELSE IF Signed(v) > 2^n - 1 THEN [v |-> 2^n - 1, q |-> TRUE] ELSE [v |-> v, q |-> FALSE]
=============================================================================
