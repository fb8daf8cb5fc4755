---------------------------- MODULE XtensaPrograms ----------------------------
(***************************************************************************)
(* Programs on the Wi-Fi card's core, which interrupts of all levels break   *)
(* into: each computes a function of its input, and the handlers, which use  *)
(* the program's registers, leave no trace but in their counters.           *)
(***************************************************************************)
EXTENDS Xtensa

CONSTANTS MaxIrqs,   \* How often a program is interrupted.
          SomeWords  \* Words for inputs, of 8 bits.

VARIABLES core, task,
          taken  \* Ghost: how often an interrupt of each level was taken.

xtensaVars == <<core, task, taken>>

-----------------------------------------------------------------------------
(* Instructions.                                                            *)

Alu(f, d, s, t) == [op |-> "alu", f |-> f, rd |-> d, rs |-> s, rt |-> t]
One(f, d, s) == [op |-> "unary", f |-> f, rd |-> d, rs |-> s]
Mov(d, s) == [op |-> "mov", rd |-> d, rs |-> s]
Move(f, d, s, t) == [op |-> "move", f |-> f, rd |-> d, rs |-> s, rt |-> t]
Movi(d, v) == [op |-> "movi", rd |-> d, v |-> v]
Addi(d, s, v) == [op |-> "addi", rd |-> d, rs |-> s, v |-> v]
By(op, d, s) == [op |-> op, rd |-> d, rs |-> s]
Amount(f, s) == [op |-> "amount", f |-> f, rs |-> s]
Load(size, d, s, v) == [op |-> "load", size |-> size, rd |-> d, rs |-> s, v |-> v, is_signed |-> FALSE]
Store(size, d, s, v) == [op |-> "store", size |-> size, rd |-> d, rs |-> s, v |-> v]
Bcc(f, s, t, to) == [op |-> "b", f |-> f, rs |-> s, rt |-> t, to |-> to]
Bi(f, s, v, to) == [op |-> "bi", f |-> f, rs |-> s, v |-> v, to |-> to]
Loop(nez, s, size) == [op |-> "loop", nez |-> nez, rs |-> s, size |-> size]
Call(inc, to) == [op |-> "call", inc |-> inc, to |-> to]
Xsr(r, d) == [op |-> "xsr", xsr |-> r, rd |-> d]
Halt == [op |-> "halt"]

Counter(level) == 20 + 4 * level
Saved(level) == 36 + 4 * level

(* A handler needs two registers: one is exchanged with EXCSAVE, the other  *)
(* saved in memory.                                                         *)
ExcsaveOf == <<"excsave1", "excsave2", "excsave3">>

Handler(level) ==
    <<Xsr(ExcsaveOf[level], 2), Movi(2, 0), Store(4, 3, 2, Saved(level)),
      [op |-> "l32i_n", rd |-> 3, rs |-> 2, v |-> Counter(level)],
      Addi(3, 3, 1), [op |-> "s32i_n", rd |-> 3, rs |-> 2, v |-> Counter(level)], Load(4, 3, 2, Saved(level)),
      Movi(2, IF level = 1 THEN 1 ELSE IF level = 2 THEN 2 ELSE 2^FirstNmi),
      [op |-> "wsr", xsr |-> "interrupt", rs |-> 2], Xsr(ExcsaveOf[level], 2), [op |-> "rfi", level |-> level]>>

Tasks ==
    [sum |-> <<Mov(6, 2), Call(1, 4), Mov(2, 6), Halt,
               [op |-> "entry", rs |-> 1, v |-> 4], [op |-> "beqz_n", rs |-> 2, to |-> 3],
               [op |-> "addi_n", rd |-> 10, rs |-> 2, v |-> 0], Call(2, 4),
               [op |-> "add_n", rd |-> 2, rs |-> 2, rt |-> 10], [op |-> "ret_n"]>>,
     \* The function's address comes from memory, and one frame is skipped.
     nested |-> <<[op |-> "l32r", rd |-> 5, literal |-> 0], Mov(14, 2),
                  [op |-> "callx", inc |-> 3, rs |-> 5], Mov(2, 14), Halt,
                  [op |-> "entry", rs |-> 1, v |-> 8], Addi(6, 2, 1), Call(1, 10),
                  Alu("addx2", 2, 6, 2), [op |-> "ret"],
                  [op |-> "entry", rs |-> 1, v |-> 4], Alu("mull", 2, 2, 2), [op |-> "ret"]>>,
     times |-> <<Movi(4, 0), Movi(5, 0), Loop(TRUE, 2, 2), Alu("add", 4, 4, 3), Alu("xor", 5, 5, 3), Halt>>,
     bytes |-> <<Movi(2, 8), Movi(4, 0), Loop(FALSE, 3, 3), Load(1, 5, 2, 0), Alu("add", 4, 4, 5),
                 Addi(2, 2, 1), [op |-> "bnez_n", rs |-> 2, to |-> 0], Movi(2, 0), Store(2, 4, 2, 2),
                 [Load(2, 6, 2, 2) EXCEPT !.is_signed = TRUE], Store(1, 4, 2, 5),
                 [op |-> "l32r", rd |-> 7, literal |-> 4], Halt>>,
     shifts |-> <<Amount("ssr", 4), [op |-> "src", rd |-> 5, rs |-> 3, rt |-> 2], By("srl", 6, 3),
                  By("sra", 7, 3), Amount("ssl", 4), By("sll", 8, 2),
                  [op |-> "extui", rd |-> 9, rs |-> 2, n |-> 3, width |-> 4], Halt>>,
     order |-> <<Alu("min", 4, 2, 3), Alu("max", 5, 2, 3), Alu("minu", 6, 2, 3), Alu("maxu", 7, 2, 3),
                 One("neg", 8, 2), Move("movgez", 8, 2, 2), Movi(9, 0), Bcc("bs", 2, 3, 1), Movi(9, 1),
                 Bcc("any", 2, 3, 1), Addi(9, 9, 2), Bcc("lt", 2, 3, 1), Addi(9, 9, 4), Halt>>,
     divide |-> <<[op |-> "movi_n", rd |-> 4, v |-> 0], One("nsau", 5, 3), One("nsau", 6, 2), Alu("sub", 5, 5, 6),
                  Bi("lt", 5, 0, 9), Amount("ssl", 5), By("sll", 7, 3),
                  [op |-> "slli", rd |-> 4, rs |-> 4, n |-> 1], Bcc("ltu", 2, 7, 2),
                  Alu("sub", 2, 2, 7), Addi(4, 4, 1), Addi(5, 5, -1), Bi("ge", 5, 0, -8), [op |-> "nop_n"], Halt>>,
     \* A counter that a handler changes too, with its level masked.
     critical |-> <<Movi(2, 0), Movi(4, 2), Loop(FALSE, 4, 5), [op |-> "rsil", rd |-> 5, level |-> 1],
                    Load(4, 3, 2, Counter(1)), Addi(3, 3, 1), Store(4, 3, 2, Counter(1)),
                    [op |-> "rsil", rd |-> 5, level |-> 0], Halt>>,
     \* A word at an address that is not aligned, and a function without a window.
     unaligned |-> <<Addi(2, 2, 8), Amount("ssa8l", 2), Movi(3, 8), Load(4, 4, 3, 0), Load(4, 5, 3, 4),
                     [op |-> "src", rd |-> 6, rs |-> 5, rt |-> 4], [op |-> "rsr", xsr |-> "sar", rd |-> 7],
                     [op |-> "srli", rd |-> 7, rs |-> 7, n |-> 1], [op |-> "call0", to |-> 10], Halt,
                     Alu("mul16u", 8, 2, 2), [op |-> "srai", rd |-> 8, rs |-> 8, n |-> 2],
                     [op |-> "jx", rs |-> 0]>>,
     sleep |-> <<[op |-> "waiti", level |-> 0], Halt>>]

CodeAt(pc) ==
    LET level == IF pc < Vector[1] THEN 0 ELSE IF pc < Vector[2] THEN 1 ELSE IF pc < Vector[3] THEN 2 ELSE 3
    IN IF level = 0 THEN Tasks[task.name][pc + 1] ELSE Handler(level)[pc - Vector[level] + 1]

TaskInputs(n) ==
    CASE n \in {"order", "divide"} -> {<<u, v, 0>> : u \in SomeWords, v \in SomeWords \ {0}}
      [] n = "shifts" -> SomeWords \X SomeWords \X (0..(Bits - 1))
      [] n = "sum" -> {<<n1, 0, 0>> : n1 \in 0..2}
      [] n = "unaligned" -> {<<u, 0, 0>> : u \in 0..3}
      [] n = "times" -> {<<u, 5, 0>> : u \in 0..3}
      [] n = "bytes" -> {<<0, v, 0>> : v \in {-1, 0, 3, 6}}
      [] OTHER -> {<<2, 3, 4>>}

(* A task is interrupted at each instruction for the input with which it    *)
(* runs longest.                                                            *)
IsLongest(n, in) == \A other \in TaskInputs(n) : in[1] + in[2] >= other[1] + other[2]
IsInterrupted(t) == t.name \notin {"order", "divide", "shifts"} /\ IsLongest(t.name, t.in)

Boot(t) ==
    [gpr |-> [r \in 0..(4 * NumWindows + 15) |->
                CASE r = 5 -> 60 [] r \in 6..8 -> Wrap(t.in[r - 5]) [] OTHER -> 0],
     window_base |-> 1, pc |-> 0, lbeg |-> 0, lend |-> 0, lcount |-> 0, sar |-> 0, litbase |-> 0,
     ps |-> [int_level |-> 0, exception |-> FALSE, call_inc |-> 0],
     epc |-> [l \in 1..3 |-> 0], eps |-> [l \in 1..3 |-> [int_level |-> 0, exception |-> FALSE, call_inc |-> 0]],
     excsave |-> [l \in 1..3 |-> 0], intenable |-> {0, 1, FirstNmi}, interrupt |-> {},
     halted |-> FALSE, died |-> FALSE,
     mem |-> [w \in 0..15 |-> CASE w = 0 -> 5 [] w \in {2, 3} -> 228 [] OTHER -> 0]]

AllTasks == UNION {[name : {n}, in : TaskInputs(n)] : n \in DOMAIN Tasks}

XtensaInit(t) == task = t /\ core = Boot(t) /\ taken = [l \in 1..3 |-> 0]

TaskEnded == ~core.halted /\ CodeAt(core.pc) = Halt

XtensaStep ==
    /\ ~core.halted /\ ~core.died /\ ~TaskEnded
    /\ core' = run(core, CodeAt)
    /\ UNCHANGED <<task, taken>>

(* The driver or the card's own devices raise an interrupt.                 *)
XtensaIrq(id) ==
    /\ ~core.died /\ ~TaskEnded /\ IsInterrupted(task)
    /\ id \notin core.interrupt
    /\ taken[1] + taken[2] + taken[3] + Cardinality(core.interrupt) < MaxIrqs
    /\ core' = send_irq(core, id)
    /\ taken' = [taken EXCEPT ![Level(id)] = @ + (IF core'.pc # core.pc THEN 1 ELSE 0)]
    /\ UNCHANGED task

XtensaNext == XtensaStep \/ \E id \in {0, 1, FirstNmi} : XtensaIrq(id)

-----------------------------------------------------------------------------

TaskComputes(n, in, r, word) ==
    LET u == in[1]
        v == in[2]
    IN CASE n = "sum" -> 2 * r[2] = u * (u + 1)
         [] n = "nested" -> r[2] = 2 * (u + 1) * (u + 1) + u
         [] n = "times" -> r[4] = u * v /\ r[5] = (IF u % 2 = 1 THEN v ELSE 0)
         [] n = "bytes" ->
              LET total == IF v <= 0 THEN 0 ELSE (v \div 4) * 6 + ((v % 4) * ((v % 4) - 1)) \div 2 IN
              /\ r[4] = total /\ r[6] = Wrap(SignedPart(total, 2 * ByteBits))
              /\ r[7] = Byte * (total % Byte)
         [] n = "shifts" ->
              LET long == (v * Limit + u) \div 2^in[3] IN
              /\ r[5] = Wrap(long) /\ r[6] = long \div Limit
              /\ r[7] = Wrap(Signed(v) \div 2^in[3]) /\ r[8] = Wrap(u * 2^in[3])
              /\ r[9] = (u \div 8) % 16
         [] n = "order" ->
              LET less == Signed(u) < Signed(v)
                  mag == IF IsNegative(u) THEN Limit - u ELSE u
              IN /\ <<r[4], r[5]>> = (IF less THEN <<u, v>> ELSE <<v, u>>)
                 /\ <<r[6], r[7]>> = (IF u < v THEN <<u, v>> ELSE <<v, u>>)
                 /\ r[8] = mag
                 /\ Bit(r[9], 0) = ~Bit(u, v % Bits) /\ Bit(r[9], 1) = (SetBits(u) \cap SetBits(v) = {})
                 /\ Bit(r[9], 2) = ~less
         [] n = "divide" -> r[4] = u \div v /\ r[2] = u % v
         [] n = "unaligned" ->
              /\ r[6] = ((u + 3) % 4) * Byte^3 + ((u + 2) % 4) * Byte^2 + ((u + 1) % 4) * Byte + u
              /\ r[7] = u /\ r[8] = ((u + 8) * (u + 8)) \div 4
         [] n = "critical" -> word[Counter(1) \div 4] = taken[1] + 2
         [] n = "sleep" -> taken[1] + taken[2] + taken[3] > 0

(* A program on the card computes its function, whatever interrupts it:     *)
(* windows rotate back to their callers, loops run as often as they were    *)
(* told, and every handler that was entered ran to its end once.            *)
TasksComputeTheirFunction ==
    TaskEnded =>
        /\ TaskComputes(task.name, task.in, [r \in 0..15 |-> a(core, r)], core.mem)
        /\ \A l \in 1..3 : core.mem[Counter(l) \div 4]
               = taken[l] + (IF l = 1 /\ task.name = "critical" THEN 2 ELSE 0)
        /\ core.window_base = 1 /\ a(core, 1) = 60
        /\ core.ps.int_level = 0 /\ ~core.ps.exception
=============================================================================
