-------------------------------- MODULE Rsa --------------------------------
(***************************************************************************)
(* The RSA engine of the ARM9 (arm9/rsa.cpp): four key slots and a         *)
(* message, filled through ports whose counters wrap, and one operation,   *)
(* which is done at once.  A register is Cells units wide, a unit being    *)
(* what one access moves; the power is an uninterpreted function.          *)
(***************************************************************************)
EXTENDS Dma9

CONSTANT
    Cells  \* The units of a register: 256 of a byte or 64 of a word.

ASSUME RsaAssumption == Cells \in Nat \ {0}

VARIABLE rsa

KeySlots == 0..3

BlankRsa ==
    LET blank == [n \in 1..Cells |-> Data(0)] IN
    [keyslot |-> 0, word_order |-> FALSE, msg |-> blank, msg_ctr |-> 0,
     keys |-> [s \in KeySlots |-> [exp |-> blank, mod |-> blank, exp_ctr |-> 0, mod_ctr |-> 0]]]

RsaInit == rsa = BlankRsa

(* RSA::reset: the message stays, its counter does not. *)
RsaReset == rsa' = [BlankRsa EXCEPT !.msg = rsa.msg]

(* Where a unit goes: without word_order from the end. *)
Cell(ctr) == IF rsa.word_order THEN ctr + 1 ELSE Cells - ctr

Wrapped(ctr) == (ctr + 1) % Cells

(* The exponent is not turned around. *)
WriteExp(word) ==
    /\ rsa' = [rsa EXCEPT
           !.keys[rsa.keyslot].exp[rsa.keys[rsa.keyslot].exp_ctr + 1] = word,
           !.keys[rsa.keyslot].exp_ctr = Wrapped(@)]
    /\ UNCHANGED <<pending, late, IF_>>

WriteMod(word) ==
    /\ rsa' = [rsa EXCEPT
           !.keys[rsa.keyslot].mod[Cell(rsa.keys[rsa.keyslot].mod_ctr)] = word,
           !.keys[rsa.keyslot].mod_ctr = Wrapped(@)]
    /\ UNCHANGED <<pending, late, IF_>>

(* Mutant of WriteMsg: the counter stays after the last unit. *)
WriteMsg_NoWrap(word) ==
    /\ rsa' = [rsa EXCEPT !.msg[Cell(rsa.msg_ctr)] = word,
                          !.msg_ctr = IF @ + 1 = Cells THEN @ ELSE @ + 1]
    /\ UNCHANGED <<pending, late, IF_>>

WriteMsg(word) ==
    /\ rsa' = [rsa EXCEPT !.msg[Cell(rsa.msg_ctr)] = word, !.msg_ctr = Wrapped(@)]
    /\ UNCHANGED <<pending, late, IF_>>

Power(msg, key) ==
    [n \in 1..Cells |-> [power |-> msg, exp |-> key.exp, mod |-> key.mod, at |-> n]]

(* RSA_CNT, and the operation if it is asked for: it uses the slot and the  *)
(* order that are written with it.                                          *)
WriteRsaCnt(slot, order, go) ==
    /\ rsa' = [rsa EXCEPT !.keyslot = slot, !.word_order = order,
                          !.msg = IF go THEN Power(@, rsa.keys[slot]) ELSE @]
    /\ IF_' = IF go THEN IF_ \union {22} ELSE IF_
    /\ UNCHANGED <<pending, late>>

(* The message is read by address. *)
RsaWord(n) == rsa.msg[Cell(n)]
=============================================================================
