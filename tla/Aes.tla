-------------------------------- MODULE Aes --------------------------------
(***************************************************************************)
(* The AES engine of the ARM9 (arm9/aes.cpp): its FIFOs, the blocks it     *)
(* works through, the request lines it drives, and its key slots.          *)
(*                                                                         *)
(* Words are opaque.  A word of a result is a record of what it was        *)
(* computed from, so that two are equal exactly when key, counter, mode,   *)
(* input and place are: the cipher as an uninterpreted function.  The      *)
(* order of bytes within a word is left out, that of words is not.         *)
(***************************************************************************)
EXTENDS Dma9

CONSTANT
    BlockLimit  \* block_count is modulo this; 2^16 in the code.

VARIABLES
    aes,   \* The engine: registers and FIFOs.
    keys   \* The key slots, KEYCNT, KEYSEL and the key FIFOs.

aesVars == <<aes, keys>>

None4 == <<0, 0, 0, 0>>
Slots == {0, 63}      \* One of the four DSi slots, and the last of the others.
KeyKinds == {"normal", "x", "y"}

AesInit ==
    /\ aes = [mode |-> 2, in_word_order |-> FALSE, out_word_order |-> FALSE,
              irq_enable |-> FALSE, busy |-> FALSE, block_count |-> 0,
              input |-> <<>>, output |-> <<>>, temp |-> [i \in 1..4 |-> Data(0)], temp_ctr |-> 0,
              most_recent |-> Data(0), iv |-> <<"ctr", 0>>, key |-> None4,
              mac_status |-> FALSE]
    /\ keys = [slot |-> [s \in Slots |-> [k \in KeyKinds |-> None4]],
               KEYCNT |-> 63, KEYSEL |-> 63,
               fifo |-> [k \in KeyKinds |-> None4],
               ctr |-> [k \in KeyKinds |-> 0]]

(* AES::reset: the FIFOs, the counters of blocks and CNT are as they were,  *)
(* and the key is that of the last slot.                                    *)
AesReset ==
    /\ aes' = [aes EXCEPT !.temp_ctr = 0, !.key = keys.slot[63]["normal"]]
    /\ keys' = [keys EXCEPT !.KEYSEL = 0, !.KEYCNT = 0,
                            !.ctr = [k \in KeyKinds |-> 0]]

(* input_vector: where a word goes in a vector of four. *)
Placed(vector, index, word, order) ==
    [vector EXCEPT ![IF order THEN index + 1 ELSE 4 - index] = word]

-----------------------------------------------------------------------------
(* Blocks.                                                                  *)

(* Word i of the result of a block, and the vector for the next block.  In  *)
(* mode 0 the block is copied (decrypt_ccm).                                *)
Crypted(a, block, i) ==
    IF a.mode = 0 THEN block[i]
    ELSE IF a.mode \in {2, 3} THEN [ctr |-> a.iv, key |-> a.key, at |-> i, of |-> block[i]]
    ELSE IF a.mode = 4 THEN [cbc |-> a.iv, key |-> a.key, at |-> i, of |-> block]
    ELSE IF a.mode = 5 THEN [enc |-> a.iv, key |-> a.key, at |-> i, of |-> block]
    ELSE [ecb |-> a.key, at |-> i, of |-> block]

NextIv(a, block) ==
    IF a.mode \in {2, 3} THEN <<"ctr", a.iv[2] + 1>>
    ELSE IF a.mode = 4 THEN <<"block", block>>
    ELSE IF a.mode = 5 THEN <<"block", [i \in 1..4 |-> Crypted(a, block, i)]>>
    ELSE a.iv

Result(a, block) ==
    [i \in 1..4 |-> Crypted(a, block, IF a.out_word_order THEN i ELSE 5 - i)]

Ready(a) == Len(a.input) >= 4 /\ Len(a.output) <= 12 /\ a.busy

(* One block, of mode 0 or 2 to 6 (others end the emulation).               *)
Crypt(a) ==
    LET block == SubSeq(a.input, 1, 4)
        left == (a.block_count - 1) % BlockLimit
    IN [a EXCEPT !.input = SubSeq(@, 5, Len(@)),
                 !.output = @ \o Result(a, block),
                 !.iv = NextIv(a, block),
                 !.mac_status = @ \/ a.mode = 0,
                 !.block_count = left,
                 !.busy = left # 0]

(* Mutant of SendDmaRequests: the line of the output is raised a word late. *)
SendDmaRequests_Late(a) ==
    pending' = [pending EXCEPT
        !["AES_WRITEFREE"] = a.busy /\ Len(a.input) <= 8,
        !["AES_READFREE"] = Len(a.output) > 4]

SendDmaRequests(a) ==
    pending' = [pending EXCEPT
        !["AES_WRITEFREE"] = a.busy /\ Len(a.input) <= 8,
        !["AES_READFREE"] = Len(a.output) >= 4]

(* crypt_check, of an engine that a register access has changed to a: one   *)
(* block at most.                                                           *)
CryptCheck(a) ==
    LET b == IF Ready(a) THEN Crypt(a) ELSE a IN
    /\ aes' = b
    /\ SendDmaRequests(b)
    /\ IF_' = IF a.busy /\ ~b.busy /\ a.irq_enable THEN IF_ \union {15} ELSE IF_
    /\ UNCHANGED <<keys, late>>

(* Mutant of write_input_fifo: the words go in one by one. *)
write_input_fifo_Unordered(word) ==
    CryptCheck([aes EXCEPT !.input = Append(@, word)])

(* Words reach the FIFO four at a time, in the order CNT asks for. *)
write_input_fifo(word) ==
    LET temp == Placed(aes.temp, aes.temp_ctr, word, aes.in_word_order) IN
    CryptCheck(
        IF aes.temp_ctr < 3
        THEN [aes EXCEPT !.temp = temp, !.temp_ctr = @ + 1]
        ELSE [aes EXCEPT !.temp = temp, !.temp_ctr = 0, !.input = @ \o temp])

(* An empty output FIFO repeats its last word. *)
RdFifo == IF aes.output = <<>> THEN aes.most_recent ELSE Head(aes.output)

ReadRdFifo ==
    CryptCheck(IF aes.output = <<>> THEN aes
               ELSE [aes EXCEPT !.most_recent = Head(aes.output), !.output = Tail(@)])

-----------------------------------------------------------------------------
(* Registers.                                                               *)

write_block_count(n) ==
    /\ aes' = [aes EXCEPT !.block_count = n]
    /\ UNCHANGED <<keys, pending, late, IF_>>

write_ctr(n) ==
    /\ aes' = [aes EXCEPT !.iv = <<"ctr", n>>]
    /\ UNCHANGED <<keys, pending, late, IF_>>

(* Mutant of Flushed: the words in the key FIFOs stay where they are. *)
Flushed_Never(order) == keys.ctr

(* A change of the order empties the key FIFOs, but not the input's.        *)
Flushed(order) ==
    IF order # aes.in_word_order THEN [k \in KeyKinds |-> 0] ELSE keys.ctr

(* CNT: cnt has the fields it sets; select loads the key of KEYSEL.  The    *)
(* engine does not look at its input here.                                  *)
WriteCnt(cnt, select) ==
    LET a == [Updated(aes, cnt) EXCEPT
                  !.key = IF select THEN keys.slot[keys.KEYSEL]["normal"] ELSE @]
    IN /\ aes' = a
       /\ keys' = [keys EXCEPT !.ctr = Flushed(cnt.in_word_order)]
       /\ pending' = [pending EXCEPT
              !["AES_WRITEFREE"] = a.busy /\ Len(a.input) <= 8,
              !["AES_READFREE"] = Len(a.output) >= 4,
              !["AES2"] = FALSE]
       /\ UNCHANGED <<late, IF_>>

WriteKeySelectors(cnt, sel) ==
    /\ keys' = [keys EXCEPT !.KEYCNT = cnt, !.KEYSEL = sel]
    /\ UNCHANGED <<aes, pending, late, IF_>>

(* gen_normal_key and gen_dsi_key: functions of the two halves. *)
Generated(scheme, x, y) == <<scheme, x, y>>

(* KEYFIFO, XFIFO and YFIFO: the fourth word fills the slot of KEYCNT, and  *)
(* the last of Y makes its key.                                             *)
WriteKeyFifo(kind, word) ==
    LET filled == Placed(keys.fifo[kind], keys.ctr[kind], word, aes.in_word_order)
        slot == keys.slot[keys.KEYCNT]
        whole == [slot EXCEPT ![kind] = filled]
    IN /\ keys' = [keys EXCEPT
              !.fifo[kind] = filled,
              !.ctr[kind] = (@ + 1) % 4,
              !.slot[keys.KEYCNT] =
                  IF keys.ctr[kind] < 3 THEN @
                  ELSE IF kind # "y" THEN whole
                  ELSE [whole EXCEPT !["normal"] = Generated("3ds", whole["x"], whole["y"])]]
       /\ UNCHANGED <<aes, pending, late, IF_>>

(* The mirrors of the DSi's key registers: each word at once, and each word *)
(* of Y makes a key.                                                        *)
WriteDsiKey(slot, kind, index, word) ==
    LET written == [keys.slot[slot] EXCEPT ![kind] = Placed(@, index, word, TRUE)] IN
    /\ keys' = [keys EXCEPT !.slot[slot] =
           IF kind # "y" THEN written
           ELSE [written EXCEPT !["normal"] = Generated("dsi", written["x"], written["y"])]]
    /\ UNCHANGED <<aes, pending, late, IF_>>
=============================================================================
