-------------------------------- MODULE Sha --------------------------------
(***************************************************************************)
(* The SHA engine of the ARM9 (arm9/sha.cpp, sha_engine.cpp): a FIFO that  *)
(* is hashed when it holds a block, a second one from which the block can  *)
(* be read back, and the request lines.  The engine of the ARM11           *)
(* (arm11/hash.cpp) is the same without the lines.                         *)
(*                                                                         *)
(* The compression function is uninterpreted: a hash is its mode and the   *)
(* blocks compressed into it, in order.                                    *)
(***************************************************************************)
EXTENDS Dma9

VARIABLE sha

BlockWords == 16

(* The words a final round appends. *)
One == [pad |-> 1]
Zero == [pad |-> 0]
Length(words) == [bits |-> words * 32]

ShaInit ==
    sha = [in_dma |-> FALSE, out_dma |-> FALSE, mode |-> 0, fifo_enable |-> FALSE,
           input |-> <<>>, read |-> <<>>, message_len |-> 0,
           hash |-> <<>>, died |-> FALSE]

(* SHA::reset: both FIFOs are as they were. *)
ShaReset == sha' = [sha EXCEPT !.message_len = 0]

Zeros(n) == [i \in 1..n |-> Zero]

(* do_hash(false). *)
Compress(s) == [s EXCEPT !.hash = Append(@, s.input), !.input = <<>>]

(* Mutant of FinalBlocks: 14 words are thought to leave room. *)
FinalBlocks_Tight(words, len) ==
    IF Len(words) > 14
    THEN <<words \o <<One>> \o Zeros(15 - Len(words)), Zeros(15) \o <<Length(len)>>>>
    ELSE <<words \o <<One>> \o Zeros(14 - Len(words)) \o <<Length(len)>>>>

(* The blocks of a final round: the words that are left, a one, zeros, and  *)
(* the length in bits, which needs two words of room, the upper one 0.      *)
FinalBlocks(words, len) ==
    IF Len(words) >= 14
    THEN <<words \o <<One>> \o Zeros(15 - Len(words)), Zeros(15) \o <<Length(len)>>>>
    ELSE <<words \o <<One>> \o Zeros(14 - Len(words)) \o <<Length(len)>>>>

(* do_hash(true), of SHA-256 (mode 0) and SHA-1 (modes 2 and 3), which ends *)
(* the emulation where it would need a second block.                        *)
Final(s) ==
    IF s.mode = 0 \/ Len(s.input) < 14
    THEN [s EXCEPT !.hash = @ \o FinalBlocks(s.input, s.message_len),
                   !.input = <<>>, !.message_len = @ * 32]
    ELSE [s EXCEPT !.died = TRUE]

(* CNT: cnt has the fields it sets.  A start forgets the hash and the       *)
(* length, not the FIFO.                                                    *)
WriteShaCnt(cnt, start, final) ==
    LET s == Updated(sha, cnt)
        started == IF start THEN [s EXCEPT !.hash = <<>>, !.message_len = 0] ELSE s
    IN /\ sha' = IF final THEN Final(started) ELSE started
       /\ pending' = Lines(
              (IF cnt.in_dma /\ Len(sha.input) < BlockWords THEN {"SHA_IN"} ELSE {})
              \union (IF cnt.out_dma /\ Len(sha.input) = BlockWords
                      THEN {"SHA_OUT", "XDMA_SHA"} ELSE {}),
              (IF cnt.in_dma THEN {} ELSE {"SHA_IN"})
              \union (IF cnt.out_dma THEN {} ELSE {"SHA_OUT", "XDMA_SHA"}))
       /\ UNCHANGED <<late, IF_>>

(* Mutant of Accept: what is left to be read back is kept. *)
Accept_KeepsRead(word) ==
    [sha EXCEPT !.input = Append(@, word), !.read = Append(@, word),
                !.message_len = @ + 1]

(* The first word of a block discards what was not read back of the last.   *)
Accept(word) ==
    [sha EXCEPT !.input = Append(@, word),
                !.read = IF sha.input = <<>> THEN <<word>> ELSE Append(@, word),
                !.message_len = @ + 1]

(* write_fifo. *)
WriteShaFifo(word) ==
    LET s == Accept(word)
        full == Len(s.input) = BlockWords
    IN /\ sha' = [(IF full THEN Compress(s) ELSE s) EXCEPT !.fifo_enable = full]
       /\ pending' = Lines(
              IF full /\ s.out_dma THEN {"SHA_OUT", "XDMA_SHA"} ELSE {},
              (IF sha.input = <<>> THEN {"SHA_OUT", "XDMA_SHA"} ELSE {})
              \union (IF full THEN {"AES2"} ELSE {}))
       /\ UNCHANGED <<late, IF_>>

(* Reading back.  The queue must hold a word: an empty one has none to      *)
(* return (undefined behaviour).                                            *)
ShaFifo == Head(sha.read)

ReadShaFifo ==
    LET empties == Len(sha.read) = 1 IN
    /\ sha.read # <<>>
    /\ sha' = [sha EXCEPT !.read = Tail(@), !.fifo_enable = IF empties THEN FALSE ELSE @]
    /\ pending' = IF empties THEN Lines({"AES2"}, {"SHA_OUT", "XDMA_SHA"}) ELSE pending
    /\ UNCHANGED <<late, IF_>>

-----------------------------------------------------------------------------
(* The reference: the padded message, cut into blocks. *)

Padded(message) ==
    LET n == Len(message)
        fill == (BlockWords - ((n + 3) % BlockWords)) % BlockWords
    IN message \o <<One>> \o Zeros(fill + 1) \o <<Length(n)>>

Digest(message) ==
    LET words == Padded(message) IN
    [b \in 1..Len(words) \div BlockWords |->
        SubSeq(words, (b - 1) * BlockWords + 1, b * BlockWords)]
=============================================================================
