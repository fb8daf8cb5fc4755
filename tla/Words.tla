-------------------------------- MODULE Words --------------------------------
(***************************************************************************)
(* Words of Bits bits and four bytes, so that a checker can use short ones:  *)
(* amounts that the code writes as 8, 16, 31 or 32 are multiples of a byte. *)
(***************************************************************************)
EXTENDS Integers, Bitwise

CONSTANT Bits  \* 32 in the code, where a word has Bits bits.

ASSUME BitsAssumption == Bits \in Nat \ {0} /\ Bits % 4 = 0

ByteBits == Bits \div 4
Limit == 2^Bits
Half == 2^(2 * ByteBits)
Byte == 2^ByteBits

Wrap(n) == n % Limit
Bit(v, i) == (v \div 2^i) % 2 = 1
IsNegative(v) == v >= Limit \div 2
Not_(v) == Limit - 1 - v

(* The low n bits of v as a signed number. *)
SignedPart(v, n) ==
    LET low == v % 2^n IN IF low >= 2^(n - 1) THEN low - 2^n ELSE low

Signed(v) == SignedPart(v, Bits)

Lane(v, i) == (v \div Byte^i) % Byte
OfLanes(lane) == lane[0] + Byte * (lane[1] + Byte * (lane[2] + Byte * lane[3]))
=============================================================================
