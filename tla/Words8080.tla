----------------------------- MODULE Words8080 -----------------------------
(***************************************************************************)
(* Bytes, words and bits as the simulator stores them: the typedefs of     *)
(* cpu8080_common.h, the register-pair union and the flag bit-field of     *)
(* cpu8080_emulator.h, and the bit macros of cpu8080_emulator.c and        *)
(* cpu8080_tables.h.  Every C conversion to a narrower type is an explicit *)
(* reduction here, so that a wrap-around happens exactly where C has one.  *)
(***************************************************************************)
EXTENDS Integers

MaxByte  == 255
MaxShort == 65535
Byte  == 0 .. MaxByte
Short == 0 .. MaxShort

(* Conversion of an int to cpu8080_byte_t and to cpu8080_short_t.          *)
U8(x)  == x % 256
U16(x) == x % 65536

(* cpu8080_reg162_t: R12 overlays R1 (low byte) and R2 (high byte).        *)
Hi(w)        == w \div 256
Lo(w)        == w % 256
Word(hi, lo) == 256 * hi + lo

(* A bit is named by its mask, as S_BIT .. C_BIT are.  On negative ints    *)
(* \div rounds down, as the arithmetic shift of the C expression does.     *)
BitOf(v, mask) == (v \div mask) % 2

S_BIT == 128
Z_BIT == 64
A_BIT == 16
P_BIT == 4
C_BIT == 1
FlagMasks == {S_BIT, Z_BIT, A_BIT, P_BIT, C_BIT}

(* Store b into one field of cpu8080_reg_flags_t: the other bits of F,     *)
(* the unnamed ones included, keep their value.                            *)
SetFlag(f, mask, b) == f - mask * BitOf(f, mask) + mask * b

(* The bit that a C condition stores into a bit-field.                     *)
Truth(P) == IF P THEN 1 ELSE 0

(* Apply a Boolean operation to two bytes, bit by bit.                     *)
Bitwise8(Op(_, _), x, y) ==
  LET At(mask) == mask * Op(BitOf(x, mask), BitOf(y, mask))
  IN  At(128) + At(64) + At(32) + At(16) + At(8) + At(4) + At(2) + At(1)

BitAnd(b, c) == IF b = 1 /\ c = 1 THEN 1 ELSE 0
BitOr(b, c)  == IF b = 1 \/ c = 1 THEN 1 ELSE 0
BitXor(b, c) == IF b # c THEN 1 ELSE 0

And8(x, y) == Bitwise8(BitAnd, x, y)
Or8(x, y)  == Bitwise8(BitOr, x, y)
Xor8(x, y) == Bitwise8(BitXor, x, y)
=============================================================================
