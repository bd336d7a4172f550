------------------------------ MODULE Alu8080 ------------------------------
(***************************************************************************)
(* The arithmetic helpers of cpu8080_emulator.c.  Each takes the register  *)
(* file and returns the register file the helper leaves; what the helper   *)
(* computes in an int and stores in a byte is reduced where it is stored.  *)
(***************************************************************************)
EXTENDS Words8080

RegName == {"A", "F", "B", "C", "D", "E", "H", "L"}
RegFile == [RegName -> Byte]

Flag(r, mask) == BitOf(r["F"], mask)
WithFlag(r, mask, b) == [r EXCEPT !["F"] = SetFlag(@, mask, b)]

EvenParity(v) ==
  LET ones == BitOf(v, 1) + BitOf(v, 2) + BitOf(v, 4) + BitOf(v, 8)
              + BitOf(v, 16) + BitOf(v, 32) + BitOf(v, 64) + BitOf(v, 128)
  IN  1 - (ones % 2)

set_SZP(f, v) ==
  SetFlag(SetFlag(SetFlag(f, S_BIT, BitOf(v, 128)), Z_BIT, Truth(v = 0)), P_BIT, EvenParity(v))

(* mutant: the carry is the sign of the sum. *)
ADD_CarryFromSign(r, v) ==
  LET res == r["A"] + v
  IN  [r EXCEPT !["A"] = U8(res), !["F"] = SetFlag(set_SZP(r["F"], U8(res)), C_BIT, BitOf(res, 128))]
(* C is bit 8 of the sum; A combines bit 4 of the sum and bit 3 of the old *)
(* accumulator.                                                            *)
ADD(r, v) ==
  LET res == r["A"] + v
      f   == SetFlag(set_SZP(r["F"], U8(res)), C_BIT, BitOf(res, 256))
  IN  [r EXCEPT !["A"] = U8(res),
                !["F"] = SetFlag(f, A_BIT, BitAnd(BitOf(res, 16), BitOf(r["A"], 8)))]

(* The operand of ADD is a byte: negation and the added carry wrap there.  *)
SUB_OnesComplement(r, v) == ADD(r, 255 - v) \* mutant
SUB(r, v) == ADD(r, U8(-v))
ADC(r, v) == ADD(r, U8(v + Flag(r, C_BIT)))
SBB(r, v) == ADD(r, U8(-v - Flag(r, C_BIT)))

(* INR and DCR work through a pointer: they return the new value and F.    *)
Incremented_Wide(v) == v + 1 \* mutant
Incremented(v) == U8(v + 1)
IncrementedF_Carry(f, v) == SetFlag(set_SZP(f, Incremented(v)), C_BIT, Truth(v = 255)) \* mutant
IncrementedF(f, v) ==
  LET n == Incremented(v)
  IN  SetFlag(set_SZP(f, n), A_BIT, BitAnd(BitOf(n, 16), BitOf(n - 1, 8)))
Decremented(v) == U8(v - 1)
DecrementedF(f, v) ==
  LET n == Decremented(v)
  IN  SetFlag(set_SZP(f, n), A_BIT, BitAnd(BitOf(n, 16), BitOf(n + 1, 8)))

RLC(r) ==
  LET c == BitOf(r["A"], 128)
  IN  [WithFlag(r, C_BIT, c) EXCEPT !["A"] = U8(2 * r["A"] + c)]
RAL(r) ==
  [WithFlag(r, C_BIT, BitOf(r["A"], 128)) EXCEPT !["A"] = U8(2 * r["A"] + Flag(r, C_BIT))]
RRC(r) ==
  LET c == BitOf(r["A"], 1)
  IN  [WithFlag(r, C_BIT, c) EXCEPT !["A"] = r["A"] \div 2 + 128 * c]
RAR_NotThroughCarry(r) == RRC(r) \* mutant
RAR(r) ==
  [WithFlag(r, C_BIT, BitOf(r["A"], 1)) EXCEPT !["A"] = r["A"] \div 2 + 128 * Flag(r, C_BIT)]

(* DAA tests the whole accumulator, then the one its first half left.      *)
DaaLow(r)  == IF Flag(r, A_BIT) = 1 \/ r["A"] > 9 THEN ADD(r, 6) ELSE r
DaaHigh(r) == IF Flag(r, C_BIT) = 1 \/ r["A"] \div 16 > 9 THEN ADD(r, 96) ELSE r
DAA(r) == DaaHigh(DaaLow(r))

HL(r) == Word(r["H"], r["L"])
(* mutant: the carry is taken one bit too low. *)
DAD_Carry15(r, v) ==
  LET res == HL(r) + v
  IN  [WithFlag(r, C_BIT, BitOf(res, 32768)) EXCEPT !["H"] = Hi(U16(res)), !["L"] = Lo(U16(res))]
DAD(r, v) ==
  LET res == HL(r) + v
  IN  [WithFlag(r, C_BIT, BitOf(res, 65536)) EXCEPT !["H"] = Hi(U16(res)), !["L"] = Lo(U16(res))]

(* The three logical operations store the result, set S, Z and P from it   *)
(* and clear C; A is left as it was.                                       *)
Logical(r, v) ==
  [r EXCEPT !["A"] = v, !["F"] = SetFlag(set_SZP(r["F"], v), C_BIT, 0)]
ANA(r, v) == Logical(r, And8(r["A"], v))
ORA_Exclusive(r, v) == Logical(r, Xor8(r["A"], v)) \* mutant
ORA(r, v) == Logical(r, Or8(r["A"], v))
XRA(r, v) == Logical(r, Xor8(r["A"], v))

CMP_Subtracts(r, v) == SUB(r, v) \* mutant
CMP(r, v) ==
  LET d == [SUB(r, v) EXCEPT !["A"] = r["A"]]
  IN  IF Flag(d, S_BIT) = 1 THEN WithFlag(d, C_BIT, 1 - Flag(d, C_BIT)) ELSE d

CMA(r) == [r EXCEPT !["A"] = 255 - @]
CMC(r) == WithFlag(r, C_BIT, 1 - Flag(r, C_BIT))
STC(r) == WithFlag(r, C_BIT, 1)

(* The eight one-byte operations on A and the carry.                       *)
Rotated(op, r) ==
  CASE op = 7 -> RLC(r) [] op = 15 -> RRC(r) [] op = 23 -> RAL(r) [] op = 31 -> RAR(r)
    [] op = 39 -> DAA(r) [] op = 47 -> CMA(r) [] op = 55 -> STC(r) [] OTHER -> CMC(r)
(* The operation that bits 3 to 5 of the opcode name.                      *)
Computed(op, r, v) ==
  LET kind == (op \div 8) % 8
  IN  CASE kind = 0 -> ADD(r, v) [] kind = 1 -> ADC(r, v)
        [] kind = 2 -> SUB(r, v) [] kind = 3 -> SBB(r, v)
        [] kind = 4 -> ANA(r, v) [] kind = 5 -> XRA(r, v)
        [] kind = 6 -> ORA(r, v) [] OTHER -> CMP(r, v)
=============================================================================
