--------------------------- MODULE Alu8080_proofs ---------------------------
(***************************************************************************)
(* Facts about bytes, words and bits that all proofs cite, and about the   *)
(* arithmetic helpers, which map register files and bytes to register      *)
(* files: whatever they compute in a wider int is brought back to a byte.  *)
(* The two largest values are used through their bounds alone, so that the *)
(* provers reason about intervals and never enumerate them.                *)
(***************************************************************************)
EXTENDS Alu8080, TLAPS


LEMMA Maxima ==
  /\ MaxByte \in Int /\ MaxByte <= 255 /\ 255 <= MaxByte
  /\ MaxShort \in Int /\ MaxShort <= 65535 /\ 65535 <= MaxShort
BY DEF MaxByte, MaxShort

(* Membership in the two ranges, in both directions. *)
LEMMA ByteBounds == ASSUME NEW x \in Byte PROVE x \in Int /\ 0 <= x /\ x <= 255
BY Maxima DEF Byte
LEMMA InByte == ASSUME NEW x \in Int, 0 <= x, x <= 255 PROVE x \in Byte
BY Maxima DEF Byte
LEMMA ShortBounds == ASSUME NEW x \in Short PROVE x \in Int /\ 0 <= x /\ x <= 65535
BY Maxima DEF Short
LEMMA InShort == ASSUME NEW x \in Int, 0 <= x, x <= 65535 PROVE x \in Short
BY Maxima DEF Short

(* The conversions of C end in the range of their type.                    *)
LEMMA U8Byte == ASSUME NEW x \in Int PROVE U8(x) \in Byte
BY InByte DEF U8
LEMMA U16Short == ASSUME NEW x \in Int PROVE U16(x) \in Short
BY InShort DEF U16

(* Two bytes make a word, and a word splits into the bytes that make it.   *)
LEMMA WordShort == ASSUME NEW h \in Byte, NEW l \in Byte PROVE Word(h, l) \in Short
BY ByteBounds, InShort DEF Word
LEMMA HalfBytes ==
  ASSUME NEW w \in Short
  PROVE  Hi(w) \in Byte /\ Lo(w) \in Byte /\ Word(Hi(w), Lo(w)) = w
BY ShortBounds, InByte DEF Hi, Lo, Word

-----------------------------------------------------------------------------
(* A bit is 0 or 1, of a negative int too. *)
Masks == {1, 2, 4, 8, 16, 32, 64, 128, 256, 32768, 65536}
LEMMA BitRange ==
  ASSUME NEW x \in Int, NEW m \in Masks
  PROVE  BitOf(x, m) \in {0, 1}
BY DEF BitOf, Masks

(* The flag masks are powers of two that fit a byte. *)
LEMMA FlagMaskValues == FlagMasks \subseteq Masks /\ FlagMasks = {128, 64, 16, 4, 1}
BY DEF FlagMasks, Masks, S_BIT, Z_BIT, A_BIT, P_BIT, C_BIT

(* Storing a bit of a byte yields a byte, and that byte has the bit.       *)
LEMMA SetFlagByte ==
  ASSUME NEW f \in Byte, NEW m \in FlagMasks, NEW b \in {0, 1}
  PROVE  SetFlag(f, m, b) \in Byte
<1>1. f \in Int /\ 0 <= f /\ f <= 255 BY ByteBounds
<1>2. SetFlag(f, m, b) \in Int /\ 0 <= SetFlag(f, m, b) /\ SetFlag(f, m, b) <= 255
  BY <1>1, FlagMaskValues DEF SetFlag, BitOf
<1> QED BY <1>2, InByte

LEMMA SetFlagSets ==
  ASSUME NEW f \in Byte, NEW m \in FlagMasks, NEW b \in {0, 1}
  PROVE  BitOf(SetFlag(f, m, b), m) = b
<1>1. f \in Int /\ 0 <= f /\ f <= 255 BY ByteBounds
<1>2. CASE m = 128 BY <1>1, <1>2 DEF SetFlag, BitOf
<1>3. CASE m = 64  BY <1>1, <1>3 DEF SetFlag, BitOf
<1>4. CASE m = 16  BY <1>1, <1>4 DEF SetFlag, BitOf
<1>5. CASE m = 4   BY <1>1, <1>5 DEF SetFlag, BitOf
<1>6. CASE m = 1   BY <1>1, <1>6 DEF SetFlag, BitOf
<1> QED BY <1>2, <1>3, <1>4, <1>5, <1>6, FlagMaskValues

(* It keeps the other flags.                                               *)
LEMMA SetFlagKeeps ==
  ASSUME NEW f \in Byte, NEW m \in FlagMasks, NEW b \in {0, 1}, NEW n \in FlagMasks \ {m}
  PROVE  BitOf(SetFlag(f, m, b), n) = BitOf(f, n)
<1>1. f \in Int /\ 0 <= f /\ f <= 255 BY ByteBounds
<1>2. CASE m = 128 BY <1>1, <1>2, FlagMaskValues DEF SetFlag, BitOf
<1>3. CASE m = 64  BY <1>1, <1>3, FlagMaskValues DEF SetFlag, BitOf
<1>4. CASE m = 16  BY <1>1, <1>4, FlagMaskValues DEF SetFlag, BitOf
<1>5. CASE m = 4   BY <1>1, <1>5, FlagMaskValues DEF SetFlag, BitOf
<1>6. CASE m = 1   BY <1>1, <1>6, FlagMaskValues DEF SetFlag, BitOf
<1> QED BY <1>2, <1>3, <1>4, <1>5, <1>6, FlagMaskValues

(* The bitwise operations of two bytes yield bytes. *)
LEMMA BitwiseByte ==
  ASSUME NEW x \in Byte, NEW y \in Byte
  PROVE  And8(x, y) \in Byte /\ Or8(x, y) \in Byte /\ Xor8(x, y) \in Byte
<1>1. And8(x, y) \in Byte BY InByte DEF And8, Bitwise8, BitAnd
<1>2. Or8(x, y) \in Byte BY InByte DEF Or8, Bitwise8, BitOr
<1>3. Xor8(x, y) \in Byte BY InByte DEF Xor8, Bitwise8, BitXor
<1> QED BY <1>1, <1>2, <1>3

-----------------------------------------------------------------------------
(* Reading and writing a register. *)
LEMMA RegByte ==
  ASSUME NEW r \in RegFile, NEW n \in RegName
  PROVE  r[n] \in Byte /\ r[n] \in Int /\ 0 <= r[n] /\ r[n] <= 255
BY ByteBounds DEF RegFile
LEMMA SetReg ==
  ASSUME NEW r \in RegFile, NEW n \in RegName, NEW x \in Byte
  PROVE  [r EXCEPT ![n] = x] \in RegFile
BY DEF RegFile
LEMMA SetRegs ==
  ASSUME NEW r \in RegFile, NEW n \in RegName, NEW x \in Byte, NEW m \in RegName, NEW y \in Byte
  PROVE  [r EXCEPT ![n] = x, ![m] = y] \in RegFile
BY DEF RegFile
LEMMA Names == {"A", "F", "B", "C", "D", "E", "H", "L"} = RegName
BY DEF RegName

LEMMA ParityBit == ASSUME NEW x \in Byte PROVE EvenParity(x) \in {0, 1}
<1>1. x \in Int BY ByteBounds
<1>2. \A m \in {1, 2, 4, 8, 16, 32, 64, 128} : BitOf(x, m) \in Int
  BY <1>1, BitRange DEF Masks
<1> QED BY <1>2 DEF EvenParity

(* The flags S, Z and P of a byte fit F. *)
LEMMA SZPByte ==
  ASSUME NEW f \in Byte, NEW x \in Byte
  PROVE  set_SZP(f, x) \in Byte
<1>1. BitOf(x, 128) \in {0, 1} /\ Truth(x = 0) \in {0, 1}
  BY BitRange, ByteBounds DEF Masks, Truth
<1>2. {S_BIT, Z_BIT, P_BIT} \subseteq FlagMasks BY DEF FlagMasks
<1> QED BY <1>1, <1>2, ParityBit, SetFlagByte DEF set_SZP

LEMMA FlagBit == ASSUME NEW r \in RegFile, NEW m \in FlagMasks PROVE Flag(r, m) \in {0, 1}
<1>1. r["F"] \in Int BY RegByte, Names
<1> QED BY <1>1, BitRange, FlagMaskValues DEF Flag

LEMMA WithFlagType ==
  ASSUME NEW r \in RegFile, NEW m \in FlagMasks, NEW b \in {0, 1}
  PROVE  WithFlag(r, m, b) \in RegFile
<1>1. r["F"] \in Byte BY RegByte, Names
<1>2. SetFlag(r["F"], m, b) \in Byte BY <1>1, SetFlagByte
<1> QED BY <1>2, SetReg, Names DEF WithFlag

LEMMA CarryMask == C_BIT \in FlagMasks /\ A_BIT \in FlagMasks /\ S_BIT \in FlagMasks
BY DEF FlagMasks

(* Storing one flag, or the three of set_SZP, leaves the others.           *)
LEMMA SetFlagRest ==
  ASSUME NEW f \in Byte, NEW k \in FlagMasks, NEW b \in {0, 1}, NEW m \in FlagMasks \ {k}
  PROVE  SetFlag(f, k, b) \in Byte /\ BitOf(SetFlag(f, k, b), m) = BitOf(f, m)
BY SetFlagByte, SetFlagKeeps

LEMMA SZPFlags ==
  ASSUME NEW f \in Byte, NEW v \in Byte
  PROVE  /\ BitOf(set_SZP(f, v), A_BIT) = BitOf(f, A_BIT)
         /\ BitOf(set_SZP(f, v), C_BIT) = BitOf(f, C_BIT)
         /\ BitOf(set_SZP(f, v), S_BIT) = BitOf(v, 128)
         /\ BitOf(set_SZP(f, v), Z_BIT) = Truth(v = 0)
<1>1. BitOf(v, 128) \in {0, 1} /\ Truth(v = 0) \in {0, 1}
  BY BitRange, ByteBounds DEF Masks, Truth
<1>2. EvenParity(v) \in {0, 1} BY ParityBit
<1>3. /\ S_BIT \in FlagMasks /\ Z_BIT \in FlagMasks /\ P_BIT \in FlagMasks
      /\ \A m \in {A_BIT, C_BIT} :
           /\ m \in FlagMasks \ {S_BIT} /\ m \in FlagMasks \ {Z_BIT} /\ m \in FlagMasks \ {P_BIT}
      /\ S_BIT \in FlagMasks \ {Z_BIT} /\ S_BIT \in FlagMasks \ {P_BIT}
      /\ Z_BIT \in FlagMasks \ {P_BIT}
  BY DEF FlagMasks, S_BIT, Z_BIT, P_BIT, A_BIT, C_BIT
<1> DEFINE g == SetFlag(f, S_BIT, BitOf(v, 128))
           z == Truth(v = 0)
           h == SetFlag(g, Z_BIT, z)
           k == SetFlag(h, P_BIT, EvenParity(v))
<1>4. set_SZP(f, v) = k BY DEF set_SZP
<1>5. /\ g \in Byte /\ BitOf(g, S_BIT) = BitOf(v, 128)
      /\ \A m \in {A_BIT, C_BIT} : BitOf(g, m) = BitOf(f, m)
  BY <1>1, <1>3, SetFlagRest, SetFlagSets
<1> HIDE DEF g, z
<1>6. /\ h \in Byte /\ BitOf(h, S_BIT) = BitOf(g, S_BIT) /\ BitOf(h, Z_BIT) = z
      /\ \A m \in {A_BIT, C_BIT} : BitOf(h, m) = BitOf(g, m)
  <2>1. z \in {0, 1} BY <1>1 DEF z
  <2>2. h \in Byte /\ BitOf(h, Z_BIT) = z BY <2>1, <1>3, <1>5, SetFlagByte, SetFlagSets
  <2>3. BitOf(h, S_BIT) = BitOf(g, S_BIT) BY <2>1, <1>3, <1>5, SetFlagRest
  <2>4. \A m \in {A_BIT, C_BIT} : BitOf(h, m) = BitOf(g, m) BY <2>1, <1>3, <1>5, SetFlagRest
  <2> QED BY <2>2, <2>3, <2>4
<1> HIDE DEF h
<1>7. \A m \in {A_BIT, C_BIT, S_BIT, Z_BIT} : BitOf(k, m) = BitOf(h, m)
  BY <1>2, <1>3, <1>6, SetFlagRest
<1> QED BY <1>4, <1>5, <1>6, <1>7 DEF z

-----------------------------------------------------------------------------
(* Addition and what is built from it. *)

LEMMA ADDType == ASSUME NEW r \in RegFile, NEW v \in Byte PROVE ADD(r, v) \in RegFile
<1> DEFINE res == r["A"] + v
           f   == SetFlag(set_SZP(r["F"], U8(res)), C_BIT, BitOf(res, 256))
           g   == SetFlag(f, A_BIT, BitAnd(BitOf(res, 16), BitOf(r["A"], 8)))
<1>1. res \in Int BY RegByte, ByteBounds, Names
<1>2. U8(res) \in Byte BY <1>1, U8Byte
<1>3. BitOf(res, 256) \in {0, 1} BY <1>1, BitRange DEF Masks
<1>4. f \in Byte
  <2>1. set_SZP(r["F"], U8(res)) \in Byte BY <1>2, SZPByte, RegByte, Names
  <2> QED BY <2>1, <1>3, SetFlagByte, CarryMask
<1>5. g \in Byte BY <1>4, SetFlagByte, CarryMask DEF BitAnd
<1>6. ADD(r, v) = [r EXCEPT !["A"] = U8(res), !["F"] = g] BY DEF ADD
<1> HIDE DEF res, f, g
<1>7. [r EXCEPT !["A"] = U8(res), !["F"] = g] \in RegFile BY <1>2, <1>5, SetRegs, Names
<1> QED BY <1>6, <1>7

LEMMA SUBType == ASSUME NEW r \in RegFile, NEW v \in Byte PROVE SUB(r, v) \in RegFile
<1>1. U8(-v) \in Byte BY ByteBounds, U8Byte
<1> QED BY <1>1, ADDType DEF SUB

LEMMA ADCType == ASSUME NEW r \in RegFile, NEW v \in Byte PROVE ADC(r, v) \in RegFile
<1>1. v + Flag(r, C_BIT) \in Int BY ByteBounds, FlagBit, CarryMask
<1>2. U8(v + Flag(r, C_BIT)) \in Byte BY <1>1, U8Byte
<1> QED BY <1>2, ADDType DEF ADC

LEMMA SBBType == ASSUME NEW r \in RegFile, NEW v \in Byte PROVE SBB(r, v) \in RegFile
<1>1. -v - Flag(r, C_BIT) \in Int BY ByteBounds, FlagBit, CarryMask
<1>2. U8(-v - Flag(r, C_BIT)) \in Byte BY <1>1, U8Byte
<1> QED BY <1>2, ADDType DEF SBB

LEMMA DAAType == ASSUME NEW r \in RegFile PROVE DAA(r) \in RegFile
<1>1. 6 \in Byte /\ 96 \in Byte BY InByte
<1>2. DaaLow(r) \in RegFile BY <1>1, ADDType DEF DaaLow
<1>3. ASSUME NEW s \in RegFile PROVE DaaHigh(s) \in RegFile
  BY <1>1, ADDType DEF DaaHigh
<1> QED BY <1>2, <1>3 DEF DAA

(* The compared accumulator is put back. *)
LEMMA CMPType == ASSUME NEW r \in RegFile, NEW v \in Byte PROVE CMP(r, v) \in RegFile
<1> DEFINE d == [SUB(r, v) EXCEPT !["A"] = r["A"]]
<1>1. d \in RegFile BY SUBType, SetReg, RegByte, Names
<1>2. CMP(r, v) = IF Flag(d, S_BIT) = 1 THEN WithFlag(d, C_BIT, 1 - Flag(d, C_BIT)) ELSE d
  BY DEF CMP
<1> HIDE DEF d
<1>3. 1 - Flag(d, C_BIT) \in {0, 1} BY <1>1, FlagBit, CarryMask
<1> QED BY <1>1, <1>2, <1>3, WithFlagType, CarryMask

-----------------------------------------------------------------------------
(* INR and DCR. *)
LEMMA IncrementedType ==
  ASSUME NEW f \in Byte, NEW v \in Byte
  PROVE  Incremented(v) \in Byte /\ IncrementedF(f, v) \in Byte
<1>1. Incremented(v) \in Byte BY ByteBounds, U8Byte DEF Incremented
<1> QED BY <1>1, SZPByte, SetFlagByte, CarryMask DEF IncrementedF, BitAnd
LEMMA DecrementedType ==
  ASSUME NEW f \in Byte, NEW v \in Byte
  PROVE  Decremented(v) \in Byte /\ DecrementedF(f, v) \in Byte
<1>1. Decremented(v) \in Byte BY ByteBounds, U8Byte DEF Decremented
<1> QED BY <1>1, SZPByte, SetFlagByte, CarryMask DEF DecrementedF, BitAnd

-----------------------------------------------------------------------------
(* Rotations, complements, logic and the 16-bit addition. *)

LEMMA RotationType ==
  ASSUME NEW r \in RegFile
  PROVE  RLC(r) \in RegFile /\ RAL(r) \in RegFile /\ RRC(r) \in RegFile /\ RAR(r) \in RegFile
<1> DEFINE a == r["A"]
<1>1. a \in Int /\ 0 <= a /\ a <= 255 BY RegByte, Names
<1> HIDE DEF a
<1>2. BitOf(a, 128) \in {0, 1} /\ BitOf(a, 1) \in {0, 1} BY <1>1, BitRange DEF Masks
<1>3. Flag(r, C_BIT) \in {0, 1} BY FlagBit, CarryMask
<1>4. ASSUME NEW b \in {0, 1}
      PROVE  U8(2 * a + b) \in Byte /\ a \div 2 + 128 * b \in Byte
  <2>1. U8(2 * a + b) \in Byte BY <1>1, U8Byte
  <2>2. a \div 2 + 128 * b \in Byte BY <1>1, InByte
  <2> QED BY <2>1, <2>2
<1>5. ASSUME NEW b \in {0, 1}, NEW x \in Byte
      PROVE  [WithFlag(r, C_BIT, b) EXCEPT !["A"] = x] \in RegFile
  BY WithFlagType, SetReg, CarryMask, Names
<1>6. RLC(r) \in RegFile BY <1>2, <1>4, <1>5 DEF RLC, a
<1>7. RAL(r) \in RegFile BY <1>2, <1>3, <1>4, <1>5 DEF RAL, a
<1>8. RRC(r) \in RegFile BY <1>2, <1>4, <1>5 DEF RRC, a
<1>9. RAR(r) \in RegFile BY <1>2, <1>3, <1>4, <1>5 DEF RAR, a
<1> QED BY <1>6, <1>7, <1>8, <1>9

LEMMA ComplementType ==
  ASSUME NEW r \in RegFile
  PROVE  CMA(r) \in RegFile /\ CMC(r) \in RegFile /\ STC(r) \in RegFile
<1>1. 255 - r["A"] \in Byte BY RegByte, InByte, Names
<1>2. CMA(r) \in RegFile BY <1>1, SetReg, Names DEF CMA
<1>3. 1 - Flag(r, C_BIT) \in {0, 1} BY FlagBit, CarryMask
<1> QED BY <1>2, <1>3, WithFlagType, CarryMask DEF CMC, STC

LEMMA LogicalType == ASSUME NEW r \in RegFile, NEW v \in Byte PROVE Logical(r, v) \in RegFile
<1>1. SetFlag(set_SZP(r["F"], v), C_BIT, 0) \in Byte
  BY SZPByte, RegByte, Names, SetFlagByte, CarryMask
<1> QED BY <1>1, SetRegs, Names DEF Logical

LEMMA DADType ==
  ASSUME NEW r \in RegFile, NEW v \in Short
  PROVE  DAD(r, v) \in RegFile
<1> DEFINE res == HL(r) + v
<1>1. res \in Int BY RegByte, Names, WordShort, ShortBounds DEF HL
<1>2. DAD(r, v) = [WithFlag(r, C_BIT, BitOf(res, 65536))
                     EXCEPT !["H"] = Hi(U16(res)), !["L"] = Lo(U16(res))]
  BY DEF DAD
<1> HIDE DEF res
<1>3. WithFlag(r, C_BIT, BitOf(res, 65536)) \in RegFile
  BY <1>1, BitRange, WithFlagType, CarryMask DEF Masks
<1>4. Hi(U16(res)) \in Byte /\ Lo(U16(res)) \in Byte BY <1>1, U16Short, HalfBytes
<1> QED BY <1>2, <1>3, <1>4, SetRegs, Names

-----------------------------------------------------------------------------
(* The two groups of instructions on the accumulator. *)

LEMMA RotatedType == ASSUME NEW op, NEW r \in RegFile PROVE Rotated(op, r) \in RegFile
BY RotationType, ComplementType, DAAType DEF Rotated

LEMMA ComputedType ==
  ASSUME NEW op, NEW r \in RegFile, NEW v \in Byte
  PROVE  Computed(op, r, v) \in RegFile
<1>1. r["A"] \in Byte BY RegByte, Names
<1>2. ANA(r, v) \in RegFile /\ XRA(r, v) \in RegFile /\ ORA(r, v) \in RegFile
  BY <1>1, BitwiseByte, LogicalType DEF ANA, XRA, ORA
<1> QED BY <1>2, ADDType, ADCType, SUBType, SBBType, CMPType DEF Computed
=============================================================================
