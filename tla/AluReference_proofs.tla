------------------------ MODULE AluReference_proofs ------------------------
(***************************************************************************)
(* The arithmetic helpers compute sums, for every register file and every  *)
(* operand.                                                                *)
(***************************************************************************)
EXTENDS AluReference, Alu8080_proofs

(* The registers stay bytes under every sequence of operations.            *)
RegsType == regs \in RegFile /\ operand \in Byte
LEMMA RegsTyped == Spec => []RegsType
<1>1. Init => RegsType
  BY OperandsAssumption, InByte DEF Init, RegsType, RegFile
<1>2. RegsType /\ [Next]_<<regs, operand>> => RegsType'
  <2> SUFFICES ASSUME RegsType, [Next]_<<regs, operand>> PROVE RegsType' OBVIOUS
  <2>1. ASSUME NEW kind \in 0 .. 7, Operate(kind) PROVE RegsType'
    BY <2>1, ComputedType DEF Operate, RegsType
  <2>2. ASSUME NEW op \in {7, 15, 23, 31, 55, 63}, Shift(op) PROVE RegsType'
    BY <2>2, RotatedType DEF Shift, RegsType
  <2>3. CASE UNCHANGED <<regs, operand>> BY <2>3 DEF RegsType
  <2> QED BY <2>1, <2>2, <2>3 DEF Next
<1> QED BY <1>1, <1>2, PTL DEF Spec

-----------------------------------------------------------------------------
(* What cpu8080_ADD leaves in A and in the carry.                          *)
LEMMA ADDValue ==
  ASSUME NEW r \in RegFile, NEW v \in Byte
  PROVE  /\ ADD(r, v)["A"] = U8(r["A"] + v)
         /\ Flag(ADD(r, v), C_BIT) = BitOf(r["A"] + v, 256)
         /\ \A n \in RegName \ {"A", "F"} : ADD(r, v)[n] = r[n]
<1> DEFINE res == r["A"] + v
           f   == SetFlag(set_SZP(r["F"], U8(res)), C_BIT, BitOf(res, 256))
           a   == BitAnd(BitOf(res, 16), BitOf(r["A"], 8))
<1>1. res \in Int BY RegByte, ByteBounds, Names
<1>2. BitOf(res, 256) \in {0, 1} /\ a \in {0, 1} BY <1>1, BitRange DEF Masks, BitAnd
<1>3. set_SZP(r["F"], U8(res)) \in Byte BY <1>1, U8Byte, SZPByte, RegByte, Names
<1>4. f \in Byte /\ BitOf(f, C_BIT) = BitOf(res, 256)
  BY <1>2, <1>3, SetFlagByte, SetFlagSets, CarryMask
<1>5. A_BIT # C_BIT BY DEF A_BIT, C_BIT
<1>6. ADD(r, v) = [r EXCEPT !["A"] = U8(res), !["F"] = SetFlag(f, A_BIT, a)] BY DEF ADD
<1> HIDE DEF f, a, res
<1>7. BitOf(SetFlag(f, A_BIT, a), C_BIT) = BitOf(res, 256)
  BY <1>2, <1>4, <1>5, SetFlagKeeps, CarryMask
<1>8. DOMAIN r = RegName BY DEF RegFile
<1> QED BY <1>6, <1>7, <1>8, Names DEF Flag, res

(* The nine-bit sum. *)
LEMMA AddSum ==
  ASSUME NEW r \in RegFile, NEW v \in Byte
  PROVE  LET s == ADD(r, v)
         IN  /\ 256 * Flag(s, C_BIT) + s["A"] = r["A"] + v
             /\ s = [r EXCEPT !["A"] = s["A"], !["F"] = s["F"]]
<1> DEFINE s == ADD(r, v)
<1>1. s["A"] = U8(r["A"] + v) /\ Flag(s, C_BIT) = BitOf(r["A"] + v, 256) BY ADDValue
<1>2. r["A"] \in Int /\ 0 <= r["A"] /\ r["A"] <= 255 BY RegByte, Names
<1>3. v \in Int /\ 0 <= v /\ v <= 255 BY ByteBounds
<1>4. 256 * Flag(s, C_BIT) + s["A"] = r["A"] + v BY <1>1, <1>2, <1>3 DEF U8, BitOf
<1>5. s \in RegFile BY ADDType
<1>6. \A n \in RegName \ {"A", "F"} : s[n] = r[n] BY ADDValue
<1> HIDE DEF s
<1>7. s = [r EXCEPT !["A"] = s["A"], !["F"] = s["F"]] BY <1>5, <1>6 DEF RegFile
<1> QED BY <1>4, <1>7 DEF s

(* Two additions of operands that cancel modulo 256 restore A.             *)
LEMMA AddCancels ==
  ASSUME NEW r \in RegFile, NEW v \in Byte, NEW w \in Byte, (v + w) % 256 = 0
  PROVE  ADD(ADD(r, v), w)["A"] = r["A"]
<1>1. ADD(r, v)["A"] = U8(r["A"] + v) /\ ADD(r, v) \in RegFile BY ADDValue, ADDType
<1>2. ADD(ADD(r, v), w)["A"] = U8(U8(r["A"] + v) + w) BY <1>1, ADDValue
<1>3. r["A"] \in Int /\ 0 <= r["A"] /\ r["A"] <= 255 BY RegByte, Names
<1>4. v \in Int /\ 0 <= v /\ v <= 255 /\ w \in Int /\ 0 <= w /\ w <= 255 BY ByteBounds
<1> QED BY <1>2, <1>3, <1>4 DEF U8

(* The carry of a subtraction that adds the complement. *)
LEMMA SUBCarry ==
  ASSUME NEW r \in RegFile, NEW v \in Byte
  PROVE  Flag(SUB(r, v), C_BIT) = Truth(v # 0 /\ v <= r["A"])
<1>1. r["A"] \in Int /\ 0 <= r["A"] /\ r["A"] <= 255 BY RegByte, Names
<1>2. v \in Int /\ 0 <= v /\ v <= 255 BY ByteBounds
<1>3. U8(-v) \in Byte BY <1>2, U8Byte
<1>4. Flag(SUB(r, v), C_BIT) = BitOf(r["A"] + U8(-v), 256) BY <1>3, ADDValue DEF SUB
<1>5. U8(-v) = IF v = 0 THEN 0 ELSE 256 - v BY <1>2 DEF U8
<1>6. BitOf(r["A"] + U8(-v), 256) = IF v # 0 /\ v <= r["A"] THEN 1 ELSE 0
  BY <1>1, <1>2, <1>5 DEF BitOf
<1> QED BY <1>4, <1>6 DEF Truth

-----------------------------------------------------------------------------
(* cpu8080_ADD gives the nine-bit sum in the carry and A. *)
THEOREM AddSums == Spec => []AddIsSum
<1>1. RegsType => AddIsSum BY AddSum DEF RegsType, AddIsSum
<1> QED BY <1>1, RegsTyped, PTL

(* cpu8080_SUB and cpu8080_SBB are right inverses of cpu8080_ADD and       *)
(* cpu8080_ADC on the accumulator, although the operand that they add      *)
(* wraps in a byte.                                                        *)
THEOREM SubtractionInverts == Spec => []SubUndoesAdd
<1>1. ASSUME NEW r \in RegFile, NEW v \in Byte
      PROVE  SUB(ADD(r, v), v)["A"] = r["A"]
  <2>1. U8(-v) \in Byte /\ (v + U8(-v)) % 256 = 0 BY ByteBounds, U8Byte DEF U8
  <2> QED BY <2>1, AddCancels DEF SUB
<1>2. ASSUME NEW r \in RegFile, NEW v \in Byte
      PROVE  SBB(WithFlag(ADC(r, v), C_BIT, Flag(r, C_BIT)), v)["A"] = r["A"]
  <2> DEFINE c == Flag(r, C_BIT)
             s == ADC(r, v)
             t == WithFlag(s, C_BIT, c)
  <2>1. c \in {0, 1} BY FlagBit, CarryMask
  <2>2. s \in RegFile BY ADCType
  <2>3. s["F"] \in Byte BY <2>2, RegByte, Names
  <2> HIDE DEF c
  <2>4. s = ADD(r, U8(v + c)) BY DEF ADC, c
  <2> HIDE DEF s
  <2>5. t \in RegFile BY <2>1, <2>2, WithFlagType, CarryMask
  <2>6. t["A"] = s["A"] /\ Flag(t, C_BIT) = c
    BY <2>1, <2>2, <2>3, SetFlagSets, CarryMask, Names DEF WithFlag, Flag, RegFile
  <2> HIDE DEF t
  <2>7. v \in Int /\ 0 <= v /\ v <= 255 BY ByteBounds
  <2>8. U8(v + c) \in Byte /\ U8(-v - c) \in Byte BY <2>1, <2>7, U8Byte
  <2>9. s["A"] = U8(r["A"] + U8(v + c)) BY <2>4, <2>8, ADDValue
  <2>10. SBB(t, v)["A"] = U8(t["A"] + U8(-v - c)) BY <2>5, <2>6, <2>8, ADDValue DEF SBB
  <2>11. r["A"] \in Int /\ 0 <= r["A"] /\ r["A"] <= 255 BY RegByte, Names
  <2>12. SBB(t, v)["A"] = r["A"]
    BY <2>1, <2>6, <2>7, <2>9, <2>10, <2>11 DEF U8
  <2> QED BY <2>12 DEF t, s, c
<1>3. ASSUME NEW r \in RegFile, NEW v \in Byte
      PROVE  Flag(SUB(r, v), C_BIT) = 1 <=> v # 0 /\ v <= r["A"]
  BY SUBCarry DEF Truth
<1>4. RegsType => SubUndoesAdd BY <1>1, <1>2, <1>3 DEF RegsType, SubUndoesAdd
<1> QED BY <1>4, RegsTyped, PTL

(* cpu8080_DAD gives the 17-bit sum in the carry and HL.                   *)
LEMMA DadSum ==
  ASSUME NEW r \in RegFile, NEW w \in Short
  PROVE  SumsTo(r, w)
<1> DEFINE res == HL(r) + w
           q   == WithFlag(r, C_BIT, BitOf(res, 65536))
<1>1. HL(r) \in Int /\ 0 <= HL(r) /\ HL(r) <= 65535
  BY RegByte, WordShort, ShortBounds, Names DEF HL
<1>2. w \in Int /\ 0 <= w /\ w <= 65535 BY ShortBounds
<1>3. res \in Int /\ 0 <= res /\ res < 131072 BY <1>1, <1>2
<1>4. DAD(r, w) = [q EXCEPT !["H"] = Hi(U16(res)), !["L"] = Lo(U16(res))] BY DEF DAD
<1>5. r["F"] \in Byte BY RegByte, Names
<1> HIDE DEF res
<1>6. BitOf(res, 65536) \in {0, 1} BY <1>3, BitRange DEF Masks
<1>7. q \in RegFile /\ q["F"] = SetFlag(r["F"], C_BIT, BitOf(res, 65536))
  BY <1>6, WithFlagType, CarryMask, Names DEF WithFlag, RegFile
<1> HIDE DEF q
<1>8. DOMAIN q = RegName BY <1>7 DEF RegFile
<1>9. HL(DAD(r, w)) = Word(Hi(U16(res)), Lo(U16(res))) BY <1>4, <1>8, Names DEF HL
<1>10. HL(DAD(r, w)) = U16(res) BY <1>3, <1>9, U16Short, HalfBytes
<1>11. DAD(r, w)["F"] = q["F"] BY <1>4, <1>8, Names
<1>12. Flag(DAD(r, w), C_BIT) = BitOf(res, 65536)
  BY <1>5, <1>6, <1>7, <1>11, SetFlagSets, CarryMask DEF Flag
<1>13. 65536 * BitOf(res, 65536) + U16(res) = res BY <1>3 DEF BitOf, U16
<1>14. 65536 * Flag(DAD(r, w), C_BIT) + HL(DAD(r, w)) = HL(r) + w
  BY <1>10, <1>12, <1>13 DEF res
<1>15. DAD(r, w)["H"] = Hi(U16(res)) /\ DAD(r, w)["L"] = Lo(U16(res)) BY <1>4, <1>8, Names
<1>16. q = WithFlag(r, C_BIT, Flag(DAD(r, w), C_BIT)) BY <1>12 DEF q
<1>17. DAD(r, w) = [WithFlag(r, C_BIT, Flag(DAD(r, w), C_BIT))
                      EXCEPT !["H"] = DAD(r, w)["H"], !["L"] = DAD(r, w)["L"]]
  BY <1>4, <1>15, <1>16
<1> QED BY <1>14, <1>17 DEF SumsTo

(* cpu8080_DAD adds any two pairs: the operands that the definition ranges *)
(* over are any set of bytes, all of them included.                        *)
THEOREM DadSums == Spec => []DadIsSum
<1>1. ASSUME RegsType, NEW h \in Operands, NEW l \in Operands
      PROVE  SumsTo([regs EXCEPT !["H"] = h, !["L"] = l], Word(regs["A"], operand))
  <2>1. regs["A"] \in Byte BY <1>1, RegByte, Names DEF RegsType
  <2>2. [regs EXCEPT !["H"] = h, !["L"] = l] \in RegFile
    BY <1>1, OperandsAssumption, SetRegs, Names DEF RegsType
  <2>3. Word(regs["A"], operand) \in Short BY <1>1, <2>1, WordShort DEF RegsType
  <2> QED BY <2>2, <2>3, DadSum
<1>2. RegsType => DadIsSum BY <1>1 DEF DadIsSum
<1> QED BY <1>2, RegsTyped, PTL

-----------------------------------------------------------------------------
(* The flags that an addition leaves. *)
LEMMA ADDFlags ==
  ASSUME NEW r \in RegFile, NEW v \in Byte
  PROVE  /\ Flag(ADD(r, v), S_BIT) = BitOf(U8(r["A"] + v), 128)
         /\ Flag(ADD(r, v), Z_BIT) = Truth(U8(r["A"] + v) = 0)
<1> DEFINE w == U8(r["A"] + v)
           e == set_SZP(r["F"], w)
           c == BitOf(r["A"] + v, 256)
           f == SetFlag(e, C_BIT, c)
           a == BitAnd(BitOf(r["A"] + v, 16), BitOf(r["A"], 8))
           g == SetFlag(f, A_BIT, a)
<1>1. r["A"] + v \in Int /\ w \in Byte BY RegByte, ByteBounds, U8Byte, Names
<1>2. c \in {0, 1} /\ a \in {0, 1} BY <1>1 DEF BitOf, BitAnd
<1>3. e \in Byte /\ BitOf(e, S_BIT) = BitOf(w, 128) /\ BitOf(e, Z_BIT) = Truth(w = 0)
  <2>1. r["F"] \in Byte BY RegByte, Names
  <2> HIDE DEF w
  <2> QED BY <1>1, <2>1, SZPByte, SZPFlags
<1>4. ADD(r, v)["F"] = g BY Names DEF ADD, RegFile
<1>5. \A m \in {S_BIT, Z_BIT} : m \in FlagMasks \ {C_BIT} /\ m \in FlagMasks \ {A_BIT}
  BY DEF FlagMasks, S_BIT, Z_BIT, C_BIT, A_BIT
<1> HIDE DEF w, e, c, a
<1>6. f \in Byte /\ \A m \in {S_BIT, Z_BIT} : BitOf(f, m) = BitOf(e, m)
  BY <1>2, <1>3, <1>5, SetFlagRest, CarryMask
<1> HIDE DEF f
<1>7. \A m \in {S_BIT, Z_BIT} : BitOf(g, m) = BitOf(f, m)
  BY <1>2, <1>5, <1>6, SetFlagRest, CarryMask
<1> HIDE DEF g
<1> QED BY <1>3, <1>4, <1>6, <1>7 DEF Flag, w

(* cpu8080_CMP keeps A, shows equality in Z and, for operands less than    *)
(* 128 apart, their order in S.                                            *)
LEMMA CMPOrders ==
  ASSUME NEW r \in RegFile, NEW v \in Byte
  PROVE  LET c == CMP(r, v)
             d == r["A"] - v
         IN  /\ c["A"] = r["A"]
             /\ Flag(c, Z_BIT) = 1 <=> d = 0
             /\ d \in -128 .. 127 => (Flag(c, S_BIT) = 1 <=> d < 0)
             /\ Flag(c, C_BIT) = 1 <=> (v # 0 <=> d \in -128 .. 127)
<1> DEFINE s == SUB(r, v)
           d == [s EXCEPT !["A"] = r["A"]]
           c == CMP(r, v)
           w == U8(r["A"] - v)
<1>1. r["A"] \in Int /\ 0 <= r["A"] /\ r["A"] <= 255 /\ r["A"] \in Byte BY RegByte, Names
<1>2. v \in Int /\ 0 <= v /\ v <= 255 BY ByteBounds
<1>3. U8(-v) \in Byte BY <1>2, U8Byte
<1>4. U8(r["A"] + U8(-v)) = w BY <1>1, <1>2 DEF U8
<1>5. Flag(s, S_BIT) = BitOf(w, 128) /\ Flag(s, Z_BIT) = Truth(w = 0)
  BY <1>3, <1>4, ADDFlags DEF SUB
<1>6. s \in RegFile BY SUBType
<1>7. c = IF Flag(d, S_BIT) = 1 THEN WithFlag(d, C_BIT, 1 - Flag(d, C_BIT)) ELSE d
  BY DEF CMP
<1> HIDE DEF s, c
<1>8. d \in RegFile /\ d["A"] = r["A"] /\ d["F"] = s["F"] BY <1>1, <1>6, SetReg, Names DEF RegFile
<1> HIDE DEF d
<1>9. Flag(d, C_BIT) \in {0, 1} /\ d["F"] \in Byte BY <1>8, FlagBit, CarryMask, RegByte, Names
<1>10. /\ WithFlag(d, C_BIT, 1 - Flag(d, C_BIT))["A"] = d["A"]
       /\ WithFlag(d, C_BIT, 1 - Flag(d, C_BIT))["F"] = SetFlag(d["F"], C_BIT, 1 - Flag(d, C_BIT))
  BY <1>8, Names DEF WithFlag, RegFile
<1>11. \A m \in {S_BIT, Z_BIT} : m \in FlagMasks \ {C_BIT}
  BY DEF FlagMasks, S_BIT, Z_BIT, C_BIT
<1>12. 1 - Flag(d, C_BIT) \in {0, 1} BY <1>9
<1>13. \A m \in {S_BIT, Z_BIT} :
         BitOf(SetFlag(d["F"], C_BIT, 1 - Flag(d, C_BIT)), m) = BitOf(d["F"], m)
  BY <1>9, <1>11, <1>12, SetFlagKeeps, CarryMask
<1>14. c["A"] = r["A"] /\ Flag(c, S_BIT) = BitOf(w, 128) /\ Flag(c, Z_BIT) = Truth(w = 0)
  BY <1>5, <1>7, <1>8, <1>10, <1>13 DEF Flag
<1>15. w = 0 <=> r["A"] - v = 0 BY <1>1, <1>2 DEF U8
<1>16. r["A"] - v \in -128 .. 127 => (BitOf(w, 128) = 1 <=> r["A"] - v < 0)
  BY <1>1, <1>2 DEF U8, BitOf
<1>17. Flag(d, C_BIT) = Truth(v # 0 /\ v <= r["A"])
  BY <1>8, SUBCarry DEF s, Flag
<1>18. Flag(d, S_BIT) = BitOf(w, 128) BY <1>5, <1>8 DEF Flag
<1>19. Flag(c, C_BIT) = IF BitOf(w, 128) = 1 THEN 1 - Flag(d, C_BIT) ELSE Flag(d, C_BIT)
  <2>1. BitOf(SetFlag(d["F"], C_BIT, 1 - Flag(d, C_BIT)), C_BIT) = 1 - Flag(d, C_BIT)
    BY <1>9, <1>12, SetFlagSets, CarryMask
  <2> QED BY <1>7, <1>10, <1>18, <2>1 DEF Flag
<1>20. BitOf(w, 128) = IF r["A"] - v \in 128 .. 255 \/ r["A"] - v \in -128 .. -1 THEN 1 ELSE 0
  BY <1>1, <1>2 DEF U8, BitOf
<1>21. Flag(c, C_BIT) = 1 <=> (v # 0 <=> r["A"] - v \in -128 .. 127)
  BY ONLY <1>1, <1>2, <1>17, <1>19, <1>20 DEF Truth
<1> QED BY <1>14, <1>15, <1>16, <1>21 DEF c, Truth

(* cpu8080_CMP orders its operands as signed differences do.               *)
THEOREM ComparisonOrders == Spec => []CmpCompares
<1>1. RegsType => CmpCompares BY CMPOrders DEF RegsType, CmpCompares
<1> QED BY <1>1, RegsTyped, PTL

-----------------------------------------------------------------------------
(* One place to the left and one to the right, through a bit on the side.  *)
LEMMA PlaceLeft ==
  ASSUME NEW a \in Byte, NEW c \in {0, 1}, NEW v, v = U8(2 * a + c)
  PROVE  v \in Byte /\ v \div 2 + 128 * BitOf(a, 128) = a /\ BitOf(v, 1) = c
<1>1. a \in Int /\ 0 <= a /\ a <= 255 BY ByteBounds
<1>2. v \in Byte BY <1>1, U8Byte
<1>3. v \div 2 + 128 * BitOf(a, 128) = a /\ BitOf(v, 1) = c BY <1>1 DEF U8, BitOf
<1> QED BY <1>2, <1>3
LEMMA PlaceRight ==
  ASSUME NEW a \in Byte, NEW c \in {0, 1}, NEW v, v = a \div 2 + 128 * c
  PROVE  v \in Byte /\ U8(2 * v + BitOf(a, 1)) = a /\ BitOf(v, 128) = c
<1>1. a \in Int /\ 0 <= a /\ a <= 255 BY ByteBounds
<1>2. v \in Byte BY <1>1, InByte
<1>3. U8(2 * v + BitOf(a, 1)) = a BY <1>1 DEF U8, BitOf
<1>4. BitOf(v, 128) = c BY <1>1 DEF BitOf
<1> QED BY <1>2, <1>3, <1>4

(* Putting the old carry back restores F. *)
LEMMA CarryRestored ==
  ASSUME NEW f \in Byte, NEW b \in {0, 1}
  PROVE  SetFlag(SetFlag(f, C_BIT, b), C_BIT, BitOf(f, C_BIT)) = f
<1>1. f \in Int BY ByteBounds
<1> QED BY <1>1 DEF SetFlag, BitOf, C_BIT

(* The shape that the four rotations share: a carry and an accumulator.    *)
Shifted(r, c, v) == [WithFlag(r, C_BIT, c) EXCEPT !["A"] = v]
LEMMA ShiftParts ==
  ASSUME NEW r \in RegFile, NEW c \in {0, 1}, NEW v \in Byte
  PROVE  /\ Shifted(r, c, v) \in RegFile /\ Shifted(r, c, v)["A"] = v
         /\ Flag(Shifted(r, c, v), C_BIT) = c
<1> DEFINE q == Shifted(r, c, v)
<1>1. WithFlag(r, C_BIT, c) \in RegFile BY WithFlagType, CarryMask
<1>2. q \in RegFile BY <1>1, SetReg, Names DEF Shifted
<1>3. q["A"] = v /\ q["F"] = SetFlag(r["F"], C_BIT, c)
  BY <1>1, Names DEF WithFlag, RegFile, Shifted
<1>4. Flag(q, C_BIT) = c BY <1>3, SetFlagSets, RegByte, CarryMask, Names DEF Flag
<1> QED BY <1>2, <1>3, <1>4

(* Shifting back with the carry that was there restores everything.        *)
LEMMA ShiftBack ==
  ASSUME NEW r \in RegFile, NEW b \in {0, 1}, NEW v \in Byte
  PROVE  Shifted(Shifted(r, b, v), Flag(r, C_BIT), r["A"]) = r
<1> DEFINE f == r["F"]
           g == SetFlag(f, C_BIT, b)
           h == SetFlag(g, C_BIT, Flag(r, C_BIT))
<1>1. h = f BY RegByte, CarryRestored, Names DEF Flag
<1>2. Shifted(r, b, v) = [r EXCEPT !["F"] = g, !["A"] = v] BY Names DEF Shifted, WithFlag, RegFile
<1> HIDE DEF g
<1>3. Shifted(Shifted(r, b, v), Flag(r, C_BIT), r["A"]) = [r EXCEPT !["F"] = h, !["A"] = r["A"]]
  <2> DEFINE c == Flag(r, C_BIT)
  <2> HIDE DEF c
  <2>1. Shifted(Shifted(r, b, v), c, r["A"]) = [r EXCEPT !["F"] = SetFlag(g, C_BIT, c), !["A"] = r["A"]]
    BY <1>2, Names DEF Shifted, WithFlag, RegFile
  <2> QED BY <2>1 DEF c
<1> HIDE DEF h
<1> QED BY <1>1, <1>3, Names DEF RegFile

(* The four helpers as shifts. *)
LEMMA ShiftForms ==
  ASSUME NEW r \in RegFile
  PROVE  /\ RAL(r) = Shifted(r, BitOf(r["A"], 128), U8(2 * r["A"] + Flag(r, C_BIT)))
         /\ RAR(r) = Shifted(r, BitOf(r["A"], 1), r["A"] \div 2 + 128 * Flag(r, C_BIT))
         /\ RLC(r) = Shifted(r, BitOf(r["A"], 128), U8(2 * r["A"] + BitOf(r["A"], 128)))
         /\ RRC(r) = Shifted(r, BitOf(r["A"], 1), r["A"] \div 2 + 128 * BitOf(r["A"], 1))
BY DEF RAL, RAR, RLC, RRC, Shifted

LEMMA RotationsInvert ==
  ASSUME NEW r \in RegFile
  PROVE  /\ RAR(RAL(r)) = r /\ RAL(RAR(r)) = r
         /\ RRC(RLC(r))["A"] = r["A"] /\ RLC(RRC(r))["A"] = r["A"]
<1> DEFINE a == r["A"]
           c == Flag(r, C_BIT)
           h == BitOf(a, 128)
           l == BitOf(a, 1)
<1>1. a \in Byte /\ c \in {0, 1} /\ h \in {0, 1} /\ l \in {0, 1}
  BY RegByte, FlagBit, CarryMask, BitRange, Names DEF Masks
<1> HIDE DEF c
<1>2. ASSUME NEW b \in {h, l}, NEW v \in Byte, NEW q, q = Shifted(r, b, v)
      PROVE  q \in RegFile /\ q["A"] = v /\ Flag(q, C_BIT) = b /\ Shifted(q, c, a) = r
  <2>1. b \in {0, 1} BY <1>1
  <2> HIDE DEF h, l
  <2> QED BY <1>2, <2>1, ShiftParts, ShiftBack DEF c
<1>3. ASSUME NEW x \in {0, 1}, NEW v, v = U8(2 * a + x)
      PROVE  v \in Byte /\ v \div 2 + 128 * h = a /\ BitOf(v, 1) = x
  <2>1. a \in Byte BY <1>1
  <2>2. x \in {0, 1} /\ v = U8(2 * a + x) BY <1>3
  <2> HIDE DEF a
  <2> QED BY ONLY <2>1, <2>2, PlaceLeft, ZenonT(30) DEF h
<1>4. ASSUME NEW x \in {0, 1}, NEW v, v = a \div 2 + 128 * x
      PROVE  v \in Byte /\ U8(2 * v + l) = a /\ BitOf(v, 128) = x
  <2>1. a \in Byte BY <1>1
  <2>2. x \in {0, 1} /\ v = a \div 2 + 128 * x BY <1>4
  <2> HIDE DEF a
  <2> QED BY ONLY <2>1, <2>2, PlaceRight, ZenonT(30) DEF l
<1>5. RAR(RAL(r)) = r
  <2> DEFINE v == U8(2 * a + c)
             q == RAL(r)
  <2>1. q = Shifted(r, h, v) BY ShiftForms DEF c
  <2>2. v = U8(2 * a + c) OBVIOUS
  <2> HIDE DEF q, v, h, a
  <2>3. v \in Byte /\ v \div 2 + 128 * h = a /\ BitOf(v, 1) = c BY <1>1, <1>3, <2>2
  <2>4. q \in RegFile /\ q["A"] = v /\ Flag(q, C_BIT) = h /\ Shifted(q, c, a) = r
    BY <1>2, <2>1, <2>3
  <2>5. RAR(q) = Shifted(q, BitOf(v, 1), v \div 2 + 128 * h) BY <2>4, ShiftForms
  <2> QED BY <2>3, <2>4, <2>5 DEF q
<1>6. RAL(RAR(r)) = r
  <2> DEFINE v == a \div 2 + 128 * c
             q == RAR(r)
  <2>1. q = Shifted(r, l, v) BY ShiftForms DEF c
  <2>2. v = a \div 2 + 128 * c OBVIOUS
  <2> HIDE DEF q, v, l, a
  <2>3. v \in Byte /\ U8(2 * v + l) = a /\ BitOf(v, 128) = c BY <1>1, <1>4, <2>2
  <2>4. q \in RegFile /\ q["A"] = v /\ Flag(q, C_BIT) = l /\ Shifted(q, c, a) = r
    BY <1>2, <2>1, <2>3
  <2>5. RAL(q) = Shifted(q, BitOf(v, 128), U8(2 * v + l)) BY <2>4, ShiftForms
  <2> QED BY <2>3, <2>4, <2>5 DEF q
<1>7. RRC(RLC(r))["A"] = a
  <2> DEFINE v == U8(2 * a + h)
             q == RLC(r)
  <2>1. q = Shifted(r, h, v) BY ShiftForms
  <2>2. v = U8(2 * a + h) OBVIOUS
  <2> HIDE DEF q, v, h, a
  <2>3. v \in Byte /\ v \div 2 + 128 * h = a /\ BitOf(v, 1) = h BY <1>1, <1>3, <2>2
  <2>4. q \in RegFile /\ q["A"] = v BY <1>2, <2>1, <2>3
  <2>5. RRC(q) = Shifted(q, h, a) BY <2>3, <2>4, ShiftForms
  <2> QED BY <1>1, <2>4, <2>5, ShiftParts DEF q
<1>8. RLC(RRC(r))["A"] = a
  <2> DEFINE v == a \div 2 + 128 * l
             q == RRC(r)
  <2>1. q = Shifted(r, l, v) BY ShiftForms
  <2>2. v = a \div 2 + 128 * l OBVIOUS
  <2> HIDE DEF q, v, l, a
  <2>3. v \in Byte /\ U8(2 * v + l) = a /\ BitOf(v, 128) = l BY <1>1, <1>4, <2>2
  <2>4. q \in RegFile /\ q["A"] = v BY <1>2, <2>1, <2>3
  <2>5. RLC(q) = Shifted(q, l, a) BY <2>3, <2>4, ShiftForms
  <2> QED BY <1>1, <2>4, <2>5, ShiftParts DEF q
<1> QED BY <1>5, <1>6, <1>7, <1>8 DEF a

(* cpu8080_RAR and cpu8080_RAL undo each other on A and all of F; without  *)
(* the carry in the ring, cpu8080_RRC and cpu8080_RLC do so on A.          *)
THEOREM RotationsAreInverse == Spec => []RotatesInvert
<1>1. RegsType => RotatesInvert BY RotationsInvert DEF RegsType, RotatesInvert
<1> QED BY <1>1, RegsTyped, PTL

-----------------------------------------------------------------------------
(* A byte is the sum of its bits, and complementing it complements each.   *)
LEMMA ComplementBits ==
  ASSUME NEW x \in Byte, NEW m \in {128, 64, 32, 16, 8, 4, 2, 1}
  PROVE  BitOf(255 - x, m) = 1 - BitOf(x, m) /\ BitOf(x, m) \in {0, 1}
<1>1. x \in Int /\ 0 <= x /\ x <= 255 BY ByteBounds
<1>2. CASE m = 128 BY <1>1, <1>2 DEF BitOf
<1>3. CASE m = 64 BY <1>1, <1>3 DEF BitOf
<1>4. CASE m = 32 BY <1>1, <1>4 DEF BitOf
<1>5. CASE m = 16 BY <1>1, <1>5 DEF BitOf
<1>6. CASE m = 8 BY <1>1, <1>6 DEF BitOf
<1>7. CASE m = 4 BY <1>1, <1>7 DEF BitOf
<1>8. CASE m = 2 BY <1>1, <1>8 DEF BitOf
<1>9. CASE m = 1 BY <1>1, <1>9 DEF BitOf
<1> QED BY <1>2, <1>3, <1>4, <1>5, <1>6, <1>7, <1>8, <1>9

(* De Morgan's law, and the exclusive or as a difference.                  *)
LEMMA BitwiseLaws ==
  ASSUME NEW x \in Byte, NEW y \in Byte
  PROVE  /\ 255 - Or8(255 - x, 255 - y) = And8(x, y)
         /\ Xor8(x, y) = Or8(x, y) - And8(x, y)
<1> DEFINE Ms == {128, 64, 32, 16, 8, 4, 2, 1}
<1>1. \A m \in Ms :
        /\ BitOr(BitOf(255 - x, m), BitOf(255 - y, m)) = 1 - BitAnd(BitOf(x, m), BitOf(y, m))
        /\ BitXor(BitOf(x, m), BitOf(y, m))
             = BitOr(BitOf(x, m), BitOf(y, m)) - BitAnd(BitOf(x, m), BitOf(y, m))
        /\ BitAnd(BitOf(x, m), BitOf(y, m)) \in Int /\ BitOr(BitOf(x, m), BitOf(y, m)) \in Int
  BY ComplementBits DEF BitOr, BitAnd, BitXor
<1>2. 255 - Or8(255 - x, 255 - y) = And8(x, y) BY <1>1 DEF Or8, And8, Bitwise8
<1>3. Xor8(x, y) = Or8(x, y) - And8(x, y) BY <1>1 DEF Xor8, Or8, And8, Bitwise8
<1> QED BY <1>2, <1>3

(* The logical operations agree with each other bit by bit.                *)
THEOREM LogicIsBoolean == Spec => []LogicAgrees
<1>1. ASSUME RegsType PROVE LogicAgrees
  <2>1. regs \in RegFile /\ regs["A"] \in Byte /\ operand \in Byte
    BY <1>1, RegByte, Names DEF RegsType
  <2>2. CMA(regs) \in RegFile /\ CMA(regs)["A"] = 255 - regs["A"]
    BY <2>1, ComplementType, Names DEF CMA, RegFile
  <2>3. ASSUME NEW r \in RegFile, NEW v PROVE Logical(r, v)["A"] = v
    BY Names DEF Logical, RegFile
  <2>4. /\ ANA(regs, operand)["A"] = And8(regs["A"], operand)
        /\ ORA(regs, operand)["A"] = Or8(regs["A"], operand)
        /\ XRA(regs, operand)["A"] = Xor8(regs["A"], operand)
    BY <2>1, <2>3 DEF ANA, ORA, XRA
  <2> DEFINE n == ORA(CMA(regs), 255 - operand)
  <2>5. n["A"] = Or8(255 - regs["A"], 255 - operand) BY <2>2, <2>3 DEF ORA
  <2>6. CMA(n)["A"] = 255 - n["A"]
    <3>1. n \in [RegName -> {n[i] : i \in RegName}]
      BY <2>2, Names DEF ORA, Logical, RegFile
    <3> QED BY <3>1, Names DEF CMA
  <2> QED BY <2>1, <2>4, <2>5, <2>6, BitwiseLaws DEF LogicAgrees
<1> QED BY <1>1, RegsTyped, PTL
=============================================================================
