--------------------------- MODULE Cpu8080_proofs ---------------------------
(***************************************************************************)
(* Theorems about the simulated processor, for every set of programs,      *)
(* every device and every bound.  First the types.  Then interrupts: when  *)
(* a request is delivered, which requests are kept, and that the processor *)
(* implements the interrupt gate.  Then the switch: what it does stays     *)
(* within what the opcode table lists of it, the operands it consumes, the *)
(* flags it changes, the memory it writes.                                 *)
(***************************************************************************)
EXTENDS Cpu8080Props, Alu8080_proofs

-----------------------------------------------------------------------------
(* Memory and operands. *)

LEMMA PeekByte == ASSUME NEW m, IsMemory(m), NEW a PROVE Peek(m, a) \in Byte
BY InByte DEF Peek, IsMemory

LEMMA PokeMemory ==
  ASSUME NEW m, IsMemory(m), NEW a \in Short, NEW v \in Byte
  PROVE  IsMemory(Poke(m, a, v))
BY DEF Poke, IsMemory

(* An opcode names a register or "M", and its pair bits name two registers. *)
LEMMA SlotNames ==
  ASSUME NEW op \in Byte
  PROVE  /\ Source(op) \in RegName \cup {"M"}
         /\ Destination(op) \in RegName \cup {"M"}
<1>1. ASSUME NEW i \in 0 .. 7 PROVE Slots[i + 1] \in RegName \cup {"M"}
  BY DEF Slots, RegName
<1>2. op % 8 \in 0 .. 7 /\ (op \div 8) % 8 \in 0 .. 7 BY ByteBounds
<1> QED BY <1>1, <1>2 DEF Source, Destination

LEMMA PairNames ==
  ASSUME NEW op \in Byte
  PROVE  PairOf(op)[1] \in RegName /\ PairOf(op)[2] \in RegName
<1>1. PairIndex(op) \in 1 .. 4 BY ByteBounds DEF PairIndex
<1> QED BY <1>1 DEF PairOf, NamesSP, Pairs, RegName

LEMMA PairWordShort ==
  ASSUME NEW r \in RegFile, NEW p, p[1] \in RegName, p[2] \in RegName
  PROVE  PairWord(r, p) \in Short
BY RegByte, WordShort DEF PairWord

LEMMA WithPairType ==
  ASSUME NEW r \in RegFile, NEW p, p[1] \in RegName, p[2] \in RegName, NEW w \in Short
  PROVE  WithPair(r, p, w) \in RegFile
BY HalfBytes, SetRegs DEF WithPair

LEMMA HLShort == ASSUME NEW r \in RegFile PROVE HL(r) \in Short
BY RegByte, WordShort, Names DEF HL

LEMMA DurationNat == ASSUME NEW op \in Byte PROVE Duration(op) \in Nat
BY DEF Duration, U8

(* What TypeOK says of the machine proper and of its control state.        *)
Machine == reg \in RegFile /\ reg_PC \in Short /\ reg_SP \in Short /\ IsMemory(ram)
Control ==
  /\ halt \in BOOLEAN /\ clock \in 0 .. ClockSize - 1 /\ long_exec \in BOOLEAN
  /\ inte \in Byte /\ inte_bus \in Byte /\ inte_pending \in BOOLEAN
  /\ curr_opcode \in Byte /\ phase \in Phases
  /\ raised \in 0 .. MaxRaises /\ starts \in 0 .. MaxStarts

LEMMA TypeParts == TypeOK <=> Machine /\ Control
BY DEF TypeOK, Machine, Control

LEMMA Operands ==
  ASSUME TypeOK
  PROVE  /\ NextByte \in Byte /\ NextShort \in Short
         /\ \A n \in RegName \cup {"M"} : Value(n) \in Byte
         /\ Operand16(curr_opcode) \in Short
         /\ Top \in Short
<1>1. \A a : Peek(ram, a) \in Byte BY PeekByte DEF TypeOK
<1>2. NextByte \in Byte BY <1>1 DEF NextByte
<1>3. NextShort \in Short BY <1>1, <1>2, WordShort DEF NextShort
<1>4. \A n \in RegName \cup {"M"} : Value(n) \in Byte BY <1>1, RegByte DEF Value, TypeOK
<1>5. Operand16(curr_opcode) \in Short BY PairNames, PairWordShort DEF Operand16, TypeOK
<1>6. Top \in Short BY <1>1, WordShort DEF Top
<1> QED BY <1>2, <1>3, <1>4, <1>5, <1>6

LEMMA SkipType == ASSUME TypeOK, NEW n \in Int, Skip(n) PROVE reg_PC' \in Short
BY ShortBounds, U16Short DEF Skip, TypeOK

LEMMA StoreType ==
  ASSUME TypeOK, NEW n \in RegName \cup {"M"}, NEW v \in Byte, NEW f \in Byte, Store(n, v, f)
  PROVE  reg' \in RegFile /\ IsMemory(ram')
<1>1. reg' \in RegFile BY SetReg, SetRegs, Names DEF Store, TypeOK
<1>2. IsMemory(ram') BY HLShort, PokeMemory DEF Store, TypeOK
<1> QED BY <1>1, <1>2

LEMMA Store16Type ==
  ASSUME TypeOK, NEW w \in Short, Store16(curr_opcode, w)
  PROVE  reg' \in RegFile /\ reg_SP' \in Short
BY WithPairType, PairNames DEF Store16, TypeOK

LEMMA PushedMemory ==
  ASSUME TypeOK, CanPush, NEW w \in Short
  PROVE  IsMemory(Pushed(ram, w))
<1>1. reg_SP - 1 \in Short /\ reg_SP - 2 \in Short BY ShortBounds, InShort DEF CanPush, TypeOK
<1>2. Hi(w) \in Byte /\ Lo(w) \in Byte BY HalfBytes
<1>3. IsMemory(Poke(ram, reg_SP - 1, Hi(w))) BY <1>1, <1>2, PokeMemory DEF TypeOK
<1> QED BY <1>1, <1>2, <1>3, PokeMemory DEF Pushed

-----------------------------------------------------------------------------
(* What a loaded image and the reset registers are. *)
LEMMA LoadedMemory ==
  ASSUME NEW m, IsMemory(m), NEW d \in Seq(Byte), Len(d) \in Short
  PROVE  IsMemory(Loaded(m, d))
<1>1. 0 .. Len(d) - 1 \subseteq Short BY ShortBounds, InShort
<1>2. \A a \in 0 .. Len(d) - 1 : a < Len(d) /\ d[a + 1] \in Byte BY ShortBounds
<1>3. DOMAIN Loaded(m, d) \subseteq Short BY <1>1 DEF Loaded, IsMemory
<1>4. \A a \in DOMAIN m \cup 0 .. Len(d) - 1 :
        (IF a < Len(d) THEN d[a + 1] ELSE m[a]) \in Byte
  BY <1>2, ShortBounds DEF IsMemory
<1> QED BY <1>3, <1>4 DEF Loaded, IsMemory

LEMMA ResetType == ResetRegs \in RegFile /\ [n \in RegName |-> 0] \in RegFile
BY InByte DEF ResetRegs, RegFile

(* Every instruction keeps the machine proper well typed. *)
LEMMA ExecMachine == ASSUME TypeOK, ExecInstr PROVE Machine'
<1> DEFINE op == curr_opcode
<1>1. /\ reg \in RegFile /\ reg_PC \in Short /\ reg_SP \in Short /\ IsMemory(ram)
      /\ op \in Byte
      /\ reg["A"] \in Byte /\ reg["F"] \in Byte /\ reg["H"] \in Byte /\ reg["L"] \in Byte
  BY RegByte, Names DEF TypeOK
<1>2. /\ NextByte \in Byte /\ NextShort \in Short /\ Operand16(op) \in Short /\ Top \in Short
      /\ \A n \in RegName \cup {"M"} : Value(n) \in Byte
  BY Operands
<1>3. Source(op) \in RegName \cup {"M"} /\ Destination(op) \in RegName \cup {"M"}
  BY <1>1, SlotNames
<1>4. PairOf(op)[1] \in RegName /\ PairOf(op)[2] \in RegName /\ PairWord(reg, PairOf(op)) \in Short
  BY <1>1, PairNames, PairWordShort
<1>5. \A a : Peek(ram, a) \in Byte BY <1>1, PeekByte
<1>6. HL(reg) \in Short BY <1>1, HLShort
<1>7. ASSUME NEW n \in {1, 2}, Skip(n) PROVE reg_PC' \in Short BY <1>7, SkipType
<1>8. ASSUME NEW n \in {1, -1, 2, -2}
      PROVE  U16(Operand16(op) + n) \in Short /\ U16(reg_SP + n) \in Short /\ U16(reg_PC + n) \in Short
  BY <1>1, <1>2, ShortBounds, U16Short
<1> HIDE DEF op
<1>10. CASE NOP BY <1>10, <1>1 DEF NOP, Machine
<1>11. CASE LXI BY <1>11, <1>1, <1>2, <1>7, Store16Type DEF LXI, Machine
<1>12. CASE STAX
  <2>1. U16(RamBase + PairWord(reg, PairOf(op))) \in Short
    BY <1>4, ShortBounds, U16Short, BuildAssumption
  <2> QED BY <1>12, <1>1, <2>1, PokeMemory DEF STAX, Machine, op
<1>13. CASE SHLD
  <2>1. NextShort + 1 \in Short BY <1>13, <1>2, Maxima DEF SHLD, PairFits, Short
  <2>2. IsMemory(Poke(ram, NextShort, reg["L"])) BY <1>1, <1>2, PokeMemory
  <2> QED BY <1>13, <1>1, <1>2, <1>7, <2>1, <2>2, PokeMemory DEF SHLD, Machine
<1>14. CASE STA BY <1>14, <1>1, <1>2, <1>7, PokeMemory DEF STA, Machine
<1>15. CASE INX
  <2>1. U16(Operand16(curr_opcode) + 1) \in Short BY <1>8 DEF op
  <2>2. reg' \in RegFile /\ reg_SP' \in Short BY <1>15, <2>1, Store16Type DEF INX
  <2> QED BY <1>15, <1>1, <2>2 DEF INX, Machine
<1>16. CASE DCX
  <2>1. U16(Operand16(curr_opcode) - 1) \in Short BY <1>2, ShortBounds, U16Short DEF op
  <2>2. reg' \in RegFile /\ reg_SP' \in Short BY <1>16, <2>1, Store16Type DEF DCX
  <2> QED BY <1>16, <1>1, <2>2 DEF DCX, Machine
<1>17. CASE INR
  <2>1. PICK n \in RegName \cup {"M"} :
          Store(n, Incremented(Value(n)), IncrementedF(reg["F"], Value(n)))
    BY <1>17, <1>3 DEF INR, op
  <2>2. Value(n) \in Byte BY <1>2
  <2>3. Incremented(Value(n)) \in Byte /\ IncrementedF(reg["F"], Value(n)) \in Byte
    BY <1>1, <2>2, IncrementedType
  <2>4. reg' \in RegFile /\ IsMemory(ram') BY <2>1, <2>3, StoreType
  <2> QED BY <1>17, <1>1, <2>4 DEF INR, Machine
<1>18. CASE DCR
  <2>1. PICK n \in RegName \cup {"M"} :
          Store(n, Decremented(Value(n)), DecrementedF(reg["F"], Value(n)))
    BY <1>18, <1>3 DEF DCR, op
  <2>2. Value(n) \in Byte BY <1>2
  <2>3. Decremented(Value(n)) \in Byte /\ DecrementedF(reg["F"], Value(n)) \in Byte
    BY <1>1, <2>2, DecrementedType
  <2>4. reg' \in RegFile /\ IsMemory(ram') BY <2>1, <2>3, StoreType
  <2> QED BY <1>18, <1>1, <2>4 DEF DCR, Machine
<1>19. CASE MVI BY <1>19, <1>1, <1>2, <1>3, <1>7, StoreType DEF MVI, Machine, op
<1>20. CASE Rotate BY <1>20, <1>1, RotatedType DEF Rotate, Machine
<1>21. CASE DADInstr
  <2>1. reg["H"] \in Short BY <1>1, ByteBounds, InShort
  <2>2. PICK v \in Short : reg' = DAD(reg, v) BY <1>21, <1>2, <2>1 DEF DADInstr, op
  <2> QED BY <1>21, <1>1, <2>2, DADType DEF DADInstr, Machine
<1>22. CASE LDAX BY <1>22, <1>1, <1>5, SetReg, Names DEF LDAX, Machine
<1>23. CASE LHLD
  <2> DEFINE x == Peek(ram, NextShort)
             y == Peek(ram, NextShort + 1)
  <2>1. x \in Byte /\ y \in Byte BY <1>5
  <2> HIDE DEF x, y
  <2>2. [reg EXCEPT !["L"] = x, !["H"] = y] \in RegFile BY <1>1, <2>1, SetRegs, Names
  <2>3. reg' \in RegFile BY <1>23, <2>2 DEF LHLD, x, y
  <2> QED BY <1>23, <1>1, <1>7, <2>3 DEF LHLD, Machine
<1>24. CASE LDA BY <1>24, <1>1, <1>5, <1>7, SetReg, Names DEF LDA, Machine
<1>25. CASE MOV BY <1>25, <1>1, <1>2, <1>3, StoreType DEF MOV, Machine, op
<1>26. CASE HLT BY <1>26, <1>1, <1>7 DEF HLT, Machine
<1>27. CASE AluReg BY <1>27, <1>1, <1>2, <1>3, ComputedType DEF AluReg, Machine, op
<1>28. CASE AluImm BY <1>28, <1>1, <1>2, <1>7, ComputedType DEF AluImm, Machine
<1>29. CASE POPInstr BY <1>29, <1>1, <1>2, <1>4, <1>8, WithPairType DEF POPInstr, POP, Machine, op
<1>30. CASE PUSHInstr
  BY <1>30, <1>1, <1>4, PushedMemory, U16Short, ShortBounds DEF PUSHInstr, PUSH, Machine, op
<1>31. CASE XTHL
  <2>1. WithPair(reg, <<"H", "L">>, Top) \in RegFile BY <1>1, <1>2, WithPairType, Names
  <2> QED BY <1>31, <1>1, <1>6, <2>1, PushedMemory DEF XTHL, Machine
<1>32. CASE NotTaken BY <1>32, <1>1 DEF NotTaken, Machine
<1>33. CASE JMP BY <1>33, <1>1, <1>2 DEF JMP, Machine
<1>34. CASE CALL
  BY <1>34, <1>1, <1>2, <1>8, PushedMemory, U16Short, ShortBounds DEF CALL, PUSH, Machine
<1>35. CASE RET BY <1>35, <1>1, <1>2, <1>8 DEF RET, POP, Machine
<1>36. CASE RST
  <2>1. 8 * ((op \div 8) % 8) \in Short BY <1>1, ByteBounds, InShort
  <2> QED BY <1>36, <1>1, <2>1, PushedMemory, U16Short, ShortBounds DEF RST, PUSH, Machine, op
<1>37. CASE PCHL BY <1>37, <1>1, <1>6 DEF PCHL, Machine
<1>38. CASE SPHL BY <1>38, <1>1, <1>6 DEF SPHL, Machine
<1>39. CASE XCHG
  <2>1. PairWord(reg, <<"D", "E">>) \in Short BY <1>1, PairWordShort, Names
  <2>2. WithPair(reg, <<"D", "E">>, HL(reg)) \in RegFile BY <1>1, <1>6, WithPairType, Names
  <2> QED BY <1>39, <1>1, <2>1, <2>2, WithPairType, Names DEF XCHG, Machine
<1>40. CASE DI BY <1>40, <1>1 DEF DI, Machine
<1>41. CASE EI BY <1>41, <1>1 DEF EI, Machine
<1>42. CASE IN_
  BY <1>42, <1>1, <1>7, SetReg, Names, DeviceAssumption DEF IN_, Machine
<1>43. CASE OUT BY <1>43, <1>1, <1>7 DEF OUT, Machine
<1> QED
  BY <1>10, <1>11, <1>12, <1>13, <1>14, <1>15, <1>16, <1>17, <1>18, <1>19, <1>20, <1>21, <1>22,
     <1>23, <1>24, <1>25, <1>26, <1>27, <1>28, <1>29, <1>30, <1>31, <1>32, <1>33, <1>34, <1>35,
     <1>36, <1>37, <1>38, <1>39, <1>40, <1>41, <1>42, <1>43 DEF ExecInstr

-----------------------------------------------------------------------------
(* The end of an instruction keeps the clock in its range and goes back to *)
(* the caller, which is the interrupt service if the opcode was injected.  *)
LEMMA RetireControl ==
  ASSUME TypeOK, NEW long \in BOOLEAN, Retire(long)
  PROVE  /\ long_exec' \in BOOLEAN /\ clock' \in 0 .. ClockSize - 1
         /\ phase' \in Phases /\ curr_opcode' \in Byte /\ starts' \in 0 .. MaxStarts
<1> DEFINE cycles == Duration(curr_opcode) \div (IF long THEN 16 ELSE 1)
<1>1. cycles \in Int BY DurationNat DEF TypeOK
<1>2. clock' = (clock + cycles) % ClockSize BY DEF Retire
<1> HIDE DEF cycles
<1>3. clock' \in 0 .. ClockSize - 1 BY <1>1, <1>2, BuildAssumption DEF TypeOK
<1>4. phase' \in Phases BY DEF Retire, Phases
<1> QED BY <1>3, <1>4 DEF Retire, TypeOK

LEMMA RaiseControl ==
  ASSUME TypeOK, set_interrupt
  PROVE  inte_bus' \in Byte /\ inte_pending' \in BOOLEAN /\ raised' \in 0 .. MaxRaises
BY DeviceAssumption, BoundAssumption DEF set_interrupt, TypeOK

LEMMA GateByte ==
  ASSUME TypeOK, NEW b \in {0, 1}
  PROVE  SetFlag(inte, INTE_BIT, b) \in Byte /\ BitOf(SetFlag(inte, INTE_BIT, b), INTE_BIT) = b
<1>1. INTE_BIT \in FlagMasks BY DEF INTE_BIT, FlagMasks, P_BIT
<1> QED BY <1>1, SetFlagByte, SetFlagSets DEF TypeOK

(* What every instruction does to the control state: it retires, and only  *)
(* HLT, DI, EI and the port functions touch more.                          *)
Outline ==
  /\ phase \in {"inject", "exec"}
  /\ \E long \in BOOLEAN : Retire(long)
  /\ \/ NoDevice
     \/ PortsRaise /\ curr_opcode \in {211, 219} /\ set_interrupt /\ inte' = inte
  /\ halt' \in {halt, TRUE}
  /\ \/ inte' = inte
     \/ curr_opcode \in {243, 251} /\ \E b \in {0, 1} : inte' = SetFlag(inte, INTE_BIT, b)
LEMMA ExecOutline == ASSUME ExecInstr PROVE Outline
<1> USE DEF Executing
<1>1. ASSUME NEW long \in BOOLEAN, Retire(long), phase \in {"inject", "exec"}, NoControl
      PROVE  Outline
  BY <1>1 DEF NoControl, Outline
<1>2. CASE HLT BY <1>2 DEF HLT, Outline
<1>3. CASE DI BY <1>3 DEF DI, Outline
<1>4. CASE EI BY <1>4 DEF EI, Outline
<1>5. CASE IN_ BY <1>5 DEF IN_, Outline
<1>6. CASE OUT BY <1>6 DEF OUT, Outline
<1>7. CASE CALL
  <2>1. (curr_opcode \in ConditionalCalls) \in BOOLEAN OBVIOUS
  <2> QED BY <1>7, <1>1, <2>1 DEF CALL
<1>8. CASE RET
  <2>1. (curr_opcode \in ConditionalReturns) \in BOOLEAN OBVIOUS
  <2> QED BY <1>8, <1>1, <2>1 DEF RET
<1>9. CASE NOP BY <1>9, <1>1 DEF NOP
<1>10. CASE LXI BY <1>10, <1>1 DEF LXI
<1>11. CASE STAX BY <1>11, <1>1 DEF STAX
<1>12. CASE SHLD BY <1>12, <1>1 DEF SHLD
<1>13. CASE STA BY <1>13, <1>1 DEF STA
<1>14. CASE INX BY <1>14, <1>1 DEF INX
<1>15. CASE DCX BY <1>15, <1>1 DEF DCX
<1>16. CASE INR BY <1>16, <1>1 DEF INR
<1>17. CASE DCR BY <1>17, <1>1 DEF DCR
<1>18. CASE MVI BY <1>18, <1>1 DEF MVI
<1>19. CASE Rotate BY <1>19, <1>1 DEF Rotate
<1>20. CASE DADInstr BY <1>20, <1>1 DEF DADInstr
<1>21. CASE LDAX BY <1>21, <1>1 DEF LDAX
<1>22. CASE LHLD BY <1>22, <1>1 DEF LHLD
<1>23. CASE LDA BY <1>23, <1>1 DEF LDA
<1>24. CASE MOV BY <1>24, <1>1 DEF MOV
<1>25. CASE AluReg BY <1>25, <1>1 DEF AluReg
<1>26. CASE AluImm BY <1>26, <1>1 DEF AluImm
<1>27. CASE POPInstr BY <1>27, <1>1 DEF POPInstr
<1>28. CASE PUSHInstr BY <1>28, <1>1 DEF PUSHInstr
<1>29. CASE XTHL BY <1>29, <1>1 DEF XTHL
<1>30. CASE NotTaken BY <1>30, <1>1 DEF NotTaken
<1>31. CASE JMP BY <1>31, <1>1 DEF JMP
<1>32. CASE RST BY <1>32, <1>1 DEF RST
<1>33. CASE PCHL BY <1>33, <1>1 DEF PCHL
<1>34. CASE SPHL BY <1>34, <1>1 DEF SPHL
<1>35. CASE XCHG BY <1>35, <1>1 DEF XCHG
<1> QED
  BY <1>2, <1>3, <1>4, <1>5, <1>6, <1>7, <1>8, <1>9, <1>10, <1>11, <1>12, <1>13, <1>14,
     <1>15, <1>16, <1>17, <1>18, <1>19, <1>20, <1>21, <1>22, <1>23, <1>24, <1>25, <1>26,
     <1>27, <1>28, <1>29, <1>30, <1>31, <1>32, <1>33, <1>34, <1>35 DEF ExecInstr

LEMMA ExecControl == ASSUME TypeOK, ExecInstr PROVE Control'
<1>1. PICK long \in BOOLEAN : Retire(long) BY ExecOutline DEF Outline
<1>2. /\ long_exec' \in BOOLEAN /\ clock' \in 0 .. ClockSize - 1
      /\ phase' \in Phases /\ curr_opcode' \in Byte /\ starts' \in 0 .. MaxStarts
  BY <1>1, RetireControl
<1>3. inte_bus' \in Byte /\ inte_pending' \in BOOLEAN /\ raised' \in 0 .. MaxRaises
  BY ExecOutline, RaiseControl DEF Outline, NoDevice, TypeOK
<1>4. halt' \in BOOLEAN BY ExecOutline DEF Outline, TypeOK
<1>5. inte' \in Byte BY ExecOutline, GateByte DEF Outline, TypeOK
<1> QED BY <1>2, <1>3, <1>4, <1>5 DEF Control

-----------------------------------------------------------------------------
(* Type correctness: no program, however it behaves, leaves a register, a  *)
(* memory cell, the clock or the gate outside the C type that stores it,   *)
(* and no write leaves the 64 KB of ram but those that StrayAccess names.  *)
THEOREM TypeCorrect == Spec => []TypeOK
<1>1. Init => TypeOK
  <2> SUFFICES ASSUME Init PROVE TypeOK OBVIOUS
  <2>1. 0 \in Byte /\ 0 \in Short BY InByte, InShort
  <2>2. 0 \in 0 .. ClockSize - 1 /\ 0 \in 0 .. MaxRaises /\ 0 \in 0 .. MaxStarts
    BY BuildAssumption, BoundAssumption
  <2> QED BY <2>1, <2>2, ResetType DEF Init, TypeOK, IsMemory, Phases
<1>2. TypeOK /\ [Next]_vars => TypeOK'
  <2> SUFFICES ASSUME TypeOK, [Next]_vars PROVE TypeOK' OBVIOUS
  <2> USE DEF gate, host
  <2>1. CASE StartProgram
    <3>1. PICK p \in Programs : ram' = Loaded(ram, p.data) /\ reg_PC' = p.start
      BY <2>1 DEF StartProgram
    <3>2. IsMemory(ram') /\ reg_PC' \in Short
      BY <3>1, LoadedMemory, ProgramsAssumption DEF TypeOK
    <3>3. 0 \in Byte /\ 255 \in Byte /\ StackFrom \in Short BY InByte, InShort DEF StackFrom
    <3>4. 0 \in 0 .. ClockSize - 1 /\ starts' \in 0 .. MaxStarts
      BY <2>1, BuildAssumption, BoundAssumption DEF StartProgram, TypeOK
    <3> QED BY <2>1, <3>2, <3>3, <3>4, ResetType DEF StartProgram, TypeOK, Phases
  <2>2. CASE SetInterrupt BY <2>2, RaiseControl DEF SetInterrupt, TypeOK
  <2>3. CASE TakeInterrupt BY <2>3 DEF TakeInterrupt, TypeOK, Phases
  <2>4. CASE NoInterrupt BY <2>4 DEF NoInterrupt, TypeOK, Phases
  <2>5. CASE AckInterrupt BY <2>5, GateByte DEF AckInterrupt, TypeOK, Phases
  <2>6. CASE tick BY <2>6, Operands, SkipType DEF tick, TypeOK, Phases
  <2>7. CASE ExecInstr BY <2>7, ExecMachine, ExecControl, TypeParts DEF Machine, Control, TypeOK
  <2>8. CASE Stray BY <2>8 DEF Stray, TypeOK, Phases
  <2>9. CASE UNCHANGED vars BY <2>9 DEF vars, TypeOK, IsMemory
  <2> QED BY <2>1, <2>2, <2>3, <2>4, <2>5, <2>6, <2>7, <2>8, <2>9 DEF Next, step
<1> QED BY <1>1, <1>2, PTL DEF Spec

-----------------------------------------------------------------------------
(* The steps of the machine that run no instruction, and the two kinds of  *)
(* place from which an instruction runs.                                   *)
LEMMA ExecPhases ==
  ASSUME ExecInstr
  PROVE  /\ phase = "inject" => phase' = "ack"
         /\ phase = "exec" => phase' = "idle"
         /\ phase \in {"inject", "exec"} /\ UNCHANGED <<curr_opcode, starts>>
BY ExecOutline DEF Outline, Retire

-----------------------------------------------------------------------------
(* Between the test of check_interrupts and the next instruction nothing   *)
(* can raise a request or open the gate, so the program never runs ahead   *)
(* of a request that could be delivered.                                   *)
THEOREM DeliveryIsPrompt == Spec => []PromptDelivery
<1>1. Init => PromptDelivery BY DEF Init, PromptDelivery
<1>2. PromptDelivery /\ [Next]_vars => PromptDelivery'
  <2> SUFFICES ASSUME PromptDelivery, [Next]_vars PROVE PromptDelivery' OBVIOUS
  <2> USE DEF PromptDelivery, Enabled, gate
  <2>1. CASE StartProgram BY <2>1 DEF StartProgram
  <2>2. CASE SetInterrupt BY <2>2 DEF SetInterrupt
  <2>3. CASE TakeInterrupt BY <2>3 DEF TakeInterrupt
  <2>4. CASE NoInterrupt BY <2>4 DEF NoInterrupt
  <2>5. CASE AckInterrupt BY <2>5 DEF AckInterrupt
  <2>6. CASE tick BY <2>6 DEF tick
  <2>7. CASE ExecInstr BY <2>7, ExecPhases
  <2>8. CASE Stray BY <2>8 DEF Stray
  <2>9. CASE UNCHANGED vars BY <2>9 DEF vars
  <2> QED BY <2>1, <2>2, <2>3, <2>4, <2>5, <2>6, <2>7, <2>8, <2>9 DEF Next, step
<1> QED BY <1>1, <1>2, PTL DEF Spec

-----------------------------------------------------------------------------
(* While a request is executed it is both in the latch and in curr_opcode; *)
(* after that only a port function may have put another one in the latch.  *)
LatchInv ==
  /\ phase = "inject" => curr_opcode = inte_bus
  /\ phase = "ack" => inte_bus = curr_opcode \/ LostInService

(* For every program and every device, port functions that raise requests  *)
(* included: a request that is neither replaced nor cancelled by a start   *)
(* leaves the latch only when it has been executed, or behind an injected  *)
(* IN or OUT.                                                              *)
THEOREM NothingDropped == Spec => NoRequestDropped
<1>1. Init => LatchInv BY DEF Init, LatchInv
<1>2. LatchInv /\ [Next]_vars => LatchInv' /\ [DropsNothing]_vars
  <2> SUFFICES ASSUME LatchInv, [Next]_vars PROVE LatchInv' /\ [DropsNothing]_vars OBVIOUS
  <2> USE DEF LatchInv, DropsNothing, LostInService, gate
  <2>1. CASE StartProgram BY <2>1 DEF StartProgram
  <2>2. CASE SetInterrupt BY <2>2 DEF SetInterrupt, set_interrupt
  <2>3. CASE TakeInterrupt BY <2>3 DEF TakeInterrupt
  <2>4. CASE NoInterrupt BY <2>4 DEF NoInterrupt
  <2>5. CASE AckInterrupt BY <2>5 DEF AckInterrupt
  <2>6. CASE tick BY <2>6 DEF tick
  <2>7. CASE ExecInstr
    <3>1. CASE NoDevice BY <2>7, <3>1, ExecPhases DEF NoDevice
    <3>2. CASE set_interrupt /\ curr_opcode \in {211, 219}
      BY <2>7, <3>2, ExecPhases DEF set_interrupt
    <3> QED BY <2>7, <3>1, <3>2, ExecOutline DEF Outline
  <2>8. CASE Stray BY <2>8 DEF Stray
  <2>9. CASE UNCHANGED vars BY <2>9 DEF vars
  <2> QED BY <2>1, <2>2, <2>3, <2>4, <2>5, <2>6, <2>7, <2>8, <2>9 DEF Next, step
<1> QED BY <1>1, <1>2, PTL DEF Spec, NoRequestDropped

-----------------------------------------------------------------------------
(* The columns of the opcode table, written out. *)
LEMMA Columns ==
  /\ Column(0, 0) = {0, 8, 16, 24, 32, 40, 48, 56}
  /\ Column(0, 4) = {4, 12, 20, 28, 36, 44, 52, 60}
  /\ Column(0, 5) = {5, 13, 21, 29, 37, 45, 53, 61}
  /\ Column(0, 6) = {6, 14, 22, 30, 38, 46, 54, 62}
  /\ Column(192, 0) = {192, 200, 208, 216, 224, 232, 240, 248}
  /\ Column(192, 2) = {194, 202, 210, 218, 226, 234, 242, 250}
  /\ Column(192, 4) = {196, 204, 212, 220, 228, 236, 244, 252}
  /\ Column(192, 6) = {198, 206, 214, 222, 230, 238, 246, 254}
  /\ Column(192, 7) = {199, 207, 215, 223, 231, 239, 247, 255}
<1>1. ASSUME NEW base \in Int, NEW d \in Int
      PROVE  Column(base, d) = {base + d, base + 8 + d, base + 16 + d, base + 24 + d,
                                base + 32 + d, base + 40 + d, base + 48 + d, base + 56 + d}
  <2>1. 0 .. 7 = {0, 1, 2, 3, 4, 5, 6, 7} OBVIOUS
  <2> QED BY <2>1 DEF Column
<1> QED BY <1>1

(* Opcodes 243 and 251 are those of DI and EI, and of no other family.     *)
LEMMA GateOpcodes ==
  ASSUME NEW op \in {243, 251}
  PROVE  /\ op \notin NopOps \cup InrOps \cup DcrOps \cup MviOps
         /\ op \notin ImmediateAluOps \cup CondOps \cup ConditionalReturns
                       \cup ConditionalJumps \cup ConditionalCalls \cup Restarts
         /\ op \notin AluOps \cup MovOps \cup LxiOps \cup DadOps \cup InxOps \cup DcxOps
         /\ op \notin RotateOps \cup PopOps \cup PushOps \cup Jumps \cup Calls \cup Returns
<1>1. op \notin NopOps \cup InrOps \cup DcrOps \cup MviOps
  BY Columns DEF NopOps, InrOps, DcrOps, MviOps
<1>2. op \notin ImmediateAluOps \cup CondOps \cup ConditionalReturns
                \cup ConditionalJumps \cup ConditionalCalls \cup Restarts
  BY Columns DEF ImmediateAluOps, CondOps, ConditionalReturns, ConditionalJumps, ConditionalCalls, Restarts
<1>3. op \notin AluOps \cup MovOps \cup LxiOps \cup DadOps \cup InxOps \cup DcxOps
  BY DEF AluOps, MovOps, LxiOps, DadOps, InxOps, DcxOps
<1>4. op \notin RotateOps \cup PopOps \cup PushOps \cup Jumps \cup Calls \cup Returns
  BY DEF RotateOps, PopOps, PushOps, Jumps, Calls, Returns
<1> QED BY <1>1, <1>2, <1>3, <1>4

(* DI and EI do to the gate what they say, and nothing else moves it.      *)
LEMMA GateMoves ==
  ASSUME TypeOK, ExecInstr
  PROVE  /\ curr_opcode = 243 => NoDevice /\ ~Enabled'
         /\ curr_opcode = 251 => NoDevice /\ Enabled'
         /\ curr_opcode \notin {243, 251} => inte' = inte
<1>1. ASSUME curr_opcode \in {243, 251} PROVE DI \/ EI
  <2>1. /\ curr_opcode \notin NopOps /\ curr_opcode \notin InrOps /\ curr_opcode \notin DcrOps
        /\ curr_opcode \notin MviOps /\ curr_opcode \notin ImmediateAluOps /\ curr_opcode \notin CondOps
        /\ curr_opcode \notin ConditionalReturns /\ curr_opcode \notin ConditionalJumps
        /\ curr_opcode \notin ConditionalCalls /\ curr_opcode \notin Restarts
        /\ curr_opcode \notin AluOps /\ curr_opcode \notin MovOps /\ curr_opcode \notin LxiOps
        /\ curr_opcode \notin DadOps /\ curr_opcode \notin InxOps /\ curr_opcode \notin DcxOps
        /\ curr_opcode \notin RotateOps /\ curr_opcode \notin PopOps /\ curr_opcode \notin PushOps
        /\ curr_opcode \notin Jumps /\ curr_opcode \notin Calls /\ curr_opcode \notin Returns
        /\ curr_opcode \notin {2, 18, 34, 50, 10, 26, 42, 58, 118, 227, 233, 249, 235, 219, 211}
    BY <1>1, GateOpcodes
  <2>2. ASSUME NOP \/ LXI \/ STAX \/ SHLD \/ STA \/ INX PROVE FALSE
    BY ONLY <2>1, <2>2 DEF Executing, NOP, LXI, STAX, SHLD, STA, INX
  <2>3. ASSUME DCX \/ INR \/ DCR \/ MVI \/ Rotate PROVE FALSE
    BY ONLY <2>1, <2>3 DEF Executing, DCX, INR, DCR, MVI, Rotate
  <2>4. ASSUME DADInstr \/ LDAX \/ LHLD \/ LDA \/ MOV \/ HLT \/ AluReg \/ AluImm PROVE FALSE
    BY ONLY <2>1, <2>4 DEF Executing, DADInstr, LDAX, LHLD, LDA, MOV, HLT, AluReg, AluImm
  <2>5. ASSUME POPInstr \/ PUSHInstr \/ XTHL \/ NotTaken \/ JMP PROVE FALSE
    BY ONLY <2>1, <2>5 DEF Executing, POPInstr, PUSHInstr, XTHL, NotTaken, JMP
  <2>6. ASSUME CALL \/ RET \/ RST \/ PCHL \/ SPHL \/ XCHG \/ IN_ \/ OUT PROVE FALSE
    BY ONLY <2>1, <2>6 DEF Executing, CALL, RET, RST, PCHL, SPHL, XCHG, IN_, OUT
  <2> QED BY <2>2, <2>3, <2>4, <2>5, <2>6 DEF ExecInstr
<1>2. CASE DI
  <2>1. ~Enabled' BY <1>2, GateByte DEF DI, Enabled
  <2>2. curr_opcode = 243 /\ NoDevice BY <1>2 DEF DI, Executing
  <2> QED BY ONLY <2>1, <2>2
<1>3. CASE EI
  <2>1. Enabled' BY <1>3, GateByte DEF EI, Enabled
  <2>2. curr_opcode = 251 /\ NoDevice BY <1>3 DEF EI, Executing
  <2> QED BY ONLY <2>1, <2>2
<1>4. curr_opcode \notin {243, 251} => inte' = inte BY ExecOutline DEF Outline
<1> QED BY <1>1, <1>2, <1>3, <1>4

(* A request that is being executed is still latched, and the gate is      *)
(* still open.                                                             *)
Deliverable == phase = "inject" => inte_pending /\ Enabled

LEMMA ServedIsLatched == Spec => []Deliverable
<1>1. Init => Deliverable BY DEF Init, Deliverable
<1>2. Deliverable /\ [Next]_vars => Deliverable'
  <2> SUFFICES ASSUME Deliverable, [Next]_vars PROVE Deliverable' OBVIOUS
  <2> USE DEF Deliverable, Enabled, gate
  <2>1. CASE StartProgram BY <2>1 DEF StartProgram
  <2>2. CASE SetInterrupt BY <2>2 DEF SetInterrupt
  <2>3. CASE TakeInterrupt BY <2>3 DEF TakeInterrupt
  <2>4. CASE NoInterrupt BY <2>4 DEF NoInterrupt
  <2>5. CASE AckInterrupt BY <2>5 DEF AckInterrupt
  <2>6. CASE tick BY <2>6 DEF tick
  <2>7. CASE ExecInstr BY <2>7, ExecPhases
  <2>8. CASE Stray BY <2>8 DEF Stray
  <2>9. CASE UNCHANGED vars BY <2>9 DEF vars
  <2> QED BY <2>1, <2>2, <2>3, <2>4, <2>5, <2>6, <2>7, <2>8, <2>9 DEF Next, step
<1> QED BY <1>1, <1>2, PTL DEF Spec

(* Every step of the processor is a step of the gate or leaves it alone.   *)
LEMMA GateStep ==
  ASSUME TypeOK, TypeOK', PromptDelivery, Deliverable, [Next]_vars
  PROVE  [Gate!Next]_(Gate!gvars)
<1>1. /\ inte_bus \in Byte /\ inte_bus' \in Byte /\ curr_opcode \in Byte /\ curr_opcode' \in Byte
      /\ NoRequest \notin Byte
  BY ByteBounds DEF TypeOK, NoRequest
<1> USE DEF gate, Serving, GateOpen, GateRequest, GateServed, GateAsks, Gate!gvars
<1>2. CASE StartProgram
  <2>1. Enabled' BY <1>2 DEF StartProgram, Enabled, BitOf, INTE_BIT
  <2>2. Gate!Reset BY <1>2, <2>1 DEF StartProgram, Gate!Reset
  <2> QED BY <2>2 DEF Gate!Next
<1>3. CASE SetInterrupt
  <2>1. Gate!Raise BY <1>1, <1>3 DEF SetInterrupt, set_interrupt, Enabled, Gate!Raise
  <2> QED BY <2>1 DEF Gate!Next
<1>4. CASE TakeInterrupt
  <2>1. Gate!Serve BY <1>1, <1>4 DEF TakeInterrupt, BeginStep, Gate!Serve, host
  <2> QED BY <2>1 DEF Gate!Next
<1>5. CASE NoInterrupt BY <1>5 DEF NoInterrupt, BeginStep, Enabled, host
<1>6. CASE AckInterrupt
  <2>1. ~Enabled' BY <1>6, GateByte DEF AckInterrupt, Enabled
  <2>2. Gate!Finish BY <1>1, <1>6, <2>1 DEF AckInterrupt, Gate!Finish, host
  <2> QED BY <2>2 DEF Gate!Next
<1>7. CASE tick
  <2>1. CASE curr_opcode' \in {243, 251}
    <3>1. Gate!Ask BY <1>1, <1>7, <2>1 DEF tick, Enabled, Gate!Ask, host
    <3> QED BY <3>1 DEF Gate!Next
  <2>2. CASE curr_opcode' \notin {243, 251} BY <1>7, <2>2 DEF tick, Enabled, host
  <2> QED BY <2>1, <2>2
<1>8. CASE ExecInstr /\ phase = "inject" BY <1>8, ExecPhases
<1>9. CASE ExecInstr /\ phase = "exec"
  <2>1. phase' = "idle" /\ UNCHANGED <<curr_opcode, starts>> BY <1>9, ExecPhases
  <2>2. CASE curr_opcode \in {243, 251}
    <3>1. CASE curr_opcode = 243
      <4>1. NoDevice /\ ~Enabled' BY <1>9, <3>1, GateMoves
      <4>2. Gate!Switch BY <1>1, <1>9, <2>1, <3>1, <4>1 DEF NoDevice, Gate!Switch
      <4> QED BY <4>2 DEF Gate!Next
    <3>2. CASE curr_opcode = 251
      <4>1. NoDevice /\ Enabled' BY <1>9, <3>2, GateMoves
      <4>2. Gate!Switch BY <1>1, <1>9, <2>1, <3>2, <4>1 DEF NoDevice, Gate!Switch
      <4> QED BY <4>2 DEF Gate!Next
    <3> QED BY <2>2, <3>1, <3>2
  <2>3. CASE curr_opcode \notin {243, 251} /\ NoDevice
    <3>1. inte' = inte BY <1>9, <2>3, GateMoves
    <3> QED BY <1>9, <2>1, <2>3, <3>1 DEF NoDevice, Enabled
  <2>4. CASE set_interrupt /\ curr_opcode \notin {243, 251}
    <3>1. inte' = inte BY <1>9, <2>4, GateMoves
    <3>2. Gate!Raise BY <1>1, <1>9, <2>1, <2>4, <3>1 DEF set_interrupt, Enabled, Gate!Raise
    <3> QED BY <3>2 DEF Gate!Next
  <2> QED BY <1>9, <2>2, <2>3, <2>4, ExecOutline DEF Outline
<1>10. CASE Stray /\ phase = "inject" BY <1>10 DEF Stray, Deliverable, Enabled, host
<1>11. CASE Stray /\ phase = "exec"
  <2>1. curr_opcode \notin {243, 251} BY <1>11, GateOpcodes DEF Stray, StrayAccess
  <2> QED BY <1>11, <2>1 DEF Stray, PromptDelivery, Enabled, host
<1>12. CASE UNCHANGED vars BY <1>12 DEF vars, Enabled, host
<1>13. Stray => phase \in {"inject", "exec"} BY DEF Stray, Executing
<1> QED
  BY <1>2, <1>3, <1>4, <1>5, <1>6, <1>7, <1>8, <1>9, <1>10, <1>11, <1>12, <1>13, ExecPhases
  DEF Next, step

(* The interrupt logic of check_interrupts, EI, DI, cpu8080_set_interrupt  *)
(* and cpu8080_start_program implements the gate, whatever the devices     *)
(* inject: one request per opening, the latest one; only an EI that the    *)
(* program fetched and a start open it, an EI inside the service opens     *)
(* nothing.                                                                *)
THEOREM GateImplemented == Spec => GateSpec
<1>1. Init => Gate!Init
  BY DEF Init, Gate!Init, GateOpen, GateRequest, GateServed, GateAsks, Serving, Enabled, BitOf, INTE_BIT
<1>2. TypeOK /\ TypeOK' /\ PromptDelivery /\ Deliverable /\ [Next]_vars
        => [Gate!Next]_(Gate!gvars)
  BY GateStep
<1> QED BY <1>1, <1>2, TypeCorrect, DeliveryIsPrompt, ServedIsLatched, PTL DEF Spec, GateSpec, Gate!Spec

-----------------------------------------------------------------------------

(* The length of each family of instructions that is no branch. *)
LEMMA Lengths ==
  ASSUME NEW op
  PROVE  /\ op \in LxiOps \cup {34, 50, 42, 58} => Length(op) = 3
         /\ op \in MviOps \cup ImmediateAluOps \cup {211, 219} => Length(op) = 2
         /\ op \in NopOps \cup {2, 18} \cup InxOps \cup DcxOps \cup InrOps \cup DcrOps
                   \cup RotateOps \cup DadOps \cup {10, 26} \cup PopOps \cup PushOps
                   \cup {227, 249, 235, 243, 251}
              => Length(op) = 1
         /\ op \in MovOps \cup AluOps => Length(op) = 1
<1> USE Columns DEF Length, ThreeByteOps, TwoByteOps, Calls, Jumps, MviOps, ImmediateAluOps,
                    ConditionalJumps, ConditionalCalls
<1>1. op \in LxiOps \cup {34, 50, 42, 58} => Length(op) = 3 BY DEF LxiOps
<1>2. op \in MviOps \cup ImmediateAluOps \cup {211, 219} => Length(op) = 2 OBVIOUS
<1>3. op \in NopOps \cup {2, 18} \cup InxOps \cup DcxOps \cup InrOps \cup DcrOps
             \cup RotateOps \cup DadOps \cup {10, 26} \cup PopOps \cup PushOps
             \cup {227, 249, 235, 243, 251}
        => Length(op) = 1
  BY DEF NopOps, InxOps, DcxOps, InrOps, DcrOps, RotateOps, DadOps, PopOps, PushOps
<1>4. op \in MovOps \cup AluOps => Length(op) = 1 BY DEF MovOps, AluOps
<1> QED BY <1>1, <1>2, <1>3, <1>4

(* A program is executed as it is laid out: every instruction that is no   *)
(* branch leaves PC behind its last operand, wherever it is executed from, *)
(* the interrupt bus and the end of memory included.                       *)
THEOREM LayoutFollowed == Spec => PcFollowsLength
<1> DEFINE Follows == Executing(Sequential) /\ phase' # "wild"
                        => reg_PC' = U16(reg_PC + Length(curr_opcode) - 1)
<1>1. TypeOK /\ [Next]_vars => [Follows]_vars
  <2> SUFFICES ASSUME TypeOK, Next, Executing(Sequential), phase' # "wild"
               PROVE  reg_PC' = U16(reg_PC + Length(curr_opcode) - 1)
    OBVIOUS
  <2>1. reg_PC \in Int /\ U16(reg_PC) = reg_PC BY ShortBounds DEF TypeOK, U16
  <2>2. ASSUME Length(curr_opcode) = 1, UNCHANGED reg_PC
        PROVE  reg_PC' = U16(reg_PC + Length(curr_opcode) - 1)
    BY <2>1, <2>2
  <2>3. ASSUME NEW n \in {1, 2}, Length(curr_opcode) = n + 1, Skip(n)
        PROVE  reg_PC' = U16(reg_PC + Length(curr_opcode) - 1)
    BY <2>1, <2>3 DEF Skip
  <2>4. ExecInstr BY DEF Next, step, Executing, StartProgram, SetInterrupt, TakeInterrupt,
                         NoInterrupt, AckInterrupt, tick, Stray, BeginStep
  <2> USE Lengths DEF Executing
  <2>10. CASE NOP BY <2>10, <2>2 DEF NOP
  <2>11. CASE STAX BY <2>11, <2>2 DEF STAX
  <2>12. CASE INX BY <2>12, <2>2 DEF INX
  <2>13. CASE DCX BY <2>13, <2>2 DEF DCX
  <2>14. CASE INR BY <2>14, <2>2 DEF INR
  <2>15. CASE DCR BY <2>15, <2>2 DEF DCR
  <2>16. CASE Rotate BY <2>16, <2>2 DEF Rotate
  <2>17. CASE DADInstr BY <2>17, <2>2 DEF DADInstr
  <2>18. CASE LDAX BY <2>18, <2>2 DEF LDAX
  <2>19. CASE MOV BY <2>19, <2>2 DEF MOV
  <2>20. CASE AluReg BY <2>20, <2>2 DEF AluReg
  <2>21. CASE POPInstr BY <2>21, <2>2 DEF POPInstr
  <2>22. CASE PUSHInstr BY <2>22, <2>2 DEF PUSHInstr
  <2>23. CASE XTHL BY <2>23, <2>2 DEF XTHL
  <2>24. CASE SPHL BY <2>24, <2>2 DEF SPHL
  <2>25. CASE XCHG BY <2>25, <2>2 DEF XCHG
  <2>26. CASE DI BY <2>26, <2>2 DEF DI
  <2>27. CASE EI BY <2>27, <2>2 DEF EI
  <2>28. CASE LXI BY <2>28, <2>3 DEF LXI
  <2>29. CASE SHLD BY <2>29, <2>3 DEF SHLD
  <2>30. CASE STA BY <2>30, <2>3 DEF STA
  <2>31. CASE MVI BY <2>31, <2>3 DEF MVI
  <2>32. CASE LHLD BY <2>32, <2>3 DEF LHLD
  <2>33. CASE LDA BY <2>33, <2>3 DEF LDA
  <2>34. CASE AluImm BY <2>34, <2>3 DEF AluImm
  <2>35. CASE IN_ BY <2>35, <2>3 DEF IN_
  <2>36. CASE OUT BY <2>36, <2>3 DEF OUT
  <2>37. ~(HLT \/ PCHL \/ JMP \/ CALL \/ RET \/ RST \/ NotTaken)
    <3>1. ~HLT /\ ~PCHL BY DEF HLT, PCHL, Sequential
    <3>2. ~JMP /\ ~CALL /\ ~RET BY DEF JMP, CALL, RET, Sequential, CondOps
    <3>3. ~RST /\ ~NotTaken BY DEF RST, NotTaken, Sequential
    <3> QED BY <3>1, <3>2, <3>3
  <2> QED
    BY <2>4, <2>10, <2>11, <2>12, <2>13, <2>14, <2>15, <2>16, <2>17, <2>18, <2>19,
       <2>20, <2>21, <2>22, <2>23, <2>24, <2>25, <2>26, <2>27, <2>28, <2>29, <2>30,
       <2>31, <2>32, <2>33, <2>34, <2>35, <2>36, <2>37 DEF ExecInstr
<1> QED BY <1>1, TypeCorrect, PTL DEF Spec, PcFollowsLength

-----------------------------------------------------------------------------
(* Writing one cell leaves the others. *)
LEMMA PeekPoke ==
  ASSUME NEW m, NEW a, NEW v, NEW x, Peek(Poke(m, a, v), x) # Peek(m, x)
  PROVE  x = a
BY DEF Peek, Poke

(* A push moves the stack pointer by two and writes the word it moved over. *)
LEMMA PushWrites ==
  ASSUME TypeOK, CanPush, NEW w, PUSH(w), NEW x, Peek(ram', x) # Peek(ram, x)
  PROVE  x \in {reg_SP', reg_SP' + 1} /\ reg_SP' = reg_SP - 2
<1>1. reg_SP \in Int /\ 2 <= reg_SP /\ reg_SP <= 65535 BY ShortBounds DEF TypeOK, CanPush
<1>2. reg_SP' = reg_SP - 2 BY <1>1 DEF PUSH, U16
<1> DEFINE once == Poke(ram, reg_SP - 1, Hi(w))
<1>3. ram' = Poke(once, reg_SP - 2, Lo(w)) BY DEF PUSH, Pushed
<1> HIDE DEF once
<1>4. x = reg_SP - 2 \/ Peek(once, x) # Peek(ram, x) BY <1>3, PeekPoke
<1>5. x = reg_SP - 2 \/ x = reg_SP - 1 BY <1>4, PeekPoke DEF once
<1> QED BY <1>1, <1>2, <1>5

(* Store writes the cell of HL, for the opcodes that name it.              *)
LEMMA StoreWrites ==
  ASSUME NEW n, NEW v, NEW f, Store(n, v, f), NEW x, Peek(ram', x) # Peek(ram, x)
  PROVE  n = "M" /\ x = HL(reg)
BY PeekPoke DEF Store
LEMMA NamesM ==
  ASSUME curr_opcode \in InrOps \cup DcrOps \cup MviOps \cup MovOps,
         Destination(curr_opcode) = "M"
  PROVE  curr_opcode \in HLWriters
<1> DEFINE op == curr_opcode
<1>1. op \in Int /\ 0 <= op /\ op < 128
  BY Columns DEF InrOps, DcrOps, MviOps, MovOps
<1>2. (op \div 8) % 8 = 6
  <2>1. (op \div 8) % 8 \in 0 .. 7 BY <1>1
  <2>2. \A i \in 0 .. 7 : Slots[i + 1] = "M" => i = 6 BY DEF Slots
  <2> QED BY <2>1, <2>2 DEF Destination
<1>3. CASE op \in InrOps \cup DcrOps \cup MviOps
  BY <1>1, <1>2, <1>3, Columns DEF InrOps, DcrOps, MviOps, HLWriters
<1>4. CASE op \in MovOps BY <1>1, <1>2, <1>4 DEF MovOps, HLWriters
<1> QED BY <1>3, <1>4

(* An instruction writes memory only where its addressing mode points.     *)
THEOREM WritesStayAddressed == Spec => WritesAreAddressed
<1> DEFINE Where(a) ==
             \/ curr_opcode \in StackWriters /\ a \in {reg_SP', reg_SP' + 1}
                                           /\ reg_SP' = reg_SP - 2
             \/ curr_opcode \in HLWriters /\ a = HL(reg)
             \/ curr_opcode = 34 /\ a \in {NextShort, NextShort + 1}
             \/ curr_opcode = 50 /\ a = NextShort
           Addressed == Executing(Byte \ {2, 18, 227})
                          => \A a \in DOMAIN ram' : Peek(ram', a) # Peek(ram, a) => Where(a)
<1>1. TypeOK /\ [Next]_vars => [Addressed]_vars
  <2> SUFFICES ASSUME TypeOK, Next, Executing(Byte \ {2, 18, 227}),
                      NEW a \in DOMAIN ram', Peek(ram', a) # Peek(ram, a)
               PROVE  Where(a)
    OBVIOUS
  <2>1. ~UNCHANGED ram OBVIOUS
  <2>2. ExecInstr
    BY <2>1 DEF Next, step, Executing, StartProgram, SetInterrupt, TakeInterrupt,
                NoInterrupt, AckInterrupt, tick, Stray, BeginStep
  <2>3. ASSUME NEW v, NEW f, Store(Destination(curr_opcode), v, f),
               curr_opcode \in InrOps \cup DcrOps \cup MviOps \cup MovOps
        PROVE  Where(a)
    BY <2>3, StoreWrites, NamesM
  <2>4. ASSUME NEW w, PUSH(w), CanPush, curr_opcode \in StackWriters PROVE Where(a)
    BY <2>4, PushWrites
  <2>10. CASE SHLD
    <3> DEFINE once == Poke(ram, NextShort, reg["L"])
    <3>1. a = NextShort + 1 \/ Peek(once, a) # Peek(ram, a) BY <2>10, PeekPoke DEF SHLD
    <3>2. a \in {NextShort, NextShort + 1} BY <3>1, PeekPoke
    <3> QED BY <2>10, <3>2 DEF SHLD, Executing
  <2>11. CASE STA BY <2>11, PeekPoke DEF STA, Executing
  <2>12. CASE INR BY <2>12, <2>3 DEF INR, Executing
  <2>13. CASE DCR BY <2>13, <2>3 DEF DCR, Executing
  <2>14. CASE MVI BY <2>14, <2>3 DEF MVI, Executing
  <2>15. CASE MOV BY <2>15, <2>3 DEF MOV, Executing
  <2>16. CASE PUSHInstr BY <2>16, <2>4 DEF PUSHInstr, Executing, StackWriters
  <2>17. CASE CALL BY <2>17, <2>4 DEF CALL, Executing, StackWriters
  <2>18. CASE RST BY <2>18, <2>4 DEF RST, Executing, StackWriters
  <2>19. ~(STAX \/ XTHL) BY DEF STAX, XTHL, Executing
  <2>20. ~(NOP \/ LXI \/ INX \/ DCX \/ Rotate \/ DADInstr \/ LDAX \/ LHLD \/ LDA)
    BY <2>1 DEF NOP, LXI, INX, DCX, Rotate, DADInstr, LDAX, LHLD, LDA
  <2>21. ~(HLT \/ AluReg \/ AluImm \/ POPInstr \/ NotTaken \/ JMP \/ RET)
    BY <2>1 DEF HLT, AluReg, AluImm, POPInstr, NotTaken, JMP, RET
  <2>22. ~(PCHL \/ SPHL \/ XCHG \/ DI \/ EI \/ IN_ \/ OUT)
    BY <2>1 DEF PCHL, SPHL, XCHG, DI, EI, IN_, OUT
  <2> QED
    BY <2>2, <2>10, <2>11, <2>12, <2>13, <2>14, <2>15, <2>16, <2>17, <2>18, <2>19,
       <2>20, <2>21, <2>22 DEF ExecInstr
<1> QED BY <1>1, TypeCorrect, PTL DEF Spec, WritesAreAddressed

-----------------------------------------------------------------------------
(* cpu8080_INR and cpu8080_DCR leave the carry.                            *)
LEMMA CountingKeepsCarry ==
  ASSUME NEW f \in Byte, NEW v \in Byte
  PROVE  /\ BitOf(IncrementedF(f, v), C_BIT) = BitOf(f, C_BIT)
         /\ BitOf(DecrementedF(f, v), C_BIT) = BitOf(f, C_BIT)
<1>1. C_BIT \in FlagMasks \ {A_BIT} /\ A_BIT \in FlagMasks BY DEF FlagMasks, A_BIT, C_BIT
<1>2. ASSUME NEW n \in Byte, NEW b \in {0, 1}
      PROVE  BitOf(SetFlag(set_SZP(f, n), A_BIT, b), C_BIT) = BitOf(f, C_BIT)
  <2> DEFINE g == set_SZP(f, n)
  <2>1. g \in Byte /\ BitOf(g, C_BIT) = BitOf(f, C_BIT) BY SZPByte, SZPFlags
  <2> HIDE DEF g
  <2>2. BitOf(SetFlag(g, A_BIT, b), C_BIT) = BitOf(g, C_BIT) BY <1>1, <2>1, SetFlagKeeps
  <2> QED BY <2>1, <2>2 DEF g
<1>3. Incremented(v) \in Byte /\ Decremented(v) \in Byte BY IncrementedType, DecrementedType
<1> QED BY <1>2, <1>3 DEF IncrementedF, DecrementedF, BitAnd

(* What an instruction listed with the carry alone may do to F.            *)
LEMMA CarryOnly ==
  ASSUME NEW r \in RegFile, NEW b \in {0, 1}, NEW m \in FlagMasks \ {C_BIT}
  PROVE  BitOf(WithFlag(r, C_BIT, b)["F"], m) = BitOf(r["F"], m)
<1>1. r["F"] \in Byte /\ WithFlag(r, C_BIT, b)["F"] = SetFlag(r["F"], C_BIT, b)
  BY RegByte, Names DEF WithFlag, RegFile
<1> QED BY <1>1, SetFlagKeeps, CarryMask

LEMMA RotatedKeeps ==
  ASSUME NEW r \in RegFile, NEW op \in RotateOps \ {39}, NEW m \in FlagMasks \ {C_BIT}
  PROVE  BitOf(Rotated(op, r)["F"], m) = BitOf(r["F"], m)
<1>1. ASSUME NEW b \in {0, 1}, NEW v
      PROVE  BitOf([WithFlag(r, C_BIT, b) EXCEPT !["A"] = v]["F"], m) = BitOf(r["F"], m)
  <2>1. [WithFlag(r, C_BIT, b) EXCEPT !["A"] = v]["F"] = WithFlag(r, C_BIT, b)["F"]
    BY Names DEF WithFlag, RegFile
  <2> QED BY <2>1, CarryOnly
<1>2. BitOf(r["A"], 128) \in {0, 1} /\ BitOf(r["A"], 1) \in {0, 1} /\ Flag(r, C_BIT) \in {0, 1}
  BY BitRange, RegByte, FlagBit, CarryMask, Names DEF Masks
<1>3. CASE op = 7 BY <1>1, <1>2, <1>3 DEF Rotated, RLC
<1>4. CASE op = 15 BY <1>1, <1>2, <1>4 DEF Rotated, RRC
<1>5. CASE op = 23 BY <1>1, <1>2, <1>5 DEF Rotated, RAL
<1>6. CASE op = 31 BY <1>1, <1>2, <1>6 DEF Rotated, RAR
<1>7. CASE op = 47
  <2>1. CMA(r)["F"] = r["F"] BY Names DEF CMA, RegFile
  <2> QED BY <1>7, <2>1 DEF Rotated
<1>8. CASE op = 55 BY <1>8, CarryOnly DEF Rotated, STC
<1>9. CASE op = 63
  <2>1. 1 - Flag(r, C_BIT) \in {0, 1} BY <1>2
  <2> QED BY <1>9, <2>1, CarryOnly DEF Rotated, CMC
<1> QED BY <1>3, <1>4, <1>5, <1>6, <1>7, <1>8, <1>9 DEF RotateOps

LEMMA DADKeeps ==
  ASSUME NEW r \in RegFile, NEW w \in Short, NEW m \in FlagMasks \ {C_BIT}
  PROVE  BitOf(DAD(r, w)["F"], m) = BitOf(r["F"], m)
<1> DEFINE b == BitOf(HL(r) + w, 65536)
<1>1. b \in {0, 1}
  <2>1. HL(r) + w \in Int BY HLShort, ShortBounds
  <2> QED BY <2>1 DEF BitOf
<1>2. DAD(r, w)["F"] = WithFlag(r, C_BIT, b)["F"] BY Names DEF DAD, WithFlag, RegFile
<1> HIDE DEF b
<1> QED BY <1>1, <1>2, CarryOnly

(* A flag that the table does not list for an instruction survives it.     *)
THEOREM FlagsStayListed == Spec => FlagsWithinTable
<1> DEFINE Kept == \A m \in FlagMasks \ ListedFlags(curr_opcode) :
                     BitOf(reg'["F"], m) = BitOf(reg["F"], m)
           Listed == Executing(Byte \ {241}) => Kept
<1>1. TypeOK /\ [Next]_vars => [Listed]_vars
  <2> SUFFICES ASSUME TypeOK, Next, Executing(Byte \ {241}) PROVE Kept
    OBVIOUS
  <2>1. ASSUME reg'["F"] = reg["F"] PROVE Kept BY <2>1
  <2>2. ASSUME UNCHANGED reg PROVE Kept BY <2>2
  <2>3. ExecInstr \/ UNCHANGED reg
    BY DEF Next, step, Executing, StartProgram, SetInterrupt, TakeInterrupt,
           NoInterrupt, AckInterrupt, tick, Stray, BeginStep
  <2>4. DOMAIN reg = RegName /\ reg["F"] \in Byte /\ reg \in RegFile
    BY RegByte, Names DEF TypeOK, RegFile
  <2>5. ASSUME NEW w, Store16(curr_opcode, w) PROVE Kept
    <3>1. CASE NamesSP(curr_opcode) BY <2>5, <3>1, <2>2 DEF Store16
    <3>2. CASE ~NamesSP(curr_opcode)
      <4>1. PairOf(curr_opcode)[1] # "F" /\ PairOf(curr_opcode)[2] # "F"
        <5>1. PairIndex(curr_opcode) \in 1 .. 3
          BY <3>2, ByteBounds DEF PairIndex, NamesSP, TypeOK
        <5> QED BY <3>2, <5>1 DEF PairOf, Pairs
      <4>2. reg'["F"] = reg["F"] BY <2>4, <2>5, <3>2, <4>1, Names DEF Store16, WithPair
      <4> QED BY <4>2, <2>1
    <3> QED BY <3>1, <3>2
  <2>6. ASSUME NEW n \in RegName \cup {"M"}, n # "F", NEW v, NEW f, Store(n, v, f)
        PROVE  reg'["F"] = f
    BY <2>4, <2>6, Names DEF Store
  <2>7. /\ Destination(curr_opcode) \in RegName \cup {"M"}
        /\ Destination(curr_opcode) # "F"
    <3>1. \A i \in 0 .. 7 : Slots[i + 1] # "F" BY DEF Slots
    <3>2. (curr_opcode \div 8) % 8 \in 0 .. 7 BY ByteBounds DEF TypeOK
    <3> QED BY <3>1, <3>2, SlotNames DEF Destination, TypeOK
  <2>8. Value(Destination(curr_opcode)) \in Byte BY <2>7, Operands
  <2>9. ASSUME ListedFlags(curr_opcode) = FlagMasks PROVE Kept BY <2>9
  <2>10. CASE INR
    <3>1. reg'["F"] = IncrementedF(reg["F"], Value(Destination(curr_opcode)))
      BY <2>10, <2>6, <2>7 DEF INR
    <3>2. ListedFlags(curr_opcode) = FlagMasks \ {C_BIT}
      BY <2>10, Columns DEF INR, Executing, InrOps, ListedFlags, ImmediateAluOps
    <3> QED BY <3>1, <3>2, <2>4, <2>8, CountingKeepsCarry
  <2>11. CASE DCR
    <3>1. reg'["F"] = DecrementedF(reg["F"], Value(Destination(curr_opcode)))
      BY <2>11, <2>6, <2>7 DEF DCR
    <3>2. ListedFlags(curr_opcode) = FlagMasks \ {C_BIT}
      BY <2>11, Columns DEF DCR, Executing, DcrOps, ListedFlags, ImmediateAluOps
    <3> QED BY <3>1, <3>2, <2>4, <2>8, CountingKeepsCarry
  <2>12. CASE MVI BY <2>12, <2>6, <2>7, <2>1 DEF MVI
  <2>13. CASE MOV BY <2>13, <2>6, <2>7, <2>1 DEF MOV
  <2>14. CASE LXI BY <2>14, <2>5 DEF LXI
  <2>15. CASE INX BY <2>15, <2>5 DEF INX
  <2>16. CASE DCX BY <2>16, <2>5 DEF DCX
  <2>17. CASE Rotate
    <3>1. CASE curr_opcode = 39
      <4>1. ListedFlags(curr_opcode) = FlagMasks BY <3>1, Columns DEF ListedFlags
      <4> QED BY <4>1, <2>9
    <3>2. CASE curr_opcode # 39
      <4>1. curr_opcode \in RotateOps \ {39} BY <2>17, <3>2 DEF Rotate, Executing
      <4>2. ListedFlags(curr_opcode) = {C_BIT} BY <4>1, Columns DEF ListedFlags, RotateOps,
              ImmediateAluOps
      <4> QED BY <2>17, <2>4, <4>1, <4>2, RotatedKeeps DEF Rotate
    <3> QED BY <3>1, <3>2
  <2>18. CASE DADInstr
    <3>1. ListedFlags(curr_opcode) = {C_BIT}
      BY <2>18, Columns DEF DADInstr, Executing, DadOps, ListedFlags, ImmediateAluOps
    <3>2. reg["H"] \in Short BY <2>4, RegByte, InShort, Names
    <3>3. PICK w \in Short : reg' = DAD(reg, w) BY <2>18, <3>2, Operands DEF DADInstr
    <3> QED BY <2>4, <3>1, <3>3, DADKeeps
  <2>19. CASE AluReg
    <3>1. ListedFlags(curr_opcode) = FlagMasks
      BY <2>19, Columns DEF AluReg, Executing, AluOps, ListedFlags
    <3> QED BY <3>1, <2>9
  <2>20. CASE AluImm
    <3>1. ListedFlags(curr_opcode) = FlagMasks
      BY <2>20, Columns DEF AluImm, Executing, ImmediateAluOps, ListedFlags
    <3> QED BY <3>1, <2>9
  <2>21. CASE LDAX BY <2>21, <2>1, <2>4, Names DEF LDAX
  <2>22. CASE LHLD BY <2>22, <2>1, <2>4, Names DEF LHLD
  <2>23. CASE LDA BY <2>23, <2>1, <2>4, Names DEF LDA
  <2>24. CASE IN_ BY <2>24, <2>1, <2>4, Names DEF IN_
  <2>25. CASE XTHL BY <2>25, <2>1, <2>4, Names DEF XTHL, WithPair
  <2>26. CASE XCHG BY <2>26, <2>1, <2>4, Names DEF XCHG, WithPair
  <2>27. CASE POPInstr
    <3>1. PairOf(curr_opcode)[1] # "F" /\ PairOf(curr_opcode)[2] # "F"
      <4>1. curr_opcode \in {193, 209, 225} BY <2>27 DEF POPInstr, PopOps, Executing
      <4> QED BY <4>1 DEF PairOf, Pairs, PairIndex, NamesSP
    <3> QED BY <2>27, <2>1, <2>4, <3>1, Names DEF POPInstr, WithPair
  <2>28. CASE NOP \/ STAX \/ SHLD \/ STA \/ HLT \/ PUSHInstr \/ NotTaken
    BY <2>28, <2>2 DEF NOP, STAX, SHLD, STA, HLT, PUSHInstr, NotTaken
  <2>29. CASE JMP \/ CALL \/ RET \/ RST \/ PCHL \/ SPHL \/ DI \/ EI \/ OUT
    BY <2>29, <2>2 DEF JMP, CALL, RET, RST, PCHL, SPHL, DI, EI, OUT
  <2> QED
    BY <2>2, <2>3, <2>10, <2>11, <2>12, <2>13, <2>14, <2>15, <2>16, <2>17, <2>18, <2>19,
       <2>20, <2>21, <2>22, <2>23, <2>24, <2>25, <2>26, <2>27, <2>28, <2>29 DEF ExecInstr
<1> QED BY <1>1, TypeCorrect, PTL DEF Spec, FlagsWithinTable

-----------------------------------------------------------------------------
(* The stack.  SP starts odd and moves by two, so it is never 0: a push    *)
(* finds room for both bytes or is a stray access, and a return from an    *)
(* empty stack is one.                                                     *)
StackAligned == phase # "off" => reg_SP % 2 = 1

(* The word that lies n words below the initial stack pointer. *)
FrameAt(m, n) == Word(Peek(m, StackFrom + 1 - 2 * n), Peek(m, StackFrom - 2 * n))

LEMMA StackBounds ==
  ASSUME TypeOK, StackAligned, phase # "off"
  PROVE  /\ reg_SP \in Int /\ 1 <= reg_SP /\ reg_SP <= 65535
         /\ Depth \in Nat /\ reg_SP = 65535 - 2 * Depth
         /\ Frames = [n \in 1 .. Depth |-> FrameAt(ram, n)]
         /\ Frames \in Seq(Short) /\ Len(Frames) = Depth
<1>1. reg_SP \in Int /\ 0 <= reg_SP /\ reg_SP <= 65535 BY ShortBounds DEF TypeOK
<1>2. reg_SP % 2 = 1 BY DEF StackAligned
<1>3. 1 <= reg_SP /\ Depth \in Nat /\ reg_SP = 65535 - 2 * Depth
  BY ONLY <1>1, <1>2 DEF Depth, StackFrom
<1>4. Frames = [n \in 1 .. Depth |-> FrameAt(ram, n)] BY DEF Frames, FrameAt
<1>5. \A n \in 1 .. Depth : FrameAt(ram, n) \in Short BY PeekByte, WordShort DEF FrameAt, TypeOK
<1>6. Frames \in Seq(Short) /\ Len(Frames) = Depth
  <2> HIDE DEF Depth, Frames
  <2> QED BY ONLY <1>3, <1>4, <1>5
<1> QED BY <1>1, <1>3, <1>4, <1>6

(* A step that moves neither SP nor a cell above it leaves the frames. *)
LEMMA FramesStay ==
  ASSUME TypeOK, TypeOK', StackAligned, StackAligned', phase # "off", phase' # "off",
         reg_SP' = reg_SP,
         \A a \in Int : reg_SP <= a /\ a < 65535 => Peek(ram', a) = Peek(ram, a)
  PROVE  Frames' = Frames
<1>1. /\ reg_SP \in Int /\ Depth \in Nat /\ reg_SP = 65535 - 2 * Depth
      /\ Frames = [n \in 1 .. Depth |-> FrameAt(ram, n)]
  BY StackBounds
<1>2. Depth' = Depth BY DEF Depth
<1>3. Frames' = [n \in 1 .. Depth |-> FrameAt(ram', n)] BY <1>2 DEF Frames, FrameAt
<1>4. ASSUME NEW n \in 1 .. Depth PROVE FrameAt(ram', n) = FrameAt(ram, n)
  <2>1. /\ 65535 + 1 - 2 * n \in Int /\ reg_SP <= 65535 + 1 - 2 * n /\ 65535 + 1 - 2 * n < 65535
        /\ 65535 - 2 * n \in Int /\ reg_SP <= 65535 - 2 * n /\ 65535 - 2 * n < 65535
    BY ONLY <1>1, <1>4
  <2> QED BY <2>1 DEF FrameAt, StackFrom
<1> QED BY ONLY <1>1, <1>3, <1>4

(* A push appends the word that is pushed. *)
LEMMA FramesGrow ==
  ASSUME TypeOK, TypeOK', StackAligned, phase # "off", phase' # "off",
         CanPush, NEW w \in Short, PUSH(w)
  PROVE  StackAligned' /\ Frames' = Append(Frames, w)
<1>1. /\ reg_SP \in Int /\ reg_SP <= 65535 /\ Depth \in Nat /\ reg_SP = 65535 - 2 * Depth
      /\ Frames = [n \in 1 .. Depth |-> FrameAt(ram, n)]
      /\ Frames \in Seq(Short) /\ Len(Frames) = Depth
  BY StackBounds
<1>2. 2 <= reg_SP BY DEF CanPush
<1>3. reg_SP' = reg_SP - 2 BY ONLY <1>1, <1>2, PUSH(w) DEF PUSH, U16
<1>4. reg_SP' % 2 = 1 BY ONLY <1>1, <1>3
<1>5. Depth' = Depth + 1 BY ONLY <1>1, <1>3 DEF Depth, StackFrom
<1>6. Frames' = [n \in 1 .. Depth + 1 |-> FrameAt(ram', n)] BY <1>5 DEF Frames, FrameAt
<1>7. ram' = Poke(Poke(ram, reg_SP - 1, Hi(w)), reg_SP - 2, Lo(w)) BY DEF PUSH, Pushed
<1>8. /\ Peek(ram', reg_SP - 1) = Hi(w) /\ Peek(ram', reg_SP - 2) = Lo(w)
      /\ \A a \in Int : reg_SP <= a => Peek(ram', a) = Peek(ram, a)
  BY ONLY <1>1, <1>7 DEF Peek, Poke
<1>9. FrameAt(ram', Depth + 1) = w
  <2>1. StackFrom + 1 - 2 * (Depth + 1) = reg_SP - 1 /\ StackFrom - 2 * (Depth + 1) = reg_SP - 2
    BY ONLY <1>1 DEF StackFrom
  <2>2. Word(Hi(w), Lo(w)) = w BY HalfBytes
  <2> QED BY <1>8, <2>1, <2>2 DEF FrameAt
<1>10. ASSUME NEW n \in 1 .. Depth PROVE FrameAt(ram', n) = FrameAt(ram, n)
  <2>1. /\ StackFrom + 1 - 2 * n \in Int /\ reg_SP <= StackFrom + 1 - 2 * n
        /\ StackFrom - 2 * n \in Int /\ reg_SP <= StackFrom - 2 * n
    BY ONLY <1>1, <1>10 DEF StackFrom
  <2> QED BY <1>8, <2>1 DEF FrameAt
<1>11. Frames' = Append(Frames, w) BY ONLY <1>1, <1>6, <1>9, <1>10
<1> QED BY <1>4, <1>11 DEF StackAligned

(* A pop removes the newest frame, which is the word it reads. *)
LEMMA FramesShrink ==
  ASSUME TypeOK, TypeOK', StackAligned, phase # "off", phase' # "off",
         CanPop, POP, ram' = ram
  PROVE  StackAligned' /\ Frames # <<>> /\ Stack!Top = Top /\ Frames' = Stack!Popped
<1>1. /\ reg_SP \in Int /\ 1 <= reg_SP /\ reg_SP <= 65535
      /\ Depth \in Nat /\ reg_SP = 65535 - 2 * Depth
      /\ Frames = [n \in 1 .. Depth |-> FrameAt(ram, n)]
      /\ Frames \in Seq(Short) /\ Len(Frames) = Depth
  BY StackBounds
<1>2. reg_SP < 65535 BY DEF CanPop, MaxShort
<1>3. Depth >= 1 BY ONLY <1>1, <1>2
<1>4. reg_SP' = reg_SP + 2 BY ONLY <1>1, <1>2, POP DEF POP, U16
<1>5. reg_SP' % 2 = 1 BY ONLY <1>1, <1>4
<1>6. Depth' = Depth - 1 BY ONLY <1>1, <1>4 DEF Depth, StackFrom
<1>7. Frames' = [n \in 1 .. Depth - 1 |-> FrameAt(ram, n)] BY <1>6 DEF Frames, FrameAt
<1>8. Frames[Len(Frames)] = Top
  <2>1. StackFrom + 1 - 2 * Depth = reg_SP + 1 /\ StackFrom - 2 * Depth = reg_SP
    BY ONLY <1>1 DEF StackFrom
  <2>2. Frames[Len(Frames)] = FrameAt(ram, Depth) BY ONLY <1>1, <1>3
  <2> QED BY <2>1, <2>2 DEF FrameAt, Top
<1>9. Frames' = SubSeq(Frames, 1, Len(Frames) - 1) BY ONLY <1>1, <1>3, <1>7
<1>10. Frames # <<>> BY ONLY <1>1, <1>3
<1> QED BY <1>5, <1>8, <1>9, <1>10 DEF StackAligned, Stack!Top, Stack!Popped

(* What else is stored misses the frames. *)
LEMMA StoresMiss ==
  ASSUME TypeOK, LeavesStack, ExecInstr, ~(PUSHInstr \/ CALL \/ RST),
         NEW a \in Int, reg_SP <= a, a < 65535
  PROVE  Peek(ram', a) = Peek(ram, a)
<1>1. reg_SP \in Int BY ShortBounds DEF TypeOK
<1>2. Executing(Byte) BY ExecPhases DEF Executing, TypeOK
<1>3. a \notin StoresAt BY <1>1, <1>2 DEF LeavesStack, StackFrom
<1>4. ASSUME NEW v, NEW f, Store(Destination(curr_opcode), v, f),
             curr_opcode \in InrOps \cup DcrOps \cup MviOps \cup MovOps
      PROVE  Peek(ram', a) = Peek(ram, a)
  <2>1. 118 \notin InrOps /\ 118 \notin DcrOps /\ 118 \notin MviOps
    BY ONLY Columns DEF InrOps, DcrOps, MviOps
  <2>2. curr_opcode # 118
    <3>1. 118 \notin MovOps BY ONLY TRUE DEF MovOps
    <3> QED BY ONLY <1>4, <2>1, <3>1
  <2>3. curr_opcode \in HLWriters => a # HL(reg)
    BY <2>2, <1>3 DEF StoresAt, HLWriters
  <2>4. SUFFICES ASSUME Peek(ram', a) # Peek(ram, a) PROVE FALSE OBVIOUS
  <2>5. Destination(curr_opcode) = "M" /\ a = HL(reg) BY ONLY <1>4, <2>4, StoreWrites
  <2> QED BY ONLY <1>4, <2>3, <2>5, NamesM
<1>5. CASE STAX
  <2> DEFINE x == U16(RamBase + PairWord(reg, PairOf(curr_opcode)))
  <2>1. curr_opcode \in {2, 18} /\ ram' = Poke(ram, x, reg["A"]) BY ONLY <1>5 DEF STAX, Executing
  <2>2. StoresAt = {x}
    <3> HIDE DEF x
    <3> QED BY ONLY <2>1 DEF StoresAt, HLWriters, x
  <2> HIDE DEF x
  <2> QED BY ONLY <1>3, <2>1, <2>2, PeekPoke
<1>6. CASE SHLD
  <2> DEFINE once == Poke(ram, NextShort, reg["L"])
  <2>1. a # NextShort /\ a # NextShort + 1
    BY <1>6, <1>3 DEF SHLD, Executing, StoresAt, HLWriters
  <2>2. Peek(once, a) = Peek(ram, a) BY <2>1, PeekPoke
  <2> HIDE DEF once
  <2>3. ram' = Poke(once, NextShort + 1, reg["H"]) BY <1>6 DEF SHLD, once
  <2> QED BY <2>1, <2>2, <2>3, PeekPoke
<1>7. CASE STA BY <1>7, <1>3, PeekPoke DEF STA, Executing, StoresAt, HLWriters
<1>8. CASE INR BY <1>8, <1>4 DEF INR, Executing
<1>9. CASE DCR BY <1>9, <1>4 DEF DCR, Executing
<1>10. CASE MVI BY <1>10, <1>4 DEF MVI, Executing
<1>11. CASE MOV BY <1>11, <1>4 DEF MOV, Executing
<1>12. CASE XTHL
  <2> DEFINE once == Poke(ram, reg_SP - 1, Hi(HL(reg)))
  <2>1. ram' = Poke(once, reg_SP - 2, Lo(HL(reg))) BY <1>12 DEF XTHL, Pushed
  <2>2. a # reg_SP - 1 /\ a # reg_SP - 2 BY <1>1
  <2>3. Peek(once, a) = Peek(ram, a) BY <2>2, PeekPoke
  <2> HIDE DEF once
  <2> QED BY <2>1, <2>2, <2>3, PeekPoke
<1>13. CASE NOP \/ LXI \/ INX \/ DCX \/ Rotate \/ DADInstr \/ LDAX \/ LHLD \/ LDA
  <2>1. ram' = ram BY ONLY <1>13 DEF NOP, LXI, INX, DCX, Rotate, DADInstr, LDAX, LHLD, LDA
  <2> QED BY ONLY <2>1
<1>14. CASE HLT \/ AluReg \/ AluImm \/ POPInstr \/ NotTaken \/ JMP \/ RET
  <2>1. ram' = ram BY ONLY <1>14 DEF HLT, AluReg, AluImm, POPInstr, NotTaken, JMP, RET
  <2> QED BY ONLY <2>1
<1>15. CASE PCHL \/ SPHL \/ XCHG \/ DI \/ EI \/ IN_ \/ OUT
  <2>1. ram' = ram BY ONLY <1>15 DEF PCHL, SPHL, XCHG, DI, EI, IN_, OUT
  <2> QED BY ONLY <2>1
<1> QED
  BY <1>5, <1>6, <1>7, <1>8, <1>9, <1>10, <1>11, <1>12, <1>13, <1>14, <1>15 DEF ExecInstr

(* Nothing but a stack instruction moves SP. *)
LEMMA PointerStays ==
  ASSUME TypeOK, LeavesStack, ExecInstr, ~(PUSHInstr \/ CALL \/ RST \/ POPInstr \/ RET)
  PROVE  reg_SP' = reg_SP
<1>1. Executing(Byte) BY ExecPhases DEF Executing, TypeOK
<1>2. curr_opcode \notin SetsSP BY <1>1 DEF LeavesStack
<1>3. ASSUME NEW w, Store16(curr_opcode, w), curr_opcode \in LxiOps \cup InxOps \cup DcxOps
      PROVE  reg_SP' = reg_SP
  <2>1. curr_opcode \in {1, 17, 33, 3, 19, 35, 11, 27, 43}
    BY <1>2, <1>3 DEF SetsSP, LxiOps, InxOps, DcxOps
  <2>2. ~NamesSP(curr_opcode) BY <2>1 DEF NamesSP, PairIndex
  <2> QED BY <1>3, <2>2 DEF Store16
<1>4. CASE LXI BY <1>4, <1>3 DEF LXI, Executing
<1>5. CASE INX BY <1>5, <1>3 DEF INX, Executing
<1>6. CASE DCX BY <1>6, <1>3 DEF DCX, Executing
<1>7. CASE NOP \/ STAX \/ SHLD \/ STA \/ INR \/ DCR \/ MVI \/ Rotate \/ DADInstr \/ LDAX \/ LHLD \/ LDA
  BY <1>7 DEF NOP, STAX, SHLD, STA, INR, DCR, MVI, Rotate, DADInstr, LDAX, LHLD, LDA
<1>8. CASE MOV \/ HLT \/ AluReg \/ AluImm \/ XTHL \/ NotTaken \/ JMP
  BY <1>8 DEF MOV, HLT, AluReg, AluImm, XTHL, NotTaken, JMP
<1>9. CASE PCHL \/ XCHG \/ DI \/ EI \/ IN_ \/ OUT
  BY <1>9 DEF PCHL, XCHG, DI, EI, IN_, OUT
<1>10. ~SPHL BY <1>2 DEF SPHL, Executing, SetsSP
<1> QED BY <1>4, <1>5, <1>6, <1>7, <1>8, <1>9, <1>10 DEF ExecInstr

LEMMA StackStep ==
  ASSUME TypeOK, TypeOK', StackAligned, LeavesStack, [Next]_vars
  PROVE  StackAligned' /\ [Stack!Next]_<<reg_PC, Frames, starts>>
<1>1. reg_PC' \in Stack!Addr /\ reg_PC \in Int
  <2>1. reg_PC \in Short /\ reg_PC' \in Short BY DEF TypeOK
  <2>2. Short = Stack!Addr BY ONLY TRUE DEF Short, MaxShort, Stack!Addr
  <2> QED BY <2>1, <2>2, ShortBounds
<1>2. ASSUME phase # "off", phase' # "off", UNCHANGED <<reg_SP, ram, starts>>
      PROVE  StackAligned' /\ Stack!Advance
  <2>1. StackAligned' BY <1>2 DEF StackAligned
  <2> QED BY <1>1, <1>2, <2>1, FramesStay DEF Stack!Advance
<1>3. CASE StartProgram
  <2>1. reg_SP' = 65535 /\ phase' # "off" BY <1>3 DEF StartProgram, StackFrom
  <2>2. StackAligned' BY <2>1 DEF StackAligned
  <2>3. Len(Frames') = 0 /\ Frames' \in Seq(Short)
    <3>1. Depth' = 0 BY <2>1 DEF Depth, StackFrom
    <3>2. Frames' = [n \in 1 .. Depth' |-> FrameAt(ram', n)] BY <2>1 DEF Frames, FrameAt
    <3> QED BY ONLY <3>1, <3>2
  <2>4. Stack!Restart BY <1>1, <1>3, <2>3 DEF Stack!Restart, StartProgram
  <2> QED BY <2>2, <2>4 DEF Stack!Next
<1>4. CASE SetInterrupt BY <1>4, <1>2 DEF SetInterrupt, Stack!Next
<1>5. CASE TakeInterrupt \/ NoInterrupt \/ AckInterrupt \/ tick \/ Stray
  BY <1>5, <1>2 DEF TakeInterrupt, NoInterrupt, AckInterrupt, tick, Stray, BeginStep, Executing, Stack!Next, host
<1>6. CASE UNCHANGED vars
  BY <1>6 DEF vars, host, StackAligned, Frames, Depth
<1>7. ASSUME ExecInstr PROVE phase # "off" /\ phase' # "off" /\ reg_PC' \in Short /\ starts' = starts
  BY <1>7, ExecPhases DEF TypeOK
<1>8. CASE ExecInstr /\ ~(PUSHInstr \/ CALL \/ RST \/ POPInstr \/ RET)
  <2>1. reg_SP' = reg_SP BY <1>8, PointerStays
  <2>2. StackAligned' BY <2>1, <1>7, <1>8 DEF StackAligned
  <2>3. \A a \in Int : reg_SP <= a /\ a < 65535 => Peek(ram', a) = Peek(ram, a)
    BY <1>8, StoresMiss
  <2>4. Frames' = Frames BY <1>7, <1>8, <2>1, <2>2, <2>3, FramesStay
  <2> QED BY <1>1, <1>7, <1>8, <2>2, <2>4 DEF Stack!Advance, Stack!Next
<1>9. CASE PUSHInstr
  <2>1. ExecInstr BY <1>9 DEF ExecInstr
  <2>2. /\ CanPush /\ PUSH(PairWord(reg, PairOf(curr_opcode))) /\ reg_PC' = reg_PC
        /\ PairWord(reg, PairOf(curr_opcode)) \in Short
    BY <1>9, PairNames, PairWordShort DEF PUSHInstr, TypeOK
  <2>3. StackAligned' /\ Frames' = Append(Frames, PairWord(reg, PairOf(curr_opcode)))
    BY <1>7, <2>1, <2>2, FramesGrow
  <2>4. Frames \in Seq(Short) BY <1>7, <2>1, StackBounds
  <2>5. Len(Frames') = Len(Frames) + 1 /\ SubSeq(Frames', 1, Len(Frames)) = Frames
    <3> HIDE DEF Frames
    <3> QED BY ONLY <2>2, <2>3, <2>4
  <2> QED BY <1>7, <2>1, <2>2, <2>3, <2>5 DEF Stack!Push, Stack!Next
<1>10. CASE CALL
  <2>1. ExecInstr BY <1>10 DEF ExecInstr
  <2>2. CanPush /\ PUSH(U16(reg_PC + 2)) /\ U16(reg_PC + 2) \in Short
    BY <1>1, <1>10, U16Short DEF CALL
  <2>3. StackAligned' /\ Frames' = Append(Frames, U16(reg_PC + 2)) BY <1>7, <2>1, <2>2, FramesGrow
  <2>4. Stack!Call BY <1>1, <1>7, <2>1, <2>3 DEF Stack!Call, U16
  <2> QED BY <2>3, <2>4 DEF Stack!Next
<1>11. CASE RST
  <2>1. ExecInstr BY <1>11 DEF ExecInstr
  <2>2. CanPush /\ PUSH(reg_PC) BY <1>11 DEF RST
  <2>3. reg_PC \in Short /\ reg_PC = (reg_PC + 0) % 65536 BY ShortBounds DEF TypeOK
  <2>4. StackAligned' /\ Frames' = Append(Frames, reg_PC) BY <1>7, <2>1, <2>2, <2>3, FramesGrow
  <2>5. Stack!Call BY <1>1, <1>7, <2>1, <2>3, <2>4 DEF Stack!Call
  <2> QED BY <2>4, <2>5 DEF Stack!Next
<1>12. CASE POPInstr
  <2>1. ExecInstr BY <1>12 DEF ExecInstr
  <2>2. CanPop /\ POP /\ ram' = ram /\ reg_PC' = reg_PC BY <1>12 DEF POPInstr
  <2>3. StackAligned' /\ Frames # <<>> /\ Frames' = Stack!Popped BY <1>7, <2>1, <2>2, FramesShrink
  <2> QED BY <1>7, <2>1, <2>2, <2>3 DEF Stack!Pop, Stack!Next
<1>13. CASE RET
  <2>1. ExecInstr BY <1>13 DEF ExecInstr
  <2>2. CanPop /\ POP /\ ram' = ram /\ reg_PC' = Top BY <1>13 DEF RET
  <2>3. StackAligned' /\ Frames # <<>> /\ Stack!Top = Top /\ Frames' = Stack!Popped
    BY <1>7, <2>1, <2>2, FramesShrink
  <2> QED BY <1>7, <2>1, <2>2, <2>3 DEF Stack!Return, Stack!Next
<1> QED
  BY <1>3, <1>4, <1>5, <1>6, <1>8, <1>9, <1>10, <1>11, <1>12, <1>13 DEF Next, step

(* For a program that leaves SP to the stack instructions and stores       *)
(* nothing into the frames, wherever it is interrupted or restarted, the   *)
(* memory above SP is a pushdown store of words: cpu8080_PUSH and          *)
(* cpu8080_POP are each other's inverse, RET goes behind the CALL or to    *)
(* the place the restart interrupted, and an empty stack is never popped.  *)
THEOREM StackImplemented == Spec /\ []LeavesStack => StackSpec
<1>1. Init => StackAligned /\ Stack!Init
  BY DEF Init, StackAligned, Stack!Init, Frames
<1>2. TypeOK /\ TypeOK' /\ StackAligned /\ LeavesStack /\ [Next]_vars
        => StackAligned' /\ [Stack!Next]_<<reg_PC, Frames, starts>>
  BY StackStep
<1> QED BY <1>1, <1>2, TypeCorrect, PTL DEF Spec, StackSpec, Stack!Spec
=============================================================================
