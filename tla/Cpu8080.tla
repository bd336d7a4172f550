------------------------------ MODULE Cpu8080 ------------------------------
(***************************************************************************)
(* The simulated processor of cpu8080_emulator.c and its host.             *)
(*                                                                         *)
(* Every static variable of the source file is a variable here.  The       *)
(* machine runs when the host calls cpu8080_step, which first offers a     *)
(* pending interrupt the machine (check_interrupts) and then executes one  *)
(* instruction (tick); phase is the place inside that call, and "idle"     *)
(* means that the host has control.  The switch of cpu8080_exec_instr is   *)
(* one action per family of opcodes.                                       *)
(***************************************************************************)
EXTENDS Alu8080, Tables8080, Sequences

CONSTANTS
  Programs,       \* what the host may start: records [data, start]
  PortBytes,      \* the bytes a device may answer to IN
  InterruptOps,   \* the opcodes a device may put on the interrupt bus
  PortsRaise,     \* whether a port function may call cpu8080_set_interrupt
  HiFirst,        \* the build evaluates the left next_byte of next_short first
  RamBase,        \* the low 16 bits of the address of the array ram
  ClockSize,      \* 65536: clock is a cpu8080_short_t
  MaxRaises,      \* bound on calls of cpu8080_set_interrupt
  MaxStarts       \* bound on calls of cpu8080_start_program

ASSUME ProgramsAssumption ==
  \A p \in Programs : /\ p.data \in Seq(Byte) /\ Len(p.data) \in Short
                      /\ p.start \in Short
ASSUME DeviceAssumption ==
  PortBytes \subseteq Byte /\ InterruptOps \subseteq Byte /\ PortsRaise \in BOOLEAN
ASSUME BuildAssumption ==
  HiFirst \in BOOLEAN /\ RamBase \in Short /\ ClockSize \in Nat \ {0}
ASSUME BoundAssumption == MaxRaises \in Nat /\ MaxStarts \in Nat

VARIABLES
  reg,            \* A, F, B, C, D, E, H, L
  reg_PC, reg_SP,
  ram,            \* the cells written so far; static storage starts at zero
  halt, clock, long_exec,
  inte, inte_bus, inte_pending,
  curr_opcode,
  phase,          \* the place in cpu8080_step
  raised, starts  \* how many calls of the host the bounds have counted

gate == <<inte, inte_bus, inte_pending>>
host == <<raised, starts>>
vars == <<reg, reg_PC, reg_SP, ram, halt, clock, long_exec, gate, curr_opcode, phase, host>>

Phases == {"off", "idle", "inject", "ack", "fetch", "exec", "wild"}

(* A piece of the 64 KB array: the cells written so far, with their bytes.  *)
IsMemory(m) == DOMAIN m \subseteq Short /\ m \in [DOMAIN m -> Byte]

TypeOK ==
  /\ reg \in RegFile
  /\ reg_PC \in Short /\ reg_SP \in Short
  /\ IsMemory(ram)
  /\ halt \in BOOLEAN /\ clock \in 0 .. ClockSize - 1 /\ long_exec \in BOOLEAN
  /\ inte \in Byte /\ inte_bus \in Byte /\ inte_pending \in BOOLEAN
  /\ curr_opcode \in Byte
  /\ phase \in Phases
  /\ raised \in 0 .. MaxRaises /\ starts \in 0 .. MaxStarts

-----------------------------------------------------------------------------
(* Memory.  An address outside 0 .. 65535 is never given to Peek or Poke:  *)
(* StrayAccess below names the instructions that would use one.            *)
Peek(m, a) == IF a \in DOMAIN m THEN m[a] ELSE 0
Poke(m, a, v) == [x \in DOMAIN m \cup {a} |-> IF x = a THEN v ELSE m[x]]

NextByte == Peek(ram, reg_PC)
NextShort ==
  LET second == Peek(ram, U16(reg_PC + 1))
  IN  IF HiFirst THEN Word(NextByte, second) ELSE Word(second, NextByte)
(* The second of two bytes at the operand address is still in the array.   *)
PairFits == NextShort < MaxShort
Skip(n) == reg_PC' = U16(reg_PC + n)

(* Register operands.  "M" is the memory cell that HL points at.           *)
Slots == <<"B", "C", "D", "E", "H", "L", "M", "A">>
Source(op)      == Slots[(op % 8) + 1]
Destination(op) == Slots[((op \div 8) % 8) + 1]

Value(n) == IF n = "M" THEN Peek(ram, HL(reg)) ELSE reg[n]
(* Store v where n names and f in the flags. *)
Store(n, v, f) ==
  /\ reg' = IF n = "M" THEN [reg EXCEPT !["F"] = f] ELSE [reg EXCEPT !["F"] = f, ![n] = v]
  /\ ram' = IF n = "M" THEN Poke(ram, HL(reg), v) ELSE ram

(* Register pairs, as the high and the low register.                       *)
Pairs == <<<<"B", "C">>, <<"D", "E">>, <<"H", "L">>>>
PairIndex(op) == ((op \div 16) % 4) + 1
NamesSP(op)   == PairIndex(op) = 4
PairOf(op) == IF NamesSP(op) THEN <<"A", "F">> ELSE Pairs[PairIndex(op)]
PairWord(r, p) == Word(r[p[1]], r[p[2]])
WithPair(r, p, w) == [r EXCEPT ![p[1]] = Hi(w), ![p[2]] = Lo(w)]
(* The 16-bit operand of LXI, INX, DCX and DAD, where index 4 is SP.       *)
Operand16(op) == IF NamesSP(op) THEN reg_SP ELSE PairWord(reg, PairOf(op))
Store16(op, w) ==
  IF NamesSP(op) THEN reg_SP' = w /\ UNCHANGED reg
                 ELSE reg' = WithPair(reg, PairOf(op), w) /\ UNCHANGED reg_SP

(* The stack.                                                              *)
Pushed_AtSP(m, w) == Poke(Poke(m, reg_SP, Hi(w)), reg_SP - 1, Lo(w)) \* mutant
Pushed(m, w) == Poke(Poke(m, reg_SP - 1, Hi(w)), reg_SP - 2, Lo(w))
PUSH(w) == ram' = Pushed(ram, w) /\ reg_SP' = U16(reg_SP - 2)
Top_Swapped == Word(Peek(ram, reg_SP), Peek(ram, reg_SP + 1)) \* mutant
Top == Word(Peek(ram, reg_SP + 1), Peek(ram, reg_SP))
POP == reg_SP' = U16(reg_SP + 2)

(* Bits 3 to 5 of a conditional opcode name a flag and the value it needs. *)
Holds(op) ==
  LET c == (op \div 8) % 8
  IN  Flag(reg, <<Z_BIT, C_BIT, P_BIT, S_BIT>>[(c \div 2) + 1]) = c % 2
(* JP (242) tests the flag of JM. *)
Taken(op) == IF op = 242 THEN Flag(reg, S_BIT) = 1 ELSE Holds(op)

-----------------------------------------------------------------------------
(* cpu8080_exec_instr.                                                     *)
NopOps   == Column(0, 0)
LxiOps   == {1, 17, 33, 49}
DadOps   == {9, 25, 41, 57}
InxOps   == {3, 19, 35, 51}
DcxOps   == {11, 27, 43, 59}
InrOps   == Column(0, 4)
DcrOps   == Column(0, 5)
RotateOps == {7, 15, 23, 31, 39, 47, 55, 63}
MovOps   == (64 .. 127) \ {118}
AluOps   == 128 .. 191
PopOps   == {193, 209, 225, 241}
PushOps  == {197, 213, 229, 245}
CondOps  == ConditionalReturns \cup ConditionalJumps \cup ConditionalCalls

Executing(ops) == phase \in {"inject", "exec"} /\ curr_opcode \in ops

(* The end of cpu8080_exec_instr, and the return to its caller.            *)
Retire(long) ==
  /\ long_exec' = long
  /\ clock' = (clock + Duration(curr_opcode) \div (IF long THEN 16 ELSE 1)) % ClockSize
  /\ phase' = IF phase = "inject" THEN "ack" ELSE "idle"
  /\ UNCHANGED <<curr_opcode, starts>>
NoDevice == UNCHANGED <<inte_bus, inte_pending, raised>>
NoControl == NoDevice /\ UNCHANGED <<halt, inte>>

NOP ==
  /\ Executing(NopOps)
  /\ UNCHANGED <<reg, reg_PC, reg_SP, ram>> /\ Retire(FALSE) /\ NoControl

LXI ==
  /\ Executing(LxiOps)
  /\ Store16(curr_opcode, NextShort) /\ Skip(2)
  /\ UNCHANGED ram /\ Retire(FALSE) /\ NoControl

(* The address of ram is added to the pair before ram is indexed.          *)
STAX ==
  /\ Executing({2, 18})
  /\ ram' = Poke(ram, U16(RamBase + PairWord(reg, PairOf(curr_opcode))), reg["A"])
  /\ UNCHANGED <<reg, reg_PC, reg_SP>> /\ Retire(FALSE) /\ NoControl

SHLD ==
  /\ Executing({34}) /\ PairFits
  /\ ram' = Poke(Poke(ram, NextShort, reg["L"]), NextShort + 1, reg["H"])
  /\ Skip(2) /\ UNCHANGED <<reg, reg_SP>> /\ Retire(FALSE) /\ NoControl

STA ==
  /\ Executing({50})
  /\ ram' = Poke(ram, NextShort, reg["A"])
  /\ Skip(2) /\ UNCHANGED <<reg, reg_SP>> /\ Retire(FALSE) /\ NoControl

INX ==
  /\ Executing(InxOps)
  /\ Store16(curr_opcode, U16(Operand16(curr_opcode) + 1))
  /\ UNCHANGED <<reg_PC, ram>> /\ Retire(FALSE) /\ NoControl

DCX ==
  /\ Executing(DcxOps)
  /\ Store16(curr_opcode, U16(Operand16(curr_opcode) - 1))
  /\ UNCHANGED <<reg_PC, ram>> /\ Retire(FALSE) /\ NoControl

INR ==
  /\ Executing(InrOps)
  /\ LET n == Destination(curr_opcode)
     IN  Store(n, Incremented(Value(n)), IncrementedF(reg["F"], Value(n)))
  /\ UNCHANGED <<reg_PC, reg_SP>> /\ Retire(FALSE) /\ NoControl

DCR ==
  /\ Executing(DcrOps)
  /\ LET n == Destination(curr_opcode)
     IN  Store(n, Decremented(Value(n)), DecrementedF(reg["F"], Value(n)))
  /\ UNCHANGED <<reg_PC, reg_SP>> /\ Retire(FALSE) /\ NoControl

(* mutant: the operand is read and not stepped over. *)
MVI_KeepsPC ==
  /\ Executing(MviOps)
  /\ Store(Destination(curr_opcode), NextByte, reg["F"])
  /\ UNCHANGED <<reg_PC, reg_SP>> /\ Retire(FALSE) /\ NoControl
MVI ==
  /\ Executing(MviOps)
  /\ Store(Destination(curr_opcode), NextByte, reg["F"])
  /\ Skip(1) /\ UNCHANGED reg_SP /\ Retire(FALSE) /\ NoControl

(* The one-byte operations on A and the carry, DAA and CMA among them.     *)
Rotate ==
  /\ Executing(RotateOps)
  /\ reg' = Rotated(curr_opcode, reg)
  /\ UNCHANGED <<reg_PC, reg_SP, ram>> /\ Retire(FALSE) /\ NoControl

(* DAD H adds the register H, not the pair. *)
DADInstr ==
  /\ Executing(DadOps)
  /\ reg' = DAD(reg, IF curr_opcode = 41 THEN reg["H"] ELSE Operand16(curr_opcode))
  /\ UNCHANGED <<reg_PC, reg_SP, ram>> /\ Retire(FALSE) /\ NoControl

LDAX ==
  /\ Executing({10, 26})
  /\ reg' = [reg EXCEPT !["A"] = Peek(ram, PairWord(reg, PairOf(curr_opcode)))]
  /\ UNCHANGED <<reg_PC, reg_SP, ram>> /\ Retire(FALSE) /\ NoControl

LHLD ==
  /\ Executing({42}) /\ PairFits
  /\ reg' = [reg EXCEPT !["L"] = Peek(ram, NextShort), !["H"] = Peek(ram, NextShort + 1)]
  /\ Skip(2) /\ UNCHANGED <<reg_SP, ram>> /\ Retire(FALSE) /\ NoControl

LDA ==
  /\ Executing({58})
  /\ reg' = [reg EXCEPT !["A"] = Peek(ram, NextShort)]
  /\ Skip(2) /\ UNCHANGED <<reg_SP, ram>> /\ Retire(FALSE) /\ NoControl

MOV ==
  /\ Executing(MovOps)
  /\ Store(Destination(curr_opcode), Value(Source(curr_opcode)), reg["F"])
  /\ UNCHANGED <<reg_PC, reg_SP>> /\ Retire(FALSE) /\ NoControl

(* mutant: HLT is taken for a NOP. *)
HLT_Continues ==
  /\ Executing({118})
  /\ Skip(1) /\ UNCHANGED <<reg, reg_SP, ram, halt, inte>> /\ Retire(FALSE) /\ NoDevice
(* HLT steps over the byte that follows it.                                *)
HLT ==
  /\ Executing({118})
  /\ Skip(1) /\ halt' = TRUE
  /\ UNCHANGED <<reg, reg_SP, ram, inte>> /\ Retire(FALSE) /\ NoDevice

AluReg ==
  /\ Executing(AluOps)
  /\ reg' = Computed(curr_opcode, reg, Value(Source(curr_opcode)))
  /\ UNCHANGED <<reg_PC, reg_SP, ram>> /\ Retire(FALSE) /\ NoControl
AluImm ==
  /\ Executing(ImmediateAluOps)
  /\ reg' = Computed(curr_opcode, reg, NextByte)
  /\ Skip(1) /\ UNCHANGED <<reg_SP, ram>> /\ Retire(FALSE) /\ NoControl

(* The stack operations index ram at SP + 1, SP - 1 and SP - 2 in int.     *)
CanPush == reg_SP >= 2
CanPop  == reg_SP < MaxShort

POPInstr ==
  /\ Executing(PopOps) /\ CanPop
  /\ reg' = WithPair(reg, PairOf(curr_opcode), Top) /\ POP
  /\ UNCHANGED <<reg_PC, ram>> /\ Retire(FALSE) /\ NoControl

PUSHInstr ==
  /\ Executing(PushOps) /\ CanPush
  /\ PUSH(PairWord(reg, PairOf(curr_opcode)))
  /\ UNCHANGED <<reg, reg_PC>> /\ Retire(FALSE) /\ NoControl

(* XTHL reads the top word and writes the word below the top. *)
XTHL ==
  /\ Executing({227}) /\ CanPush /\ CanPop
  /\ reg' = WithPair(reg, <<"H", "L">>, Top)
  /\ ram' = Pushed(ram, HL(reg))
  /\ UNCHANGED <<reg_PC, reg_SP>> /\ Retire(FALSE) /\ NoControl

(* A branch that is not taken reads no operand and leaves PC on it.        *)
NotTaken ==
  /\ Executing(CondOps) /\ ~Taken(curr_opcode)
  /\ UNCHANGED <<reg, reg_PC, reg_SP, ram>> /\ Retire(FALSE) /\ NoControl

JMP ==
  /\ Executing(Jumps \cup ConditionalJumps)
  /\ curr_opcode \in Jumps \/ Taken(curr_opcode)
  /\ reg_PC' = NextShort
  /\ UNCHANGED <<reg, reg_SP, ram>> /\ Retire(FALSE) /\ NoControl

CALL ==
  /\ Executing(Calls \cup ConditionalCalls) /\ CanPush
  /\ curr_opcode \in Calls \/ Taken(curr_opcode)
  /\ PUSH(U16(reg_PC + 2)) /\ reg_PC' = NextShort
  /\ UNCHANGED reg /\ Retire(curr_opcode \in ConditionalCalls) /\ NoControl

RET ==
  /\ Executing(Returns \cup ConditionalReturns) /\ CanPop
  /\ curr_opcode \in Returns \/ Taken(curr_opcode)
  /\ reg_PC' = Top /\ POP
  /\ UNCHANGED <<reg, ram>> /\ Retire(curr_opcode \in ConditionalReturns) /\ NoControl

RST ==
  /\ Executing(Restarts) /\ CanPush
  /\ PUSH(reg_PC) /\ reg_PC' = 8 * ((curr_opcode \div 8) % 8)
  /\ UNCHANGED reg /\ Retire(FALSE) /\ NoControl

PCHL ==
  /\ Executing({233})
  /\ reg_PC' = HL(reg)
  /\ UNCHANGED <<reg, reg_SP, ram>> /\ Retire(FALSE) /\ NoControl

SPHL ==
  /\ Executing({249})
  /\ reg_SP' = HL(reg)
  /\ UNCHANGED <<reg, reg_PC, ram>> /\ Retire(FALSE) /\ NoControl

XCHG ==
  /\ Executing({235})
  /\ reg' = WithPair(WithPair(reg, <<"D", "E">>, HL(reg)), <<"H", "L">>, PairWord(reg, <<"D", "E">>))
  /\ UNCHANGED <<reg_PC, reg_SP, ram>> /\ Retire(FALSE) /\ NoControl

INTE_BIT == 4
DI ==
  /\ Executing({243})
  /\ inte' = SetFlag(inte, INTE_BIT, 0)
  /\ UNCHANGED <<reg, reg_PC, reg_SP, ram, halt>> /\ Retire(FALSE) /\ NoDevice

EI ==
  /\ Executing({251})
  /\ inte' = SetFlag(inte, INTE_BIT, 1)
  /\ UNCHANGED <<reg, reg_PC, reg_SP, ram, halt>> /\ Retire(FALSE) /\ NoDevice

(* mutant: a request is kept only if the gate happens to be open. *)
set_interrupt_IfEnabled ==
  /\ raised < MaxRaises /\ raised' = raised + 1
  /\ inte_pending' = (BitOf(inte, INTE_BIT) = 1)
  /\ inte_bus' \in InterruptOps
(* cpu8080_set_interrupt: a later request replaces an earlier one.         *)
set_interrupt ==
  /\ raised < MaxRaises /\ raised' = raised + 1
  /\ inte_pending' = TRUE
  /\ inte_bus' \in InterruptOps

(* The device functions run inside the instruction and may call back.      *)
IN_ ==
  /\ Executing({219})
  /\ \E b \in PortBytes : reg' = [reg EXCEPT !["A"] = b]
  /\ Skip(1) /\ UNCHANGED <<reg_SP, ram, halt, inte>> /\ Retire(FALSE)
  /\ NoDevice \/ (PortsRaise /\ set_interrupt)

OUT ==
  /\ Executing({211})
  /\ Skip(1) /\ UNCHANGED <<reg, reg_SP, ram, halt, inte>> /\ Retire(FALSE)
  /\ NoDevice \/ (PortsRaise /\ set_interrupt)

(* An access outside the array is undefined: the model follows the program *)
(* up to it and no further.                                                *)
StrayAccess(op) ==
  \/ /\ op \in PushOps \cup Calls \cup Restarts \cup {227} \/ (op \in ConditionalCalls /\ Taken(op))
     /\ ~CanPush
  \/ /\ op \in PopOps \cup Returns \cup {227} \/ (op \in ConditionalReturns /\ Taken(op))
     /\ ~CanPop
  \/ op \in {34, 42} /\ ~PairFits
Stray ==
  /\ Executing(Byte) /\ StrayAccess(curr_opcode)
  /\ phase' = "wild"
  /\ UNCHANGED <<reg, reg_PC, reg_SP, ram, halt, clock, long_exec, gate, curr_opcode, host>>

-----------------------------------------------------------------------------
(* cpu8080_step and the host.                                              *)
Enabled == BitOf(inte, INTE_BIT) = 1

(* The host steps the machine until it halts.                              *)
BeginStep == phase = "idle" /\ ~halt

(* mutant: the gate is not looked at. *)
TakeInterrupt_Ungated ==
  /\ BeginStep /\ inte_pending
  /\ curr_opcode' = inte_bus /\ phase' = "inject"
  /\ UNCHANGED <<reg, reg_PC, reg_SP, ram, halt, clock, long_exec, gate, host>>
TakeInterrupt ==
  /\ BeginStep /\ inte_pending /\ Enabled
  /\ curr_opcode' = inte_bus /\ phase' = "inject"
  /\ UNCHANGED <<reg, reg_PC, reg_SP, ram, halt, clock, long_exec, gate, host>>

(* mutant: an injected EI survives, and every service leaves the gate open. *)
AckInterrupt_LeavesGate ==
  /\ phase = "ack"
  /\ inte_pending' = FALSE
  /\ phase' = "fetch"
  /\ UNCHANGED <<reg, reg_PC, reg_SP, ram, halt, clock, long_exec, inte, inte_bus, curr_opcode, host>>

(* After the injected instruction, whatever it did to the gate.            *)
AckInterrupt ==
  /\ phase = "ack"
  /\ inte' = SetFlag(inte, INTE_BIT, 0) /\ inte_pending' = FALSE
  /\ phase' = "fetch"
  /\ UNCHANGED <<reg, reg_PC, reg_SP, ram, halt, clock, long_exec, inte_bus, curr_opcode, host>>

(* mutant: no interrupt is taken right after EI. *)
NoInterrupt_DelaysEI ==
  /\ BeginStep /\ ~(inte_pending /\ Enabled /\ curr_opcode # 251)
  /\ phase' = "fetch"
  /\ UNCHANGED <<reg, reg_PC, reg_SP, ram, halt, clock, long_exec, gate, curr_opcode, host>>
(* mutant: the latch is cleared behind the test, taken or not. *)
NoInterrupt_Clears ==
  /\ BeginStep /\ ~(inte_pending /\ Enabled)
  /\ phase' = "fetch" /\ inte_pending' = FALSE
  /\ UNCHANGED <<reg, reg_PC, reg_SP, ram, halt, clock, long_exec, inte, inte_bus, curr_opcode, host>>
NoInterrupt ==
  /\ BeginStep /\ ~(inte_pending /\ Enabled)
  /\ phase' = "fetch"
  /\ UNCHANGED <<reg, reg_PC, reg_SP, ram, halt, clock, long_exec, gate, curr_opcode, host>>

tick ==
  /\ phase = "fetch"
  /\ curr_opcode' = NextByte /\ Skip(1) /\ phase' = "exec"
  /\ UNCHANGED <<reg, reg_SP, ram, halt, clock, long_exec, gate, host>>

SetInterrupt ==
  /\ phase = "idle" /\ set_interrupt
  /\ UNCHANGED <<reg, reg_PC, reg_SP, ram, halt, clock, long_exec, inte, curr_opcode, phase, starts>>

(* The image overwrites the front of ram; the rest keeps what it held.     *)
Loaded(m, data) ==
  [a \in DOMAIN m \cup 0 .. Len(data) - 1 |-> IF a < Len(data) THEN data[a + 1] ELSE m[a]]
StackFrom_Byte == 255 \* mutant
StackFrom == 65535
ResetRegs_Stale == reg \* mutant
ResetRegs == [n \in RegName |-> IF n = "F" THEN 2 ELSE 0]
StartProgram ==
  /\ phase \in {"off", "idle"}
  /\ starts < MaxStarts /\ starts' = starts + 1
  /\ \E p \in Programs : ram' = Loaded(ram, p.data) /\ reg_PC' = p.start
  /\ reg' = ResetRegs /\ reg_SP' = StackFrom
  /\ clock' = 0 /\ halt' = FALSE /\ long_exec' = FALSE
  /\ inte' = 255 /\ inte_bus' = 0 /\ inte_pending' = FALSE
  /\ phase' = "idle"
  /\ UNCHANGED <<curr_opcode, raised>>

Init ==
  /\ reg = [n \in RegName |-> 0] /\ reg_PC = 0 /\ reg_SP = 0
  /\ ram = [a \in {} |-> 0]
  /\ halt = FALSE /\ clock = 0 /\ long_exec = FALSE
  /\ inte = 0 /\ inte_bus = 0 /\ inte_pending = FALSE
  /\ curr_opcode = 0
  /\ phase = "off" /\ raised = 0 /\ starts = 0

ExecInstr ==
  \/ NOP \/ LXI \/ STAX \/ SHLD \/ STA \/ INX \/ DCX \/ INR \/ DCR \/ MVI \/ Rotate
  \/ DADInstr \/ LDAX \/ LHLD \/ LDA \/ MOV \/ HLT \/ AluReg \/ AluImm
  \/ POPInstr \/ PUSHInstr \/ XTHL \/ NotTaken \/ JMP \/ CALL \/ RET \/ RST
  \/ PCHL \/ SPHL \/ XCHG \/ DI \/ EI \/ IN_ \/ OUT

step == TakeInterrupt \/ NoInterrupt \/ AckInterrupt \/ tick \/ ExecInstr \/ Stray

Next == StartProgram \/ SetInterrupt \/ step

Spec == Init /\ [][Next]_vars

(* The host loop calls cpu8080_step until cpu8080_halt holds, so a step    *)
(* that can be taken is taken; devices and restarts owe nothing.           *)
FairSpec == Spec /\ WF_vars(step)
=============================================================================
