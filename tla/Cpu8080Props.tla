---------------------------- MODULE Cpu8080Props ----------------------------
(***************************************************************************)
(* The properties of the simulated processor that hold whatever program it *)
(* runs, and the two abstract specifications it implements.                *)
(***************************************************************************)
EXTENDS Cpu8080

(* The disassembler and the assembler lay programs out by the length       *)
(* column of the opcode table; the switch consumes operands on its own.    *)
(* They agree: an instruction that is no branch leaves PC on the next one  *)
(* of the layout.  HLT is left out, it steps one byte too far.             *)
Sequential ==
  Byte \ (Jumps \cup Calls \cup Returns \cup Restarts \cup CondOps \cup {118, 233})
PcFollowsLength ==
  [][Executing(Sequential) /\ phase' # "wild"
       => reg_PC' = U16(reg_PC + Length(curr_opcode) - 1)]_vars

(* The flags column of the table bounds what the switch does to F: a flag  *)
(* it does not list survives the instruction.  POP PSW loads all of F and  *)
(* is listed with none.                                                    *)
FlagsWithinTable ==
  [][Executing(Byte \ {241})
       => \A m \in FlagMasks \ ListedFlags(curr_opcode) :
            BitOf(reg'["F"], m) = BitOf(reg["F"], m)]_vars

(* An instruction changes memory only where its addressing mode points:    *)
(* the word the stack pointer moved over, the cell of HL, or the operand.  *)
(* STAX and XTHL are left out, they miss their targets.                    *)
StackWriters == PushOps \cup Calls \cup ConditionalCalls \cup Restarts
HLWriters    == {52, 53, 54} \cup (112 .. 119)
WritesAreAddressed ==
  [][Executing(Byte \ {2, 18, 227})
       => \A a \in DOMAIN ram' :
            Peek(ram', a) # Peek(ram, a)
              => \/ curr_opcode \in StackWriters /\ a \in {reg_SP', reg_SP' + 1}
                                                /\ reg_SP' = reg_SP - 2
                 \/ curr_opcode \in HLWriters /\ a = HL(reg)
                 \/ curr_opcode = 34 /\ a \in {NextShort, NextShort + 1}
                 \/ curr_opcode = 50 /\ a = NextShort]_vars

(* A latched request stays, opcode and all, until a later one replaces it, *)
(* the host starts a program, or it was executed and is acknowledged.  One *)
(* request is lost, and no other: check_interrupts clears the latch behind *)
(* the injected instruction without looking at it again, so what a port    *)
(* function raised during an injected IN or OUT is gone.                   *)
LostInService == curr_opcode \in {211, 219}
DropsNothing ==
  inte_pending /\ ~(inte_pending' /\ inte_bus' = inte_bus)
    => \/ raised' = raised + 1 /\ inte_pending'
       \/ starts' = starts + 1
       \/ phase = "ack" /\ (inte_bus = curr_opcode \/ LostInService)
NoRequestDropped == [][DropsNothing]_vars

(* The program is never a full instruction ahead of a request: whenever it *)
(* fetches or executes an instruction of its own, nothing is deliverable.  *)
PromptDelivery == phase \in {"fetch", "exec"} => ~(inte_pending /\ Enabled)

-----------------------------------------------------------------------------
(* The processor implements the interrupt gate.  From the moment a request *)
(* is taken until it is acknowledged, the latch and the gate count as      *)
(* cleared: an EI among the injected instructions has no effect, a DI no   *)
(* more than the acknowledgement has.  A stray access ends the model inside *)
(* the service exactly if the request is still deliverable.                *)
Serving ==
  \/ phase \in {"inject", "ack"}
  \/ phase = "wild" /\ inte_pending /\ Enabled
NoRequest   == 256
GateOpen    == Enabled /\ ~Serving
GateRequest == IF inte_pending /\ ~Serving THEN inte_bus ELSE NoRequest
GateServed  == IF Serving THEN curr_opcode ELSE NoRequest
GateAsks ==
  IF phase # "exec" THEN "nothing"
  ELSE IF curr_opcode = 251 THEN "open" ELSE IF curr_opcode = 243 THEN "shut" ELSE "nothing"
Gate == INSTANCE InterruptGate WITH
  Ops <- Byte, None <- NoRequest,
  open <- GateOpen, request <- GateRequest, served <- GateServed, asks <- GateAsks,
  runs <- starts
GateSpec == Gate!Spec

(* The processor implements the pushdown store, for programs that leave SP *)
(* to the stack instructions: the words of ram between SP and the initial  *)
(* stack pointer are the frames, the oldest at the top of memory.          *)
Depth == (StackFrom - reg_SP) \div 2
Frames ==
  IF phase = "off" THEN <<>>
  ELSE [i \in 1 .. Depth |-> Word(Peek(ram, StackFrom + 1 - 2 * i), Peek(ram, StackFrom - 2 * i))]
Stack == INSTANCE CallStack WITH pc <- reg_PC, frames <- Frames, runs <- starts
StackSpec == Stack!Spec

(* The instructions that set SP, and the cells that one stores into other  *)
(* than through the stack.                                                 *)
SetsSP == {49, 51, 59, 249}
StoresAt ==
  CASE curr_opcode \in {2, 18} -> {U16(RamBase + PairWord(reg, PairOf(curr_opcode)))}
    [] curr_opcode \in HLWriters \ {118} -> {HL(reg)}
    [] curr_opcode = 34 -> {NextShort, NextShort + 1}
    [] curr_opcode = 50 -> {NextShort}
    [] OTHER -> {}
(* A program that keeps the stack, and whatever interrupts it: no          *)
(* instruction sets SP otherwise than by pushing and popping, and none     *)
(* stores into the words between SP and the initial stack pointer.         *)
LeavesStack ==
  Executing(Byte) => curr_opcode \notin SetsSP /\ StoresAt \cap (reg_SP .. StackFrom - 1) = {}

-----------------------------------------------------------------------------
(* What the comments and the table say of single instructions.             *)

(* A conditional jump or call occupies three bytes (the length column), so *)
(* one that is not taken continues behind its operand.                     *)
UntakenSkipsOperand ==
  [][NotTaken /\ curr_opcode \notin ConditionalReturns
       => reg_PC' = U16(reg_PC + Length(curr_opcode) - 1)]_vars

(* RNZ takes 11 cycles if it returns, else 5. *)
RnzDuration ==
  [][NotTaken /\ curr_opcode = 192 => clock' = (clock + 5) % ClockSize]_vars
=============================================================================
