---------------------------- MODULE AluReference ----------------------------
(***************************************************************************)
(* The arithmetic helpers against what they are meant to compute, for      *)
(* every accumulator and every setting of the flags that sequences of      *)
(* operations with one operand leave behind.                               *)
(***************************************************************************)
EXTENDS Alu8080

CONSTANT Operands   \* the bytes the operations are applied to
ASSUME OperandsAssumption == Operands \subseteq Byte

VARIABLES regs, operand

Init ==
  /\ operand \in Operands
  /\ \E a \in Byte : regs = [n \in RegName |-> IF n = "A" THEN a ELSE IF n = "F" THEN 2 ELSE 0]
Operate(kind) == regs' = Computed(8 * kind, regs, operand) /\ UNCHANGED operand
Shift(op) == regs' = Rotated(op, regs) /\ UNCHANGED operand
Next == (\E kind \in 0 .. 7 : Operate(kind)) \/ (\E op \in {7, 15, 23, 31, 55, 63} : Shift(op))
Spec == Init /\ [][Next]_<<regs, operand>>

(* cpu8080_ADD: carry and accumulator together are the nine-bit sum, and   *)
(* only A and F change.                                                    *)
AddIsSum ==
  LET s == ADD(regs, operand)
  IN  /\ 256 * Flag(s, C_BIT) + s["A"] = regs["A"] + operand
      /\ s = [regs EXCEPT !["A"] = s["A"], !["F"] = s["F"]]

(* cpu8080_SUB undoes cpu8080_ADD, though it is an addition itself, and    *)
(* cpu8080_SBB undoes cpu8080_ADC when the carry is put back.  The carry   *)
(* of SUB is that of the addition: the opposite of a borrow, but for 0.    *)
SubUndoesAdd ==
  /\ SUB(ADD(regs, operand), operand)["A"] = regs["A"]
  /\ SBB(WithFlag(ADC(regs, operand), C_BIT, Flag(regs, C_BIT)), operand)["A"] = regs["A"]
  /\ Flag(SUB(regs, operand), C_BIT) = 1 <=> operand # 0 /\ operand <= regs["A"]

(* cpu8080_CMP keeps the accumulator, shows equality in Z, and orders two  *)
(* operands less than 128 apart by S.  The carry, which it may invert,     *)
(* tells whether they are that close, and never which of them is greater.  *)
CmpCompares ==
  LET c == CMP(regs, operand)
      d == regs["A"] - operand
  IN  /\ c["A"] = regs["A"]
      /\ Flag(c, Z_BIT) = 1 <=> d = 0
      /\ d \in -128 .. 127 => (Flag(c, S_BIT) = 1 <=> d < 0)
      /\ Flag(c, C_BIT) = 1 <=> (operand # 0 <=> d \in -128 .. 127)

(* cpu8080_RAR undoes cpu8080_RAL and back, carry included; cpu8080_RRC    *)
(* and cpu8080_RLC undo each other on the accumulator.                     *)
RotatesInvert ==
  /\ RAR(RAL(regs)) = regs /\ RAL(RAR(regs)) = regs
  /\ RRC(RLC(regs))["A"] = regs["A"] /\ RLC(RRC(regs))["A"] = regs["A"]

(* cpu8080_ANA, ORA, XRA and the complement of CMA obey De Morgan's law,   *)
(* and XRA is the difference of ORA and ANA.                               *)
LogicAgrees ==
  LET a == ANA(regs, operand)["A"] IN
  LET o == ORA(regs, operand)["A"]
  IN  /\ CMA(ORA(CMA(regs), 255 - operand))["A"] = a
      /\ XRA(regs, operand)["A"] = o - a

(* cpu8080_DAD: carry and HL together are the 17-bit sum, whatever the     *)
(* pairs, and nothing but HL and the carry changes.                        *)
SumsTo(q, w) ==
  LET s == DAD(q, w)
  IN  /\ 65536 * Flag(s, C_BIT) + HL(s) = HL(q) + w
      /\ s = [WithFlag(q, C_BIT, Flag(s, C_BIT)) EXCEPT !["H"] = s["H"], !["L"] = s["L"]]
DadIsSum ==
  \A h, l \in Operands :
    SumsTo([regs EXCEPT !["H"] = h, !["L"] = l], Word(regs["A"], operand))
=============================================================================
