----------------------------- MODULE MCEncoding -----------------------------
(***************************************************************************)
(* Programs of one instruction, and the opcodes that the comments of       *)
(* cpu8080_exec_instr give these instructions.                             *)
(***************************************************************************)
EXTENDS Assembler, TLC

Plain(s)  == [sv |-> s, is_imm |-> FALSE]
Number(s) == [sv |-> s, is_imm |-> TRUE]
One(opcode, args) == <<[label |-> NoText, opcode |-> opcode, args |-> args]>>

(* case 0xC5: //PUSH B and so on; the condition of JC is its argument.     *)
Commented ==
  (One("PUSH", <<Plain("B")>>)   :> 197) @@ (One("PUSH", <<Plain("PSW")>>) :> 245) @@
  (One("POP", <<Plain("H")>>)    :> 225) @@ (One("POP", <<Plain("PSW")>>)  :> 241) @@
  (One("JC", <<Plain("NZ"), Plain("L")>>) :> 194) @@ (One("JC", <<Plain("C"), Plain("L")>>) :> 218) @@
  (One("JC", <<Plain("P"), Plain("L")>>)  :> 242) @@ (One("JC", <<Plain("M"), Plain("L")>>) :> 250) @@
  (One("RST", <<Number("0")>>)   :> 199) @@ (One("RST", <<Number("2")>>)   :> 215)

Instructions == DOMAIN Commented
NoLeftovers  == {0}
SmallNumbers == ("0" :> 0) @@ ("2" :> 2)
NoTexts      == <<>>

(* An instruction is assembled to the opcode whose comment names it.       *)
EncodesAsCommented == stage = "assembled" => ByteAt(fout, 0) = Commented[tokens]
=============================================================================
