----------------------------- MODULE MCPrograms -----------------------------
(***************************************************************************)
(* Whole programs, run from start to halt while devices interrupt and the  *)
(* host restarts them.                                                     *)
(***************************************************************************)
EXTENDS Cpu8080Props

Zeros(n) == [i \in 1 .. n |-> 0]
RST7 == 255

(* Sums 3 + 2 + 1 into cell 97 with a subroutine call per term.  The       *)
(* handler of RST 7, at 56, counts its activations in cell 252 and enables  *)
(* interrupts again before it returns.                                     *)
Counting ==
  <<195, 0, 72>> \o Zeros(53)
  \o <<245, 58, 0, 252, 60, 50, 0, 252, 241, 251, 201>> \o Zeros(5)
  \o <<6, 3, 175>>                          \* 72: MVI B,3; XRA A
  \o <<205, 0, 88, 5, 194, 0, 75>>          \* 75: CALL 88; DCR B; JNZ 75
  \o <<50, 0, 97, 118>> \o Zeros(2)         \* 82: STA 97; HLT
  \o <<197, 128, 193, 201>>                 \* 88: PUSH B; ADD B; POP B; RET

(* Asks a device for an answer with OUT, and waits for the interrupt in    *)
(* which it comes: the handler sets cell 112.                              *)
Waiting ==
  <<195, 0, 69>> \o Zeros(53)
  \o <<245, 62, 1, 50, 0, 112, 241, 201>> \o Zeros(5)
  \o <<243, 211, 1>>                        \* 69: DI; OUT 1
  \o <<251, 58, 0, 112, 183, 202, 0, 72>>   \* 72: EI; LDA 112; ORA A; JZ 72
  \o <<118>>

(* The image that the assembler wrote for the example, asm8080.bin.        *)
Example ==
  <<72, 105>> \o Zeros(254)
  \o <<198, 3, 71, 4, 0, 49, 240, 0, 197, 211, 153, 211, 41, 198, 3, 120>>
  \o <<0, 129, 14, 90, 50, 23, 194, 195, 1, 27, 118, 225, 198, 7, 219, 21>>
  \o <<87, 195, 1, 26>>

(* Opens the gate twice among NOPs, shuts it and stops through RST 7.  An  *)
(* injected branch takes two of these bytes as its address and halts soon. *)
Accepting ==
  [i \in 1 .. 64 |-> 118] \o <<0, 0, 251, 0, 251, 0, 243, 255>>
  \o [i \in 1 .. 184 |-> 118]

CountingImage  == {[start |-> 0, data |-> Counting]}
WaitingImage   == {[start |-> 0, data |-> Waiting]}
ExampleImage   == {[start |-> 0, data |-> Example]}
AcceptingImage == {[start |-> 64, data |-> Accepting]}

OnlyRST7  == {RST7}
NoOps     == {}
(* One opcode of each kind that matters to check_interrupts: it may touch  *)
(* the gate, halt, read operands at PC, use the stack, branch or not.      *)
AnyKind   == {0, 251, 243, 118, 62, 1, 50, 211, 219, 197, 193, 205, 201, 194, 202, 192, 204, 255}
QuietPort == {0}
ExamplePort == {207}

-----------------------------------------------------------------------------
Stopped == phase = "idle" /\ halt

(* The example ends with the device's byte in D, the saved pair in HL and  *)
(* A in cell 17C2, also when the host starts it again midway and ram still *)
(* holds what the earlier run left.                                        *)
ExampleResult ==
  Stopped => /\ reg["D"] = 207 /\ HL(reg) = Word(4, 0) /\ Peek(ram, Word(23, 194)) = 4
             /\ reg["C"] = 90 /\ reg_SP = Word(240, 0)

(* A program that never leaves its array halts once it is started: no      *)
(* interleaving of interrupts and restarts keeps it from its end.          *)
HaltsAtLast == (phase # "off") ~> halt

(* The answer a device gives by interrupt, during OUT or at any later      *)
(* time, ends the wait: a request raised while interrupts are disabled is  *)
(* kept until EI.                                                          *)
AnswerEndsWait == (raised > 0) ~> halt
=============================================================================
