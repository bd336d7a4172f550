----------------------------- MODULE MCDispatch -----------------------------
(***************************************************************************)
(* Every opcode from several machine states.  Each program loads A, F, the *)
(* pairs and SP, and then runs the one instruction under test; the low 64  *)
(* bytes stop whatever the instruction jumps to.                           *)
(***************************************************************************)
EXTENDS Cpu8080Props

Halts(n) == [i \in 1 .. n |-> 118]
LoadPair(op, w) == <<op, Hi(w), Lo(w)>>

(* Cells 1, 2 and 48, 49 hold the address 16 for instructions that pop;    *)
(* cells 46, 47 hold PSW.                                                  *)
LowMemory(psw) ==
  <<118, 16, 0>> \o Halts(43) \o <<Lo(psw), Hi(psw)>> \o <<16, 0>> \o Halts(14)

Program(c, op) ==
  [start |-> 64,
   data  |-> LowMemory(c.psw)
             \o LoadPair(49, 46) \o <<241>>
             \o LoadPair(1, c.bc) \o LoadPair(17, c.de) \o LoadPair(33, c.hl)
             \o LoadPair(49, c.sp)
             \o <<op, Hi(c.arg), Lo(c.arg)>> \o Halts(4)]

(* The stack in the middle and at both ends of memory; all flags clear,    *)
(* all set, and S without the others; operands that carry, borrow and wrap.*)
Contexts ==
  {[psw |->    2, bc |->     1, de |-> 65535, hl |->    32, sp |->    48, arg |->    16],
   [psw |-> Word(155, 215), bc |-> 65535, de |-> 258, hl |-> 49, sp |-> 65535, arg |-> 65535],
   [psw |-> Word(127, 130), bc |-> Word(128, 9), de |-> 0, hl |-> 24, sp |-> 1, arg |-> 48],
   [psw |-> Word(255,  71), bc |-> Word(16, 255), de |-> Word(1, 127), hl |-> 56, sp |-> 48, arg |-> 24]}

MCPrograms == {Program(c, op) : c \in Contexts, op \in Byte}
MCPortBytes == {0, 207}
MCInterruptOps == {}
=============================================================================
