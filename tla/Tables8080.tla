----------------------------- MODULE Tables8080 -----------------------------
(***************************************************************************)
(* opcodes_ordered_data of cpu8080_tables.c: the length, the duration and  *)
(* the flags of each of the 256 opcodes, as the emulator, the assembler    *)
(* and the disassembler read them.                                         *)
(***************************************************************************)
EXTENDS Words8080

(* Opcodes whose low octal digit is d, in the quarter of the table that    *)
(* starts at base.                                                         *)
Column(base, d) == {base + 8 * i + d : i \in 0 .. 7}

MviOps == Column(0, 6)
ImmediateAluOps == Column(192, 6)
ConditionalReturns == Column(192, 0)
ConditionalJumps   == Column(192, 2)
ConditionalCalls   == Column(192, 4)
Restarts           == Column(192, 7)
Calls == {205, 221, 237, 253}
Jumps == {195, 203}
Returns == {201, 217}

(* Field len: the bytes an instruction occupies, opcode included.          *)
TwoByteOps == MviOps \cup ImmediateAluOps \cup {211, 219}
ThreeByteOps ==
  {1, 17, 33, 49, 34, 42, 50, 58} \cup Jumps \cup Calls
    \cup ConditionalJumps \cup ConditionalCalls
Length(op) == IF op \in ThreeByteOps THEN 3 ELSE IF op \in TwoByteOps THEN 2 ELSE 1

(* MOV from and to M, HLT among them, and the arithmetic on M.             *)
MemoryOps == (112 .. 119) \cup {64 + 8 * i + 6 : i \in 0 .. 15}

(* Field dur is an unsigned char.  A conditional return or call packs two  *)
(* durations into it, the longer one shifted left by four; the packed      *)
(* value of a conditional call, 17 << 4 | 11, keeps only its low byte.     *)
Duration(op) ==
  CASE op \in ConditionalReturns -> U8(16 * 11 + 5)
    [] op \in ConditionalCalls -> U8(16 * 17 + 11)
    [] op = 227 -> 18
    [] op \in Calls -> 17
    [] op \in {34, 42} -> 16
    [] op \in {50, 58} -> 13
    [] op \in {197, 213, 229, 245} \cup Restarts -> 11
    [] op \in {1, 17, 33, 49} \cup {9, 25, 41, 57} \cup {193, 209, 225, 241}
              \cup {211, 219} \cup Jumps \cup ConditionalJumps \cup Returns -> 10
    [] op \in {2, 18, 10, 26} \cup MviOps \cup ImmediateAluOps \cup MemoryOps -> 7
    [] op \in Column(0, 3) \cup Column(0, 4) \cup Column(0, 5)
              \cup ((64 .. 127) \ MemoryOps) \cup {233, 235, 249} -> 5
    [] OTHER -> 4

(* Field flgs: the flags an instruction is listed as affecting.            *)
ListedFlags(op) ==
  CASE op \in Column(0, 4) \cup Column(0, 5) -> FlagMasks \ {C_BIT}
    [] op \in {39} \cup 128 .. 191 \cup ImmediateAluOps -> FlagMasks
    [] op \in {7, 15, 23, 31, 47, 55, 63} \cup {9, 25, 41, 57} -> {C_BIT}
    [] OTHER -> {}
=============================================================================
