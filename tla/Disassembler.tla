---------------------------- MODULE Disassembler ----------------------------
(***************************************************************************)
(* print_disassemble of cpu8080_disassembler.c: a sweep over the 65536     *)
(* bytes of an image that prints instructions one by one and runs of zeros *)
(* as one line.  An image is a function from the positions of its bytes    *)
(* that are not zero.                                                      *)
(***************************************************************************)
EXTENDS Tables8080, Sequences, FiniteSetsExt

CONSTANT Images   \* programs: [data, size]

VARIABLES
  program,         \* what load_program returned
  stage,
  at,              \* i, the position of the sweep
  last_nop,        \* the previous byte was a zero (TRUE at the start)
  nop_from,        \* 16 bits: where the run of zeros began
  listing          \* the lines printed so far

vars == <<program, stage, at, last_nop, nop_from, listing>>

DATA_MAX_CNT == 65536

Init == /\ program \in Images /\ stage = "list"
        /\ at = 0 /\ last_nop = TRUE /\ nop_from = 0 /\ listing = <<>>

(* The array is followed by size in the structure it belongs to, which is  *)
(* what an operand behind the end is read from.                            *)
Data(k) ==
  CASE k = DATA_MAX_CNT     -> Lo(program.size)
    [] k = DATA_MAX_CNT + 1 -> Hi(program.size)
    [] OTHER -> IF k \in DOMAIN program.data THEN program.data[k] ELSE 0

(* A mutation: the low byte of an operand is expected first. *)
print_instr_LowFirst(k) ==
  LET op  == Data(k)
      len == Length(op)
  IN  [kind |-> "instr", from |-> k, to |-> k + len, op |-> op,
       operand |-> CASE len = 1 -> 0
                     [] len = 2 -> Data(k + 1)
                     [] len = 3 -> Word(Data(k + 2), Data(k + 1))]

(* Lines: an instruction, or the zeros of from .. to - 1. *)
print_instr(k) ==
  LET op  == Data(k)
      len == Length(op)
  IN  [kind |-> "instr", from |-> k, to |-> k + len, op |-> op,
       operand |-> CASE len = 1 -> 0
                     [] len = 2 -> Data(k + 1)
                     [] len = 3 -> Word(Data(k + 1), Data(k + 2))]
print_nops(from, to) == [kind |-> "nops", from |-> from, to |-> to, op |-> 0, operand |-> 0]

-----------------------------------------------------------------------------
Listing == stage = "list" /\ at < DATA_MAX_CNT

(* A mutation: the run of zeros is not over. *)
ListInstruction_KeepsRun ==
  /\ Listing /\ Data(at) # 0
  /\ listing' = (IF last_nop THEN Append(listing, print_nops(nop_from, U16(at))) ELSE listing)
                  \o <<print_instr(at)>>
  /\ at' = at + Length(Data(at))
  /\ UNCHANGED <<program, stage, last_nop, nop_from>>

ListInstruction ==
  /\ Listing /\ Data(at) # 0
  /\ listing' = (IF last_nop THEN Append(listing, print_nops(nop_from, U16(at))) ELSE listing)
                  \o <<print_instr(at)>>
  /\ last_nop' = FALSE
  /\ at' = at + Length(Data(at))
  /\ UNCHANGED <<program, stage, nop_from>>

(* The turns of the loop over a run of zeros, as one step. *)
RunEnd == Min({k \in DOMAIN program.data : k > at /\ Data(k) # 0} \cup {DATA_MAX_CNT})

ListNops ==
  /\ Listing /\ Data(at) = 0
  /\ nop_from' = IF last_nop THEN nop_from ELSE at
  /\ last_nop' = TRUE
  /\ at' = RunEnd
  /\ UNCHANGED <<program, stage, listing>>

EndOfImage == /\ stage = "list" /\ at >= DATA_MAX_CNT
              /\ stage' = "done"
              /\ UNCHANGED <<program, at, last_nop, nop_from, listing>>

print_disassemble == ListInstruction \/ ListNops
Next == print_disassemble \/ EndOfImage
Spec == Init /\ [][Next]_vars
=============================================================================
