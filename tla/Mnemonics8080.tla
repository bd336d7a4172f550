--------------------------- MODULE Mnemonics8080 ---------------------------
(***************************************************************************)
(* The tables that the assembler encodes instructions with: opcodes_base,  *)
(* arg_dbl_bits and arg_tpl_bits of cpu8080_tables.c, and the lookup in    *)
(* them.  A name is a string; the comparisons of the code that ignore case *)
(* see one spelling of each mnemonic here.                                 *)
(***************************************************************************)
EXTENDS Tables8080, Sequences, FiniteSetsExt

(* Field b_code of opcodes_base. *)
BaseCode ==
  LET others ==
        [MOV |-> 64, MVI |-> 6, LXI |-> 1, LDA |-> 58, STA |-> 50, LHLD |-> 42, SHLD |-> 34,
         LDAX |-> 10, STAX |-> 2, XCHG |-> 235, ADD |-> 128, ADI |-> 198, ADC |-> 136, ACI |-> 206,
         SUB |-> 144, SUI |-> 214, SBB |-> 152, SBI |-> 222, INR |-> 4, DCR |-> 5, INX |-> 3,
         DCX |-> 11, DAD |-> 9, DAA |-> 39, ANA |-> 160, ANI |-> 230, ORA |-> 176, ORI |-> 246,
         XRA |-> 168, XRI |-> 238, CMP |-> 184, CPI |-> 254, RLC |-> 7, RRC |-> 15, RAL |-> 23,
         RAR |-> 31, CMA |-> 47, CMC |-> 63, STC |-> 55, JMP |-> 195, JC |-> 194, CALL |-> 205,
         CC |-> 196, RET |-> 201, RC |-> 192, RST |-> 199, PCHL |-> 233, PUSH |-> 197, POP |-> 193,
         XTHL |-> 227, SPHL |-> 249, OUT |-> 211, EI |-> 251, DI |-> 243, HLT |-> 118,
         NOP |-> 0]
  IN  [m \in DOMAIN others \cup {"IN"} |-> IF m = "IN" THEN 219 ELSE others[m]]

(* Field ep_mask: which bits of the opcode the arguments fill.             *)
PairMnemonics   == {"LXI", "LDAX", "STAX", "INX", "DCX", "DAD", "PUSH", "POP"}
MiddleMnemonics == {"MVI", "INR", "DCR", "JC", "CC", "RC", "RST"}
LowMnemonics    == {"ADD", "ADC", "SUB", "SBB", "ANA", "ORA", "XRA", "CMP"}
OneArgument     == PairMnemonics \cup MiddleMnemonics \cup LowMnemonics

(* The entries in the order of the arrays: the first that matches counts.  *)
arg_dbl_bits ==
  << <<"BC", 0>>, <<"B", 0>>, <<"DE", 1>>, <<"D", 1>>, <<"HL", 2>>, <<"H", 2>>,
     <<"SP", 3>>, <<"PSW", 3>> >>
arg_tpl_bits ==
  << <<"A", 7>>, <<"B", 0>>, <<"C", 1>>, <<"D", 2>>, <<"E", 3>>, <<"H", 4>>, <<"L", 5>>,
     <<"M", 6>>, <<"NZ", 0>>, <<"Z", 1>>, <<"NC", 2>>, <<"C", 3>>, <<"PO", 4>>,
     <<"PE", 5>>, <<"P", 6>>, <<"M", 7>> >>

(* An entry has three characters for its name.  A name that fills them has *)
(* no terminator, the comparison goes on in the bits behind it, which are  *)
(* not zero, and fails.                                                    *)
Terminated(name) == name # "PSW"

(* A mutation: the last entry that matches counts. *)
get_opcode_arg_bits_Last(arr, name) ==
  LET hits == {i \in DOMAIN arr : arr[i][1] = name /\ Terminated(name)} IN
    IF hits = {} THEN 0 ELSE arr[Max(hits)][2]

(* A name that no entry matches encodes as zero. *)
get_opcode_arg_bits(arr, name) ==
  LET hits == {i \in DOMAIN arr : arr[i][1] = name /\ Terminated(name)} IN
    IF hits = {} THEN 0 ELSE arr[Min(hits)][2]

(* The opcode of a mnemonic with its first two arguments.  A number where  *)
(* a name is expected is ignored, except by MOV, which compares its text.  *)
Encoded(name, arg1, arg2) ==
  LET bits(arr, arg) == IF arg.is_imm THEN 0 ELSE get_opcode_arg_bits(arr, arg.sv)
      fill ==
        CASE name \in PairMnemonics   -> 16 * bits(arg_dbl_bits, arg1)
          [] name \in MiddleMnemonics -> 8 * bits(arg_tpl_bits, arg1)
          [] name \in LowMnemonics    -> bits(arg_tpl_bits, arg1)
          [] name = "MOV" -> 8 * get_opcode_arg_bits(arg_tpl_bits, arg1.sv)
                               + get_opcode_arg_bits(arg_tpl_bits, arg2.sv)
          [] OTHER -> 0
  IN  BaseCode[name] + fill
=============================================================================
