----------------------------- MODULE Assembler -----------------------------
(***************************************************************************)
(* write_tokens and write_queued_labels of cpu8080_assembler.c: one pass   *)
(* over the tokens that writes the file and queues the references to       *)
(* labels not yet defined, and the patching of the queued ones.            *)
(*                                                                         *)
(* The arrays of labels and of queued addresses are sequences: that their  *)
(* growth in the arena keeps the entries is a property of LineReader.      *)
(***************************************************************************)
EXTENDS Tokens8080, Mnemonics8080

CONSTANTS
  Programs,   \* sequences of tokens that the pre-pass may hand over
  Leftovers   \* what the uninitialised count of a DS or ORG without a number may hold

ASSUME ProgramsAssumption ==
  Programs \subseteq Seq([label : Texts, opcode : Texts, args : Seq([sv : Texts, is_imm : BOOLEAN])])
ASSUME LeftoversAssumption == Leftovers \subseteq Int

VARIABLES
  tokens, stage,      \* what is assembled, and how far assemble has come
  next, arg,          \* the token and, within DB and DW, the argument at hand
  curr_addr,          \* 16 bits; the position in the file is fout.len
  labels,             \* sequence of [label, addr, queued, set]
  force_end,          \* END was met
  fout,               \* the file: its length, and its bytes where one was not zero
  lab, ref            \* the queued reference that is patched next

vars == <<tokens, stage, next, arg, curr_addr, labels, force_end, fout, lab, ref>>

Init == /\ tokens \in Programs /\ stage = "write"
        /\ next = 1 /\ arg = 1 /\ lab = 1 /\ ref = 1
        /\ curr_addr = 0 /\ labels = <<>> /\ force_end = FALSE
        /\ fout = [len |-> 0, cells |-> <<>>]

-----------------------------------------------------------------------------
(* The output file. *)
ByteAt(file, k) == IF k \in DOMAIN file.cells THEN file.cells[k] ELSE 0

Written(file, bytes) ==
  [len   |-> file.len + Len(bytes),
   cells |-> [k \in DOMAIN file.cells \cup file.len .. file.len + Len(bytes) - 1 |->
                IF k < file.len THEN file.cells[k] ELSE bytes[k - file.len + 1]]]

file_overwrite_short(file, addr, sh) ==
  [len   |-> Max({file.len, addr + 2}),
   cells |-> [k \in DOMAIN file.cells \cup {addr, addr + 1} |->
                CASE k = addr     -> Hi(sh)
                  [] k = addr + 1 -> Lo(sh)
                  [] OTHER        -> file.cells[k]]]

Put(bytes) == /\ fout' = Written(fout, bytes)
              /\ curr_addr' = U16(curr_addr + Len(bytes))
PutZeros(n) == /\ fout' = [fout EXCEPT !.len = @ + n]
               /\ curr_addr' = U16(curr_addr + n)
ShortBytes(sh) == <<Hi(sh), Lo(sh)>>

(* The labels. *)
find_label_index(ls, name) ==
  LET hits == {i \in DOMAIN ls : ls[i].label = name} IN IF hits = {} THEN 0 ELSE Min(hits)

push_label(ls, name, addr, set) ==
  Append(ls, [label |-> name, addr |-> addr, queued |-> <<>>, set |-> set])

(* A mutation: a second definition replaces the first. *)
add_label_Redefines(ls, name, addr) ==
  LET i == find_label_index(ls, name) IN
    IF i = 0 THEN push_label(ls, name, addr, TRUE)
    ELSE [ls EXCEPT ![i].addr = addr, ![i].set = TRUE]

add_label(ls, name, addr) ==
  LET i == find_label_index(ls, name) IN
    IF i = 0 THEN push_label(ls, name, addr, TRUE)
    ELSE IF ls[i].set THEN ls
    ELSE [ls EXCEPT ![i].addr = addr, ![i].set = TRUE]

(* The labels and the value after queue_or_get_label, called at addr.      *)
Known(ls, name, addr) ==
  IF find_label_index(ls, name) = 0 THEN push_label(ls, name, addr, FALSE) ELSE ls
queue_or_get_label(ls, name, addr) ==
  LET known == Known(ls, name, addr)
      i     == find_label_index(known, name)
  IN  IF known[i].set THEN [labels |-> known, value |-> known[i].addr]
      ELSE [labels |-> [known EXCEPT ![i].queued = Append(@, addr)], value |-> 0]

-----------------------------------------------------------------------------
(* write_token: the label first, then what the opcode asks for. *)
Writing == stage = "write" /\ next <= Len(tokens) /\ ~force_end
Token   == tokens[next]
Labelled == IF Token.label = NoText THEN labels ELSE add_label(labels, Token.label, curr_addr)

NextToken == next' = next + 1 /\ UNCHANGED <<tokens, stage, arg, lab, ref>>

PseudoMnemonics == {"DB", "DW", "DS", "ORG", "END"}

(* A line with a label only, and one whose mnemonic no table has.          *)
WriteNothing == /\ Writing
                /\ Token.opcode \notin PseudoMnemonics \cup DOMAIN BaseCode
                /\ labels' = Labelled
                /\ NextToken
                /\ UNCHANGED <<curr_addr, force_end, fout>>

END == /\ Writing /\ Token.opcode = "END"
       /\ labels' = Labelled
       /\ force_end' = TRUE
       /\ NextToken
       /\ UNCHANGED <<curr_addr, fout>>

(* The count of DS and the address of ORG: uninitialised if not a number.  *)
Count == LET first == Argument(Token, 1)
         IN  IF first.is_imm THEN {parse_immediate(first.sv)} ELSE Leftovers

DS == /\ Writing /\ Token.opcode = "DS"
      /\ labels' = Labelled
      /\ \E count \in Count : PutZeros(Max({count, 0}))
      /\ NextToken
      /\ UNCHANGED force_end

(* A mutation: ORG moves the address and does not fill the file. *)
ORG_MovesOnly == /\ Writing /\ Token.opcode = "ORG"
                 /\ labels' = Labelled
                 /\ \E count \in Count : curr_addr' = Max({U16(count), curr_addr})
                 /\ NextToken
                 /\ UNCHANGED <<force_end, fout>>

(* ORG fills up to its address and never moves back. *)
ORG == /\ Writing /\ Token.opcode = "ORG"
       /\ labels' = Labelled
       /\ \E count \in Count : PutZeros(Max({count - curr_addr, 0}))
       /\ NextToken
       /\ UNCHANGED force_end

(* DB and DW go through their arguments, whatever their number.            *)
Data == /\ Writing /\ Token.opcode \in {"DB", "DW"}
        /\ labels' = Labelled
        /\ stage' = "data" /\ arg' = 1
        /\ UNCHANGED <<tokens, next, curr_addr, force_end, fout, lab, ref>>

NoCharacters(a) == ~a.is_imm /\ a.sv = NoText
DataArgument == stage = "data" /\ arg <= Len(Token.args) /\ ~NoCharacters(Token.args[arg])
NextArgument == arg' = arg + 1 /\ UNCHANGED <<tokens, stage, next, force_end, lab, ref>>

(* A name that was defined as nothing has no first character to look at:   *)
(* the pointer is null, and nothing is known from then.                    *)
NullText == /\ stage = "data" /\ arg <= Len(Token.args) /\ NoCharacters(Token.args[arg])
            /\ stage' = "wild"
            /\ UNCHANGED <<tokens, next, arg, curr_addr, labels, force_end, fout, lab, ref>>

(* The characters of a quoted text; an empty one stands for a zero.        *)
Characters(text) == IF CharCodes[text] = <<>> THEN <<0>> ELSE CharCodes[text]

DB == /\ DataArgument /\ Token.opcode = "DB"
      /\ LET a == Token.args[arg] IN
           Put(IF a.is_imm THEN <<U8(parse_immediate(a.sv))>>
               ELSE IF IsQuoted(a.sv) THEN [i \in DOMAIN Characters(a.sv) |-> U8(Characters(a.sv)[i])]
               ELSE <<>>)
      /\ NextArgument
      /\ UNCHANGED labels

(* A character becomes a short, high byte first like every other.          *)
WideCharacters(text) ==
  [i \in 1 .. 2 * Len(Characters(text)) |->
     LET sh == U16(Characters(text)[(i + 1) \div 2]) IN IF i % 2 = 1 THEN Hi(sh) ELSE Lo(sh)]

DW == /\ DataArgument /\ Token.opcode = "DW"
      /\ LET a == Token.args[arg]
             got == queue_or_get_label(labels, a.sv, curr_addr)
         IN  \/ /\ a.is_imm
                /\ Put(ShortBytes(parse_immediate(a.sv)))
                /\ UNCHANGED labels
             \/ /\ ~a.is_imm /\ IsQuoted(a.sv)
                /\ Put(WideCharacters(a.sv))
                /\ UNCHANGED labels
             \/ /\ ~a.is_imm /\ ~IsQuoted(a.sv)
                /\ Put(ShortBytes(got.value))
                /\ labels' = got.labels
      /\ NextArgument

DataEnd == /\ stage = "data" /\ arg > Len(Token.args)
           /\ stage' = "write" /\ next' = next + 1
           /\ UNCHANGED <<tokens, arg, curr_addr, labels, force_end, fout, lab, ref>>

(* The argument that holds the operand of an instruction. *)
Operand == Argument(Token, IF Token.opcode \in OneArgument THEN 2 ELSE 1)

Instruction ==
  /\ Writing /\ Token.opcode \in DOMAIN BaseCode
  /\ LET op  == Encoded(Token.opcode, Argument(Token, 1), Argument(Token, 2))
         imm == IF Operand.is_imm THEN parse_immediate(Operand.sv) ELSE 0
         got == queue_or_get_label(Labelled, Operand.sv, U16(curr_addr + 1))
     IN  \/ /\ Length(op) = 1
            /\ Put(<<op>>)
            /\ labels' = Labelled
         \/ /\ Length(op) = 2
            /\ Put(<<op, U8(imm)>>)
            /\ labels' = Labelled
         \/ /\ Length(op) = 3 /\ Operand.is_imm
            /\ Put(<<op>> \o ShortBytes(imm))
            /\ labels' = Labelled
         \/ /\ Length(op) = 3 /\ ~Operand.is_imm
            /\ Put(<<op>> \o ShortBytes(got.value))
            /\ labels' = got.labels
  /\ NextToken
  /\ UNCHANGED force_end

-----------------------------------------------------------------------------
(* write_queued_labels: each queued address gets the value of its label,   *)
(* also of one that was never defined.                                     *)
StartPatching == /\ stage = "write" /\ (next > Len(tokens) \/ force_end)
                 /\ stage' = "patch"
                 /\ UNCHANGED <<tokens, next, arg, curr_addr, labels, force_end, fout, lab, ref>>

Patching == stage = "patch" /\ UNCHANGED <<tokens, next, arg, curr_addr, labels, force_end>>

PatchReference ==
  /\ Patching /\ lab <= Len(labels) /\ ref <= Len(labels[lab].queued)
  /\ fout' = file_overwrite_short(fout, labels[lab].queued[ref], labels[lab].addr)
  /\ ref' = ref + 1
  /\ UNCHANGED <<stage, lab>>

(* A mutation: the queue of the next label is not begun at its start. *)
PatchNextLabel_Continues ==
  /\ Patching /\ lab <= Len(labels) /\ ref > Len(labels[lab].queued)
  /\ lab' = lab + 1
  /\ UNCHANGED <<stage, fout, ref>>

PatchNextLabel == /\ Patching /\ lab <= Len(labels) /\ ref > Len(labels[lab].queued)
                  /\ lab' = lab + 1 /\ ref' = 1
                  /\ UNCHANGED <<stage, fout>>

Close == /\ Patching /\ lab > Len(labels)
         /\ stage' = "assembled"
         /\ UNCHANGED <<fout, lab, ref>>

write_token == WriteNothing \/ END \/ DS \/ ORG \/ Data \/ DB \/ DW \/ NullText \/ DataEnd \/ Instruction
write_queued_labels == StartPatching \/ PatchReference \/ PatchNextLabel \/ Close

Next == write_token \/ write_queued_labels

Spec == Init /\ [][Next]_vars
=============================================================================
