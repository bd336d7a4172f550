----------------------------- MODULE Toolchain -----------------------------
(***************************************************************************)
(* assemble, load_program and print_disassemble in the order of main.c:    *)
(* the parser, the pre-pass and the assembler work on the same tokens, the *)
(* loader reads the file that the assembler closed.                        *)
(***************************************************************************)
EXTENDS AssemblerReference, PrepassReference, ParserReference

CONSTANT Sources

VARIABLES
  source, line,                          \* Parser
  index, substitutes, if_list,           \* Prepass
  program, at, last_nop, nop_from, listing   \* Disassembler

parserVars  == <<source, line>>
prepassVars == <<index, substitutes, if_list>>
writerVars  == <<next, arg, curr_addr, labels, force_end, fout, lab, ref>>
listerVars  == <<at, last_nop, nop_from, listing>>
toolVars    == <<vars, parserVars, prepassVars, program, listerVars>>

P == INSTANCE Parser

ASSUME SourcesAssumption == Sources \subseteq Seq(Seq(P!Lexeme))

S == INSTANCE Prepass WITH Parsed <- {}
L == INSTANCE Disassembler WITH Images <- {}

NothingLoaded == [data |-> <<>>, size |-> 0]

ToolInit ==
  /\ P!Init
  /\ index = 1 /\ substitutes = <<>> /\ if_list = <<>>
  /\ next = 1 /\ arg = 1 /\ lab = 1 /\ ref = 1
  /\ curr_addr = 0 /\ labels = <<>> /\ force_end = FALSE
  /\ fout = [len |-> 0, cells |-> <<>>]
  /\ program = NothingLoaded
  /\ at = 0 /\ last_nop = TRUE /\ nop_from = 0 /\ listing = <<>>

(* A mutation: the last byte is taken for the end of the file. *)
load_program_AllButLast(file) ==
  LET size == U16(Min({file.len, L!DATA_MAX_CNT}))
  IN  [size |-> size,
       data |-> [k \in {j \in DOMAIN file.cells : j < size - 1} |-> file.cells[k]]]

(* load_program: at most 65536 bytes are read, their number is stored in   *)
(* 16 bits, and what lies behind that many bytes is cleared.               *)
load_program(file) ==
  LET size == U16(Min({file.len, L!DATA_MAX_CNT}))
  IN  [size |-> size,
       data |-> [k \in {j \in DOMAIN file.cells : j < size} |-> file.cells[k]]]

Load == /\ stage = "assembled"
        /\ program' = load_program(fout)
        /\ stage' = "list"
        /\ UNCHANGED <<tokens, parserVars, prepassVars, writerVars, listerVars>>

Parse      == P!Next /\ UNCHANGED <<prepassVars, writerVars, program, listerVars>>
Preprocess == S!Next /\ UNCHANGED <<parserVars, writerVars, program, listerVars>>
Assemble   == Next /\ UNCHANGED <<parserVars, prepassVars, program, listerVars>>
List       == L!Next /\ UNCHANGED <<tokens, parserVars, prepassVars, writerVars>>

ToolNext == Parse \/ Preprocess \/ Assemble \/ Load \/ List

ToolSpec == ToolInit /\ [][ToolNext]_toolVars
FairToolSpec == ToolSpec /\ WF_toolVars(ToolNext)

-----------------------------------------------------------------------------
(* Wherever white space and comments are put, a line that spells a         *)
(* statement is read as that statement: it adds one token, with the label, *)
(* the opcode and every operand, up to the known losses.                   *)
ParserRecovers ==
  [][Parse /\ line <= Len(source) =>
       \A spelling \in SpelledLines : source[line] = spelling[1] => tokens' = tokens \o spelling[2]]_toolVars

(* The tokens that the parser makes of a whole text. *)
ParsedTokens(lines) ==
  LET read[n \in 0 .. Len(lines)] ==   \* of its first n lines
        IF n = 0 THEN <<>>
        ELSE IF P!next_token(lines[n]).accepted THEN Append(read[n - 1], P!next_token(lines[n]).token)
        ELSE read[n - 1]
  IN  read[Len(lines)]

(* Whatever the order of definitions, uses and conditions: if no name is   *)
(* defined twice, each name is replaced by what it means where it stands,  *)
(* the tokens of sections with a zero condition are gone, and all others   *)
(* remain in their order.                                                  *)
NamesExpand ==
  stage = "write" /\ next = 1 =>
    LET ts == ParsedTokens(source) IN DefinedOnce(ts) => tokens = Expansion(ts)

(* What the assembler wrote reaches the machine byte for byte if it is     *)
(* shorter than the memory; one that fills it, or more, reaches it empty.  *)
LoadedWhole ==
  stage = "list" /\ at = 0 /\ InScope =>
    LET ts == Live(tokens) IN
      NonZero([cells |-> program.data])
        = IF Extent(ts) < AddressSpace THEN {p \in Image(ts) : p[2] # 0} ELSE {}

(* The lines of a listing follow each other without gap or overlap from    *)
(* the first byte to the position of the sweep: instructions begin at      *)
(* bytes that are not zero, runs of zeros hold nothing else and are as     *)
(* long as they can be.  The run the sweep is in, the last one of the      *)
(* memory included, has no line yet.                                       *)
ListingTiles ==
  stage \in {"list", "done"} =>
    LET end(n) == IF n = 0 THEN 0 ELSE listing[n].to IN
      /\ \A n \in DOMAIN listing :
           /\ listing[n].from = end(n - 1)
           /\ IF listing[n].kind = "instr" THEN L!Data(listing[n].from) # 0
              ELSE \A k \in DOMAIN program.data : k \in listing[n].from .. listing[n].to - 1 => L!Data(k) = 0
      /\ \A n \in DOMAIN listing : n < Len(listing) /\ listing[n].kind = "nops" => listing[n + 1].kind = "instr"
      /\ IF last_nop
         THEN /\ nop_from = end(Len(listing))
              /\ \A k \in DOMAIN program.data : k \in nop_from .. at - 1 => L!Data(k) = 0
         ELSE at = end(Len(listing))

(* The listing of a program without data shows its instructions: each at   *)
(* its address, with the operand that the source gives, NOPs apart.        *)
WithoutData(ts) == \A k \in DOMAIN ts : ts[k].opcode \notin {"DB", "DW"}
Shown == {<<listing[n].from, listing[n].op, listing[n].operand>> :
            n \in {m \in DOMAIN listing : listing[m].kind = "instr"}}
OperandValue(ts, t) ==
  LET bytes == [k \in 2 .. Len(Bytes(t)) |-> Resolved(ts, Bytes(t)[k])]
  IN  CASE Len(Bytes(t)) = 1 -> 0
        [] Len(Bytes(t)) = 2 -> bytes[2]
        [] Len(Bytes(t)) = 3 -> Word(bytes[2], bytes[3])
Written8080(ts) ==
  {<<Addresses(ts)[k], Bytes(ts[k])[1].byte, OperandValue(ts, ts[k])>> :
     k \in {j \in DOMAIN ts : ts[j].opcode \in DOMAIN BaseCode \ {"NOP"}}}
ListingShowsProgram ==
  stage = "done" /\ InScope /\ Extent(Live(tokens)) < AddressSpace /\ WithoutData(Live(tokens))
    => Shown = Written8080(Live(tokens))
=============================================================================
