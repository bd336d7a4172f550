---------------------------- MODULE MCToolchain ----------------------------
(***************************************************************************)
(* Source texts for the tool chain, and what holds of their way from lines *)
(* to a listing.                                                           *)
(***************************************************************************)
EXTENDS Toolchain

(* Statements, and lines that spell them in different ways. *)
Name(s)   == [kind |-> "id", text |-> s, minus |-> FALSE]
Number(s) == [kind |-> "num", text |-> s, minus |-> FALSE]
Minus(s)  == [kind |-> "num", text |-> s, minus |-> TRUE]
Quoted(s) == [kind |-> "text", text |-> s, minus |-> FALSE]
St(label, opcode, operands) == [label |-> label, opcode |-> opcode, operands |-> operands]

Plain == [gap |-> "blank", before |-> FALSE, comment |-> FALSE]
Lines(statements) == [k \in DOMAIN statements |-> Spelled(statements[k], Plain)]

-----------------------------------------------------------------------------
(* The example, asm8080.asm, and the file that the repository holds for it *)
ExampleText ==
  Lines(<<St("", "DB", <<Quoted("'Hi'")>>),
          St("", "ORG", <<Number("0x100")>>),
          St("", "ADI", <<Number("0x03")>>),
          St("", "MOV", <<Name("B"), Name("A")>>),
          St("", "INR", <<Name("B")>>),
          St("", "NOP", <<>>),
          St("", "REG_C", <<Name("SET"), Name("C")>>),
          St("", "LXI", <<Name("SP"), Number("0xF000")>>),
          St("", "PUSH", <<Name("B")>>),
          St("", "OUT", <<Number("0x99")>>),
          St("", "OUT", <<Number("41")>>),
          St("", "ADI", <<Number("0x03")>>),
          St("", "MOV", <<Name("A"), Name("B")>>),
          St("", "NOP", <<>>),
          St("", "ADD", <<Name("REG_C")>>),
          St("", "MVI", <<Name("REG_C"), Number("0x5A")>>),
          St("", "STA", <<Number("0x17C2")>>),
          St("", "JMP", <<Name("LABEL")>>),
          St("LABEL3", "HLT", <<>>),
          St("LABEL", "POP", <<Name("H")>>),
          St("", "ADI", <<Number("0x07")>>),
          St("", "IN", <<Number("0x15")>>),
          St("", "MOV", <<Name("D"), Name("A")>>),
          St("", "JMP", <<Name("LABEL3")>>)>>)
ExampleBytes ==
  <<72, 105>> \o [k \in 1 .. 254 |-> 0]
  \o <<198, 3, 71, 4, 0, 49, 240, 0, 197, 211, 153, 211, 41, 198, 3, 120>>
  \o <<0, 129, 14, 90, 50, 23, 194, 195, 1, 27, 118, 225, 198, 7, 219, 21>>
  \o <<87, 195, 1, 26>>

(* Labels: defined before and after they are used, twice, never; data and  *)
(* fillers, up to the end of the address space and beyond it.              *)
LabelStatements ==
  {St("A", "NOP", <<>>), St("", "JMP", <<Name("A")>>), St("", "LXI", <<Name("H"), Name("B")>>),
   St("B", "DW", <<Name("A"), Name("B"), Quoted("'hi'"), Number("7")>>), St("A", "DS", <<Number("2")>>),
   St("", "ORG", <<Number("7")>>), St("", "END", <<>>), St("B", "MVI", <<Name("C"), Name("A")>>),
   St("", "DB", <<Quoted("'hi'"), Number("0x17C2"), Name("A"), Quoted("''")>>),
   St("", "ORG", <<Number("65534")>>), St("", "DS", <<Name("A")>>)}
FewLabelStatements ==
  {St("A", "NOP", <<>>), St("", "JMP", <<Name("A")>>), St("", "LXI", <<Name("H"), Name("B")>>),
   St("B", "CALL", <<Name("B")>>), St("", "ORG", <<Number("65534")>>)}

(* Definitions, conditions and their uses. *)
DefinitionStatements ==
  {St("", "X", <<Name("EQU"), Number("7")>>), St("", "X", <<Name("SET"), Number("0")>>),
   St("", "Y", <<Name("EQU"), Name("X")>>), St("", "IF", <<Name("X")>>), St("", "ENDIF", <<>>),
   St("", "ADI", <<Number("7")>>), St("L", "", <<>>), St("L", "LXI", <<Name("Y"), Name("L")>>)}

FewDefinitionStatements ==
  {St("", "X", <<Name("EQU"), Number("7")>>), St("", "Y", <<Name("EQU"), Name("X")>>),
   St("", "IF", <<Name("X")>>), St("", "ENDIF", <<>>), St("", "ADI", <<Number("7")>>),
   St("L", "LXI", <<Name("Y"), Name("L")>>)}

(* A definition without a value, and what uses it. *)
NothingDefined ==
  {<<St("", "X", <<Name("EQU")>>), St("L", opcode, <<Name("X"), Number("7")>>)>> :
     opcode \in {"DB", "DW", "JMP", "X"}}

SeqsOf(set, n) == UNION {[1 .. k -> set] : k \in 1 .. n}

SpellingStatements ==
  {St("", "", <<>>), St("A", "", <<>>)} \cup
  {St(l, "MVI", ops) : l \in {"", "A"},
     ops \in {<<>>, <<Name("B")>>, <<Name("B"), Number("7")>>, <<Number("7"), Minus("2")>>,
              <<Quoted("'hi'"), Number("7"), Quoted("''")>>}}

AllStatements == SpellingStatements \cup LabelStatements \cup DefinitionStatements
AllSources ==
  {ExampleText}
    \cup {Lines(s) : s \in SeqsOf(LabelStatements, 3) \cup SeqsOf(FewLabelStatements, 4)}
    \cup {Lines(s) : s \in SeqsOf(DefinitionStatements, 3) \cup SeqsOf(FewDefinitionStatements, 4) \cup NothingDefined}
    \cup {<<Spelled(st, style)>> : st \in SpellingStatements, style \in Styles}

(* What strtol makes of the numbers, and the texts. *)
SomeNumerals == [s \in {"0", "2", "7", "41", "65534", "0x03", "0x07", "0x15", "0x5A", "0x99", "0x100", "0xF000", "0x17C2"} |->
  CASE s = "0" -> 0 [] s = "2" -> 2 [] s = "7" -> 7 [] s = "41" -> 41 [] s = "65534" -> 65534
    [] s = "0x03" -> 3 [] s = "0x07" -> 7 [] s = "0x15" -> 21 [] s = "0x5A" -> 90 [] s = "0x99" -> 153
    [] s = "0x100" -> 256 [] s = "0xF000" -> 61440 [] s = "0x17C2" -> 6082]
SomeCharCodes == ("'Hi'" :> <<72, 105>>) @@ ("'hi'" :> <<104, 105>>) @@ ("''" :> <<>>)
SingleLetters == {"A", "B", "C", "H", "L", "X", "Y"}
SomeLeftovers == {-1, 3}

-----------------------------------------------------------------------------
(* The text of the example becomes the binary that lies beside it. *)
ExampleAssembles ==
  stage = "assembled" /\ source = ExampleText =>
    /\ fout.len = Len(ExampleBytes)
    /\ \A k \in DOMAIN ExampleBytes : ByteAt(fout, k - 1) = ExampleBytes[k]

(* Every loop of the tools ends, whatever the text: removing a token while *)
(* the sweep stands still, patching, skipping runs of zeros.  Only a name  *)
(* that was defined as nothing can keep the listing from being reached.    *)
ToolsEnd == <>(stage \in {"done", "wild"})
=============================================================================
