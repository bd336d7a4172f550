-------------------------- MODULE ParserReference --------------------------
(***************************************************************************)
(* How statements are spelled as lines of lexemes, with white space and    *)
(* comments where they may stand, and what the parser should recover of a  *)
(* statement that is spelled in one way or another.                        *)
(***************************************************************************)
EXTENDS Tokens8080

CONSTANT Statements   \* what is spelled

(* An operand may have a minus sign before it.  A statement without a      *)
(* label, or without an opcode, has no text there.                         *)
SourceOperand   == [kind : {"id", "num", "text"}, text : Texts, minus : BOOLEAN]
SourceStatement == [label : Texts, opcode : Texts, operands : Seq(SourceOperand)]

ASSUME StatementsAssumption ==
  /\ Statements \subseteq SourceStatement
  /\ \A st \in Statements : st.opcode = NoText => st.operands = <<>>

(* What separates the parts, whether it also stands before the colon of a  *)
(* label, whether a comment follows.                                       *)
Styles == [gap : {"blank", "tab"}, before : BOOLEAN, comment : BOOLEAN]

-----------------------------------------------------------------------------
Lex(kind, text) == [kind |-> kind, text |-> text, spaced |-> text \o " "]
Mark(kind)      == Lex(kind, NoText)

LabelPart(st, style) ==
  IF st.label = NoText THEN <<>>
  ELSE IF style.before THEN <<Lex("id", st.label), Mark(style.gap), Mark("colon"), Mark(style.gap)>>
  ELSE <<Lex("id", st.label), Mark("colon"), Mark(style.gap)>>

OperandPart(st, style, n) ==   \* with the comma before it
  LET o == st.operands[n] IN
    (IF n = 1 THEN <<>> ELSE <<Mark("comma"), Mark(style.gap)>>)
      \o (IF o.minus THEN <<Mark("other")>> ELSE <<>>) \o <<Lex(o.kind, o.text)>>

OperandsPart(st, style) ==
  LET spelled[n \in 0 .. Len(st.operands)] ==   \* its first n operands
        IF n = 0 THEN <<>> ELSE spelled[n - 1] \o OperandPart(st, style, n)
  IN  spelled[Len(st.operands)]

OpcodePart(st, style) ==
  IF st.opcode = NoText THEN <<>>
  ELSE <<Lex("id", st.opcode), Mark(style.gap)>> \o OperandsPart(st, style)

CommentPart(style) ==
  IF style.comment THEN <<Mark(style.gap), Mark("comment"), Mark("colon"), Mark("other")>> ELSE <<>>

Spelled(st, style) == LabelPart(st, style) \o (OpcodePart(st, style) \o CommentPart(style))

-----------------------------------------------------------------------------
(* The token has the label, the opcode and every operand.  Three things    *)
(* are lost: a minus sign, a label with white space before its colon, and, *)
(* without a message, a line in which a tab follows a number.              *)
Operands(st) == [n \in DOMAIN st.operands |->
  [sv |-> st.operands[n].text, is_imm |-> st.operands[n].kind = "num"]]

TabBehindNumber(st, style) ==
  /\ style.gap = "tab" /\ style.comment
  /\ st.operands # <<>> /\ st.operands[Len(st.operands)].kind = "num"

Nothing(st) == st.label = NoText /\ st.opcode = NoText

Recovered(st, style) ==
  IF TabBehindNumber(st, style) \/ Nothing(st) THEN <<>>
  ELSE <<[label  |-> IF style.before /\ st.label # NoText THEN st.label \o " " ELSE st.label,
          opcode |-> st.opcode,
          args   |-> Operands(st)]>>

SpelledLines == {<<Spelled(st, style), Recovered(st, style)>> : st \in Statements, style \in Styles}
=============================================================================
