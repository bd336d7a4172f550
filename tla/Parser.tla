------------------------------- MODULE Parser -------------------------------
(***************************************************************************)
(* parse_file and next_token of cpu8080_parser.c.  A line is the sequence  *)
(* of its lexemes, [kind, text, spaced], of these kinds:                   *)
(*   id       letters, digits and _, not beginning with a digit            *)
(*   num      what get_immediate consumes from a digit on                  *)
(*   text     a quoted text with both its quotes                           *)
(*   open     a quoted text cut off by the end of the line or a semicolon  *)
(*   blank    a space                      tab      any other white space  *)
(*   colon    comma                                                        *)
(*   comment  a semicolon, which ends the line for the parser              *)
(*   other    any other character, the minus sign among them               *)
(* The text of an identifier together with the white space behind it is    *)
(* its spaced text.  How a line is read into memory is modelled in         *)
(* LineReader.                                                             *)
(***************************************************************************)
EXTENDS Tokens8080, FiniteSetsExt

CONSTANT Sources   \* sequences of lines

Kinds == {"id", "num", "text", "open", "blank", "tab", "colon", "comma", "comment", "other"}
Lexeme == [kind : Kinds, text : Texts, spaced : Texts]

VARIABLES
  source,         \* the lines of the file
  line,           \* the next line
  tokens, stage   \* what was recognised so far, and how far assemble has come

vars == <<source, line, tokens, stage>>

Init == /\ source \in Sources /\ line = 1
        /\ tokens = <<>> /\ stage = "parse"

-----------------------------------------------------------------------------
White == {"blank", "tab"}

(* stop_on_char: the line is over at its end and at a comment.             *)
Stops(l, p) == IF p > Len(l) THEN TRUE ELSE l[p].kind = "comment"
IsAt(l, p, kinds) == IF p > Len(l) THEN FALSE ELSE l[p].kind \in kinds

skip_whitespace(l, p) ==
  Min({q \in p .. Len(l) + 1 : ~IsAt(l, q, White)})

(* A mutation: no white space may stand before the colon. *)
IsLabel_AtOnce(l, p) == IsAt(l, p + 1, {"colon"})

(* get_label, from an identifier at p: whether a colon follows, perhaps    *)
(* after white space, which then belongs to the name of the label.         *)
IsLabel(l, p) == IsAt(l, skip_whitespace(l, p + 1), {"colon"})
LabelText(l, p) == IF IsAt(l, p + 1, White) THEN l[p].spaced ELSE l[p].text

(* get_opcode_args: identifiers, numbers and texts are arguments, all that *)
(* stands between them is skipped.                                         *)
Arguments(l, p) ==
  LET end == Min({q \in p .. Len(l) + 1 : Stops(l, q)})
      read[n \in 0 .. end - p] ==   \* the arguments among the first n lexemes
        IF n = 0 THEN <<>>
        ELSE LET x == l[p + n - 1] IN
             IF x.kind \in {"id", "num", "text", "open"}
             THEN Append(read[n - 1], [sv |-> x.text, is_imm |-> x.kind = "num"])
             ELSE read[n - 1]
  IN  read[end - p]

(* A number has to be followed by a space, a comma or the end of the line. *)
BadNumber(l, p) ==
  \E q \in p .. Len(l) :
    /\ \A r \in p .. q : ~Stops(l, r)
    /\ l[q].kind = "num" /\ ~Stops(l, q + 1) /\ ~IsAt(l, q + 1, {"blank", "comma"})

-----------------------------------------------------------------------------
Rejected == [accepted |-> FALSE]
Accepted(label, opcode, args) ==
  [accepted |-> TRUE, token |-> [label |-> label, opcode |-> opcode, args |-> args]]

(* From the opcode on.  A label alone is a token without opcode.           *)
get_opcode(l, p, label) ==
  LET q == skip_whitespace(l, p)
  IN  IF Stops(l, q) THEN Accepted(label, NoText, <<>>)
      ELSE IF l[q].kind # "id" \/ BadNumber(l, q + 1) THEN Rejected
      ELSE Accepted(label, l[q].text, Arguments(l, q + 1))

next_token(l) ==
  LET p == skip_whitespace(l, 1)
  IN  IF ~IsAt(l, p, {"id"}) THEN Rejected
      ELSE IF IsLabel(l, p)
           THEN get_opcode(l, skip_whitespace(l, p + 1) + 1, LabelText(l, p))
           ELSE get_opcode(l, p, NoText)

-----------------------------------------------------------------------------
Parsing == stage = "parse" /\ line <= Len(source)
NextLine == line' = line + 1 /\ UNCHANGED <<source, stage>>

AcceptLine == /\ Parsing /\ next_token(source[line]).accepted
              /\ tokens' = Append(tokens, next_token(source[line]).token)
              /\ NextLine

(* Empty lines, comments, and without a message whatever is not understood *)
SkipLine == /\ Parsing /\ ~next_token(source[line]).accepted
            /\ NextLine
            /\ UNCHANGED tokens

EndOfFile == /\ stage = "parse" /\ line > Len(source)
             /\ stage' = "prepass"
             /\ UNCHANGED <<source, line, tokens>>

parse_file == AcceptLine \/ SkipLine
Next == parse_file \/ EndOfFile
Spec == Init /\ [][Next]_vars
=============================================================================
