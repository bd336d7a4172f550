----------------------------- MODULE Tokens8080 -----------------------------
(***************************************************************************)
(* Tokens, as the parser hands them to the pre-pass and the assembler.     *)
(* A string view is the text it shows; what the characters of a text mean  *)
(* to strtol and to DB is given by constants.                              *)
(***************************************************************************)
EXTENDS Words8080, Sequences

CONSTANTS
  Numerals,   \* from the text of each number to what strtol makes of it, in 16 bits
  HexTails,   \* other texts with only hexadecimal digits behind the first character
  CharCodes   \* from each quoted text to the characters between its quotes

ASSUME NumeralsAssumption == /\ DOMAIN Numerals \subseteq STRING
                             /\ \A n \in DOMAIN Numerals : Numerals[n] \in Short
ASSUME HexTailsAssumption == HexTails \subseteq STRING
ASSUME CharCodesAssumption == \A s \in DOMAIN CharCodes : CharCodes[s] \in Seq(-128 .. 127)

(* The text of a string view, nothing included. *)
NoText == ""
Texts  == STRING \cup {NoText}

(* The argument buffer is zeroed, so an argument that is not there reads   *)
(* as an empty view.                                                       *)
NoArgument == [sv |-> NoText, is_imm |-> FALSE]
Argument(token, n) == IF n \in DOMAIN token.args THEN token.args[n] ELSE NoArgument

IsQuoted(text) == text \in DOMAIN CharCodes

(* The code of an unexpected text, PARSE_UNEXPECTED, is 1 and is returned  *)
(* as the value.                                                           *)
parse_immediate(text) ==
  IF text \in DOMAIN Numerals THEN Numerals[text]
  ELSE IF text \in HexTails \cup {NoText} THEN 0 ELSE 1
=============================================================================
