------------------------------ MODULE Prepass ------------------------------
(***************************************************************************)
(* prepass of cpu8080_asmprepass.c: one sweep over the tokens that applies *)
(* substitutions (EQU, SET), drops the tokens of false IF sections and     *)
(* removes its own directives from the list.                               *)
(***************************************************************************)
EXTENDS Tokens8080, SequencesExt

CONSTANT Parsed   \* sequences of tokens that the parser may hand over

VARIABLES
  tokens, stage,   \* the list that is rewritten, and how far assemble has come
  index,           \* i of the sweep
  substitutes,     \* sequence of [from, to, strong]
  if_list          \* for each open IF, whether its section is dropped

vars == <<tokens, stage, index, substitutes, if_list>>

Init == /\ tokens \in Parsed /\ stage = "prepass"
        /\ index = 1 /\ substitutes = <<>> /\ if_list = <<>>

-----------------------------------------------------------------------------
(* An entry that was counted but never written.  No text matches it: that  *)
(* would take a length and a pointer left there by chance.                 *)
Unwritten == [from |-> "?", to |-> NoText, strong |-> FALSE]

find_substitute_index(name) ==
  LET hits == {i \in DOMAIN substitutes : substitutes[i].from = name}
  IN  IF hits = {} THEN 0 ELSE Min(hits)

find_substitute(name) ==
  LET i == find_substitute_index(name) IN IF i = 0 THEN name ELSE substitutes[i].to

(* A name that is found is protected by the strength of the entry behind   *)
(* the last one, not by its own; nothing has been stored there.  If it is  *)
(* overwritten, the count grows all the same.                              *)
add_substitute(from, to, strong) ==
  LET i     == find_substitute_index(from)
      entry == [from |-> from, to |-> to, strong |-> strong]
  IN  \/ i = 0 /\ substitutes' = Append(substitutes, entry)
      \/ i # 0 /\ substitutes' = Append([substitutes EXCEPT ![i] = entry], Unwritten)
      \/ i # 0 /\ UNCHANGED substitutes

(* The token at hand, after replace_by_substitute: opcode and arguments,   *)
(* not the label.  An argument stays a number if it was one.               *)
Token ==
  LET t == tokens[index] IN
    [label  |-> t.label,
     opcode |-> find_substitute(t.opcode),
     args   |-> [n \in DOMAIN t.args |-> [sv |-> find_substitute(t.args[n].sv), is_imm |-> t.args[n].is_imm]]]

At(name) == stage = "prepass" /\ index <= Len(tokens) /\ Token.opcode = name
Handling == stage = "prepass" /\ index <= Len(tokens)
Inside   == if_list # <<>>
Defines  == Argument(Token, 1).sv \in {"EQU", "SET"}

(* A mutation: the sweep goes on although the next token has moved up. *)
Discard_Skips == tokens' = RemoveAt(tokens, index) /\ index' = index + 1 /\ UNCHANGED stage

Discard == tokens' = RemoveAt(tokens, index) /\ UNCHANGED <<stage, index>>
Keep   == tokens' = [tokens EXCEPT ![index] = Token] /\ index' = index + 1 /\ UNCHANGED stage

-----------------------------------------------------------------------------
(* A mutation: the sweep stands still and the token stays. *)
DropEmpty_Stays == At(NoText) /\ UNCHANGED vars

(* A line with a label only goes, and its label with it. *)
DropEmpty == /\ At(NoText)
             /\ Discard
             /\ UNCHANGED <<substitutes, if_list>>

(* Inside a section only ENDIF is looked for: other directives stay there  *)
(* as ordinary tokens, or go with the rest.                                *)
EndSection == /\ Inside /\ At("ENDIF")
              /\ if_list' = Front(if_list)
              /\ Discard
              /\ UNCHANGED substitutes

InSection == /\ Handling /\ Inside /\ Token.opcode \notin {NoText, "ENDIF"}
             /\ IF Last(if_list) THEN Discard ELSE Keep
             /\ UNCHANGED <<substitutes, if_list>>

Define == /\ Handling /\ ~Inside /\ Token.opcode # NoText /\ Defines
          /\ add_substitute(Token.opcode, Argument(Token, 2).sv, Argument(Token, 1).sv = "EQU")
          /\ Discard
          /\ UNCHANGED if_list

BeginSection == /\ At("IF") /\ ~Inside /\ ~Defines
                /\ if_list' = Append(if_list, parse_immediate(Argument(Token, 1).sv) = 0)
                /\ Discard
                /\ UNCHANGED substitutes

(* ENDIF without IF, and the directives without a meaning yet. *)
DropDirective == /\ \E name \in {"ENDIF", "MACRO", "ENDM"} : At(name)
                 /\ ~Inside /\ ~Defines
                 /\ Discard
                 /\ UNCHANGED <<substitutes, if_list>>

KeepToken == /\ Handling /\ ~Inside /\ ~Defines
             /\ Token.opcode \notin {NoText, "IF", "ENDIF", "MACRO", "ENDM"}
             /\ Keep
             /\ UNCHANGED <<substitutes, if_list>>

EndOfTokens == /\ stage = "prepass" /\ index > Len(tokens)
               /\ stage' = "write"
               /\ UNCHANGED <<tokens, index, substitutes, if_list>>

prepass_handle_at ==
  DropEmpty \/ EndSection \/ InSection \/ Define \/ BeginSection \/ DropDirective \/ KeepToken

Next == prepass_handle_at \/ EndOfTokens

Spec == Init /\ [][Next]_vars
FairSpec == Spec /\ WF_vars(Next)
=============================================================================
