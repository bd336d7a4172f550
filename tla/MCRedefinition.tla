--------------------------- MODULE MCRedefinition ---------------------------
(***************************************************************************)
(* Programs that give a name a new value, as SET is meant to allow.        *)
(***************************************************************************)
EXTENDS Prepass, TLC

Plain(s)  == [sv |-> s, is_imm |-> FALSE]
Number(s) == [sv |-> s, is_imm |-> TRUE]
Definition(name, how, value) == [label |-> NoText, opcode |-> name, args |-> <<Plain(how), value>>]
Use(name) == [label |-> NoText, opcode |-> "ADI", args |-> <<Plain(name)>>]

Redefinitions ==
  {<<Definition("X", "SET", v), Use("X"), Definition("X", "SET", w), Use("X")>> :
     v, w \in {Number("2"), Number("7"), Plain("B")}}

SmallNumbers == ("2" :> 2) @@ ("7" :> 7)
NoTexts      == <<>>

(* A name has the value of its last SET, as the comment //redefinable      *)
(* says: find_substitute finds that value from then on.                    *)
SetRedefines ==
  [][(Define /\ tokens[index].args[1].sv = "SET")
       => \A name \in {tokens[index].opcode}, value \in {tokens[index].args[2].sv} :
            find_substitute(name)' = value]_vars
=============================================================================
