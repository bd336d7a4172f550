-------------------------- MODULE PrepassReference --------------------------
(***************************************************************************)
(* What the pre-pass makes of a token list, said of the list as a whole:   *)
(* which section a token is in, what a name means where it stands, which   *)
(* tokens remain.                                                          *)
(***************************************************************************)
EXTENDS Tokens8080

(* Sections do not nest: an IF inside a section opens nothing, and the     *)
(* first ENDIF closes it.                                                  *)
EndsBetween(ts, p, q) == \E r \in p + 1 .. q - 1 : ts[r].opcode = "ENDIF"
IsDefinition(t) == Argument(t, 1).sv \in {"EQU", "SET"}

Openers(ts) ==
  LET opening[n \in 0 .. Len(ts)] ==   \* the positions of those among the first n tokens
        IF n = 0 THEN {}
        ELSE opening[n - 1]
               \cup {q \in {n} : /\ ts[q].opcode = "IF" /\ ~IsDefinition(ts[q])
                                \* the sections begun before are over
                                /\ \A p \in opening[n - 1] : EndsBetween(ts, p, q)}
  IN  opening[Len(ts)]

SectionOf(ts, q) == {p \in Openers(ts) : p < q /\ ~EndsBetween(ts, p, q)}

(* Definitions count outside sections only. *)
Definitions(ts) == {q \in DOMAIN ts : IsDefinition(ts[q]) /\ SectionOf(ts, q) = {} /\ ts[q].opcode # NoText}

Directives == {"IF", "ENDIF", "MACRO", "ENDM", "EQU", "SET"}

(* Every name is defined once, as something, and no directive is renamed.  *)
DefinedOnce(ts) ==
  \A p \in Definitions(ts) :
    /\ ts[p].opcode \notin Directives
    /\ Argument(ts[p], 2).sv \notin Directives \cup {NoText}
    /\ \A q \in Definitions(ts) : ts[p].opcode = ts[q].opcode => p = q

(* The texts that stand for something, nothing included. *)
TextsIn(ts) ==
  {NoText} \cup {ts[q].opcode : q \in DOMAIN ts}
           \cup UNION {{ts[q].args[n].sv : n \in DOMAIN ts[q].args} : q \in DOMAIN ts}

(* The meaning of each text behind the first n tokens: what its definition *)
(* said, in the meaning that had where the definition stands.              *)
Meanings(ts) ==
  LET means[n \in 0 .. Len(ts)] ==
        [s \in TextsIn(ts) |->
           IF n = 0 THEN s
           ELSE IF n \in Definitions(ts) /\ s = ts[n].opcode THEN means[n - 1][Argument(ts[n], 2).sv]
           ELSE means[n - 1][s]]
  IN  means

(* A token with the meanings its texts have where it stands. *)
Meaning(ts, q, s) == Meanings(ts)[q - 1][s]
Expanded(ts, q) ==
  [label  |-> ts[q].label,
   opcode |-> Meaning(ts, q, ts[q].opcode),
   args   |-> [n \in DOMAIN ts[q].args |->
                 [sv |-> Meaning(ts, q, ts[q].args[n].sv), is_imm |-> ts[q].args[n].is_imm]]]

(* A token remains unless it is a directive, a label alone, or in a        *)
(* section whose condition is zero.                                        *)
Remains(ts, q) ==
  /\ ts[q].opcode # NoText
  /\ \/ SectionOf(ts, q) = {} /\ ~IsDefinition(ts[q]) /\ ts[q].opcode \notin {"IF", "ENDIF", "MACRO", "ENDM"}
     \/ \E p \in SectionOf(ts, q) :
          ts[q].opcode # "ENDIF" /\ parse_immediate(Argument(Expanded(ts, p), 1).sv) # 0

Expansion(ts) ==
  LET left[n \in 0 .. Len(ts)] ==   \* of the first n tokens
        IF n = 0 THEN <<>>
        ELSE IF Remains(ts, n) THEN Append(left[n - 1], Expanded(ts, n))
        ELSE left[n - 1]
  IN  left[Len(ts)]
=============================================================================
