-------------------------- MODULE Toolchain_proofs --------------------------
(***************************************************************************)
(* The tool chain from the text to the listing: what the parser and the    *)
(* pre-pass hand over is what the proofs about the assembler assume, what  *)
(* it wrote is what is loaded, the listing covers and shows it, the        *)
(* pre-pass expands each name to what it means where it stands, and the    *)
(* parser recovers the statements that are spelled.                        *)
(***************************************************************************)
EXTENDS Toolchain, AssemblerReference_proofs, SequenceTheorems

-----------------------------------------------------------------------------
(* The parser: a line that is accepted gives a token.                      *)
LEMMA SameMin == \A set : P!Min(set) = Min(set) /\ S!Min(set) = Min(set) /\ L!Min(set) = Min(set)
BY DEF P!Min, S!Min, L!Min, Min

LEMMA SameText == P!NoText = NoText /\ P!Texts = Texts /\ S!NoText = NoText /\ S!Texts = Texts
BY DEF P!NoText, P!Texts, S!NoText, S!Texts, NoText, Texts

(* The search for a place in a line stops behind its last lexeme.          *)
LEMMA FirstPlace ==
  ASSUME NEW l, Len(l) \in Nat, NEW p \in 1 .. Len(l) + 1,
         NEW Found \in SUBSET (p .. Len(l) + 1), Len(l) + 1 \in Found
  PROVE  P!Min(Found) \in p .. Len(l) + 1 /\ P!Min(Found) \in Found
<1>1. Found \in SUBSET Nat /\ Found # {}
  OBVIOUS
<1>2. Min(Found) \in Found
  BY <1>1, LeastOfNats
<1> QED
  BY <1>2, SameMin

LEMMA WhiteSkipped ==
  ASSUME NEW l, Len(l) \in Nat, NEW p \in 1 .. Len(l) + 1
  PROVE  P!skip_whitespace(l, p) \in p .. Len(l) + 1
<1> DEFINE Found == {q \in p .. Len(l) + 1 : ~P!IsAt(l, q, P!White)}
<1>1. Len(l) + 1 \in Found
  BY DEF P!IsAt
<1>2. Found \in SUBSET (p .. Len(l) + 1)
  OBVIOUS
<1> HIDE DEF Found
<1>3. P!Min(Found) \in p .. Len(l) + 1
  BY <1>1, <1>2, FirstPlace
<1> QED
  BY <1>3 DEF P!skip_whitespace, Found

ArgKinds == {"id", "num", "text", "open"}
ReadOn(args, x) == IF x.kind \in ArgKinds THEN Append(args, [sv |-> x.text, is_imm |-> x.kind = "num"]) ELSE args
IsRead(f, l, p, n) == f = [i \in 0 .. n |-> IF i = 0 THEN <<>> ELSE ReadOn(f[i - 1], l[p + i - 1])]

LEMMA ReadOnTyped ==
  ASSUME NEW args \in Seq(Arg), NEW x, x.text \in Texts
  PROVE  ReadOn(args, x) \in Seq(Arg)
<1>1. (x.kind = "num") \in BOOLEAN
  OBVIOUS
<1>2. [sv |-> x.text, is_imm |-> x.kind = "num"] \in Arg
  BY <1>1 DEF Arg
<1> QED
  BY <1>2 DEF ReadOn

ReadAlong(h, l, p, n) == \A i \in 1 .. n : h[i] = ReadOn(h[i - 1], l[p + i - 1])

LEMMA ReadSteps ==
  ASSUME NEW l, NEW p, NEW n \in Nat, \A i \in 1 .. n : l[p + i - 1].text \in Texts,
         NEW h, h = CHOOSE f : IsRead(f, l, p, n)
  PROVE  /\ h[0] = <<>> /\ ReadAlong(h, l, p, n)
         /\ \A i \in 0 .. n : h[i] \in Seq(Arg)
<1> DEFINE x(i) == l[p + i - 1]
           G == [y \in (1 .. n) \X Seq(Arg) |-> ReadOn(y[2], x(y[1]))]
<1>1. \A i \in 1 .. n : x(i).text \in Texts
  OBVIOUS
<1> HIDE DEF x
<1>2. \A y \in (1 .. n) \X Seq(Arg) : y[1] \in 1 .. n /\ y[2] \in Seq(Arg)
  OBVIOUS
<1>3. G \in [(1 .. n) \X Seq(Arg) -> Seq(Arg)]
  BY <1>1, <1>2, ReadOnTyped
<1>4. \A i \in 1 .. n, s \in Seq(Arg) : G[<<i, s>>] = ReadOn(s, x(i))
  OBVIOUS
<1> HIDE DEF G
<1>5. PICK f \in [0 .. n -> Seq(Arg)] : Follows(f, n, <<>>, G)
  <2>1. <<>> \in Seq(Arg)
    OBVIOUS
  <2> QED
    BY <2>1, <1>3, Recursion
<1>6. ASSUME NEW i \in 0 .. n PROVE f[i] = IF i = 0 THEN <<>> ELSE ReadOn(f[i - 1], x(i))
  <2>1. CASE i = 0
    BY <2>1, <1>5 DEF Follows
  <2>2. CASE i # 0
    <3>1. i \in 1 .. n /\ i - 1 \in 0 .. n
      BY <2>2
    <3>2. f[i - 1] \in Seq(Arg)
      BY <3>1, <1>5
    <3> QED
      BY <2>2, <3>1, <3>2, <1>4, <1>5 DEF Follows
  <2> QED
    BY <2>1, <2>2
<1>7. f = [i \in 0 .. n |-> f[i]]
  BY <1>5
<1>8. IsRead(f, l, p, n)
  BY <1>6, <1>7 DEF IsRead, x
<1>9. IsRead(h, l, p, n)
  BY <1>8
<1>10. \A i \in 0 .. n : h[i] = IF i = 0 THEN <<>> ELSE ReadOn(h[i - 1], x(i))
  BY <1>9 DEF IsRead, x
<1> DEFINE Holds == {i \in 0 .. n : h[i] \in Seq(Arg)}
<1>11. 0 \in Holds
  <2>1. 0 \in 0 .. n /\ <<>> \in Seq(Arg)
    OBVIOUS
  <2>2. h[0] = <<>>
    BY <2>1, <1>10
  <2> QED
    BY <2>1, <2>2
<1>12. ASSUME NEW i \in 1 .. n, i - 1 \in Holds PROVE i \in Holds
  <2>1. i \in 0 .. n /\ i # 0 /\ h[i - 1] \in Seq(Arg)
    BY <1>12
  <2>2. h[i] = ReadOn(h[i - 1], x(i))
    BY <2>1, <1>10
  <2>3. h[i] \in Seq(Arg)
    BY <2>1, <2>2, <1>1, ReadOnTyped
  <2> QED
    BY <2>1, <2>3
<1> HIDE DEF Holds
<1>13. \A i \in 0 .. n : i \in Holds
  BY <1>11, <1>12, Induction
<1>14. \A i \in 0 .. n : h[i] \in Seq(Arg)
  BY <1>13 DEF Holds
<1>15. h[0] = <<>>
  <2>1. 0 \in 0 .. n
    OBVIOUS
  <2> QED
    BY <2>1, <1>10
<1>16. ASSUME NEW i \in 1 .. n PROVE h[i] = ReadOn(h[i - 1], l[p + i - 1])
  <2>1. i \in 0 .. n /\ i # 0
    OBVIOUS
  <2> QED
    BY <2>1, <1>10 DEF x
<1> QED
  BY <1>14, <1>15, <1>16 DEF ReadAlong

LEMMA ArgumentsTyped ==
  ASSUME NEW l \in Seq(P!Lexeme), NEW p \in 1 .. Len(l) + 1
  PROVE  P!Arguments(l, p) \in Seq(Arg)
<1> DEFINE Found == {q \in p .. Len(l) + 1 : P!Stops(l, q)}
           end == P!Min(Found)
           n == end - p
           h == CHOOSE f : IsRead(f, l, p, n)
<1>1. Len(l) \in Nat /\ \A q \in 1 .. Len(l) : l[q] \in P!Lexeme
  OBVIOUS
<1>2. Len(l) + 1 \in Found
  BY <1>1 DEF P!Stops
<1>3. Found \in SUBSET (p .. Len(l) + 1)
  OBVIOUS
<1>4. end \in p .. Len(l) + 1
  <2> HIDE DEF Found
  <2> QED
    BY <1>1, <1>2, <1>3, FirstPlace
<1>5. P!Arguments(l, p) = h[n]
  BY DEF P!Arguments, IsRead, ReadOn, ArgKinds
<1> HIDE DEF h, end
<1>6. n \in Nat /\ \A i \in 1 .. n : p + i - 1 \in 1 .. Len(l)
  BY <1>1, <1>4
<1>7. \A i \in 1 .. n : l[p + i - 1].text \in Texts
  BY <1>1, <1>6, SameText DEF P!Lexeme
<1> HIDE DEF n
<1>8. h[n] \in Seq(Arg)
  <2>1. h = CHOOSE f : IsRead(f, l, p, n)
    BY DEF h
  <2>2. \A i \in 0 .. n : h[i] \in Seq(Arg)
    BY <1>6, <1>7, <2>1, ReadSteps
  <2> QED
    BY <1>6, <2>2
<1> QED
  BY <1>5, <1>8

AcceptedTyped(r) == r.accepted => r.token \in TokenType

LEMMA OpcodeTyped ==
  ASSUME NEW l \in Seq(P!Lexeme), NEW p \in 1 .. Len(l) + 1, NEW label \in Texts
  PROVE  AcceptedTyped(P!get_opcode(l, p, label))
<1> DEFINE q == P!skip_whitespace(l, p)
<1>1. Len(l) \in Nat /\ \A k \in 1 .. Len(l) : l[k] \in P!Lexeme
  OBVIOUS
<1>2. q \in 1 .. Len(l) + 1
  BY <1>1, WhiteSkipped
<1>3. P!NoText \in Texts /\ <<>> \in Seq(Arg)
  BY SameText DEF Texts
<1>4. ~P!Rejected.accepted
  BY DEF P!Rejected
<1>5. \A opcode \in Texts, args \in Seq(Arg) : P!Accepted(label, opcode, args).token \in TokenType
  BY DEF P!Accepted, TokenType
<1> HIDE DEF q
<1>6. CASE P!Stops(l, q)
  <2>1. P!get_opcode(l, p, label) = P!Accepted(label, P!NoText, <<>>)
    BY <1>6 DEF P!get_opcode, q
  <2> QED
    BY <2>1, <1>3, <1>5 DEF AcceptedTyped
<1>7. CASE ~P!Stops(l, q) /\ (l[q].kind # "id" \/ P!BadNumber(l, q + 1))
  <2>1. P!get_opcode(l, p, label) = P!Rejected
    BY <1>7 DEF P!get_opcode, q
  <2> QED
    BY <2>1, <1>4 DEF AcceptedTyped
<1>8. CASE ~P!Stops(l, q) /\ ~(l[q].kind # "id" \/ P!BadNumber(l, q + 1))
  <2>1. P!get_opcode(l, p, label) = P!Accepted(label, l[q].text, P!Arguments(l, q + 1))
    BY <1>8 DEF P!get_opcode, q
  <2>2. q \in 1 .. Len(l)
    BY <1>1, <1>2, <1>8 DEF P!Stops
  <2>3. q + 1 \in 1 .. Len(l) + 1 /\ l[q].text \in Texts
    BY <1>1, <2>2, SameText DEF P!Lexeme
  <2>4. P!Arguments(l, q + 1) \in Seq(Arg)
    BY <2>3, ArgumentsTyped
  <2> QED
    BY <2>1, <2>3, <2>4, <1>5 DEF AcceptedTyped
<1> QED
  BY <1>6, <1>7, <1>8

LEMMA TokenOfLine == ASSUME NEW l \in Seq(P!Lexeme) PROVE AcceptedTyped(P!next_token(l))
<1> DEFINE p == P!skip_whitespace(l, 1)
           q == P!skip_whitespace(l, p + 1)
<1>1. Len(l) \in Nat /\ \A k \in 1 .. Len(l) : l[k] \in P!Lexeme
  OBVIOUS
<1>2. p \in 1 .. Len(l) + 1
  BY <1>1, WhiteSkipped
<1> HIDE DEF p
<1>3. CASE ~P!IsAt(l, p, {"id"})
  BY <1>3 DEF P!next_token, p, P!Rejected, AcceptedTyped
<1>4. CASE P!IsAt(l, p, {"id"})
  <2>1. p \in 1 .. Len(l) /\ p + 1 \in 1 .. Len(l) + 1
    BY <1>1, <1>2, <1>4 DEF P!IsAt
  <2>2. CASE P!IsLabel(l, p)
    <3>1. q \in p + 1 .. Len(l) + 1
      BY <1>1, <2>1, WhiteSkipped
    <3>2. P!IsAt(l, q, {"colon"})
      BY <2>2 DEF P!IsLabel
    <3> HIDE DEF q
    <3>3. q + 1 \in 1 .. Len(l) + 1
      BY <1>1, <2>1, <3>1, <3>2 DEF P!IsAt
    <3>4. l[p] \in P!Lexeme
      BY <1>1, <2>1
    <3>5. P!LabelText(l, p) \in Texts
      BY <3>4, SameText DEF P!LabelText, P!Lexeme
    <3>6. P!next_token(l) = P!get_opcode(l, q + 1, P!LabelText(l, p))
      BY <1>4, <2>2 DEF P!next_token, p, q
    <3> QED
      BY <3>3, <3>5, <3>6, OpcodeTyped
  <2>3. CASE ~P!IsLabel(l, p)
    <3>1. P!next_token(l) = P!get_opcode(l, p, P!NoText)
      BY <1>4, <2>3 DEF P!next_token, p
    <3>2. P!NoText \in Texts
      BY SameText DEF Texts
    <3> QED
      BY <3>1, <3>2, <1>2, OpcodeTyped
  <2> QED
    BY <2>2, <2>3
<1> QED
  BY <1>3, <1>4

-----------------------------------------------------------------------------
(* The pre-pass: it puts texts for texts and removes tokens.               *)
Entry == [from : Texts \cup {"?"}, to : Texts, strong : BOOLEAN]
SweepTyped == tokens \in Seq(TokenType) /\ index \in Nat \ {0} /\ substitutes \in Seq(Entry)

LEMMA SubstituteFound ==
  ASSUME SweepTyped, NEW name
  PROVE  LET i == S!find_substitute_index(name) IN i = 0 \/ i \in 1 .. Len(substitutes)
<1> DEFINE hits == {i \in DOMAIN substitutes : substitutes[i].from = name}
<1>1. hits \in SUBSET Nat /\ hits \subseteq 1 .. Len(substitutes)
  BY DEF SweepTyped
<1>2. S!find_substitute_index(name) = IF hits = {} THEN 0 ELSE S!Min(hits)
  BY DEF S!find_substitute_index
<1> HIDE DEF hits
<1>3. hits # {} => S!Min(hits) \in hits
  BY <1>1, LeastOfNats, SameMin
<1> QED
  BY <1>1, <1>2, <1>3

LEMMA SubstituteTyped ==
  ASSUME SweepTyped, NEW name \in Texts
  PROVE  S!find_substitute(name) \in Texts
<1> DEFINE i == S!find_substitute_index(name)
<1>1. i = 0 \/ i \in 1 .. Len(substitutes)
  BY SubstituteFound
<1>2. \A k \in 1 .. Len(substitutes) : substitutes[k] \in Entry
  BY DEF SweepTyped
<1>3. S!find_substitute(name) = IF i = 0 THEN name ELSE substitutes[i].to
  BY DEF S!find_substitute
<1> HIDE DEF i
<1> QED
  BY <1>1, <1>2, <1>3 DEF Entry

LEMMA SweptTokenTyped ==
  ASSUME SweepTyped, index <= Len(tokens)
  PROVE  S!Token \in TokenType
<1> DEFINE t == tokens[index]
           args == [n \in DOMAIN t.args |-> [sv |-> S!find_substitute(t.args[n].sv), is_imm |-> t.args[n].is_imm]]
<1>1. t \in TokenType
  BY DEF SweepTyped
<1>2. S!Token = [label |-> t.label, opcode |-> S!find_substitute(t.opcode), args |-> args]
  BY DEF S!Token
<1> HIDE DEF t
<1>3. t.args \in Seq(Arg) /\ t.label \in Texts /\ t.opcode \in Texts
      /\ t = [label |-> t.label, opcode |-> t.opcode, args |-> t.args]
  BY <1>1 DEF TokenType
<1>4. \A n \in DOMAIN t.args : args[n] \in Arg
  <2> SUFFICES ASSUME NEW n \in DOMAIN t.args PROVE args[n] \in Arg
    OBVIOUS
  <2>1. t.args[n] \in Arg
    BY <1>3
  <2>2. t.args[n].sv \in Texts
    BY <2>1 DEF Arg
  <2>3. S!find_substitute(t.args[n].sv) \in Texts
    BY <2>2, SubstituteTyped
  <2> QED
    BY <2>1, <2>3 DEF Arg
<1>5. args \in Seq(Arg)
  <2>1. DOMAIN t.args = 1 .. Len(t.args) /\ Len(t.args) \in Nat
    BY <1>3
  <2>2. args = [n \in 1 .. Len(t.args) |-> args[n]]
    BY <2>1
  <2> HIDE DEF args
  <2> QED
    BY <2>1, <2>2, <1>4, FunctionSeq
<1> HIDE DEF args
<1>6. S!find_substitute(t.opcode) \in Texts
  BY <1>3, SubstituteTyped
<1> QED
  BY <1>2, <1>3, <1>5, <1>6 DEF TokenType

LEMMA RemovalTyped ==
  ASSUME NEW T, NEW s \in Seq(T), NEW i \in 1 .. Len(s)
  PROVE  S!RemoveAt(s, i) \in Seq(T)
<1>1. SubSeq(s, 1, i - 1) \in Seq(T) /\ SubSeq(s, i + 1, Len(s)) \in Seq(T)
  OBVIOUS
<1> QED
  BY <1>1 DEF S!RemoveAt

LEMMA DiscardTyped ==
  ASSUME SweepTyped, index <= Len(tokens), S!Discard
  PROVE  tokens' \in Seq(TokenType) /\ index' \in Nat \ {0} /\ stage' = stage
<1>1. index \in 1 .. Len(tokens)
  BY DEF SweepTyped
<1> QED
  BY <1>1, RemovalTyped DEF SweepTyped, S!Discard

LEMMA KeepTyped ==
  ASSUME SweepTyped, index <= Len(tokens), S!Keep
  PROVE  tokens' \in Seq(TokenType) /\ index' \in Nat \ {0} /\ stage' = stage
<1>1. S!Token \in TokenType
  BY SweptTokenTyped
<1> QED
  BY <1>1 DEF SweepTyped, S!Keep

LEMMA DefinitionTyped ==
  ASSUME SweepTyped, NEW from \in Texts, NEW to \in Texts, NEW strong \in BOOLEAN,
         S!add_substitute(from, to, strong)
  PROVE  substitutes' \in Seq(Entry)
<1> DEFINE i == S!find_substitute_index(from)
           entry == [from |-> from, to |-> to, strong |-> strong]
           changed == [substitutes EXCEPT ![i] = entry]
<1>1. i = 0 \/ i \in 1 .. Len(substitutes)
  BY SubstituteFound
<1>2a. entry \in Entry
  BY DEF Entry
<1>2b. S!Unwritten \in Entry
  <2>1. S!NoText \in Texts
    BY SameText DEF Texts
  <2>2. FALSE \in BOOLEAN
    OBVIOUS
  <2> QED
    BY <2>1, <2>2 DEF Entry, S!Unwritten
<1>3. substitutes \in Seq(Entry)
  BY DEF SweepTyped
<1>4. \/ i = 0 /\ substitutes' = Append(substitutes, entry)
      \/ i # 0 /\ substitutes' = Append(changed, S!Unwritten)
      \/ substitutes' = substitutes
  BY DEF S!add_substitute
<1> HIDE DEF i, entry
<1>5. i # 0 => changed \in Seq(Entry)
  BY <1>1, <1>2a, <1>3
<1> HIDE DEF changed
<1>6. Append(substitutes, entry) \in Seq(Entry)
  BY <1>2a, <1>3
<1>7. i # 0 => Append(changed, S!Unwritten) \in Seq(Entry)
  BY <1>2b, <1>5
<1> QED
  BY <1>3, <1>4, <1>6, <1>7

LEMMA SweptArgumentTyped ==
  ASSUME NEW t \in TokenType, NEW n \in Nat
  PROVE  S!Argument(t, n).sv \in Texts
<1>1. S!Argument(t, n) = Argument(t, n)
  BY DEF S!Argument, Argument, S!NoArgument, NoArgument, S!NoText, NoText
<1>2. Argument(t, n) \in Arg
  BY ArgumentTyped
<1> QED
  BY <1>1, <1>2 DEF Arg

LEMMA PrepassTyped ==
  ASSUME SweepTyped, S!Next
  PROVE  SweepTyped' /\ stage = "prepass" /\ stage' \in {"prepass", "write"}
<1>1. CASE S!DropEmpty
  BY <1>1, DiscardTyped DEF SweepTyped, S!DropEmpty, S!At
<1>2. CASE S!EndSection
  BY <1>2, DiscardTyped DEF SweepTyped, S!EndSection, S!At
<1>3. CASE S!InSection
  BY <1>3, DiscardTyped, KeepTyped DEF SweepTyped, S!InSection, S!Handling
<1>4. CASE S!Define
  <2>1. index <= Len(tokens) /\ stage = "prepass" /\ S!Discard
    BY <1>4 DEF S!Define, S!Handling
  <2>2. S!Token \in TokenType
    BY <2>1, SweptTokenTyped
  <2>3. S!Token.opcode \in Texts
    BY <2>2 DEF TokenType
  <2>4. S!Argument(S!Token, 2).sv \in Texts
    BY <2>2, SweptArgumentTyped
  <2>5. substitutes' \in Seq(Entry)
    BY <1>4, <2>3, <2>4, DefinitionTyped DEF S!Define
  <2> QED
    BY <2>1, <2>5, DiscardTyped DEF SweepTyped
<1>5. CASE S!BeginSection
  BY <1>5, DiscardTyped DEF SweepTyped, S!BeginSection, S!At
<1>6. CASE S!DropDirective
  BY <1>6, DiscardTyped DEF SweepTyped, S!DropDirective, S!At
<1>7. CASE S!KeepToken
  BY <1>7, KeepTyped DEF SweepTyped, S!KeepToken, S!Handling
<1>8. CASE S!EndOfTokens
  BY <1>8 DEF SweepTyped, S!EndOfTokens
<1> QED
  BY <1>1, <1>2, <1>3, <1>4, <1>5, <1>6, <1>7, <1>8 DEF S!Next, S!prepass_handle_at

-----------------------------------------------------------------------------
(* The file has its bytes at natural positions, also beyond 64K.           *)
CellsPlaced == DOMAIN fout.cells \subseteq Nat

LEMMA WrittenPlaced ==
  ASSUME CellsPlaced, fout.len \in Nat, NEW bytes, Put(bytes)
  PROVE  CellsPlaced'
<1> DEFINE a == fout.len
           b == fout.len + Len(bytes) - 1
<1>1. fout'.cells = [k \in DOMAIN fout.cells \cup a .. b |->
                       IF k < a THEN fout.cells[k] ELSE bytes[k - a + 1]]
  BY DEF Put, Written
<1>2. DOMAIN fout'.cells = DOMAIN fout.cells \cup a .. b
  BY <1>1
<1>3. a .. b \subseteq Nat
  OBVIOUS
<1> QED
  BY <1>2, <1>3 DEF CellsPlaced

LEMMA ZerosPlaced == ASSUME CellsPlaced, NEW n, PutZeros(n) PROVE CellsPlaced'
<1>1. fout'.cells = fout.cells
  BY DEF PutZeros
<1> QED
  BY <1>1 DEF CellsPlaced

LEMMA PatchPlaced == ASSUME CellsPlaced, IInv, PatchReference PROVE CellsPlaced'
<1> DEFINE q == labels[lab].queued[ref]
<1>1. labels \in Seq(LabelEntry) /\ lab \in 1 .. Len(labels) /\ ref \in 1 .. Len(labels[lab].queued)
  BY DEF PatchReference, IInv, Fine, CursorsOK
<1>2. labels[lab] \in LabelEntry
  BY <1>1
<1>3. q \in Nat
  BY <1>1, <1>2 DEF LabelEntry
<1>4. fout' = file_overwrite_short(fout, q, labels[lab].addr)
  BY DEF PatchReference
<1> HIDE DEF q
<1>5. DOMAIN fout'.cells = DOMAIN fout.cells \cup {q, q + 1}
  BY <1>4 DEF file_overwrite_short
<1> QED
  BY <1>3, <1>5 DEF CellsPlaced

LEMMA NextPlaced == ASSUME CellsPlaced, IInv, [Next]_vars PROVE CellsPlaced'
<1>1. fout.len \in Nat
  BY DEF IInv, FileOK
<1>2. fout' = fout => CellsPlaced'
  BY DEF CellsPlaced
<1>3. CASE DS \/ ORG
  BY <1>3, ZerosPlaced DEF DS, ORG
<1>4. CASE DB \/ DW
  <2>1. PICK bytes : Put(bytes)
    BY <1>4 DEF DB, DW
  <2> QED
    BY <2>1, <1>1, WrittenPlaced
<1>5. CASE Instruction
  <2>1. PICK bytes : Put(bytes)
    BY <1>5 DEF Instruction
  <2> QED
    BY <2>1, <1>1, WrittenPlaced
<1>6. CASE PatchReference
  BY <1>6, PatchPlaced
<1>7. CASE WriteNothing \/ END \/ Data \/ NullText \/ DataEnd \/ StartPatching \/ PatchNextLabel \/ Close
  BY <1>7, <1>2 DEF WriteNothing, END, Data, NullText, DataEnd, StartPatching, PatchNextLabel, Close, Patching
<1>8. CASE UNCHANGED vars
  BY <1>8, <1>2 DEF vars
<1> QED
  BY <1>3, <1>4, <1>5, <1>6, <1>7, <1>8 DEF Next, write_token, write_queued_labels

-----------------------------------------------------------------------------
(* From stage to stage.                                                    *)
TextTypes == source \in Seq(Seq(P!Lexeme)) /\ line \in Nat \ {0} /\ SweepTyped
Before    == stage \in {"parse", "prepass"} => Fresh
NotListed == at = 0 /\ last_nop = TRUE /\ nop_from = 0 /\ listing = <<>>
FileInv   == IInv /\ Laid /\ CellsPlaced
(* What was assembled is kept: the file is the image, the program its copy. *)
Kept ==
  stage \in {"list", "done"} =>
    /\ program = load_program(fout)
    /\ \A ts : ts = Live(tokens) /\ Scope(ts) =>
         ts \in Seq(TokenType) /\ fout.len = Extent(ts) /\ Shows(ts, fout.cells, fout.len)
ChainInv == TextTypes /\ Before /\ FileInv /\ Kept /\ (stage \notin {"list", "done"} => NotListed)

LEMMA FreshFile == ASSUME Fresh, stage \in {"parse", "prepass", "write"} PROVE FileInv
<1>1. stage # "write" => Laid
  BY DEF Laid, LInv, Stages
<1>2. CellsPlaced
  BY DEF Fresh, CellsPlaced
<1> QED
  BY <1>1, <1>2, FreshIInv, FreshLaid DEF FileInv

LEMMA InitChains == ASSUME ToolInit PROVE ChainInv
<1>1. source \in Sources /\ line = 1 /\ tokens = <<>> /\ stage = "parse"
  BY DEF ToolInit, P!Init
<1>2. TextTypes
  BY <1>1, SourcesAssumption DEF ToolInit, TextTypes, SweepTyped
<1>3. Fresh
  BY <1>1 DEF ToolInit, Fresh
<1>4. NotListed
  BY DEF ToolInit, NotListed
<1> QED
  BY <1>1, <1>2, <1>3, <1>4, FreshFile DEF ChainInv, Before, Kept

LEMMA FreshFileNext == (Fresh /\ stage \in {"parse", "prepass", "write"} => FileInv)'
<1>1. Fresh /\ stage \in {"parse", "prepass", "write"} => FileInv
  BY FreshFile
<1> QED
  BY <1>1, PTL

LEMMA ParseChains == ASSUME ChainInv, Parse PROVE ChainInv'
<1>1. /\ TextTypes /\ stage = "parse" /\ Fresh /\ NotListed
      /\ UNCHANGED <<prepassVars, writerVars, program, listerVars>>
  BY DEF ChainInv, Before, Parse, P!Next, P!parse_file, P!AcceptLine, P!SkipLine, P!EndOfFile, P!Parsing
<1>2. source' = source /\ line' \in Nat \ {0} /\ tokens' \in Seq(TokenType) /\ stage' \in {"parse", "prepass"}
  <2>1. tokens \in Seq(TokenType) /\ line \in Nat \ {0} /\ source \in Seq(Seq(P!Lexeme))
    BY <1>1 DEF TextTypes, SweepTyped
  <2>2. CASE P!AcceptLine
    <3>1. line \in 1 .. Len(source) /\ P!next_token(source[line]).accepted
      BY <2>1, <2>2 DEF P!AcceptLine, P!Parsing
    <3>2. source[line] \in Seq(P!Lexeme)
      BY <2>1, <3>1
    <3>3. P!next_token(source[line]).token \in TokenType
      BY <3>1, <3>2, TokenOfLine DEF AcceptedTyped
    <3>4. tokens' = Append(tokens, P!next_token(source[line]).token)
      BY <2>2 DEF P!AcceptLine
    <3>5. tokens' \in Seq(TokenType)
      BY <2>1, <3>3, <3>4
    <3> QED
      BY <3>5, <2>1, <2>2, <1>1 DEF P!AcceptLine, P!NextLine
  <2>3. CASE P!SkipLine
    BY <2>1, <2>3, <1>1 DEF P!SkipLine, P!NextLine
  <2>4. CASE P!EndOfFile
    BY <2>1, <2>4, <1>1 DEF P!EndOfFile
  <2> QED
    BY <2>2, <2>3, <2>4 DEF Parse, P!Next, P!parse_file
<1>3. TextTypes'
  BY <1>1, <1>2 DEF TextTypes, SweepTyped, prepassVars
<1>4. Fresh'
  BY <1>1, <1>2 DEF Fresh, writerVars
<1>5. NotListed'
  BY <1>1 DEF NotListed, listerVars
<1> QED
  BY <1>2, <1>3, <1>4, <1>5, FreshFileNext DEF ChainInv, Before, Kept

LEMMA PreprocessChains == ASSUME ChainInv, Preprocess PROVE ChainInv'
<1>1. SweepTyped' /\ stage = "prepass" /\ stage' \in {"prepass", "write"}
  BY PrepassTyped DEF ChainInv, TextTypes, Preprocess
<1>2. /\ TextTypes /\ Fresh /\ NotListed
      /\ UNCHANGED <<parserVars, writerVars, program, listerVars>>
  BY <1>1 DEF ChainInv, Before, Preprocess
<1>3. TextTypes'
  BY <1>1, <1>2 DEF TextTypes, parserVars
<1>4. Fresh'
  BY <1>1, <1>2 DEF Fresh, writerVars, SweepTyped
<1>5. NotListed'
  BY <1>2 DEF NotListed, listerVars
<1> QED
  BY <1>1, <1>3, <1>4, <1>5, FreshFileNext DEF ChainInv, Before, Kept

LEMMA StageOfWriting ==
  ASSUME Next PROVE stage \in {"write", "data", "patch"} /\ stage' \in {"write", "data", "wild", "patch", "assembled"}
BY DEF Next, write_token, write_queued_labels, Writing, DataArgument, WriteNothing, END, DS, ORG, Data, DB, DW, NullText,
   DataEnd, Instruction, StartPatching, PatchReference, PatchNextLabel, Close, NextToken, NextArgument, Patching

LEMMA AssembleChains == ASSUME ChainInv, Assemble PROVE ChainInv'
<1>1. Next /\ UNCHANGED <<parserVars, prepassVars, program, listerVars>>
  BY DEF Assemble
<1>2. stage \in {"write", "data", "patch"} /\ stage' \in {"write", "data", "wild", "patch", "assembled"}
  BY <1>1, StageOfWriting
<1>3. tokens' = tokens
  BY <1>1, TokensStay
<1>4. FileInv'
  BY <1>1, NextIInv, LaidStep, NextPlaced DEF ChainInv, FileInv
<1>5. TextTypes'
  BY <1>1, <1>3 DEF ChainInv, TextTypes, SweepTyped, parserVars, prepassVars
<1>6. NotListed'
  BY <1>1, <1>2 DEF ChainInv, NotListed, listerVars
<1> QED
  BY <1>2, <1>4, <1>5, <1>6 DEF ChainInv, Before, Kept

LEMMA FileStays ==
  ASSUME FileInv, UNCHANGED <<tokens, writerVars>>, stage' \in {"list", "done"}
  PROVE  FileInv'
<1>1. IInv'
  BY DEF FileInv, IInv, FileOK, CursorsOK, Fine, Queued, writerVars
<1>2. Laid'
  BY DEF Laid, LInv, Stages
<1>3. CellsPlaced'
  BY DEF FileInv, CellsPlaced, writerVars
<1> QED
  BY <1>1, <1>2, <1>3 DEF FileInv

LEMMA LoadChains == ASSUME ChainInv, Load PROVE ChainInv'
<1>1. /\ stage = "assembled" /\ stage' = "list" /\ program' = load_program(fout)
      /\ UNCHANGED <<tokens, parserVars, prepassVars, writerVars, listerVars>>
  BY DEF Load
<1>2. FileInv'
  BY <1>1, FileStays DEF ChainInv
<1>3. TextTypes'
  BY <1>1 DEF ChainInv, TextTypes, SweepTyped, parserVars, prepassVars
<1>4. Kept'
  <2> SUFFICES ASSUME NEW ts, ts = Live(tokens'), Scope(ts)
               PROVE  ts \in Seq(TokenType) /\ fout'.len = Extent(ts) /\ Shows(ts, fout'.cells, fout'.len)
    BY <1>1 DEF Kept, writerVars, load_program
  <2>1. ts = Live(tokens) /\ fout' = fout
    BY <1>1 DEF writerVars
  <2> QED
    BY <1>1, <2>1, AssembledShows DEF ChainInv, FileInv
<1> QED
  BY <1>1, <1>2, <1>3, <1>4 DEF ChainInv, Before

LEMMA ListChains == ASSUME ChainInv, List PROVE ChainInv'
<1>1. stage = "list" /\ stage' \in {"list", "done"} /\ program' = program
  BY DEF List, L!Next, L!print_disassemble, L!ListInstruction, L!ListNops, L!EndOfImage, L!Listing
<1>2. UNCHANGED <<tokens, parserVars, prepassVars, writerVars>>
  BY DEF List
<1>3. FileInv'
  BY <1>1, <1>2, FileStays DEF ChainInv
<1>4. TextTypes'
  BY <1>2 DEF ChainInv, TextTypes, SweepTyped, parserVars, prepassVars
<1>5. Kept'
  BY <1>1, <1>2 DEF ChainInv, Kept, writerVars, load_program
<1> QED
  BY <1>1, <1>3, <1>4, <1>5 DEF ChainInv, Before

LEMMA StutterChains == ASSUME ChainInv, UNCHANGED toolVars PROVE ChainInv'
<1>1. UNCHANGED <<vars, parserVars, prepassVars, program, listerVars>>
  BY DEF toolVars
<1>2. FileInv'
  <2>1. [Next]_vars
    BY <1>1
  <2> QED
    BY <2>1, NextIInv, LaidStep, NextPlaced DEF ChainInv, FileInv
<1>3. TextTypes'
  BY <1>1 DEF ChainInv, TextTypes, SweepTyped, parserVars, prepassVars, vars
<1>4. Kept'
  BY <1>1 DEF ChainInv, Kept, vars, load_program
<1>5. Before'
  BY <1>1 DEF ChainInv, Before, Fresh, vars
<1> QED
  BY <1>1, <1>2, <1>3, <1>4, <1>5 DEF ChainInv, NotListed, listerVars, vars

LEMMA NextChains == ASSUME ChainInv, [ToolNext]_toolVars PROVE ChainInv'
BY ParseChains, PreprocessChains, AssembleChains, LoadChains, ListChains, StutterChains DEF ToolNext

LEMMA ChainHolds == ToolSpec => []ChainInv
BY InitChains, NextChains, PTL DEF ToolSpec

(* Whatever the source text: the assembler, with what parser and pre-pass  *)
(* hand over to it, writes the file that an assembler writes that knows    *)
(* all labels from the start.                                              *)
THEOREM TextIsAssembled == ToolSpec => [](ReferencesInFile /\ FileIsLaidOut /\ ClosedIsComplete)
<1>1. ChainInv => ReferencesInFile
  BY DEF ChainInv, FileInv, IInv, Fine, Queued, ReferencesInFile
<1>2. ChainInv => FileIsLaidOut /\ ClosedIsComplete
  BY FileLaidOut, ClosedComplete DEF ChainInv, FileInv
<1> QED
  BY <1>1, <1>2, ChainHolds, PTL

-----------------------------------------------------------------------------
(* The loader.                                                             *)
LEMMA SmallerOfTwo ==
  ASSUME NEW x \in Nat, NEW y \in Nat
  PROVE  Min({x, y}) = IF x <= y THEN x ELSE y
<1> DEFINE m == Min({x, y})
<1>1. {x, y} \in SUBSET Nat /\ {x, y} # {}
  OBVIOUS
<1>2. m \in {x, y} /\ \A z \in {x, y} : m <= z
  BY <1>1, LeastOfNats
<1> HIDE DEF m
<1>3. m = IF x <= y THEN x ELSE y
  BY <1>2
<1> QED
  BY <1>3 DEF m

SizeOf(len) == U16(Min({len, L!DATA_MAX_CNT}))

LEMMA LoadedSize ==
  ASSUME NEW len \in Nat
  PROVE  /\ SizeOf(len) \in Nat /\ SizeOf(len) < 65536
         /\ len < 65536 => SizeOf(len) = len
         /\ len = 65536 => SizeOf(len) = 0
<1> DEFINE m == Min({len, L!DATA_MAX_CNT})
<1>1. m = IF len <= L!DATA_MAX_CNT THEN len ELSE L!DATA_MAX_CNT
  BY SmallerOfTwo DEF L!DATA_MAX_CNT
<1> HIDE DEF m
<1>2. SizeOf(len) = U16(m)
  BY DEF SizeOf, m
<1>3. m \in Nat /\ (len < 65536 => m = len) /\ (len = 65536 => m = 65536)
  BY <1>1 DEF L!DATA_MAX_CNT
<1>4. U16(m) \in Nat /\ U16(m) < 65536
  BY <1>3 DEF U16
<1>5. len < 65536 => U16(m) = len
  BY <1>3 DEF U16
<1>6. len = 65536 => U16(m) = 0
  BY <1>3 DEF U16
<1> QED
  BY <1>2, <1>4, <1>5, <1>6

(* The bytes of the file before the size are there, and no others.         *)
LEMMA LoadedCells ==
  ASSUME ChainInv, stage \in {"list", "done"}
  PROVE  /\ DOMAIN program.data = {j \in DOMAIN fout.cells : j < SizeOf(fout.len)}
         /\ \A k \in DOMAIN program.data : program.data[k] = fout.cells[k] /\ k \in Nat /\ k < 65536
         /\ program.size = SizeOf(fout.len) /\ SizeOf(fout.len) \in Nat /\ SizeOf(fout.len) < 65536
<1>1. program = [size |-> SizeOf(fout.len),
                 data |-> [k \in {j \in DOMAIN fout.cells : j < SizeOf(fout.len)} |-> fout.cells[k]]]
  BY DEF ChainInv, Kept, load_program, SizeOf
<1>2. SizeOf(fout.len) \in Nat /\ SizeOf(fout.len) < 65536
  BY LoadedSize DEF ChainInv, FileInv, IInv, FileOK
<1>3. \A k \in DOMAIN fout.cells : k \in Nat
  BY DEF ChainInv, FileInv, CellsPlaced
<1> QED
  BY <1>1, <1>2, <1>3

LEMMA LoadedShows ==
  ASSUME ChainInv, stage \in {"list", "done"}, NEW ts, ts = Live(tokens), Scope(ts), Extent(ts) < AddressSpace
  PROVE  ts \in Seq(TokenType) /\ Shows(ts, program.data, Extent(ts)) /\ program.size = Extent(ts)
<1>1. ts \in Seq(TokenType) /\ fout.len = Extent(ts) /\ Shows(ts, fout.cells, fout.len)
  BY DEF ChainInv, Kept
<1>2. Extent(ts) \in Nat /\ Extent(ts) < 65536
  BY <1>1, ExtentTyped, Maxima DEF AddressSpace
<1>3. SizeOf(fout.len) = Extent(ts)
  BY <1>1, <1>2, LoadedSize
<1>4. /\ DOMAIN program.data = {j \in DOMAIN fout.cells : j < Extent(ts)}
      /\ \A k \in DOMAIN program.data : program.data[k] = fout.cells[k]
      /\ program.size = Extent(ts)
  BY <1>3, LoadedCells
<1>5. Shows(ts, program.data, Extent(ts))
  BY <1>1, <1>4 DEF Shows
<1> QED
  BY <1>1, <1>4, <1>5

(* For every program: what was written is loaded byte for byte if it is    *)
(* shorter than the memory, and nothing is if it fills it.                 *)
THEOREM LoadedStaysWhole == ToolSpec => []LoadedWhole
<1>1. ChainInv => LoadedWhole
  <2> SUFFICES ASSUME ChainInv, stage = "list", InScope
               PROVE  LET ts == Live(tokens) IN
                        NonZero([cells |-> program.data])
                          = IF Extent(ts) < AddressSpace THEN {p \in Image(ts) : p[2] # 0} ELSE {}
    BY DEF LoadedWhole
  <2> DEFINE ts == Live(tokens)
             file == [cells |-> program.data]
  <2>1. Scope(ts)
    BY InScopeMeans
  <2>2. ts \in Seq(TokenType) /\ fout.len = Extent(ts)
    BY <2>1 DEF ChainInv, Kept
  <2>3. CASE Extent(ts) < AddressSpace
    <3>1. Shows(ts, program.data, Extent(ts))
      BY <2>1, <2>3, LoadedShows
    <3> HIDE DEF ts
    <3>2. NonZero(file) = {p \in Image(ts) : p[2] # 0}
      BY <2>2, <3>1, WholeImage
    <3> QED
      BY <2>3, <3>2 DEF ts
  <2>4. CASE ~(Extent(ts) < AddressSpace)
    <3>1. fout.len = 65536
      BY <2>1, <2>2, <2>4, ExtentTyped, Maxima DEF Scope, AddressSpace
    <3>2. DOMAIN program.data = {j \in DOMAIN fout.cells : j < 0}
      BY <3>1, LoadedCells, LoadedSize
    <3>3. DOMAIN program.data = {}
      BY <3>2 DEF ChainInv, FileInv, CellsPlaced
    <3>4. NonZero(file) = {}
      BY <3>3 DEF NonZero
    <3> QED
      BY <2>4, <3>4
  <2> QED
    BY <2>3, <2>4
<1> QED
  BY <1>1, ChainHolds, PTL

-----------------------------------------------------------------------------
(* The listing of an image p: what print_instr and print_nops give, and    *)
(* what it is for a sequence of lines to tile the image up to a position.  *)
DataAt(p, k) ==
  IF k = 65536 THEN Lo(p.size)
  ELSE IF k = 65537 THEN Hi(p.size)
  ELSE IF k \in DOMAIN p.data THEN p.data[k] ELSE 0
OperandAt(p, k, len) ==
  CASE len = 1 -> 0
    [] len = 2 -> DataAt(p, k + 1)
    [] len = 3 -> Word(DataAt(p, k + 1), DataAt(p, k + 2))
InstrAt(p, k) ==
  [kind |-> "instr", from |-> k, to |-> k + Length(DataAt(p, k)), op |-> DataAt(p, k),
   operand |-> OperandAt(p, k, Length(DataAt(p, k)))]
Nops(a, b) == [kind |-> "nops", from |-> a, to |-> b, op |-> 0, operand |-> 0]

LEMMA SameLength == \A op : L!Length(op) = Length(op)
BY DEF L!Length, Length, L!ThreeByteOps, L!TwoByteOps, ThreeByteOps, TwoByteOps, L!MviOps, L!ImmediateAluOps,
   MviOps, ImmediateAluOps, L!Column, Column, L!Jumps, Jumps, L!Calls, Calls, L!ConditionalJumps, ConditionalJumps,
   L!ConditionalCalls, ConditionalCalls

LEMMA DataIs == \A k : L!Data(k) = DataAt(program, k)
BY DEF L!Data, DataAt, L!DATA_MAX_CNT, L!Lo, L!Hi, Lo, Hi

LEMMA InstrIs == \A k : L!print_instr(k) = InstrAt(program, k)
BY DataIs, SameLength DEF L!print_instr, InstrAt, OperandAt, L!Word, Word

LEMMA NopsAre == \A a, b : L!print_nops(a, b) = Nops(a, b)
BY DEF L!print_nops, Nops

LinesOf(p) == {InstrAt(p, k) : k \in Nat} \cup {Nops(r[1], r[2]) : r \in Nat \X Nat}
Zeros(p, a, b) == \A k \in DOMAIN p.data : k \in Nat /\ a <= k /\ k < b => DataAt(p, k) = 0
LineEnd(ls, n) == IF n = 0 THEN 0 ELSE ls[n].to
Fits(p, ls, n) ==
  /\ ls[n].from = LineEnd(ls, n - 1)
  /\ ls[n].kind = "instr" => DataAt(p, ls[n].from) # 0
  /\ ls[n].kind = "nops"  => Zeros(p, ls[n].from, ls[n].to)
NopsEnd(ls, n) == ls[n].kind = "nops" => ls[n + 1].kind = "instr"
Tiles(p, ls, e) ==
  /\ ls \in Seq(LinesOf(p)) /\ e \in Nat /\ e = LineEnd(ls, Len(ls))
  /\ \A n \in 1 .. Len(ls) : Fits(p, ls, n)
  /\ \A n \in 1 .. Len(ls) - 1 : NopsEnd(ls, n)
Settled(p, ls, e) == Tiles(p, ls, e) /\ (Len(ls) # 0 => ls[Len(ls)].kind = "instr")

LEMMA LineTyped ==
  ASSUME NEW p, NEW x \in LinesOf(p)
  PROVE  x.from \in Nat /\ x.to \in Nat /\ x.kind \in {"instr", "nops"}
         /\ (x.kind = "instr" => x = InstrAt(p, x.from))
<1>1. CASE x \in {InstrAt(p, k) : k \in Nat}
  <2>1. PICK k \in Nat : x = InstrAt(p, k)
    BY <1>1
  <2>2. Length(DataAt(p, k)) \in {1, 2, 3}
    BY Lengths
  <2>3. x.from = k /\ x.to = k + Length(DataAt(p, k)) /\ x.kind = "instr"
    BY <2>1 DEF InstrAt
  <2> QED
    BY <2>1, <2>2, <2>3
<1>2. CASE x \in {Nops(r[1], r[2]) : r \in Nat \X Nat}
  <2>1. PICK r \in Nat \X Nat : x = Nops(r[1], r[2])
    BY <1>2
  <2> QED
    BY <2>1 DEF Nops
<1> QED
  BY <1>1, <1>2 DEF LinesOf

LEMMA TileOn ==
  ASSUME NEW p, NEW ls, NEW e, Tiles(p, ls, e), NEW x \in LinesOf(p), x.from = e,
         x.kind = "instr" => DataAt(p, e) # 0,
         x.kind = "nops" => Zeros(p, e, x.to) /\ Settled(p, ls, e)
  PROVE  Tiles(p, Append(ls, x), x.to) /\ Len(Append(ls, x)) # 0
         /\ Append(ls, x)[Len(Append(ls, x))] = x
<1> DEFINE more == Append(ls, x)
           m == Len(ls)
<1>1. /\ more \in Seq(LinesOf(p)) /\ Len(more) = m + 1 /\ m \in Nat
      /\ \A n \in 1 .. m : more[n] = ls[n]
      /\ more[m + 1] = x
  BY DEF Tiles
<1> HIDE DEF more, m
<1>2. \A n \in 0 .. m : LineEnd(more, n) = LineEnd(ls, n)
  <2> SUFFICES ASSUME NEW n \in 0 .. m PROVE LineEnd(more, n) = LineEnd(ls, n)
    OBVIOUS
  <2>1. n # 0 => n \in 1 .. m
    BY <1>1
  <2> QED
    BY <2>1, <1>1 DEF LineEnd
<1>3. LineEnd(ls, m) = e /\ \A n \in 1 .. m : Fits(p, ls, n)
  BY DEF Tiles, m
<1>4. ASSUME NEW n \in 1 .. m + 1 PROVE Fits(p, more, n)
  <2>1. n - 1 \in 0 .. m
    BY <1>1
  <2>2. LineEnd(more, n - 1) = LineEnd(ls, n - 1)
    BY <2>1, <1>2
  <2>3. CASE n \in 1 .. m
    <3>1. more[n] = ls[n] /\ Fits(p, ls, n)
      BY <2>3, <1>1, <1>3
    <3> QED
      BY <3>1, <2>2 DEF Fits
  <2>4. CASE n = m + 1
    <3>1. more[n] = x /\ LineEnd(more, n - 1) = e
      BY <2>2, <2>4, <1>1, <1>3
    <3> QED
      BY <3>1 DEF Fits
  <2> QED
    BY <2>3, <2>4, <1>1
<1>5. ASSUME NEW n \in 1 .. m PROVE NopsEnd(more, n)
  <2>1. more[n] = ls[n]
    BY <1>1
  <2>2. CASE n # m
    <3>1. n \in 1 .. m - 1 /\ n + 1 \in 1 .. m
      BY <2>2, <1>1
    <3>2. NopsEnd(ls, n)
      BY <3>1 DEF Tiles, m
    <3>3. more[n + 1] = ls[n + 1]
      BY <3>1, <1>1
    <3> QED
      BY <2>1, <3>2, <3>3 DEF NopsEnd
  <2>3. CASE n = m
    <3>1. m # 0
      BY <2>3, <1>1
    <3>2. x.kind = "nops" => ls[m].kind = "instr"
      BY <3>1 DEF Settled, m
    <3>3. x.kind \in {"instr", "nops"}
      BY LineTyped
    <3>4. more[n] = ls[m] /\ more[n + 1] = x
      BY <2>1, <2>3, <1>1
    <3> QED
      BY <3>2, <3>3, <3>4 DEF NopsEnd
  <2> QED
    BY <2>2, <2>3
<1>6. x.to \in Nat
  BY LineTyped
<1>7. LineEnd(more, m + 1) = x.to
  BY <1>1 DEF LineEnd
<1>8. Len(more) - 1 = m /\ Len(more) # 0
  BY <1>1
<1>9. Tiles(p, more, x.to)
  BY <1>1, <1>4, <1>5, <1>6, <1>7, <1>8 DEF Tiles
<1> QED
  BY <1>1, <1>8, <1>9 DEF more

LEMMA InstructionTiles ==
  ASSUME NEW p, NEW ls, NEW k \in Nat, Tiles(p, ls, k), DataAt(p, k) # 0
  PROVE  Settled(p, ls \o <<InstrAt(p, k)>>, k + Length(DataAt(p, k)))
<1> DEFINE x == InstrAt(p, k)
<1>1. x \in LinesOf(p)
  BY DEF LinesOf
<1>2. x.from = k /\ x.kind = "instr" /\ x.to = k + Length(DataAt(p, k))
  BY DEF InstrAt
<1> HIDE DEF x
<1>3. ls \in Seq(LinesOf(p))
  BY DEF Tiles
<1>4. ls \o <<x>> = Append(ls, x)
  BY <1>1, <1>3
<1>5. x.kind # "nops"
  BY <1>2
<1>6. Tiles(p, Append(ls, x), x.to) /\ Append(ls, x)[Len(Append(ls, x))] = x
  BY <1>1, <1>2, <1>5, TileOn
<1> QED
  BY <1>2, <1>4, <1>6 DEF Settled, x

LEMMA RunTiles ==
  ASSUME NEW p, NEW ls, NEW a \in Nat, NEW b \in Nat, Settled(p, ls, a), Zeros(p, a, b)
  PROVE  Tiles(p, Append(ls, Nops(a, b)), b)
<1> DEFINE x == Nops(a, b)
<1>1. x \in LinesOf(p)
  <2>1. <<a, b>> \in Nat \X Nat /\ x = Nops(<<a, b>>[1], <<a, b>>[2])
    OBVIOUS
  <2> QED
    BY <2>1 DEF LinesOf
<1>2. x.from = a /\ x.kind = "nops" /\ x.to = b
  BY DEF Nops
<1> HIDE DEF x
<1>3. Tiles(p, Append(ls, x), x.to)
  BY <1>1, <1>2, TileOn DEF Settled
<1> QED
  BY <1>2, <1>3 DEF x

-----------------------------------------------------------------------------
(* The sweep: where a run of zeros is under way, the lines end where it    *)
(* began, otherwise at its position.                                       *)
SweepInv ==
  /\ at \in Nat /\ nop_from \in Nat /\ last_nop \in BOOLEAN
  /\ last_nop  => Settled(program, listing, nop_from) /\ nop_from <= at /\ Zeros(program, nop_from, at)
  /\ ~last_nop => Settled(program, listing, at)

LEMMA NothingTiled == ASSUME NotListed PROVE SweepInv
<1>1. Settled(program, <<>>, 0)
  BY DEF Settled, Tiles, LineEnd
<1>2. Zeros(program, 0, 0)
  <2> SUFFICES ASSUME NEW k \in Nat, 0 <= k, k < 0 PROVE FALSE
    BY DEF Zeros
  <2> QED
    OBVIOUS
<1> QED
  BY <1>1, <1>2 DEF NotListed, SweepInv

LEMMA NothingTiledNext == (NotListed => SweepInv)'
<1>1. NotListed => SweepInv
  BY NothingTiled
<1> QED
  BY <1>1, PTL

LEMMA InstructionSweeps == ASSUME SweepInv, L!ListInstruction PROVE SweepInv'
<1>1. /\ at < 65536 /\ DataAt(program, at) # 0 /\ program' = program
      /\ last_nop' = FALSE /\ nop_from' = nop_from
      /\ at' = at + Length(DataAt(program, at))
      /\ listing' = (IF last_nop THEN Append(listing, Nops(nop_from, U16(at))) ELSE listing)
                      \o <<InstrAt(program, at)>>
  BY DataIs, InstrIs, NopsAre, SameLength
     DEF L!ListInstruction, L!Listing, L!DATA_MAX_CNT, L!U16, U16
<1>2. at \in Nat /\ nop_from \in Nat
  BY DEF SweepInv
<1>3. U16(at) = at
  BY <1>1, <1>2 DEF U16
<1>4. Tiles(program, IF last_nop THEN Append(listing, Nops(nop_from, U16(at))) ELSE listing, at)
  BY <1>2, <1>3, RunTiles DEF SweepInv, Settled
<1>5. Settled(program, listing', at')
  BY <1>1, <1>2, <1>4, InstructionTiles
<1>6. at' \in Nat
  BY <1>5 DEF Settled, Tiles
<1>7. nop_from' \in Nat
  BY <1>1, <1>2
<1>8. last_nop' \in BOOLEAN /\ ~last_nop'
  <2>1. last_nop' = FALSE
    BY <1>1
  <2> QED
    BY ONLY <2>1
<1>9. Settled(program', listing', at')
  BY <1>1, <1>5
<1> QED
  BY <1>6, <1>7, <1>8, <1>9 DEF SweepInv

Ahead == {k \in DOMAIN program.data : k > at /\ DataAt(program, k) # 0}

LEMMA RunEnds ==
  ASSUME DOMAIN program.data \subseteq Nat, \A k \in DOMAIN program.data : k < 65536, at \in Nat, at < 65536
  PROVE  /\ L!RunEnd \in Nat /\ at < L!RunEnd /\ L!RunEnd <= 65536
         /\ L!RunEnd \in Ahead \cup {65536}
         /\ \A k \in DOMAIN program.data : at < k /\ k < L!RunEnd => DataAt(program, k) = 0
<1> DEFINE Stops == Ahead \cup {L!DATA_MAX_CNT}
           m == Min(Stops)
<1>1. L!RunEnd = m
  BY DataIs, SameMin DEF L!RunEnd, Ahead
<1>2. Stops \in SUBSET Nat /\ Stops # {} /\ L!DATA_MAX_CNT \in Stops
  BY DEF Ahead, L!DATA_MAX_CNT
<1>3. Ahead \subseteq Stops /\ \A k \in Stops : k \in Ahead \/ k = 65536
  BY DEF L!DATA_MAX_CNT
<1> HIDE DEF Stops
<1>4. m \in Stops /\ \A y \in Stops : m <= y
  BY <1>2, LeastOfNats
<1> HIDE DEF m
<1>5. m \in Nat /\ m <= 65536
  BY <1>2, <1>4 DEF L!DATA_MAX_CNT
<1>6. m \in Ahead \/ m = 65536
  BY <1>3, <1>4
<1>7. at < m
  BY <1>6 DEF Ahead
<1>8. ASSUME NEW k \in DOMAIN program.data, at < k, k < m PROVE DataAt(program, k) = 0
  <2>1. k \in Nat
    OBVIOUS
  <2>2. k \notin Stops
    BY <2>1, <1>4, <1>5, <1>8
  <2> QED
    BY <2>1, <2>2, <1>3, <1>8 DEF Ahead
<1> QED
  BY <1>1, <1>5, <1>6, <1>7, <1>8

LEMMA NopsSweep ==
  ASSUME SweepInv, L!ListNops, DOMAIN program.data \subseteq Nat, \A k \in DOMAIN program.data : k < 65536
  PROVE  SweepInv'
<1> DEFINE e == L!RunEnd
<1>1. /\ at < 65536 /\ DataAt(program, at) = 0 /\ program' = program /\ listing' = listing
      /\ last_nop' = TRUE /\ nop_from' = (IF last_nop THEN nop_from ELSE at) /\ at' = e
  BY DataIs DEF L!ListNops, L!Listing, L!DATA_MAX_CNT
<1>2. at \in Nat /\ nop_from \in Nat
  BY DEF SweepInv
<1>3. /\ e \in Nat /\ at < e
      /\ \A k \in DOMAIN program.data : at < k /\ k < e => DataAt(program, k) = 0
  BY <1>1, <1>2, RunEnds
<1> HIDE DEF e
<1>4. CASE last_nop
  <2>1. Settled(program, listing, nop_from) /\ nop_from <= at /\ Zeros(program, nop_from, at)
    BY <1>4 DEF SweepInv
  <2>2. Zeros(program, nop_from, e)
    <3> SUFFICES ASSUME NEW k \in DOMAIN program.data, nop_from <= k, k < e PROVE DataAt(program, k) = 0
      BY DEF Zeros
    <3>1. k \in Nat
      OBVIOUS
    <3>2. k < at \/ k = at \/ at < k
      BY <3>1, <1>2
    <3> QED
      BY <3>2, <2>1, <1>1, <1>3 DEF Zeros
  <2>3. nop_from <= e
    BY <2>1, <1>2, <1>3
  <2> QED
    BY <2>1, <2>2, <2>3, <1>1, <1>2, <1>3, <1>4 DEF SweepInv
<1>5. CASE ~last_nop
  <2>1. Settled(program, listing, at)
    BY <1>5 DEF SweepInv
  <2>2. Zeros(program, at, e)
    <3> SUFFICES ASSUME NEW k \in DOMAIN program.data, at <= k, k < e PROVE DataAt(program, k) = 0
      BY DEF Zeros
    <3>1. k \in Nat
      OBVIOUS
    <3>2. k = at \/ at < k
      BY <3>1, <1>2
    <3> QED
      BY <3>2, <1>1, <1>3
  <2>3. at <= e
    BY <1>2, <1>3
  <2> QED
    BY <2>1, <2>2, <2>3, <1>1, <1>2, <1>3, <1>5 DEF SweepInv
<1> QED
  BY <1>4, <1>5

LEMMA SweepKept == ASSUME ChainInv, SweepInv, [ToolNext]_toolVars PROVE SweepInv'
<1>1. (program' = program /\ UNCHANGED listerVars) => SweepInv'
  BY DEF SweepInv, listerVars
<1>2. CASE L!ListInstruction
  BY <1>2, InstructionSweeps
<1>3. CASE L!ListNops
  <2>1. stage \in {"list", "done"}
    BY <1>3 DEF L!ListNops, L!Listing
  <2>2. DOMAIN program.data \subseteq Nat /\ \A k \in DOMAIN program.data : k < 65536
    BY <2>1, LoadedCells
  <2> QED
    BY <1>3, <2>2, NopsSweep
<1>4. CASE L!EndOfImage
  BY <1>1, <1>4 DEF L!EndOfImage, listerVars
<1>5. CASE Load
  <2>1. NotListed' 
    BY <1>5 DEF Load, ChainInv, NotListed, listerVars
  <2> QED
    BY <2>1, NothingTiledNext
<1>6. CASE Parse \/ Preprocess \/ Assemble \/ UNCHANGED toolVars
  BY <1>1, <1>6 DEF Parse, Preprocess, Assemble, toolVars, listerVars
<1> QED
  BY <1>2, <1>3, <1>4, <1>5, <1>6 DEF ToolNext, List, L!Next, L!print_disassemble

LEMMA SweepHolds == ToolSpec => []SweepInv
<1>1. ToolInit => SweepInv
  BY NothingTiled DEF ToolInit, NotListed
<1>2. ChainInv /\ SweepInv /\ [ToolNext]_toolVars => SweepInv'
  BY SweepKept
<1> QED
  BY <1>1, <1>2, ChainHolds, PTL DEF ToolSpec

(* For every image: the lines of the listing follow each other without gap *)
(* or overlap, each instruction begins at a byte that is not zero, and     *)
(* each run of zeros is nothing else and as long as it can be.             *)
THEOREM ListingStaysTiled == ToolSpec => []ListingTiles
<1>1. ASSUME ChainInv, SweepInv, stage \in {"list", "done"} PROVE ListingTiles
  <2>1. DOMAIN program.data \subseteq Nat
    BY <1>1, LoadedCells
  <2>2. at \in Nat /\ nop_from \in Nat /\ last_nop \in BOOLEAN
    BY <1>1 DEF SweepInv
  <2>3. \E e : /\ Tiles(program, listing, e)
               /\ last_nop => e = nop_from /\ Zeros(program, nop_from, at)
               /\ ~last_nop => e = at
    <3>1. CASE last_nop
      BY <1>1, <3>1 DEF SweepInv, Settled
    <3>2. CASE ~last_nop
      BY <1>1, <3>2 DEF SweepInv, Settled
    <3> QED
      BY <3>1, <3>2
  <2>4. PICK e : /\ Tiles(program, listing, e)
                 /\ last_nop => e = nop_from /\ Zeros(program, nop_from, at)
                 /\ ~last_nop => e = at
    BY <2>3
  <2>5. DOMAIN listing = 1 .. Len(listing) /\ Len(listing) \in Nat /\ e = LineEnd(listing, Len(listing))
        /\ \A n \in 1 .. Len(listing) : listing[n] \in LinesOf(program)
    BY <2>4 DEF Tiles
  <2>6. ASSUME NEW n \in DOMAIN listing
        PROVE  /\ listing[n].from = LineEnd(listing, n - 1)
               /\ IF listing[n].kind = "instr" THEN L!Data(listing[n].from) # 0
                  ELSE \A k \in DOMAIN program.data :
                         k \in listing[n].from .. listing[n].to - 1 => L!Data(k) = 0
    <3>1. Fits(program, listing, n)
      BY <2>4, <2>5 DEF Tiles
    <3>2. listing[n].kind \in {"instr", "nops"} /\ listing[n].from \in Nat /\ listing[n].to \in Nat
      BY <2>5, LineTyped
    <3>3. ASSUME listing[n].kind # "instr", NEW k \in DOMAIN program.data, k \in listing[n].from .. listing[n].to - 1
          PROVE  L!Data(k) = 0
      <4>1. k \in Nat
        BY <2>1
      <4>2. listing[n].from <= k /\ k < listing[n].to
        BY <3>2, <3>3
      <4>3. DataAt(program, k) = 0
        BY <4>1, <4>2, <3>1, <3>2, <3>3 DEF Fits, Zeros
      <4> QED
        BY <4>3, DataIs
    <3>4. listing[n].kind = "instr" => L!Data(listing[n].from) # 0
      BY <3>1, DataIs DEF Fits
    <3> QED
      BY <3>1, <3>3, <3>4 DEF Fits
  <2>7. ASSUME NEW n \in DOMAIN listing, n < Len(listing), listing[n].kind = "nops"
        PROVE  listing[n + 1].kind = "instr"
    <3>1. n \in 1 .. Len(listing) - 1
      BY <2>5, <2>7
    <3> QED
      BY <3>1, <2>4, <2>7 DEF Tiles, NopsEnd
  <2>8. ASSUME last_nop, NEW k \in DOMAIN program.data, k \in nop_from .. at - 1 PROVE L!Data(k) = 0
    <3>1. k \in Nat
      BY <2>1
    <3>2. nop_from <= k /\ k < at
      BY <2>2, <2>8
    <3>3. DataAt(program, k) = 0
      BY <3>1, <3>2, <2>4, <2>8 DEF Zeros
    <3> QED
      BY <3>3, DataIs
  <2>9. IF last_nop
        THEN /\ nop_from = LineEnd(listing, Len(listing))
             /\ \A k \in DOMAIN program.data : k \in nop_from .. at - 1 => L!Data(k) = 0
        ELSE at = LineEnd(listing, Len(listing))
    <3>1. CASE last_nop
      BY <3>1, <2>4, <2>5, <2>8
    <3>2. CASE ~last_nop
      BY <3>2, <2>4, <2>5
    <3> QED
      BY <3>1, <3>2
  <2> QED
    BY <2>6, <2>7, <2>9 DEF ListingTiles, LineEnd
<1>2. ASSUME stage \notin {"list", "done"} PROVE ListingTiles
  BY <1>2 DEF ListingTiles
<1>3. ChainInv /\ SweepInv => ListingTiles
  BY <1>1, <1>2
<1> QED
  BY <1>3, ChainHolds, SweepHolds, PTL

-----------------------------------------------------------------------------
(* What the listing shows.  An opcode is zero for NOP only.                *)
LEMMA BitsTyped ==
  ASSUME NEW name
  PROVE  /\ get_opcode_arg_bits(arg_dbl_bits, name) \in Nat
         /\ get_opcode_arg_bits(arg_tpl_bits, name) \in Nat
<1>1. ASSUME NEW arr, DOMAIN arr \subseteq Nat, \A i \in DOMAIN arr : arr[i][2] \in Nat
      PROVE  get_opcode_arg_bits(arr, name) \in Nat
  <2> DEFINE hits == {i \in DOMAIN arr : arr[i][1] = name /\ Terminated(name)}
  <2>1. hits \in SUBSET Nat /\ hits \subseteq DOMAIN arr
    BY <1>1
  <2>2. get_opcode_arg_bits(arr, name) = IF hits = {} THEN 0 ELSE arr[Min(hits)][2]
    BY DEF get_opcode_arg_bits
  <2> HIDE DEF hits
  <2>3. CASE hits = {}
    BY <2>2, <2>3
  <2>4. CASE hits # {}
    <3>1. Min(hits) \in DOMAIN arr
      BY <2>1, <2>4, LeastOfNats
    <3> QED
      BY <3>1, <2>2, <2>4, <1>1
  <2> QED
    BY <2>3, <2>4
<1>2. DOMAIN arg_dbl_bits = 1 .. 8 /\ \A i \in 1 .. 8 : arg_dbl_bits[i][2] \in Nat
  BY DEF arg_dbl_bits
<1>3. DOMAIN arg_tpl_bits = 1 .. 16 /\ \A i \in 1 .. 16 : arg_tpl_bits[i][2] \in Nat
  BY DEF arg_tpl_bits
<1> QED
  BY <1>1, <1>2, <1>3

LEMMA BaseCodes ==
  /\ \A m \in DOMAIN BaseCode : BaseCode[m] \in Nat
  /\ \A m \in DOMAIN BaseCode : m # "NOP" => BaseCode[m] # 0
  /\ "NOP" \in DOMAIN BaseCode /\ BaseCode["NOP"] = 0
BY DEF BaseCode

LEMMA OpcodeZero ==
  ASSUME NEW t, t.opcode \in DOMAIN BaseCode
  PROVE  OpOf(t) \in Nat /\ (OpOf(t) = 0 <=> t.opcode = "NOP")
<1> DEFINE name == t.opcode
           first == Argument(t, 1)
           second == Argument(t, 2)
           bits(arr, given) == IF given.is_imm THEN 0 ELSE get_opcode_arg_bits(arr, given.sv)
           fill == CASE name \in PairMnemonics   -> 16 * bits(arg_dbl_bits, first)
                     [] name \in MiddleMnemonics -> 8 * bits(arg_tpl_bits, first)
                     [] name \in LowMnemonics    -> bits(arg_tpl_bits, first)
                     [] name = "MOV" -> 8 * get_opcode_arg_bits(arg_tpl_bits, first.sv)
                                          + get_opcode_arg_bits(arg_tpl_bits, second.sv)
                     [] OTHER -> 0
<1>1. OpOf(t) = BaseCode[name] + fill
  BY DEF OpOf, Encoded
<1>2. /\ bits(arg_dbl_bits, first) \in Nat /\ bits(arg_tpl_bits, first) \in Nat
      /\ get_opcode_arg_bits(arg_tpl_bits, first.sv) \in Nat
      /\ get_opcode_arg_bits(arg_tpl_bits, second.sv) \in Nat
  BY BitsTyped
<1>3. fill \in Nat
  <2> HIDE DEF bits, first, second, name
  <2> QED
    BY <1>2
<1>4. name = "NOP" => fill = 0
  BY DEF PairMnemonics, MiddleMnemonics, LowMnemonics
<1> HIDE DEF fill
<1> QED
  BY <1>1, <1>3, <1>4, BaseCodes

(* An instruction of the source, in its place. *)
IsInstruction(ts, k) == k \in DOMAIN ts /\ ts[k].opcode \in DOMAIN BaseCode
Shape(t) ==
  /\ DOMAIN Bytes(t) = 1 .. Length(OpOf(t)) /\ Len(Bytes(t)) = Length(OpOf(t))
  /\ Bytes(t)[1] = Fixed(OpOf(t)) /\ Length(OpOf(t)) \in {1, 2, 3}
  /\ OpOf(t) \in Nat /\ (OpOf(t) = 0 <=> t.opcode = "NOP")

LEMMA InstructionShape ==
  ASSUME NEW t \in TokenType, t.opcode \in DOMAIN BaseCode
  PROVE  Shape(t)
<1> DEFINE op == OpOf(t)
           all == Bytes(t)
<1>1. /\ DOMAIN all = 1 .. Len(all)
      /\ Length(op) = 1 => Elements1(all, Fixed(op))
      /\ Length(op) = 2 => Elements2(all, Fixed(op), Fixed(ImmOf(t) % 256))
      /\ Length(op) = 3 /\ OperandOf(t).is_imm =>
           Elements3(all, Fixed(op), Fixed(Hi(ImmOf(t))), Fixed(Lo(ImmOf(t))))
      /\ Length(op) = 3 /\ ~OperandOf(t).is_imm =>
           Elements3(all, Fixed(op), Half(OperandOf(t).sv, TRUE), Half(OperandOf(t).sv, FALSE))
  BY InstructionBytes
<1>2. Length(op) \in {1, 2, 3}
  BY Lengths
<1>3. op \in Nat /\ (op = 0 <=> t.opcode = "NOP")
  BY OpcodeZero
<1> HIDE DEF op, all
<1>4. Len(all) = Length(op) /\ all[1] = Fixed(op)
  <2>1. CASE Length(op) = 1
    BY <2>1, <1>1 DEF Elements1
  <2>2. CASE Length(op) = 2
    BY <2>2, <1>1 DEF Elements2
  <2>3. CASE Length(op) = 3 /\ OperandOf(t).is_imm
    BY <2>3, <1>1 DEF Elements3
  <2>4. CASE Length(op) = 3 /\ ~OperandOf(t).is_imm
    BY <2>4, <1>1 DEF Elements3
  <2> QED
    BY <1>2, <2>1, <2>2, <2>3, <2>4
<1> QED
  BY <1>1, <1>2, <1>3, <1>4 DEF Shape, op, all

(* The image that was loaded, at the bytes of a statement. *)
Loaded(p, ts) ==
  /\ ts \in Seq(TokenType) /\ Shows(ts, p.data, Extent(ts))
  /\ Extent(ts) \in Nat /\ Extent(ts) < 65536

LEMMA BytesLoaded ==
  ASSUME NEW p, NEW ts, Loaded(p, ts), NEW k \in DOMAIN ts, NEW j \in DOMAIN Bytes(ts[k]),
         NEW a, a = Addresses(ts)[k] + j - 1
  PROVE  a \in Nat /\ a < Extent(ts) /\ a < 65536 /\ DataAt(p, a) = Resolved(ts, Bytes(ts[k])[j])
<1> DEFINE b == Bytes(ts[k])[j]
<1>1. ts \in Seq(TokenType) /\ Extent(ts) \in Nat /\ Extent(ts) < 65536
  BY DEF Loaded
<1>2. StandsIn(ts, k, a, b)
  BY DEF StandsIn
<1> HIDE DEF b
<1>3. a \in Nat
  BY <1>1, <1>2, StandsInBounds
<1>4. Len(ts) + 1 \in 1 .. Len(ts) + 1 /\ k < Len(ts) + 1
  BY <1>1
<1>5. a < Extent(ts)
  BY <1>1, <1>2, <1>4, StandsBelow DEF Extent
<1>6. Stands(ts, a, b)
  BY <1>2 DEF Stands
<1>7. a \in DOMAIN p.data /\ p.data[a] = Resolved(ts, b)
  BY <1>5, <1>6 DEF Loaded, Shows
<1>8. DataAt(p, a) = p.data[a]
  BY <1>1, <1>3, <1>5, <1>7 DEF DataAt
<1> QED
  BY <1>1, <1>3, <1>5, <1>7, <1>8 DEF b

Address(ts, k)     == Addresses(ts)[k]
End(ts, k)         == Addresses(ts)[k] + Len(Bytes(ts[k]))
WrittenLine(ts, k) == <<Addresses(ts)[k], Bytes(ts[k])[1].byte, OperandValue(ts, ts[k])>>
LineOf(x)          == <<x.from, x.op, x.operand>>

(* At the address of an instruction the sweep prints the instruction. *)
LEMMA InstructionLoaded ==
  ASSUME NEW p, NEW ts, Loaded(p, ts), NEW k, IsInstruction(ts, k)
  PROVE  /\ Address(ts, k) \in Nat /\ Address(ts, k) < 65536 /\ Address(ts, k) < Extent(ts)
         /\ End(ts, k) = Address(ts, k) + Length(OpOf(ts[k]))
         /\ DataAt(p, Address(ts, k)) = OpOf(ts[k])
         /\ LineOf(InstrAt(p, Address(ts, k))) = WrittenLine(ts, k)
         /\ InstrAt(p, Address(ts, k)).to = End(ts, k)
<1> DEFINE t == ts[k]
           all == Bytes(t)
           op == OpOf(t)
           a == Addresses(ts)[k]
           len == Length(op)
<1>1. ts \in Seq(TokenType) /\ k \in DOMAIN ts /\ t \in TokenType /\ t.opcode \in DOMAIN BaseCode
  BY DEF Loaded, IsInstruction
<1>2. Shape(t)
  BY <1>1, InstructionShape
<1>3. DOMAIN all = 1 .. len /\ Len(all) = len /\ all[1] = Fixed(op) /\ len \in {1, 2, 3}
  BY <1>2 DEF Shape
<1>4. a \in Nat
  BY <1>1, AddressTyped
<1>5. \A j \in DOMAIN all : a + j - 1 \in Nat /\ a + j - 1 < Extent(ts) /\ a + j - 1 < 65536
                            /\ DataAt(p, a + j - 1) = Resolved(ts, all[j])
  BY <1>1, BytesLoaded
<1> HIDE DEF t, all, op, a, len
<1>6. 1 \in DOMAIN all /\ a + 1 - 1 = a
  BY <1>3, <1>4
<1>7. a < 65536 /\ a < Extent(ts) /\ DataAt(p, a) = Resolved(ts, all[1])
  BY <1>5, <1>6
<1>8. DataAt(p, a) = op
  BY <1>3, <1>7, FixedResolves
<1>9. len \in {2, 3} => DataAt(p, a + 1) = Resolved(ts, all[2])
  <2>1. len \in {2, 3} => 2 \in DOMAIN all /\ a + 2 - 1 = a + 1
    BY <1>3, <1>4
  <2> QED
    BY <2>1, <1>5
<1>10. len = 3 => DataAt(p, a + 2) = Resolved(ts, all[3])
  <2>1. len = 3 => 3 \in DOMAIN all /\ a + 3 - 1 = a + 2
    BY <1>3, <1>4
  <2> QED
    BY <2>1, <1>5
<1> DEFINE bytes == [j \in 2 .. Len(all) |-> Resolved(ts, all[j])]
<1>11. OperandValue(ts, t) = CASE Len(all) = 1 -> 0
                               [] Len(all) = 2 -> bytes[2]
                               [] Len(all) = 3 -> Word(bytes[2], bytes[3])
  BY DEF OperandValue, all
<1>12. len \in {2, 3} => bytes[2] = Resolved(ts, all[2])
  BY <1>3
<1>13. len = 3 => bytes[3] = Resolved(ts, all[3])
  BY <1>3
<1> HIDE DEF bytes
<1>14. OperandAt(p, a, len) = OperandValue(ts, t)
  <2>1. CASE len = 1
    BY <2>1, <1>3, <1>11 DEF OperandAt
  <2>2. CASE len = 2
    BY <2>2, <1>3, <1>9, <1>11, <1>12 DEF OperandAt
  <2>3. CASE len = 3
    BY <2>3, <1>3, <1>9, <1>10, <1>11, <1>12, <1>13 DEF OperandAt
  <2> QED
    BY <1>3, <2>1, <2>2, <2>3
<1>15. all[1].byte = op
  BY <1>3 DEF Fixed
<1>16. InstrAt(p, a) = [kind |-> "instr", from |-> a, to |-> a + len, op |-> op, operand |-> OperandValue(ts, t)]
  BY <1>8, <1>14 DEF InstrAt, len
<1>17. LineOf(InstrAt(p, a)) = <<a, all[1].byte, OperandValue(ts, t)>>
  BY <1>15, <1>16 DEF LineOf
<1>18. InstrAt(p, a).to = a + len /\ len = Len(all)
  BY <1>3, <1>16
<1> QED
  BY <1>4, <1>7, <1>8, <1>17, <1>18 DEF Address, End, WrittenLine, t, all, op, a, len

(* A byte that is not zero belongs to an instruction that is none of NOP. *)
LEMMA OnlyInstructions ==
  ASSUME NEW p, NEW ts, Loaded(p, ts), WithoutData(ts), NEW e \in Nat, e < 65536, DataAt(p, e) # 0
  PROVE  \E k : IsInstruction(ts, k) /\ Address(ts, k) <= e /\ e < End(ts, k)
<1>1. e \in DOMAIN p.data
  BY DEF DataAt
<1>2. PICK b : Stands(ts, e, b)
  BY <1>1 DEF Loaded, Shows
<1>3. PICK k \in DOMAIN ts : StandsIn(ts, k, e, b)
  BY <1>2 DEF Stands
<1>4. ts \in Seq(TokenType) /\ ts[k] \in TokenType
  BY DEF Loaded
<1>5. Address(ts, k) <= e /\ e < End(ts, k)
  BY <1>3, <1>4, StandsInBounds DEF Address, End
<1>6. DOMAIN Bytes(ts[k]) # {}
  BY <1>3 DEF StandsIn
<1>7. Bytes(ts[k]) # <<>>
  BY <1>6
<1>8. ts[k].opcode \in DOMAIN BaseCode
  BY <1>4, <1>7, SilentBytes DEF WithoutData
<1> QED
  BY <1>5, <1>8 DEF IsInstruction

-----------------------------------------------------------------------------
(* The sweep never stands inside an instruction, its lines up to there are *)
(* instructions of the source, and all of them are there.                  *)
InstrLines(ls) == {x \in {ls[n] : n \in DOMAIN ls} : x.kind = "instr"}
Proper(ts, k) == IsInstruction(ts, k) /\ ts[k].opcode # "NOP"
Cut(ts, e) == \A k : IsInstruction(ts, k) => e <= Address(ts, k) \/ End(ts, k) <= e
Sound(ts, ls) == \A x \in InstrLines(ls) : \E k : Proper(ts, k) /\ LineOf(x) = WrittenLine(ts, k)
Complete(ts, ls, e) ==
  \A k : Proper(ts, k) /\ Address(ts, k) < e => \E x \in InstrLines(ls) : LineOf(x) = WrittenLine(ts, k)
Lists(ts, ls, e) == Cut(ts, e) /\ Sound(ts, ls) /\ Complete(ts, ls, e)

LEMMA LinesAdded ==
  ASSUME NEW B, NEW ls \in Seq(B), NEW x \in B, x.kind = "instr"
  PROVE  InstrLines(ls \o <<x>>) = InstrLines(ls) \cup {x}
<1> DEFINE more == ls \o <<x>>
           m == Len(ls)
<1>1. /\ m \in Nat /\ DOMAIN ls = 1 .. m /\ DOMAIN more = 1 .. m + 1
      /\ \A n \in 1 .. m : more[n] = ls[n]
      /\ more[m + 1] = x
  OBVIOUS
<1> HIDE DEF more, m
<1>2. \A n \in 1 .. m + 1 : n \in 1 .. m \/ n = m + 1
  BY <1>1
<1>3. \A n \in 1 .. m : n \in 1 .. m + 1
  BY <1>1
<1>4. m + 1 \in 1 .. m + 1
  BY <1>1
<1>5. ASSUME NEW y \in InstrLines(more) PROVE y \in InstrLines(ls) \cup {x}
  <2>1. PICK n \in DOMAIN more : y = more[n]
    BY DEF InstrLines
  <2>2. y.kind = "instr"
    BY DEF InstrLines
  <2>3. CASE n \in 1 .. m
    <3>1. y = ls[n] /\ n \in DOMAIN ls
      BY <2>1, <2>3, <1>1
    <3> QED
      BY <3>1, <2>2 DEF InstrLines
  <2>4. CASE n = m + 1
    BY <2>1, <2>4, <1>1
  <2> QED
    BY <2>1, <2>3, <2>4, <1>1, <1>2
<1>6. ASSUME NEW y \in InstrLines(ls) PROVE y \in InstrLines(more)
  <2>1. PICK n \in DOMAIN ls : y = ls[n]
    BY DEF InstrLines
  <2>2. y.kind = "instr"
    BY DEF InstrLines
  <2>3. n \in DOMAIN more /\ y = more[n]
    BY <2>1, <1>1, <1>3
  <2> QED
    BY <2>2, <2>3 DEF InstrLines
<1>7. x \in InstrLines(more)
  <2>1. m + 1 \in DOMAIN more /\ x = more[m + 1]
    BY <1>1, <1>4
  <2> QED
    BY <2>1 DEF InstrLines
<1>8. InstrLines(more) = InstrLines(ls) \cup {x}
  BY <1>5, <1>6, <1>7
<1> QED
  BY <1>8 DEF more

LEMMA RunAdded ==
  ASSUME NEW B, NEW ls \in Seq(B), NEW x \in B, x.kind # "instr"
  PROVE  Append(ls, x) \in Seq(B) /\ InstrLines(Append(ls, x)) = InstrLines(ls)
<1> DEFINE more == Append(ls, x)
           m == Len(ls)
<1>1. /\ m \in Nat /\ DOMAIN ls = 1 .. m /\ DOMAIN more = 1 .. m + 1 /\ more \in Seq(B)
      /\ \A n \in 1 .. m : more[n] = ls[n]
      /\ more[m + 1] = x
  OBVIOUS
<1> HIDE DEF more, m
<1>2. \A n \in 1 .. m + 1 : n \in 1 .. m \/ n = m + 1
  BY <1>1
<1>3. \A n \in 1 .. m : n \in 1 .. m + 1
  BY <1>1
<1>4. ASSUME NEW y \in InstrLines(more) PROVE y \in InstrLines(ls)
  <2>1. PICK n \in DOMAIN more : y = more[n]
    BY DEF InstrLines
  <2>2. y.kind = "instr"
    BY DEF InstrLines
  <2>3. n # m + 1
    BY <2>1, <2>2, <1>1
  <2>4. y = ls[n] /\ n \in DOMAIN ls
    BY <2>1, <2>3, <1>1, <1>2
  <2> QED
    BY <2>4, <2>2 DEF InstrLines
<1>5. ASSUME NEW y \in InstrLines(ls) PROVE y \in InstrLines(more)
  <2>1. PICK n \in DOMAIN ls : y = ls[n]
    BY DEF InstrLines
  <2>2. y.kind = "instr"
    BY DEF InstrLines
  <2>3. n \in DOMAIN more /\ y = more[n]
    BY <2>1, <1>1, <1>3
  <2> QED
    BY <2>2, <2>3 DEF InstrLines
<1>6. InstrLines(more) = InstrLines(ls)
  BY <1>4, <1>5
<1> QED
  BY <1>1, <1>6 DEF more

LEMMA InstructionsApart ==
  ASSUME NEW ts \in Seq(TokenType), NEW i, NEW k, IsInstruction(ts, i), IsInstruction(ts, k), i # k
  PROVE  End(ts, i) <= Address(ts, k) \/ End(ts, k) <= Address(ts, i)
<1>1. i \in 1 .. Len(ts) + 1 /\ k \in 1 .. Len(ts) + 1 /\ (i < k \/ k < i)
  BY DEF IsInstruction
<1> QED
  BY <1>1, AddressesGrow DEF End, Address

(* One more instruction. *)
LEMMA InstructionLists ==
  ASSUME NEW p, NEW ts, Loaded(p, ts), WithoutData(ts), NEW e \in Nat, e < 65536, DataAt(p, e) # 0,
         NEW ls, NEW more, Lists(ts, ls, e), InstrLines(more) = InstrLines(ls) \cup {InstrAt(p, e)}
  PROVE  Lists(ts, more, e + Length(DataAt(p, e)))
<1>0. ts \in Seq(TokenType)
  BY DEF Loaded
<1>1. PICK j : IsInstruction(ts, j) /\ Address(ts, j) <= e /\ e < End(ts, j)
  BY OnlyInstructions
<1>2. /\ Address(ts, j) \in Nat /\ End(ts, j) = Address(ts, j) + Length(OpOf(ts[j]))
      /\ DataAt(p, Address(ts, j)) = OpOf(ts[j])
      /\ LineOf(InstrAt(p, Address(ts, j))) = WrittenLine(ts, j)
  BY <1>1, InstructionLoaded
<1>2a. Length(OpOf(ts[j])) \in {1, 2, 3}
  BY Lengths
<1>3. e = Address(ts, j)
  <2>1. e <= Address(ts, j) \/ End(ts, j) <= e
    BY <1>1 DEF Lists, Cut
  <2> QED
    BY <2>1, <1>1, <1>2, <1>2a
<1>4. e + Length(DataAt(p, e)) = End(ts, j)
  BY <1>2, <1>3
<1>5. OpOf(ts[j]) # 0
  BY <1>2, <1>3
<1>6. ts[j].opcode # "NOP"
  BY <1>1, <1>5, OpcodeZero DEF IsInstruction
<1>7. Proper(ts, j)
  BY <1>1, <1>6 DEF Proper
<1>8. LineOf(InstrAt(p, e)) = WrittenLine(ts, j)
  BY <1>2, <1>3
<1>9. Cut(ts, End(ts, j))
  <2> SUFFICES ASSUME NEW k, IsInstruction(ts, k) PROVE End(ts, j) <= Address(ts, k) \/ End(ts, k) <= End(ts, j)
    BY DEF Cut
  <2>1. CASE k = j
    <3>1. End(ts, j) \in Int
      BY <1>2, <1>2a
    <3> QED
      BY <2>1, <3>1
  <2>2. CASE k # j
    <3>1. End(ts, k) <= Address(ts, j) \/ End(ts, j) <= Address(ts, k)
      BY <1>0, <1>1, <2>2, InstructionsApart
    <3>2. /\ Address(ts, k) \in Nat /\ End(ts, k) = Address(ts, k) + Length(OpOf(ts[k]))
          /\ Length(OpOf(ts[k])) \in {1, 2, 3}
      BY InstructionLoaded, Lengths
    <3> QED
      BY <3>1, <3>2, <1>2, <1>2a
  <2> QED
    BY <2>1, <2>2
<1>10. Sound(ts, more)
  BY <1>7, <1>8 DEF Lists, Sound
<1>11. Complete(ts, more, End(ts, j))
  <2> SUFFICES ASSUME NEW k, Proper(ts, k), Address(ts, k) < End(ts, j)
               PROVE  \E x \in InstrLines(more) : LineOf(x) = WrittenLine(ts, k)
    BY DEF Complete
  <2>1. CASE k = j
    BY <2>1, <1>8
  <2>2. CASE k # j
    <3>1. End(ts, k) <= Address(ts, j) \/ End(ts, j) <= Address(ts, k)
      BY <1>0, <1>1, <2>2, InstructionsApart DEF Proper
    <3>2. /\ Address(ts, k) \in Nat /\ End(ts, k) = Address(ts, k) + Length(OpOf(ts[k]))
          /\ Length(OpOf(ts[k])) \in {1, 2, 3}
      BY InstructionLoaded, Lengths DEF Proper
    <3>3. Address(ts, k) < e
      BY <3>1, <3>2, <1>2, <1>2a, <1>3
    <3> QED
      BY <3>3 DEF Lists, Complete
  <2> QED
    BY <2>1, <2>2
<1> QED
  BY <1>4, <1>9, <1>10, <1>11 DEF Lists

LEMMA ZeroIsOneByte == Length(0) = 1
BY DEF Length, ThreeByteOps, TwoByteOps, MviOps, ImmediateAluOps, Column, Jumps, Calls, ConditionalJumps, ConditionalCalls

(* Past a run of zeros. *)
LEMMA RunLists ==
  ASSUME NEW p, NEW ts, Loaded(p, ts), NEW e \in Nat, NEW f \in Nat, e < f, f <= 65536,
         NEW ls, Lists(ts, ls, e), \A k \in Nat : e <= k /\ k < f => DataAt(p, k) = 0
  PROVE  Lists(ts, ls, f)
<1>1. ASSUME NEW k, IsInstruction(ts, k), e <= Address(ts, k), Address(ts, k) < f
      PROVE  ts[k].opcode = "NOP" /\ End(ts, k) <= f
  <2>1. /\ Address(ts, k) \in Nat /\ End(ts, k) = Address(ts, k) + Length(OpOf(ts[k]))
        /\ DataAt(p, Address(ts, k)) = OpOf(ts[k])
    BY <1>1, InstructionLoaded
  <2>2. OpOf(ts[k]) = 0
    BY <1>1, <2>1
  <2>3. ts[k].opcode = "NOP"
    BY <1>1, <2>2, OpcodeZero DEF IsInstruction
  <2>4. Length(OpOf(ts[k])) = 1
    BY <2>2, ZeroIsOneByte
  <2> QED
    BY <1>1, <2>1, <2>3, <2>4
<1>2. \A k : IsInstruction(ts, k) => Address(ts, k) \in Nat /\ End(ts, k) \in Nat /\ Address(ts, k) < End(ts, k)
  <2> SUFFICES ASSUME NEW k, IsInstruction(ts, k)
               PROVE  Address(ts, k) \in Nat /\ End(ts, k) \in Nat /\ Address(ts, k) < End(ts, k)
    OBVIOUS
  <2>1. /\ Address(ts, k) \in Nat /\ End(ts, k) = Address(ts, k) + Length(OpOf(ts[k]))
        /\ Length(OpOf(ts[k])) \in {1, 2, 3}
    BY InstructionLoaded, Lengths
  <2> QED
    BY <2>1
<1>3. Cut(ts, f)
  <2> SUFFICES ASSUME NEW k, IsInstruction(ts, k) PROVE f <= Address(ts, k) \/ End(ts, k) <= f
    BY DEF Cut
  <2>1. e <= Address(ts, k) \/ End(ts, k) <= e
    BY DEF Lists, Cut
  <2>2. Address(ts, k) \in Nat /\ End(ts, k) \in Nat
    BY <1>2
  <2> QED
    BY <1>1, <2>1, <2>2
<1>4. Complete(ts, ls, f)
  <2> SUFFICES ASSUME NEW k, Proper(ts, k), Address(ts, k) < f
               PROVE  \E x \in InstrLines(ls) : LineOf(x) = WrittenLine(ts, k)
    BY DEF Complete
  <2>1. ~(e <= Address(ts, k))
    BY <1>1 DEF Proper
  <2>2. Address(ts, k) \in Nat
    BY <1>2 DEF Proper
  <2>3. Address(ts, k) < e
    BY <2>1, <2>2
  <2> QED
    BY <2>3 DEF Lists, Complete
<1> QED
  BY <1>3, <1>4 DEF Lists

-----------------------------------------------------------------------------
(* The programs that ListingShowsProgram speaks of.                        *)
Plain(ts) == Scope(ts) /\ Extent(ts) < AddressSpace /\ WithoutData(ts)
ListedInv ==
  /\ stage \in {"list", "done"} =>
       \A ts : ts = Live(tokens) /\ Plain(ts) => Lists(ts, listing, at)
  /\ stage = "done" => at >= 65536

LEMMA PlainIsLoaded ==
  ASSUME ChainInv, stage \in {"list", "done"}, NEW ts, ts = Live(tokens), Plain(ts)
  PROVE  Loaded(program, ts) /\ WithoutData(ts)
<1>1. ts \in Seq(TokenType) /\ Shows(ts, program.data, Extent(ts))
  BY LoadedShows DEF Plain
<1>2. Extent(ts) \in Nat /\ Extent(ts) < 65536
  BY <1>1, ExtentTyped, Maxima DEF Plain, AddressSpace
<1> QED
  BY <1>1, <1>2 DEF Loaded, Plain

LEMMA NothingListed == ASSUME NEW ts \in Seq(TokenType) PROVE Lists(ts, <<>>, 0)
<1>1. \A k : IsInstruction(ts, k) => Address(ts, k) \in Nat
  BY AddressTyped DEF IsInstruction, Address
<1>2. InstrLines(<<>>) = {}
  BY DEF InstrLines
<1>3. Cut(ts, 0)
  BY <1>1 DEF Cut
<1>4. Sound(ts, <<>>)
  BY <1>2 DEF Sound
<1>5. \A k : Proper(ts, k) => ~(Address(ts, k) < 0)
  BY <1>1 DEF Proper
<1>6. Complete(ts, <<>>, 0)
  BY <1>5 DEF Complete
<1> QED
  BY <1>3, <1>4, <1>6 DEF Lists

LEMMA LoadLists == ASSUME ChainInv, Load PROVE ListedInv'
<1>1. /\ stage = "assembled" /\ stage' = "list" /\ tokens' = tokens
      /\ listing' = <<>> /\ at' = 0
  BY DEF Load, ChainInv, NotListed, listerVars
<1>2. ASSUME NEW ts, ts = Live(tokens'), Plain(ts) PROVE Lists(ts, listing', at')
  <2>1. ts = Live(tokens) /\ Scope(ts)
    BY <1>1, <1>2 DEF Plain
  <2>2. ts \in Seq(TokenType)
    BY <1>1, <2>1, AssembledShows DEF ChainInv, FileInv
  <2>3. Lists(ts, <<>>, 0)
    BY <2>2, NothingListed
  <2> QED
    BY <2>3, <1>1
<1> QED
  BY <1>1, <1>2 DEF ListedInv

LEMMA InstructionListed == ASSUME ChainInv, SweepInv, ListedInv, List, L!ListInstruction PROVE ListedInv'
<1>1. /\ stage = "list" /\ stage' = "list" /\ tokens' = tokens
      /\ at < 65536 /\ DataAt(program, at) # 0
      /\ at' = at + Length(DataAt(program, at))
      /\ listing' = (IF last_nop THEN Append(listing, Nops(nop_from, U16(at))) ELSE listing)
                      \o <<InstrAt(program, at)>>
  BY DataIs, InstrIs, NopsAre, SameLength
     DEF List, L!ListInstruction, L!Listing, L!DATA_MAX_CNT, L!U16, U16
<1>2. at \in Nat /\ nop_from \in Nat /\ last_nop \in BOOLEAN
  BY DEF SweepInv
<1>3. listing \in Seq(LinesOf(program))
  BY <1>2 DEF SweepInv, Settled, Tiles
<1> DEFINE x == InstrAt(program, at)
           n == Nops(nop_from, U16(at))
           before == IF last_nop THEN Append(listing, n) ELSE listing
<1>4. x.kind = "instr" /\ n.kind # "instr"
  BY DEF InstrAt, Nops
<1>5. n \in LinesOf(program) /\ x \in LinesOf(program)
  <2>1. <<nop_from, U16(at)>> \in Nat \X Nat /\ n = Nops(<<nop_from, U16(at)>>[1], <<nop_from, U16(at)>>[2])
    BY <1>2 DEF U16
  <2> QED
    BY <2>1, <1>2 DEF LinesOf
<1> HIDE DEF x, n
<1>6. before \in Seq(LinesOf(program)) /\ InstrLines(before) = InstrLines(listing)
  <2>1. CASE last_nop
    <3>1. Append(listing, n) \in Seq(LinesOf(program)) /\ InstrLines(Append(listing, n)) = InstrLines(listing)
      BY <1>3, <1>4, <1>5, RunAdded
    <3> QED
      BY <2>1, <3>1
  <2>2. CASE ~last_nop
    BY <2>2, <1>3
  <2> QED
    BY <2>1, <2>2
<1>7. listing' = before \o <<x>>
  BY <1>1 DEF x, n
<1> HIDE DEF before
<1>8. InstrLines(listing') = InstrLines(listing) \cup {InstrAt(program, at)}
  <2>1. InstrLines(before \o <<x>>) = InstrLines(before) \cup {x}
    BY <1>4, <1>5, <1>6, LinesAdded
  <2> QED
    BY <2>1, <1>6, <1>7 DEF x
<1>9. ASSUME NEW ts, ts = Live(tokens'), Plain(ts) PROVE Lists(ts, listing', at')
  <2>1. ts = Live(tokens)
    BY <1>1, <1>9
  <2>2. Loaded(program, ts) /\ WithoutData(ts)
    BY <1>1, <1>9, <2>1, PlainIsLoaded
  <2>3. Lists(ts, listing, at)
    BY <1>1, <1>9, <2>1 DEF ListedInv
  <2>3a. at \in Nat /\ at < 65536 /\ DataAt(program, at) # 0
    BY <1>1, <1>2
  <2>4. Lists(ts, listing', at + Length(DataAt(program, at)))
    BY ONLY <1>8, <2>2, <2>3, <2>3a, InstructionLists
  <2> QED
    BY <2>4, <1>1
<1> QED
  BY <1>1, <1>9 DEF ListedInv

LEMMA NopsListed == ASSUME ChainInv, SweepInv, ListedInv, List, L!ListNops PROVE ListedInv'
<1> DEFINE e == L!RunEnd
<1>1. /\ stage = "list" /\ stage' = "list" /\ tokens' = tokens
      /\ at < 65536 /\ DataAt(program, at) = 0
      /\ at' = e /\ listing' = listing
  BY DataIs DEF List, L!ListNops, L!Listing, L!DATA_MAX_CNT
<1>2. at \in Nat
  BY DEF SweepInv
<1>3. DOMAIN program.data \subseteq Nat /\ \A k \in DOMAIN program.data : k < 65536
  BY <1>1, LoadedCells
<1>4. /\ e \in Nat /\ at < e /\ e <= 65536
      /\ \A k \in DOMAIN program.data : at < k /\ k < e => DataAt(program, k) = 0
  BY <1>1, <1>2, <1>3, RunEnds
<1> HIDE DEF e
<1>5. ASSUME NEW k \in Nat, at <= k, k < e PROVE DataAt(program, k) = 0
  <2>1. CASE k = at
    BY <2>1, <1>1
  <2>2. CASE k # at /\ k \in DOMAIN program.data
    BY <2>2, <1>2, <1>4, <1>5
  <2>3. CASE k \notin DOMAIN program.data
    <3>1. k # 65536 /\ k # 65537
      BY <1>4, <1>5
    <3> QED
      BY <2>3, <3>1 DEF DataAt
  <2> QED
    BY <2>1, <2>2, <2>3
<1>6. ASSUME NEW ts, ts = Live(tokens'), Plain(ts) PROVE Lists(ts, listing', at')
  <2>1. ts = Live(tokens)
    BY <1>1, <1>6
  <2>2. Loaded(program, ts)
    BY <1>1, <1>6, <2>1, PlainIsLoaded
  <2>3. Lists(ts, listing, at)
    BY <1>1, <1>6, <2>1 DEF ListedInv
  <2>4. Lists(ts, listing, e)
    BY <1>2, <1>4, <1>5, <2>2, <2>3, RunLists
  <2> QED
    BY <2>4, <1>1
<1> QED
  BY <1>1, <1>6 DEF ListedInv

LEMMA EndListed == ASSUME ListedInv, SweepInv, List, L!EndOfImage PROVE ListedInv'
<1>1. /\ stage = "list" /\ stage' = "done" /\ tokens' = tokens /\ at >= 65536
      /\ at' = at /\ listing' = listing
  BY DEF List, L!EndOfImage, L!DATA_MAX_CNT
<1> QED
  BY <1>1 DEF ListedInv

LEMMA BeforeListing ==
  ASSUME Parse \/ Preprocess \/ Assemble PROVE stage' \notin {"list", "done"}
<1>1. CASE Parse
  BY <1>1 DEF Parse, P!Next, P!parse_file, P!NextLine, P!AcceptLine, P!SkipLine, P!EndOfFile, P!Parsing
<1>2. CASE Preprocess
  BY <1>2 DEF Preprocess, S!Next, S!prepass_handle_at, S!DropEmpty, S!EndSection, S!InSection, S!Define, S!BeginSection,
     S!DropDirective, S!KeepToken, S!EndOfTokens, S!At, S!Handling, S!Discard, S!Keep
<1>3. CASE Assemble
  BY <1>3, StageOfWriting DEF Assemble
<1> QED
  BY <1>1, <1>2, <1>3

LEMMA ListedKept == ASSUME ChainInv, SweepInv, ListedInv, [ToolNext]_toolVars PROVE ListedInv'
<1>1. CASE Parse \/ Preprocess \/ Assemble
  BY <1>1, BeforeListing DEF ListedInv
<1>2. CASE Load
  BY <1>2, LoadLists
<1>3. CASE List
  BY <1>3, InstructionListed, NopsListed, EndListed DEF List, L!Next, L!print_disassemble
<1>4. CASE UNCHANGED toolVars
  <2>1. tokens' = tokens /\ stage' = stage /\ at' = at /\ listing' = listing
    BY <1>4 DEF toolVars, vars, listerVars
  <2> QED
    BY <2>1 DEF ListedInv
<1> QED
  BY <1>1, <1>2, <1>3, <1>4 DEF ToolNext

LEMMA ListedHolds == ToolSpec => []ListedInv
<1>1. ToolInit => ListedInv
  BY DEF ToolInit, P!Init, ListedInv
<1>2. ChainInv /\ SweepInv /\ ListedInv /\ [ToolNext]_toolVars => ListedInv'
  BY ListedKept
<1> QED
  BY <1>1, <1>2, ChainHolds, SweepHolds, PTL DEF ToolSpec

LEMMA ListedShown ==
  ASSUME NEW p, NEW ts, Loaded(p, ts), NEW e \in Nat, e >= 65536, Lists(ts, listing, e)
  PROVE  Shown = Written8080(ts)
<1>1. \A y : y \in Shown <=> \E x \in InstrLines(listing) : y = LineOf(x)
  BY DEF Shown, InstrLines, LineOf
<1>2. \A y : y \in Written8080(ts) <=> \E k : Proper(ts, k) /\ y = WrittenLine(ts, k)
  BY DEF Written8080, Proper, IsInstruction, WrittenLine
<1>3. ASSUME NEW y, y \in Shown PROVE y \in Written8080(ts)
  BY <1>1, <1>2, <1>3 DEF Lists, Sound
<1>4. ASSUME NEW k, Proper(ts, k) PROVE WrittenLine(ts, k) \in Shown
  <2>1. Address(ts, k) < e
    BY <1>4, InstructionLoaded DEF Proper
  <2>2. PICK x \in InstrLines(listing) : LineOf(x) = WrittenLine(ts, k)
    BY <1>4, <2>1 DEF Lists, Complete
  <2> QED
    BY <2>2, <1>1
<1> QED
  BY <1>2, <1>3, <1>4

(* For every program without data: the instructions of its listing are     *)
(* those of its source, at their addresses, with their operands.           *)
THEOREM ListingStaysTrue == ToolSpec => []ListingShowsProgram
<1>1. ASSUME ChainInv, SweepInv, ListedInv,
             stage = "done", InScope, Extent(Live(tokens)) < AddressSpace, WithoutData(Live(tokens))
      PROVE  Shown = Written8080(Live(tokens))
  <2> DEFINE ts == Live(tokens)
  <2>1. Plain(ts)
    BY <1>1, InScopeMeans DEF Plain
  <2>2. Loaded(program, ts) /\ Lists(ts, listing, at) /\ at >= 65536 /\ at \in Nat
    BY <1>1, <2>1, PlainIsLoaded DEF ListedInv, SweepInv
  <2> HIDE DEF ts
  <2>3. Shown = Written8080(ts)
    BY <2>2, ListedShown
  <2> QED
    BY <2>3 DEF ts
<1>2. ChainInv /\ SweepInv /\ ListedInv => ListingShowsProgram
  BY <1>1 DEF ListingShowsProgram
<1> QED
  BY <1>2, ChainHolds, SweepHolds, ListedHolds, PTL
-----------------------------------------------------------------------------
(* The sections of a text.  Whether an IF opens one depends on those that  *)
(* were opened before, by recursion over the tokens.                       *)
OpenAt(open, ts, n) ==
  {q \in {n} : /\ ts[q].opcode = "IF" /\ ~IsDefinition(ts[q])
               /\ \A p \in open : EndsBetween(ts, p, q)}
IsOpening(f, ts) ==
  f = [n \in 0 .. Len(ts) |-> IF n = 0 THEN {} ELSE f[n - 1] \cup OpenAt(f[n - 1], ts, n)]
Opening(ts) == CHOOSE f : IsOpening(f, ts)

LEMMA OpeningSteps ==
  ASSUME NEW ts, Len(ts) \in Nat
  PROVE  /\ Openers(ts) = Opening(ts)[Len(ts)]
         /\ Opening(ts)[0] = {}
         /\ \A n \in 1 .. Len(ts) : Opening(ts)[n] = Opening(ts)[n - 1] \cup OpenAt(Opening(ts)[n - 1], ts, n)
<1> DEFINE N == Len(ts)
           D == SUBSET (1 .. N)
           G == [y \in (1 .. N) \X D |-> y[2] \cup OpenAt(y[2], ts, y[1])]
<1>1. \A n \in 1 .. N, o \in D : o \cup OpenAt(o, ts, n) \in D
  BY DEF OpenAt
<1>2. G \in [(1 .. N) \X D -> D] /\ \A n \in 1 .. N, o \in D : G[<<n, o>>] = o \cup OpenAt(o, ts, n)
  <2>1. \A y \in (1 .. N) \X D : y[1] \in 1 .. N /\ y[2] \in D
    OBVIOUS
  <2> HIDE DEF D
  <2> QED
    BY <1>1, <2>1
<1> HIDE DEF G
<1>3. PICK f \in [0 .. N -> D] : Follows(f, N, {}, G)
  <2>1. {} \in D
    OBVIOUS
  <2> HIDE DEF D
  <2> QED
    BY <2>1, <1>2, Recursion
<1>4. ASSUME NEW n \in 0 .. N
      PROVE  f[n] = IF n = 0 THEN {} ELSE f[n - 1] \cup OpenAt(f[n - 1], ts, n)
  <2>1. CASE n = 0
    BY <2>1, <1>3 DEF Follows
  <2>2. CASE n # 0
    <3>1. n \in 1 .. N /\ n - 1 \in 0 .. N
      BY <2>2
    <3>2. f[n - 1] \in D
      BY <3>1, <1>3
    <3> HIDE DEF D
    <3> QED
      BY <2>2, <3>1, <3>2, <1>2, <1>3 DEF Follows
  <2> QED
    BY <2>1, <2>2
<1>5. IsOpening(f, ts)
  BY <1>3, <1>4 DEF IsOpening
<1>6. IsOpening(Opening(ts), ts)
  BY <1>5 DEF Opening
<1>7. Openers(ts) = Opening(ts)[N]
  BY DEF Openers, Opening, IsOpening, OpenAt
<1>8. \A n \in 0 .. N : Opening(ts)[n] = IF n = 0 THEN {} ELSE Opening(ts)[n - 1] \cup OpenAt(Opening(ts)[n - 1], ts, n)
  BY <1>6 DEF IsOpening
<1>9. Opening(ts)[0] = {}
  <2>1. 0 \in 0 .. N
    OBVIOUS
  <2> QED
    BY <1>8, <2>1
<1>10. ASSUME NEW n \in 1 .. N
       PROVE  Opening(ts)[n] = Opening(ts)[n - 1] \cup OpenAt(Opening(ts)[n - 1], ts, n)
  <2>1. n \in 0 .. N /\ n # 0
    OBVIOUS
  <2> QED
    BY <1>8, <2>1
<1> QED
  BY <1>7, <1>9, <1>10

(* An IF opens a section exactly if all sections before it are over. *)
LEMMA OpenersAre ==
  ASSUME NEW ts, Len(ts) \in Nat
  PROVE  /\ Openers(ts) \subseteq 1 .. Len(ts)
         /\ \A q \in 1 .. Len(ts) :
              q \in Openers(ts) <=> /\ ts[q].opcode = "IF" /\ ~IsDefinition(ts[q])
                                    /\ \A p \in Openers(ts) : p < q => EndsBetween(ts, p, q)
<1> DEFINE N == Len(ts)
           h == Opening(ts)
           Holds == {m \in 0 .. N : h[m] \subseteq 1 .. m /\ \A n \in 0 .. m : h[n] = h[m] \cap (1 .. n)}
<1>1. /\ Openers(ts) = h[N] /\ h[0] = {}
      /\ \A n \in 1 .. N : h[n] = h[n - 1] \cup OpenAt(h[n - 1], ts, n)
  BY OpeningSteps
<1> HIDE DEF h
<1>2. 0 \in Holds
  BY <1>1
<1>3. ASSUME NEW m \in 1 .. N, m - 1 \in Holds PROVE m \in Holds
  <2>1. h[m - 1] \subseteq 1 .. m - 1 /\ \A n \in 0 .. m - 1 : h[n] = h[m - 1] \cap (1 .. n)
    BY <1>3
  <2>2. h[m] = h[m - 1] \cup OpenAt(h[m - 1], ts, m) /\ OpenAt(h[m - 1], ts, m) \subseteq {m}
    BY <1>1 DEF OpenAt
  <2>3. h[m] \subseteq 1 .. m
    BY <2>1, <2>2
  <2>4. ASSUME NEW n \in 0 .. m PROVE h[n] = h[m] \cap (1 .. n)
    <3>1. CASE n = m
      BY <3>1, <2>3
    <3>2. CASE n # m
      BY <3>2, <2>1, <2>2
    <3> QED
      BY <3>1, <3>2
  <2> QED
    BY <2>3, <2>4
<1>4. N \in Holds
  <2> HIDE DEF Holds
  <2>1. N \in 0 .. N
    OBVIOUS
  <2> QED
    BY <2>1, <1>2, <1>3, Induction
<1>5. ASSUME NEW q \in 1 .. N
      PROVE  q \in Openers(ts) <=> /\ ts[q].opcode = "IF" /\ ~IsDefinition(ts[q])
                                   /\ \A p \in Openers(ts) : p < q => EndsBetween(ts, p, q)
  <2>1. h[q] = Openers(ts) \cap (1 .. q) /\ h[q - 1] = Openers(ts) \cap (1 .. q - 1)
    BY <1>1, <1>4
  <2>2. h[q] = h[q - 1] \cup OpenAt(h[q - 1], ts, q)
    BY <1>1
  <2>3. q \in Openers(ts) <=> q \in OpenAt(h[q - 1], ts, q)
    <3>1. q \in 1 .. q /\ q \notin 1 .. q - 1
      OBVIOUS
    <3> QED
      BY ONLY <2>1, <2>2, <3>1
  <2>4. Openers(ts) \subseteq 1 .. N
    BY <1>1, <1>4
  <2>5. \A p : p \in h[q - 1] <=> p \in Openers(ts) /\ p < q
    BY <2>1, <2>4
  <2> QED
    BY <2>3, <2>5 DEF OpenAt
<1> QED
  BY <1>1, <1>4, <1>5

LEMMA OneSection ==
  ASSUME NEW ts, Len(ts) \in Nat, NEW q \in Int, NEW p \in SectionOf(ts, q)
  PROVE  SectionOf(ts, q) = {p}
<1>1. Openers(ts) \subseteq 1 .. Len(ts)
  BY OpenersAre
<1>2. ASSUME NEW a \in SectionOf(ts, q), NEW b \in SectionOf(ts, q), a < b PROVE FALSE
  <2>1. a \in Openers(ts) /\ b \in Openers(ts) /\ b < q /\ ~EndsBetween(ts, a, q)
    BY DEF SectionOf
  <2>2. EndsBetween(ts, a, b)
    BY <2>1, <1>1, <1>2, OpenersAre
  <2> QED
    BY <2>1, <2>2, <1>1 DEF EndsBetween
<1>3. \A a \in SectionOf(ts, q) : a \in Int
  BY <1>1 DEF SectionOf
<1> QED
  BY <1>2, <1>3

LEMMA SectionStep ==
  ASSUME NEW ts, Len(ts) \in Nat, NEW q \in 1 .. Len(ts)
  PROVE  /\ SectionOf(ts, q + 1) = (IF ts[q].opcode = "ENDIF" THEN {} ELSE SectionOf(ts, q))
                                     \cup (Openers(ts) \cap {q})
         /\ q \in Openers(ts) <=> /\ ts[q].opcode = "IF" /\ ~IsDefinition(ts[q])
                                  /\ SectionOf(ts, q) = {}
<1>1. /\ Openers(ts) \subseteq 1 .. Len(ts)
      /\ q \in Openers(ts) <=> /\ ts[q].opcode = "IF" /\ ~IsDefinition(ts[q])
                               /\ \A p \in Openers(ts) : p < q => EndsBetween(ts, p, q)
  BY OpenersAre
<1>2. ASSUME NEW p \in Openers(ts), p < q
      PROVE  EndsBetween(ts, p, q + 1) <=> EndsBetween(ts, p, q) \/ ts[q].opcode = "ENDIF"
  BY <1>1, <1>2 DEF EndsBetween
<1>3. ~EndsBetween(ts, q, q + 1)
  BY DEF EndsBetween
<1>4. \A p \in Openers(ts) : p < q + 1 <=> p < q \/ p = q
  BY <1>1
<1>5. ASSUME NEW p
      PROVE  p \in SectionOf(ts, q + 1)
               <=> \/ p \in SectionOf(ts, q) /\ ts[q].opcode # "ENDIF"
                   \/ p = q /\ q \in Openers(ts)
  BY <1>1, <1>2, <1>3, <1>4 DEF SectionOf
<1> QED
  BY <1>1, <1>5 DEF SectionOf

LEMMA FirstSection == ASSUME NEW ts, Len(ts) \in Nat PROVE SectionOf(ts, 1) = {}
BY OpenersAre DEF SectionOf
-----------------------------------------------------------------------------
(* The meanings of the texts.                                              *)
MeansOn(m, ts, n) ==
  [s \in TextsIn(ts) |->
     IF n \in Definitions(ts) /\ s = ts[n].opcode THEN m[Argument(ts[n], 2).sv] ELSE m[s]]
IsMeanings(f, ts) ==
  f = [n \in 0 .. Len(ts) |->
         [s \in TextsIn(ts) |->
            IF n = 0 THEN s
            ELSE IF n \in Definitions(ts) /\ s = ts[n].opcode THEN f[n - 1][Argument(ts[n], 2).sv]
            ELSE f[n - 1][s]]]

LEMMA TextOfArgument ==
  ASSUME NEW ts, NEW n \in DOMAIN ts, NEW k
  PROVE  /\ Argument(ts[n], k).sv \in TextsIn(ts) /\ ts[n].opcode \in TextsIn(ts)
         /\ k \in DOMAIN ts[n].args => ts[n].args[k].sv \in TextsIn(ts)
BY DEF Argument, NoArgument, TextsIn

LEMMA MeaningsSteps ==
  ASSUME NEW ts, Len(ts) \in Nat, DOMAIN ts = 1 .. Len(ts)
  PROVE  /\ Meanings(ts) \in [0 .. Len(ts) -> [TextsIn(ts) -> TextsIn(ts)]]
         /\ \A s \in TextsIn(ts) : Meanings(ts)[0][s] = s
         /\ \A n \in 1 .. Len(ts) : Meanings(ts)[n] = MeansOn(Meanings(ts)[n - 1], ts, n)
<1> DEFINE N == Len(ts)
           T == TextsIn(ts)
           D == [T -> T]
           first == [s \in T |-> s]
           G == [y \in (1 .. N) \X D |-> MeansOn(y[2], ts, y[1])]
<1>1. ASSUME NEW n \in 1 .. N, NEW m \in D PROVE MeansOn(m, ts, n) \in D
  <2>1. Argument(ts[n], 2).sv \in T
    BY TextOfArgument
  <2> HIDE DEF T
  <2> QED
    BY <2>1 DEF MeansOn, T
<1>2. first \in D
  OBVIOUS
<1> HIDE DEF D
<1>3. G \in [(1 .. N) \X D -> D] /\ \A n \in 1 .. N, m \in D : G[<<n, m>>] = MeansOn(m, ts, n)
  <2>1. \A y \in (1 .. N) \X D : y[1] \in 1 .. N /\ y[2] \in D
    OBVIOUS
  <2> QED
    BY <1>1, <2>1
<1> HIDE DEF G, first
<1>4. PICK f \in [0 .. N -> D] : Follows(f, N, first, G)
  BY <1>2, <1>3, Recursion
<1>5. \A n \in 1 .. N : f[n] = MeansOn(f[n - 1], ts, n)
  <2> SUFFICES ASSUME NEW n \in 1 .. N PROVE f[n] = MeansOn(f[n - 1], ts, n)
    OBVIOUS
  <2>1. n - 1 \in 0 .. N
    OBVIOUS
  <2>2. f[n - 1] \in D
    BY <2>1, <1>4
  <2> QED
    BY <2>2, <1>3, <1>4 DEF Follows
<1>6. f[0] = first
  BY <1>4 DEF Follows
<1>7. ASSUME NEW n \in 0 .. N
      PROVE  f[n] = [s \in T |->
               IF n = 0 THEN s
               ELSE IF n \in Definitions(ts) /\ s = ts[n].opcode THEN f[n - 1][Argument(ts[n], 2).sv]
               ELSE f[n - 1][s]]
  <2>1. CASE n = 0
    BY <2>1, <1>6 DEF first
  <2>2. CASE n # 0
    BY <2>2, <1>5 DEF MeansOn
  <2> QED
    BY <2>1, <2>2
<1>8. IsMeanings(f, ts)
  BY <1>4, <1>7 DEF IsMeanings
<1>9. Meanings(ts) = CHOOSE h : IsMeanings(h, ts)
  BY DEF Meanings, IsMeanings
<1> DEFINE h == Meanings(ts)
<1>10. IsMeanings(h, ts)
  BY <1>8, <1>9
<1> HIDE DEF h
<1>11. h[0] = first
  <2>1. 0 \in 0 .. N
    OBVIOUS
  <2> QED
    BY <2>1, <1>10 DEF IsMeanings, first
<1>12. ASSUME NEW n \in 1 .. N PROVE h[n] = MeansOn(h[n - 1], ts, n)
  <2>1. n \in 0 .. N /\ n # 0
    OBVIOUS
  <2> QED
    BY <2>1, <1>10 DEF IsMeanings, MeansOn
<1> DEFINE Holds == {n \in 0 .. N : h[n] \in D}
<1>13. 0 \in Holds
  BY <1>2, <1>11
<1>14. ASSUME NEW n \in 1 .. N, n - 1 \in Holds PROVE n \in Holds
  BY <1>1, <1>12, <1>14
<1>15. \A n \in 0 .. N : h[n] \in D
  <2> HIDE DEF Holds
  <2>1. \A n \in 0 .. N : n \in Holds
    BY <1>13, <1>14, Induction
  <2> QED
    BY <2>1 DEF Holds
<1>16. h = [n \in 0 .. N |-> h[n]]
  <2>1. h = [n \in 0 .. N |->
         [s \in TextsIn(ts) |->
            IF n = 0 THEN s
            ELSE IF n \in Definitions(ts) /\ s = ts[n].opcode THEN h[n - 1][Argument(ts[n], 2).sv]
            ELSE h[n - 1][s]]]
    BY <1>10 DEF IsMeanings
  <2> QED
    BY <2>1
<1>17. h \in [0 .. N -> D]
  BY <1>15, <1>16
<1> QED
  BY <1>11, <1>12, <1>17 DEF h, D, first

LEMMA MeaningSteps ==
  ASSUME NEW ts, Len(ts) \in Nat, DOMAIN ts = 1 .. Len(ts), NEW s \in TextsIn(ts)
  PROVE  /\ Meaning(ts, 1, s) = s
         /\ \A q \in 1 .. Len(ts) :
              /\ Meaning(ts, q, s) \in TextsIn(ts)
              /\ Meaning(ts, q + 1, s) = IF q \in Definitions(ts) /\ s = ts[q].opcode
                                         THEN Meaning(ts, q, Argument(ts[q], 2).sv)
                                         ELSE Meaning(ts, q, s)
<1> DEFINE h == Meanings(ts)
<1>1. /\ h \in [0 .. Len(ts) -> [TextsIn(ts) -> TextsIn(ts)]] /\ h[0][s] = s
      /\ \A n \in 1 .. Len(ts) : h[n] = MeansOn(h[n - 1], ts, n)
  BY MeaningsSteps
<1>2. \A q, x : Meaning(ts, q, x) = h[q - 1][x]
  BY DEF Meaning
<1> HIDE DEF h
<1>3. Meaning(ts, 1, s) = s
  BY <1>1, <1>2
<1>4. ASSUME NEW q \in 1 .. Len(ts)
      PROVE  /\ Meaning(ts, q, s) \in TextsIn(ts)
             /\ Meaning(ts, q + 1, s) = IF q \in Definitions(ts) /\ s = ts[q].opcode
                                        THEN Meaning(ts, q, Argument(ts[q], 2).sv)
                                        ELSE Meaning(ts, q, s)
  <2>1. q - 1 \in 0 .. Len(ts) /\ (q + 1) - 1 = q
    OBVIOUS
  <2>2. h[q - 1] \in [TextsIn(ts) -> TextsIn(ts)] /\ h[q] = MeansOn(h[q - 1], ts, q)
    BY <2>1, <1>1
  <2>3. Meaning(ts, q, s) \in TextsIn(ts)
    BY <2>2, <1>2
  <2>4. Meaning(ts, q + 1, s) = h[q][s]
    BY <2>1, <1>2
  <2> QED
    BY <2>2, <2>3, <2>4, <1>2 DEF MeansOn
<1> QED
  BY <1>3, <1>4
(* If every name is defined once, directives and the empty text stand for  *)
(* themselves, no other text stands for one of them, and a name stands for *)
(* itself up to its definition.                                            *)
Reserved == Directives \cup {NoText}
StandsFair(ts, q) ==
  \A s \in TextsIn(ts) :
    /\ s \in Reserved => Meaning(ts, q, s) = s
    /\ s \notin Reserved => Meaning(ts, q, s) \notin Reserved
    /\ (\A p \in Definitions(ts) : p < q => ts[p].opcode # s) => Meaning(ts, q, s) = s

LEMMA MeaningsFair ==
  ASSUME NEW ts, Len(ts) \in Nat, DOMAIN ts = 1 .. Len(ts), DefinedOnce(ts)
  PROVE  \A q \in 1 .. Len(ts) + 1 : StandsFair(ts, q)
<1> DEFINE N == Len(ts)
           Holds == {n \in 0 .. N : StandsFair(ts, n + 1)}
<1>1. 0 \in Holds
  <2>1. \A s \in TextsIn(ts) : Meaning(ts, 1, s) = s
    BY MeaningSteps
  <2> QED
    BY <2>1 DEF StandsFair
<1>2. ASSUME NEW n \in 1 .. N, n - 1 \in Holds PROVE n \in Holds
  <2>1. StandsFair(ts, n)
    <3>1. (n - 1) + 1 = n
      OBVIOUS
    <3> QED
      BY <1>2, <3>1
  <2>2. SUFFICES ASSUME NEW s \in TextsIn(ts)
                 PROVE  /\ s \in Reserved => Meaning(ts, n + 1, s) = s
                        /\ s \notin Reserved => Meaning(ts, n + 1, s) \notin Reserved
                        /\ (\A p \in Definitions(ts) : p < n + 1 => ts[p].opcode # s) => Meaning(ts, n + 1, s) = s
    BY DEF StandsFair
  <2>3. Meaning(ts, n + 1, s) = IF n \in Definitions(ts) /\ s = ts[n].opcode
                                THEN Meaning(ts, n, Argument(ts[n], 2).sv)
                                ELSE Meaning(ts, n, s)
    BY MeaningSteps
  <2>4. CASE n \in Definitions(ts) /\ s = ts[n].opcode
    <3>1. s \notin Directives /\ Argument(ts[n], 2).sv \notin Reserved
      BY <2>4 DEF DefinedOnce, Reserved
    <3>2. s # NoText
      BY <2>4 DEF Definitions
    <3>3. Argument(ts[n], 2).sv \in TextsIn(ts)
      BY TextOfArgument
    <3>4. Meaning(ts, n, Argument(ts[n], 2).sv) \notin Reserved
      BY <2>1, <3>1, <3>3 DEF StandsFair
    <3>5. n < n + 1
      OBVIOUS
    <3> QED
      BY <2>3, <2>4, <3>1, <3>2, <3>4, <3>5 DEF Reserved
  <2>5. CASE ~(n \in Definitions(ts) /\ s = ts[n].opcode)
    <3>1. \A p \in Definitions(ts) : p < n + 1 <=> p < n \/ p = n
      BY DEF Definitions
    <3> QED
      BY <2>1, <2>3, <2>5, <3>1 DEF StandsFair
  <2> QED
    BY <2>4, <2>5
<1>3. ASSUME NEW q \in 1 .. N + 1 PROVE StandsFair(ts, q)
  <2>1. q - 1 \in 0 .. N /\ (q - 1) + 1 = q
    OBVIOUS
  <2>2. \A n \in 0 .. N : n \in Holds
    <3> HIDE DEF Holds
    <3> QED
      BY <1>1, <1>2, Induction
  <2> QED
    BY <2>1, <2>2
<1> QED
  BY <1>3

(* So a token is the same directive, or the same definition, before and    *)
(* after its texts are replaced.                                           *)
LEMMA ArgumentExpanded ==
  ASSUME NEW ts, DefinedOnce(ts), Len(ts) \in Nat, DOMAIN ts = 1 .. Len(ts),
         NEW q \in 1 .. Len(ts), NEW k
  PROVE  Argument(Expanded(ts, q), k).sv = Meaning(ts, q, Argument(ts[q], k).sv)
<1>1. CASE k \in DOMAIN ts[q].args
  BY <1>1 DEF Argument, Expanded
<1>2. CASE k \notin DOMAIN ts[q].args
  <2>1. Argument(Expanded(ts, q), k).sv = NoText /\ Argument(ts[q], k).sv = NoText
    BY <1>2 DEF Argument, Expanded, NoArgument
  <2>2. StandsFair(ts, q) /\ NoText \in TextsIn(ts)
    BY MeaningsFair DEF TextsIn
  <2> QED
    BY <2>1, <2>2 DEF StandsFair, Reserved
<1> QED
  BY <1>1, <1>2

LEMMA DirectiveExpanded ==
  ASSUME NEW ts, DefinedOnce(ts), Len(ts) \in Nat, DOMAIN ts = 1 .. Len(ts),
         NEW q \in 1 .. Len(ts)
  PROVE  /\ \A d \in Reserved : Expanded(ts, q).opcode = d <=> ts[q].opcode = d
         /\ Argument(Expanded(ts, q), 1).sv \in {"EQU", "SET"} <=> IsDefinition(ts[q])
<1>1. StandsFair(ts, q)
  BY MeaningsFair
<1>2. ts[q].opcode \in TextsIn(ts) /\ Argument(ts[q], 1).sv \in TextsIn(ts)
  BY TextOfArgument
<1>3. \A s \in TextsIn(ts), d \in Reserved : Meaning(ts, q, s) = d <=> s = d
  BY <1>1 DEF StandsFair
<1>4. Expanded(ts, q).opcode = Meaning(ts, q, ts[q].opcode)
  BY DEF Expanded
<1>5. Argument(Expanded(ts, q), 1).sv = Meaning(ts, q, Argument(ts[q], 1).sv)
  BY ArgumentExpanded
<1>6. "EQU" \in Reserved /\ "SET" \in Reserved
  BY DEF Reserved, Directives
<1> QED
  BY <1>2, <1>3, <1>4, <1>5, <1>6 DEF IsDefinition

-----------------------------------------------------------------------------
(* The expansion, and the tokens of a text, by their prefixes.             *)
LeftOn(l, ts, n) == IF Remains(ts, n) THEN Append(l, Expanded(ts, n)) ELSE l
IsLeft(f, ts) == f = [n \in 0 .. Len(ts) |-> IF n = 0 THEN <<>> ELSE LeftOn(f[n - 1], ts, n)]
Left(ts) == CHOOSE f : IsLeft(f, ts)

LEMMA LeftSteps ==
  ASSUME NEW ts, Len(ts) \in Nat, NEW E, \A n \in 1 .. Len(ts) : Expanded(ts, n) \in E
  PROVE  /\ Expansion(ts) = Left(ts)[Len(ts)]
         /\ \A n \in 0 .. Len(ts) : Left(ts)[n] \in Seq(E)
         /\ Left(ts)[0] = <<>>
         /\ \A n \in 1 .. Len(ts) : Left(ts)[n] = LeftOn(Left(ts)[n - 1], ts, n)
<1> DEFINE N == Len(ts)
           D == Seq(E)
           G == [y \in (1 .. N) \X D |-> LeftOn(y[2], ts, y[1])]
<1>1. ASSUME NEW n \in 1 .. N, NEW l \in D PROVE LeftOn(l, ts, n) \in D
  BY DEF LeftOn
<1>2. <<>> \in D
  OBVIOUS
<1> HIDE DEF D
<1>3. G \in [(1 .. N) \X D -> D] /\ \A n \in 1 .. N, l \in D : G[<<n, l>>] = LeftOn(l, ts, n)
  <2>1. \A y \in (1 .. N) \X D : y[1] \in 1 .. N /\ y[2] \in D
    OBVIOUS
  <2> QED
    BY <1>1, <2>1
<1> HIDE DEF G
<1>4. PICK f \in [0 .. N -> D] : Follows(f, N, <<>>, G)
  BY <1>2, <1>3, Recursion
<1>5. ASSUME NEW n \in 1 .. N PROVE f[n] = LeftOn(f[n - 1], ts, n)
  <2>1. n - 1 \in 0 .. N
    OBVIOUS
  <2>2. f[n - 1] \in D
    BY <2>1, <1>4
  <2> QED
    BY <2>2, <1>3, <1>4 DEF Follows
<1>6. f[0] = <<>>
  BY <1>4 DEF Follows
<1>7. \A n \in 0 .. N : f[n] = IF n = 0 THEN <<>> ELSE LeftOn(f[n - 1], ts, n)
  BY <1>5, <1>6
<1>8. IsLeft(f, ts)
  BY <1>4, <1>7 DEF IsLeft
<1>9. Expansion(ts) = Left(ts)[N]
  BY DEF Expansion, Left, IsLeft, LeftOn
<1> DEFINE h == Left(ts)
<1>10. IsLeft(h, ts)
  BY <1>8 DEF Left
<1> HIDE DEF h
<1>11. h[0] = <<>>
  <2>1. 0 \in 0 .. N
    OBVIOUS
  <2> QED
    BY <2>1, <1>10 DEF IsLeft
<1>12. ASSUME NEW n \in 1 .. N PROVE h[n] = LeftOn(h[n - 1], ts, n)
  <2>1. n \in 0 .. N /\ n # 0
    OBVIOUS
  <2> QED
    BY <2>1, <1>10 DEF IsLeft
<1> DEFINE Holds == {n \in 0 .. N : h[n] \in D}
<1>13. 0 \in Holds
  BY <1>2, <1>11
<1>14. ASSUME NEW n \in 1 .. N, n - 1 \in Holds PROVE n \in Holds
  BY <1>1, <1>12, <1>14
<1>15. \A n \in 0 .. N : h[n] \in D
  <2> HIDE DEF Holds
  <2>1. \A n \in 0 .. N : n \in Holds
    BY <1>13, <1>14, Induction
  <2> QED
    BY <2>1 DEF Holds
<1> QED
  BY <1>9, <1>11, <1>12, <1>15 DEF h, D

ReadLine(ts, l) == IF P!next_token(l).accepted THEN Append(ts, P!next_token(l).token) ELSE ts
IsLines(f, lines) == f = [n \in 0 .. Len(lines) |-> IF n = 0 THEN <<>> ELSE ReadLine(f[n - 1], lines[n])]
LinesRead(lines) == CHOOSE f : IsLines(f, lines)

LEMMA LinesSteps ==
  ASSUME NEW lines \in Seq(Seq(P!Lexeme))
  PROVE  /\ ParsedTokens(lines) = LinesRead(lines)[Len(lines)]
         /\ \A n \in 0 .. Len(lines) : LinesRead(lines)[n] \in Seq(TokenType)
         /\ LinesRead(lines)[0] = <<>>
         /\ \A n \in 1 .. Len(lines) : LinesRead(lines)[n] = ReadLine(LinesRead(lines)[n - 1], lines[n])
<1> DEFINE N == Len(lines)
           D == Seq(TokenType)
           G == [y \in (1 .. N) \X D |-> ReadLine(y[2], lines[y[1]])]
<1>0. N \in Nat
  OBVIOUS
<1>1. ASSUME NEW n \in 1 .. N, NEW l \in D PROVE ReadLine(l, lines[n]) \in D
  <2>1. AcceptedTyped(P!next_token(lines[n]))
    BY TokenOfLine
  <2> QED
    BY <2>1 DEF ReadLine, AcceptedTyped
<1>2. <<>> \in D
  OBVIOUS
<1> HIDE DEF D, N
<1>3. G \in [(1 .. N) \X D -> D] /\ \A n \in 1 .. N, l \in D : G[<<n, l>>] = ReadLine(l, lines[n])
  <2>1. \A y \in (1 .. N) \X D : y[1] \in 1 .. N /\ y[2] \in D
    OBVIOUS
  <2> QED
    BY <1>1, <2>1
<1> HIDE DEF G
<1>4. PICK f \in [0 .. N -> D] : Follows(f, N, <<>>, G)
  BY <1>0, <1>2, <1>3, Recursion
<1>5. ASSUME NEW n \in 1 .. N PROVE f[n] = ReadLine(f[n - 1], lines[n])
  <2>1. n - 1 \in 0 .. N
    BY <1>0
  <2>2. f[n - 1] \in D
    BY <2>1, <1>4
  <2> QED
    BY <2>2, <1>3, <1>4 DEF Follows
<1>6. f[0] = <<>>
  BY <1>4 DEF Follows
<1>7. \A n \in 0 .. N : f[n] = IF n = 0 THEN <<>> ELSE ReadLine(f[n - 1], lines[n])
  BY <1>0, <1>5, <1>6
<1>8. IsLines(f, lines)
  BY <1>4, <1>7 DEF IsLines, N
<1>9. ParsedTokens(lines) = LinesRead(lines)[N]
  BY DEF ParsedTokens, LinesRead, IsLines, ReadLine, N
<1> DEFINE h == LinesRead(lines)
<1>10. IsLines(h, lines)
  BY <1>8 DEF LinesRead
<1> HIDE DEF h
<1>11. h[0] = <<>>
  <2>1. 0 \in 0 .. N
    BY <1>0
  <2> QED
    BY <2>1, <1>10 DEF IsLines, N
<1>12. ASSUME NEW n \in 1 .. N PROVE h[n] = ReadLine(h[n - 1], lines[n])
  <2>1. n \in 0 .. N /\ n # 0
    BY <1>0
  <2> QED
    BY <2>1, <1>10 DEF IsLines, N
<1> DEFINE Holds == {n \in 0 .. N : h[n] \in D}
<1>13. 0 \in Holds
  BY <1>0, <1>2, <1>11
<1>14. ASSUME NEW n \in 1 .. N, n - 1 \in Holds PROVE n \in Holds
  BY <1>0, <1>1, <1>12, <1>14
<1>15. \A n \in 0 .. N : h[n] \in D
  <2> HIDE DEF Holds
  <2>1. \A n \in 0 .. N : n \in Holds
    BY <1>0, <1>13, <1>14, Induction
  <2> QED
    BY <2>1 DEF Holds
<1> QED
  BY <1>9, <1>11, <1>12, <1>15 DEF h, D, N
-----------------------------------------------------------------------------
(* The sweep of the pre-pass stands at token q of the text: what is before *)
(* it is the expansion so far, what is behind it is untouched, each text   *)
(* is found as what it means at q, and if_list tells of the section of q.  *)
FoundIn(subs, s) ==
  LET hits == {i \in DOMAIN subs : subs[i].from = s} IN IF hits = {} THEN s ELSE subs[Min(hits)].to
Rest(ts, q) == SubSeq(ts, q, Len(ts))

PlaceIs(ts, q)   == index = Len(Left(ts)[q - 1]) + 1 /\ tokens = Left(ts)[q - 1] \o Rest(ts, q)
NamesAre(ts, q)  == /\ substitutes \in Seq(Entry)
                    /\ \A i \in DOMAIN substitutes :
                         \E p \in Definitions(ts) : p < q /\ substitutes[i].from = ts[p].opcode
                    /\ \A s \in TextsIn(ts) : FoundIn(substitutes, s) = Meaning(ts, q, s)
Dropped(ts, p)   == parse_immediate(Argument(Expanded(ts, p), 1).sv) = 0
SectionIs(ts, q) == if_list \in Seq(BOOLEAN)
                    /\ \/ SectionOf(ts, q) = {} /\ if_list = <<>>
                       \/ \E p \in SectionOf(ts, q) : if_list = <<Dropped(ts, p)>>
SweepAt(ts, q)   == PlaceIs(ts, q) /\ NamesAre(ts, q) /\ SectionIs(ts, q)

TextOf(ts) == ts \in Seq(TokenType) /\ DefinedOnce(ts)

LEMMA FoundIs ==
  ASSUME substitutes \in Seq(Entry), NEW s
  PROVE  S!find_substitute(s) = FoundIn(substitutes, s)
<1> DEFINE hits == {i \in DOMAIN substitutes : substitutes[i].from = s}
<1>1. S!find_substitute_index(s) = IF hits = {} THEN 0 ELSE Min(hits)
  BY SameMin DEF S!find_substitute_index
<1>2. FoundIn(substitutes, s) = IF hits = {} THEN s ELSE substitutes[Min(hits)].to
  BY DEF FoundIn
<1>3. hits # {} => Min(hits) # 0
  <2>1. hits \in SUBSET Nat /\ 0 \notin hits
    OBVIOUS
  <2> HIDE DEF hits
  <2> QED
    BY <2>1, LeastOfNats
<1> HIDE DEF hits
<1> QED
  BY <1>1, <1>2, <1>3 DEF S!find_substitute

(* Removing and replacing the first element behind a seam. *)
LEMMA JoinedRead ==
  ASSUME NEW T, NEW a \in Seq(T), NEW b \in Seq(T)
  PROVE  /\ a \o b \in Seq(T) /\ Len(a \o b) = Len(a) + Len(b)
         /\ \A k \in 1 .. Len(a) : (a \o b)[k] = a[k]
         /\ \A k \in 1 .. Len(b) : (a \o b)[Len(a) + k] = b[k]
OBVIOUS

LEMMA SeamRemoved ==
  ASSUME NEW T, NEW a \in Seq(T), NEW b \in Seq(T), b # <<>>
  PROVE  S!RemoveAt(a \o b, Len(a) + 1) = a \o Tail(b)
<1>1. /\ a \o b \in Seq(T) /\ Len(a \o b) = Len(a) + Len(b)
      /\ \A k \in 1 .. Len(a) : (a \o b)[k] = a[k]
      /\ \A k \in 1 .. Len(b) : (a \o b)[Len(a) + k] = b[k]
  BY JoinedRead
<1>2. Len(a) \in Nat /\ Len(b) \in Nat /\ Len(b) >= 1
  OBVIOUS
<1>3. Tail(b) \in Seq(T) /\ Len(Tail(b)) = Len(b) - 1 /\ \A k \in 1 .. Len(b) - 1 : Tail(b)[k] = b[k + 1]
  OBVIOUS
<1> DEFINE s == a \o b
           c == Tail(b)
<1> HIDE DEF s, c
<1>4. /\ s \in Seq(T) /\ Len(s) = Len(a) + Len(b)
      /\ \A k \in 1 .. Len(a) : s[k] = a[k]
      /\ \A k \in 1 .. Len(b) : s[Len(a) + k] = b[k]
  BY <1>1 DEF s
<1>5. c \in Seq(T) /\ Len(c) = Len(b) - 1 /\ \A k \in 1 .. Len(b) - 1 : c[k] = b[k + 1]
  BY <1>3 DEF c
<1>6. SubSeq(s, 1, (Len(a) + 1) - 1) = a
  BY <1>2, <1>4
<1>7. SubSeq(s, (Len(a) + 1) + 1, Len(s)) = c
  <2> DEFINE m == (Len(a) + 1) + 1
             d == SubSeq(s, m, Len(s))
  <2>0. m \in Nat \ {0} /\ Len(s) \in Nat /\ m <= Len(s) + 1 /\ Len(s) - m + 1 = Len(b) - 1
        /\ \A k \in Int : m + k - 1 = Len(a) + (k + 1)
    BY <1>2, <1>4
  <2> HIDE DEF m
  <2>1. d \in Seq(T) /\ Len(d) = Len(s) - m + 1 /\ \A k \in 1 .. Len(s) - m + 1 : d[k] = s[m + k - 1]
    BY ONLY <1>4, <2>0
  <2> HIDE DEF d
  <2>2. \A k \in 1 .. Len(b) - 1 : k + 1 \in 1 .. Len(b)
    BY <1>2
  <2>3. ASSUME NEW k \in 1 .. Len(b) - 1 PROVE d[k] = c[k]
    <3>1. k \in 1 .. Len(s) - m + 1 /\ m + k - 1 = Len(a) + (k + 1)
      BY <2>0
    <3>2. d[k] = s[Len(a) + (k + 1)]
      BY <2>1, <3>1
    <3> QED
      BY <1>4, <1>5, <2>2, <3>2
  <2> QED
    BY ONLY <1>2, <1>5, <2>0, <2>1, <2>3, SeqEqual DEF d, m
<1> QED
  BY ONLY <1>6, <1>7 DEF S!RemoveAt, s, c

LEMMA SeamReplaced ==
  ASSUME NEW T, NEW a \in Seq(T), NEW b \in Seq(T), b # <<>>, NEW x \in T
  PROVE  [a \o b EXCEPT ![Len(a) + 1] = x] = Append(a, x) \o Tail(b)
<1>1. /\ a \o b \in Seq(T) /\ Len(a \o b) = Len(a) + Len(b)
      /\ \A k \in 1 .. Len(a) : (a \o b)[k] = a[k]
      /\ \A k \in 1 .. Len(b) : (a \o b)[Len(a) + k] = b[k]
  BY JoinedRead
<1>2. Len(a) \in Nat /\ Len(b) \in Nat /\ Len(b) >= 1
  OBVIOUS
<1>3. Tail(b) \in Seq(T) /\ Len(Tail(b)) = Len(b) - 1 /\ \A k \in 1 .. Len(b) - 1 : Tail(b)[k] = b[k + 1]
  OBVIOUS
<1>4. /\ Append(a, x) \in Seq(T) /\ Len(Append(a, x)) = Len(a) + 1 /\ Append(a, x)[Len(a) + 1] = x
      /\ \A k \in 1 .. Len(a) : Append(a, x)[k] = a[k]
  OBVIOUS
<1> DEFINE s == a \o b
           c == Tail(b)
           ax == Append(a, x)
           u == [s EXCEPT ![Len(a) + 1] = x]
           v == ax \o c
<1> HIDE DEF s, c, ax, u, v
<1>5. /\ v \in Seq(T) /\ Len(v) = Len(a) + Len(b)
      /\ \A k \in 1 .. Len(a) + 1 : v[k] = ax[k]
      /\ \A k \in 1 .. Len(c) : v[Len(ax) + k] = c[k]
  <2>1. ax \in Seq(T) /\ c \in Seq(T) /\ Len(ax) = Len(a) + 1 /\ Len(c) = Len(b) - 1
    BY <1>3, <1>4 DEF ax, c
  <2>2. /\ v \in Seq(T) /\ Len(v) = Len(ax) + Len(c)
        /\ \A k \in 1 .. Len(ax) : v[k] = ax[k]
        /\ \A k \in 1 .. Len(c) : v[Len(ax) + k] = c[k]
    <3>1. ax \in Seq(T) /\ c \in Seq(T)
      BY <2>1
    <3> QED
      BY ONLY <3>1 DEF v
  <2> QED
    BY ONLY <1>2, <2>1, <2>2
<1>6. /\ u \in Seq(T) /\ Len(u) = Len(a) + Len(b) /\ u[Len(a) + 1] = x
      /\ \A k \in 1 .. Len(a) + Len(b) : k # Len(a) + 1 => u[k] = s[k]
  <2>1. s \in Seq(T) /\ Len(s) = Len(a) + Len(b) /\ Len(a) + 1 \in 1 .. Len(s) /\ x \in T
    BY <1>1, <1>2 DEF s
  <2> QED
    <3> DEFINE m == Len(a) + 1
    <3>1. m \in 1 .. Len(s)
      BY <2>1
    <3> HIDE DEF m
    <3> QED
      BY ONLY <2>1, <3>1, ExceptSeq DEF u, m
<1>7. ASSUME NEW k \in 1 .. Len(a) + Len(b) PROVE u[k] = v[k]
  <2>1. CASE k <= Len(a)
    <3>1. k \in 1 .. Len(a) /\ k \in 1 .. Len(a) + 1 /\ k # Len(a) + 1
      BY <1>2, <2>1
    <3> QED
      BY <1>1, <1>4, <1>5, <1>6, <3>1 DEF s, ax
  <2>2. CASE k = Len(a) + 1
    <3>1. k \in 1 .. Len(a) + 1
      BY <1>2, <2>2
    <3> QED
      BY <1>4, <1>5, <1>6, <2>2, <3>1 DEF ax
  <2>3. CASE k > Len(a) + 1
    <3> DEFINE j == k - (Len(a) + 1)
    <3>1. j \in 1 .. Len(b) - 1 /\ j + 1 \in 1 .. Len(b) /\ Len(a) + (j + 1) = k /\ (Len(a) + 1) + j = k
      BY <1>2, <2>3
    <3> HIDE DEF j
    <3>2. s[k] = b[j + 1]
      BY <1>1, <3>1 DEF s
    <3>3. v[k] = c[j] /\ c[j] = b[j + 1]
      <4>1. Len(ax) = Len(a) + 1 /\ Len(c) = Len(b) - 1
        BY <1>3, <1>4 DEF ax, c
      <4> QED
        BY <1>3, <1>5, <3>1, <4>1 DEF c
    <3> QED
      BY <1>2, <1>6, <2>3, <3>2, <3>3
  <2> QED
    BY <1>2, <2>1, <2>2, <2>3
<1>8. u = v
  BY ONLY <1>5, <1>6, <1>7, SeqEqual
<1> QED
  BY <1>8 DEF u, v, s, c, ax

LEMMA RestSteps ==
  ASSUME NEW T, NEW ts \in Seq(T), NEW q \in 1 .. Len(ts)
  PROVE  LET r == Rest(ts, q) IN
         /\ r \in Seq(T) /\ r # <<>> /\ r[1] = ts[q]
         /\ Tail(r) = Rest(ts, q + 1)
<1> DEFINE r == SubSeq(ts, q, Len(ts))
           c == SubSeq(ts, q + 1, Len(ts))
<1>1. Len(ts) \in Nat
  OBVIOUS
<1>2. r \in Seq(T) /\ Len(r) = Len(ts) - q + 1 /\ \A k \in 1 .. Len(ts) - q + 1 : r[k] = ts[q + k - 1]
  OBVIOUS
<1>3. c \in Seq(T) /\ Len(c) = Len(ts) - q /\ \A k \in 1 .. Len(ts) - q : c[k] = ts[q + k]
  OBVIOUS
<1> HIDE DEF r, c
<1>4. r # <<>> /\ r[1] = ts[q]
  <2>1. 1 \in 1 .. Len(ts) - q + 1 /\ q + 1 - 1 = q
    BY <1>1
  <2> QED
    BY <1>1, <1>2, <2>1
<1>5. Tail(r) \in Seq(T) /\ Len(Tail(r)) = Len(ts) - q /\ \A k \in 1 .. Len(ts) - q : Tail(r)[k] = r[k + 1]
  BY <1>1, <1>2, <1>4
<1>6. ASSUME NEW k \in 1 .. Len(ts) - q PROVE Tail(r)[k] = c[k]
  <2>1. k + 1 \in 1 .. Len(ts) - q + 1 /\ q + (k + 1) - 1 = q + k
    BY <1>1
  <2> QED
    BY <1>2, <1>3, <1>5, <2>1
<1> DEFINE d == Tail(r)
<1> HIDE DEF d
<1>7. d = c
  <2>1. d \in Seq(T) /\ c \in Seq(T) /\ Len(d) = Len(c) /\ \A k \in 1 .. Len(d) : d[k] = c[k]
    BY <1>3, <1>5, <1>6 DEF d
  <2> QED
    BY ONLY <2>1, SeqEqual
<1> QED
  BY <1>2, <1>4, <1>7 DEF r, c, d, Rest

LEMMA AtTheSeam ==
  ASSUME NEW T, NEW a \in Seq(T), NEW ts \in Seq(T), NEW q \in 1 .. Len(ts)
  PROVE  LET s == a \o Rest(ts, q)
             n == Len(a) + 1
         IN  /\ n \in 1 .. Len(s) /\ s[n] = ts[q]
             /\ S!RemoveAt(s, n) = a \o Rest(ts, q + 1)
<1> DEFINE b == Rest(ts, q)
<1>1. b \in Seq(T) /\ b # <<>> /\ b[1] = ts[q] /\ Tail(b) = Rest(ts, q + 1)
  BY RestSteps
<1> HIDE DEF b
<1>2. /\ Len(a \o b) = Len(a) + Len(b) /\ \A k \in 1 .. Len(b) : (a \o b)[Len(a) + k] = b[k]
  BY <1>1, JoinedRead
<1>3. Len(a) \in Nat /\ Len(b) \in Nat /\ Len(b) >= 1
  BY <1>1
<1>4. Len(a) + 1 \in 1 .. Len(a \o b) /\ (a \o b)[Len(a) + 1] = ts[q]
  <2>1. 1 \in 1 .. Len(b)
    BY <1>3
  <2> QED
    BY <1>1, <1>2, <1>3, <2>1
<1>5. S!RemoveAt(a \o b, Len(a) + 1) = a \o Tail(b)
  BY <1>1, SeamRemoved
<1> QED
  BY ONLY <1>1, <1>4, <1>5 DEF b

LEMMA ReplacedAtTheSeam ==
  ASSUME NEW T, NEW a \in Seq(T), NEW ts \in Seq(T), NEW q \in 1 .. Len(ts), NEW x \in T
  PROVE  [a \o Rest(ts, q) EXCEPT ![Len(a) + 1] = x] = Append(a, x) \o Rest(ts, q + 1)
<1> DEFINE b == Rest(ts, q)
<1>1. b \in Seq(T) /\ b # <<>> /\ Tail(b) = Rest(ts, q + 1)
  BY RestSteps
<1> HIDE DEF b
<1>2. [a \o b EXCEPT ![Len(a) + 1] = x] = Append(a, x) \o Tail(b)
  BY <1>1, SeamReplaced
<1> QED
  BY ONLY <1>1, <1>2 DEF b

(* What a text is found as once an entry for a new name is added. *)
LEMMA EntryAdded ==
  ASSUME NEW subs \in Seq(Entry), NEW e \in Entry, \A i \in DOMAIN subs : subs[i].from # e.from, NEW s
  PROVE  FoundIn(Append(subs, e), s) = IF s = e.from THEN e.to ELSE FoundIn(subs, s)
<1> DEFINE more == Append(subs, e)
           hits == {i \in DOMAIN subs : subs[i].from = s}
           now  == {i \in DOMAIN more : more[i].from = s}
           n    == Len(subs) + 1
<1>1. DOMAIN more = 1 .. n /\ DOMAIN subs = 1 .. n - 1 /\ n \in Nat \ {0}
      /\ more[n] = e /\ \A i \in 1 .. n - 1 : more[i] = subs[i]
  OBVIOUS
<1>2. FoundIn(more, s) = IF now = {} THEN s ELSE more[Min(now)].to
  BY DEF FoundIn
<1>3. FoundIn(subs, s) = IF hits = {} THEN s ELSE subs[Min(hits)].to
  BY DEF FoundIn
<1> HIDE DEF more, n
<1>4. CASE s = e.from
  <2>1. now = {n}
    BY <1>1, <1>4
  <2>2. Min(now) \in now
    <3>1. now \in SUBSET Nat /\ now # {}
      BY <1>1, <2>1
    <3> QED
      BY <3>1, LeastOfNats
  <2> HIDE DEF now
  <2> QED
    BY <1>1, <1>2, <1>4, <2>1, <2>2 DEF more
<1>5. CASE s # e.from
  <2>1. now = hits
    BY <1>1, <1>5
  <2>2. hits # {} => Min(hits) \in hits
    <3>1. hits \in SUBSET Nat
      BY <1>1
    <3> QED
      BY <3>1, LeastOfNats
  <2>3. hits # {} => more[Min(hits)] = subs[Min(hits)]
    BY <1>1, <2>2
  <2> QED
    BY <1>2, <1>3, <1>5, <2>1, <2>3 DEF more
<1> QED
  BY <1>4, <1>5

(* A text that has no entry is not found. *)
LEMMA NotFound ==
  ASSUME NEW name, \A i \in DOMAIN substitutes : substitutes[i].from # name
  PROVE  S!find_substitute_index(name) = 0
BY DEF S!find_substitute_index

LEMMA ExpandedTyped ==
  ASSUME NEW ts, TextOf(ts), NEW q \in 1 .. Len(ts)
  PROVE  /\ Len(ts) \in Nat /\ DOMAIN ts = 1 .. Len(ts) /\ ts[q] \in TokenType
         /\ Expanded(ts, q) \in TokenType
<1>1. /\ Len(ts) \in Nat /\ DOMAIN ts = 1 .. Len(ts)
      /\ \A n \in 1 .. Len(ts) : ts[n] \in TokenType
  BY DEF TextOf
<1>2. TextsIn(ts) \subseteq Texts
  <2>1. \A n \in 1 .. Len(ts) : ts[n].opcode \in Texts /\ ts[n].args \in Seq(Arg)
    BY <1>1 DEF TokenType
  <2>2. \A n \in 1 .. Len(ts) : \A k \in DOMAIN ts[n].args : ts[n].args[k].sv \in Texts
    <3> SUFFICES ASSUME NEW n \in 1 .. Len(ts), NEW k \in DOMAIN ts[n].args
                 PROVE  ts[n].args[k].sv \in Texts
      OBVIOUS
    <3>1. ts[n].args[k] \in Arg
      BY <2>1
    <3> QED
      BY <3>1 DEF Arg
  <2>3. NoText \in Texts
    BY DEF Texts
  <2> QED
    BY <1>1, <2>1, <2>2, <2>3 DEF TextsIn
<1>3. \A s \in TextsIn(ts) : Meaning(ts, q, s) \in Texts
  BY <1>1, <1>2, MeaningSteps
<1> DEFINE t == ts[q]
           args == [n \in DOMAIN t.args |-> [sv |-> Meaning(ts, q, t.args[n].sv), is_imm |-> t.args[n].is_imm]]
<1>4. t.args \in Seq(Arg) /\ t.label \in Texts /\ t.opcode \in TextsIn(ts)
  BY <1>1, TextOfArgument DEF TokenType
<1>5. args \in Seq(Arg)
  <2>1. \A n \in DOMAIN t.args : t.args[n].sv \in TextsIn(ts)
    BY <1>1, TextOfArgument
  <2> HIDE DEF t
  <2>2. DOMAIN t.args = 1 .. Len(t.args) /\ Len(t.args) \in Nat
    BY <1>4
  <2>3. ASSUME NEW n \in 1 .. Len(t.args) PROVE args[n] \in Arg
    <3>1. t.args[n] \in Arg
      BY <1>4, <2>2
    <3>2. Meaning(ts, q, t.args[n].sv) \in Texts
      BY <1>3, <2>1, <2>2
    <3> QED
      BY <2>2, <3>1, <3>2 DEF Arg
  <2>4. args = [n \in 1 .. Len(t.args) |-> args[n]]
    BY <2>2
  <2> HIDE DEF args
  <2> QED
    BY <2>2, <2>3, <2>4, FunctionSeq
<1>6. Expanded(ts, q) = [label |-> t.label, opcode |-> Meaning(ts, q, t.opcode), args |-> args]
  BY DEF Expanded
<1> HIDE DEF t, args
<1>7. Expanded(ts, q) \in TokenType
  BY <1>3, <1>4, <1>5, <1>6 DEF TokenType
<1> QED
  BY <1>1, <1>7

LEMMA LeftTyped ==
  ASSUME NEW ts, TextOf(ts)
  PROVE  /\ Len(ts) \in Nat
         /\ Expansion(ts) = Left(ts)[Len(ts)]
         /\ \A n \in 0 .. Len(ts) : Left(ts)[n] \in Seq(TokenType)
         /\ Left(ts)[0] = <<>>
         /\ \A n \in 1 .. Len(ts) : Left(ts)[n] = LeftOn(Left(ts)[n - 1], ts, n)
<1>1. Len(ts) \in Nat
  BY DEF TextOf
<1> QED
  BY <1>1, ExpandedTyped, LeftSteps

(* Where the sweep is, and where it ends. *)
LEMMA PlaceOfToken ==
  ASSUME NEW ts, TextOf(ts), NEW q \in 1 .. Len(ts) + 1, PlaceIs(ts, q)
  PROVE  /\ q <= Len(ts) => index \in 1 .. Len(tokens) /\ tokens[index] = ts[q]
         /\ q = Len(ts) + 1 => index > Len(tokens) /\ tokens = Expansion(ts)
<1> DEFINE a == Left(ts)[q - 1]
<1>1. Len(ts) \in Nat /\ q - 1 \in 0 .. Len(ts)
  BY LeftTyped
<1>2. a \in Seq(TokenType) /\ ts \in Seq(TokenType)
  BY <1>1, LeftTyped DEF TextOf
<1>3. index = Len(a) + 1 /\ tokens = a \o Rest(ts, q)
  BY DEF PlaceIs
<1>4. q = Len(ts) + 1 => a = Expansion(ts)
  <2>1. q = Len(ts) + 1 => q - 1 = Len(ts)
    BY <1>1
  <2> QED
    BY <2>1, LeftTyped
<1> HIDE DEF a
<1>5. CASE q <= Len(ts)
  <2>1. q \in 1 .. Len(ts)
    BY <1>1, <1>5
  <2>2. index \in 1 .. Len(tokens) /\ tokens[index] = ts[q]
    BY <1>2, <1>3, <2>1, AtTheSeam
  <2> QED
    BY <1>1, <1>5, <2>2
<1>6. CASE q = Len(ts) + 1
  <2>1. Rest(ts, q) = <<>>
    BY <1>1, <1>2, <1>6 DEF Rest
  <2>2. tokens = a
    BY <1>2, <1>3, <2>1
  <2>3. index > Len(tokens)
    BY <1>2, <1>3, <2>2
  <2> QED
    BY <1>1, <1>4, <1>6, <2>2, <2>3
<1> QED
  BY <1>1, <1>5, <1>6

LEMMA PlaceMoves ==
  ASSUME NEW ts, TextOf(ts), NEW q \in 1 .. Len(ts), PlaceIs(ts, q),
         \/ ~Remains(ts, q) /\ tokens' = S!RemoveAt(tokens, index) /\ index' = index
         \/ Remains(ts, q) /\ tokens' = [tokens EXCEPT ![index] = Expanded(ts, q)] /\ index' = index + 1
  PROVE  PlaceIs(ts, q + 1)'
<1> DEFINE a == Left(ts)[q - 1]
           b == Left(ts)[q]
<1>1. Len(ts) \in Nat /\ q - 1 \in 0 .. Len(ts) /\ (q + 1) - 1 = q
  BY LeftTyped
<1>2. a \in Seq(TokenType) /\ ts \in Seq(TokenType) /\ b = LeftOn(a, ts, q)
  BY <1>1, LeftTyped DEF TextOf
<1>3. index = Len(a) + 1 /\ tokens = a \o Rest(ts, q)
  BY DEF PlaceIs
<1>4. Expanded(ts, q) \in TokenType
  BY ExpandedTyped
<1>5. SUFFICES index' = Len(b) + 1 /\ tokens' = b \o Rest(ts, q + 1)
  BY <1>1 DEF PlaceIs
<1> HIDE DEF a, b
<1>6. /\ S!RemoveAt(tokens, index) = a \o Rest(ts, q + 1)
      /\ [tokens EXCEPT ![index] = Expanded(ts, q)] = Append(a, Expanded(ts, q)) \o Rest(ts, q + 1)
  <2> DEFINE s == a \o Rest(ts, q)
  <2>1. /\ S!RemoveAt(s, Len(a) + 1) = a \o Rest(ts, q + 1)
        /\ [s EXCEPT ![Len(a) + 1] = Expanded(ts, q)] = Append(a, Expanded(ts, q)) \o Rest(ts, q + 1)
    <3>1. /\ a \in Seq(TokenType) /\ ts \in Seq(TokenType) /\ q \in 1 .. Len(ts)
          /\ Expanded(ts, q) \in TokenType
      BY <1>2, <1>4
    <3>2. S!RemoveAt(s, Len(a) + 1) = a \o Rest(ts, q + 1)
      BY ONLY <3>1, AtTheSeam
    <3>3. [s EXCEPT ![Len(a) + 1] = Expanded(ts, q)] = Append(a, Expanded(ts, q)) \o Rest(ts, q + 1)
      BY ONLY <3>1, ReplacedAtTheSeam
    <3> QED
      BY <3>2, <3>3
  <2> HIDE DEF s
  <2>2. tokens = s /\ index = Len(a) + 1
    BY <1>3 DEF s
  <2> QED
    BY ONLY <1>4, <2>1, <2>2
<1>7. CASE ~Remains(ts, q)
  <2>1. b = a
    BY <1>2, <1>7 DEF LeftOn
  <2> QED
    BY <1>3, <1>6, <1>7, <2>1
<1>8. CASE Remains(ts, q)
  <2>1. b = Append(a, Expanded(ts, q))
    BY <1>2, <1>8 DEF LeftOn
  <2>2. Len(b) = Len(a) + 1
    BY <1>2, <1>4, <2>1
  <2> QED
    BY <1>3, <1>6, <1>8, <2>1, <2>2
<1> QED
  BY <1>7, <1>8

(* The token at hand is the one of the text with its texts replaced. *)
LEMMA SweptExpanded ==
  ASSUME NEW ts, TextOf(ts), NEW q \in 1 .. Len(ts), SweepAt(ts, q)
  PROVE  S!Token = Expanded(ts, q)
<1> DEFINE t == ts[q]
<1>1. tokens[index] = t
  <2>1. q \in 1 .. Len(ts) + 1 /\ q <= Len(ts)
    BY LeftTyped
  <2> QED
    BY <2>1, PlaceOfToken DEF SweepAt
<1>2. \A s \in TextsIn(ts) : S!find_substitute(s) = Meaning(ts, q, s)
  BY FoundIs DEF SweepAt, NamesAre
<1>3. DOMAIN ts = 1 .. Len(ts) /\ t \in TokenType
  BY ExpandedTyped
<1>4. t.opcode \in TextsIn(ts) /\ \A n \in DOMAIN t.args : t.args[n].sv \in TextsIn(ts)
  BY <1>3, TextOfArgument
<1> DEFINE found == [n \in DOMAIN t.args |-> [sv |-> S!find_substitute(t.args[n].sv), is_imm |-> t.args[n].is_imm]]
           meant == [n \in DOMAIN t.args |-> [sv |-> Meaning(ts, q, t.args[n].sv), is_imm |-> t.args[n].is_imm]]
<1>5. found = meant
  BY <1>2, <1>4
<1>6. S!Token = [label |-> t.label, opcode |-> S!find_substitute(t.opcode), args |-> found]
  <2> DEFINE u == tokens[index]
             swept == [n \in DOMAIN u.args |-> [sv |-> S!find_substitute(u.args[n].sv), is_imm |-> u.args[n].is_imm]]
  <2>1. S!Token = [label |-> u.label, opcode |-> S!find_substitute(u.opcode), args |-> swept]
    BY DEF S!Token
  <2> HIDE DEF u, t
  <2>2. u = t
    BY <1>1 DEF u
  <2> QED
    BY ONLY <2>1, <2>2 DEF swept, found
<1>7. Expanded(ts, q) = [label |-> t.label, opcode |-> Meaning(ts, q, t.opcode), args |-> meant]
  BY DEF Expanded
<1>8. S!find_substitute(t.opcode) = Meaning(ts, q, t.opcode)
  BY <1>2, <1>4
<1> HIDE DEF t, found, meant
<1> QED
  BY ONLY <1>5, <1>6, <1>7, <1>8

LEMMA SweptToken ==
  ASSUME NEW ts, TextOf(ts), NEW q \in 1 .. Len(ts), SweepAt(ts, q)
  PROVE  /\ S!Token = Expanded(ts, q)
         /\ \A d \in Reserved : S!Token.opcode = d <=> ts[q].opcode = d
         /\ S!Defines <=> IsDefinition(ts[q])
         /\ S!Inside <=> SectionOf(ts, q) # {}
         /\ \A n : S!Argument(S!Token, n) = Argument(Expanded(ts, q), n)
<1>1. S!Token = Expanded(ts, q)
  BY SweptExpanded
<1>2. DefinedOnce(ts) /\ Len(ts) \in Nat /\ DOMAIN ts = 1 .. Len(ts)
  BY ExpandedTyped DEF TextOf
<1>3. /\ \A d \in Reserved : Expanded(ts, q).opcode = d <=> ts[q].opcode = d
      /\ Argument(Expanded(ts, q), 1).sv \in {"EQU", "SET"} <=> IsDefinition(ts[q])
  BY <1>2, DirectiveExpanded
<1>4. \A t, n : S!Argument(t, n) = Argument(t, n)
  BY DEF S!Argument, Argument, S!NoArgument, NoArgument, S!NoText, NoText
<1>5. S!Defines <=> Argument(Expanded(ts, q), 1).sv \in {"EQU", "SET"}
  BY <1>1, <1>4 DEF S!Defines
<1>6. S!Inside <=> SectionOf(ts, q) # {}
  BY DEF S!Inside, SweepAt, SectionIs
<1> QED
  BY <1>1, <1>3, <1>4, <1>5, <1>6

-----------------------------------------------------------------------------
(* The names: a token that defines nothing leaves every meaning as it was, *)
(* a definition adds the entry that gives its name the new meaning.        *)
LEMMA NamesStay ==
  ASSUME NEW ts, TextOf(ts), NEW q \in 1 .. Len(ts), NamesAre(ts, q),
         q \notin Definitions(ts), substitutes' = substitutes
  PROVE  NamesAre(ts, q + 1)'
<1>1. Len(ts) \in Nat /\ DOMAIN ts = 1 .. Len(ts)
  BY ExpandedTyped
<1>2. \A s \in TextsIn(ts) : Meaning(ts, q + 1, s) = Meaning(ts, q, s)
  BY <1>1, MeaningSteps
<1>3. \A s \in TextsIn(ts) : FoundIn(substitutes, s) = Meaning(ts, q + 1, s)
  BY <1>2 DEF NamesAre
<1>4. \A i \in DOMAIN substitutes :
        \E p \in Definitions(ts) : p < q + 1 /\ substitutes[i].from = ts[p].opcode
  <2> SUFFICES ASSUME NEW i \in DOMAIN substitutes
               PROVE  \E p \in Definitions(ts) : p < q + 1 /\ substitutes[i].from = ts[p].opcode
    OBVIOUS
  <2>1. PICK p \in Definitions(ts) : p < q /\ substitutes[i].from = ts[p].opcode
    BY DEF NamesAre
  <2>2. p \in Int
    BY <1>1, <2>1 DEF Definitions
  <2>3. p < q + 1
    BY <2>1, <2>2
  <2> QED
    BY <2>1, <2>3
<1>5. substitutes \in Seq(Entry)
  BY DEF NamesAre
<1> QED
  BY <1>3, <1>4, <1>5 DEF NamesAre

(* A name that is defined once is itself up to its definition. *)
LEMMA NameStands ==
  ASSUME NEW ts, TextOf(ts), NEW q \in 1 .. Len(ts), q \in Definitions(ts)
  PROVE  Expanded(ts, q).opcode = ts[q].opcode
<1>1. Len(ts) \in Nat /\ DOMAIN ts = 1 .. Len(ts) /\ q \in 1 .. Len(ts) + 1
  BY ExpandedTyped
<1>2. StandsFair(ts, q)
  BY <1>1, MeaningsFair DEF TextOf
<1>3. ts[q].opcode \in TextsIn(ts)
  BY <1>1, TextOfArgument
<1>4. \A p \in Definitions(ts) : p < q => ts[p].opcode # ts[q].opcode
  <2> SUFFICES ASSUME NEW p \in Definitions(ts), p < q, ts[p].opcode = ts[q].opcode PROVE FALSE
    OBVIOUS
  <2>1. p = q
    BY DEF TextOf, DefinedOnce
  <2> QED
    BY <2>1
<1>5. Meaning(ts, q, ts[q].opcode) = ts[q].opcode
  BY <1>2, <1>3, <1>4 DEF StandsFair
<1> QED
  BY <1>5 DEF Expanded

LEMMA NamesGrow ==
  ASSUME NEW ts, TextOf(ts), NEW q \in 1 .. Len(ts), NamesAre(ts, q), q \in Definitions(ts),
         NEW strong \in BOOLEAN,
         S!add_substitute(ts[q].opcode, Argument(Expanded(ts, q), 2).sv, strong)
  PROVE  NamesAre(ts, q + 1)'
<1> DEFINE name == ts[q].opcode
           to == Argument(Expanded(ts, q), 2).sv
           e == [from |-> name, to |-> to, strong |-> strong]
<1>1. Len(ts) \in Nat /\ DOMAIN ts = 1 .. Len(ts) /\ name \in Texts /\ to \in Texts
  <2>1. Argument(Expanded(ts, q), 2) \in Arg
    BY ExpandedTyped, ArgumentTyped
  <2> QED
    BY <2>1, ExpandedTyped DEF TokenType, Arg
<1>2. to = Meaning(ts, q, Argument(ts[q], 2).sv)
  BY <1>1, ArgumentExpanded DEF TextOf
<1>3. \A i \in DOMAIN substitutes : substitutes[i].from # name
  <2> SUFFICES ASSUME NEW i \in DOMAIN substitutes, substitutes[i].from = name PROVE FALSE
    OBVIOUS
  <2>1. PICK p \in Definitions(ts) : p < q /\ substitutes[i].from = ts[p].opcode
    BY DEF NamesAre
  <2>2. p = q
    BY <2>1 DEF TextOf, DefinedOnce
  <2> QED
    BY <2>1, <2>2
<1>4. S!find_substitute_index(name) = 0
  BY <1>3, NotFound
<1>5. substitutes' = Append(substitutes, e)
  BY <1>4 DEF S!add_substitute
<1>6. e \in Entry /\ substitutes \in Seq(Entry)
  BY <1>1 DEF Entry, NamesAre
<1>7. e.from = name /\ e.to = to
  OBVIOUS
<1> HIDE DEF e, to
<1>8. \A s \in TextsIn(ts) : Meaning(ts, q + 1, s) = IF s = name THEN to ELSE Meaning(ts, q, s)
  BY <1>1, <1>2, MeaningSteps
<1>9. \A s : FoundIn(Append(substitutes, e), s) = IF s = e.from THEN e.to ELSE FoundIn(substitutes, s)
  BY <1>3, <1>6, <1>7, EntryAdded
<1>10. \A s \in TextsIn(ts) : FoundIn(substitutes, s) = Meaning(ts, q, s)
  BY DEF NamesAre
<1>11. \A s \in TextsIn(ts) : FoundIn(Append(substitutes, e), s) = Meaning(ts, q + 1, s)
  BY <1>7, <1>8, <1>9, <1>10
<1>12. \A i \in DOMAIN Append(substitutes, e) :
         \E p \in Definitions(ts) : p < q + 1 /\ Append(substitutes, e)[i].from = ts[p].opcode
  <2> SUFFICES ASSUME NEW i \in DOMAIN Append(substitutes, e)
               PROVE  \E p \in Definitions(ts) : p < q + 1 /\ Append(substitutes, e)[i].from = ts[p].opcode
    OBVIOUS
  <2>1. \/ i \in DOMAIN substitutes /\ Append(substitutes, e)[i] = substitutes[i]
        \/ Append(substitutes, e)[i] = e
    BY <1>6
  <2>2. CASE i \in DOMAIN substitutes /\ Append(substitutes, e)[i] = substitutes[i]
    <3>1. PICK p \in Definitions(ts) : p < q /\ substitutes[i].from = ts[p].opcode
      BY <2>2 DEF NamesAre
    <3>2. p \in Int
      BY <1>1, <3>1 DEF Definitions
    <3>3. p < q + 1
      BY <3>1, <3>2
    <3> QED
      BY <2>2, <3>1, <3>3
  <2>3. CASE Append(substitutes, e)[i] = e
    <3>1. q < q + 1
      OBVIOUS
    <3> QED
      BY <2>3, <3>1, <1>7
  <2> QED
    BY <2>1, <2>2, <2>3
<1>13. Append(substitutes, e) \in Seq(Entry)
  BY <1>6
<1> QED
  BY <1>5, <1>11, <1>12, <1>13 DEF NamesAre
-----------------------------------------------------------------------------
(* The sections: an IF outside opens one, the next ENDIF closes it.        *)
LEMMA SectionStays ==
  ASSUME NEW ts, TextOf(ts), NEW q \in 1 .. Len(ts), SectionIs(ts, q), if_list' = if_list,
         SectionOf(ts, q) # {} \/ ts[q].opcode # "IF" \/ IsDefinition(ts[q]),
         SectionOf(ts, q) = {} \/ ts[q].opcode # "ENDIF"
  PROVE  SectionIs(ts, q + 1)'
<1>1. Len(ts) \in Nat
  BY LeftTyped
<1>2. q \notin Openers(ts)
  BY <1>1, SectionStep
<1>3. SectionOf(ts, q + 1) = (IF ts[q].opcode = "ENDIF" THEN {} ELSE SectionOf(ts, q)) \cup (Openers(ts) \cap {q})
  BY <1>1, SectionStep
<1>4. SectionOf(ts, q + 1) = SectionOf(ts, q)
  BY <1>2, <1>3
<1> QED
  BY <1>4 DEF SectionIs

LEMMA SectionOpens ==
  ASSUME NEW ts, TextOf(ts), NEW q \in 1 .. Len(ts), SectionIs(ts, q),
         SectionOf(ts, q) = {}, ts[q].opcode = "IF", ~IsDefinition(ts[q]),
         if_list' = Append(if_list, Dropped(ts, q))
  PROVE  SectionIs(ts, q + 1)'
<1>1. Len(ts) \in Nat
  BY LeftTyped
<1>2. q \in SectionOf(ts, q + 1)
  BY <1>1, SectionStep
<1>3. Dropped(ts, q) \in BOOLEAN
  BY DEF Dropped
<1>4. if_list = <<>>
  BY DEF SectionIs
<1>5. if_list' = <<Dropped(ts, q)>>
  BY <1>4
<1>6. <<Dropped(ts, q)>> \in Seq(BOOLEAN)
  <2> DEFINE d == Dropped(ts, q)
  <2>1. d \in BOOLEAN
    BY <1>3
  <2> HIDE DEF d
  <2>2. <<d>> \in Seq(BOOLEAN)
    BY ONLY <2>1
  <2> QED
    BY <2>2 DEF d
<1> QED
  BY <1>2, <1>5, <1>6 DEF SectionIs

LEMMA SectionCloses ==
  ASSUME NEW ts, TextOf(ts), NEW q \in 1 .. Len(ts), SectionIs(ts, q),
         SectionOf(ts, q) # {}, ts[q].opcode = "ENDIF", if_list' = S!Front(if_list)
  PROVE  SectionIs(ts, q + 1)'
<1>1. Len(ts) \in Nat
  BY LeftTyped
<1>2. SectionOf(ts, q + 1) = {}
  <2>1. q \notin Openers(ts)
    BY <1>1, SectionStep
  <2>2. SectionOf(ts, q + 1) = {} \cup (Openers(ts) \cap {q})
    BY <1>1, SectionStep
  <2> QED
    BY <2>1, <2>2
<1>3. PICK p \in SectionOf(ts, q) : if_list = <<Dropped(ts, p)>>
  BY DEF SectionIs
<1>4. if_list' = <<>>
  BY <1>3 DEF S!Front
<1> QED
  BY <1>2, <1>4 DEF SectionIs
-----------------------------------------------------------------------------
(* One step of the sweep, handler by handler: it goes on to the next token *)
(* of the text.                                                            *)
LEMMA Discarded ==
  ASSUME NEW ts, TextOf(ts), NEW q \in 1 .. Len(ts), SweepAt(ts, q), S!Discard, ~Remains(ts, q)
  PROVE  PlaceIs(ts, q + 1)' /\ stage' = stage
<1>1. PlaceIs(ts, q)
  BY DEF SweepAt
<1>2. tokens' = S!RemoveAt(tokens, index) /\ index' = index /\ stage' = stage
  BY DEF S!Discard
<1> QED
  BY <1>1, <1>2, PlaceMoves

LEMMA Retained ==
  ASSUME NEW ts, TextOf(ts), NEW q \in 1 .. Len(ts), SweepAt(ts, q), S!Keep, Remains(ts, q)
  PROVE  PlaceIs(ts, q + 1)' /\ stage' = stage
<1>1. PlaceIs(ts, q)
  BY DEF SweepAt
<1>2. S!Token = Expanded(ts, q)
  BY SweptToken
<1>3. tokens' = [tokens EXCEPT ![index] = Expanded(ts, q)] /\ index' = index + 1 /\ stage' = stage
  BY <1>2 DEF S!Keep
<1> QED
  BY <1>1, <1>3, PlaceMoves

(* What the guards of the handlers say of the text. *)
LEMMA HandlerReads ==
  ASSUME NEW ts, TextOf(ts), NEW q \in 1 .. Len(ts), SweepAt(ts, q)
  PROVE  /\ \A d \in Reserved : S!At(d) => ts[q].opcode = d
         /\ S!Handling /\ S!Token.opcode \notin {S!NoText, "ENDIF"} => ts[q].opcode \notin {NoText, "ENDIF"}
         /\ S!Token.opcode # S!NoText => ts[q].opcode # NoText
         /\ S!Token.opcode \notin {S!NoText, "IF", "ENDIF", "MACRO", "ENDM"} =>
              ts[q].opcode \notin {NoText, "IF", "ENDIF", "MACRO", "ENDM"}
<1>1. \A d \in Reserved : S!Token.opcode = d <=> ts[q].opcode = d
  BY SweptToken
<1>2. NoText \in Reserved /\ "IF" \in Reserved /\ "ENDIF" \in Reserved /\ "MACRO" \in Reserved /\ "ENDM" \in Reserved
  BY DEF Reserved, Directives
<1>3. S!NoText = NoText
  BY SameText
<1>4. \A d \in Reserved : S!At(d) => ts[q].opcode = d
  BY <1>1 DEF S!At
<1> QED
  BY <1>1, <1>2, <1>3, <1>4

LEMMA EmptySwept ==
  ASSUME NEW ts, TextOf(ts), NEW q \in 1 .. Len(ts), SweepAt(ts, q), S!DropEmpty
  PROVE  PlaceIs(ts, q + 1)' /\ NamesAre(ts, q + 1)' /\ SectionIs(ts, q + 1)' /\ stage' = stage
<1>1. ts[q].opcode = NoText /\ ts[q].opcode \notin {"IF", "ENDIF"}
  <2>1. S!At(NoText) /\ NoText \in Reserved
    BY SameText DEF S!DropEmpty, Reserved
  <2> QED
    BY <2>1, HandlerReads DEF NoText
<1>2. ~Remains(ts, q) /\ q \notin Definitions(ts)
  BY <1>1 DEF Remains, Definitions
<1>3. S!Discard /\ substitutes' = substitutes /\ if_list' = if_list
  BY DEF S!DropEmpty
<1>4. NamesAre(ts, q) /\ SectionIs(ts, q)
  BY DEF SweepAt
<1> QED
  BY <1>1, <1>2, <1>3, <1>4, Discarded, NamesStay, SectionStays

LEMMA EndSwept ==
  ASSUME NEW ts, TextOf(ts), NEW q \in 1 .. Len(ts), SweepAt(ts, q), S!EndSection
  PROVE  PlaceIs(ts, q + 1)' /\ NamesAre(ts, q + 1)' /\ SectionIs(ts, q + 1)' /\ stage' = stage
<1>1. ts[q].opcode = "ENDIF"
  BY HandlerReads DEF S!EndSection, Reserved, Directives
<1>2. SectionOf(ts, q) # {}
  BY SweptToken DEF S!EndSection
<1>3. ~Remains(ts, q) /\ q \notin Definitions(ts)
  BY <1>1, <1>2 DEF Remains, Definitions
<1>4. S!Discard /\ substitutes' = substitutes /\ if_list' = S!Front(if_list)
  BY DEF S!EndSection
<1>5. NamesAre(ts, q) /\ SectionIs(ts, q)
  BY DEF SweepAt
<1> QED
  BY <1>1, <1>2, <1>3, <1>4, <1>5, Discarded, NamesStay, SectionCloses

LEMMA InnerSwept ==
  ASSUME NEW ts, TextOf(ts), NEW q \in 1 .. Len(ts), SweepAt(ts, q), S!InSection
  PROVE  PlaceIs(ts, q + 1)' /\ NamesAre(ts, q + 1)' /\ SectionIs(ts, q + 1)' /\ stage' = stage
<1>1. ts[q].opcode \notin {NoText, "ENDIF"} /\ SectionOf(ts, q) # {}
  BY HandlerReads, SweptToken DEF S!InSection
<1>2. q \notin Definitions(ts)
  BY <1>1 DEF Definitions
<1>3. NamesAre(ts, q) /\ SectionIs(ts, q)
  BY DEF SweepAt
<1>4. substitutes' = substitutes /\ if_list' = if_list
  BY DEF S!InSection
<1>5. PICK p \in SectionOf(ts, q) : if_list = <<Dropped(ts, p)>>
  BY <1>1, <1>3 DEF SectionIs
<1>6. SectionOf(ts, q) = {p}
  <2>1. Len(ts) \in Nat /\ q \in Int
    BY LeftTyped
  <2> QED
    BY <2>1, <1>5, OneSection
<1>7. Remains(ts, q) <=> ~Dropped(ts, p)
  BY <1>1, <1>6 DEF Remains, Dropped
<1>8. S!Last(if_list) = Dropped(ts, p)
  BY <1>5 DEF S!Last
<1>9. PlaceIs(ts, q + 1)' /\ stage' = stage
  <2>1. CASE Dropped(ts, p)
    <3>1. S!Discard
      BY <2>1, <1>8 DEF S!InSection
    <3> QED
      BY <2>1, <3>1, <1>7, Discarded
  <2>2. CASE ~Dropped(ts, p)
    <3>1. S!Keep
      BY <2>2, <1>8 DEF S!InSection
    <3> QED
      BY <2>2, <3>1, <1>7, Retained
  <2> QED
    BY <2>1, <2>2
<1> QED
  BY <1>1, <1>2, <1>3, <1>4, <1>9, NamesStay, SectionStays

LEMMA DefinitionSwept ==
  ASSUME NEW ts, TextOf(ts), NEW q \in 1 .. Len(ts), SweepAt(ts, q), S!Define
  PROVE  PlaceIs(ts, q + 1)' /\ NamesAre(ts, q + 1)' /\ SectionIs(ts, q + 1)' /\ stage' = stage
<1>1. ts[q].opcode # NoText /\ SectionOf(ts, q) = {} /\ IsDefinition(ts[q])
  BY HandlerReads, SweptToken DEF S!Define
<1>2. DOMAIN ts = 1 .. Len(ts)
  BY ExpandedTyped
<1>3. q \in Definitions(ts) /\ ~Remains(ts, q)
  BY <1>1, <1>2 DEF Definitions, Remains
<1>4. NamesAre(ts, q) /\ SectionIs(ts, q)
  BY DEF SweepAt
<1>5. S!Discard /\ if_list' = if_list
  BY DEF S!Define
<1>6. PICK strong \in BOOLEAN : S!add_substitute(S!Token.opcode, S!Argument(S!Token, 2).sv, strong)
  <2>1. (S!Argument(S!Token, 1).sv = "EQU") \in BOOLEAN
    OBVIOUS
  <2> QED
    BY <2>1 DEF S!Define
<1>7. S!add_substitute(ts[q].opcode, Argument(Expanded(ts, q), 2).sv, strong)
  <2>1. S!Token.opcode = ts[q].opcode
    BY <1>3, SweptToken, NameStands
  <2>2. S!Argument(S!Token, 2) = Argument(Expanded(ts, q), 2)
    BY SweptToken
  <2> QED
    BY <2>1, <2>2, <1>6
<1>8. ts[q].opcode # "ENDIF"
  <2>1. ts[q].opcode \notin Directives
    BY <1>3 DEF TextOf, DefinedOnce
  <2> QED
    BY <2>1 DEF Directives
<1>9. NamesAre(ts, q + 1)'
  BY <1>3, <1>4, <1>7, NamesGrow
<1>10. SectionIs(ts, q + 1)'
  BY <1>1, <1>4, <1>5, <1>8, SectionStays
<1> QED
  BY <1>3, <1>5, <1>9, <1>10, Discarded

LEMMA BeginSwept ==
  ASSUME NEW ts, TextOf(ts), NEW q \in 1 .. Len(ts), SweepAt(ts, q), S!BeginSection
  PROVE  PlaceIs(ts, q + 1)' /\ NamesAre(ts, q + 1)' /\ SectionIs(ts, q + 1)' /\ stage' = stage
<1>1. ts[q].opcode = "IF" /\ SectionOf(ts, q) = {} /\ ~IsDefinition(ts[q])
  <2>1. S!At("IF") /\ "IF" \in Reserved /\ ~S!Inside /\ ~S!Defines
    BY DEF S!BeginSection, Reserved, Directives
  <2> QED
    BY <2>1, HandlerReads, SweptToken
<1>2. ~Remains(ts, q) /\ q \notin Definitions(ts)
  BY <1>1 DEF Remains, Definitions
<1>3. NamesAre(ts, q) /\ SectionIs(ts, q)
  BY DEF SweepAt
<1>4. if_list' = Append(if_list, Dropped(ts, q))
  <2>1. S!Argument(S!Token, 1) = Argument(Expanded(ts, q), 1)
    BY SweptToken
  <2>2. \A s : S!parse_immediate(s) = parse_immediate(s)
    BY SameText DEF S!parse_immediate, parse_immediate
  <2> QED
    BY <2>1, <2>2 DEF S!BeginSection, Dropped
<1>5. S!Discard /\ substitutes' = substitutes
  BY DEF S!BeginSection
<1> QED
  BY <1>1, <1>2, <1>3, <1>4, <1>5, Discarded, NamesStay, SectionOpens

LEMMA DirectiveSwept ==
  ASSUME NEW ts, TextOf(ts), NEW q \in 1 .. Len(ts), SweepAt(ts, q), S!DropDirective
  PROVE  PlaceIs(ts, q + 1)' /\ NamesAre(ts, q + 1)' /\ SectionIs(ts, q + 1)' /\ stage' = stage
<1>1. ts[q].opcode \in {"ENDIF", "MACRO", "ENDM"} /\ SectionOf(ts, q) = {} /\ ~IsDefinition(ts[q])
  <2>1. PICK d \in {"ENDIF", "MACRO", "ENDM"} : S!At(d)
    BY DEF S!DropDirective
  <2>2. d \in Reserved /\ ~S!Inside /\ ~S!Defines
    BY DEF S!DropDirective, Reserved, Directives
  <2>3. ts[q].opcode = d
    BY <2>1, <2>2, HandlerReads
  <2> QED
    BY <2>2, <2>3, SweptToken
<1>2. ~Remains(ts, q) /\ q \notin Definitions(ts)
  BY <1>1 DEF Remains, Definitions
<1>3. NamesAre(ts, q) /\ SectionIs(ts, q)
  BY DEF SweepAt
<1>4. S!Discard /\ substitutes' = substitutes /\ if_list' = if_list
  BY DEF S!DropDirective
<1>5. ts[q].opcode # "IF"
  BY <1>1
<1> QED
  BY <1>1, <1>2, <1>3, <1>4, <1>5, Discarded, NamesStay, SectionStays

LEMMA TokenSwept ==
  ASSUME NEW ts, TextOf(ts), NEW q \in 1 .. Len(ts), SweepAt(ts, q), S!KeepToken
  PROVE  PlaceIs(ts, q + 1)' /\ NamesAre(ts, q + 1)' /\ SectionIs(ts, q + 1)' /\ stage' = stage
<1>1. ts[q].opcode \notin {NoText, "IF", "ENDIF", "MACRO", "ENDM"} /\ SectionOf(ts, q) = {} /\ ~IsDefinition(ts[q])
  BY HandlerReads, SweptToken DEF S!KeepToken
<1>2. Remains(ts, q) /\ q \notin Definitions(ts)
  BY <1>1 DEF Remains, Definitions
<1>3. NamesAre(ts, q) /\ SectionIs(ts, q)
  BY DEF SweepAt
<1>4. S!Keep /\ substitutes' = substitutes /\ if_list' = if_list
  BY DEF S!KeepToken
<1>5. ts[q].opcode # "IF"
  BY <1>1
<1> QED
  BY <1>1, <1>2, <1>3, <1>4, <1>5, Retained, NamesStay, SectionStays

(* Behind the last token the sweep ends with the expansion. *)
LEMMA SweepStep ==
  ASSUME NEW ts, TextOf(ts), NEW q \in 1 .. Len(ts) + 1, SweepAt(ts, q), SweepTyped, S!Next
  PROVE  \/ q \in 1 .. Len(ts) /\ SweepAt(ts, q + 1)' /\ stage' = "prepass"
         \/ stage' = "write" /\ tokens' = Expansion(ts)
<1>1. Len(ts) \in Nat /\ PlaceIs(ts, q) /\ stage = "prepass"
  BY LeftTyped, PrepassTyped DEF SweepAt
<1>2. index \in Int /\ Len(tokens) \in Int
  BY DEF SweepTyped
<1>3. /\ q <= Len(ts) => index \in 1 .. Len(tokens)
      /\ q = Len(ts) + 1 => index > Len(tokens) /\ tokens = Expansion(ts)
  BY <1>1, PlaceOfToken
<1>4. CASE S!prepass_handle_at
  <2>1. index <= Len(tokens)
    BY <1>4 DEF S!prepass_handle_at, S!DropEmpty, S!EndSection, S!InSection, S!Define, S!BeginSection,
       S!DropDirective, S!KeepToken, S!At, S!Handling
  <2>2. q \in 1 .. Len(ts)
    BY <1>1, <1>2, <1>3, <2>1
  <2>3. PlaceIs(ts, q + 1)' /\ NamesAre(ts, q + 1)' /\ SectionIs(ts, q + 1)' /\ stage' = stage
    BY <1>4, <2>2, EmptySwept, EndSwept, InnerSwept, DefinitionSwept, BeginSwept, DirectiveSwept, TokenSwept
       DEF S!prepass_handle_at
  <2> QED
    BY <1>1, <2>2, <2>3 DEF SweepAt
<1>5. CASE S!EndOfTokens
  <2>1. index > Len(tokens) /\ stage' = "write" /\ tokens' = tokens
    BY <1>5 DEF S!EndOfTokens
  <2>2. q = Len(ts) + 1
    BY <1>1, <1>2, <1>3, <2>1
  <2> QED
    BY <1>3, <2>1, <2>2
<1> QED
  BY <1>4, <1>5 DEF S!Next

(* Before the first token nothing is defined and no section is open. *)
LEMMA SweepBegins ==
  ASSUME NEW ts, TextOf(ts), tokens' = ts, index' = 1, substitutes' = <<>>, if_list' = <<>>
  PROVE  SweepAt(ts, 1)'
<1>1. ts \in Seq(TokenType) /\ Len(ts) \in Nat /\ DOMAIN ts = 1 .. Len(ts) /\ Left(ts)[0] = <<>>
  BY LeftTyped DEF TextOf
<1>2. PlaceIs(ts, 1)'
  <2>1. Rest(ts, 1) = ts
    BY <1>1 DEF Rest
  <2>2. <<>> \o ts = ts /\ Len(<<>>) + 1 = 1 /\ 1 - 1 = 0
    BY <1>1
  <2> QED
    BY <1>1, <2>1, <2>2 DEF PlaceIs
<1>3. NamesAre(ts, 1)'
  <2>1. \A s \in TextsIn(ts) : Meaning(ts, 1, s) = s
    BY <1>1, MeaningSteps
  <2>2. DOMAIN substitutes' = {} /\ substitutes' \in Seq(Entry)
    OBVIOUS
  <2>3. \A s : FoundIn(substitutes', s) = s
    BY <2>2 DEF FoundIn
  <2> QED
    BY <2>1, <2>2, <2>3 DEF NamesAre
<1>4. SectionIs(ts, 1)'
  <2>1. SectionOf(ts, 1) = {} /\ if_list' \in Seq(BOOLEAN)
    BY <1>1, FirstSection
  <2> QED
    BY <2>1 DEF SectionIs
<1> QED
  BY <1>2, <1>3, <1>4 DEF SweepAt
-----------------------------------------------------------------------------
(* From the text to the expansion. *)
ReadSoFar ==
  /\ line \in 1 .. Len(source) + 1 /\ tokens = LinesRead(source)[line - 1]
  /\ index = 1 /\ substitutes = <<>> /\ if_list = <<>>
Swept(ts) ==
  IF stage = "prepass" THEN \E q \in 1 .. Len(ts) + 1 : SweepAt(ts, q) ELSE tokens = Expansion(ts)
ExpandInv ==
  IF stage = "parse" THEN ReadSoFar
  ELSE \A ts : ts = ParsedTokens(source) /\ DefinedOnce(ts) => Swept(ts)

LEMMA InitReads == ASSUME ToolInit PROVE ExpandInv
<1>1. source \in Seq(Seq(P!Lexeme)) /\ line = 1 /\ tokens = <<>> /\ stage = "parse"
  BY SourcesAssumption DEF ToolInit, P!Init
<1>2. Len(source) \in Nat /\ LinesRead(source)[0] = <<>>
  BY <1>1, LinesSteps
<1>3. line \in 1 .. Len(source) + 1 /\ line - 1 = 0
  BY <1>1, <1>2
<1> QED
  BY <1>1, <1>2, <1>3 DEF ToolInit, ExpandInv, ReadSoFar

LEMMA ParseReads == ASSUME ChainInv, ExpandInv, Parse PROVE ExpandInv'
<1>1. /\ stage = "parse" /\ source \in Seq(Seq(P!Lexeme)) /\ source' = source
      /\ index' = index /\ substitutes' = substitutes /\ if_list' = if_list
  BY DEF ChainInv, TextTypes, Parse, P!Next, P!parse_file, P!AcceptLine, P!SkipLine, P!EndOfFile, P!Parsing, P!NextLine,
     prepassVars
<1>2. ReadSoFar
  BY <1>1 DEF ExpandInv
<1>3. Len(source) \in Nat
  BY <1>1
<1>4. CASE P!parse_file
  <2>1. /\ line <= Len(source) /\ line' = line + 1 /\ stage' = "parse"
        /\ tokens' = ReadLine(tokens, source[line])
    BY <1>1, <1>4 DEF P!parse_file, P!AcceptLine, P!SkipLine, P!Parsing, P!NextLine, ReadLine
  <2>2. line \in 1 .. Len(source)
    BY <1>2, <1>3, <2>1 DEF ReadSoFar
  <2>3. LinesRead(source)[line] = ReadLine(LinesRead(source)[line - 1], source[line])
    BY <1>1, <2>2, LinesSteps
  <2>4. line' - 1 = line /\ line' \in 1 .. Len(source) + 1
    BY <1>3, <2>1, <2>2
  <2>5. tokens' = LinesRead(source)[line' - 1]
    BY <1>2, <2>1, <2>3, <2>4 DEF ReadSoFar
  <2> QED
    BY <1>1, <1>2, <2>1, <2>4, <2>5 DEF ExpandInv, ReadSoFar
<1>5. CASE P!EndOfFile
  <2>1. line > Len(source) /\ stage' = "prepass" /\ tokens' = tokens
    BY <1>5 DEF P!EndOfFile
  <2>2. line - 1 = Len(source)
    BY <1>2, <1>3, <2>1 DEF ReadSoFar
  <2>3. tokens = ParsedTokens(source) /\ tokens \in Seq(TokenType)
    <3>1. Len(source) \in 0 .. Len(source)
      BY <1>3
    <3>2. /\ ParsedTokens(source) = LinesRead(source)[Len(source)]
          /\ LinesRead(source)[Len(source)] \in Seq(TokenType)
      BY <1>1, <3>1, LinesSteps
    <3> QED
      BY <1>2, <2>2, <3>2 DEF ReadSoFar
  <2> SUFFICES ASSUME NEW ts, ts = ParsedTokens(source'), DefinedOnce(ts) PROVE Swept(ts)'
    BY <2>1 DEF ExpandInv
  <2>4. TextOf(ts) /\ tokens' = ts
    BY <1>1, <2>1, <2>3 DEF TextOf
  <2>5. index' = 1 /\ substitutes' = <<>> /\ if_list' = <<>>
    BY <1>1, <1>2 DEF ReadSoFar
  <2>6. SweepAt(ts, 1)'
    BY <2>4, <2>5, SweepBegins
  <2>7. 1 \in 1 .. Len(ts) + 1
    BY <2>4, LeftTyped
  <2> QED
    BY <2>1, <2>6, <2>7 DEF Swept
<1> QED
  BY <1>4, <1>5 DEF Parse, P!Next

LEMMA PreprocessExpands == ASSUME ChainInv, ExpandInv, Preprocess PROVE ExpandInv'
<1>1. S!Next /\ SweepTyped /\ source \in Seq(Seq(P!Lexeme)) /\ source' = source
  BY DEF ChainInv, TextTypes, Preprocess, parserVars
<1>2. stage = "prepass" /\ stage' \in {"prepass", "write"}
  BY <1>1, PrepassTyped
<1> SUFFICES ASSUME NEW ts, ts = ParsedTokens(source'), DefinedOnce(ts) PROVE Swept(ts)'
  BY <1>2 DEF ExpandInv
<1>3. ts = ParsedTokens(source)
  BY <1>1
<1>4. TextOf(ts)
  <2>1. Len(source) \in 0 .. Len(source)
    BY <1>1
  <2>2. ParsedTokens(source) \in Seq(TokenType)
    BY <1>1, <2>1, LinesSteps
  <2> QED
    BY <1>3, <2>2 DEF TextOf
<1>5. PICK q \in 1 .. Len(ts) + 1 : SweepAt(ts, q)
  <2>1. Swept(ts)
    BY <1>2, <1>3 DEF ExpandInv
  <2> QED
    BY <1>2, <2>1 DEF Swept
<1>6. \/ q \in 1 .. Len(ts) /\ SweepAt(ts, q + 1)' /\ stage' = "prepass"
      \/ stage' = "write" /\ tokens' = Expansion(ts)
  BY <1>1, <1>4, <1>5, SweepStep
<1>7. CASE q \in 1 .. Len(ts) /\ SweepAt(ts, q + 1)' /\ stage' = "prepass"
  <2>1. q + 1 \in 1 .. Len(ts) + 1
    BY <1>4, <1>7, LeftTyped
  <2> QED
    BY <1>7, <2>1 DEF Swept
<1>8. CASE stage' = "write" /\ tokens' = Expansion(ts)
  BY <1>8 DEF Swept
<1> QED
  BY <1>6, <1>7, <1>8

LEMMA ExpansionStays ==
  ASSUME ExpandInv, stage \notin {"parse", "prepass"}, stage' \notin {"parse", "prepass"},
         tokens' = tokens, source' = source
  PROVE  ExpandInv'
BY DEF ExpandInv, Swept

LEMMA ExpandStutters == ASSUME ExpandInv, UNCHANGED toolVars PROVE ExpandInv'
<1>1. /\ tokens' = tokens /\ stage' = stage /\ source' = source /\ line' = line
      /\ index' = index /\ substitutes' = substitutes /\ if_list' = if_list
  BY DEF toolVars, vars, parserVars, prepassVars
<1>2. ASSUME NEW ts, NEW q, SweepAt(ts, q) PROVE SweepAt(ts, q)'
  <2>1. PlaceIs(ts, q)'
    BY <1>1, <1>2 DEF SweepAt, PlaceIs
  <2>2. NamesAre(ts, q)'
    BY <1>1, <1>2 DEF SweepAt, NamesAre
  <2>3. SectionIs(ts, q)'
    BY <1>1, <1>2 DEF SweepAt, SectionIs
  <2> QED
    BY <2>1, <2>2, <2>3 DEF SweepAt
<1>3. ASSUME NEW ts, Swept(ts) PROVE Swept(ts)'
  BY <1>1, <1>2, <1>3 DEF Swept
<1>4. ReadSoFar => ReadSoFar'
  BY <1>1 DEF ReadSoFar
<1> QED
  BY <1>1, <1>3, <1>4 DEF ExpandInv

LEMMA NextExpands == ASSUME ChainInv, ExpandInv, [ToolNext]_toolVars PROVE ExpandInv'
<1>1. CASE Assemble
  <2>1. stage \in {"write", "data", "patch"} /\ stage' \in {"write", "data", "wild", "patch", "assembled"}
    BY <1>1, StageOfWriting DEF Assemble
  <2>2. tokens' = tokens /\ source' = source
    BY <1>1, TokensStay DEF Assemble, parserVars
  <2> QED
    BY <2>1, <2>2, ExpansionStays
<1>2. CASE Load
  BY <1>2, ExpansionStays DEF Load, parserVars
<1>3. CASE List
  <2>1. stage = "list" /\ stage' \in {"list", "done"}
    BY <1>3 DEF List, L!Next, L!print_disassemble, L!ListInstruction, L!ListNops, L!EndOfImage, L!Listing
  <2> QED
    BY <1>3, <2>1, ExpansionStays DEF List, parserVars
<1> QED
  BY <1>1, <1>2, <1>3, ParseReads, PreprocessExpands, ExpandStutters DEF ToolNext

LEMMA ExpandHolds == ToolSpec => []ExpandInv
BY InitReads, NextExpands, ChainHolds, PTL DEF ToolSpec

(* Whatever the text: if each name is defined once, and as something, what *)
(* the pre-pass hands to the assembler is the expansion of the text, with  *)
(* each name as what it means where it stands and without directives and   *)
(* the sections whose condition is zero.                                   *)
THEOREM NamesStayExpanded == ToolSpec => []NamesExpand
<1>1. ExpandInv => NamesExpand
  <2> SUFFICES ASSUME ExpandInv, stage = "write", NEW ts, ts = ParsedTokens(source), DefinedOnce(ts)
               PROVE  tokens = Expansion(ts)
    BY DEF NamesExpand
  <2> QED
    BY DEF ExpandInv, Swept
<1> QED
  BY <1>1, ExpandHolds, PTL

-----------------------------------------------------------------------------
(* The parser on a line that spells a statement.  Lexemes, and what a line *)
(* reads from a place on.                                                  *)
Lexes == {Lex(k, t) : k \in P!Kinds, t \in Texts}
Silent(x) == x.kind \notin ArgKinds \cup {"comment", "colon"}

LEMMA LexIs ==
  /\ \A k, t : Lex(k, t).kind = k /\ Lex(k, t).text = t /\ Lex(k, t).spaced = t \o " "
  /\ \A k : Mark(k).kind = k /\ Mark(k).text = NoText
  /\ \A k \in P!Kinds, t \in Texts : Lex(k, t) \in Lexes
  /\ \A k \in P!Kinds : Mark(k) \in Lexes
  /\ \A x \in Lexes : x.text \in Texts
<1>1. \A k, t : Lex(k, t).kind = k /\ Lex(k, t).text = t /\ Lex(k, t).spaced = t \o " "
  BY DEF Lex
<1>2. NoText \in Texts
  BY DEF Texts
<1>3. \A k \in P!Kinds, t \in Texts : Lex(k, t) \in Lexes
  BY DEF Lexes
<1>4. \A k : Mark(k) = Lex(k, NoText)
  BY DEF Mark
<1>5. ASSUME NEW x \in Lexes PROVE x.text \in Texts
  <2>1. PICK k \in P!Kinds, t \in Texts : x = Lex(k, t)
    BY DEF Lexes
  <2>2. Lex(k, t).text = t
    BY <1>1
  <2> QED
    BY <2>1, <2>2
<1> QED
  BY <1>1, <1>2, <1>3, <1>4, <1>5

Piece(l, q, s) == q + Len(s) - 1 <= Len(l) /\ \A i \in 1 .. Len(s) : l[q + i - 1] = s[i]

LEMMA PieceSplit ==
  ASSUME NEW X, NEW a \in Seq(X), NEW b \in Seq(X), NEW l, Len(l) \in Nat, NEW q \in Nat, Piece(l, q, a \o b)
  PROVE  Piece(l, q, a) /\ Piece(l, q + Len(a), b) /\ Len(a \o b) = Len(a) + Len(b)
<1> DEFINE s == a \o b
<1>1. /\ Len(s) = Len(a) + Len(b) /\ Len(a) \in Nat /\ Len(b) \in Nat
      /\ \A k \in 1 .. Len(a) : s[k] = a[k]
      /\ \A k \in 1 .. Len(b) : s[Len(a) + k] = b[k]
  BY JoinedRead
<1> HIDE DEF s
<1>2. q + Len(s) - 1 <= Len(l) /\ \A i \in 1 .. Len(s) : l[q + i - 1] = s[i]
  BY DEF Piece, s
<1>3. \A i \in 1 .. Len(a) : l[q + i - 1] = a[i]
  BY <1>1, <1>2
<1>4. ASSUME NEW i \in 1 .. Len(b) PROVE l[(q + Len(a)) + i - 1] = b[i]
  <2>1. Len(a) + i \in 1 .. Len(s) /\ q + (Len(a) + i) - 1 = (q + Len(a)) + i - 1
    BY <1>1
  <2> QED
    BY <2>1, <1>1, <1>2
<1>5. q + Len(a) - 1 <= Len(l) /\ (q + Len(a)) + Len(b) - 1 <= Len(l)
  BY <1>1, <1>2
<1> QED
  BY <1>1, <1>3, <1>4, <1>5 DEF Piece, s

(* White space is skipped up to what is none. *)
LEMMA NothingSkipped ==
  ASSUME NEW l, Len(l) \in Nat, NEW p \in 1 .. Len(l) + 1, ~P!IsAt(l, p, P!White)
  PROVE  P!skip_whitespace(l, p) = p
<1> DEFINE Found == {q \in p .. Len(l) + 1 : ~P!IsAt(l, q, P!White)}
<1>1. p \in Found /\ Found \in SUBSET Nat /\ \A q \in Found : q >= p
  OBVIOUS
<1>2. P!skip_whitespace(l, p) = Min(Found)
  BY SameMin DEF P!skip_whitespace
<1> HIDE DEF Found
<1>3. Min(Found) \in Found /\ \A y \in Found : Min(Found) <= y
  BY <1>1, LeastOfNats
<1>4. Min(Found) <= p /\ Min(Found) >= p /\ Min(Found) \in Nat
  BY <1>1, <1>3
<1> QED
  BY <1>2, <1>4

LEMMA OneSkipped ==
  ASSUME NEW l, Len(l) \in Nat, NEW p \in 1 .. Len(l), P!IsAt(l, p, P!White)
  PROVE  P!skip_whitespace(l, p) = P!skip_whitespace(l, p + 1)
<1>1. {q \in p .. Len(l) + 1 : ~P!IsAt(l, q, P!White)} = {q \in p + 1 .. Len(l) + 1 : ~P!IsAt(l, q, P!White)}
  OBVIOUS
<1> QED
  BY <1>1 DEF P!skip_whitespace

(* What is read of the arguments is what is read up to the first stop. *)
LEMMA ReadToStop ==
  ASSUME NEW l, Len(l) \in Nat, NEW p \in 1 .. Len(l) + 1, NEW e \in p .. Len(l) + 1,
         P!Stops(l, e), \A r \in p .. e - 1 : ~P!Stops(l, r)
  PROVE  P!Arguments(l, p) = (CHOOSE f : IsRead(f, l, p, e - p))[e - p]
<1> DEFINE Found == {q \in p .. Len(l) + 1 : P!Stops(l, q)}
           end == P!Min(Found)
<1>1. P!Arguments(l, p) = (CHOOSE f : IsRead(f, l, p, end - p))[end - p]
  BY DEF P!Arguments, IsRead, ReadOn, ArgKinds
<1>2. e \in Found /\ Found \in SUBSET Nat
  OBVIOUS
<1>3. \A q \in Found : q >= e
  OBVIOUS
<1> HIDE DEF Found
<1>4. Min(Found) \in Found /\ \A y \in Found : Min(Found) <= y
  BY <1>2, LeastOfNats
<1>5. Min(Found) \in Nat /\ Min(Found) <= e /\ Min(Found) >= e
  BY <1>2, <1>3, <1>4
<1>6. end = e
  BY <1>5, SameMin
<1> HIDE DEF end
<1> QED
  BY ONLY <1>1, <1>6

(* Lexemes that are no arguments add nothing. *)
LEMMA SilentRead ==
  ASSUME NEW h, NEW l, NEW p \in Nat, NEW a \in Nat, NEW c \in Nat,
         \A i \in a + 1 .. a + c : h[i] = ReadOn(h[i - 1], l[p + i - 1]),
         \A i \in a + 1 .. a + c : Silent(l[p + i - 1])
  PROVE  h[a + c] = h[a]
<1> DEFINE Holds == {n \in 0 .. c : h[a + n] = h[a]}
<1>1. 0 \in Holds
  OBVIOUS
<1>2. ASSUME NEW n \in 1 .. c, n - 1 \in Holds PROVE n \in Holds
  <2>1. a + n \in a + 1 .. a + c /\ (a + n) - 1 = a + (n - 1)
    OBVIOUS
  <2>2. h[a + n] = ReadOn(h[a + (n - 1)], l[p + (a + n) - 1]) /\ Silent(l[p + (a + n) - 1])
    BY <2>1
  <2>3. h[a + n] = h[a + (n - 1)]
    BY <2>2 DEF ReadOn, Silent
  <2> QED
    BY <1>2, <2>3
<1> HIDE DEF Holds
<1>3. \A n \in 0 .. c : n \in Holds
  BY <1>1, <1>2, Induction
<1>4. c \in Holds
  BY <1>3
<1> QED
  BY <1>4 DEF Holds

(* A statement that the line may spell, and how. *)
Spells(st, style) ==
  st \in SourceStatement /\ style \in Styles /\ (st.opcode = NoText => st.operands = <<>>)

SpelledOn(s, st, style, n) == s \o OperandPart(st, style, n)
IsSpelled(f, st, style) ==
  f = [n \in 0 .. Len(st.operands) |-> IF n = 0 THEN <<>> ELSE SpelledOn(f[n - 1], st, style, n)]
SpelledTo(st, style) == CHOOSE f : IsSpelled(f, st, style)

(* The part of one operand: some lexemes that are silent, and its text. *)
PartShape(u, o, n) ==
  /\ u \in Seq(Lexes) /\ Len(u) > 0 /\ u[Len(u)] = Lex(o.kind, o.text)
  /\ \A i \in 1 .. Len(u) - 1 : Silent(u[i])
  /\ u[1].kind \notin P!White \cup {"colon"} /\ (n # 1 => u[1].kind = "comma")

LEMMA StyleMarks ==
  ASSUME NEW style \in Styles
  PROVE  /\ style.gap \in P!White /\ style.gap \in P!Kinds
         /\ Silent(Mark(style.gap)) /\ Silent(Mark("comma")) /\ Silent(Mark("other"))
         /\ Mark(style.gap) \in Lexes /\ Mark("comma") \in Lexes /\ Mark("other") \in Lexes
         /\ Mark(style.gap).kind = style.gap /\ style.before \in BOOLEAN /\ style.comment \in BOOLEAN
<1>1. style.gap \in {"blank", "tab"} /\ style.before \in BOOLEAN /\ style.comment \in BOOLEAN
  BY DEF Styles
<1>2. style.gap \in P!Kinds /\ "comma" \in P!Kinds /\ "other" \in P!Kinds
  BY <1>1 DEF P!Kinds
<1>3. \A k : Mark(k).kind = k
  BY LexIs
<1>4. \A k \in P!Kinds : Mark(k) \in Lexes
  BY LexIs
<1>5. Silent(Mark(style.gap)) /\ Silent(Mark("comma")) /\ Silent(Mark("other"))
  BY <1>1, <1>3 DEF Silent, ArgKinds
<1> QED
  BY <1>1, <1>2, <1>3, <1>4, <1>5 DEF P!White

LEMMA PartShaped ==
  ASSUME NEW st, NEW style, Spells(st, style), NEW n \in 1 .. Len(st.operands)
  PROVE  PartShape(OperandPart(st, style, n), st.operands[n], n)
<1> DEFINE o == st.operands[n]
           x == Lex(o.kind, o.text)
           g == Mark(style.gap)
           c == Mark("comma")
           m == Mark("other")
           u == OperandPart(st, style, n)
<1>1. o \in SourceOperand /\ style \in Styles
  BY DEF Spells, SourceStatement
<1>2. o.kind \in {"id", "num", "text"} /\ o.text \in Texts /\ o.minus \in BOOLEAN
  BY <1>1 DEF SourceOperand
<1>3. x \in Lexes /\ x.kind = o.kind
  BY <1>2, LexIs DEF P!Kinds
<1>4. g \in Lexes /\ c \in Lexes /\ m \in Lexes /\ Silent(g) /\ Silent(c) /\ Silent(m)
  BY <1>1, StyleMarks
<1>5. c.kind = "comma" /\ m.kind = "other"
  BY LexIs
<1>6. u = (IF n = 1 THEN <<>> ELSE <<c, g>>) \o (IF o.minus THEN <<m>> ELSE <<>>) \o <<x>>
  BY DEF OperandPart
<1>7. x.kind \notin P!White \cup {"colon"} /\ c.kind \notin P!White \cup {"colon"} /\ m.kind \notin P!White \cup {"colon"}
  BY <1>2, <1>3, <1>5 DEF P!White
<1> DEFINE join == IF n = 1 THEN <<>> ELSE <<c, g>>
           sign == IF o.minus THEN <<m>> ELSE <<>>
           v == join \o sign
<1>8. u = v \o <<x>>
  BY <1>6
<1>9. v \in Seq(Lexes) /\ (\A i \in 1 .. Len(v) : Silent(v[i])) /\ (Len(v) > 0 => v[1] \in {c, m}) /\ (n # 1 => Len(v) > 0 /\ v[1] = c)
  <2> HIDE DEF u, g, c, m, x, o
  <2>1. join \in {<<>>, <<c, g>>} /\ (n # 1 => join = <<c, g>>) /\ sign \in {<<>>, <<m>>}
    OBVIOUS
  <2>2. CASE join = <<>>
    <3>1. v = sign
      <4>1. sign \in Seq(Lexes)
        BY <1>4
      <4> HIDE DEF join, sign
      <4> QED
        BY <2>2, <4>1
    <3>2. n = 1
      BY <2>1, <2>2
    <3> QED
      BY <1>4, <2>1, <3>1, <3>2
  <2>3. CASE join = <<c, g>>
    <3>1. CASE sign = <<>>
      <4>1. v = <<c, g>>
        <5>1. <<c, g>> \in Seq(Lexes)
          BY <1>4
        <5> HIDE DEF join, sign
        <5> QED
          BY <2>3, <3>1, <5>1
      <4> QED
        BY <1>4, <4>1
    <3>2. CASE sign = <<m>>
      <4> HIDE DEF join, sign
      <4>1. /\ Len(v) = 3 /\ v[1] = c /\ v[2] = g /\ v[3] = m /\ v \in Seq(Lexes)
        BY <1>4, <2>3, <3>2
      <4>2. \A i \in 1 .. 3 : i = 1 \/ i = 2 \/ i = 3
        OBVIOUS
      <4> HIDE DEF v
      <4> QED
        BY <1>4, <4>1, <4>2
    <3> QED
      BY <2>1, <3>1, <3>2
  <2> QED
    BY <2>1, <2>2, <2>3
<1> HIDE DEF u, g, c, m, x, v
<1>10. u = Append(v, x)
  BY <1>3, <1>8, <1>9
<1>11. /\ u \in Seq(Lexes) /\ Len(u) = Len(v) + 1 /\ u[Len(v) + 1] = x
       /\ \A i \in 1 .. Len(v) : u[i] = v[i]
  BY <1>3, <1>9, <1>10
<1>12. Len(v) \in Nat
  BY <1>9
<1>13. u[1].kind \notin P!White \cup {"colon"} /\ (n # 1 => u[1].kind = "comma")
  <2>1. CASE Len(v) = 0
    BY <2>1, <1>7, <1>9, <1>11
  <2>2. CASE Len(v) > 0
    <3>1. u[1] = v[1]
      BY <2>2, <1>11, <1>12
    <3> QED
      BY <2>2, <3>1, <1>5, <1>7, <1>9
  <2> QED
    BY <1>12, <2>1, <2>2
<1>14. \A i \in 1 .. Len(u) - 1 : Silent(u[i])
  BY <1>9, <1>11, <1>12
<1>15. Len(u) > 0 /\ u[Len(u)] = x
  BY <1>11, <1>12
<1> HIDE DEF o
<1>16. PartShape(u, o, n)
  BY <1>11, <1>13, <1>14, <1>15 DEF PartShape, x
<1> QED
  BY <1>16 DEF u, o

LEMMA SpelledSteps ==
  ASSUME NEW st, NEW style, Spells(st, style)
  PROVE  /\ Len(st.operands) \in Nat
         /\ OperandsPart(st, style) = SpelledTo(st, style)[Len(st.operands)]
         /\ \A n \in 0 .. Len(st.operands) : SpelledTo(st, style)[n] \in Seq(Lexes)
         /\ SpelledTo(st, style)[0] = <<>>
         /\ \A n \in 1 .. Len(st.operands) : SpelledTo(st, style)[n] = SpelledOn(SpelledTo(st, style)[n - 1], st, style, n)
<1> DEFINE N == Len(st.operands)
           D == Seq(Lexes)
           G == [y \in (1 .. N) \X D |-> SpelledOn(y[2], st, style, y[1])]
<1>a. N \in Nat
  BY DEF Spells, SourceStatement
<1>1. ASSUME NEW n \in 1 .. N, NEW l \in D PROVE SpelledOn(l, st, style, n) \in D
  <2>1. OperandPart(st, style, n) \in Seq(Lexes)
    BY PartShaped DEF PartShape
  <2> QED
    BY <2>1 DEF SpelledOn
<1>2. <<>> \in D
  OBVIOUS
<1>9. OperandsPart(st, style) = SpelledTo(st, style)[N]
  BY DEF OperandsPart, SpelledTo, IsSpelled, SpelledOn
<1> HIDE DEF D, N
<1>3. G \in [(1 .. N) \X D -> D] /\ \A n \in 1 .. N, l \in D : G[<<n, l>>] = SpelledOn(l, st, style, n)
  <2>1. \A y \in (1 .. N) \X D : y[1] \in 1 .. N /\ y[2] \in D
    OBVIOUS
  <2> QED
    BY <1>1, <2>1
<1> HIDE DEF G
<1>4. PICK f \in [0 .. N -> D] : Follows(f, N, <<>>, G)
  BY <1>a, <1>2, <1>3, Recursion
<1>5. ASSUME NEW n \in 1 .. N PROVE f[n] = SpelledOn(f[n - 1], st, style, n)
  <2>1. n - 1 \in 0 .. N
    BY <1>a
  <2>2. f[n - 1] \in D
    BY <2>1, <1>4
  <2> QED
    BY <2>2, <1>3, <1>4 DEF Follows
<1>6. f[0] = <<>>
  BY <1>4 DEF Follows
<1>7. \A n \in 0 .. N : f[n] = IF n = 0 THEN <<>> ELSE SpelledOn(f[n - 1], st, style, n)
  BY <1>a, <1>5, <1>6
<1>8. IsSpelled(f, st, style)
  BY <1>4, <1>7 DEF IsSpelled, N
<1> DEFINE h == SpelledTo(st, style)
<1>10. IsSpelled(h, st, style)
  BY <1>8 DEF SpelledTo
<1> HIDE DEF h
<1>11. h[0] = <<>>
  <2>1. 0 \in 0 .. N
    BY <1>a
  <2> QED
    BY <2>1, <1>10 DEF IsSpelled, N
<1>12. ASSUME NEW n \in 1 .. N PROVE h[n] = SpelledOn(h[n - 1], st, style, n)
  <2>1. n \in 0 .. N /\ n # 0
    BY <1>a
  <2> QED
    BY <2>1, <1>10 DEF IsSpelled, N
<1> DEFINE Holds == {n \in 0 .. N : h[n] \in D}
<1>13. 0 \in Holds
  BY <1>a, <1>2, <1>11
<1>14. ASSUME NEW n \in 1 .. N, n - 1 \in Holds PROVE n \in Holds
  BY <1>a, <1>1, <1>12, <1>14
<1>15. \A n \in 0 .. N : h[n] \in D
  <2> HIDE DEF Holds
  <2>1. \A n \in 0 .. N : n \in Holds
    BY <1>a, <1>13, <1>14, Induction
  <2> QED
    BY <2>1 DEF Holds
<1> QED
  BY <1>a, <1>9, <1>11, <1>12, <1>15 DEF h, N, D

(* What is spelled holds no comment and no colon, a number is followed by  *)
(* a comma, and it begins with no white space.                             *)
SpelledGood(s, st, n) ==
  /\ \A i \in 1 .. Len(s) : s[i].kind \notin {"comment", "colon"}
  /\ \A i \in 1 .. Len(s) - 1 : s[i].kind = "num" => s[i + 1].kind = "comma"
  /\ IF n = 0 THEN s = <<>>
     ELSE Len(s) > 0 /\ s[Len(s)].kind = st.operands[n].kind /\ s[1].kind \notin P!White \cup {"colon"}

LEMMA GoodStep ==
  ASSUME NEW st, NEW n \in Nat \ {0}, NEW s \in Seq(Lexes), NEW u, PartShape(u, st.operands[n], n),
         st.operands[n] \in SourceOperand, SpelledGood(s, st, n - 1)
  PROVE  SpelledGood(s \o u, st, n)
<1> DEFINE o == st.operands[n]
           w == s \o u
<1>1. /\ u \in Seq(Lexes) /\ Len(u) > 0 /\ u[Len(u)] = Lex(o.kind, o.text)
      /\ \A i \in 1 .. Len(u) - 1 : Silent(u[i])
      /\ u[1].kind \notin P!White \cup {"colon"} /\ (n # 1 => u[1].kind = "comma")
  BY DEF PartShape
<1>2. o.kind \in {"id", "num", "text"}
  BY DEF SourceOperand
<1>3. u[Len(u)].kind = o.kind
  <2>1. Lex(o.kind, o.text).kind = o.kind
    BY DEF Lex
  <2> QED
    BY <1>1, <2>1
<1>4. /\ Len(w) = Len(s) + Len(u) /\ Len(s) \in Nat /\ Len(u) \in Nat
      /\ \A k \in 1 .. Len(s) : w[k] = s[k]
      /\ \A k \in 1 .. Len(u) : w[Len(s) + k] = u[k]
  BY <1>1, JoinedRead
<1>5. ASSUME NEW i \in 1 .. Len(w), i > Len(s) PROVE i - Len(s) \in 1 .. Len(u) /\ w[i] = u[i - Len(s)]
  <2>1. i - Len(s) \in 1 .. Len(u) /\ Len(s) + (i - Len(s)) = i
    BY <1>4, <1>5
  <2> QED
    BY <2>1, <1>4
<1> HIDE DEF w, o
<1>6. \A i \in 1 .. Len(u) : u[i].kind \notin {"comment", "colon"}
  <2> SUFFICES ASSUME NEW i \in 1 .. Len(u) PROVE u[i].kind \notin {"comment", "colon"}
    OBVIOUS
  <2>1. CASE i = Len(u)
    BY <2>1, <1>2, <1>3
  <2>2. CASE i # Len(u)
    <3>1. i \in 1 .. Len(u) - 1
      BY <2>2, <1>4
    <3> QED
      BY <3>1, <1>1 DEF Silent
  <2> QED
    BY <2>1, <2>2
<1>7. ASSUME NEW i \in 1 .. Len(w) PROVE w[i].kind \notin {"comment", "colon"}
  <2>1. CASE i <= Len(s)
    <3>1. i \in 1 .. Len(s)
      BY <2>1, <1>4
    <3> QED
      BY <3>1, <1>4 DEF SpelledGood
  <2>2. CASE i > Len(s)
    BY <2>2, <1>5, <1>6
  <2> QED
    BY <1>4, <2>1, <2>2
<1>8. ASSUME NEW i \in 1 .. Len(w) - 1, w[i].kind = "num" PROVE w[i + 1].kind = "comma"
  <2>1. CASE i < Len(s)
    <3>1. i \in 1 .. Len(s) - 1 /\ i \in 1 .. Len(s) /\ i + 1 \in 1 .. Len(s)
      BY <2>1, <1>4
    <3>2. w[i] = s[i] /\ w[i + 1] = s[i + 1]
      BY <3>1, <1>4
    <3> QED
      BY <3>1, <3>2, <1>8 DEF SpelledGood
  <2>2. CASE i = Len(s)
    <3>1. n # 1
      BY <2>2, <1>4 DEF SpelledGood
    <3>2. w[i + 1] = u[1]
      BY <2>2, <1>1, <1>4
    <3> QED
      BY <3>1, <3>2, <1>1
  <2>3. CASE i > Len(s)
    <3>1. i \in 1 .. Len(w) /\ i - Len(s) \in 1 .. Len(u) - 1
      BY <2>3, <1>4
    <3>2. Silent(w[i])
      BY <3>1, <2>3, <1>1, <1>5
    <3> QED
      BY <3>2, <1>8 DEF Silent, ArgKinds
  <2> QED
    BY <1>4, <2>1, <2>2, <2>3
<1>9. Len(w) > 0 /\ w[Len(w)].kind = o.kind
  <2>1. Len(w) \in 1 .. Len(w) /\ Len(w) > Len(s) /\ Len(w) - Len(s) = Len(u)
    BY <1>1, <1>4
  <2> QED
    BY <2>1, <1>3, <1>5
<1>10. w[1].kind \notin P!White \cup {"colon"}
  <2>1. CASE Len(s) = 0
    BY <2>1, <1>1, <1>4
  <2>2. CASE Len(s) > 0
    <3>1. w[1] = s[1]
      BY <2>2, <1>4
    <3>2. n - 1 # 0
      BY <2>2 DEF SpelledGood
    <3> QED
      BY <3>1, <3>2 DEF SpelledGood
  <2> QED
    BY <1>4, <2>1, <2>2
<1>11. n # 0
  OBVIOUS
<1>12. SpelledGood(w, st, n)
  BY <1>7, <1>8, <1>9, <1>10, <1>11 DEF SpelledGood, o
<1> QED
  BY <1>12 DEF w

LEMMA SpelledIsGood ==
  ASSUME NEW st, NEW style, Spells(st, style)
  PROVE  \A n \in 0 .. Len(st.operands) : SpelledGood(SpelledTo(st, style)[n], st, n)
<1> DEFINE N == Len(st.operands)
           f == SpelledTo(st, style)
           Holds == {n \in 0 .. N : SpelledGood(f[n], st, n)}
<1>1. /\ N \in Nat /\ f[0] = <<>> /\ \A n \in 0 .. N : f[n] \in Seq(Lexes)
      /\ \A n \in 1 .. N : f[n] = SpelledOn(f[n - 1], st, style, n)
  BY SpelledSteps
<1>2. \A n \in 1 .. N : PartShape(OperandPart(st, style, n), st.operands[n], n) /\ st.operands[n] \in SourceOperand
  BY PartShaped DEF Spells, SourceStatement
<1> HIDE DEF f
<1>3. 0 \in Holds
  <2>1. SpelledGood(f[0], st, 0)
    BY <1>1 DEF SpelledGood
  <2> QED
    BY <2>1, <1>1
<1>4. ASSUME NEW n \in 1 .. N, n - 1 \in Holds PROVE n \in Holds
  <2>1. n \in Nat \ {0} /\ n - 1 \in 0 .. N /\ n \in 0 .. N
    BY <1>1
  <2>2. f[n - 1] \in Seq(Lexes) /\ SpelledGood(f[n - 1], st, n - 1)
    BY <2>1, <1>1, <1>4
  <2>3. SpelledGood(f[n - 1] \o OperandPart(st, style, n), st, n)
    BY <2>1, <2>2, <1>2, GoodStep
  <2>4. f[n] = f[n - 1] \o OperandPart(st, style, n)
    BY <1>1 DEF SpelledOn
  <2> QED
    BY <2>1, <2>3, <2>4
<1>5. \A n \in 0 .. N : n \in Holds
  <2> HIDE DEF Holds
  <2> QED
    BY <1>1, <1>3, <1>4, Induction
<1> QED
  BY <1>5 DEF f

(* A line that holds all operands holds the first n of them. *)
LEMMA SpelledPieces ==
  ASSUME NEW st, NEW style, Spells(st, style), NEW l, Len(l) \in Nat, NEW q \in Nat,
         Piece(l, q, SpelledTo(st, style)[Len(st.operands)])
  PROVE  \A n \in 0 .. Len(st.operands) : Piece(l, q, SpelledTo(st, style)[n])
<1> DEFINE N == Len(st.operands)
           f == SpelledTo(st, style)
           Holds == {m \in 0 .. N : Piece(l, q, f[N - m])}
<1>1. /\ N \in Nat /\ \A n \in 0 .. N : f[n] \in Seq(Lexes)
      /\ \A n \in 1 .. N : f[n] = f[n - 1] \o OperandPart(st, style, n)
  BY SpelledSteps DEF SpelledOn
<1>2. \A n \in 1 .. N : OperandPart(st, style, n) \in Seq(Lexes)
  BY PartShaped DEF PartShape
<1> HIDE DEF f, N
<1>3. 0 \in Holds
  <2>1. N - 0 = N /\ 0 \in 0 .. N
    BY <1>1
  <2> QED
    BY <2>1 DEF f, N
<1>4. ASSUME NEW m \in 1 .. N, m - 1 \in Holds PROVE m \in Holds
  <2> DEFINE n == N - (m - 1)
  <2>1. n \in 1 .. N /\ n - 1 \in 0 .. N /\ N - m = n - 1 /\ m \in 0 .. N
    BY <1>1
  <2>2. Piece(l, q, f[n])
    BY <1>4
  <2> HIDE DEF n
  <2>3. Piece(l, q, f[n - 1] \o OperandPart(st, style, n))
    BY <2>1, <2>2, <1>1
  <2>4. Piece(l, q, f[n - 1])
    BY <2>1, <2>3, <1>1, <1>2, PieceSplit
  <2> QED
    BY <2>1, <2>4
<1>5. \A m \in 0 .. N : m \in Holds
  <2> HIDE DEF Holds
  <2> QED
    BY <1>1, <1>3, <1>4, Induction
<1>6. ASSUME NEW n \in 0 .. N PROVE Piece(l, q, f[n])
  <2>1. N - n \in 0 .. N /\ N - (N - n) = n
    BY <1>1
  <2>2. N - n \in Holds
    BY <2>1, <1>5
  <2> QED
    BY <2>1, <2>2
<1> QED
  BY <1>6 DEF f, N

(* Reading the operands gives the operands. *)
ArgsTo(st, n) == [i \in 1 .. n |-> [sv |-> st.operands[i].text, is_imm |-> st.operands[i].kind = "num"]]

LEMMA ArgsSteps ==
  ASSUME NEW st, st.operands \in Seq(SourceOperand)
  PROVE  /\ ArgsTo(st, 0) = <<>> /\ ArgsTo(st, Len(st.operands)) = Operands(st)
         /\ \A n \in 1 .. Len(st.operands) :
              Append(ArgsTo(st, n - 1), [sv |-> st.operands[n].text, is_imm |-> st.operands[n].kind = "num"])
                = ArgsTo(st, n)
<1> DEFINE N == Len(st.operands)
           x(i) == [sv |-> st.operands[i].text, is_imm |-> st.operands[i].kind = "num"]
<1>1. N \in Nat /\ DOMAIN st.operands = 1 .. N
  OBVIOUS
<1>2. \A n : ArgsTo(st, n) = [i \in 1 .. n |-> x(i)]
  BY DEF ArgsTo
<1>3. \A i \in 1 .. N : x(i) \in Arg
  <2> SUFFICES ASSUME NEW i \in 1 .. N PROVE x(i) \in Arg
    OBVIOUS
  <2>1. st.operands[i] \in SourceOperand
    OBVIOUS
  <2>2. st.operands[i].text \in Texts /\ (st.operands[i].kind = "num") \in BOOLEAN
    BY <2>1 DEF SourceOperand
  <2> QED
    BY <2>2 DEF Arg
<1>4. Operands(st) = [i \in 1 .. N |-> x(i)]
  BY <1>1 DEF Operands
<1> HIDE DEF x, N
<1>5. \A n \in 0 .. N : ArgsTo(st, n) \in Seq(Arg) /\ Len(ArgsTo(st, n)) = n
  <2> SUFFICES ASSUME NEW n \in 0 .. N PROVE ArgsTo(st, n) \in Seq(Arg) /\ Len(ArgsTo(st, n)) = n
    OBVIOUS
  <2>1. n \in Nat /\ \A i \in 1 .. n : x(i) \in Arg
    BY <1>1, <1>3
  <2> QED
    BY <1>2, <2>1, FunctionSeq
<1>6. ArgsTo(st, 0) = <<>>
  <2>1. 0 \in 0 .. N
    BY <1>1
  <2> QED
    BY <2>1, <1>5
<1>7. ASSUME NEW n \in 1 .. N PROVE Append(ArgsTo(st, n - 1), x(n)) = ArgsTo(st, n)
  <2>1. n \in 0 .. N /\ n - 1 \in 0 .. N /\ (n - 1) + 1 = n
    BY <1>1
  <2> DEFINE a == ArgsTo(st, n - 1)
             b == ArgsTo(st, n)
  <2>2. a \in Seq(Arg) /\ b \in Seq(Arg) /\ Len(a) = n - 1 /\ Len(b) = n /\ x(n) \in Arg
    BY <2>1, <1>3, <1>5
  <2>3. \A i \in 1 .. n - 1 : a[i] = x(i)
    BY <1>2
  <2>4. \A i \in 1 .. n : b[i] = x(i)
    BY <1>2
  <2> HIDE DEF a, b
  <2>5. Append(a, x(n)) = b
    <3>1. Append(a, x(n)) \in Seq(Arg) /\ Len(Append(a, x(n))) = n
      BY <2>1, <2>2
    <3>2. \A i \in 1 .. n : Append(a, x(n))[i] = b[i]
      BY <2>1, <2>2, <2>3, <2>4
    <3> QED
      BY <2>2, <3>1, <3>2
  <2> QED
    BY <2>5 DEF a, b
<1> QED
  BY <1>2, <1>4, <1>6, <1>7 DEF x, N

LEMMA OperandsRead ==
  ASSUME NEW st, NEW style, Spells(st, style), NEW l, Len(l) \in Nat, NEW p \in Nat, NEW h,
         Piece(l, p + 1, OperandsPart(st, style)), h[1] = <<>>,
         \A i \in 2 .. Len(OperandsPart(st, style)) + 1 : h[i] = ReadOn(h[i - 1], l[p + i - 1])
  PROVE  h[Len(OperandsPart(st, style)) + 1] = Operands(st)
<1> DEFINE N == Len(st.operands)
           f == SpelledTo(st, style)
           M == Len(f[N])
           Holds == {n \in 0 .. N : h[1 + Len(f[n])] = ArgsTo(st, n)}
<1>1. /\ N \in Nat /\ f[0] = <<>> /\ \A n \in 0 .. N : f[n] \in Seq(Lexes)
      /\ \A n \in 1 .. N : f[n] = f[n - 1] \o OperandPart(st, style, n)
  BY SpelledSteps DEF SpelledOn
<1>2. OperandsPart(st, style) = f[N]
  BY SpelledSteps
<1>3. st.operands \in Seq(SourceOperand)
  BY DEF Spells, SourceStatement
<1>4. \A n \in 1 .. N : PartShape(OperandPart(st, style, n), st.operands[n], n) /\ st.operands[n] \in SourceOperand
  BY <1>3, PartShaped
<1>5. \A n \in 0 .. N : Piece(l, p + 1, f[n])
  BY <1>2, SpelledPieces
<1>6. \A i \in 2 .. M + 1 : h[i] = ReadOn(h[i - 1], l[p + i - 1])
  BY <1>2
<1>7. ArgsTo(st, 0) = <<>> /\ ArgsTo(st, N) = Operands(st)
  BY <1>3, ArgsSteps
<1>8. \A n \in 1 .. N : Append(ArgsTo(st, n - 1), [sv |-> st.operands[n].text, is_imm |-> st.operands[n].kind = "num"]) = ArgsTo(st, n)
  BY <1>3, ArgsSteps
<1> HIDE DEF f, N
<1>9. \A n \in 0 .. N : Len(f[n]) \in Nat
  BY <1>1
<1>10. M \in Nat
  BY <1>1, <1>9
<1> HIDE DEF M
(* A shorter prefix is not longer than the whole. *)
<1>11. \A n \in 0 .. N : Len(f[n]) <= M
  <2> DEFINE NotLonger == {m \in 0 .. N : Len(f[N - m]) <= M}
  <2>1. 0 \in NotLonger
    <3>1. 0 \in 0 .. N /\ N - 0 = N
      BY <1>1
    <3> QED
      BY <3>1, <1>10 DEF M
  <2>2. ASSUME NEW m \in 1 .. N, m - 1 \in NotLonger PROVE m \in NotLonger
    <3> DEFINE n == N - (m - 1)
    <3>1. n \in 1 .. N /\ n - 1 \in 0 .. N /\ n \in 0 .. N /\ N - m = n - 1 /\ m \in 0 .. N
      BY <1>1
    <3>2. Len(f[n]) <= M
      BY <2>2
    <3> HIDE DEF n
    <3>3. f[n] = f[n - 1] \o OperandPart(st, style, n) /\ f[n - 1] \in Seq(Lexes) /\ OperandPart(st, style, n) \in Seq(Lexes)
      BY <1>1, <1>4, <3>1 DEF PartShape
    <3>4. Len(f[n]) = Len(f[n - 1]) + Len(OperandPart(st, style, n)) /\ Len(OperandPart(st, style, n)) \in Nat
      BY <3>3, JoinedRead
    <3>5. Len(f[n - 1]) <= M
      BY <3>1, <3>2, <3>4, <1>9, <1>10
    <3> QED
      BY <3>1, <3>5
  <2> HIDE DEF NotLonger
  <2>3. \A m \in 0 .. N : m \in NotLonger
    BY <1>1, <2>1, <2>2, Induction
  <2>4. ASSUME NEW n \in 0 .. N PROVE Len(f[n]) <= M
    <3>1. N - n \in 0 .. N /\ N - (N - n) = n
      BY <1>1
    <3> QED
      BY <3>1, <2>3 DEF NotLonger
  <2> QED
    BY <2>4
<1>12. 0 \in Holds
  <2>1. 0 \in 0 .. N /\ Len(f[0]) = 0
    BY <1>1
  <2> QED
    BY <2>1, <1>7
<1>13. ASSUME NEW n \in 1 .. N, n - 1 \in Holds PROVE n \in Holds
  <2> DEFINE u == OperandPart(st, style, n)
             o == st.operands[n]
             a == 1 + Len(f[n - 1])
             c == Len(u) - 1
  <2>1. n - 1 \in 0 .. N /\ n \in 0 .. N
    BY <1>1
  <2>2. /\ u \in Seq(Lexes) /\ Len(u) > 0 /\ u[Len(u)] = Lex(o.kind, o.text)
        /\ \A i \in 1 .. Len(u) - 1 : Silent(u[i])
    BY <1>4 DEF PartShape
  <2>3. o.kind \in ArgKinds
    BY <1>4 DEF SourceOperand, ArgKinds
  <2>4. f[n] = f[n - 1] \o u /\ f[n - 1] \in Seq(Lexes) /\ Len(f[n]) <= M /\ Piece(l, p + 1, f[n])
    BY <1>1, <1>5, <1>11, <2>1
  <2>5. h[a] = ArgsTo(st, n - 1)
    BY <1>13
  <2> HIDE DEF u, o
  <2>6. Piece(l, p + 1 + Len(f[n - 1]), u) /\ Len(f[n]) = Len(f[n - 1]) + Len(u)
    <3>1. p + 1 \in Nat /\ Piece(l, p + 1, f[n - 1] \o u)
      BY <2>4
    <3>2. Piece(l, p + 1 + Len(f[n - 1]), u) /\ Len(f[n - 1] \o u) = Len(f[n - 1]) + Len(u)
      BY <2>2, <2>4, <3>1, PieceSplit
    <3> QED
      BY <2>4, <3>2
  <2>7. a \in Nat /\ c \in Nat /\ Len(u) \in Nat /\ a >= 1 /\ a + c + 1 = 1 + Len(f[n]) /\ a + c + 1 <= M + 1
    <3>1. Len(u) \in Nat /\ Len(u) > 0 /\ Len(f[n - 1]) \in Nat
      BY <2>1, <2>2, <1>9
    <3>2. Len(f[n]) = Len(f[n - 1]) + Len(u) /\ Len(f[n]) <= M
      BY <2>4, <2>6
    <3> DEFINE y == Len(f[n - 1])
               z == Len(u)
               w == Len(f[n])
    <3>3. a = 1 + y /\ c = z - 1
      OBVIOUS
    <3>4. y \in Nat /\ z \in Nat /\ z > 0 /\ w = y + z /\ w <= M
      BY <3>1, <3>2
    <3> HIDE DEF a, c, y, z, w
    <3>5. a \in Nat /\ c \in Nat /\ z \in Nat /\ a >= 1 /\ a + c + 1 = 1 + w /\ a + c + 1 <= M + 1
      BY ONLY <3>3, <3>4, <1>10
    <3> QED
      BY <3>5 DEF z, w
  <2>8. \A i \in 1 .. Len(u) : l[p + a + i - 1] = u[i]
    <3>1. p + 1 + Len(f[n - 1]) = p + a
      <4> DEFINE y == Len(f[n - 1])
      <4>1. y \in Nat /\ p \in Nat /\ a = 1 + y
        BY <2>1, <1>9
      <4> HIDE DEF a, y
      <4>2. p + 1 + y = p + a
        BY ONLY <4>1
      <4> QED
        BY <4>2 DEF y
    <3>2. Piece(l, p + a, u)
      BY <2>6, <3>1
    <3> HIDE DEF a
    <3> QED
      BY <3>2 DEF Piece
  <2> HIDE DEF a, c
  <2>9. h[a + c] = h[a]
    <3>1. ASSUME NEW i \in a + 1 .. a + c PROVE h[i] = ReadOn(h[i - 1], l[p + i - 1]) /\ Silent(l[p + i - 1])
      <4>1. i \in 2 .. M + 1 /\ i - a \in 1 .. Len(u) - 1 /\ i - a \in 1 .. Len(u)
        BY <2>7, <1>10 DEF c
      <4>2. p + a + (i - a) - 1 = p + i - 1
        BY <2>7
      <4>3. l[p + i - 1] = u[i - a]
        BY <4>1, <4>2, <2>8
      <4> QED
        BY <4>1, <4>3, <1>6, <2>2
    <3>2. a \in Nat /\ c \in Nat
      BY <2>7
    <3>3. \A i \in a + 1 .. a + c : h[i] = ReadOn(h[i - 1], l[p + i - 1])
      BY <3>1
    <3>4. \A i \in a + 1 .. a + c : Silent(l[p + i - 1])
      BY <3>1
    <3> QED
      BY ONLY <3>2, <3>3, <3>4, p \in Nat, SilentRead
  <2>10. h[a + c + 1] = ReadOn(h[a + c], Lex(o.kind, o.text))
    <3> DEFINE z == Len(u)
    <3>1. c = z - 1 /\ z \in Nat /\ z > 0 /\ p \in Nat
      BY <2>2, <2>7 DEF c
    <3>2. u[z] = Lex(o.kind, o.text) /\ \A i \in 1 .. z : l[p + a + i - 1] = u[i]
      BY <2>2, <2>8
    <3> HIDE DEF z
    <3>3. a + c + 1 \in 2 .. M + 1 /\ (a + c + 1) - 1 = a + c /\ z \in 1 .. z /\ p + a + z - 1 = p + (a + c + 1) - 1
      BY <3>1, <2>7, <1>10
    <3>4. l[p + (a + c + 1) - 1] = Lex(o.kind, o.text)
      BY <3>2, <3>3
    <3> QED
      BY <3>3, <3>4, <1>6
  <2>11. ReadOn(ArgsTo(st, n - 1), Lex(o.kind, o.text)) = ArgsTo(st, n)
    <3>1. Lex(o.kind, o.text).kind = o.kind /\ Lex(o.kind, o.text).text = o.text
      BY DEF Lex
    <3> QED
      BY <3>1, <2>3, <1>8 DEF ReadOn, o
  <2>12. h[1 + Len(f[n])] = ArgsTo(st, n)
    BY <2>5, <2>7, <2>9, <2>10, <2>11
  <2> QED
    BY <2>1, <2>12
<1>14. \A n \in 0 .. N : n \in Holds
  <2> HIDE DEF Holds
  <2> QED
    BY <1>1, <1>12, <1>13, Induction
<1>15. N \in Holds
  BY <1>1, <1>14
<1>16. Len(f[N]) + 1 = 1 + Len(f[N])
  BY <1>1, <1>9
<1> QED
  BY <1>2, <1>7, <1>15, <1>16

(* The part of a line from its opcode on: where each lexeme stands, and    *)
(* that what follows the opcode is no colon.                               *)
OpcodeStands(l, q, st, style) ==
  LET O == OperandsPart(st, style) IN
  /\ l[q] = Lex("id", st.opcode) /\ l[q + 1].kind = style.gap
  /\ Piece(l, q + 2, O) /\ O \in Seq(Lexes) /\ SpelledGood(O, st, Len(st.operands))
  /\ IF style.comment
     THEN /\ Len(l) = q + 5 + Len(O)
          /\ l[q + 2 + Len(O)].kind = style.gap /\ l[q + 3 + Len(O)].kind = "comment"
     ELSE Len(l) = q + 1 + Len(O)

CommentStands(l, q, style) ==
  IF style.comment
  THEN Len(l) = q + 3 /\ l[q].kind = style.gap /\ l[q + 1].kind = "comment"
  ELSE Len(l) = q - 1

(* The rest of the line is the opcode with its operands, and a comment.    *)
SpelledFrom(l, q, st, style) ==
  LET u == OpcodePart(st, style) \o CommentPart(style)
  IN  Piece(l, q, u) /\ Len(l) = q + Len(u) - 1

LEMMA CommentShape ==
  ASSUME NEW style \in Styles
  PROVE  /\ CommentPart(style) \in Seq(Lexes)
         /\ IF style.comment
            THEN /\ Len(CommentPart(style)) = 4 /\ CommentPart(style)[1].kind = style.gap
                 /\ CommentPart(style)[2].kind = "comment"
            ELSE CommentPart(style) = <<>>
<1> DEFINE g == Mark(style.gap)
           c == Mark("comment")
           d == Mark("colon")
           m == Mark("other")
<1>1. "comment" \in P!Kinds /\ "colon" \in P!Kinds /\ "other" \in P!Kinds
  BY DEF P!Kinds
<1>2. g \in Lexes /\ c \in Lexes /\ d \in Lexes /\ m \in Lexes
  BY <1>1, StyleMarks, LexIs
<1>3. g.kind = style.gap /\ c.kind = "comment"
  BY LexIs
<1>4. CommentPart(style) = IF style.comment THEN <<g, c, d, m>> ELSE <<>>
  BY DEF CommentPart
<1> HIDE DEF g, c, d, m
<1> QED
  BY ONLY <1>2, <1>3, <1>4

LEMMA CommentTail ==
  ASSUME NEW st, NEW style, Spells(st, style), NEW l, Len(l) \in Nat, NEW q \in Nat, q >= 1,
         st.opcode = NoText, SpelledFrom(l, q, st, style)
  PROVE  CommentStands(l, q, style)
<1> DEFINE c == CommentPart(style)
<1>1. /\ c \in Seq(Lexes)
      /\ IF style.comment THEN Len(c) = 4 /\ c[1].kind = style.gap /\ c[2].kind = "comment" ELSE c = <<>>
  BY CommentShape DEF Spells
<1>2. OpcodePart(st, style) \o c = c
  <2>1. OpcodePart(st, style) = <<>>
    BY DEF OpcodePart
  <2> HIDE DEF c
  <2> QED
    BY <1>1, <2>1
<1>3. Piece(l, q, c) /\ Len(l) = q + Len(c) - 1
  BY <1>2 DEF SpelledFrom
<1> HIDE DEF c
<1>4. CASE style.comment
  <2>1. Len(c) = 4 /\ 1 \in 1 .. Len(c) /\ 2 \in 1 .. Len(c)
    <3>1. Len(c) = 4
      BY <1>1, <1>4, Zenon
    <3>2. 1 \in 1 .. 4 /\ 2 \in 1 .. 4
      OBVIOUS
    <3> QED
      BY ONLY <3>1, <3>2, Zenon
  <2>2. l[q + 1 - 1] = c[1] /\ l[q + 2 - 1] = c[2]
    BY <1>3, <2>1 DEF Piece
  <2>3. q + 1 - 1 = q /\ q + 2 - 1 = q + 1 /\ q + 4 - 1 = q + 3
    OBVIOUS
  <2> QED
    BY <1>1, <1>3, <1>4, <2>1, <2>2, <2>3 DEF CommentStands
<1>5. CASE ~style.comment
  <2>1. Len(c) = 0
    BY <1>1, <1>5
  <2> QED
    BY <1>3, <1>5, <2>1 DEF CommentStands
<1> QED
  BY <1>4, <1>5

LEMMA OpcodeTail ==
  ASSUME NEW st, NEW style, Spells(st, style), NEW l, Len(l) \in Nat, NEW q \in Nat, q >= 1,
         st.opcode # NoText, SpelledFrom(l, q, st, style)
  PROVE  OpcodeStands(l, q, st, style)
<1> DEFINE c == CommentPart(style)
           g == Mark(style.gap)
           x == Lex("id", st.opcode)
           b == <<x, g>>
           O == OperandsPart(st, style)
<1>1. /\ c \in Seq(Lexes)
      /\ IF style.comment THEN Len(c) = 4 /\ c[1].kind = style.gap /\ c[2].kind = "comment" ELSE c = <<>>
  BY CommentShape DEF Spells
<1>2. g \in Lexes /\ x \in Lexes /\ g.kind = style.gap
  <2>1. "id" \in P!Kinds /\ st.opcode \in Texts
    BY DEF P!Kinds, Spells, SourceStatement
  <2> QED
    BY <2>1, StyleMarks, LexIs DEF Spells
<1>3. O \in Seq(Lexes) /\ SpelledGood(O, st, Len(st.operands))
  BY SpelledSteps, SpelledIsGood
<1>4. OpcodePart(st, style) = b \o O
  BY DEF OpcodePart
<1> HIDE DEF c, O, x, g
<1>5. b \in Seq(Lexes) /\ Len(b) = 2 /\ b[1] = x /\ b[2] = g
  BY <1>2
<1> HIDE DEF b
<1>6. Piece(l, q, (b \o O) \o c) /\ Len(l) = q + Len((b \o O) \o c) - 1
  BY <1>4 DEF SpelledFrom, c
<1>7. b \o O \in Seq(Lexes)
  BY <1>3, <1>5
<1>8. Piece(l, q, b \o O) /\ Piece(l, q + Len(b \o O), c) /\ Len((b \o O) \o c) = Len(b \o O) + Len(c)
  BY <1>1, <1>6, <1>7, PieceSplit
<1>9. Piece(l, q, b) /\ Piece(l, q + Len(b), O) /\ Len(b \o O) = Len(b) + Len(O)
  BY <1>3, <1>5, <1>8, PieceSplit
<1>10. Piece(l, q + 2, O)
  BY <1>5, <1>9
<1>11. l[q] = x /\ l[q + 1] = g
  <2>1. l[q + 1 - 1] = b[1] /\ l[q + 2 - 1] = b[2]
    BY <1>5, <1>9 DEF Piece
  <2>2. q + 1 - 1 = q /\ q + 2 - 1 = q + 1
    OBVIOUS
  <2> QED
    BY <1>5, <2>1, <2>2
<1> DEFINE m == Len(O)
           w == Len(b \o O)
<1>12. m \in Nat /\ w = 2 + m /\ w \in Nat
  BY <1>3, <1>5, <1>9
<1>13. Len(l) = q + (w + Len(c)) - 1 /\ Piece(l, q + w, c)
  BY <1>6, <1>8
<1> HIDE DEF m, w
<1>14. CASE style.comment
  <2>1. Len(c) = 4 /\ 1 \in 1 .. Len(c) /\ 2 \in 1 .. Len(c)
    <3>1. Len(c) = 4
      BY <1>1, <1>14, Zenon
    <3>2. 1 \in 1 .. 4 /\ 2 \in 1 .. 4
      OBVIOUS
    <3> QED
      BY ONLY <3>1, <3>2, Zenon
  <2>2. l[q + w + 1 - 1] = c[1] /\ l[q + w + 2 - 1] = c[2]
    BY <1>13, <2>1 DEF Piece
  <2>3. q + w + 1 - 1 = q + 2 + m /\ q + w + 2 - 1 = q + 3 + m /\ q + (w + 4) - 1 = q + 5 + m
    BY ONLY <1>12, q \in Nat
  <2>4. l[q + 2 + m].kind = style.gap /\ l[q + 3 + m].kind = "comment" /\ Len(l) = q + 5 + m
    BY <1>1, <1>13, <1>14, <2>1, <2>2, <2>3
  <2> QED
    BY <1>2, <1>3, <1>10, <1>11, <1>14, <2>4 DEF OpcodeStands, O, m, x
<1>15. CASE ~style.comment
  <2>1. Len(c) = 0
    BY <1>1, <1>15
  <2>2. q + (w + 0) - 1 = q + 1 + m
    BY ONLY <1>12, q \in Nat
  <2>3. Len(l) = q + 1 + m
    BY <1>13, <2>1, <2>2
  <2> QED
    BY <1>2, <1>3, <1>10, <1>11, <1>15, <2>3 DEF OpcodeStands, O, m, x
<1> QED
  BY <1>14, <1>15

(* The arguments behind the opcode are the operands.                       *)
LEMMA ArgumentsAreOperands ==
  ASSUME NEW st, NEW style, Spells(st, style), NEW l, Len(l) \in Nat, NEW q \in Nat, q >= 1,
         \A i \in 1 .. Len(l) : l[i].text \in Texts, OpcodeStands(l, q, st, style)
  PROVE  P!Arguments(l, q + 1) = Operands(st)
<1> DEFINE O == OperandsPart(st, style)
           m == Len(O)
           p == q + 1
           n == IF style.comment THEN m + 2 ELSE m + 1
           h == CHOOSE f : IsRead(f, l, p, n)
<1>1. /\ l[q] = Lex("id", st.opcode) /\ l[q + 1].kind = style.gap
      /\ Piece(l, q + 2, O) /\ O \in Seq(Lexes) /\ SpelledGood(O, st, Len(st.operands))
      /\ style.comment => /\ Len(l) = q + 5 + m
                          /\ l[q + 2 + m].kind = style.gap /\ l[q + 3 + m].kind = "comment"
      /\ ~style.comment => Len(l) = q + 1 + m
  BY DEF OpcodeStands
<1>2. style.gap \in P!White /\ style.gap \notin ArgKinds \cup {"comment"}
  BY DEF Spells, Styles, P!White, ArgKinds
<1>3. m \in Nat
  BY <1>1
<1>4. \A i \in 1 .. m : l[q + 2 + i - 1] = O[i] /\ O[i].kind \notin {"comment", "colon"}
  BY <1>1 DEF Piece, SpelledGood
<1> HIDE DEF O, m
<1>5. /\ p \in 1 .. Len(l) + 1 /\ n \in Nat /\ p + n \in p .. Len(l) + 1 /\ (p + n) - p = n /\ p + n - 1 <= Len(l)
      /\ p \in Nat /\ p = q + 1
  BY <1>1, <1>3
<1>6. P!Stops(l, p + n)
  <2>1. CASE style.comment
    <3>1. p + n = q + 3 + m
      BY <2>1, <1>3
    <3> QED
      BY <3>1, <2>1, <1>1 DEF P!Stops
  <2>2. CASE ~style.comment
    <3>1. p + n > Len(l)
      BY <2>2, <1>1, <1>3
    <3> QED
      BY <3>1 DEF P!Stops
  <2> QED
    BY <2>1, <2>2
<1>7. ASSUME NEW r \in p .. (p + n) - 1 PROVE ~P!Stops(l, r)
  <2>1. r <= Len(l) /\ r \in Nat
    BY <1>5
  <2>2. l[r].kind # "comment"
    <3>1. CASE r = p
      BY <3>1, <1>1, <1>2
    <3>2. CASE r # p /\ r <= q + 1 + m
      <4>1. r - p \in 1 .. m /\ q + 2 + (r - p) - 1 = r
        BY <3>2, <1>3, <1>5
      <4> QED
        BY <4>1, <1>4
    <3>3. CASE r > q + 1 + m
      <4>1. style.comment /\ r = q + 2 + m
        BY <3>3, <1>3
      <4> QED
        BY <4>1, <1>1, <1>2
    <3> QED
      BY <3>1, <3>2, <3>3, <1>3, <2>1
  <2> QED
    BY <2>1, <2>2 DEF P!Stops
<1>8. n = IF style.comment THEN m + 2 ELSE m + 1
  OBVIOUS
<1>9. p \in Nat /\ p = q + 1
  OBVIOUS
<1> HIDE DEF n, p
<1>10. P!Arguments(l, p) = (CHOOSE f : IsRead(f, l, p, (p + n) - p))[(p + n) - p]
  BY <1>5, <1>6, <1>7, ReadToStop
<1>11. P!Arguments(l, p) = h[n]
  BY <1>5, <1>10
<1>12. \A i \in 1 .. n : l[p + i - 1].text \in Texts
  <2> SUFFICES ASSUME NEW i \in 1 .. n PROVE l[p + i - 1].text \in Texts
    OBVIOUS
  <2>1. p + i - 1 \in 1 .. Len(l)
    BY <1>5, <1>9
  <2> QED
    BY <2>1
<1>13. h[0] = <<>> /\ \A i \in 1 .. n : h[i] = ReadOn(h[i - 1], l[p + i - 1])
  <2>1. n \in Nat
    BY <1>5
  <2>2. h = CHOOSE f : IsRead(f, l, p, n)
    OBVIOUS
  <2> HIDE DEF h
  <2>3. h[0] = <<>>
    BY ONLY <1>12, <2>1, <2>2, ReadSteps
  <2>4. ReadAlong(h, l, p, n)
    BY ONLY <1>12, <2>1, <2>2, ReadSteps
  <2> QED
    BY ONLY <2>3, <2>4 DEF ReadAlong
<1> HIDE DEF h
<1>14. h[1] = <<>>
  <2>1. 1 \in 1 .. n /\ 1 - 1 = 0 /\ p + 1 - 1 = p
    BY <1>3, <1>8, <1>9
  <2>2. h[1] = ReadOn(<<>>, l[p])
    BY <2>1, <1>13
  <2> QED
    BY <2>2, <1>1, <1>2, <1>9 DEF ReadOn
<1>15. \A i \in 2 .. m + 1 : h[i] = ReadOn(h[i - 1], l[p + i - 1])
  <2>1. \A i \in 2 .. m + 1 : i \in 1 .. n
    BY <1>3, <1>8
  <2> QED
    BY <2>1, <1>13
<1>16. Piece(l, p + 1, O)
  <2>1. p + 1 = q + 2
    BY <1>9
  <2> QED
    BY <2>1, <1>1
<1>17. h[m + 1] = Operands(st)
  BY <1>9, <1>14, <1>15, <1>16, OperandsRead DEF O, m
<1>18. CASE style.comment
  <2>1. n = m + 2 /\ m + 2 \in 1 .. n /\ (m + 2) - 1 = m + 1 /\ p + (m + 2) - 1 = q + 2 + m
    BY <1>3, <1>8, <1>9, <1>18
  <2>2. h[m + 2] = ReadOn(h[m + 1], l[q + 2 + m])
    BY <2>1, <1>13
  <2>3. h[m + 2] = h[m + 1]
    BY <2>2, <1>1, <1>2, <1>18 DEF ReadOn
  <2> QED
    BY <2>1, <2>3, <1>9, <1>11, <1>17
<1>19. CASE ~style.comment
  BY <1>19, <1>8, <1>9, <1>11, <1>17
<1> QED
  BY <1>18, <1>19

(* Among them a number is not followed by what it has to be followed by    *)
(* when a tab stands behind the last one.                                  *)
LEMMA BadIsTab ==
  ASSUME NEW st, NEW style, Spells(st, style), NEW l, Len(l) \in Nat, NEW q \in Nat, q >= 1,
         OpcodeStands(l, q, st, style)
  PROVE  P!BadNumber(l, q + 1) <=> TabBehindNumber(st, style)
<1> DEFINE O == OperandsPart(st, style)
           m == Len(O)
           N == Len(st.operands)
           p == q + 1
<1>1. /\ l[q + 1].kind = style.gap
      /\ Piece(l, q + 2, O) /\ O \in Seq(Lexes) /\ SpelledGood(O, st, N)
      /\ style.comment => /\ Len(l) = q + 5 + m
                          /\ l[q + 2 + m].kind = style.gap /\ l[q + 3 + m].kind = "comment"
      /\ ~style.comment => Len(l) = q + 1 + m
  BY DEF OpcodeStands
<1>2. style.gap \in {"blank", "tab"} /\ style.gap \notin {"num", "comment"}
  BY DEF Spells, Styles
<1>3. m \in Nat /\ N \in Nat /\ (st.operands # <<>> <=> N # 0)
  BY <1>1 DEF Spells, SourceStatement
<1>4. \A i \in 1 .. m : l[p + i] = O[i] /\ O[i].kind \notin {"comment", "colon"}
  <2> SUFFICES ASSUME NEW i \in 1 .. m PROVE l[p + i] = O[i] /\ O[i].kind \notin {"comment", "colon"}
    OBVIOUS
  <2>1. q + 2 + i - 1 = p + i
    BY <1>3
  <2> QED
    BY <2>1, <1>1 DEF Piece, SpelledGood
<1>5. /\ \A i \in 1 .. m - 1 : O[i].kind = "num" => O[i + 1].kind = "comma"
      /\ N = 0 => m = 0
      /\ N # 0 => m > 0 /\ O[m].kind = st.operands[N].kind
  BY <1>1 DEF SpelledGood
<1>6. TabBehindNumber(st, style) <=> style.gap = "tab" /\ style.comment /\ N # 0 /\ st.operands[N].kind = "num"
  BY <1>3 DEF TabBehindNumber
<1> HIDE DEF O, m, N
<1>7. /\ l[p].kind = style.gap
      /\ style.comment => /\ Len(l) = p + m + 4
                          /\ l[p + m + 1].kind = style.gap /\ l[p + m + 2].kind = "comment"
      /\ ~style.comment => Len(l) = p + m
  <2>1. q + 2 + m = p + m + 1 /\ q + 3 + m = p + m + 2 /\ q + 5 + m = p + m + 4 /\ q + 1 + m = p + m
    BY <1>3
  <2> QED
    BY <2>1, <1>1
<1>8. p \in Nat /\ p >= 2 /\ p + m <= Len(l)
  BY <1>3, <1>7
<1> HIDE DEF p
<1>9. ASSUME TabBehindNumber(st, style) PROVE P!BadNumber(l, p)
  <2>1. style.gap = "tab" /\ style.comment /\ m > 0 /\ O[m].kind = "num"
    BY <1>5, <1>6, <1>9
  <2>2. p + m \in p .. Len(l) /\ l[p + m].kind = "num" /\ p + m + 1 <= Len(l)
    BY <2>1, <1>3, <1>4, <1>7, <1>8
  <2>3. ASSUME NEW r \in p .. p + m PROVE ~P!Stops(l, r)
    <3>1. CASE r = p
      BY <3>1, <1>2, <1>7, <1>8, <1>3 DEF P!Stops
    <3>2. CASE r # p
      <4>1. PICK i \in 1 .. m : r = p + i
        <5>1. r - p \in 1 .. m /\ p + (r - p) = r
          BY <3>2, <1>3, <1>8
        <5> QED
          BY <5>1
      <4>2. l[r] = O[i] /\ O[i].kind # "comment"
        BY <4>1, <1>4
      <4>3. r <= Len(l)
        BY <1>3, <1>8
      <4> QED
        BY <4>2, <4>3, <1>8 DEF P!Stops
    <3> QED
      BY <3>1, <3>2
  <2>4. ~P!Stops(l, p + m + 1) /\ ~P!IsAt(l, p + m + 1, {"blank", "comma"})
    BY <2>1, <2>2, <1>3, <1>7, <1>8 DEF P!Stops, P!IsAt
  <2> QED
    BY <2>2, <2>3, <2>4 DEF P!BadNumber
<1>10. ASSUME P!BadNumber(l, p) PROVE TabBehindNumber(st, style)
  <2>1. PICK r \in p .. Len(l) :
          /\ \A s \in p .. r : ~P!Stops(l, s)
          /\ l[r].kind = "num" /\ ~P!Stops(l, r + 1) /\ ~P!IsAt(l, r + 1, {"blank", "comma"})
    BY <1>10 DEF P!BadNumber
  <2>2. r # p
    BY <2>1, <1>2, <1>7
  <2>3. r <= p + m
    <3>1. CASE ~style.comment
      BY <3>1, <1>3, <1>7, <1>8
    <3>2. CASE style.comment
      <4> SUFFICES ASSUME r > p + m PROVE FALSE
        BY <1>3, <1>8
      <4>1. r # p + m + 1
        BY <2>1, <3>2, <1>2, <1>7
      <4>2. p + m + 2 \in p .. r
        BY <4>1, <1>3, <1>8
      <4>3. P!Stops(l, p + m + 2)
        BY <3>2, <1>7 DEF P!Stops
      <4> QED
        BY <2>1, <4>2, <4>3
    <3> QED
      BY <3>1, <3>2
  <2>4. r - p \in 1 .. m /\ p + (r - p) = r
    BY <2>2, <2>3, <1>3, <1>8
  <2>5. O[r - p].kind = "num"
    BY <2>1, <2>4, <1>4
  <2>6. ~(r < p + m)
    <3> SUFFICES ASSUME r < p + m PROVE FALSE
      OBVIOUS
    <3>1. r - p \in 1 .. m - 1 /\ (r - p) + 1 \in 1 .. m /\ p + ((r - p) + 1) = r + 1 /\ ~(r + 1 > Len(l))
      BY <2>4, <1>3, <1>8
    <3>2. l[r + 1].kind = "comma"
      BY <3>1, <2>5, <1>4, <1>5
    <3> QED
      BY <2>1, <3>1, <3>2 DEF P!IsAt
  <2>7. r = p + m /\ r - p = m /\ r + 1 = p + m + 1
    BY <2>3, <2>6, <1>3, <1>8
  <2>8. style.comment
    <3> SUFFICES ASSUME ~style.comment PROVE FALSE
      OBVIOUS
    <3>1. r + 1 > Len(l)
      BY <2>7, <1>3, <1>7, <1>8
    <3> QED
      BY <2>1, <3>1 DEF P!Stops
  <2>9. style.gap = "tab"
    <3>1. ~(r + 1 > Len(l)) /\ l[r + 1].kind = style.gap
      BY <2>7, <2>8, <1>3, <1>7, <1>8
    <3> QED
      BY <2>1, <3>1, <1>2 DEF P!IsAt
  <2>10. N # 0
    BY <2>4, <1>3, <1>5
  <2> QED
    BY <2>5, <2>7, <2>8, <2>9, <2>10, <1>5, <1>6
<1> QED
  BY <1>9, <1>10 DEF p

(* From the opcode on, or from the white space before it.                  *)
Understood(st, style, label) ==
  IF TabBehindNumber(st, style) THEN P!Rejected ELSE P!Accepted(label, st.opcode, Operands(st))

LEMMA GetOpcode ==
  ASSUME NEW st, NEW style, Spells(st, style), NEW l, Len(l) \in Nat, NEW q \in Nat, q >= 1,
         \A i \in 1 .. Len(l) : l[i].text \in Texts, SpelledFrom(l, q, st, style), NEW label
  PROVE  /\ q <= Len(l) + 1
         /\ P!get_opcode(l, q, label) = Understood(st, style, label)
<1>1. style.gap \in P!White /\ style.gap # "comment" /\ "comment" \notin P!White /\ "id" \notin P!White
  BY DEF Spells, Styles, P!White
<1>2. CASE st.opcode = NoText
  <2> DEFINE e == P!skip_whitespace(l, q)
  <2>1. IF style.comment
        THEN Len(l) = q + 3 /\ l[q].kind = style.gap /\ l[q + 1].kind = "comment"
        ELSE Len(l) = q - 1
    BY <1>2, CommentTail DEF CommentStands
  <2>2. q <= Len(l) + 1 /\ P!Stops(l, e)
    <3>1. CASE style.comment
      <4>1. q \in 1 .. Len(l) /\ q + 1 \in 1 .. Len(l) + 1 /\ ~(q > Len(l)) /\ ~(q + 1 > Len(l))
        BY <2>1, <3>1
      <4>2. P!IsAt(l, q, P!White) /\ ~P!IsAt(l, q + 1, P!White) /\ P!Stops(l, q + 1)
        BY <2>1, <3>1, <4>1, <1>1 DEF P!IsAt, P!Stops
      <4>3. e = q + 1
        BY <4>1, <4>2, OneSkipped, NothingSkipped
      <4> QED
        BY <4>1, <4>2, <4>3
    <3>2. CASE ~style.comment
      <4>1. q \in 1 .. Len(l) + 1 /\ q > Len(l)
        BY <2>1, <3>2
      <4>2. ~P!IsAt(l, q, P!White) /\ P!Stops(l, q)
        BY <4>1 DEF P!IsAt, P!Stops
      <4>3. e = q
        BY <4>1, <4>2, NothingSkipped
      <4> QED
        BY <4>1, <4>2, <4>3
    <3> QED
      BY <3>1, <3>2
  <2>3. P!get_opcode(l, q, label) = P!Accepted(label, NoText, <<>>)
    BY <2>2, SameText DEF P!get_opcode
  <2>4. st.operands = <<>>
    BY <1>2 DEF Spells
  <2>5. Operands(st) = <<>> /\ ~TabBehindNumber(st, style)
    <3>1. Len(st.operands) = 0
      BY <2>4
    <3>2. Operands(st) = ArgsTo(st, 0)
      BY <3>1, ArgsSteps DEF Spells, SourceStatement
    <3> QED
      BY <2>4, <3>2, ArgsSteps DEF Spells, SourceStatement, TabBehindNumber
  <2> QED
    BY <1>2, <2>2, <2>3, <2>5 DEF Understood
<1>3. CASE st.opcode # NoText
  <2>1. OpcodeStands(l, q, st, style)
    BY <1>3, OpcodeTail
  <2>2. P!Arguments(l, q + 1) = Operands(st)
    BY <2>1, ArgumentsAreOperands
  <2>3. P!BadNumber(l, q + 1) <=> TabBehindNumber(st, style)
    BY <2>1, BadIsTab
  <2> DEFINE m == Len(OperandsPart(st, style))
  <2>4. m \in Nat /\ l[q] = Lex("id", st.opcode) /\ (Len(l) = q + 5 + m \/ Len(l) = q + 1 + m)
    BY <2>1 DEF OpcodeStands
  <2>5. l[q].kind = "id" /\ l[q].text = st.opcode
    <3>1. Lex("id", st.opcode).kind = "id" /\ Lex("id", st.opcode).text = st.opcode
      BY DEF Lex
    <3> QED
      BY <2>4, <3>1
  <2> HIDE DEF m
  <2>6. q \in 1 .. Len(l) + 1 /\ ~(q > Len(l))
    BY <2>4
  <2>7. ~P!IsAt(l, q, P!White) /\ ~P!Stops(l, q)
    BY <2>5, <2>6, <1>1 DEF P!IsAt, P!Stops
  <2>8. P!skip_whitespace(l, q) = q
    BY <2>6, <2>7, NothingSkipped
  <2> QED
    BY <2>2, <2>3, <2>5, <2>6, <2>7, <2>8 DEF P!get_opcode, Understood
<1> QED
  BY <1>2, <1>3

LEMMA GetBehindGap ==
  ASSUME NEW st, NEW style, Spells(st, style), NEW l, Len(l) \in Nat, NEW q \in Nat, q >= 1,
         \A i \in 1 .. Len(l) : l[i].text \in Texts, SpelledFrom(l, q + 1, st, style), NEW label,
         l[q].kind = style.gap
  PROVE  P!get_opcode(l, q, label) = Understood(st, style, label)
<1>1. q + 1 \in Nat /\ q + 1 >= 1
  OBVIOUS
<1>2. q + 1 <= Len(l) + 1 /\ P!get_opcode(l, q + 1, label) = Understood(st, style, label)
  BY <1>1, GetOpcode
<1>3. q \in 1 .. Len(l) /\ ~(q > Len(l))
  BY <1>2
<1>4. P!IsAt(l, q, P!White)
  BY <1>3 DEF P!IsAt, Spells, Styles, P!White
<1>5. P!skip_whitespace(l, q) = P!skip_whitespace(l, q + 1)
  BY <1>3, <1>4, OneSkipped
<1> QED
  BY <1>2, <1>5 DEF P!get_opcode

(* An opcode is no label.                                                  *)
LEMMA OpcodeNoLabel ==
  ASSUME NEW st, NEW style, Spells(st, style), NEW l, Len(l) \in Nat, NEW q \in Nat, q >= 1,
         OpcodeStands(l, q, st, style)
  PROVE  ~P!IsLabel(l, q)
<1> DEFINE O == OperandsPart(st, style)
           m == Len(O)
<1>1. /\ l[q + 1].kind = style.gap
      /\ Piece(l, q + 2, O) /\ O \in Seq(Lexes) /\ SpelledGood(O, st, Len(st.operands))
      /\ style.comment => /\ Len(l) = q + 5 + m
                          /\ l[q + 2 + m].kind = style.gap /\ l[q + 3 + m].kind = "comment"
      /\ ~style.comment => Len(l) = q + 1 + m
  BY DEF OpcodeStands
<1>2. style.gap \in P!White /\ "comment" \notin P!White /\ "colon" # "comment"
  BY DEF Spells, Styles, P!White
<1>3. m \in Nat /\ (m > 0 => O[1].kind \notin P!White \cup {"colon"})
  BY <1>1 DEF SpelledGood
<1>4. m > 0 => l[q + 2] = O[1]
  <2>1. m > 0 => 1 \in 1 .. m
    BY <1>3
  <2>2. q + 2 + 1 - 1 = q + 2
    OBVIOUS
  <2> QED
    BY <2>1, <2>2, <1>1 DEF Piece
<1> HIDE DEF O, m
<1>5. q + 1 \in 1 .. Len(l) /\ q + 2 \in 1 .. Len(l) + 1 /\ ~(q + 1 > Len(l)) /\ (q + 1) + 1 = q + 2
  BY <1>1, <1>3
<1>6. P!skip_whitespace(l, q + 1) = P!skip_whitespace(l, q + 2)
  <2>1. P!IsAt(l, q + 1, P!White)
    BY <1>1, <1>2, <1>5 DEF P!IsAt
  <2> QED
    BY <1>5, <2>1, OneSkipped
<1>7. CASE m > 0 \/ ~style.comment
  <2>1. ~P!IsAt(l, q + 2, P!White) /\ ~P!IsAt(l, q + 2, {"colon"})
    <3>1. CASE m > 0
      BY <3>1, <1>3, <1>4 DEF P!IsAt
    <3>2. CASE ~(m > 0)
      <4>1. q + 2 > Len(l)
        BY <3>2, <1>1, <1>3, <1>7
      <4> QED
        BY <4>1 DEF P!IsAt
    <3> QED
      BY <3>1, <3>2
  <2>2. P!skip_whitespace(l, q + 2) = q + 2
    BY <1>5, <2>1, NothingSkipped
  <2> QED
    BY <1>6, <2>1, <2>2 DEF P!IsLabel
<1>8. CASE m = 0 /\ style.comment
  <2>1. /\ Len(l) = q + 5 /\ l[q + 2].kind = style.gap /\ l[q + 3].kind = "comment"
        /\ q + 2 \in 1 .. Len(l) /\ q + 3 \in 1 .. Len(l) + 1 /\ (q + 2) + 1 = q + 3
        /\ ~(q + 2 > Len(l)) /\ ~(q + 3 > Len(l))
    <3>1. q + 5 + 0 = q + 5 /\ q + 2 + 0 = q + 2 /\ q + 3 + 0 = q + 3
      OBVIOUS
    <3> QED
      BY <3>1, <1>1, <1>8
  <2>2. P!IsAt(l, q + 2, P!White) /\ ~P!IsAt(l, q + 3, P!White) /\ ~P!IsAt(l, q + 3, {"colon"})
    BY <2>1, <1>2 DEF P!IsAt
  <2>3. P!skip_whitespace(l, q + 2) = q + 3
    BY <2>1, <2>2, OneSkipped, NothingSkipped
  <2> QED
    BY <1>6, <2>2, <2>3 DEF P!IsLabel
<1> QED
  BY <1>3, <1>7, <1>8

(* The label, and where the line goes on behind it.                        *)
LEMMA LabelStands ==
  ASSUME NEW st, NEW style, Spells(st, style), NEW l, l = Spelled(st, style)
  PROVE  /\ l \in Seq(Lexes)
         /\ st.label = NoText => SpelledFrom(l, 1, st, style)
         /\ st.label # NoText => l[1] = Lex("id", st.label)
         /\ st.label # NoText /\ style.before =>
              /\ Len(l) >= 4 /\ SpelledFrom(l, 5, st, style)
              /\ l[2].kind = style.gap /\ l[3].kind = "colon" /\ l[4].kind = style.gap
         /\ st.label # NoText /\ ~style.before =>
              /\ Len(l) >= 3 /\ SpelledFrom(l, 4, st, style)
              /\ l[2].kind = "colon" /\ l[3].kind = style.gap
<1> DEFINE u == OpcodePart(st, style) \o CommentPart(style)
           x == Lex("id", st.label)
           g == Mark(style.gap)
           c == Mark("colon")
           a == LabelPart(st, style)
<1>1. g \in Lexes /\ x \in Lexes /\ c \in Lexes /\ g.kind = style.gap /\ c.kind = "colon"
  <2>1. "id" \in P!Kinds /\ "colon" \in P!Kinds /\ st.label \in Texts
    BY DEF P!Kinds, Spells, SourceStatement
  <2> QED
    BY <2>1, StyleMarks, LexIs DEF Spells
<1>2. u \in Seq(Lexes)
  <2>1. CommentPart(style) \in Seq(Lexes)
    BY CommentShape DEF Spells
  <2>2. OpcodePart(st, style) \in Seq(Lexes)
    <3>1. CASE st.opcode = NoText
      BY <3>1 DEF OpcodePart
    <3>2. CASE st.opcode # NoText
      <4> DEFINE y == Lex("id", st.opcode)
                 O == OperandsPart(st, style)
      <4>1. y \in Lexes
        <5>1. "id" \in P!Kinds /\ st.opcode \in Texts
          BY DEF P!Kinds, Spells, SourceStatement
        <5> QED
          BY <5>1, LexIs
      <4>2. O \in Seq(Lexes)
        BY SpelledSteps
      <4>3. OpcodePart(st, style) = <<y, g>> \o O
        BY <3>2 DEF OpcodePart
      <4> HIDE DEF y, O, g
      <4> QED
        BY <1>1, <4>1, <4>2, <4>3
    <3> QED
      BY <3>1, <3>2
  <2> QED
    BY <2>1, <2>2
<1>3. l = a \o u
  BY DEF Spelled
<1>4. a = IF st.label = NoText THEN <<>> ELSE IF style.before THEN <<x, g, c, g>> ELSE <<x, c, g>>
  BY DEF LabelPart
<1>5. Len(l) \in Nat => (Piece(l, 1, l) /\ Len(l) = 1 + Len(l) - 1)
  BY DEF Piece
<1>6. \A q : SpelledFrom(l, q, st, style) <=> Piece(l, q, u) /\ Len(l) = q + Len(u) - 1
  BY DEF SpelledFrom
<1> HIDE DEF u, x, g, c, a
<1>7. a \in Seq(Lexes)
  BY <1>1, <1>4
<1>8. l \in Seq(Lexes) /\ Len(l) \in Nat
  BY <1>2, <1>3, <1>7
<1>9. Piece(l, 1, a) /\ Piece(l, 1 + Len(a), u) /\ Len(l) = Len(a) + Len(u) /\ Len(u) \in Nat
  <2>1. Piece(l, 1, a \o u)
    BY <1>3, <1>5, <1>8
  <2>2. Piece(l, 1, a) /\ Piece(l, 1 + Len(a), u) /\ Len(a \o u) = Len(a) + Len(u)
    BY <1>2, <1>7, <1>8, <2>1, PieceSplit
  <2> QED
    BY <1>2, <1>3, <2>2
<1>10. CASE st.label = NoText
  <2>1. Len(a) = 0
    BY <1>4, <1>10
  <2>2. SpelledFrom(l, 1, st, style)
    BY <1>6, <1>9, <2>1
  <2> QED
    BY <1>8, <1>10, <2>2
<1>11. CASE st.label # NoText /\ style.before
  <2>1. a = <<x, g, c, g>>
    BY <1>4, <1>11
  <2>2. Len(a) = 4 /\ a[1] = x /\ a[2] = g /\ a[3] = c /\ a[4] = g
    BY <1>1, <2>1
  <2>3. l[1] = x /\ l[2] = g /\ l[3] = c /\ l[4] = g
    <3>1. \A i \in 1 .. 4 : l[1 + i - 1] = a[i]
      BY <1>9, <2>2 DEF Piece
    <3>2. \A i \in 1 .. 4 : l[i] = a[i]
      BY <3>1
    <3> QED
      BY <2>2, <3>2
  <2>4. SpelledFrom(l, 5, st, style) /\ Len(l) >= 4
    BY <1>6, <1>9, <2>2
  <2> QED
    BY <1>1, <1>8, <1>11, <2>3, <2>4 DEF x
<1>12. CASE st.label # NoText /\ ~style.before
  <2>1. a = <<x, c, g>>
    BY <1>4, <1>12
  <2>2. Len(a) = 3 /\ a[1] = x /\ a[2] = c /\ a[3] = g
    BY <1>1, <2>1
  <2>3. l[1] = x /\ l[2] = c /\ l[3] = g
    <3>1. \A i \in 1 .. 3 : l[1 + i - 1] = a[i]
      BY <1>9, <2>2 DEF Piece
    <3>2. \A i \in 1 .. 3 : l[i] = a[i]
      BY <3>1
    <3> QED
      BY <2>2, <3>2
  <2>4. SpelledFrom(l, 4, st, style) /\ Len(l) >= 3
    BY <1>6, <1>9, <2>2
  <2> QED
    BY <1>1, <1>8, <1>12, <2>3, <2>4 DEF x
<1> QED
  BY <1>10, <1>11, <1>12

(* The whole line.                                                         *)
NameRead(st, style) == IF style.before /\ st.label # NoText THEN st.label \o " " ELSE st.label

LEMMA LabelRead ==
  ASSUME NEW st, NEW style, Spells(st, style), NEW l, l = Spelled(st, style), Len(l) \in Nat,
         \A i \in 1 .. Len(l) : l[i].text \in Texts, st.label # NoText
  PROVE  P!next_token(l) = Understood(st, style, NameRead(st, style))
<1>1. l[1] = Lex("id", st.label)
  BY LabelStands
<1>2. l[1].kind = "id" /\ l[1].text = st.label /\ l[1].spaced = st.label \o " "
  <2>1. /\ Lex("id", st.label).kind = "id" /\ Lex("id", st.label).text = st.label
        /\ Lex("id", st.label).spaced = st.label \o " "
    BY DEF Lex
  <2> QED
    BY <1>1, <2>1
<1>3. style.gap \in P!White /\ "id" \notin P!White /\ "colon" \notin P!White
  BY DEF Spells, Styles, P!White
<1>4. NameRead(st, style) = IF style.before THEN l[1].spaced ELSE l[1].text
  BY <1>2 DEF NameRead
<1>5. CASE style.before
  <2>1. /\ Len(l) >= 4 /\ SpelledFrom(l, 5, st, style)
        /\ l[2].kind = style.gap /\ l[3].kind = "colon" /\ l[4].kind = style.gap
    BY <1>5, LabelStands
  <2>2. /\ 1 \in 1 .. Len(l) + 1 /\ 2 \in 1 .. Len(l) /\ 3 \in 1 .. Len(l) + 1 /\ 1 + 1 = 2 /\ 2 + 1 = 3 /\ 3 + 1 = 4
        /\ ~(1 > Len(l)) /\ ~(2 > Len(l)) /\ ~(3 > Len(l)) /\ 4 \in Nat /\ 4 >= 1 /\ 4 + 1 = 5
    BY <2>1
  <2>3. /\ P!IsAt(l, 1, {"id"}) /\ ~P!IsAt(l, 1, P!White) /\ P!IsAt(l, 2, P!White)
        /\ P!IsAt(l, 3, {"colon"}) /\ ~P!IsAt(l, 3, P!White)
    BY <2>1, <2>2, <1>2, <1>3 DEF P!IsAt
  <2>4. P!skip_whitespace(l, 1) = 1 /\ P!skip_whitespace(l, 2) = 3
    BY <2>2, <2>3, NothingSkipped, OneSkipped
  <2>5. P!IsLabel(l, 1)
    BY <2>2, <2>3, <2>4 DEF P!IsLabel
  <2>6. P!LabelText(l, 1) = NameRead(st, style)
    BY <2>2, <2>3, <1>4, <1>5 DEF P!LabelText
  <2>7. P!get_opcode(l, 4, NameRead(st, style)) = Understood(st, style, NameRead(st, style))
    BY <2>1, <2>2, GetBehindGap
  <2> QED
    BY <2>2, <2>3, <2>4, <2>5, <2>6, <2>7 DEF P!next_token
<1>6. CASE ~style.before
  <2>1. /\ Len(l) >= 3 /\ SpelledFrom(l, 4, st, style)
        /\ l[2].kind = "colon" /\ l[3].kind = style.gap
    BY <1>6, LabelStands
  <2>2. /\ 1 \in 1 .. Len(l) + 1 /\ 2 \in 1 .. Len(l) + 1 /\ 1 + 1 = 2 /\ 2 + 1 = 3
        /\ ~(1 > Len(l)) /\ ~(2 > Len(l)) /\ 3 \in Nat /\ 3 >= 1 /\ 3 + 1 = 4
    BY <2>1
  <2>3. /\ P!IsAt(l, 1, {"id"}) /\ ~P!IsAt(l, 1, P!White)
        /\ P!IsAt(l, 2, {"colon"}) /\ ~P!IsAt(l, 2, P!White)
    BY <2>1, <2>2, <1>2, <1>3 DEF P!IsAt
  <2>4. P!skip_whitespace(l, 1) = 1 /\ P!skip_whitespace(l, 2) = 2
    BY <2>2, <2>3, NothingSkipped
  <2>5. P!IsLabel(l, 1)
    BY <2>2, <2>3, <2>4 DEF P!IsLabel
  <2>6. P!LabelText(l, 1) = NameRead(st, style)
    BY <2>2, <2>3, <1>4, <1>6 DEF P!LabelText
  <2>7. P!get_opcode(l, 3, NameRead(st, style)) = Understood(st, style, NameRead(st, style))
    BY <2>1, <2>2, GetBehindGap
  <2> QED
    BY <2>2, <2>3, <2>4, <2>5, <2>6, <2>7 DEF P!next_token
<1> QED
  BY <1>5, <1>6 DEF Spells, Styles

LEMMA NoLabelRead ==
  ASSUME NEW st, NEW style, Spells(st, style), NEW l, l = Spelled(st, style), Len(l) \in Nat,
         \A i \in 1 .. Len(l) : l[i].text \in Texts, st.label = NoText
  PROVE  P!next_token(l) = IF Nothing(st) THEN P!Rejected ELSE Understood(st, style, NameRead(st, style))
<1>1. SpelledFrom(l, 1, st, style)
  BY LabelStands
<1>2. style.gap \in P!White /\ "id" \notin P!White /\ "comment" \notin P!White /\ "comment" # "id"
  BY DEF Spells, Styles, P!White
<1>3. NameRead(st, style) = NoText
  BY DEF NameRead
<1>4. CASE st.opcode # NoText
  <2>1. OpcodeStands(l, 1, st, style)
    BY <1>1, <1>4, OpcodeTail
  <2>2. ~P!IsLabel(l, 1)
    BY <2>1, OpcodeNoLabel
  <2>3. l[1] = Lex("id", st.opcode)
    BY <2>1 DEF OpcodeStands
  <2>4. l[1].kind = "id"
    <3>1. Lex("id", st.opcode).kind = "id"
      BY DEF Lex
    <3> QED
      BY <2>3, <3>1
  <2>5. Len(l) >= 1
    <3> DEFINE m == Len(OperandsPart(st, style))
    <3>1. m \in Nat /\ (Len(l) = 1 + 5 + m \/ Len(l) = 1 + 1 + m)
      BY <2>1 DEF OpcodeStands
    <3> HIDE DEF m
    <3> QED
      BY <3>1
  <2>6. 1 \in 1 .. Len(l) + 1 /\ ~(1 > Len(l))
    BY <2>5
  <2>7. P!IsAt(l, 1, {"id"}) /\ ~P!IsAt(l, 1, P!White)
    BY <2>4, <2>6, <1>2 DEF P!IsAt
  <2>8. P!skip_whitespace(l, 1) = 1
    BY <2>6, <2>7, NothingSkipped
  <2>9. P!get_opcode(l, 1, P!NoText) = Understood(st, style, NameRead(st, style))
    BY <1>1, <1>3, GetOpcode, SameText
  <2>10. ~Nothing(st)
    BY <1>4 DEF Nothing
  <2> QED
    BY <2>2, <2>7, <2>8, <2>9, <2>10 DEF P!next_token
<1>5. CASE st.opcode = NoText
  <2>1. IF style.comment
        THEN Len(l) = 1 + 3 /\ l[1].kind = style.gap /\ l[1 + 1].kind = "comment"
        ELSE Len(l) = 1 - 1
    <3>1. 1 \in Nat /\ 1 >= 1
      OBVIOUS
    <3>2. CommentStands(l, 1, style)
      BY ONLY Spells(st, style), Len(l) \in Nat, <1>1, <1>5, <3>1, CommentTail
    <3> QED
      BY ONLY <3>2 DEF CommentStands
  <2>2. ~P!IsAt(l, P!skip_whitespace(l, 1), {"id"})
    <3>1. CASE style.comment
      <4>1. Len(l) = 4 /\ l[1].kind = style.gap /\ l[2].kind = "comment" /\ 1 + 1 = 2
        BY <2>1, <3>1
      <4>2. 1 \in 1 .. Len(l) /\ 2 \in 1 .. Len(l) + 1 /\ ~(1 > Len(l)) /\ ~(2 > Len(l))
        BY <4>1
      <4>3. P!IsAt(l, 1, P!White) /\ ~P!IsAt(l, 2, P!White) /\ ~P!IsAt(l, 2, {"id"})
        BY <4>1, <4>2, <1>2 DEF P!IsAt
      <4>4. P!skip_whitespace(l, 1) = 2
        BY <4>1, <4>2, <4>3, OneSkipped, NothingSkipped
      <4> QED
        BY <4>3, <4>4
    <3>2. CASE ~style.comment
      <4>1. Len(l) = 0
        BY <2>1, <3>2
      <4>2. 1 \in 1 .. Len(l) + 1 /\ 1 > Len(l)
        BY <4>1
      <4>3. ~P!IsAt(l, 1, P!White) /\ ~P!IsAt(l, 1, {"id"})
        BY <4>2 DEF P!IsAt
      <4>4. P!skip_whitespace(l, 1) = 1
        BY <4>2, <4>3, NothingSkipped
      <4> QED
        BY <4>3, <4>4
    <3> QED
      BY <3>1, <3>2
  <2>3. Nothing(st)
    BY <1>5 DEF Nothing
  <2> QED
    BY <2>2, <2>3 DEF P!next_token
<1> QED
  BY <1>4, <1>5

LEMMA LineIsRecovered ==
  ASSUME NEW st, NEW style, Spells(st, style), NEW l, l = Spelled(st, style), l \in Seq(P!Lexeme),
         NEW X, NEW ts \in Seq(X)
  PROVE  ReadLine(ts, l) = ts \o Recovered(st, style)
<1>1. Len(l) \in Nat /\ \A i \in 1 .. Len(l) : l[i].text \in Texts
  <2>1. l \in Seq(P!Lexeme)
    OBVIOUS
  <2>2. \A x \in P!Lexeme : x.text \in Texts
    BY SameText DEF P!Lexeme
  <2> QED
    BY ONLY <2>1, <2>2
<1>2. P!next_token(l) = IF Nothing(st) THEN P!Rejected ELSE Understood(st, style, NameRead(st, style))
  <2>1. CASE st.label = NoText
    BY <2>1, <1>1, NoLabelRead
  <2>2. CASE st.label # NoText
    <3>1. ~Nothing(st)
      BY <2>2 DEF Nothing
    <3> QED
      BY <2>2, <3>1, <1>1, LabelRead
  <2> QED
    BY <2>1, <2>2
<1> DEFINE x == [label |-> NameRead(st, style), opcode |-> st.opcode, args |-> Operands(st)]
<1>3. Recovered(st, style) = IF TabBehindNumber(st, style) \/ Nothing(st) THEN <<>> ELSE <<x>>
  BY DEF Recovered, NameRead
<1>4. P!next_token(l) = IF TabBehindNumber(st, style) \/ Nothing(st) THEN P!Rejected ELSE [accepted |-> TRUE, token |-> x]
  BY <1>2 DEF Understood, P!Accepted
<1> HIDE DEF x
<1>5. CASE TabBehindNumber(st, style) \/ Nothing(st)
  <2>1. ~P!next_token(l).accepted
    BY <1>4, <1>5 DEF P!Rejected
  <2>2. Recovered(st, style) = <<>>
    BY <1>3, <1>5
  <2>3. ts \o <<>> = ts
    OBVIOUS
  <2> QED
    BY <2>1, <2>2, <2>3 DEF ReadLine
<1>6. CASE ~(TabBehindNumber(st, style) \/ Nothing(st))
  <2>1. P!next_token(l).accepted /\ P!next_token(l).token = x
    BY <1>4, <1>6
  <2>2. Recovered(st, style) = <<x>>
    BY <1>3, <1>6
  <2>3. ts \o <<x>> = Append(ts, x)
    OBVIOUS
  <2> QED
    BY <2>1, <2>2, <2>3 DEF ReadLine
<1> QED
  BY <1>5, <1>6

LEMMA ParseRecovers ==
  ASSUME ChainInv, Parse, line <= Len(source), NEW spelling \in SpelledLines, source[line] = spelling[1]
  PROVE  tokens' = tokens \o spelling[2]
<1>1. PICK st \in Statements, style \in Styles : spelling = <<Spelled(st, style), Recovered(st, style)>>
  BY DEF SpelledLines
<1>2. spelling[1] = Spelled(st, style) /\ spelling[2] = Recovered(st, style)
  BY <1>1
<1>3. Spells(st, style)
  BY StatementsAssumption DEF Spells
<1>4. /\ source \in Seq(Seq(P!Lexeme)) /\ line \in Nat \ {0} /\ tokens \in Seq(TokenType)
  BY DEF ChainInv, TextTypes, SweepTyped
<1>5. Len(source) \in Nat
  BY <1>4
<1>6. source[line] \in Seq(P!Lexeme)
  BY <1>4, <1>5
<1>7. tokens' = ReadLine(tokens, source[line])
  BY <1>5, <1>4 DEF Parse, P!Next, P!parse_file, P!AcceptLine, P!SkipLine, P!EndOfFile, ReadLine
<1>8. source[line] = Spelled(st, style)
  BY <1>2
<1> QED
  BY <1>2, <1>3, <1>4, <1>6, <1>7, <1>8, LineIsRecovered

(* Whatever the statement, wherever white space and comments are put: the  *)
(* line that spells it adds one token, with its label, its opcode and      *)
(* every operand, and only what Recovered names is lost.                   *)
THEOREM LinesAreRecovered == ToolSpec => ParserRecovers
<1>1. ASSUME ChainInv, [ToolNext]_toolVars
      PROVE  [Parse /\ line <= Len(source) =>
                \A spelling \in SpelledLines : source[line] = spelling[1] => tokens' = tokens \o spelling[2]]_toolVars
  BY <1>1, ParseRecovers
<1> QED
  BY <1>1, ChainHolds, PTL DEF ToolSpec, ParserRecovers
=============================================================================
