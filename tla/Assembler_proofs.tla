-------------------------- MODULE Assembler_proofs --------------------------
(***************************************************************************)
(* Patching never makes the file longer: every queued address lies in what *)
(* has been written, for every program, however long.                      *)
(***************************************************************************)
EXTENDS AssemblerReference, Alu8080_proofs

Arg        == [sv : Texts, is_imm : BOOLEAN]
TokenType  == [label : Texts, opcode : Texts, args : Seq(Arg)]
LabelEntry == [label : Texts, addr : Nat, queued : Seq(Nat), set : BOOLEAN]

(* Labels whose references end before position n of the file.              *)
Queued(ls, n) == \A i \in DOMAIN ls : \A j \in DOMAIN ls[i].queued : ls[i].queued[j] + 2 <= n
Fine(ls, n) == ls \in Seq(LabelEntry) /\ Queued(ls, n)

(* The address may have wrapped, it is never ahead of the file.            *)
FileOK    == /\ fout = [len |-> fout.len, cells |-> fout.cells]
             /\ fout.len \in Nat /\ curr_addr \in Nat /\ curr_addr <= fout.len
CursorsOK == tokens \in Seq(TokenType) /\ next \in Nat \ {0} /\ arg \in Nat \ {0}
             /\ lab \in Nat \ {0} /\ ref \in Nat \ {0}
             /\ (stage = "data" => next <= Len(tokens))
IInv == FileOK /\ CursorsOK /\ Fine(labels, fout.len)

-----------------------------------------------------------------------------
(* The values that come from texts. *)
LEMMA ImmediateIsShort == ASSUME NEW text PROVE parse_immediate(text) \in Nat
<1>1. text \in DOMAIN Numerals => Numerals[text] \in Nat
  BY NumeralsAssumption, ShortBounds
<1> QED
  BY <1>1 DEF parse_immediate

LEMMA ArgumentTyped ==
  ASSUME NEW t \in TokenType, NEW n \in Nat
  PROVE  Argument(t, n) \in Arg
<1>1. NoArgument \in Arg
  <2>1. NoText \in Texts
    BY DEF Texts
  <2> QED
    BY <2>1 DEF NoArgument, Arg
<1>2. t.args \in Seq(Arg)
  BY DEF TokenType
<1>3. n \in DOMAIN t.args => t.args[n] \in Arg
  BY <1>2
<1> QED
  BY <1>1, <1>3 DEF Argument

LEMMA SeqWidens ==
  ASSUME NEW S, NEW T, S \subseteq T, NEW s \in Seq(S)
  PROVE  s \in Seq(T)
<1>1. s \in [1 .. Len(s) -> T] /\ Len(s) \in Nat
  OBVIOUS
<1> QED
  BY <1>1

LEMMA CharactersTyped ==
  ASSUME NEW text, IsQuoted(text)
  PROVE  Characters(text) \in Seq(Int)
<1>1. CharCodes[text] \in Seq(-128 .. 127)
  BY CharCodesAssumption DEF IsQuoted
<1>2. -128 .. 127 \subseteq Int
  OBVIOUS
<1>3. CharCodes[text] \in Seq(Int)
  BY <1>1, <1>2, SeqWidens
<1>4. <<0>> \in Seq(Int)
  OBVIOUS
<1> QED
  BY <1>3, <1>4 DEF Characters

-----------------------------------------------------------------------------
(* The operations on the labels keep the references where they are.        *)
LEMMA FineMonotone ==
  ASSUME NEW ls, NEW n \in Nat, NEW m \in Nat, n <= m, Fine(ls, n)
  PROVE  Fine(ls, m)
<1> SUFFICES ASSUME NEW i \in DOMAIN ls, NEW j \in DOMAIN ls[i].queued
             PROVE  ls[i].queued[j] + 2 <= m
  BY DEF Fine, Queued
<1>1. ls[i] \in LabelEntry
  BY DEF Fine
<1>2. ls[i].queued[j] \in Nat
  BY <1>1 DEF LabelEntry
<1> QED
  BY <1>2 DEF Fine, Queued

LEMMA PushKeepsFine ==
  ASSUME NEW ls, NEW n \in Nat, Fine(ls, n),
         NEW name \in Texts, NEW addr \in Nat, NEW set \in BOOLEAN
  PROVE  Fine(push_label(ls, name, addr, set), n)
<1> DEFINE new == [label |-> name, addr |-> addr, queued |-> <<>>, set |-> set]
           more == Append(ls, new)
<1>1. new \in LabelEntry /\ new.queued = <<>>
  BY DEF LabelEntry
<1> HIDE DEF new
<1>2. /\ more \in Seq(LabelEntry) /\ Len(ls) \in Nat
      /\ DOMAIN more = 1 .. Len(ls) + 1 /\ DOMAIN ls = 1 .. Len(ls)
      /\ \A i \in 1 .. Len(ls) : more[i] = ls[i]
      /\ more[Len(ls) + 1] = new
  BY <1>1 DEF Fine
<1> HIDE DEF more
<1>3. Queued(more, n)
  <2> SUFFICES ASSUME NEW i \in DOMAIN more, NEW j \in DOMAIN more[i].queued
               PROVE  more[i].queued[j] + 2 <= n
    BY DEF Queued
  <2>1. CASE i = Len(ls) + 1
    BY <2>1, <1>1, <1>2
  <2>2. CASE i # Len(ls) + 1
    <3>1. i \in 1 .. Len(ls)
      BY <2>2, <1>2
    <3> QED
      BY <3>1, <1>2 DEF Fine, Queued
  <2> QED
    BY <2>1, <2>2
<1> QED
  BY <1>2, <1>3 DEF Fine, push_label, more, new

LEMMA AddKeepsFine ==
  ASSUME NEW ls, NEW n \in Nat, Fine(ls, n), NEW name \in Texts, NEW addr \in Nat
  PROVE  Fine(add_label(ls, name, addr), n)
<1> DEFINE i == find_label_index(ls, name)
           after == [ls EXCEPT ![i].addr = addr, ![i].set = TRUE]
<1> HIDE DEF i
<1>1. Fine(after, n)
  <2>0. \A k \in DOMAIN ls : ls[k] \in LabelEntry
    BY DEF Fine
  <2>1. /\ DOMAIN after = DOMAIN ls
        /\ \A k \in DOMAIN ls : k # i => after[k] = ls[k]
    OBVIOUS
  <2>1a. i \in DOMAIN ls => after[i] = [ls[i] EXCEPT !.addr = addr, !.set = TRUE]
    BY <2>0 DEF LabelEntry
  <2>2. \A k \in DOMAIN ls : after[k] \in LabelEntry /\ after[k].queued = ls[k].queued
    BY <2>0, <2>1, <2>1a DEF LabelEntry
  <2>2a. after = [k \in DOMAIN ls |-> after[k]]
    BY DEF Fine
  <2> HIDE DEF after
  <2>3. after \in Seq(LabelEntry)
    <3>1. ls \in Seq(LabelEntry) /\ Len(ls) \in Nat /\ DOMAIN ls = 1 .. Len(ls)
      BY DEF Fine
    <3>2. after \in [1 .. Len(ls) -> LabelEntry]
      BY <2>2, <2>2a, <3>1
    <3> QED
      BY <3>1, <3>2
  <2> QED
    BY <2>1, <2>2, <2>3 DEF Fine, Queued
<1> HIDE DEF after
<1>2. Fine(push_label(ls, name, addr, TRUE), n)
  BY PushKeepsFine
<1> QED
  BY <1>1, <1>2 DEF add_label, i, after

LEMMA QueueKeepsFine ==
  ASSUME NEW ls, NEW n \in Nat, NEW m \in Nat, Fine(ls, n), n <= m,
         NEW name \in Texts, NEW addr \in Nat, addr + 2 <= m
  PROVE  Fine(queue_or_get_label(ls, name, addr).labels, m)
<1> DEFINE known == Known(ls, name, addr)
           i     == find_label_index(known, name)
           after == [known EXCEPT ![i].queued = Append(@, addr)]
<1>1. Fine(known, m)
  BY PushKeepsFine, FineMonotone DEF Known
<1>2. queue_or_get_label(ls, name, addr).labels \in {known, after}
  BY DEF queue_or_get_label
<1> HIDE DEF known, i
<1>3. /\ DOMAIN after = DOMAIN known
      /\ \A k \in DOMAIN known : known[k] \in LabelEntry
      /\ \A k \in DOMAIN known : k # i => after[k] = known[k]
      /\ i \in DOMAIN known => after[i] = [known[i] EXCEPT !.queued = Append(@, addr)]
  <2>1. \A k \in DOMAIN known : known[k] \in LabelEntry
    BY <1>1 DEF Fine
  <2>2. DOMAIN after = DOMAIN known /\ \A k \in DOMAIN known : k # i => after[k] = known[k]
    OBVIOUS
  <2>3. i \in DOMAIN known => after[i] = [known[i] EXCEPT !.queued = Append(@, addr)]
    BY <2>1 DEF LabelEntry
  <2> QED
    BY <2>1, <2>2, <2>3
<1>3a. after = [k \in DOMAIN known |-> after[k]]
  BY <1>1 DEF Fine
<1> HIDE DEF after
<1>4. ASSUME NEW k \in DOMAIN known
      PROVE  /\ after[k] \in LabelEntry
             /\ \A j \in DOMAIN after[k].queued : after[k].queued[j] + 2 <= m
  <2>1. CASE k # i
    BY <1>1, <1>3, <2>1 DEF Fine, Queued
  <2>2. CASE k = i
    <3>1. known[k] \in LabelEntry /\ known[k].queued \in Seq(Nat)
      BY <1>3 DEF LabelEntry
    <3>2. after[k] = [known[k] EXCEPT !.queued = Append(@, addr)]
      BY <1>3, <2>2
    <3>3. after[k].queued = Append(known[k].queued, addr)
      BY <3>1, <3>2 DEF LabelEntry
    <3>4. Append(known[k].queued, addr) \in Seq(Nat)
      BY <3>1
    <3>5. after[k] \in LabelEntry
      BY <3>1, <3>2, <3>4 DEF LabelEntry
    <3>6. \A j \in DOMAIN after[k].queued :
             \/ after[k].queued[j] = addr
             \/ j \in DOMAIN known[k].queued /\ after[k].queued[j] = known[k].queued[j]
      BY <3>1, <3>3
    <3>7. \A j \in DOMAIN known[k].queued : known[k].queued[j] + 2 <= m
      BY <1>1 DEF Fine, Queued
    <3> QED
      BY <3>5, <3>6, <3>7
  <2> QED
    BY <2>1, <2>2
<1>5. after \in Seq(LabelEntry)
  <2>1. known \in Seq(LabelEntry) /\ Len(known) \in Nat /\ DOMAIN known = 1 .. Len(known)
    BY <1>1 DEF Fine
  <2>2. after \in [1 .. Len(known) -> LabelEntry]
    BY <1>3a, <1>4, <2>1
  <2> QED
    BY <2>1, <2>2
<1>6. Fine(after, m)
  BY <1>3, <1>4, <1>5 DEF Fine, Queued
<1> QED
  BY <1>1, <1>2, <1>6 DEF after
-----------------------------------------------------------------------------
(* What writing does to the file and the address. *)
LEMMA LenOfFunction ==
  ASSUME NEW f, NEW n \in Nat, f = [i \in 1 .. n |-> f[i]]
  PROVE  Len(f) = n
<1> DEFINE S == {f[i] : i \in 1 .. n}
<1>1. f \in [1 .. n -> S]
  OBVIOUS
<1> HIDE DEF S
<1>2. f \in Seq(S) /\ DOMAIN f = 1 .. n
  BY <1>1
<1> QED
  BY <1>2

LEMMA WrapsDown == ASSUME NEW x \in Nat PROVE U16(x) \in Nat /\ U16(x) <= x
BY DEF U16

LEMMA PutExtends ==
  ASSUME FileOK, NEW bytes, Len(bytes) \in Nat, Put(bytes)
  PROVE  FileOK' /\ fout'.len = fout.len + Len(bytes)
<1>1. fout' = Written(fout, bytes) /\ curr_addr' = U16(curr_addr + Len(bytes))
  BY DEF Put
<1>2. fout' = [len |-> fout'.len, cells |-> fout'.cells] /\ fout'.len = fout.len + Len(bytes)
  BY <1>1 DEF Written
<1>3. curr_addr' \in Nat /\ curr_addr' <= curr_addr + Len(bytes)
  BY <1>1, WrapsDown DEF FileOK
<1> QED
  BY <1>2, <1>3 DEF FileOK

LEMMA PutZerosExtends ==
  ASSUME FileOK, NEW n \in Nat, PutZeros(n)
  PROVE  FileOK' /\ fout'.len = fout.len + n
<1>1. fout' = [fout EXCEPT !.len = @ + n] /\ curr_addr' = U16(curr_addr + n)
  BY DEF PutZeros
<1>2. fout' = [len |-> fout.len + n, cells |-> fout.cells]
  BY <1>1 DEF FileOK
<1>3. curr_addr' \in Nat /\ curr_addr' <= curr_addr + n
  BY <1>1, WrapsDown DEF FileOK
<1> QED
  BY <1>2, <1>3 DEF FileOK

LEMMA MaxOfTwo ==
  ASSUME NEW x \in Int, NEW y \in Int
  PROVE  /\ Max({x, y}) \in {x, y}
         /\ Max({x, y}) >= x /\ Max({x, y}) >= y
<1>1. \E m \in {x, y} : \A k \in {x, y} : m >= k
  <2>1. CASE x >= y
    BY <2>1
  <2>2. CASE y >= x
    BY <2>2
  <2> QED
    BY <2>1, <2>2
<1> QED
  BY <1>1 DEF Max

-----------------------------------------------------------------------------
(* The token at hand, and the labels after its own was added. *)
LEMMA TokenTyped ==
  ASSUME IInv, next <= Len(tokens)
  PROVE  Token \in TokenType
BY DEF IInv, CursorsOK, Token

LEMMA LabelledFine ==
  ASSUME IInv, Writing
  PROVE  Fine(Labelled, fout.len)
<1>1. Token \in TokenType
  BY TokenTyped DEF Writing
<1>2. Fine(labels, fout.len) /\ fout.len \in Nat /\ curr_addr \in Nat
  BY DEF IInv, FileOK
<1>3. Token.label \in Texts
  BY <1>1 DEF TokenType
<1>4. Fine(add_label(labels, Token.label, curr_addr), fout.len)
  BY <1>2, <1>3, AddKeepsFine
<1> QED
  BY <1>2, <1>4 DEF Labelled

LEMMA NextTokenKeepsCursors ==
  ASSUME IInv, Writing, NextToken
  PROVE  CursorsOK'
BY DEF IInv, CursorsOK, NextToken, Writing

LEMMA NextArgumentKeepsCursors ==
  ASSUME IInv, DataArgument, NextArgument
  PROVE  /\ CursorsOK' /\ Token \in TokenType
         /\ Token.args[arg] \in Arg
<1>1. CursorsOK'
  BY DEF IInv, CursorsOK, NextArgument, DataArgument
<1>2. Token \in TokenType
  BY TokenTyped DEF IInv, CursorsOK, DataArgument
<1>3. Token.args \in Seq(Arg) /\ arg \in 1 .. Len(Token.args)
  BY <1>2 DEF TokenType, IInv, CursorsOK, DataArgument
<1> QED
  BY <1>1, <1>2, <1>3

LEMMA CountTyped == ASSUME NEW count \in Count PROVE count \in Int
<1> DEFINE imm == parse_immediate(Argument(Token, 1).sv)
<1>1. imm \in Nat
  BY ImmediateIsShort
<1>2. count = imm \/ count \in Leftovers
  BY DEF Count
<1>3. CASE count = imm
  BY <1>1, <1>3
<1>4. CASE count \in Leftovers
  BY <1>4, LeftoversAssumption
<1> QED
  BY <1>2, <1>3, <1>4

-----------------------------------------------------------------------------
(* Each action. *)
LEMMA SilentKeeps ==
  ASSUME IInv, WriteNothing \/ END \/ Data
  PROVE  IInv'
<1>1. Writing /\ labels' = Labelled /\ UNCHANGED <<curr_addr, fout>>
  BY DEF WriteNothing, END, Data
<1>2. Fine(labels', fout'.len)
  BY <1>1, LabelledFine
<1>3. FileOK'
  BY <1>1 DEF IInv, FileOK
<1>4. CursorsOK'
  <2>1. CASE WriteNothing \/ END
    BY <2>1, <1>1, NextTokenKeepsCursors DEF WriteNothing, END
  <2>2. CASE Data
    BY <2>2, <1>1 DEF Data, IInv, CursorsOK, Writing
  <2> QED
    BY <2>1, <2>2
<1> QED
  BY <1>2, <1>3, <1>4 DEF IInv

LEMMA FillersKeep ==
  ASSUME IInv, DS \/ ORG
  PROVE  IInv'
<1>1. /\ Writing /\ labels' = Labelled /\ NextToken
      /\ \E n \in Nat : PutZeros(n)
  <2>1. CASE DS
    <3>1. PICK count \in Count : PutZeros(Max({count, 0}))
      BY <2>1 DEF DS
    <3>2. Max({count, 0}) \in Nat
      BY CountTyped, MaxOfTwo
    <3> QED
      BY <2>1, <3>1, <3>2 DEF DS
  <2>2. CASE ORG
    <3>1. PICK count \in Count : PutZeros(Max({count - curr_addr, 0}))
      BY <2>2 DEF ORG
    <3>2. count - curr_addr \in Int
      BY CountTyped DEF IInv, FileOK
    <3>3. Max({count - curr_addr, 0}) \in Nat
      BY <3>2, MaxOfTwo
    <3> QED
      BY <2>2, <3>1, <3>3 DEF ORG
  <2> QED
    BY <2>1, <2>2
<1>2. PICK n \in Nat : PutZeros(n)
  BY <1>1
<1>3. FileOK' /\ fout'.len = fout.len + n
  BY <1>2, PutZerosExtends DEF IInv
<1>4. Fine(labels', fout'.len)
  BY <1>1, <1>3, LabelledFine, FineMonotone DEF IInv, FileOK
<1> QED
  BY <1>1, <1>3, <1>4, NextTokenKeepsCursors DEF IInv

(* Longer file, same labels. *)
LEMMA PutKeepsLabels ==
  ASSUME IInv, NEW bytes, Len(bytes) \in Nat, Put(bytes), NEW ls, Fine(ls, fout.len)
  PROVE  FileOK' /\ Fine(ls, fout'.len) /\ fout'.len = fout.len + Len(bytes)
BY PutExtends, FineMonotone DEF IInv, FileOK

LEMMA DBKeeps == ASSUME IInv, DB PROVE IInv'
<1> DEFINE a     == Token.args[arg]
           chars == Characters(a.sv)
           wide  == [i \in DOMAIN chars |-> U8(chars[i])]
           bytes == IF a.is_imm THEN <<U8(parse_immediate(a.sv))>>
                    ELSE IF IsQuoted(a.sv) THEN wide ELSE <<>>
<1>1. DataArgument /\ NextArgument /\ UNCHANGED labels
  BY DEF DB
<1>2. Put(bytes)
  BY DEF DB
<1>3. CASE IsQuoted(a.sv)
  <2>1. chars \in Seq(Int)
    BY <1>3, CharactersTyped
  <2> HIDE DEF chars
  <2>2. wide = [i \in 1 .. Len(chars) |-> wide[i]] /\ Len(chars) \in Nat
    BY <2>1
  <2> HIDE DEF wide
  <2>3. Len(wide) \in Nat
    BY <2>2, LenOfFunction
  <2>4. Len(bytes) \in Nat
    BY <2>3
  <2> QED
    BY <2>4, <1>1, <1>2, PutKeepsLabels, NextArgumentKeepsCursors DEF IInv
<1>4. CASE ~IsQuoted(a.sv)
  <2>1. Len(bytes) \in Nat
    BY <1>4
  <2> QED
    BY <2>1, <1>1, <1>2, PutKeepsLabels, NextArgumentKeepsCursors DEF IInv
<1> QED
  BY <1>3, <1>4

LEMMA DWKeeps == ASSUME IInv, DW PROVE IInv'
<1> DEFINE a   == Token.args[arg]
           got == queue_or_get_label(labels, a.sv, curr_addr)
<1>1. DataArgument /\ NextArgument
  BY DEF DW
<1>2. CursorsOK' /\ a.sv \in Texts
  BY <1>1, NextArgumentKeepsCursors DEF Arg
<1>3. CASE Put(ShortBytes(parse_immediate(a.sv))) /\ UNCHANGED labels
  <2>1. Len(ShortBytes(parse_immediate(a.sv))) \in Nat
    BY DEF ShortBytes
  <2> QED
    BY <2>1, <1>2, <1>3, PutKeepsLabels DEF IInv
<1>4. CASE IsQuoted(a.sv) /\ Put(WideCharacters(a.sv)) /\ UNCHANGED labels
  <2> DEFINE n == 2 * Len(Characters(a.sv))
             wide == WideCharacters(a.sv)
  <2>1. n \in Nat
    BY <1>4, CharactersTyped
  <2>2. wide = [i \in 1 .. n |-> wide[i]]
    BY DEF WideCharacters
  <2> HIDE DEF n, wide
  <2>3. Len(wide) \in Nat
    BY <2>1, <2>2, LenOfFunction
  <2> QED
    BY <2>3, <1>2, <1>4, PutKeepsLabels DEF IInv, wide
<1>5. CASE Put(ShortBytes(got.value)) /\ labels' = got.labels
  <2> DEFINE bytes == ShortBytes(got.value)
  <2>1. Len(bytes) = 2
    BY DEF ShortBytes
  <2>2. FileOK' /\ fout'.len = fout.len + 2
    <3>1. Len(bytes) \in Nat
      BY <2>1
    <3>2. FileOK' /\ fout'.len = fout.len + Len(bytes)
      BY <3>1, <1>5, PutKeepsLabels DEF IInv
    <3> QED
      BY <2>1, <3>2
  <2>3. Fine(got.labels, fout'.len)
    BY <2>2, <1>2, QueueKeepsFine DEF IInv, FileOK
  <2> QED
    BY <2>2, <2>3, <1>2, <1>5 DEF IInv
<1> QED
  BY <1>3, <1>4, <1>5 DEF DW

LEMMA InstructionKeeps == ASSUME IInv, Instruction PROVE IInv'
<1> DEFINE op  == Encoded(Token.opcode, Argument(Token, 1), Argument(Token, 2))
           imm == IF Operand.is_imm THEN parse_immediate(Operand.sv) ELSE 0
           got == queue_or_get_label(Labelled, Operand.sv, U16(curr_addr + 1))
<1>1. Writing /\ NextToken
  BY DEF Instruction
<1>2. CursorsOK' /\ Fine(Labelled, fout.len)
  BY <1>1, NextTokenKeepsCursors, LabelledFine
<1>3. Operand.sv \in Texts
  <2>1. Token \in TokenType
    BY <1>1, TokenTyped DEF Writing
  <2>2. Operand \in Arg
    BY <2>1, ArgumentTyped DEF Operand
  <2> QED
    BY <2>2 DEF Arg
<1> HIDE DEF op, imm
<1>4. CASE Put(<<op>>) /\ labels' = Labelled
  <2>1. Len(<<op>>) \in Nat
    OBVIOUS
  <2> QED
    BY <2>1, <1>2, <1>4, PutKeepsLabels DEF IInv
<1>5. CASE Put(<<op, U8(imm)>>) /\ labels' = Labelled
  <2>1. Len(<<op, U8(imm)>>) \in Nat
    OBVIOUS
  <2> QED
    BY <2>1, <1>2, <1>5, PutKeepsLabels DEF IInv
<1>6. CASE Put(<<op>> \o ShortBytes(imm)) /\ labels' = Labelled
  <2>1. Len(<<op>> \o ShortBytes(imm)) \in Nat
    BY DEF ShortBytes
  <2> QED
    BY <2>1, <1>2, <1>6, PutKeepsLabels DEF IInv
<1>7. CASE Put(<<op>> \o ShortBytes(got.value)) /\ labels' = got.labels
  <2> DEFINE bytes == <<op>> \o ShortBytes(got.value)
  <2>1. Len(bytes) = 3
    BY DEF ShortBytes
  <2>2. FileOK' /\ fout'.len = fout.len + 3
    <3>1. Len(bytes) \in Nat
      BY <2>1
    <3>2. FileOK' /\ fout'.len = fout.len + Len(bytes)
      BY <3>1, <1>2, <1>7, PutKeepsLabels DEF IInv
    <3> QED
      BY <2>1, <3>2
  <2>3. U16(curr_addr + 1) \in Nat /\ U16(curr_addr + 1) + 2 <= fout'.len
    BY <2>2, WrapsDown DEF IInv, FileOK
  <2>4. Fine(got.labels, fout'.len)
    BY <2>2, <2>3, <1>2, <1>3, QueueKeepsFine DEF IInv, FileOK
  <2> QED
    BY <2>2, <2>4, <1>2, <1>7 DEF IInv
<1> QED
  BY <1>4, <1>5, <1>6, <1>7 DEF Instruction, op, imm

LEMMA PatchKeeps == ASSUME IInv, PatchReference PROVE IInv'
<1> DEFINE addr == labels[lab].queued[ref]
<1>1. /\ Patching /\ lab <= Len(labels) /\ ref <= Len(labels[lab].queued)
      /\ fout' = file_overwrite_short(fout, addr, labels[lab].addr)
      /\ ref' = ref + 1 /\ UNCHANGED <<stage, lab>>
  BY DEF PatchReference
<1>2. lab \in DOMAIN labels /\ labels[lab] \in LabelEntry
  BY <1>1 DEF IInv, CursorsOK, Fine
<1>3. ref \in DOMAIN labels[lab].queued /\ addr \in Nat
  BY <1>1, <1>2 DEF IInv, CursorsOK, LabelEntry
<1>4. addr + 2 <= fout.len /\ fout.len \in Nat
  BY <1>2, <1>3 DEF IInv, Fine, Queued, FileOK
<1> HIDE DEF addr
<1>5. Max({fout.len, addr + 2}) = fout.len
  <2> DEFINE end == addr + 2
             most == Max({fout.len, end})
  <2>1. end \in Int /\ fout.len \in Int /\ end <= fout.len
    BY <1>3, <1>4
  <2> HIDE DEF end
  <2>2. most \in {fout.len, end} /\ most >= fout.len
    BY <2>1, MaxOfTwo
  <2> HIDE DEF most
  <2>3. most = fout.len
    BY <2>1, <2>2
  <2> QED
    BY <2>3 DEF most, end
<1>6. fout' = [len |-> fout'.len, cells |-> fout'.cells] /\ fout'.len = fout.len
  BY <1>1, <1>5 DEF file_overwrite_short
<1>7. UNCHANGED <<tokens, next, arg, curr_addr, labels>>
  BY <1>1 DEF Patching
<1> QED
  BY <1>1, <1>6, <1>7 DEF IInv, FileOK, CursorsOK

LEMMA OthersKeep ==
  ASSUME IInv, DataEnd \/ NullText \/ StartPatching \/ PatchNextLabel \/ Close \/ UNCHANGED vars
  PROVE  IInv'
<1>1. CASE DataEnd
  BY <1>1 DEF DataEnd, IInv, FileOK, CursorsOK
<1>1a. CASE NullText
  BY <1>1a DEF NullText, IInv, FileOK, CursorsOK
<1>2. CASE StartPatching
  BY <1>2 DEF StartPatching, IInv, FileOK, CursorsOK
<1>3. CASE PatchNextLabel
  BY <1>3 DEF PatchNextLabel, Patching, IInv, FileOK, CursorsOK
<1>4. CASE Close
  BY <1>4 DEF Close, Patching, IInv, FileOK, CursorsOK
<1>5. CASE UNCHANGED vars
  BY <1>5 DEF vars, IInv, FileOK, CursorsOK
<1> QED
  BY <1>1, <1>1a, <1>2, <1>3, <1>4, <1>5

(* Nothing has been written yet.                                           *)
Fresh == /\ tokens \in Seq(TokenType) /\ stage # "data"
         /\ next = 1 /\ arg = 1 /\ lab = 1 /\ ref = 1
         /\ curr_addr = 0 /\ labels = <<>> /\ force_end = FALSE
         /\ fout = [len |-> 0, cells |-> <<>>]

LEMMA FreshIInv == ASSUME Fresh PROVE IInv
<1>1. labels = <<>> /\ fout = [len |-> 0, cells |-> <<>>]
  BY DEF Fresh
<1>2. FileOK
  BY <1>1 DEF Fresh, FileOK
<1>3. Fine(labels, fout.len)
  BY <1>1 DEF Fine, Queued
<1> QED
  BY <1>2, <1>3 DEF Fresh, IInv, CursorsOK

LEMMA InitFresh == ASSUME Init PROVE Fresh /\ stage = "write"
BY ProgramsAssumption DEF Init, Fresh, TokenType, Arg

LEMMA InitIInv == ASSUME Init PROVE IInv
BY InitFresh, FreshIInv

LEMMA NextIInv == ASSUME IInv, [Next]_vars PROVE IInv'
BY SilentKeeps, FillersKeep, DBKeeps, DWKeeps, InstructionKeeps, PatchKeeps, OthersKeep
   DEF Next, write_token, write_queued_labels

(* For every program and every length of it: each queued reference lies in *)
(* what has been written, so that write_queued_labels overwrites two bytes *)
(* of an operand and never appends to the file.                            *)
THEOREM ReferencesStayInFile == Spec => []ReferencesInFile
<1>1. IInv => ReferencesInFile
  BY DEF IInv, Fine, Queued, ReferencesInFile
<1> QED
  BY <1>1, InitIInv, NextIInv, PTL DEF Spec
=============================================================================
