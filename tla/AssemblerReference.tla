------------------------ MODULE AssemblerReference ------------------------
(***************************************************************************)
(* What an assembler writes that knows all labels from the start: layout   *)
(* first, bytes second.  An independent definition, which Assembler is     *)
(* compared with.                                                          *)
(***************************************************************************)
EXTENDS Assembler, SequencesExt

(* A byte of a statement: a value, or one half of the value of a name.     *)
Fixed(b)      == [byte |-> b]
Half(n, high) == [name |-> n, high |-> high]
Word16(sh)    == <<Fixed(Hi(sh)), Fixed(Lo(sh))>>
Reference(n)  == <<Half(n, TRUE), Half(n, FALSE)>>

Text(s) == IF CharCodes[s] = <<>> THEN <<0>> ELSE CharCodes[s]

DataOf(mnemonic, a) ==
  CASE mnemonic = "DB" /\ a.is_imm -> <<Fixed(parse_immediate(a.sv) % 256)>>
    [] mnemonic = "DB" /\ ~a.is_imm /\ IsQuoted(a.sv) -> [i \in DOMAIN Text(a.sv) |-> Fixed(Text(a.sv)[i] % 256)]
    [] mnemonic = "DW" /\ a.is_imm -> Word16(parse_immediate(a.sv))
    [] mnemonic = "DW" /\ ~a.is_imm /\ IsQuoted(a.sv) -> FlattenSeq([i \in DOMAIN Text(a.sv) |-> Word16(Text(a.sv)[i] % 65536)])
    [] mnemonic = "DW" /\ ~a.is_imm /\ ~IsQuoted(a.sv) -> Reference(a.sv)
    [] OTHER -> <<>>

OperandOf(t) == Argument(t, IF t.opcode \in OneArgument THEN 2 ELSE 1)

InstructionOf(t) ==
  LET op == Encoded(t.opcode, Argument(t, 1), Argument(t, 2))
      o  == OperandOf(t)
  IN  <<Fixed(op)>> \o
        CASE Length(op) = 3 /\ o.is_imm  -> Word16(parse_immediate(o.sv))
          [] Length(op) = 3 /\ ~o.is_imm -> Reference(o.sv)
          [] Length(op) = 2 -> <<Fixed(IF o.is_imm THEN parse_immediate(o.sv) % 256 ELSE 0)>>
          [] OTHER -> <<>>

(* The bytes of a statement, fillers apart. *)
Bytes(t) ==
  IF t.opcode \in DOMAIN BaseCode THEN InstructionOf(t)
  ELSE FlattenSeq([i \in DOMAIN t.args |-> DataOf(t.opcode, t.args[i])])

Fill(t, a) ==
  LET n == parse_immediate(Argument(t, 1).sv)
  IN  CASE t.opcode = "DS" -> n
        [] t.opcode = "ORG" -> Max({n - a, 0})
        [] OTHER -> 0

-----------------------------------------------------------------------------
(* The statements that count: those before the first END. *)
EndsAt(ts) == {i \in DOMAIN ts : ts[i].opcode = "END"}
Live(ts) == IF EndsAt(ts) = {} THEN ts ELSE SubSeq(ts, 1, Min(EndsAt(ts)))

(* A program that leaves no count to chance. *)
Determinate(ts) == \A i \in DOMAIN ts : ts[i].opcode \in {"DS", "ORG"} => Argument(ts[i], 1).is_imm

Addresses(ts) ==
  LET address[i \in 1 .. Len(ts) + 1] ==
        IF i = 1 THEN 0
        ELSE LET before == address[i - 1]
             IN  before + Len(Bytes(ts[i - 1])) + Fill(ts[i - 1], before)
  IN  address

Extent(ts) == Addresses(ts)[Len(ts) + 1]

(* The value of a name: where it is defined first; if nowhere, where its   *)
(* first reference stands.                                                 *)
Value(ts, name) ==
  LET defined == {i \in DOMAIN ts : ts[i].label = name /\ name # NoText}
      used(i) == {k \in DOMAIN Bytes(ts[i]) : Bytes(ts[i])[k] = Half(name, TRUE)}
      places  == UNION {{Addresses(ts)[i] + k - 1 : k \in used(i)} : i \in DOMAIN ts}
  IN  IF defined # {} THEN Addresses(ts)[Min(defined)] ELSE Min(places)

Resolved(ts, b) ==
  IF "byte" \in DOMAIN b THEN b.byte
  ELSE IF b.high THEN Hi(Value(ts, b.name)) ELSE Lo(Value(ts, b.name))

(* A file is what the layout says: its length, each byte of each           *)
(* statement, and zeros between them.                                      *)
Image(ts) == UNION {{<<Addresses(ts)[i] + k - 1, Resolved(ts, Bytes(ts[i])[k])>> :
                        k \in DOMAIN Bytes(ts[i])} : i \in DOMAIN ts}
NonZero(file) == {<<k, file.cells[k]>> : k \in {j \in DOMAIN file.cells : file.cells[j] # 0}}

(* The file with the queued references filled in, as far as it is written. *)
Filled(file, ts, queues) ==
  LET queued == UNION {{<<ls.label, ls.queued[j]>> : j \in DOMAIN ls.queued} : ls \in queues}
      half(k) == {q \in queued : k \in {q[2], q[2] + 1}}
  IN  [len |-> file.len,
       cells |-> [k \in DOMAIN file.cells |->
          IF half(k) = {} THEN file.cells[k]
          ELSE LET q == CHOOSE q \in half(k) : TRUE
                   v == Value(ts, q[1])
               IN  IF k = q[2] THEN Hi(v) ELSE Lo(v)]]

-----------------------------------------------------------------------------
AddressSpace == MaxShort + 1
InScope == LET ts == Live(tokens) IN
  /\ Determinate(ts) /\ Extent(ts) <= AddressSpace
  /\ \A k \in DOMAIN ts : Addresses(ts)[k] < AddressSpace

(* Queueing and patching are invisible: for every program that fits the    *)
(* address space, the file with its pending references filled in is at all *)
(* times the beginning of what an assembler writes that knows all labels.  *)
FileIsLaidOut ==
  stage \in {"write", "data", "patch"} /\ InScope =>
    LET ts == Live(tokens) IN
      NonZero(Filled(fout, ts, {labels[i] : i \in DOMAIN labels}))
        = {p \in Image(ts) : p[2] # 0 /\ p[1] < fout.len}

(* When the file is closed it is the whole image, references included.     *)
ClosedIsComplete ==
  stage = "assembled" /\ InScope =>
    LET ts == Live(tokens) IN
      /\ fout.len = Extent(ts)
      /\ NonZero(fout) = {p \in Image(ts) : p[2] # 0}

(* A queued reference lies in what has been written, whatever the program, *)
(* even where the 16-bit address has wrapped and no longer tells the       *)
(* position in the file: patching never makes the file longer.             *)
ReferencesInFile ==
  \A i \in DOMAIN labels : \A j \in DOMAIN labels[i].queued :
    labels[i].queued[j] + 2 <= fout.len
=============================================================================
