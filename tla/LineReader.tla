----------------------------- MODULE LineReader -----------------------------
(***************************************************************************)
(* The arena as assemble uses it: fgetline and parse_file of               *)
(* cpu8080_parser.c fill it with lines and the array of tokens, prepass    *)
(* allocates its tables, queue_or_get_label of cpu8080_assembler.c lets    *)
(* the labels and their queues grow between them.                          *)
(*                                                                         *)
(* A character is x (a letter that is no hexadecimal digit), n (a digit)   *)
(* or s (a space).  A token is the place of its line and of its number.    *)
(* An entry of an array is kept in the first of its cells.                 *)
(***************************************************************************)
EXTENDS Arena

CONSTANTS
  Files,            \* sequences of lines
  Names,            \* labels that are referred to and never defined
  LineCapacity, TokensCapacity, LabelsCapacity, IfCapacity,   \* 32, 4, 16, 16
  TokenSize, LabelSize, AddressSize, SubstituteSize,          \* sizes in cells
  Capacities        \* the sizes that the block of a line may grow to

ASSUME FilesAssumption == Files \subseteq Seq(Seq({"x", "n", "s"}))
ASSUME SizesAssumption ==
  {LineCapacity, TokensCapacity, LabelsCapacity, IfCapacity,
   TokenSize, LabelSize, AddressSize, SubstituteSize} \subseteq Nat \ {0}
ASSUME CapacitiesAssumption ==
  /\ Capacities \subseteq Nat /\ LineCapacity \in Capacities
  /\ \A cap \in Capacities :
       (\E f \in Files : \E r \in DOMAIN f : Len(f[r]) > cap) => 2 * cap \in Capacities

VARIABLES
  file, row, stage,     \* the input, the line at hand, how far assemble has come
  mem,                  \* what the memory of the arena holds
  line,                 \* [block, len, cap] of fgetline
  tokens, labels,       \* [block, count, cap]
  next,                 \* the token that is written
  queued                \* history: the references to each label, in order

vars == <<file, row, stage, arena, mem, line, tokens, labels, next, queued>>

NoBlock == [chunk |-> 1, from |-> 0, size |-> 0]

Init == /\ file \in Files /\ row = 1 /\ stage = "start"
        /\ ArenaInit /\ mem = <<>>
        /\ line = [block |-> NoBlock, len |-> 0, cap |-> 0]
        /\ labels = [block |-> NoBlock, count |-> 0, cap |-> LabelsCapacity]
        /\ tokens = [block |-> NoBlock, count |-> 0, cap |-> TokensCapacity]
        /\ next = 0 /\ queued = [name \in Names |-> <<>>]

Start ==
  /\ stage = "start"
  /\ LET one == arena_alloc(arena, LabelsCapacity * LabelSize)
         two == arena_alloc(one.arena, TokensCapacity * TokenSize)
     IN  /\ arena' = two.arena
         /\ labels' = [labels EXCEPT !.block = one.block]
         /\ tokens' = [tokens EXCEPT !.block = two.block]
  /\ stage' = "parse"
  /\ UNCHANGED <<file, row, mem, line, next, queued>>

-----------------------------------------------------------------------------
(* An array that is full is copied to a block of twice its capacity.       *)
Grown(a, m, array, size) ==
  LET got == arena_alloc(a, 2 * array.cap * size)
  IN  [arena |-> got.arena, mem |-> Copied(m, array.block, got.block),
       array |-> [array EXCEPT !.block = got.block, !.cap = 2 * @]]
AsIs(a, m, array) == [arena |-> a, mem |-> m, array |-> array]

EntryCell(array, k, size) == Cell(array.block, k * size)
Entry(array, k, size) == At(mem, EntryCell(array, k, size))

(* fgetline: a block for the line, its characters, each after making room. *)
BeginLine ==
  /\ stage = "parse"
  /\ LET got == arena_alloc(arena, LineCapacity) IN
       /\ arena' = got.arena
       /\ line' = [block |-> got.block, len |-> 0, cap |-> LineCapacity]
  /\ stage' = "line"
  /\ UNCHANGED <<file, row, mem, tokens, labels, next, queued>>

More == row <= Len(file) /\ line.len < Len(file[row])

StoreChar ==
  /\ stage = "line" /\ More
  /\ LET g == IF line.len >= line.cap THEN Grown(arena, mem, line, 1) ELSE AsIs(arena, mem, line) IN
       /\ arena' = g.arena
       /\ mem' = Stored(g.mem, Cell(g.array.block, line.len), Character(file[row][line.len + 1]))
       /\ line' = [g.array EXCEPT !.len = @ + 1]
  /\ UNCHANGED <<file, row, stage, tokens, labels, next, queued>>

(* A mutation: no terminator. *)
Terminated_Forgotten == mem

(* The terminator follows the last character, also if that fills the block *)
(* and the chunk.                                                          *)
EndMark == "end"
EndCell == Cell(line.block, line.len)
InChunk(cell) == cell[2] < arena.chunks[cell[1]].cap
Terminated == Stored(mem, EndCell, Character(EndMark))

(* What parse_immediate of cpu8080_parser.c finds at a cell: the number of *)
(* digits, or something behind them that it does not expect.               *)
Unexpected == -1
parse_immediate(m, cell) ==
  LET digits == {k \in 0 .. arena.chunks[cell[1]].cap :
                   \A j \in 0 .. k - 1 : At(m, <<cell[1], cell[2] + j>>).char = "n"}
      end    == Max(digits)
  IN  IF At(m, <<cell[1], cell[2] + end>>).char \in {EndMark, "s"} THEN end ELSE Unexpected

(* The line as the parser sees it: up to the terminator.                   *)
Text(m) ==
  LET ends == {k \in 0 .. line.len : At(m, Cell(line.block, k)).char = EndMark}
  IN  [k \in 1 .. (IF ends = {} THEN line.len ELSE Min(ends)) |-> At(m, Cell(line.block, k - 1)).char]

(* next_token: an identifier, and numbers that nothing but a space may     *)
(* follow.  Digits within an identifier are part of it.                    *)
NumberAt(text) ==
  {k \in 2 .. Len(text) : text[k] = "n" /\ text[k - 1] = "s"}
Recognised(text) ==
  LET shown == {k \in DOMAIN text : text[k] # "s"}
      runEnd(k) == Max({j \in k .. Len(text) : \A i \in k .. j : text[i] = "n"})
  IN  /\ shown # {} /\ text[Min(shown)] = "x"
      /\ \A k \in NumberAt(text), j \in DOMAIN text : j = runEnd(k) + 1 => text[j] = "s"

Token(text) ==
  [char |-> "other", row |-> row,
   imm |-> IF NumberAt(text) = {} THEN <<>> ELSE Cell(line.block, Min(NumberAt(text)) - 1)]

(* A mutation: an array grows too late. *)
Full_TooLate(array) == array.count > array.cap

(* The token is appended; the array grows when that has filled it.         *)
Full(array) == array.count >= array.cap

Appended(m) ==
  LET stored == Stored(m, EntryCell(tokens, tokens.count, TokenSize), Token(Text(m)))
      longer == [tokens EXCEPT !.count = @ + 1]
  IN  IF Full(longer) THEN Grown(arena, stored, longer, TokenSize) ELSE AsIs(arena, stored, longer)

AcceptLine ==
  /\ stage = "line" /\ ~More /\ row <= Len(file)
  /\ InChunk(EndCell) /\ Recognised(Text(Terminated))
  /\ LET g == Appended(Terminated) IN arena' = g.arena /\ mem' = g.mem /\ tokens' = g.array
  /\ row' = row + 1 /\ stage' = "parse"
  /\ UNCHANGED <<file, line, labels, next, queued>>

SkipLine ==
  /\ stage = "line" /\ ~More /\ row <= Len(file)
  /\ InChunk(EndCell) /\ ~Recognised(Text(Terminated))
  /\ mem' = Terminated
  /\ row' = row + 1 /\ stage' = "parse"
  /\ UNCHANGED <<file, arena, line, tokens, labels, next, queued>>

(* The end of the file also takes a block; then prepass takes two.         *)
EndOfFile ==
  /\ stage = "line" /\ row > Len(file)
  /\ mem' = Terminated
  /\ LET one == arena_alloc(arena, SubstituteSize)
         two == arena_alloc(one.arena, IfCapacity)
     IN  arena' = two.arena
  /\ stage' = "write"
  /\ UNCHANGED <<file, row, line, tokens, labels, next, queued>>

(* The terminator is written behind the chunk: nothing is known from then. *)
WildTerminator ==
  /\ stage = "line" /\ ~More /\ ~InChunk(EndCell)
  /\ stage' = "wild"
  /\ UNCHANGED <<file, row, arena, mem, line, tokens, labels, next, queued>>

-----------------------------------------------------------------------------
(* push_label, find_label_index and the queue of queue_or_get_label: the   *)
(* entry of a label holds where its queue is, [label, block, count, cap].  *)
push_label(a, m, ls, name) ==
  LET g   == IF Full(ls) THEN Grown(a, m, ls, LabelSize) ELSE AsIs(a, m, ls)
      got == arena_alloc(g.arena, AddressSize)
  IN  [arena |-> got.arena,
       mem   |-> Stored(g.mem, EntryCell(g.array, g.array.count, LabelSize),
                        [char |-> "other", label |-> name, block |-> got.block, count |-> 0, cap |-> 1]),
       array |-> [g.array EXCEPT !.count = @ + 1]]

Known(name) == {k \in 0 .. labels.count - 1 : Entry(labels, k, LabelSize).label = name}

(* A mutation: the entry keeps the old block of its queue. *)
Queue_OldBlock(pushed, k, addr) ==
  LET cell  == EntryCell(pushed.array, k, LabelSize)
      entry == At(pushed.mem, cell)
      g     == IF Full(entry) THEN Grown(pushed.arena, pushed.mem, entry, AddressSize)
               ELSE AsIs(pushed.arena, pushed.mem, entry)
      put   == Stored(g.mem, EntryCell(g.array, g.array.count, AddressSize), [char |-> "other", addr |-> addr])
  IN  [arena |-> g.arena,
       mem   |-> Stored(put, cell, [g.array EXCEPT !.block = entry.block, !.count = @ + 1])]

Queue(pushed, k, addr) ==
  LET cell  == EntryCell(pushed.array, k, LabelSize)
      entry == At(pushed.mem, cell)
      g     == IF Full(entry) THEN Grown(pushed.arena, pushed.mem, entry, AddressSize)
               ELSE AsIs(pushed.arena, pushed.mem, entry)
      put   == Stored(g.mem, EntryCell(g.array, g.array.count, AddressSize), [char |-> "other", addr |-> addr])
  IN  [arena |-> g.arena, mem |-> Stored(put, cell, [g.array EXCEPT !.count = @ + 1])]

WriteReference ==
  /\ stage = "write" /\ next < tokens.count
  /\ Entry(tokens, next, TokenSize).imm = <<>>
  /\ \E name \in Names :
       LET pushed == IF Known(name) = {} THEN push_label(arena, mem, labels, name)
                     ELSE AsIs(arena, mem, labels)
           k      == IF Known(name) = {} THEN labels.count ELSE Min(Known(name))
           done   == Queue(pushed, k, next)
       IN  /\ arena' = done.arena /\ mem' = done.mem /\ labels' = pushed.array
           /\ queued' = [queued EXCEPT ![name] = Append(@, next)]
  /\ next' = next + 1
  /\ UNCHANGED <<file, row, stage, line, tokens>>

WriteNumber ==
  /\ stage = "write" /\ next < tokens.count
  /\ Entry(tokens, next, TokenSize).imm # <<>>
  /\ next' = next + 1
  /\ UNCHANGED <<file, row, stage, arena, mem, line, tokens, labels, queued>>

Next == \/ Start \/ BeginLine \/ StoreChar \/ AcceptLine \/ SkipLine \/ EndOfFile \/ WildTerminator
        \/ WriteReference \/ WriteNumber

Spec == Init /\ [][Next]_vars

-----------------------------------------------------------------------------
(* A line that has been read is the line of the file, however often its    *)
(* block was exchanged for a larger one while it was read.                 *)
LineIntact ==
  stage = "line" /\ row <= Len(file) =>
    \A k \in 1 .. line.len : At(mem, Cell(line.block, k - 1)).char = file[row][k]

(* The array of tokens keeps its entries, in order, through the growth of  *)
(* other arrays and its own: one for each line that can be recognised.     *)
TokensKept ==
  LET entry(k) == Entry(tokens, k, TokenSize) IN
    /\ \A k \in 0 .. tokens.count - 1 :
         "row" \in DOMAIN entry(k) /\ entry(k).row \in 1 .. row - 1 /\ Recognised(file[entry(k).row])
    /\ \A j, k \in 0 .. tokens.count - 1 : j < k => entry(j).row < entry(k).row
    /\ \A r \in 1 .. row - 1 :
         Recognised(file[r]) => \E k \in 0 .. tokens.count - 1 : entry(k).row = r

(* A number is read again when its token is written, long after its line:  *)
(* it has still the digits that the line gives, unless the line fills its  *)
(* block.  Then the terminator was outside and has been overwritten.       *)
DigitsFrom(text, k) == Max({j \in k .. Len(text) : \A i \in k .. j : text[i] = "n"}) - k + 1
NumbersRemain ==
  stage # "wild" =>
    \A k \in 0 .. tokens.count - 1 :
      LET token == Entry(tokens, k, TokenSize)
          text  == file[token.row]
      IN  token.imm # <<>> /\ Len(text) \notin Capacities =>
            parse_immediate(mem, token.imm) = DigitsFrom(text, Min(NumberAt(text)))

(* The queue of each label keeps all references to it, in order, while     *)
(* the array of labels and the queues of other labels grow.                *)
QueuesKept ==
  LET entry(k) == Entry(labels, k, LabelSize)
      queue(k, j) == At(mem, Cell(entry(k).block, (j - 1) * AddressSize))
  IN  /\ \A k \in 0 .. labels.count - 1 :
           /\ "label" \in DOMAIN entry(k) /\ entry(k).count = Len(queued[entry(k).label])
           /\ \A j \in 1 .. entry(k).count :
                queue(k, j) = [char |-> "other", addr |-> queued[entry(k).label][j]]
      /\ \A name \in Names : queued[name] # <<>> => Known(name) # {}
=============================================================================
