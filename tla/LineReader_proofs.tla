------------------------- MODULE LineReader_proofs -------------------------
(***************************************************************************)
(* Theorems about the memory of assemble: for every file, all capacities   *)
(* and sizes, what was stored in the arena is found again.                 *)
(***************************************************************************)
EXTENDS LineReader, Arena_proofs

(* What the first n entries of an array in block b are.                    *)
EntryAt(b, k, size) == Cell(b, k * size)
Contents(m, b, n, size) == [k \in 0 .. n - 1 |-> At(m, EntryAt(b, k, size))]

(* The size of the next larger block.                                      *)
Doubled(cap, size) == 2 * cap * size

(* An array of capacity cap with n entries has its block.                  *)
Sized(a, b, n, cap, size) ==
  /\ b \in a.blocks /\ n \in Nat /\ cap \in Nat \ {0} /\ n <= cap /\ b.size = cap * size

(* Nothing but the blocks of W changes. *)
Keeps(a, m, m2, W) ==
  \A b \in a.blocks \ W : \A k \in 0 .. b.size - 1 : At(m2, Cell(b, k)) = At(m, Cell(b, k))

KeepsBut(a, m, m2, b) == Keeps(a, m, m2, {b})
KeepsAll(a, m, m2)    == Keeps(a, m, m2, {})

-----------------------------------------------------------------------------
(* An array of n entries with v behind them. *)
IsArray(t, n) == DOMAIN t = 0 .. n - 1
Extended(t, n, v) == [j \in 0 .. n |-> IF j = n THEN v ELSE t[j]]
(* busy2 has no block of a that busy has not. *)
NoneAdded(a, busy, busy2) == busy2 \cap a.blocks \subseteq busy

(* The inductive invariant, part by part, of any arena and memory.         *)

Chars == {"x", "n", "s"}
Spelled(text, n) == [k \in 0 .. n - 1 |-> Character(text[k + 1])]

(* The line at hand is the end of its chunk. *)
LineGood(a, m, l, f, r) ==
  /\ l \in [block : Block, len : Nat, cap : Nat \ {0}]
  /\ Sized(a, l.block, l.len, l.cap, 1) /\ LastOfChunk(a, l.block) /\ l.cap \in Capacities
  /\ r <= Len(f) => l.len <= Len(f[r]) /\ Contents(m, l.block, l.len, 1) = Spelled(f[r], l.len)
  /\ r > Len(f) => l.len = 0

(* The block of the line of a token with a number: it belongs to nobody    *)
(* who writes.                                                             *)
InArchive(a, m, b, text) ==
  /\ b.size \in Capacities /\ Len(text) <= b.size
  /\ Contents(m, b, Len(text), 1) = Spelled(text, Len(text))
  /\ Len(text) < b.size => At(m, Cell(b, Len(text))) = Character(EndMark)
Archived(a, m, busy, t, text) ==
  t.imm # <<>> =>
    /\ NumberAt(text) # {}
    /\ \E b \in a.blocks \ busy :
         t.imm = Cell(b, Min(NumberAt(text)) - 1) /\ InArchive(a, m, b, text)

TokenOf(r, imm) == [char |-> "other", row |-> r, imm |-> imm]
TextsOf(t, f) == \A k \in DOMAIN t : f[t[k].row] \in Seq(Chars)

(* The tokens: t is what the array holds. *)
Listed(t, f, r) ==
  /\ \A k \in DOMAIN t : /\ t[k] = TokenOf(t[k].row, t[k].imm)
                         /\ t[k].row \in 1 .. r - 1 /\ Recognised(f[t[k].row])
  /\ \A j, k \in DOMAIN t : j < k => t[j].row < t[k].row
  /\ \A i \in 1 .. r - 1 : Recognised(f[i]) => \E k \in DOMAIN t : t[k].row = i
TokenArray(a, ts) ==
  /\ ts \in [block : Block, count : Nat, cap : Nat \ {0}]
  /\ Sized(a, ts.block, ts.count, ts.cap, TokenSize) /\ ts.count < ts.cap
InTokens(m, ts) == Contents(m, ts.block, ts.count, TokenSize)
AllArchived(a, m, busy, t, f) == \A k \in DOMAIN t : Archived(a, m, busy, t[k], f[t[k].row])
TokensGood(a, m, ts, busy, f, r) ==
  /\ TokenArray(a, ts) /\ Listed(InTokens(m, ts), f, r)
  /\ AllArchived(a, m, busy, InTokens(m, ts), f)

(* The labels: e is what their array holds. *)
LabelEntry == [char : {"other"}, label : Names, block : Block, count : Nat, cap : Nat \ {0}]
LabelArray(a, ls) ==
  /\ ls \in [block : Block, count : Nat, cap : Nat \ {0}]
  /\ Sized(a, ls.block, ls.count, ls.cap, LabelSize)
InLabels(m, ls) == Contents(m, ls.block, ls.count, LabelSize)
Reference(addr) == [char |-> "other", addr |-> addr]
QueueGood(a, m, entry, refs) ==
  /\ Sized(a, entry.block, entry.count, entry.cap, AddressSize)
  /\ entry.count = Len(refs)
  /\ Contents(m, entry.block, entry.count, AddressSize) = [j \in 0 .. Len(refs) - 1 |-> Reference(refs[j + 1])]
LabelsGood(a, m, e, own, q) ==
  /\ \A k \in DOMAIN e :
       e[k] \in LabelEntry /\ e[k].block # own /\ QueueGood(a, m, e[k], q[e[k].label])
  /\ \A j, k \in DOMAIN e : j # k => e[j].label # e[k].label /\ e[j].block # e[k].block
  /\ q \in [Names -> Seq(Nat)]
  /\ \A name \in Names : q[name] # <<>> => \E k \in DOMAIN e : e[k].label = name
LabelsAll(a, m, ls, q) == LabelArray(a, ls) /\ LabelsGood(a, m, InLabels(m, ls), ls.block, q)

(* The blocks that are written to. *)
LabelBlocks(ls, e) == {ls.block} \cup {e[k].block : k \in DOMAIN e}
LineBlock(s, l) == IF s = "line" THEN {l.block} ELSE {}
Busy == {tokens.block} \cup LabelBlocks(labels, InLabels(mem, labels)) \cup LineBlock(stage, line)

InputInv ==
  /\ file \in Files /\ row \in 1 .. Len(file) + 1 /\ next \in Nat
  /\ stage \in {"start", "parse", "line", "write", "wild"}
Fresh ==
  /\ row = 1 /\ queued = [name \in Names |-> <<>>]
  /\ tokens = [block |-> NoBlock, count |-> 0, cap |-> TokensCapacity]
  /\ labels = [block |-> NoBlock, count |-> 0, cap |-> LabelsCapacity]
Reader ==
  /\ stage = "line" => /\ LineGood(arena, mem, line, file, row)
                       /\ line.block \notin {labels.block, tokens.block}
  /\ stage \in {"parse", "line", "wild"} => labels.count = 0
Filled ==
  /\ TokensGood(arena, mem, tokens, Busy, file, row)
  /\ LabelsAll(arena, mem, labels, queued)
  /\ tokens.block \notin LabelBlocks(labels, InLabels(mem, labels))
IInv == InputInv /\ ArenaInv /\ Reader /\ IF stage = "start" THEN Fresh ELSE Filled

-----------------------------------------------------------------------------
(* Arrays in the arena. *)

LEMMA EntryWithin ==
  ASSUME NEW cap \in Nat, NEW k \in 0 .. cap - 1, NEW size \in Nat \ {0}
  PROVE  k * size \in 0 .. cap * size - 1
<1> DEFINE d == cap - k
<1>1. d \in Nat /\ d >= 1 /\ cap = k + d
  OBVIOUS
<1> HIDE DEF d
<1>2. (k + d) * size = k * size + d * size
  BY <1>1
<1>3. d * size >= 1 /\ d * size \in Nat /\ k * size \in Nat
  BY <1>1
<1> QED
  BY <1>1, <1>2, <1>3

LEMMA EntriesApart ==
  ASSUME NEW j \in Int, NEW k \in Int, j # k, NEW size \in Nat \ {0}
  PROVE  j * size \in Int /\ k * size \in Int /\ j * size # k * size
<1>1. ASSUME NEW x \in Int, NEW d \in Nat \ {0} PROVE (x + d) * size # x * size
  <2>1. (x + d) * size = x * size + d * size
    OBVIOUS
  <2>2. d * size >= 1 /\ d * size \in Nat /\ x * size \in Int
    OBVIOUS
  <2> QED
    BY <2>1, <2>2
<1>2. CASE j < k
  <2>1. k - j \in Nat \ {0} /\ j + (k - j) = k
    BY <1>2
  <2> QED
    BY <2>1, <1>1
<1>3. CASE k < j
  <2>1. j - k \in Nat \ {0} /\ k + (j - k) = j
    BY <1>3
  <2> QED
    BY <2>1, <1>1
<1> QED
  BY <1>2, <1>3

LEMMA KeepsContents ==
  ASSUME NEW a, NEW m, NEW m2, NEW W, Keeps(a, m, m2, W),
         NEW b, NEW n, NEW cap, NEW size \in Nat \ {0}, Sized(a, b, n, cap, size), b \notin W
  PROVE  Contents(m2, b, n, size) = Contents(m, b, n, size)
<1>1. ASSUME NEW k \in 0 .. n - 1
      PROVE  At(m2, EntryAt(b, k, size)) = At(m, EntryAt(b, k, size))
  <2>1. k \in 0 .. cap - 1 /\ cap \in Nat
    BY DEF Sized
  <2>2. k * size \in 0 .. b.size - 1
    BY <2>1, EntryWithin DEF Sized
  <2> QED
    BY <2>2 DEF Keeps, Sized, EntryAt
<1> QED
  BY <1>1 DEF Contents

LEMMA KeepsLess ==
  ASSUME NEW a, NEW m, NEW m2, NEW W, Keeps(a, m, m2, W), NEW W2, W \subseteq W2
  PROVE  Keeps(a, m, m2, W2)
BY DEF Keeps

LEMMA KeepsButLess ==
  ASSUME NEW a, NEW m, NEW m2, NEW b, KeepsBut(a, m, m2, b), NEW W, b \in W
  PROVE  Keeps(a, m, m2, W)
BY DEF Keeps, KeepsBut

LEMMA KeepsThenAll ==
  ASSUME NEW a, NEW m, NEW m2, NEW b, KeepsBut(a, m, m2, b),
         NEW a2, NEW m3, KeepsAll(a2, m2, m3), a.blocks \subseteq a2.blocks
  PROVE  KeepsBut(a, m, m3, b)
BY DEF Keeps, KeepsBut, KeepsAll

LEMMA KeepsThen ==
  ASSUME NEW a, NEW m, NEW m2, NEW W, Keeps(a, m, m2, W),
         NEW a2, NEW m3, NEW W2, Keeps(a2, m2, m3, W2), a.blocks \subseteq a2.blocks
  PROVE  Keeps(a, m, m3, W \cup W2)
BY DEF Keeps

LEMMA SizedLater ==
  ASSUME NEW a, NEW a2, a.blocks \subseteq a2.blocks,
         NEW b, NEW n, NEW cap, NEW size, Sized(a, b, n, cap, size)
  PROVE  Sized(a2, b, n, cap, size)
BY DEF Sized

LEMMA DoubledSize ==
  ASSUME NEW cap \in Nat \ {0}, NEW size \in Nat \ {0}
  PROVE  Doubled(cap, size) \in Nat \ {0}
<1>1. cap * size \in Nat \ {0} /\ 2 * cap * size = 2 * (cap * size)
  OBVIOUS
<1> QED
  BY <1>1 DEF Doubled

(* A larger block for an array: the entries have moved, all else has not.  *)
LEMMA ArrayGrows ==
  ASSUME NEW a, Good(a), NEW m,
         NEW b, NEW n, NEW cap, NEW size \in Nat \ {0}, Sized(a, b, n, cap, size),
         NEW got, got = arena_alloc(a, Doubled(cap, size)), NEW m2, m2 = Copied(m, b, got.block)
  PROVE  /\ Good(got.arena) /\ Gains(a, got.arena, got.block)
         /\ got.block \in Block /\ got.block \notin a.blocks /\ LastOfChunk(got.arena, got.block)
         /\ Sized(got.arena, got.block, n, 2 * cap, size)
         /\ KeepsAll(a, m, m2)
         /\ Contents(m2, got.block, n, size) = Contents(m, b, n, size)
<1>1. cap \in Nat \ {0} /\ n \in Nat /\ n <= cap /\ b \in a.blocks /\ b.size = cap * size
  BY DEF Sized
<1>2. cap * size \in Nat \ {0} /\ 2 * cap * size = 2 * (cap * size)
  BY <1>1
<1>3. Doubled(cap, size) \in Nat \ {0}
  BY <1>2 DEF Doubled
<1>4. /\ Good(got.arena) /\ Gains(a, got.arena, got.block)
      /\ got.block \in Block /\ got.block \notin a.blocks /\ LastOfChunk(got.arena, got.block)
      /\ got.block.size = Doubled(cap, size)
  BY <1>3, Allocated
<1>5. Sized(got.arena, got.block, n, 2 * cap, size)
  BY <1>1, <1>4 DEF Sized, Doubled, Gains
<1>6. b \in Block
  BY <1>1 DEF Good, TypeOK
<1>7. KeepsAll(a, m, m2)
  <2> SUFFICES ASSUME NEW d \in a.blocks, NEW k \in 0 .. d.size - 1
               PROVE  At(m2, Cell(d, k)) = At(m, Cell(d, k))
    BY DEF Keeps, KeepsBut, KeepsAll
  <2>1. d \in got.arena.blocks /\ got.block \in got.arena.blocks /\ d # got.block
    BY <1>4 DEF Gains
  <2>2. \A i \in 0 .. got.block.size - 1 : Cell(d, k) # Cell(got.block, i)
    BY <2>1, <1>4, CellsOfBlocks
  <2>3. Outside(Cell(d, k), got.block)
    BY <2>2 DEF Outside
  <2>4. got.block \in Block
    BY <1>4
  <2>5. \A c : Outside(c, got.block) => At(m2, c) = At(m, c)
    BY <2>4, <1>6, ReadCopied
  <2> QED
    BY <2>3, <2>5
<1>8. ASSUME NEW k \in 0 .. n - 1
      PROVE  At(m2, EntryAt(got.block, k, size)) = At(m, EntryAt(b, k, size))
  <2>1. k * size \in 0 .. cap * size - 1
    BY <1>1, EntryWithin
  <2>2. k * size \in 0 .. got.block.size - 1 /\ k * size < b.size
    BY <2>1, <1>1, <1>2, <1>4 DEF Doubled
  <2> QED
    BY <2>2, <1>4, <1>6, ReadCopied DEF EntryAt
<1> QED
  BY <1>4, <1>5, <1>7, <1>8 DEF Contents

(* A write to an entry. *)
LEMMA EntryStored ==
  ASSUME NEW a, Good(a), NEW m, NEW b, NEW n, NEW cap, NEW size \in Nat \ {0},
         Sized(a, b, n, cap, size), NEW k \in 0 .. cap - 1, NEW v,
         NEW m2, m2 = Stored(m, EntryAt(b, k, size), v)
  PROVE  /\ KeepsBut(a, m, m2, b)
         /\ \A j \in 0 .. cap - 1 :
              At(m2, EntryAt(b, j, size)) = IF j = k THEN v ELSE At(m, EntryAt(b, j, size))
<1>1. cap \in Nat \ {0} /\ b \in a.blocks /\ b.size = cap * size /\ b \in Block
  BY DEF Sized, Good, TypeOK
<1>2. k * size \in 0 .. b.size - 1
  BY <1>1, EntryWithin
<1>3. KeepsBut(a, m, m2, b)
  <2> SUFFICES ASSUME NEW d \in a.blocks \ {b}, NEW i \in 0 .. d.size - 1
               PROVE  At(m2, Cell(d, i)) = At(m, Cell(d, i))
    BY DEF Keeps, KeepsBut, KeepsAll
  <2>1. Cell(d, i) # EntryAt(b, k, size)
    BY <1>1, <1>2, CellsOfBlocks DEF EntryAt
  <2> QED
    BY <2>1, ReadStored
<1>4. ASSUME NEW j \in 0 .. cap - 1, j # k
      PROVE  At(m2, EntryAt(b, j, size)) = At(m, EntryAt(b, j, size))
  <2>1. j * size \in Int /\ k * size \in Int /\ j * size # k * size
    BY <1>4, EntriesApart
  <2>2. EntryAt(b, j, size) # EntryAt(b, k, size)
    BY <2>1, <1>1, CellsOfBlock DEF EntryAt
  <2> QED
    BY <2>2, ReadStored
<1>5. At(m2, EntryAt(b, k, size)) = v
  BY ReadStored
<1> QED
  BY <1>3, <1>4, <1>5

HasRoom(a, b, n, cap, size) == Sized(a, b, n, cap, size) /\ n < cap
Succ(n) == n + 1

LEMMA EntryAppended ==
  ASSUME NEW a, Good(a), NEW m, NEW b, NEW n, NEW cap,
         NEW size \in Nat \ {0}, HasRoom(a, b, n, cap, size), NEW v,
         NEW m2, m2 = Stored(m, EntryAt(b, n, size), v)
  PROVE  /\ KeepsBut(a, m, m2, b) /\ Sized(a, b, Succ(n), cap, size)
         /\ Contents(m2, b, Succ(n), size)
              = Extended(Contents(m, b, n, size), n, v)
<1> DEFINE n2 == Succ(n)
<1>0. Sized(a, b, n, cap, size)
  BY DEF HasRoom
<1>1. cap \in Nat /\ n \in 0 .. cap - 1 /\ n2 - 1 = n /\ n2 \in Nat /\ n2 = n + 1
  BY DEF Sized, HasRoom, Succ
<1> HIDE DEF n2
<1>2. /\ KeepsBut(a, m, m2, b)
      /\ \A j \in 0 .. cap - 1 :
           At(m2, EntryAt(b, j, size)) = IF j = n THEN v ELSE At(m, EntryAt(b, j, size))
  BY <1>0, <1>1, EntryStored
<1>3. Sized(a, b, n2, cap, size)
  BY <1>0, <1>1 DEF Sized
<1>4. ASSUME NEW j \in 0 .. n
      PROVE  At(m2, EntryAt(b, j, size)) = IF j = n THEN v ELSE Contents(m, b, n, size)[j]
  BY <1>1, <1>2 DEF Contents
<1> QED
  BY <1>1, <1>2, <1>3, <1>4 DEF Contents, Extended, n2

IsEntry(k, n) == k \in 0 .. n - 1
Replaced(e, k, v) == [e EXCEPT ![k] = v]

LEMMA EntryReplaced ==
  ASSUME NEW a, Good(a), NEW m, NEW b, NEW n, NEW cap, NEW size \in Nat \ {0},
         Sized(a, b, n, cap, size), NEW k, IsEntry(k, n), NEW v,
         NEW m2, m2 = Stored(m, EntryAt(b, k, size), v)
  PROVE  /\ KeepsBut(a, m, m2, b)
         /\ Contents(m2, b, n, size) = Replaced(Contents(m, b, n, size), k, v)
<1>1. cap \in Nat /\ n \in Nat /\ n <= cap /\ 0 .. n - 1 \subseteq 0 .. cap - 1
  BY DEF Sized
<1>4. k \in 0 .. n - 1
  BY DEF IsEntry
<1>0. k \in 0 .. cap - 1
  BY <1>1, <1>4
<1>2. /\ KeepsBut(a, m, m2, b)
      /\ \A j \in 0 .. cap - 1 :
           At(m2, EntryAt(b, j, size)) = IF j = k THEN v ELSE At(m, EntryAt(b, j, size))
  BY <1>0, EntryStored
<1>3. ASSUME NEW j \in 0 .. n - 1
      PROVE  At(m2, EntryAt(b, j, size)) = IF j = k THEN v ELSE At(m, EntryAt(b, j, size))
  BY <1>1, <1>2
<1> QED
  BY <1>2, <1>3, <1>4 DEF Contents, Replaced

-----------------------------------------------------------------------------
(* What a write elsewhere leaves true. *)

LEMMA ArchiveKept ==
  ASSUME NEW a, Good(a), NEW m, NEW m2, NEW busy, Keeps(a, m, m2, busy),
         NEW a2, a.blocks \subseteq a2.blocks,
         NEW busy2, NoneAdded(a, busy, busy2),
         NEW f, NEW t, AllArchived(a, m, busy, t, f), TextsOf(t, f)
  PROVE  AllArchived(a2, m2, busy2, t, f)
<1> SUFFICES ASSUME NEW k \in DOMAIN t, t[k].imm # <<>>
             PROVE  Archived(a2, m2, busy2, t[k], f[t[k].row])
  BY DEF AllArchived, Archived
<1> DEFINE text == f[t[k].row]
<1>0. text \in Seq(Chars)
  BY DEF TextsOf
<1>1. Archived(a, m, busy, t[k], text)
  BY DEF AllArchived
<1> HIDE DEF text
<1>2. NumberAt(text) # {}
  BY <1>1 DEF Archived
<1>3. PICK b \in a.blocks \ busy :
        t[k].imm = Cell(b, Min(NumberAt(text)) - 1) /\ InArchive(a, m, b, text)
  BY <1>1 DEF Archived
<1>4. b \in a2.blocks \ busy2
  BY <1>3 DEF NoneAdded
<1>5. b \notin busy /\ b \in Block
  BY <1>3 DEF Good, TypeOK
<1>6. \A i \in 0 .. b.size - 1 : At(m2, Cell(b, i)) = At(m, Cell(b, i))
  BY <1>3, <1>5 DEF Keeps
<1>7. Len(text) \in Nat /\ Len(text) <= b.size /\ b.size \in Nat
  BY <1>0, <1>3, <1>5 DEF InArchive, Block
<1>8. Contents(m2, b, Len(text), 1) = Contents(m, b, Len(text), 1)
  <2>1. ASSUME NEW i \in 0 .. Len(text) - 1 PROVE At(m2, EntryAt(b, i, 1)) = At(m, EntryAt(b, i, 1))
    BY <1>6, <1>7 DEF EntryAt
  <2> QED
    BY <2>1 DEF Contents
<1>9. Len(text) < b.size => At(m2, Cell(b, Len(text))) = At(m, Cell(b, Len(text)))
  BY <1>6, <1>7
<1>10. InArchive(a2, m2, b, text)
  BY <1>3, <1>8, <1>9 DEF InArchive
<1> QED
  BY <1>2, <1>3, <1>4, <1>10 DEF Archived, text

LEMMA ArchiveGrown ==
  ASSUME NEW a, Good(a), NEW m, NEW m2, KeepsAll(a, m, m2), NEW a2, NEW b, Gains(a, a2, b),
         NEW busy, NEW busy2, NoneAdded(a, busy, busy2),
         NEW f, NEW t, AllArchived(a, m, busy, t, f), TextsOf(t, f)
  PROVE  AllArchived(a2, m2, busy2, t, f)
<1>1. a.blocks \subseteq a2.blocks
  BY DEF Gains
<1>2. Keeps(a, m, m2, busy)
  BY DEF Keeps, KeepsAll
<1> QED
  BY <1>1, <1>2, ArchiveKept

LEMMA QueueKept ==
  ASSUME NEW a, NEW m, NEW m2, NEW W, Keeps(a, m, m2, W), NEW a2, a.blocks \subseteq a2.blocks,
         NEW v, NEW refs, QueueGood(a, m, v, refs), v.block \notin W
  PROVE  QueueGood(a2, m2, v, refs)
<1>1. Sized(a, v.block, v.count, v.cap, AddressSize)
  BY DEF QueueGood
<1>2. Contents(m2, v.block, v.count, AddressSize) = Contents(m, v.block, v.count, AddressSize)
  BY <1>1, KeepsContents, SizesAssumption
<1>3. Sized(a2, v.block, v.count, v.cap, AddressSize)
  BY <1>1, SizedLater
<1> QED
  BY <1>2, <1>3 DEF QueueGood

LEMMA LabelsKept ==
  ASSUME NEW a, NEW m, NEW m2, NEW W, Keeps(a, m, m2, W),
         NEW a2, a.blocks \subseteq a2.blocks,
         NEW e, NEW own, NEW q, LabelsGood(a, m, e, own, q), \A k \in DOMAIN e : e[k].block \notin W
  PROVE  LabelsGood(a2, m2, e, own, q)
<1>1. ASSUME NEW k \in DOMAIN e PROVE QueueGood(a2, m2, e[k], q[e[k].label])
  <2>1. QueueGood(a, m, e[k], q[e[k].label])
    BY DEF LabelsGood
  <2> QED
    BY <2>1, QueueKept
<1> QED
  BY <1>1 DEF LabelsGood

-----------------------------------------------------------------------------
(* The end of a line: the terminator harms no block, and what the parser   *)
(* then sees is the line.                                                  *)

WithEnd(m, l) == Stored(m, Cell(l.block, l.len), Character(EndMark))

LEMMA TerminatorHarmsNothing ==
  ASSUME NEW a, Good(a), NEW m, NEW l, NEW f, NEW r, LineGood(a, m, l, f, r),
         NEW m2, m2 = WithEnd(m, l)
  PROVE  /\ KeepsBut(a, m, m2, l.block)
         /\ Contents(m2, l.block, l.len, 1) = Contents(m, l.block, l.len, 1)
         /\ At(m2, Cell(l.block, l.len)) = Character(EndMark)
<1> DEFINE b == l.block
<1>1. /\ b \in a.blocks /\ b \in Block /\ LastOfChunk(a, b)
      /\ l.len \in Nat /\ l.cap \in Nat /\ l.len <= l.cap /\ b.size = l.cap
  BY DEF LineGood, Sized, Good, TypeOK
<1>2. KeepsBut(a, m, m2, b)
  <2> SUFFICES ASSUME NEW d \in a.blocks \ {b}, NEW i \in 0 .. d.size - 1
               PROVE  Cell(d, i) # Cell(b, l.len)
    BY ReadStored DEF Keeps, KeepsBut, WithEnd
  <2>1. CASE l.len = b.size
    BY <2>1, <1>1, CellBehind
  <2>2. CASE l.len # b.size
    <3>1. l.len \in 0 .. b.size - 1
      BY <1>1, <2>2
    <3> QED
      BY <3>1, <1>1, CellsOfBlocks
  <2> QED
    BY <2>1, <2>2
<1>3. ASSUME NEW i \in 0 .. l.len - 1 PROVE At(m2, EntryAt(b, i, 1)) = At(m, EntryAt(b, i, 1))
  <2>1. EntryAt(b, i, 1) # Cell(b, l.len)
    BY <1>1, CellsOfBlock DEF EntryAt
  <2> QED
    BY <2>1, ReadStored DEF WithEnd
<1> QED
  BY <1>2, <1>3, ReadStored DEF Contents, WithEnd

(* The text up to the terminator is the line of the file. *)
ReadWhole ==
  /\ row \in Nat \ {0} /\ Len(file) \in Nat /\ row <= Len(file) /\ ~More
  /\ file[row] \in Seq(Chars)

LEMMA TextIsLine ==
  ASSUME Good(arena), LineGood(arena, mem, line, file, row), ReadWhole
  PROVE  Text(Terminated) = file[row]
<1> DEFINE text == file[row]
           after == Terminated
<1>1. /\ line.len \in Nat /\ Len(text) \in Nat /\ line.len = Len(text)
      /\ Contents(mem, line.block, line.len, 1) = Spelled(text, line.len)
  BY DEF LineGood, Sized, More, ReadWhole
<1>a. after = WithEnd(mem, line)
  BY DEF Terminated, EndCell, WithEnd
<1> HIDE DEF after
<1>2. /\ Contents(after, line.block, line.len, 1) = Contents(mem, line.block, line.len, 1)
      /\ At(after, Cell(line.block, line.len)) = Character(EndMark)
  BY <1>a, TerminatorHarmsNothing
<1>0. text \in Seq(Chars)
  BY DEF ReadWhole
<1> HIDE DEF text
<1>3. ASSUME NEW i \in 0 .. line.len - 1
      PROVE  At(after, Cell(line.block, i)).char = text[i + 1] /\ text[i + 1] \in Chars
  <2>1. Contents(after, line.block, line.len, 1)[i] = Spelled(text, line.len)[i]
    BY <1>1, <1>2
  <2>2. At(after, EntryAt(line.block, i, 1)) = Character(text[i + 1])
    BY <2>1 DEF Contents, Spelled
  <2>3. i + 1 \in 1 .. Len(text)
    BY <1>1
  <2> QED
    BY <2>2, <2>3, <1>0 DEF EntryAt, Character
<1>4. At(after, Cell(line.block, line.len)).char = "end"
  BY <1>2 DEF Character, EndMark
<1> DEFINE ends == {k \in 0 .. line.len : At(after, Cell(line.block, k)).char = EndMark}
<1>5. ends = {line.len}
  BY <1>1, <1>3, <1>4 DEF EndMark, Chars
<1>6. Min(ends) = line.len /\ ends # {}
  BY <1>1, <1>5 DEF Min
<1>7. Text(after) = [k \in 1 .. line.len |-> At(after, Cell(line.block, k - 1)).char]
  BY <1>6 DEF Text
<1>8. \A k \in 1 .. line.len : At(after, Cell(line.block, k - 1)).char = text[k]
  <2> SUFFICES ASSUME NEW k \in 1 .. line.len PROVE At(after, Cell(line.block, k - 1)).char = text[k]
    OBVIOUS
  <2>1. k - 1 \in 0 .. line.len - 1 /\ k - 1 + 1 = k
    BY <1>1
  <2> QED
    BY <2>1, <1>3
<1>9. text = [k \in 1 .. line.len |-> text[k]]
  BY <1>0, <1>1
<1> QED
  BY <1>7, <1>8, <1>9 DEF text, after

-----------------------------------------------------------------------------
(* The array of tokens. *)

LEMMA Counted ==
  ASSUME NEW x \in [block : Block, count : Nat, cap : Nat \ {0}], NEW y, y = [x EXCEPT !.count = @ + 1]
  PROVE  /\ y \in [block : Block, count : Nat, cap : Nat \ {0}]
         /\ y.block = x.block /\ y.count = x.count + 1 /\ y.cap = x.cap
<1>1. y = [block |-> x.block, count |-> x.count + 1, cap |-> x.cap]
  OBVIOUS
<1> QED
  BY <1>1

LEMMA Enlarged ==
  ASSUME NEW x \in [block : Block, count : Nat, cap : Nat \ {0}], NEW b \in Block,
         NEW y, y = [x EXCEPT !.block = b, !.cap = 2 * @]
  PROVE  /\ y \in [block : Block, count : Nat, cap : Nat \ {0}]
         /\ y.block = b /\ y.count = x.count /\ y.cap = 2 * x.cap
<1>1. y = [block |-> b, count |-> x.count, cap |-> 2 * x.cap]
  OBVIOUS
<1> QED
  BY <1>1

LEMMA ListedRows ==
  ASSUME NEW f \in Seq(Seq(Chars)), NEW r \in 1 .. Len(f) + 1, NEW t, Listed(t, f, r)
  PROVE  TextsOf(t, f)
<1> SUFFICES ASSUME NEW k \in DOMAIN t PROVE f[t[k].row] \in Seq(Chars)
  BY DEF TextsOf
<1>1. t[k].row \in 1 .. r - 1
  BY DEF Listed
<1> QED
  BY <1>1

LEMMA TokensElsewhere ==
  ASSUME NEW a, Good(a), NEW m, NEW m2, NEW W, Keeps(a, m, m2, W),
         NEW a2, a.blocks \subseteq a2.blocks,
         NEW busy, W \subseteq busy, NEW busy2, NoneAdded(a, busy, busy2),
         NEW f \in Seq(Seq(Chars)), NEW r \in 1 .. Len(f) + 1,
         NEW ts, TokensGood(a, m, ts, busy, f, r), ts.block \notin W
  PROVE  InTokens(m2, ts) = InTokens(m, ts) /\ TokensGood(a2, m2, ts, busy2, f, r)
<1>1. TokenArray(a, ts) /\ Listed(InTokens(m, ts), f, r) /\ AllArchived(a, m, busy, InTokens(m, ts), f)
  BY DEF TokensGood
<1>2. InTokens(m2, ts) = InTokens(m, ts)
  BY <1>1, KeepsContents, SizesAssumption DEF TokenArray, InTokens
<1>3. TokenArray(a2, ts)
  BY <1>1, SizedLater DEF TokenArray
<1> DEFINE t == InTokens(m, ts)
<1>4. TextsOf(t, f)
  BY <1>1, ListedRows
<1> HIDE DEF t
<1>5. AllArchived(a2, m2, busy2, t, f)
  <2>1. Keeps(a, m, m2, busy)
    BY KeepsLess
  <2> QED
    BY <2>1, <1>1, <1>4, ArchiveKept DEF t
<1> QED
  BY <1>1, <1>2, <1>3, <1>5 DEF TokensGood, t

(* Only the arena has changed. *)
LEMMA TokensLater ==
  ASSUME NEW a, Good(a), NEW m, NEW a2, a.blocks \subseteq a2.blocks,
         NEW busy, NEW busy2, NoneAdded(a, busy, busy2),
         NEW f \in Seq(Seq(Chars)), NEW r \in 1 .. Len(f) + 1,
         NEW ts, TokensGood(a, m, ts, busy, f, r)
  PROVE  TokensGood(a2, m, ts, busy2, f, r)
<1> DEFINE t == InTokens(m, ts)
<1>1. TokenArray(a, ts) /\ Listed(t, f, r) /\ AllArchived(a, m, busy, t, f)
  BY DEF TokensGood
<1> HIDE DEF t
<1>2. TextsOf(t, f)
  BY <1>1, ListedRows
<1>3. TokenArray(a2, ts)
  BY <1>1, SizedLater DEF TokenArray
<1>4. Keeps(a, m, m, busy)
  BY DEF Keeps
<1>5. AllArchived(a2, m, busy2, t, f)
  BY <1>1, <1>2, <1>4, ArchiveKept
<1> QED
  BY <1>1, <1>3, <1>5 DEF TokensGood, t

(* One more token, for the line r. *)
LEMMA OneMoreListed ==
  ASSUME NEW f, NEW r \in Nat \ {0}, NEW r2, r2 = r + 1, NEW n \in Nat, NEW t, IsArray(t, n), Listed(t, f, r),
         Recognised(f[r]), NEW v, NEW imm, v = TokenOf(r, imm)
  PROVE  Listed(Extended(t, n, v), f, r2)
<1> DEFINE t2 == Extended(t, n, v)
<1>1. /\ DOMAIN t2 = 0 .. n /\ t2[n] = v /\ v = TokenOf(v.row, v.imm) /\ v.row = r
      /\ \A j \in 0 .. n - 1 : t2[j] = t[j] /\ j \in DOMAIN t2
  BY DEF Extended, TokenOf
<1>0. DOMAIN t = 0 .. n - 1
  BY DEF IsArray
<1> HIDE DEF t2
<1>2. \A j \in 0 .. n : j \in 0 .. n - 1 \/ j = n
  OBVIOUS
<1>3. \A j \in 0 .. n - 1 : /\ t[j] = TokenOf(t[j].row, t[j].imm)
                            /\ t[j].row \in 1 .. r - 1 /\ Recognised(f[t[j].row])
  BY <1>0 DEF Listed
<1>4. ASSUME NEW j \in DOMAIN t2
      PROVE  /\ t2[j] = TokenOf(t2[j].row, t2[j].imm)
             /\ t2[j].row \in 1 .. r2 - 1 /\ Recognised(f[t2[j].row])
  BY <1>1, <1>2, <1>3
<1>5. ASSUME NEW j \in DOMAIN t2, NEW k \in DOMAIN t2, j < k
      PROVE  t2[j].row < t2[k].row
  <2>1. j \in 0 .. n - 1
    BY <1>1, <1>5
  <2>2. CASE k \in 0 .. n - 1
    BY <2>1, <2>2, <1>0, <1>1, <1>5 DEF Listed
  <2>3. CASE k = n
    BY <2>1, <2>3, <1>1, <1>3
  <2> QED
    BY <2>2, <2>3, <1>1, <1>2
<1>6. ASSUME NEW i \in 1 .. r2 - 1, Recognised(f[i])
      PROVE  \E k \in DOMAIN t2 : t2[k].row = i
  <2>1. CASE i = r
    BY <2>1, <1>1
  <2>2. CASE i # r
    <3>1. i \in 1 .. r - 1
      BY <2>2
    <3>2. PICK k \in 0 .. n - 1 : t[k].row = i
      BY <3>1, <1>0, <1>6 DEF Listed
    <3>3. k \in DOMAIN t2 /\ t2[k].row = i
      BY <3>2, <1>1
    <3> QED
      BY <3>3
  <2> QED
    BY <2>1, <2>2
<1> QED
  BY <1>4, <1>5, <1>6 DEF Listed, t2

LEMMA NothingMoreListed ==
  ASSUME NEW f, NEW r \in Nat \ {0}, NEW r2, r2 = r + 1, NEW t, Listed(t, f, r), ~Recognised(f[r])
  PROVE  Listed(t, f, r2)
<1>1. \A i \in 1 .. r2 - 1 : i \in 1 .. r - 1 \/ i = r
  OBVIOUS
<1>2. 1 .. r - 1 \subseteq 1 .. r2 - 1
  OBVIOUS
<1> QED
  BY <1>1, <1>2 DEF Listed

(* The array takes another token; then it may have to grow. *)
LEMMA TokenStored ==
  ASSUME NEW a, Good(a), NEW m, NEW busy, NEW f \in Seq(Seq(Chars)), NEW r \in 1 .. Len(f), NEW r2, r2 = r + 1,
         NEW ts, TokensGood(a, m, ts, busy, f, r), ts.block \in busy, Recognised(f[r]),
         NEW v, NEW imm, v = TokenOf(r, imm),
         Archived(a, m, busy, v, f[r]),
         NEW m2, m2 = Stored(m, EntryAt(ts.block, ts.count, TokenSize), v)
  PROVE  /\ KeepsBut(a, m, m2, ts.block)
         /\ Sized(a, ts.block, Succ(ts.count), ts.cap, TokenSize)
         /\ LET t2 == Contents(m2, ts.block, Succ(ts.count), TokenSize)
            IN  Listed(t2, f, r2) /\ AllArchived(a, m2, busy, t2, f)
<1> DEFINE n == ts.count
           t == InTokens(m, ts)
           n2 == Succ(ts.count)
           t2 == Contents(m2, ts.block, n2, TokenSize)
           t3 == Extended(t, n, v)
<1>1. /\ TokenArray(a, ts) /\ Listed(t, f, r) /\ AllArchived(a, m, busy, t, f)
      /\ n \in Nat /\ HasRoom(a, ts.block, n, ts.cap, TokenSize) /\ TokenSize \in Nat \ {0}
  BY SizesAssumption DEF TokensGood, TokenArray, HasRoom
<1>3. IsArray(t, n) /\ n2 = Succ(n) /\ t = Contents(m, ts.block, n, TokenSize)
  BY DEF InTokens, Contents, IsArray
<1>b. t3 = Extended(t, n, v) /\ m2 = Stored(m, EntryAt(ts.block, n, TokenSize), v)
  OBVIOUS
<1> HIDE DEF t, n, n2, t3
<1>2. /\ KeepsBut(a, m, m2, ts.block) /\ Sized(a, ts.block, n2, ts.cap, TokenSize)
      /\ t2 = t3
  BY <1>1, <1>3, <1>b, EntryAppended
<1> HIDE DEF t2
<1>4. Listed(t3, f, r2)
  BY <1>1, <1>3, <1>b, OneMoreListed
<1>5. r \in Nat /\ DOMAIN t3 = 0 .. n /\ t3[n] = v /\ v.row = r /\ \A j \in 0 .. n - 1 : t3[j] = t[j]
  BY <1>1, <1>b DEF Extended, TokenOf
<1>6. AllArchived(a, m, busy, t3, f)
  <2> SUFFICES ASSUME NEW k \in 0 .. n PROVE Archived(a, m, busy, t3[k], f[t3[k].row])
    BY <1>5 DEF AllArchived
  <2>1. CASE k = n
    BY <2>1, <1>5
  <2>2. CASE k # n
    <3>1. k \in 0 .. n - 1
      BY <2>2, <1>1
    <3>2. Archived(a, m, busy, t[k], f[t[k].row])
      BY <3>1, <1>1, <1>3 DEF AllArchived, IsArray
    <3> QED
      BY <3>1, <3>2, <1>5
  <2> QED
    BY <2>1, <2>2
<1>7. TextsOf(t3, f)
  <2>1. r2 \in 1 .. Len(f) + 1
    OBVIOUS
  <2> QED
    BY <2>1, <1>4, ListedRows
<1>8. AllArchived(a, m2, busy, t3, f)
  <2>1. NoneAdded(a, busy, busy) /\ a.blocks \subseteq a.blocks
    BY DEF NoneAdded
  <2>2. Keeps(a, m, m2, busy)
    BY <1>2, KeepsButLess
  <2> QED
    BY <2>1, <2>2, <1>6, <1>7, ArchiveKept
<1> QED
  BY <1>2, <1>4, <1>8 DEF n2, t2

LEMMA NotYetFull ==
  ASSUME NEW a, Good(a), NEW m, NEW busy, NEW f \in Seq(Seq(Chars)), NEW r \in 1 .. Len(f), NEW r2, r2 = r + 1,
         NEW ts, TokensGood(a, m, ts, busy, f, r), ts.block \in busy, Recognised(f[r]),
         NEW v, NEW imm, v = TokenOf(r, imm),
         Archived(a, m, busy, v, f[r]),
         NEW m2, m2 = Stored(m, EntryAt(ts.block, ts.count, TokenSize), v),
         NEW ts2, ts2 = [ts EXCEPT !.count = @ + 1], ~Full(ts2)
  PROVE  KeepsBut(a, m, m2, ts.block) /\ TokensGood(a, m2, ts2, busy, f, r2) /\ ts2.block = ts.block
<1>1. ts \in [block : Block, count : Nat, cap : Nat \ {0}]
  BY DEF TokensGood, TokenArray
<1>2. /\ ts2 \in [block : Block, count : Nat, cap : Nat \ {0}]
      /\ ts2.block = ts.block /\ ts2.count = ts.count + 1 /\ ts2.cap = ts.cap
  BY <1>1, Counted
<1>4. ts2.count < ts2.cap
  <2>1. ts2.count \in Nat /\ ts2.cap \in Nat
    BY <1>2
  <2> QED
    BY <2>1 DEF Full
<1>3. /\ KeepsBut(a, m, m2, ts.block)
      /\ Sized(a, ts.block, Succ(ts.count), ts.cap, TokenSize)
      /\ LET t2 == Contents(m2, ts.block, Succ(ts.count), TokenSize)
         IN  Listed(t2, f, r2) /\ AllArchived(a, m2, busy, t2, f)
  BY TokenStored
<1> QED
  BY <1>2, <1>3, <1>4 DEF TokensGood, TokenArray, InTokens, Succ

Incremented(z) == [z EXCEPT !.count = @ + 1]
Moved(z, b)    == [z EXCEPT !.block = b, !.cap = 2 * @]
NextRow(f, r, r2) == f \in Seq(Seq(Chars)) /\ r \in 1 .. Len(f) /\ r2 = r + 1

LEMMA FullAndGrown ==
  ASSUME NEW a, Good(a), NEW m, NEW busy, NEW f, NEW r, NEW r2, NextRow(f, r, r2),
         NEW ts, TokensGood(a, m, ts, busy, f, r), ts.block \in busy, Recognised(f[r]),
         NEW v, NEW imm, v = TokenOf(r, imm),
         Archived(a, m, busy, v, f[r]),
         NEW m2, m2 = Stored(m, EntryAt(ts.block, ts.count, TokenSize), v),
         NEW got, got = arena_alloc(a, Doubled(ts.cap, TokenSize)),
         NEW m3, m3 = Copied(m2, ts.block, got.block),
         NEW ts1, ts1 = Incremented(ts), NEW ts2, ts2 = Moved(ts1, got.block),
         NEW busy2, NoneAdded(a, busy, busy2)
  PROVE  /\ Good(got.arena) /\ Gains(a, got.arena, got.block)
         /\ KeepsBut(a, m, m3, ts.block) /\ TokensGood(got.arena, m3, ts2, busy2, f, r2)
         /\ ts2.block = got.block /\ got.block \notin a.blocks
<1> DEFINE n == Succ(ts.count)
           t2 == Contents(m2, ts.block, n, TokenSize)
<1>1. ts \in [block : Block, count : Nat, cap : Nat \ {0}]
  BY DEF TokensGood, TokenArray
<1>3. /\ KeepsBut(a, m, m2, ts.block)
      /\ Sized(a, ts.block, n, ts.cap, TokenSize)
      /\ Listed(t2, f, r2) /\ AllArchived(a, m2, busy, t2, f)
  <2>1. f \in Seq(Seq(Chars)) /\ r \in 1 .. Len(f) /\ r2 = r + 1
    BY DEF NextRow
  <2> QED
    BY <2>1, TokenStored
<1> HIDE DEF n
<1>4. /\ Good(got.arena) /\ Gains(a, got.arena, got.block)
      /\ got.block \in Block /\ got.block \notin a.blocks
      /\ Sized(got.arena, got.block, n, 2 * ts.cap, TokenSize)
      /\ KeepsAll(a, m2, m3)
      /\ Contents(m3, got.block, n, TokenSize) = t2
  BY <1>3, ArrayGrows, SizesAssumption
<1>2. /\ ts2 \in [block : Block, count : Nat, cap : Nat \ {0}]
      /\ ts2.block = got.block /\ ts2.count = n /\ ts2.cap = 2 * ts.cap
  <2>1. /\ ts1 \in [block : Block, count : Nat, cap : Nat \ {0}]
        /\ ts1.count = n /\ ts1.cap = ts.cap
    BY <1>1, Counted DEF n, Succ, Incremented
  <2> QED
    BY <2>1, <1>4, Enlarged DEF Moved
<1>5. n \in Nat /\ n <= ts.cap
  BY <1>3 DEF Sized
<1>6. TokenArray(got.arena, ts2)
  BY <1>1, <1>2, <1>4, <1>5 DEF TokenArray
<1>7. TextsOf(t2, f)
  <2>1. r2 \in 1 .. Len(f) + 1 /\ f \in Seq(Seq(Chars))
    BY DEF NextRow
  <2> QED
    BY <2>1, <1>3, ListedRows
<1> HIDE DEF t2
<1>8. AllArchived(got.arena, m3, busy2, t2, f)
  BY <1>3, <1>4, <1>7, ArchiveGrown
<1>9. KeepsBut(a, m, m3, ts.block)
  <2>1. a.blocks \subseteq a.blocks
    OBVIOUS
  <2> QED
    BY <2>1, <1>3, <1>4, KeepsThenAll
<1> QED
  BY <1>2, <1>3, <1>4, <1>6, <1>8, <1>9 DEF TokensGood, InTokens

-----------------------------------------------------------------------------
(* The labels and their queues. *)

(* What a step leaves of an array that it may first have to enlarge.       *)
Roomier(a, m, x, size, g) ==
  /\ Good(g.arena) /\ a.blocks \subseteq g.arena.blocks
  /\ KeepsAll(a, m, g.mem)
  /\ HasRoom(g.arena, g.array.block, x.count, g.array.cap, size)
  /\ Contents(g.mem, g.array.block, x.count, size) = Contents(m, x.block, x.count, size)
  /\ g.array.block = x.block \/ g.array.block \notin a.blocks
Fields(x, y) == y.count = x.count /\ y.label = x.label /\ y.char = x.char /\ DOMAIN y = DOMAIN x
IsGrowable(x) == {"block", "cap"} \subseteq DOMAIN x

LEMMA Regrown ==
  ASSUME NEW x, IsGrowable(x), NEW b, NEW y, y = [x EXCEPT !.block = b, !.cap = 2 * @]
  PROVE  y.block = b /\ y.cap = 2 * x.cap /\ Fields(x, y)
BY DEF IsGrowable, Fields

LEMMA CountedArray ==
  ASSUME NEW x \in [block : Block, count : Nat, cap : Nat \ {0}],
         NEW z, Fields(x, z), z.block \in Block, z.cap \in Nat \ {0},
         NEW y, y = Incremented(z)
  PROVE  /\ y \in [block : Block, count : Nat, cap : Nat \ {0}]
         /\ y.block = z.block /\ y.count = Succ(x.count) /\ y.cap = z.cap
<1>1. DOMAIN z = {"block", "count", "cap"} /\ z.count = x.count
  BY DEF Fields
<1>2. y = [block |-> z.block, count |-> z.count + 1, cap |-> z.cap]
  BY <1>1 DEF Incremented
<1> QED
  BY <1>1, <1>2 DEF Succ

LEMMA CountedEntry ==
  ASSUME NEW x \in LabelEntry, NEW z, Fields(x, z), z.block \in Block, z.cap \in Nat \ {0},
         NEW y, y = Incremented(z)
  PROVE  /\ y \in LabelEntry
         /\ y.label = x.label /\ y.block = z.block /\ y.count = Succ(x.count) /\ y.cap = z.cap
<1>1. /\ DOMAIN z = {"char", "label", "block", "count", "cap"}
      /\ z.count = x.count /\ z.label = x.label /\ z.char = x.char
  BY DEF Fields, LabelEntry
<1>2. y = [char |-> z.char, label |-> z.label, block |-> z.block, count |-> z.count + 1, cap |-> z.cap]
  BY <1>1 DEF Incremented
<1> QED
  BY <1>1, <1>2 DEF Succ, LabelEntry

LEMMA RoomByGrowth ==
  ASSUME NEW a, Good(a), NEW m, NEW x, IsGrowable(x), NEW size \in Nat \ {0},
         Sized(a, x.block, x.count, x.cap, size), NEW g, g = Grown(a, m, x, size)
  PROVE  Roomier(a, m, x, size, g) /\ Fields(x, g.array)
<1> DEFINE got == arena_alloc(a, Doubled(x.cap, size))
           m2 == Copied(m, x.block, got.block)
           y == [x EXCEPT !.block = got.block, !.cap = 2 * @]
<1>1. g.arena = got.arena /\ g.mem = m2 /\ g.array = y
  BY DEF Grown, Doubled
<1>2. y.block = got.block /\ y.cap = 2 * x.cap /\ Fields(x, y)
  BY Regrown
<1>3. got = arena_alloc(a, Doubled(x.cap, size)) /\ m2 = Copied(m, x.block, got.block)
  OBVIOUS
<1> HIDE DEF got, m2, y
<1>4. /\ Good(got.arena) /\ Gains(a, got.arena, got.block)
      /\ got.block \notin a.blocks
      /\ Sized(got.arena, got.block, x.count, 2 * x.cap, size)
      /\ KeepsAll(a, m, m2)
      /\ Contents(m2, got.block, x.count, size) = Contents(m, x.block, x.count, size)
  BY <1>3, ArrayGrows
<1>5. x.count \in Nat /\ x.cap \in Nat \ {0} /\ x.count <= x.cap
  BY DEF Sized
<1>6. HasRoom(got.arena, got.block, x.count, 2 * x.cap, size)
  BY <1>4, <1>5 DEF HasRoom
<1>7. a.blocks \subseteq got.arena.blocks
  BY <1>4 DEF Gains
<1> QED
  BY <1>1, <1>2, <1>4, <1>6, <1>7 DEF Roomier

LEMMA RoomAtHand ==
  ASSUME NEW a, Good(a), NEW m, NEW x, NEW size \in Nat \ {0},
         Sized(a, x.block, x.count, x.cap, size), ~Full(x), NEW g, g = AsIs(a, m, x)
  PROVE  Roomier(a, m, x, size, g) /\ Fields(x, g.array)
<1>1. g.arena = a /\ g.mem = m /\ g.array = x
  BY DEF AsIs
<1>2. x.count \in Nat /\ x.cap \in Nat /\ x.count < x.cap
  BY DEF Sized, Full
<1> QED
  BY <1>1, <1>2 DEF Roomier, Fields, HasRoom, KeepsAll, Keeps

LEMMA RoomMade ==
  ASSUME NEW a, Good(a), NEW m, NEW x, IsGrowable(x), NEW size \in Nat \ {0},
         Sized(a, x.block, x.count, x.cap, size),
         NEW g, g = IF Full(x) THEN Grown(a, m, x, size) ELSE AsIs(a, m, x)
  PROVE  Roomier(a, m, x, size, g) /\ Fields(x, g.array)
<1>1. CASE Full(x)
  BY <1>1, RoomByGrowth
<1>2. CASE ~Full(x)
  BY <1>2, RoomAtHand
<1> QED
  BY <1>1, <1>2

LEMMA QueueApart ==
  ASSUME NEW a, NEW m, NEW e, NEW own, NEW q, LabelsGood(a, m, e, own, q), NEW k \in DOMAIN e
  PROVE  e[k] \in LabelEntry /\ e[k].block \in a.blocks /\ e[k].block # own
BY DEF LabelsGood, QueueGood, Sized

LEMMA KeepsWritten ==
  ASSUME NEW a, NEW m, NEW m1, KeepsAll(a, m, m1), NEW a1, a.blocks \subseteq a1.blocks,
         NEW m2, NEW b1, KeepsBut(a1, m1, m2, b1), NEW b, b1 = b \/ b1 \notin a.blocks
  PROVE  KeepsBut(a, m, m2, b)
BY DEF Keeps, KeepsBut, KeepsAll

LEMMA LabelAdded ==
  ASSUME NEW a, NEW m, NEW e, NEW own, NEW q, LabelsGood(a, m, e, own, q),
         NEW n \in Nat, IsArray(e, n),
         NEW v \in LabelEntry, v.block # own, QueueGood(a, m, v, q[v.label]),
         \A k \in DOMAIN e : e[k].label # v.label /\ e[k].block # v.block
  PROVE  LabelsGood(a, m, Extended(e, n, v), own, q)
<1> DEFINE e2 == Extended(e, n, v)
<1>1. /\ DOMAIN e2 = 0 .. n /\ e2[n] = v /\ DOMAIN e = 0 .. n - 1
      /\ \A k \in 0 .. n - 1 : e2[k] = e[k]
      /\ \A k \in DOMAIN e2 : k \in DOMAIN e \/ k = n
      /\ DOMAIN e \subseteq DOMAIN e2 /\ n \in DOMAIN e2
  BY DEF Extended, IsArray
<1> HIDE DEF e2
<1>2. \A k \in DOMAIN e2 :
        e2[k] \in LabelEntry /\ e2[k].block # own /\ QueueGood(a, m, e2[k], q[e2[k].label])
  BY <1>1 DEF LabelsGood
<1>3. \A j, k \in DOMAIN e2 : j # k => e2[j].label # e2[k].label /\ e2[j].block # e2[k].block
  <2> SUFFICES ASSUME NEW j \in DOMAIN e2, NEW k \in DOMAIN e2, j # k
               PROVE  e2[j].label # e2[k].label /\ e2[j].block # e2[k].block
    OBVIOUS
  <2>1. CASE j \in DOMAIN e /\ k \in DOMAIN e
    BY <2>1, <1>1 DEF LabelsGood
  <2>2. CASE j = n
    BY <2>2, <1>1
  <2>3. CASE k = n
    BY <2>3, <1>1
  <2> QED
    BY <2>1, <2>2, <2>3, <1>1
<1>4. \A name \in Names : q[name] # <<>> => \E k \in DOMAIN e2 : e2[k].label = name
  <2> SUFFICES ASSUME NEW name \in Names, q[name] # <<>> PROVE \E k \in DOMAIN e2 : e2[k].label = name
    OBVIOUS
  <2>1. PICK k \in DOMAIN e : e[k].label = name
    BY DEF LabelsGood
  <2> QED
    BY <2>1, <1>1
<1>5. q \in [Names -> Seq(Nat)]
  BY DEF LabelsGood
<1> QED
  BY <1>2, <1>3, <1>4, <1>5 DEF LabelsGood, e2

(* An entry with an empty queue is added for a name that has none.         *)
NameOf(v) == v.label
EmptyEntry(name, b) == [char |-> "other", label |-> name, block |-> b, count |-> 0, cap |-> 1]
FreshQueue(a, b) == b \in a.blocks /\ b \in Block /\ b.size = AddressSize
LEMMA FreshEntry ==
  ASSUME NEW a, NEW m, NEW b, FreshQueue(a, b),
         NEW name \in Names, NEW q, q[name] = <<>>,
         NEW v, v = EmptyEntry(name, b)
  PROVE  v \in LabelEntry /\ QueueGood(a, m, v, q[v.label])
<1>1. /\ v.block = b /\ v.count = 0 /\ v.cap = 1 /\ v.label = name /\ v.char = "other"
      /\ v \in LabelEntry
  BY DEF LabelEntry, EmptyEntry, FreshQueue
<1>2. Sized(a, b, 0, 1, AddressSize)
  BY SizesAssumption DEF Sized, FreshQueue
<1> DEFINE refs == q[v.label]
<1>3. refs = <<>>
  BY <1>1
<1> HIDE DEF refs
<1>4. v.count = Len(refs) /\ Len(refs) = 0
  BY <1>1, <1>3
<1>5. Contents(m, v.block, v.count, AddressSize) = [j \in 0 .. Len(refs) - 1 |-> Reference(refs[j + 1])]
  BY <1>4 DEF Contents
<1>6. Sized(a, v.block, v.count, v.cap, AddressSize)
  BY <1>1, <1>2
<1>7. QueueGood(a, m, v, refs)
  BY <1>4, <1>5, <1>6 DEF QueueGood
<1> QED
  BY <1>1, <1>7 DEF refs

LEMMA LabelPushed ==
  ASSUME NEW a, Good(a), NEW m, NEW ls, NEW q, LabelsAll(a, m, ls, q),
         NEW name \in Names, \A k \in DOMAIN InLabels(m, ls) : InLabels(m, ls)[k].label # name,
         NEW p, p = push_label(a, m, ls, name)
  PROVE  /\ Good(p.arena) /\ a.blocks \subseteq p.arena.blocks
         /\ KeepsBut(a, m, p.mem, ls.block)
         /\ LabelsAll(p.arena, p.mem, p.array, q)
         /\ NoneAdded(a, LabelBlocks(ls, InLabels(m, ls)), LabelBlocks(p.array, InLabels(p.mem, p.array)))
         /\ ls.count \in DOMAIN InLabels(p.mem, p.array)
         /\ NameOf(InLabels(p.mem, p.array)[ls.count]) = name
<1> DEFINE e   == InLabels(m, ls)
           n   == ls.count
           g   == IF Full(ls) THEN Grown(a, m, ls, LabelSize) ELSE AsIs(a, m, ls)
           got == arena_alloc(g.arena, AddressSize)
           v   == [char |-> "other", label |-> name, block |-> got.block, count |-> 0, cap |-> 1]
           m2  == Stored(g.mem, EntryAt(g.array.block, n, LabelSize), v)
           ls2 == [g.array EXCEPT !.count = @ + 1]
<1>1. /\ ls \in [block : Block, count : Nat, cap : Nat \ {0}]
      /\ Sized(a, ls.block, n, ls.cap, LabelSize)
      /\ LabelsGood(a, m, e, ls.block, q) /\ n \in Nat /\ IsArray(e, n)
      /\ e = Contents(m, ls.block, n, LabelSize)
      /\ LabelSize \in Nat \ {0} /\ AddressSize \in Nat \ {0}
  BY SizesAssumption DEF LabelsAll, LabelArray, IsArray, InLabels, Contents
<1>2. Roomier(a, m, ls, LabelSize, g) /\ Fields(ls, g.array)
  <2>1. IsGrowable(ls)
    BY <1>1 DEF IsGrowable
  <2> HIDE DEF n
  <2> QED
    BY <2>1, <1>1, RoomMade DEF n
<1>3. p.arena = got.arena /\ p.array = ls2 /\ p.mem = m2
  BY <1>2 DEF push_label, EntryCell, EntryAt, Fields
<1>a. /\ got = arena_alloc(g.arena, AddressSize) /\ m2 = Stored(g.mem, EntryAt(g.array.block, n, LabelSize), v)
      /\ v = EmptyEntry(name, got.block)
  BY DEF EmptyEntry
<1> HIDE DEF g, got, v, m2, e, n
<1>4. /\ Good(got.arena) /\ Gains(g.arena, got.arena, got.block)
      /\ got.block \in Block /\ got.block \notin g.arena.blocks /\ got.block.size = AddressSize
  <2>1. Good(g.arena)
    BY <1>2 DEF Roomier
  <2> QED
    BY <2>1, <1>1, <1>a, Allocated
<1> DEFINE a1 == g.arena
           m1 == g.mem
           b1 == g.array.block
           a2 == got.arena
           cap == g.array.cap
           e2 == Extended(e, n, v)
<1>5. /\ Good(a1) /\ a.blocks \subseteq a1.blocks /\ KeepsAll(a, m, m1)
      /\ HasRoom(a1, b1, n, cap, LabelSize)
      /\ Contents(m1, b1, n, LabelSize) = e
      /\ b1 = ls.block \/ b1 \notin a.blocks
  BY <1>1, <1>2 DEF Roomier, n
<1>6. /\ a1.blocks \subseteq a2.blocks /\ got.block \in a2.blocks
  BY <1>4 DEF Gains
<1>b. m2 = Stored(m1, EntryAt(b1, n, LabelSize), v)
  BY <1>a
<1> HIDE DEF a1, m1, b1, cap, a2
<1>7. /\ KeepsBut(a1, m1, m2, b1) /\ Sized(a1, b1, Succ(n), cap, LabelSize)
      /\ Contents(m2, b1, Succ(n), LabelSize) = Extended(Contents(m1, b1, n, LabelSize), n, v)
  BY <1>b, <1>1, <1>5, EntryAppended
<1>c. e2 = Extended(Contents(m1, b1, n, LabelSize), n, v)
  BY <1>5
<1>8. KeepsBut(a, m, m2, ls.block)
  BY <1>5, <1>7, KeepsWritten
<1>9. b1 \in a1.blocks /\ b1 \in Block
  BY <1>5 DEF HasRoom, Sized, Good, TypeOK
<1>10. ls2 \in [block : Block, count : Nat, cap : Nat \ {0}] /\ ls2.block = b1 /\ ls2.count = Succ(n) /\ ls2.cap = cap
  <2>1. cap \in Nat \ {0}
    BY <1>5 DEF HasRoom, Sized
  <2>2. ls2 = Incremented(g.array)
    BY DEF Incremented
  <2> HIDE DEF ls2
  <2> QED
    BY <2>1, <2>2, <1>1, <1>2, <1>9, CountedArray DEF b1, cap, n
<1> HIDE DEF ls2, e2
<1>11. \A k \in DOMAIN e : e[k] \in LabelEntry /\ e[k].block \in a.blocks /\ e[k].block # b1
  BY <1>1, <1>5, QueueApart
<1>12. LabelsGood(a1, m1, e, ls.block, q)
  BY <1>1, <1>5, LabelsKept DEF KeepsAll
<1>13. LabelsGood(a2, m2, e, ls.block, q)
  <2>1. Keeps(a1, m1, m2, {b1})
    BY <1>7 DEF KeepsBut
  <2>2. \A k \in DOMAIN e : e[k].block \notin {b1}
    BY <1>11
  <2> QED
    BY <2>1, <2>2, <1>6, <1>12, LabelsKept
<1>14. LabelsGood(a2, m2, e, b1, q)
  BY <1>11, <1>13 DEF LabelsGood
<1>15. q[name] = <<>>
  BY <1>1 DEF LabelsGood, e
<1>16. v \in LabelEntry /\ NameOf(v) = name /\ v.block = got.block /\ QueueGood(a2, m2, v, q[v.label])
  <2>1. FreshQueue(a2, got.block)
    BY <1>4, <1>6 DEF FreshQueue
  <2>2. NameOf(v) = name /\ v.block = got.block
    BY <1>a DEF EmptyEntry, NameOf
  <2>3. v \in LabelEntry /\ QueueGood(a2, m2, v, q[v.label])
    BY <2>1, <1>a, <1>15, FreshEntry
  <2> QED
    BY <2>2, <2>3
<1>17. \A k \in DOMAIN e : e[k].label # v.label /\ e[k].block # v.block
  BY <1>4, <1>5, <1>11, <1>16 DEF e, NameOf, a1
<1>18. LabelsGood(a2, m2, e2, b1, q)
  <2>1. v.block # b1
    BY <1>4, <1>9, <1>16 DEF a1
  <2> QED
    BY <2>1, <1>1, <1>14, <1>16, <1>17, LabelAdded DEF e2
<1>19. InLabels(m2, ls2) = e2
  BY <1>7, <1>10, <1>c DEF InLabels
<1>20. LabelsAll(a2, m2, ls2, q)
  <2>1. Sized(a2, ls2.block, ls2.count, ls2.cap, LabelSize)
    BY <1>6, <1>7, <1>10, SizedLater
  <2> QED
    BY <2>1, <1>10, <1>18, <1>19 DEF LabelsAll, LabelArray
<1>21. DOMAIN e2 = 0 .. n /\ e2[n] = v /\ \A k \in DOMAIN e2 : k = n \/ (k \in DOMAIN e /\ e2[k] = e[k])
  BY <1>1 DEF e2, Extended, IsArray
<1>22. NoneAdded(a, LabelBlocks(ls, e), LabelBlocks(ls2, e2))
  <2> SUFFICES ASSUME NEW b \in LabelBlocks(ls2, e2), b \in a.blocks PROVE b \in LabelBlocks(ls, e)
    BY DEF NoneAdded
  <2>1. CASE b = b1
    BY <2>1, <1>5 DEF LabelBlocks
  <2>2. ASSUME NEW k \in DOMAIN e2, b = e2[k].block
        PROVE  b \in LabelBlocks(ls, e)
    <3>1. CASE k = n
      BY <3>1, <2>2, <1>4, <1>5, <1>16, <1>21 DEF a1
    <3>2. CASE k # n
      BY <3>2, <2>2, <1>21 DEF LabelBlocks
    <3> QED
      BY <3>1, <3>2
  <2> QED
    BY <2>1, <2>2, <1>10 DEF LabelBlocks
<1>23. Good(a2) /\ a.blocks \subseteq a2.blocks
  BY <1>4, <1>5, <1>6 DEF a2
<1>24. n \in DOMAIN e2
  BY <1>1, <1>21
<1> QED
  BY <1>3, <1>8, <1>16, <1>19, <1>20, <1>21, <1>22, <1>23, <1>24 DEF a2, e, n

(* A queue that has taken another reference.                               *)
LEMMA QueueExtended ==
  ASSUME NEW refs \in Seq(Nat), NEW c, c = Len(refs), NEW addr \in Nat
  PROVE  /\ Append(refs, addr) \in Seq(Nat) /\ Len(Append(refs, addr)) = Succ(c)
         /\ Append(refs, addr) # <<>>
         /\ [j \in 0 .. Len(Append(refs, addr)) - 1 |-> Reference(Append(refs, addr)[j + 1])]
              = Extended([j \in 0 .. Len(refs) - 1 |-> Reference(refs[j + 1])], c, Reference(addr))
<1> DEFINE refs2 == Append(refs, addr)
           t == [j \in 0 .. Len(refs) - 1 |-> Reference(refs[j + 1])]
<1>1. /\ refs2 \in Seq(Nat) /\ Len(refs2) = c + 1 /\ refs2[c + 1] = addr /\ c \in Nat
      /\ \A j \in 1 .. c : refs2[j] = refs[j]
  OBVIOUS
<1>2. refs2 # <<>>
  BY <1>1
<1> HIDE DEF refs2
<1>3. ASSUME NEW j \in 0 .. c
      PROVE  Reference(refs2[j + 1]) = IF j = c THEN Reference(addr) ELSE t[j]
  <2>1. CASE j = c
    BY <2>1, <1>1
  <2>2. CASE j # c
    <3>1. j + 1 \in 1 .. c /\ j \in 0 .. Len(refs) - 1
      BY <2>2, <1>1
    <3> QED
      BY <3>1, <2>2, <1>1
  <2> QED
    BY <2>1, <2>2
<1>4. 0 .. Len(refs2) - 1 = 0 .. c
  BY <1>1
<1>5. [j \in 0 .. Len(refs2) - 1 |-> Reference(refs2[j + 1])] = Extended(t, c, Reference(addr))
  BY <1>3, <1>4 DEF Extended
<1> QED
  BY <1>1, <1>2, <1>5 DEF refs2, Succ

Requeued(q, name, refs) == [q EXCEPT ![name] = refs]
OtherQueues(a, m, e, k, q) == \A j \in DOMAIN e : j # k => QueueGood(a, m, e[j], q[e[j].label])
OtherBlocks(e, k, b) == \A j \in DOMAIN e : j # k => e[j].block # b

LEMMA LabelReplaced ==
  ASSUME NEW a, NEW m, NEW e, NEW own, NEW q, LabelsGood(a, m, e, own, q), NEW k \in DOMAIN e,
         NEW v \in LabelEntry, v.label = e[k].label, v.block # own, OtherBlocks(e, k, v.block),
         NEW refs \in Seq(Nat), refs # <<>>, NEW a2, NEW m2, QueueGood(a2, m2, v, refs),
         OtherQueues(a2, m2, e, k, q)
  PROVE  LabelsGood(a2, m2, Replaced(e, k, v), own, Requeued(q, v.label, refs))
<1> DEFINE e2 == Replaced(e, k, v)
           q2 == Requeued(q, v.label, refs)
<1>1. /\ \A j \in DOMAIN e : e[j] \in LabelEntry /\ e[j].block # own
      /\ \A i, j \in DOMAIN e : i # j => e[i].label # e[j].label /\ e[i].block # e[j].block
      /\ q \in [Names -> Seq(Nat)]
      /\ \A name \in Names : q[name] # <<>> => \E j \in DOMAIN e : e[j].label = name
  BY DEF LabelsGood
<1>2. v.label \in Names
  BY DEF LabelEntry
<1>3. /\ DOMAIN e2 = DOMAIN e /\ e2[k] = v
      /\ \A j \in DOMAIN e : j # k => e2[j] = e[j]
  BY DEF Replaced
<1>4. /\ q2 \in [Names -> Seq(Nat)] /\ q2[v.label] = refs
      /\ \A name \in Names : name # v.label => q2[name] = q[name]
  BY <1>1, <1>2 DEF Requeued
<1> HIDE DEF e2, q2
<1>5. ASSUME NEW j \in DOMAIN e2
      PROVE  e2[j] \in LabelEntry /\ e2[j].block # own /\ QueueGood(a2, m2, e2[j], q2[e2[j].label])
  <2>1. CASE j = k
    BY <2>1, <1>3, <1>4
  <2>2. CASE j # k
    <3>1. j \in DOMAIN e /\ e2[j] = e[j]
      BY <2>2, <1>3
    <3>2. e[j].label # v.label /\ e[j].label \in Names
      BY <3>1, <2>2, <1>1 DEF LabelEntry
    <3>3. QueueGood(a2, m2, e[j], q[e[j].label])
      BY <3>1, <2>2 DEF OtherQueues
    <3> QED
      BY <3>1, <3>2, <3>3, <1>1, <1>4
  <2> QED
    BY <2>1, <2>2
<1>6. ASSUME NEW i \in DOMAIN e2, NEW j \in DOMAIN e2, i # j
      PROVE  e2[i].label # e2[j].label /\ e2[i].block # e2[j].block
  <2>1. CASE i = k
    BY <2>1, <1>1, <1>3, <1>6 DEF OtherBlocks
  <2>2. CASE j = k
    BY <2>2, <1>1, <1>3, <1>6 DEF OtherBlocks
  <2>3. CASE i # k /\ j # k
    BY <2>3, <1>1, <1>3, <1>6
  <2> QED
    BY <2>1, <2>2, <2>3
<1>7. ASSUME NEW name \in Names, q2[name] # <<>>
      PROVE  \E j \in DOMAIN e2 : e2[j].label = name
  <2>1. CASE name = v.label
    BY <2>1, <1>3
  <2>2. CASE name # v.label
    <3>1. PICK j \in DOMAIN e : e[j].label = name
      BY <2>2, <1>1, <1>4, <1>7
    <3>2. e2[j].label = name
      BY <3>1, <1>3
    <3> QED
      BY <3>1, <3>2, <1>3
  <2> QED
    BY <2>1, <2>2
<1> QED
  BY <1>4, <1>5, <1>6, <1>7 DEF LabelsGood, e2, q2

(* A reference is queued: nothing but the array of labels and the queue of *)
(* its label are written to.                                               *)
Parts(p, a, m, ls) == p.arena = a /\ p.mem = m /\ p.array = ls
Awaited(q, name, addr) == [q EXCEPT ![name] = Append(@, addr)]

LEMMA ReferenceQueued ==
  ASSUME NEW a, Good(a), NEW m, NEW ls, NEW p, Parts(p, a, m, ls), NEW q, LabelsAll(a, m, ls, q),
         NEW k \in DOMAIN InLabels(m, ls), NEW name, NameOf(InLabels(m, ls)[k]) = name, NEW addr \in Nat,
         NEW done, done = Queue(p, k, addr)
  PROVE  /\ Good(done.arena) /\ a.blocks \subseteq done.arena.blocks
         /\ Keeps(a, m, done.mem, LabelBlocks(ls, InLabels(m, ls)))
         /\ LabelsAll(done.arena, done.mem, ls, Awaited(q, name, addr))
         /\ NoneAdded(a, LabelBlocks(ls, InLabels(m, ls)), LabelBlocks(ls, InLabels(done.mem, ls)))
<1> DEFINE e   == InLabels(m, ls)
           n   == ls.count
           x   == e[k]
           c   == x.count
           g   == IF Full(x) THEN Grown(a, m, x, AddressSize) ELSE AsIs(a, m, x)
           a1  == g.arena
           m1  == g.mem
           b1  == g.array.block
           cap == g.array.cap
           m2  == Stored(m1, EntryAt(b1, c, AddressSize), Reference(addr))
           y   == [g.array EXCEPT !.count = @ + 1]
           m3  == Stored(m2, EntryAt(ls.block, k, LabelSize), y)
<1>1. /\ Sized(a, ls.block, n, ls.cap, LabelSize) /\ LabelArray(a, ls)
      /\ LabelsGood(a, m, e, ls.block, q) /\ n \in Nat /\ DOMAIN e = 0 .. n - 1
      /\ k \in 0 .. n - 1 /\ k \in DOMAIN e
      /\ e = Contents(m, ls.block, n, LabelSize)
      /\ LabelSize \in Nat \ {0} /\ AddressSize \in Nat \ {0}
  BY SizesAssumption DEF LabelsAll, LabelArray, InLabels, Contents
<1>2. x = At(m, EntryCell(ls, k, LabelSize)) /\ EntryCell(ls, k, LabelSize) = EntryAt(ls.block, k, LabelSize)
  BY <1>1 DEF Contents, EntryAt, EntryCell
<1>3. /\ x \in LabelEntry /\ x.block \in a.blocks /\ x.block # ls.block
      /\ QueueGood(a, m, x, q[name]) /\ x.label = name /\ name \in Names
      /\ Sized(a, x.block, c, x.cap, AddressSize)
  <2>1. x \in LabelEntry /\ x.block \in a.blocks /\ x.block # ls.block
    BY <1>1, QueueApart
  <2>2. x.label = name
    BY DEF NameOf
  <2>3. QueueGood(a, m, x, q[x.label])
    BY <1>1 DEF LabelsGood
  <2>4. name \in Names
    BY <2>1, <2>2 DEF LabelEntry
  <2>5. Sized(a, x.block, c, x.cap, AddressSize)
    BY <2>3 DEF QueueGood
  <2> QED
    BY <2>1, <2>2, <2>3, <2>4, <2>5
<1>4. IsGrowable(x)
  BY <1>3 DEF IsGrowable, LabelEntry
<1> HIDE DEF e, x, n
<1>5. Roomier(a, m, x, AddressSize, g) /\ Fields(x, g.array)
  BY <1>1, <1>3, <1>4, RoomMade DEF c
<1>6. done.arena = a1 /\ done.mem = m3
  BY <1>2, <1>5 DEF Queue, Parts, EntryCell, EntryAt, Fields, Reference, x
<1>a. m2 = Stored(m1, EntryAt(b1, c, AddressSize), Reference(addr)) /\ m3 = Stored(m2, EntryAt(ls.block, k, LabelSize), y)
  OBVIOUS
<1> HIDE DEF m2, m3
<1>7. /\ Good(a1) /\ a.blocks \subseteq a1.blocks /\ KeepsAll(a, m, m1)
      /\ HasRoom(a1, b1, c, cap, AddressSize)
      /\ Contents(m1, b1, c, AddressSize) = Contents(m, x.block, c, AddressSize)
      /\ b1 = x.block \/ b1 \notin a.blocks
  BY <1>5 DEF Roomier
<1>8. b1 \in a1.blocks /\ b1 \in Block /\ cap \in Nat \ {0} /\ ls.block \in a.blocks
  BY <1>1, <1>7 DEF HasRoom, Sized, Good, TypeOK
<1>9. y \in LabelEntry /\ y.label = name /\ y.block = b1 /\ y.count = Succ(c) /\ y.cap = cap
  <2>1. y = Incremented(g.array)
    BY DEF Incremented
  <2>2. g.array.block \in Block /\ g.array.cap \in Nat \ {0} /\ Fields(x, g.array) /\ x \in LabelEntry
    BY <1>3, <1>5, <1>8
  <2> HIDE DEF y, b1, cap, c
  <2>3. /\ y \in LabelEntry
        /\ y.label = x.label /\ y.block = g.array.block /\ y.count = Succ(x.count) /\ y.cap = g.array.cap
    BY <2>1, <2>2, CountedEntry
  <2> QED
    BY <2>3, <1>3 DEF b1, cap, c
<1> HIDE DEF g, a1, m1, b1, cap, y, c
<1>b. m2 = Stored(m1, EntryAt(b1, c, AddressSize), Reference(addr)) /\ m3 = Stored(m2, EntryAt(ls.block, k, LabelSize), y)
  BY <1>a
<1>10. /\ KeepsBut(a1, m1, m2, b1) /\ Sized(a1, b1, Succ(c), cap, AddressSize)
       /\ Contents(m2, b1, Succ(c), AddressSize) = Extended(Contents(m1, b1, c, AddressSize), c, Reference(addr))
  BY <1>b, <1>1, <1>7, EntryAppended
<1>11. b1 # ls.block
  BY <1>3, <1>7, <1>8
<1>12. KeepsBut(a, m, m2, x.block)
  BY <1>7, <1>10, KeepsWritten
<1>13. Contents(m2, ls.block, n, LabelSize) = e
  <2>1. Keeps(a, m, m2, {x.block}) /\ ls.block \notin {x.block}
    BY <1>3, <1>12 DEF KeepsBut
  <2> QED
    BY <2>1, <1>1, KeepsContents
<1>14. Sized(a1, ls.block, n, ls.cap, LabelSize)
  BY <1>1, <1>7, SizedLater
<1>15. /\ KeepsBut(a1, m2, m3, ls.block)
       /\ Contents(m3, ls.block, n, LabelSize) = Replaced(Contents(m2, ls.block, n, LabelSize), k, y)
  <2>1. IsEntry(k, n)
    BY <1>1 DEF IsEntry
  <2>2. Good(a1) /\ LabelSize \in Nat \ {0}
    BY <1>1, <1>7
  <2>3. m3 = Stored(m2, EntryAt(ls.block, k, LabelSize), y)
    BY <1>b
  <2> QED
    BY <2>1, <2>2, <2>3, <1>14, EntryReplaced
<1>16. ASSUME NEW W, x.block \in W, ls.block \in W
       PROVE  Keeps(a, m, m3, W)
  BY <1>16, <1>12, <1>15, <1>7 DEF Keeps, KeepsBut
<1> DEFINE refs == q[name]
           refs2 == Append(refs, addr)
           e3 == Replaced(e, k, y)
<1>17. refs \in Seq(Nat)
  BY <1>1, <1>3 DEF LabelsGood
<1>18. c = Len(refs) /\ Contents(m, x.block, c, AddressSize) = [j \in 0 .. Len(refs) - 1 |-> Reference(refs[j + 1])]
  BY <1>3 DEF QueueGood, c
<1>19. /\ refs2 \in Seq(Nat) /\ Len(refs2) = Succ(c) /\ refs2 # <<>>
       /\ [j \in 0 .. Len(refs2) - 1 |-> Reference(refs2[j + 1])]
            = Extended([j \in 0 .. Len(refs) - 1 |-> Reference(refs[j + 1])], c, Reference(addr))
  BY <1>17, <1>18, QueueExtended
<1> HIDE DEF refs, refs2, e3
<1>20. Contents(m3, b1, Succ(c), AddressSize) = Contents(m2, b1, Succ(c), AddressSize)
  <2>1. Keeps(a1, m2, m3, {ls.block}) /\ b1 \notin {ls.block}
    BY <1>11, <1>15 DEF KeepsBut
  <2> QED
    BY <2>1, <1>1, <1>10, KeepsContents
<1>21. QueueGood(a1, m3, y, refs2)
  BY <1>7, <1>9, <1>10, <1>18, <1>19, <1>20 DEF QueueGood
<1>22. OtherQueues(a1, m3, e, k, q)
  <2> SUFFICES ASSUME NEW j \in DOMAIN e, j # k PROVE QueueGood(a1, m3, e[j], q[e[j].label])
    BY DEF OtherQueues
  <2>1. Keeps(a, m, m3, {x.block, ls.block})
    BY <1>16
  <2>2. e[j].block \notin {x.block, ls.block} /\ QueueGood(a, m, e[j], q[e[j].label])
    BY <1>1 DEF LabelsGood, x
  <2> QED
    BY <2>1, <2>2, <1>7, QueueKept
<1>23. OtherBlocks(e, k, y.block)
  <2> SUFFICES ASSUME NEW j \in DOMAIN e, j # k PROVE e[j].block # b1
    BY <1>9 DEF OtherBlocks
  <2>1. e[j].block \in a.blocks
    BY <1>1, QueueApart
  <2>2. e[j].block # x.block
    BY <1>1 DEF LabelsGood, x
  <2> QED
    BY <2>1, <2>2, <1>7
<1>24. LabelsGood(a1, m3, e3, ls.block, Requeued(q, y.label, refs2))
  <2>1. y.label = e[k].label /\ y.block # ls.block
    BY <1>3, <1>9, <1>11 DEF x
  <2> QED
    BY <2>1, <1>1, <1>9, <1>19, <1>21, <1>22, <1>23, LabelReplaced DEF e3
<1>25. Requeued(q, y.label, refs2) = Awaited(q, name, addr)
  BY <1>9 DEF Requeued, Awaited, refs2, refs
<1>26. InLabels(m3, ls) = e3
  BY <1>13, <1>15 DEF InLabels, n, e3
<1>27. LabelsAll(a1, m3, ls, Awaited(q, name, addr))
  BY <1>1, <1>14, <1>24, <1>25, <1>26 DEF LabelsAll, LabelArray, n
<1>28. x.block \in LabelBlocks(ls, e) /\ ls.block \in LabelBlocks(ls, e)
  BY <1>1 DEF LabelBlocks, x
<1>29. DOMAIN e3 = DOMAIN e /\ e3[k] = y /\ \A j \in DOMAIN e : j # k => e3[j] = e[j]
  BY <1>1 DEF e3, Replaced
<1>30. NoneAdded(a, LabelBlocks(ls, e), LabelBlocks(ls, e3))
  <2> SUFFICES ASSUME NEW b \in LabelBlocks(ls, e3), b \in a.blocks PROVE b \in LabelBlocks(ls, e)
    BY DEF NoneAdded
  <2>1. CASE b = ls.block
    BY <2>1, <1>28
  <2>2. ASSUME NEW j \in DOMAIN e3, b = e3[j].block
        PROVE  b \in LabelBlocks(ls, e)
    <3>1. CASE j = k
      BY <3>1, <2>2, <1>7, <1>9, <1>28, <1>29
    <3>2. CASE j # k
      BY <3>2, <2>2, <1>29 DEF LabelBlocks
    <3> QED
      BY <3>1, <3>2
  <2> QED
    BY <2>1, <2>2 DEF LabelBlocks
<1>31. Keeps(a, m, m3, LabelBlocks(ls, e))
  BY <1>16, <1>28
<1> QED
  BY <1>6, <1>7, <1>26, <1>27, <1>30, <1>31 DEF e

-----------------------------------------------------------------------------
(* Arrays without entries, and arrays that a step does not write to. *)

BlockFor(a, b, cap, size) == b \in Block /\ b \in a.blocks /\ b.size = cap * size
ArrayIn(b, cap) == [block |-> b, count |-> 0, cap |-> cap]

LEMMA NewArray ==
  ASSUME NEW a, NEW b, NEW cap \in Nat \ {0}, NEW size, BlockFor(a, b, cap, size),
         NEW x, x = ArrayIn(b, cap)
  PROVE  /\ x \in [block : Block, count : Nat, cap : Nat \ {0}]
         /\ Sized(a, x.block, x.count, x.cap, size) /\ x.count < x.cap
<1>1. x.block = b /\ x.count = 0 /\ x.cap = cap /\ x = [block |-> b, count |-> 0, cap |-> cap]
  BY DEF ArrayIn
<1> QED
  BY <1>1 DEF Sized, BlockFor

LEMMA EmptyTokens ==
  ASSUME NEW a, NEW m, NEW ts, TokenArray(a, ts), ts.count = 0, NEW busy, NEW f
  PROVE  TokensGood(a, m, ts, busy, f, 1)
<1>1. DOMAIN InTokens(m, ts) = {}
  BY DEF InTokens, Contents
<1> HIDE DEF InTokens
<1>2. Listed(InTokens(m, ts), f, 1)
  BY <1>1 DEF Listed
<1>3. AllArchived(a, m, busy, InTokens(m, ts), f)
  BY <1>1 DEF AllArchived
<1> QED
  BY <1>2, <1>3 DEF TokensGood

LEMMA EmptyLabels ==
  ASSUME NEW a, NEW m, NEW ls, LabelArray(a, ls), ls.count = 0, NEW q, q = [name \in Names |-> <<>>]
  PROVE  LabelsAll(a, m, ls, q)
<1>1. DOMAIN InLabels(m, ls) = {}
  BY DEF InLabels, Contents
<1>2. q \in [Names -> Seq(Nat)] /\ \A name \in Names : q[name] = <<>>
  OBVIOUS
<1>3. LabelsGood(a, m, InLabels(m, ls), ls.block, q)
  BY <1>1, <1>2 DEF LabelsGood
<1> QED
  BY <1>3 DEF LabelsAll

LEMMA NoLabelBlocks ==
  ASSUME NEW m, NEW ls, ls.count = 0
  PROVE  LabelBlocks(ls, InLabels(m, ls)) = {ls.block}
<1>1. DOMAIN InLabels(m, ls) = {}
  BY DEF InLabels, Contents
<1> QED
  BY <1>1 DEF LabelBlocks

LEMMA LabelsElsewhere ==
  ASSUME NEW a, NEW m, NEW m2, NEW W, Keeps(a, m, m2, W), NEW a2, a.blocks \subseteq a2.blocks,
         NEW ls, NEW q, LabelsAll(a, m, ls, q),
         \A b \in LabelBlocks(ls, InLabels(m, ls)) : b \notin W
  PROVE  InLabels(m2, ls) = InLabels(m, ls) /\ LabelsAll(a2, m2, ls, q)
<1> DEFINE e == InLabels(m, ls)
<1>1. LabelArray(a, ls) /\ LabelsGood(a, m, e, ls.block, q)
  BY DEF LabelsAll
<1>2. ls.block \notin W /\ \A k \in DOMAIN e : e[k].block \notin W
  BY DEF LabelBlocks
<1>3. InLabels(m2, ls) = e
  <2>1. Sized(a, ls.block, ls.count, ls.cap, LabelSize) /\ LabelSize \in Nat \ {0}
    BY <1>1, SizesAssumption DEF LabelArray
  <2> QED
    BY <2>1, <1>2, KeepsContents DEF InLabels
<1> HIDE DEF e
<1>4. LabelsGood(a2, m2, e, ls.block, q)
  BY <1>1, <1>2, LabelsKept
<1>5. LabelArray(a2, ls)
  BY <1>1, SizedLater DEF LabelArray
<1> QED
  BY <1>3, <1>4, <1>5 DEF LabelsAll, e

LEMMA NothingWritten == ASSUME NEW a, NEW m, NEW W PROVE Keeps(a, m, m, W)
BY DEF Keeps

-----------------------------------------------------------------------------
(* Each step keeps the invariant. *)

(* What the invariant says once there are arrays.                          *)
AfterStart ==
  /\ Good(arena) /\ file \in Files /\ file \in Seq(Seq(Chars)) /\ next \in Nat
  /\ row \in 1 .. Len(file) + 1
  /\ Filled /\ Reader
LEMMA Unfolded == ASSUME IInv, stage # "start" PROVE AfterStart
BY FilesAssumption DEF IInv, ArenaInv, InputInv, AfterStart, Chars

LEMMA Folded ==
  ASSUME ArenaInv', InputInv', Reader', stage' # "start", Filled'
  PROVE  IInv'
BY DEF IInv

LEMMA StartKeeps == ASSUME IInv, Start PROVE IInv'
<1> DEFINE one == arena_alloc(arena, LabelsCapacity * LabelSize)
           two == arena_alloc(one.arena, TokensCapacity * TokenSize)
<1>1. stage = "start" /\ Good(arena) /\ InputInv /\ Fresh
  BY DEF Start, IInv, ArenaInv
<1>2. /\ arena' = two.arena /\ labels' = [labels EXCEPT !.block = one.block]
      /\ tokens' = [tokens EXCEPT !.block = two.block] /\ stage' = "parse"
      /\ UNCHANGED <<file, row, mem, line, next, queued>>
  BY DEF Start
<1>3. /\ LabelsCapacity * LabelSize \in Nat \ {0} /\ TokensCapacity * TokenSize \in Nat \ {0}
      /\ LabelsCapacity \in Nat \ {0} /\ TokensCapacity \in Nat \ {0}
  BY SizesAssumption
<1> DEFINE n == LabelsCapacity * LabelSize
           k == TokensCapacity * TokenSize
<1>4. one = arena_alloc(arena, n) /\ two = arena_alloc(one.arena, k) /\ n \in Nat \ {0} /\ k \in Nat \ {0}
  BY <1>3
<1> HIDE DEF one, two, n, k
<1>5. /\ Good(one.arena) /\ one.block \in Block /\ one.block.size = n /\ Gains(arena, one.arena, one.block)
  BY <1>1, <1>4, Allocated
<1>6. /\ Good(two.arena) /\ two.block \in Block /\ two.block.size = k /\ Gains(one.arena, two.arena, two.block)
      /\ two.block \notin one.arena.blocks
  BY <1>4, <1>5, Allocated
<1>7. one.block \in one.arena.blocks /\ {one.block, two.block} \subseteq two.arena.blocks /\ two.block # one.block
  BY <1>5, <1>6 DEF Gains
<1>8. labels' = [block |-> one.block, count |-> 0, cap |-> LabelsCapacity]
  BY <1>1, <1>2 DEF Fresh
<1>9. tokens' = [block |-> two.block, count |-> 0, cap |-> TokensCapacity]
  BY <1>1, <1>2 DEF Fresh
<1>10. LabelArray(arena', labels')
  <2>1. BlockFor(arena', one.block, LabelsCapacity, LabelSize)
    BY <1>2, <1>5, <1>7 DEF n, BlockFor
  <2>2. labels' = ArrayIn(one.block, LabelsCapacity)
    BY <1>8 DEF ArrayIn
  <2> QED
    BY <2>1, <2>2, <1>3, NewArray DEF LabelArray
<1>11. TokenArray(arena', tokens')
  <2>1. BlockFor(arena', two.block, TokensCapacity, TokenSize)
    BY <1>2, <1>6, <1>7 DEF k, BlockFor
  <2>2. tokens' = ArrayIn(two.block, TokensCapacity)
    BY <1>9 DEF ArrayIn
  <2> QED
    BY <2>1, <2>2, <1>3, NewArray DEF TokenArray
<1>12. labels'.count = 0 /\ tokens'.count = 0 /\ labels'.block = one.block /\ tokens'.block = two.block
  BY <1>8, <1>9
<1>13. TokensGood(arena', mem', tokens', Busy', file', 1)
  BY <1>11, <1>12, EmptyTokens
<1>14. queued' = [name \in Names |-> <<>>] /\ row' = 1
  BY <1>1, <1>2 DEF Fresh
<1>15. LabelsAll(arena', mem', labels', queued')
  BY <1>10, <1>12, <1>14, EmptyLabels
<1>16. LabelBlocks(labels', InLabels(mem', labels')) = {labels'.block}
  BY <1>12, NoLabelBlocks
<1>17. Filled'
  BY <1>7, <1>12, <1>13, <1>14, <1>15, <1>16 DEF Filled
<1>18. Reader'
  BY <1>2, <1>12 DEF Reader
<1>19. InputInv'
  BY <1>1, <1>2 DEF InputInv
<1> QED
  BY <1>2, <1>6, <1>17, <1>18, <1>19, Folded DEF ArenaInv

LEMMA EmptySpelling ==
  ASSUME NEW m, NEW b, NEW text
  PROVE  Contents(m, b, 0, 1) = Spelled(text, 0)
BY DEF Contents, Spelled

InFile(f, r) == f \in Seq(Seq(Chars)) /\ r \in 1 .. Len(f) + 1
LineIn(b, len, cap) == [block |-> b, len |-> len, cap |-> cap]
LEMMA NewLine ==
  ASSUME NEW a, NEW m, NEW b, NEW cap \in Nat \ {0}, BlockFor(a, b, cap, 1), LastOfChunk(a, b), cap \in Capacities,
         NEW f, NEW r, InFile(f, r), NEW l, l = LineIn(b, 0, cap)
  PROVE  LineGood(a, m, l, f, r) /\ l.block = b
<1>1. l.block = b /\ l.len = 0 /\ l.cap = cap /\ l = [block |-> b, len |-> 0, cap |-> cap]
  BY DEF LineIn
<1>2. b \in Block /\ b \in a.blocks /\ b.size = cap * 1
  BY DEF BlockFor
<1>3. Sized(a, l.block, l.len, l.cap, 1)
  BY <1>1, <1>2 DEF Sized
<1>4. l \in [block : Block, len : Nat, cap : Nat \ {0}]
  BY <1>1, <1>2
<1>5. r <= Len(f) => Len(f[r]) \in Nat
  BY DEF InFile
<1>6. Contents(m, l.block, l.len, 1) = Spelled(f[r], l.len)
  BY <1>1, EmptySpelling
<1> QED
  BY <1>1, <1>3, <1>4, <1>5, <1>6 DEF LineGood

(* Everything that is busy once the labels have no entry.                  *)
BusyBlocks(ts, ls, own) == {ts.block, ls.block} \cup own
LEMMA FewBusy == ASSUME labels.count = 0 PROVE Busy = BusyBlocks(tokens, labels, LineBlock(stage, line))
BY NoLabelBlocks DEF Busy, BusyBlocks

LEMMA BlocksOfArrays ==
  ASSUME NEW a, NEW m, NEW ts, NEW busy, NEW f, NEW r, TokensGood(a, m, ts, busy, f, r),
         NEW ls, NEW q, LabelsAll(a, m, ls, q)
  PROVE  ts.block \in a.blocks /\ ls.block \in a.blocks
BY DEF TokensGood, TokenArray, LabelsAll, LabelArray, Sized

LEMMA BeginLineKeeps == ASSUME AfterStart, BeginLine PROVE IInv'
<1> DEFINE got == arena_alloc(arena, LineCapacity)
<1>1. /\ arena' = got.arena /\ line' = LineIn(got.block, 0, LineCapacity)
      /\ stage = "parse" /\ stage' = "line"
      /\ UNCHANGED <<file, row, mem, tokens, labels, next, queued>>
  BY DEF BeginLine, LineIn
<1>2. /\ Good(arena) /\ file \in Files /\ file \in Seq(Seq(Chars)) /\ next \in Nat
      /\ row \in 1 .. Len(file) + 1 /\ labels.count = 0
  BY <1>1 DEF AfterStart, Reader
<1>3. /\ TokensGood(arena, mem, tokens, Busy, file, row) /\ LabelsAll(arena, mem, labels, queued)
      /\ tokens.block \notin LabelBlocks(labels, InLabels(mem, labels))
  BY DEF AfterStart, Filled
<1>4. LineCapacity \in Nat \ {0} /\ LineCapacity \in Capacities
  BY SizesAssumption, CapacitiesAssumption
<1>5. /\ Good(got.arena) /\ got.block \in Block /\ got.block.size = LineCapacity
      /\ got.block \notin arena.blocks /\ Gains(arena, got.arena, got.block) /\ LastOfChunk(got.arena, got.block)
  BY <1>2, <1>4, Allocated
<1> HIDE DEF got
<1>6. arena.blocks \subseteq got.arena.blocks /\ got.block \in got.arena.blocks
  BY <1>5 DEF Gains
<1>7. tokens.block \in arena.blocks /\ labels.block \in arena.blocks
  BY <1>3, BlocksOfArrays
<1>8. LineGood(arena', mem', line', file', row') /\ line'.block = got.block
  <2>1. BlockFor(arena', got.block, LineCapacity, 1)
    BY <1>1, <1>4, <1>5, <1>6 DEF BlockFor
  <2>2. LastOfChunk(arena', got.block) /\ InFile(file', row')
    BY <1>1, <1>2, <1>5 DEF InFile
  <2>3. line' = LineIn(got.block, 0, LineCapacity)
    BY <1>1
  <2> QED
    BY <2>1, <2>2, <2>3, <1>4, NewLine
<1>9. NoneAdded(arena, Busy, Busy')
  <2>1. Busy = BusyBlocks(tokens, labels, LineBlock(stage, line))
    BY <1>2, FewBusy
  <2>2. labels'.count = 0
    BY <1>1, <1>2
  <2>3. Busy' = BusyBlocks(tokens', labels', LineBlock(stage', line'))
    BY <2>2, NoLabelBlocks DEF Busy, BusyBlocks
  <2> QED
    BY <2>1, <2>3, <1>1, <1>5, <1>8 DEF NoneAdded, BusyBlocks, LineBlock
<1>10. TokensGood(arena', mem', tokens', Busy', file', row')
  BY <1>1, <1>2, <1>3, <1>6, <1>9, TokensLater
<1>11. LabelsAll(arena', mem', labels', queued')
  <2>1. Keeps(arena, mem, mem, {})
    BY NothingWritten
  <2> QED
    BY <2>1, <1>1, <1>3, <1>6, LabelsElsewhere
<1>12. Filled'
  BY <1>1, <1>3, <1>10, <1>11 DEF Filled
<1>13. Reader'
  BY <1>1, <1>2, <1>5, <1>7, <1>8 DEF Reader
<1>14. InputInv'
  BY <1>1, <1>2 DEF InputInv
<1> QED
  BY <1>1, <1>5, <1>12, <1>13, <1>14, Folded DEF ArenaInv

RoomInLine(a, m, l, g) ==
  /\ Good(g.arena) /\ a.blocks \subseteq g.arena.blocks
  /\ KeepsAll(a, m, g.mem)
  /\ HasRoom(g.arena, g.array.block, l.len, g.array.cap, 1) /\ LastOfChunk(g.arena, g.array.block)
  /\ g.array.cap \in Capacities /\ g.array.block \in Block
  /\ Contents(g.mem, g.array.block, l.len, 1) = Contents(m, l.block, l.len, 1)
  /\ g.array.block = l.block \/ g.array.block \notin a.blocks
  /\ g.array = LineIn(g.array.block, l.len, g.array.cap)

LEMMA LineGrows ==
  ASSUME NEW a, Good(a), NEW m, NEW f, NEW r, LineGood(a, m, line, f, r),
         2 * line.cap \in Capacities, NEW g, g = Grown(a, m, line, 1)
  PROVE  RoomInLine(a, m, line, g)
<1> DEFINE got == arena_alloc(a, Doubled(line.cap, 1))
           m2 == Copied(m, line.block, got.block)
           b == line.block
           n == line.len
           cap == line.cap
<1>1. /\ b \in Block /\ n \in Nat /\ cap \in Nat \ {0} /\ n <= cap
      /\ line = [block |-> b, len |-> n, cap |-> cap] /\ Sized(a, b, n, cap, 1)
  BY DEF LineGood, Sized
<1>2. g.arena = got.arena /\ g.mem = m2 /\ g.array = [line EXCEPT !.block = got.block, !.cap = 2 * @]
  BY DEF Grown, Doubled
<1>3. g.array = LineIn(got.block, n, 2 * cap)
  BY <1>1, <1>2 DEF LineIn
<1>4. g.array.block = got.block /\ g.array.cap = 2 * cap
  BY <1>3 DEF LineIn
<1>5. got = arena_alloc(a, Doubled(cap, 1)) /\ m2 = Copied(m, b, got.block)
  OBVIOUS
<1>6. 2 * cap \in Capacities
  OBVIOUS
<1> HIDE DEF got, m2, b, n, cap
<1>7. /\ Good(got.arena) /\ Gains(a, got.arena, got.block)
      /\ got.block \in Block /\ got.block \notin a.blocks /\ LastOfChunk(got.arena, got.block)
      /\ Sized(got.arena, got.block, n, 2 * cap, 1)
      /\ KeepsAll(a, m, m2)
      /\ Contents(m2, got.block, n, 1) = Contents(m, b, n, 1)
  BY <1>1, <1>5, ArrayGrows
<1>8. HasRoom(got.arena, got.block, n, 2 * cap, 1)
  BY <1>1, <1>7 DEF HasRoom
<1>9. a.blocks \subseteq got.arena.blocks
  BY <1>7 DEF Gains
<1> QED
  BY <1>2, <1>3, <1>4, <1>6, <1>7, <1>8, <1>9 DEF RoomInLine, b, n

LEMMA LineFits ==
  ASSUME NEW a, Good(a), NEW m, NEW f, NEW r, LineGood(a, m, line, f, r),
         line.len < line.cap, NEW g, g = AsIs(a, m, line)
  PROVE  RoomInLine(a, m, line, g)
<1>1. g.arena = a /\ g.mem = m /\ g.array = line
  BY DEF AsIs
<1>2. line = LineIn(line.block, line.len, line.cap) /\ line.block \in Block
  BY DEF LineGood, LineIn
<1>3. /\ HasRoom(a, line.block, line.len, line.cap, 1)
      /\ LastOfChunk(a, line.block) /\ line.cap \in Capacities
  BY DEF LineGood, HasRoom
<1> QED
  BY <1>1, <1>2, <1>3 DEF RoomInLine, KeepsAll, Keeps

LEMMA SpelledFurther ==
  ASSUME NEW text, NEW n \in Nat
  PROVE  Extended(Spelled(text, n), n, Character(text[n + 1])) = Spelled(text, Succ(n))
<1>1. \A j \in 0 .. n : j # n => j \in 0 .. n - 1
  OBVIOUS
<1>2. 0 .. Succ(n) - 1 = 0 .. n
  BY DEF Succ
<1> QED
  BY <1>1, <1>2 DEF Extended, Spelled

LEMMA NextCapacity ==
  ASSUME NEW f \in Files, NEW r \in DOMAIN f, NEW cap \in Capacities, Len(f[r]) > cap
  PROVE  2 * cap \in Capacities
BY CapacitiesAssumption

LEMMA CellOfEntry == ASSUME NEW b, NEW k \in Nat PROVE EntryAt(b, k, 1) = Cell(b, k)
<1>1. k * 1 = k
  OBVIOUS
<1> QED
  BY <1>1 DEF EntryAt

(* The character goes behind those that the line has.                      *)
LEMMA LineLonger ==
  ASSUME NEW a, NEW m, NEW b, NEW n \in Nat, NEW cap \in Nat \ {0}, Sized(a, b, Succ(n), cap, 1), LastOfChunk(a, b),
         cap \in Capacities, b \in Block,
         NEW f, NEW r, Succ(n) <= Len(f[r]), r <= Len(f), Len(f) \in Nat, r \in Nat,
         Contents(m, b, Succ(n), 1) = Spelled(f[r], Succ(n)),
         NEW l, l = LineIn(b, Succ(n), cap)
  PROVE  LineGood(a, m, l, f, r) /\ l.block = b
<1>1. /\ l.block = b /\ l.len = Succ(n) /\ l.cap = cap
      /\ l = [block |-> b, len |-> Succ(n), cap |-> cap] /\ Succ(n) \in Nat
  BY DEF LineIn, Succ
<1>2. l \in [block : Block, len : Nat, cap : Nat \ {0}]
  BY <1>1
<1> QED
  BY <1>1, <1>2 DEF LineGood

LEMMA StoreCharKeeps == ASSUME AfterStart, StoreChar PROVE IInv'
<1> DEFINE text == file[row]
           n    == line.len
           g    == IF line.len >= line.cap THEN Grown(arena, mem, line, 1) ELSE AsIs(arena, mem, line)
           b1   == g.array.block
           c    == Character(text[n + 1])
<1>1. /\ stage = "line" /\ More
      /\ arena' = g.arena /\ mem' = Stored(g.mem, Cell(b1, n), c)
      /\ line' = [g.array EXCEPT !.len = @ + 1]
      /\ UNCHANGED <<file, row, stage, tokens, labels, next, queued>>
  BY DEF StoreChar
<1>2. /\ Good(arena) /\ file \in Files /\ file \in Seq(Seq(Chars)) /\ next \in Nat
      /\ row \in 1 .. Len(file) + 1 /\ labels.count = 0
      /\ LineGood(arena, mem, line, file, row) /\ line.block \notin {labels.block, tokens.block}
  BY <1>1 DEF AfterStart, Reader
<1>3. /\ TokensGood(arena, mem, tokens, Busy, file, row) /\ LabelsAll(arena, mem, labels, queued)
      /\ tokens.block \notin LabelBlocks(labels, InLabels(mem, labels))
  BY DEF AfterStart, Filled
<1>4. row <= Len(file) /\ n < Len(text) /\ row \in DOMAIN file /\ text \in Seq(Chars)
  BY <1>1, <1>2 DEF More
<1>5. n \in Nat /\ line.cap \in Nat \ {0} /\ n <= line.cap /\ line.cap \in Capacities /\ line.block \in arena.blocks
  BY <1>2 DEF LineGood, Sized
<1>6. RoomInLine(arena, mem, line, g)
  <2>1. CASE line.len >= line.cap
    <3>1. Len(file[row]) > line.cap
      BY <2>1, <1>4, <1>5
    <3>2. 2 * line.cap \in Capacities
      BY <3>1, <1>2, <1>4, <1>5, NextCapacity
    <3>3. g = Grown(arena, mem, line, 1)
      BY <2>1
    <3> QED
      BY <3>2, <3>3, <1>2, LineGrows
  <2>2. CASE ~(line.len >= line.cap)
    <3>1. line.len < line.cap
      BY <2>2, <1>5
    <3>2. g = AsIs(arena, mem, line)
      BY <2>2
    <3> QED
      BY <3>1, <3>2, <1>2, LineFits
  <2> QED
    BY <2>1, <2>2
<1> DEFINE a1 == g.arena
           m1 == g.mem
           cap == g.array.cap
<1>7. /\ Good(a1) /\ arena.blocks \subseteq a1.blocks /\ KeepsAll(arena, mem, m1)
      /\ HasRoom(a1, b1, n, cap, 1) /\ LastOfChunk(a1, b1)
      /\ cap \in Capacities /\ b1 \in Block
      /\ Contents(m1, b1, n, 1) = Contents(mem, line.block, n, 1)
      /\ b1 = line.block \/ b1 \notin arena.blocks
      /\ g.array = LineIn(b1, n, cap)
  BY <1>6 DEF RoomInLine
<1>8. line' = LineIn(b1, Succ(n), cap)
  BY <1>1, <1>7 DEF LineIn, Succ
<1>9. arena' = a1 /\ mem' = Stored(m1, EntryAt(b1, n, 1), c)
  BY <1>1, <1>5, CellOfEntry
<1> HIDE DEF g, a1, m1, cap, b1, c, n, text
<1>10. /\ KeepsBut(a1, m1, mem', b1) /\ Sized(a1, b1, Succ(n), cap, 1)
       /\ Contents(mem', b1, Succ(n), 1) = Extended(Contents(m1, b1, n, 1), n, c)
  <2>1. 1 \in Nat \ {0}
    OBVIOUS
  <2> QED
    BY <2>1, <1>7, <1>9, EntryAppended
<1>11. KeepsBut(arena, mem, mem', line.block)
  BY <1>7, <1>10, KeepsWritten
<1>12. Contents(mem', b1, Succ(n), 1) = Spelled(text, Succ(n))
  <2>1. Contents(m1, b1, n, 1) = Spelled(text, n)
    BY <1>2, <1>4, <1>7 DEF LineGood, text, n
  <2> QED
    BY <2>1, <1>5, <1>10, SpelledFurther DEF c
<1>13. LineGood(arena', mem', line', file', row') /\ line'.block = b1
  <2>1. Succ(n) <= Len(file[row]) /\ Len(file) \in Nat /\ row \in Nat
    BY <1>2, <1>4, <1>5 DEF Succ, text
  <2>2. Contents(mem', b1, Succ(n), 1) = Spelled(file[row], Succ(n))
    BY <1>12 DEF text
  <2>3. cap \in Nat \ {0}
    BY <1>10 DEF Sized
  <2>4. file' = file /\ row' = row
    BY <1>1
  <2>5. LineGood(a1, mem', line', file, row) /\ line'.block = b1
    BY <2>1, <2>2, <2>3, <1>4, <1>5, <1>7, <1>8, <1>10, LineLonger
  <2> QED
    BY <2>4, <2>5, <1>9
<1>14. tokens.block \in arena.blocks /\ labels.block \in arena.blocks
  BY <1>3, BlocksOfArrays
<1>15. Busy = BusyBlocks(tokens, labels, {line.block})
  BY <1>1, <1>2, FewBusy DEF LineBlock
<1>16. Busy' = BusyBlocks(tokens, labels, {b1})
  <2>1. labels'.count = 0
    BY <1>1, <1>2
  <2>2. LineBlock(stage', line') = {b1}
    BY <1>1, <1>13 DEF LineBlock
  <2> QED
    BY <2>1, <2>2, <1>1, NoLabelBlocks DEF Busy, BusyBlocks
<1>17. NoneAdded(arena, Busy, Busy')
  BY <1>7, <1>15, <1>16 DEF NoneAdded, BusyBlocks
<1>18. Keeps(arena, mem, mem', {line.block})
  BY <1>11 DEF KeepsBut
<1>19. arena.blocks \subseteq arena'.blocks
  BY <1>7, <1>9
<1>20. TokensGood(arena', mem', tokens', Busy', file', row')
  <2>1. {line.block} \subseteq Busy /\ tokens.block \notin {line.block}
    BY <1>2, <1>15 DEF BusyBlocks
  <2>2. TokensGood(arena', mem', tokens, Busy', file, row)
    BY <2>1, <1>2, <1>3, <1>17, <1>18, <1>19, TokensElsewhere
  <2> QED
    BY <2>2, <1>1
<1>21. LabelsAll(arena', mem', labels', queued')
  <2>1. \A b \in LabelBlocks(labels, InLabels(mem, labels)) : b \notin {line.block}
    BY <1>2, NoLabelBlocks
  <2>2. LabelsAll(arena', mem', labels, queued)
    BY <2>1, <1>3, <1>18, <1>19, LabelsElsewhere
  <2> QED
    BY <2>2, <1>1
<1>22. tokens'.block \notin LabelBlocks(labels', InLabels(mem', labels'))
  <2>1. tokens.block # labels.block
    BY <1>2, <1>3, NoLabelBlocks
  <2> QED
    BY <2>1, <1>1, <1>2, NoLabelBlocks
<1>23. Filled'
  BY <1>20, <1>21, <1>22 DEF Filled
<1>24. Reader'
  BY <1>1, <1>2, <1>7, <1>13, <1>14 DEF Reader
<1>25. InputInv'
  BY <1>1, <1>2 DEF InputInv
<1> QED
  BY <1>1, <1>7, <1>9, <1>23, <1>24, <1>25, Folded DEF ArenaInv

(* What holds when the terminator has been written and the line is done.   *)
LineDone(m2) ==
  /\ TokensGood(arena, m2, tokens, BusyBlocks(tokens, labels, {}), file, row)
  /\ LabelsAll(arena, m2, labels, queued)
  /\ Contents(m2, line.block, line.len, 1) = Contents(mem, line.block, line.len, 1)
  /\ At(m2, Cell(line.block, line.len)) = Character(EndMark)
InLine ==
  /\ Good(arena) /\ file \in Files /\ file \in Seq(Seq(Chars)) /\ next \in Nat
  /\ row \in 1 .. Len(file) + 1 /\ labels.count = 0
  /\ LineGood(arena, mem, line, file, row) /\ line.block \notin {labels.block, tokens.block}
  /\ tokens.block # labels.block /\ tokens.block \in arena.blocks /\ labels.block \in arena.blocks

LEMMA LineEnds ==
  ASSUME AfterStart, stage = "line"
  PROVE  InLine /\ LineDone(Terminated)
<1> DEFINE m2 == Terminated
<1>1. /\ Good(arena) /\ file \in Files /\ file \in Seq(Seq(Chars)) /\ next \in Nat
      /\ row \in 1 .. Len(file) + 1 /\ labels.count = 0
      /\ LineGood(arena, mem, line, file, row) /\ line.block \notin {labels.block, tokens.block}
  BY DEF AfterStart, Reader
<1>2. /\ TokensGood(arena, mem, tokens, Busy, file, row) /\ LabelsAll(arena, mem, labels, queued)
      /\ tokens.block \notin LabelBlocks(labels, InLabels(mem, labels))
  BY DEF AfterStart, Filled
<1>3. tokens.block \in arena.blocks /\ labels.block \in arena.blocks
  BY <1>2, BlocksOfArrays
<1>4. tokens.block # labels.block
  BY <1>1, <1>2, NoLabelBlocks
<1>5. Busy = BusyBlocks(tokens, labels, {line.block})
  BY <1>1, FewBusy DEF LineBlock
<1>6. m2 = WithEnd(mem, line)
  BY DEF Terminated, EndCell, WithEnd
<1> HIDE DEF m2
<1>7. /\ KeepsBut(arena, mem, m2, line.block)
      /\ Contents(m2, line.block, line.len, 1) = Contents(mem, line.block, line.len, 1)
      /\ At(m2, Cell(line.block, line.len)) = Character(EndMark)
  BY <1>1, <1>6, TerminatorHarmsNothing
<1>8. Keeps(arena, mem, m2, {line.block}) /\ arena.blocks \subseteq arena.blocks
  BY <1>7 DEF KeepsBut
<1>9. TokensGood(arena, m2, tokens, BusyBlocks(tokens, labels, {}), file, row)
  <2>1. {line.block} \subseteq Busy /\ tokens.block \notin {line.block}
    BY <1>1, <1>5 DEF BusyBlocks
  <2>2. NoneAdded(arena, Busy, BusyBlocks(tokens, labels, {}))
    BY <1>5 DEF NoneAdded, BusyBlocks
  <2> QED
    BY <2>1, <2>2, <1>1, <1>2, <1>8, TokensElsewhere
<1>10. LabelsAll(arena, m2, labels, queued)
  <2>1. \A b \in LabelBlocks(labels, InLabels(mem, labels)) : b \notin {line.block}
    BY <1>1, NoLabelBlocks
  <2> QED
    BY <2>1, <1>2, <1>8, LabelsElsewhere
<1> QED
  BY <1>1, <1>3, <1>4, <1>7, <1>9, <1>10 DEF InLine, LineDone, m2

LEMMA BusyBetween ==
  ASSUME NEW ls, ls = labels', labels'.count = 0, LineBlock(stage', line') = {}
  PROVE  Busy' = BusyBlocks(tokens', ls, {})
BY NoLabelBlocks DEF Busy, BusyBlocks

LEMMA SkipLineKeeps == ASSUME AfterStart, SkipLine PROVE IInv'
<1>1. /\ stage = "line" /\ row <= Len(file) /\ ~More /\ ~Recognised(Text(Terminated))
      /\ mem' = Terminated /\ row' = row + 1 /\ stage' = "parse"
      /\ UNCHANGED <<file, arena, line, tokens, labels, next, queued>>
  BY DEF SkipLine
<1>2. InLine /\ LineDone(Terminated)
  BY <1>1, LineEnds
<1>3. file[row] \in Seq(Chars) /\ ReadWhole
  BY <1>1, <1>2 DEF ReadWhole, InLine
<1>4. Text(Terminated) = file[row]
  BY <1>2, <1>3, TextIsLine DEF InLine
<1>5. TokensGood(arena, mem', tokens, BusyBlocks(tokens, labels, {}), file, row')
  <2> DEFINE t == InTokens(mem', tokens)
  <2>1. /\ TokenArray(arena, tokens) /\ Listed(t, file, row)
        /\ AllArchived(arena, mem', BusyBlocks(tokens, labels, {}), t, file)
    BY <1>1, <1>2 DEF LineDone, TokensGood
  <2>2. row \in Nat \ {0} /\ row' = row + 1 /\ ~Recognised(file[row])
    BY <1>1, <1>2, <1>4 DEF InLine
  <2> HIDE DEF t
  <2>3. Listed(t, file, row')
    BY <2>1, <2>2, NothingMoreListed
  <2> QED
    BY <2>1, <2>3 DEF TokensGood, t
<1>6. labels'.count = 0 /\ LineBlock(stage', line') = {}
  BY <1>1, <1>2 DEF InLine, LineBlock
<1>7. Busy' = BusyBlocks(tokens, labels, {})
  BY <1>1, <1>6, BusyBetween
<1>8. TokensGood(arena', mem', tokens', Busy', file', row') /\ LabelsAll(arena', mem', labels', queued')
  BY <1>1, <1>2, <1>5, <1>7 DEF LineDone
<1>9. tokens'.block \notin LabelBlocks(labels', InLabels(mem', labels'))
  BY <1>1, <1>2, <1>6, NoLabelBlocks DEF InLine
<1>10. Filled'
  BY <1>8, <1>9 DEF Filled
<1>11. Reader'
  BY <1>1, <1>6 DEF Reader
<1>12. InputInv' /\ ArenaInv'
  BY <1>1, <1>2 DEF InputInv, InLine, ArenaInv
<1> QED
  BY <1>1, <1>10, <1>11, <1>12, Folded

LEMMA EndOfFileKeeps == ASSUME AfterStart, EndOfFile PROVE IInv'
<1> DEFINE one == arena_alloc(arena, SubstituteSize)
           two == arena_alloc(one.arena, IfCapacity)
<1>1. /\ stage = "line" /\ arena' = two.arena /\ mem' = Terminated /\ stage' = "write"
      /\ UNCHANGED <<file, row, line, tokens, labels, next, queued>>
  BY DEF EndOfFile
<1>2. InLine /\ LineDone(Terminated)
  BY <1>1, LineEnds
<1>3. Good(one.arena) /\ Gains(arena, one.arena, one.block)
  BY <1>2, Allocated, SizesAssumption DEF InLine
<1>4. Good(two.arena) /\ Gains(one.arena, two.arena, two.block)
  BY <1>3, Allocated, SizesAssumption
<1>5. arena.blocks \subseteq arena'.blocks /\ Good(arena')
  BY <1>1, <1>3, <1>4 DEF Gains
<1> HIDE DEF one, two
<1>6. labels'.count = 0 /\ LineBlock(stage', line') = {}
  BY <1>1, <1>2 DEF InLine, LineBlock
<1>7. Busy' = BusyBlocks(tokens, labels, {})
  BY <1>1, <1>6, BusyBetween
<1>8. Keeps(arena, mem', mem', {})
  BY NothingWritten
<1>9. TokensGood(arena', mem', tokens', Busy', file', row')
  <2>1. /\ TokensGood(arena, mem', tokens, Busy', file, row) /\ NoneAdded(arena, Busy', Busy')
        /\ Good(arena) /\ file \in Seq(Seq(Chars)) /\ row \in 1 .. Len(file) + 1
    BY <1>1, <1>2, <1>7 DEF LineDone, InLine, NoneAdded
  <2>2. TokensGood(arena', mem', tokens, Busy', file, row)
    BY <2>1, <1>5, TokensLater
  <2> QED
    BY <2>2, <1>1
<1>10. LabelsAll(arena', mem', labels', queued')
  <2>1. LabelsAll(arena, mem', labels, queued)
    BY <1>1, <1>2 DEF LineDone
  <2>2. LabelsAll(arena', mem', labels, queued)
    BY <2>1, <1>5, <1>8, LabelsElsewhere
  <2> QED
    BY <2>2, <1>1
<1>11. tokens'.block \notin LabelBlocks(labels', InLabels(mem', labels'))
  BY <1>1, <1>2, <1>6, NoLabelBlocks DEF InLine
<1>12. Filled'
  BY <1>9, <1>10, <1>11 DEF Filled
<1>13. Reader' /\ InputInv' /\ ArenaInv'
  BY <1>1, <1>2, <1>5 DEF Reader, InputInv, InLine, ArenaInv
<1> QED
  BY <1>1, <1>12, <1>13, Folded

LEMMA WildTerminatorKeeps == ASSUME AfterStart, WildTerminator PROVE IInv'
<1>1. /\ stage = "line" /\ stage' = "wild"
      /\ UNCHANGED <<file, row, arena, mem, line, tokens, labels, next, queued>>
  BY DEF WildTerminator
<1>2. /\ Good(arena) /\ file \in Files /\ file \in Seq(Seq(Chars)) /\ next \in Nat
      /\ row \in 1 .. Len(file) + 1 /\ labels.count = 0
  BY <1>1 DEF AfterStart, Reader
<1>3. /\ TokensGood(arena, mem, tokens, Busy, file, row) /\ LabelsAll(arena, mem, labels, queued)
      /\ tokens.block \notin LabelBlocks(labels, InLabels(mem, labels))
  BY DEF AfterStart, Filled
<1>4. labels'.count = 0 /\ LineBlock(stage', line') = {}
  BY <1>1, <1>2 DEF LineBlock
<1>5. Busy' = BusyBlocks(tokens, labels, {})
  BY <1>1, <1>4, BusyBetween
<1>6. NoneAdded(arena, Busy, Busy')
  BY <1>2, <1>5, FewBusy DEF NoneAdded, BusyBlocks
<1>7. arena.blocks \subseteq arena.blocks
  OBVIOUS
<1>8. TokensGood(arena, mem, tokens, Busy', file, row)
  BY <1>2, <1>3, <1>6, <1>7, TokensLater
<1>9. Filled'
  BY <1>1, <1>3, <1>8 DEF Filled
<1>10. Reader' /\ InputInv' /\ ArenaInv'
  BY <1>1, <1>2 DEF Reader, InputInv, ArenaInv
<1> QED
  BY <1>1, <1>9, <1>10, Folded

LEMMA WriteNumberKeeps == ASSUME AfterStart, WriteNumber PROVE IInv'
<1>1. /\ stage = "write" /\ next' = next + 1
      /\ UNCHANGED <<file, row, stage, arena, mem, line, tokens, labels, queued>>
  BY DEF WriteNumber
<1>2. Good(arena) /\ file \in Files /\ next \in Nat /\ row \in 1 .. Len(file) + 1 /\ Filled
  BY DEF AfterStart
<1>3. Busy' = Busy
  BY <1>1 DEF Busy
<1>4. Filled'
  BY <1>1, <1>2, <1>3 DEF Filled
<1>5. Reader' /\ InputInv' /\ ArenaInv'
  BY <1>1, <1>2 DEF Reader, InputInv, ArenaInv
<1> QED
  BY <1>1, <1>4, <1>5, Folded

LEMMA StutterKeeps == ASSUME IInv, UNCHANGED vars PROVE IInv'
<1>1. UNCHANGED <<file, row, stage, arena, mem, line, tokens, labels, next, queued>>
  BY DEF vars
<1>2. Busy' = Busy
  BY <1>1 DEF Busy
<1>3. (Filled => Filled') /\ (Reader => Reader') /\ (InputInv => InputInv') /\ (Fresh => Fresh') /\ (ArenaInv => ArenaInv')
  BY <1>1, <1>2 DEF Filled, Reader, InputInv, Fresh, ArenaInv
<1> QED
  BY <1>1, <1>3 DEF IInv

(* A line that has been read can be kept for the number in it.             *)
LEMMA NumberArchived ==
  ASSUME InLine, ReadWhole, NEW m, LineDone(m), NEW v, v = Token(file[row])
  PROVE  /\ v = TokenOf(row, v.imm)
         /\ Archived(arena, m, BusyBlocks(tokens, labels, {}), v, file[row])
<1> DEFINE text == file[row]
           b    == line.block
           imm  == IF NumberAt(text) = {} THEN <<>> ELSE Cell(b, Min(NumberAt(text)) - 1)
<1>1. v = TokenOf(row, imm) /\ v.imm = imm
  BY DEF Token, TokenOf
<1>2. /\ LineGood(arena, mem, line, file, row) /\ b \notin {labels.block, tokens.block}
      /\ row <= Len(file) /\ ~More
  BY DEF InLine, ReadWhole
<1>3. Len(text) \in Nat
  BY DEF ReadWhole
<1>4. /\ b \in arena.blocks /\ b.size = line.cap * 1 /\ line.cap \in Capacities /\ line.cap \in Nat
      /\ line.len <= line.cap /\ line.len = Len(text)
      /\ Contents(mem, b, line.len, 1) = Spelled(text, line.len)
  BY <1>2, <1>3 DEF LineGood, Sized, More
<1>5. b.size = line.cap
  BY <1>4
<1>6. Contents(m, b, Len(text), 1) = Spelled(text, Len(text)) /\ At(m, Cell(b, Len(text))) = Character(EndMark)
  BY <1>4 DEF LineDone
<1>7. InArchive(arena, m, b, text)
  BY <1>4, <1>5, <1>6 DEF InArchive
<1>8. b \in arena.blocks \ BusyBlocks(tokens, labels, {})
  BY <1>2, <1>4 DEF BusyBlocks
<1> HIDE DEF text, b
<1>9. v.imm # <<>> => NumberAt(text) # {} /\ v.imm = Cell(b, Min(NumberAt(text)) - 1)
  BY <1>1
<1>10. Archived(arena, m, BusyBlocks(tokens, labels, {}), v, text)
  BY <1>7, <1>8, <1>9 DEF Archived
<1> QED
  BY <1>1, <1>10 DEF text

Pushed(m, g, r2) ==
  /\ Good(g.arena) /\ arena.blocks \subseteq g.arena.blocks
  /\ KeepsBut(arena, m, g.mem, tokens.block)
  /\ TokensGood(g.arena, g.mem, g.array, BusyBlocks(g.array, labels, {}), file, r2)
  /\ g.array.block = tokens.block \/ g.array.block \notin arena.blocks

(* What a line that is accepted appends.                                   *)
Accepting(m, v, r2) ==
  /\ InLine /\ ReadWhole /\ LineDone(m) /\ Recognised(file[row])
  /\ v = TokenOf(row, v.imm) /\ Archived(arena, m, BusyBlocks(tokens, labels, {}), v, file[row])
  /\ r2 = row + 1

LEMMA PushedInPlace ==
  ASSUME NEW m, NEW v, NEW r2, Accepting(m, v, r2), NEW longer, longer = [tokens EXCEPT !.count = @ + 1], ~Full(longer),
         NEW m2, m2 = Stored(m, EntryAt(tokens.block, tokens.count, TokenSize), v),
         NEW g, g = AsIs(arena, m2, longer)
  PROVE  Pushed(m, g, r2)
<1> DEFINE busy == BusyBlocks(tokens, labels, {})
<1>1. /\ Good(arena) /\ file \in Seq(Seq(Chars)) /\ row \in 1 .. Len(file) /\ r2 = row + 1
      /\ TokensGood(arena, m, tokens, busy, file, row) /\ tokens.block \in busy /\ Recognised(file[row])
      /\ v = TokenOf(row, v.imm) /\ Archived(arena, m, busy, v, file[row])
  BY DEF Accepting, InLine, LineDone, ReadWhole, BusyBlocks
<1>2. g.arena = arena /\ g.mem = m2 /\ g.array = longer
  BY DEF AsIs
<1> DEFINE imm == v.imm
<1>3. v = TokenOf(row, imm)
  BY <1>1
<1> HIDE DEF busy, imm
<1>4. KeepsBut(arena, m, m2, tokens.block) /\ TokensGood(arena, m2, longer, busy, file, r2) /\ longer.block = tokens.block
  BY <1>1, <1>3, NotYetFull
<1>5. BusyBlocks(longer, labels, {}) = busy
  BY <1>4 DEF BusyBlocks, busy
<1> QED
  BY <1>1, <1>2, <1>4, <1>5 DEF Pushed

LEMMA PushedByGrowth ==
  ASSUME NEW m, NEW v, NEW r2, Accepting(m, v, r2), NEW longer, longer = [tokens EXCEPT !.count = @ + 1],
         NEW m2, m2 = Stored(m, EntryAt(tokens.block, tokens.count, TokenSize), v),
         NEW g, g = Grown(arena, m2, longer, TokenSize)
  PROVE  Pushed(m, g, r2)
<1> DEFINE busy == BusyBlocks(tokens, labels, {})
           got == arena_alloc(arena, Doubled(tokens.cap, TokenSize))
           m3 == Copied(m2, tokens.block, got.block)
           ts2 == [longer EXCEPT !.block = got.block, !.cap = 2 * @]
           busy2 == BusyBlocks(ts2, labels, {})
<1>1. /\ Good(arena) /\ file \in Seq(Seq(Chars)) /\ row \in 1 .. Len(file) /\ r2 = row + 1
      /\ TokensGood(arena, m, tokens, busy, file, row) /\ tokens.block \in busy /\ Recognised(file[row])
      /\ v = TokenOf(row, v.imm) /\ Archived(arena, m, busy, v, file[row])
  BY DEF Accepting, InLine, LineDone, ReadWhole, BusyBlocks
<1>2. tokens \in [block : Block, count : Nat, cap : Nat \ {0}]
  BY <1>1 DEF TokensGood, TokenArray
<1>3. longer.block = tokens.block /\ longer.cap = tokens.cap
  BY <1>2, Counted
<1>4. g.arena = got.arena /\ g.mem = m3 /\ g.array = ts2
  BY <1>3 DEF Grown, Doubled
<1> DEFINE size == Doubled(tokens.cap, TokenSize)
           imm == v.imm
<1>5. size \in Nat \ {0}
  <2>1. tokens.cap \in Nat \ {0} /\ TokenSize \in Nat \ {0}
    BY <1>2, SizesAssumption
  <2> QED
    BY <2>1, DoubledSize
<1>6. got = arena_alloc(arena, size) /\ m3 = Copied(m2, tokens.block, got.block) /\ v = TokenOf(row, imm)
  BY <1>1
<1>7. ts2 = [longer EXCEPT !.block = got.block, !.cap = 2 * @]
  OBVIOUS
<1>8. got = arena_alloc(arena, Doubled(tokens.cap, TokenSize))
  OBVIOUS
<1> HIDE DEF size, busy, got, m3, imm
<1>9. got.block \in Block /\ got.block \notin arena.blocks /\ Gains(arena, got.arena, got.block) /\ Good(got.arena)
  BY <1>1, <1>5, <1>6, Allocated
<1>10. ts2.block = got.block
  BY <1>2, <1>9, Counted, Enlarged
<1> HIDE DEF ts2
<1>11. NoneAdded(arena, busy, busy2)
  BY <1>9, <1>10 DEF NoneAdded, busy, BusyBlocks
<1> HIDE DEF busy2
<1>12. KeepsBut(arena, m, m3, tokens.block) /\ TokensGood(got.arena, m3, ts2, busy2, file, r2)
  <2>1. NextRow(file, row, r2)
    BY <1>1 DEF NextRow
  <2>2. longer = Incremented(tokens) /\ ts2 = Moved(longer, got.block)
    BY <1>7 DEF Incremented, Moved
  <2> QED
    BY <2>1, <2>2, <1>1, <1>6, <1>8, <1>11, FullAndGrown
<1>13. arena.blocks \subseteq got.arena.blocks
  BY <1>9 DEF Gains
<1> QED
  BY <1>4, <1>9, <1>10, <1>12, <1>13 DEF Pushed, busy2

LEMMA AcceptLineKeeps == ASSUME AfterStart, AcceptLine PROVE IInv'
<1> DEFINE m == Terminated
           v == Token(file[row])
           m2 == Stored(m, EntryAt(tokens.block, tokens.count, TokenSize), v)
           longer == [tokens EXCEPT !.count = @ + 1]
           g == IF Full(longer) THEN Grown(arena, m2, longer, TokenSize) ELSE AsIs(arena, m2, longer)
<1>1. /\ stage = "line" /\ row <= Len(file) /\ ~More /\ Recognised(Text(m))
      /\ arena' = Appended(m).arena /\ mem' = Appended(m).mem /\ tokens' = Appended(m).array
      /\ row' = row + 1 /\ stage' = "parse"
      /\ UNCHANGED <<file, line, labels, next, queued>>
  BY DEF AcceptLine
<1>2. InLine /\ LineDone(m)
  BY <1>1, LineEnds
<1>3. file[row] \in Seq(Chars) /\ ReadWhole
  BY <1>1, <1>2 DEF ReadWhole, InLine
<1>4. Text(m) = file[row]
  BY <1>2, <1>3, TextIsLine DEF InLine
<1>5. Appended(m) = g
  BY <1>4 DEF Appended, EntryCell, EntryAt
<1>6. v = Token(file[row]) /\ m2 = Stored(m, EntryAt(tokens.block, tokens.count, TokenSize), v)
  OBVIOUS
<1> HIDE DEF m, v, m2
<1>7. v = TokenOf(row, v.imm) /\ Archived(arena, m, BusyBlocks(tokens, labels, {}), v, file[row])
  BY <1>2, <1>3, <1>6, NumberArchived
<1>8. Accepting(m, v, row')
  BY <1>1, <1>2, <1>3, <1>4, <1>7 DEF Accepting
<1>9. Pushed(m, g, row')
  <2>1. CASE Full(longer)
    BY <2>1, <1>6, <1>8, PushedByGrowth
  <2>2. CASE ~Full(longer)
    BY <2>2, <1>6, <1>8, PushedInPlace
  <2> QED
    BY <2>1, <2>2
<1> HIDE DEF g
<1>10. /\ Good(arena') /\ arena.blocks \subseteq arena'.blocks
       /\ KeepsBut(arena, m, mem', tokens.block)
       /\ TokensGood(arena', mem', tokens', BusyBlocks(tokens', labels, {}), file, row')
       /\ tokens'.block = tokens.block \/ tokens'.block \notin arena.blocks
  BY <1>1, <1>5, <1>9 DEF Pushed
<1>11. labels'.count = 0 /\ LineBlock(stage', line') = {} /\ labels = labels'
  BY <1>1, <1>2 DEF InLine, LineBlock
<1>12. Busy' = BusyBlocks(tokens', labels, {})
  BY <1>11, BusyBetween
<1>13. TokensGood(arena', mem', tokens', Busy', file', row')
  BY <1>1, <1>10, <1>12
<1>14. LabelsAll(arena', mem', labels', queued')
  <2>1. Keeps(arena, m, mem', {tokens.block})
    BY <1>10 DEF KeepsBut
  <2>2. \A b \in LabelBlocks(labels, InLabels(m, labels)) : b \notin {tokens.block}
    BY <1>2, NoLabelBlocks DEF InLine
  <2>3. LabelsAll(arena, m, labels, queued)
    BY <1>2 DEF LineDone
  <2>4. LabelsAll(arena', mem', labels, queued)
    BY <2>1, <2>2, <2>3, <1>10, LabelsElsewhere
  <2> QED
    BY <2>4, <1>1
<1>15. tokens'.block \notin LabelBlocks(labels', InLabels(mem', labels'))
  <2>1. tokens'.block # labels.block
    BY <1>2, <1>10 DEF InLine
  <2> QED
    BY <2>1, <1>1, <1>11, NoLabelBlocks
<1>16. Filled'
  BY <1>13, <1>14, <1>15 DEF Filled
<1>17. Reader' /\ ArenaInv'
  BY <1>1, <1>10, <1>11 DEF Reader, ArenaInv
<1>18. InputInv'
  BY <1>1, <1>2 DEF InputInv, InLine
<1> QED
  BY <1>1, <1>16, <1>17, <1>18, Folded

Wrote(done, ls2, name) ==
  /\ Good(done.arena) /\ arena.blocks \subseteq done.arena.blocks
  /\ Keeps(arena, mem, done.mem, LabelBlocks(labels, InLabels(mem, labels)))
  /\ LabelsAll(done.arena, done.mem, ls2, Awaited(queued, name, next))
  /\ NoneAdded(arena, LabelBlocks(labels, InLabels(mem, labels)), LabelBlocks(ls2, InLabels(done.mem, ls2)))

LEMMA KnownEntries ==
  ASSUME NEW name, labels.count \in Nat
  PROVE  /\ Known(name) \in SUBSET Nat
         /\ \A k : k \in Known(name) <=> k \in DOMAIN InLabels(mem, labels) /\ NameOf(InLabels(mem, labels)[k]) = name
BY DEF Known, Entry, EntryCell, EntryAt, InLabels, Contents, NameOf

LEMMA KeepsTwice ==
  ASSUME NEW a, NEW m, NEW m1, NEW b, KeepsBut(a, m, m1, b), NEW B0, b \in B0,
         NEW a1, a.blocks \subseteq a1.blocks, NEW m2, NEW B1, Keeps(a1, m1, m2, B1), NoneAdded(a, B0, B1),
         NEW B2, NoneAdded(a1, B1, B2)
  PROVE  Keeps(a, m, m2, B0) /\ NoneAdded(a, B0, B2)
BY DEF Keeps, KeepsBut, NoneAdded

LEMMA WroteToNewLabel ==
  ASSUME AfterStart, NEW name \in Names, Known(name) = {},
         NEW p, p = push_label(arena, mem, labels, name), NEW done, done = Queue(p, labels.count, next)
  PROVE  Wrote(done, p.array, name)
<1> DEFINE e == InLabels(mem, labels)
           n == labels.count
           B0 == LabelBlocks(labels, e)
           e1 == InLabels(p.mem, p.array)
           B1 == LabelBlocks(p.array, e1)
           B2 == LabelBlocks(p.array, InLabels(done.mem, p.array))
<1>1. Good(arena) /\ LabelsAll(arena, mem, labels, queued) /\ next \in Nat
  BY DEF AfterStart, Filled
<1>2. labels.count \in Nat
  BY <1>1 DEF LabelsAll, LabelArray
<1>3. \A k \in DOMAIN e : e[k].label # name
  BY <1>2, KnownEntries DEF NameOf
<1>4. /\ Good(p.arena) /\ arena.blocks \subseteq p.arena.blocks
      /\ KeepsBut(arena, mem, p.mem, labels.block)
      /\ LabelsAll(p.arena, p.mem, p.array, queued)
      /\ NoneAdded(arena, B0, B1)
      /\ n \in DOMAIN e1 /\ NameOf(e1[n]) = name
  BY <1>1, <1>3, LabelPushed
<1>5. Parts(p, p.arena, p.mem, p.array) /\ done = Queue(p, n, next)
  BY DEF Parts
<1> HIDE DEF n
<1>6. /\ Good(done.arena) /\ p.arena.blocks \subseteq done.arena.blocks
      /\ Keeps(p.arena, p.mem, done.mem, B1)
      /\ LabelsAll(done.arena, done.mem, p.array, Awaited(queued, name, next))
      /\ NoneAdded(p.arena, B1, B2)
  BY <1>1, <1>4, <1>5, ReferenceQueued
<1>7. labels.block \in B0
  BY DEF LabelBlocks
<1> HIDE DEF B0, B1, B2
<1>8. Keeps(arena, mem, done.mem, B0) /\ NoneAdded(arena, B0, B2)
  BY <1>4, <1>6, <1>7, KeepsTwice
<1>9. arena.blocks \subseteq done.arena.blocks
  BY <1>4, <1>6
<1> QED
  BY <1>6, <1>8, <1>9 DEF Wrote, B0, B2

LEMMA WroteToKnownLabel ==
  ASSUME AfterStart, NEW name \in Names, Known(name) # {},
         NEW p, p = AsIs(arena, mem, labels), NEW done, done = Queue(p, Min(Known(name)), next)
  PROVE  Wrote(done, labels, name)
<1> DEFINE e == InLabels(mem, labels)
           k == Min(Known(name))
<1>1. Good(arena) /\ LabelsAll(arena, mem, labels, queued) /\ next \in Nat
  BY DEF AfterStart, Filled
<1>2. labels.count \in Nat
  BY <1>1 DEF LabelsAll, LabelArray
<1>3. k \in Known(name)
  BY <1>2, KnownEntries, LeastOfNats
<1>4. done = Queue(p, k, next)
  OBVIOUS
<1> HIDE DEF k
<1>5. k \in DOMAIN e /\ NameOf(e[k]) = name
  BY <1>2, <1>3, KnownEntries
<1>6. Parts(p, arena, mem, labels)
  BY DEF Parts, AsIs
<1> QED
  BY <1>1, <1>4, <1>5, <1>6, ReferenceQueued DEF Wrote

LEMMA WriteReferenceKeeps == ASSUME AfterStart, WriteReference PROVE IInv'
<1> DEFINE pushed(name) == IF Known(name) = {} THEN push_label(arena, mem, labels, name)
                           ELSE AsIs(arena, mem, labels)
           k(name)      == IF Known(name) = {} THEN labels.count ELSE Min(Known(name))
           done(name)   == Queue(pushed(name), k(name), next)
<1>1. stage = "write" /\ next' = next + 1 /\ UNCHANGED <<file, row, stage, line, tokens>>
  BY DEF WriteReference
<1>2. PICK name \in Names :
         /\ arena' = done(name).arena /\ mem' = done(name).mem /\ labels' = pushed(name).array
         /\ queued' = Awaited(queued, name, next)
  BY DEF WriteReference, Awaited
<1> DEFINE B0 == LabelBlocks(labels, InLabels(mem, labels))
           B2 == LabelBlocks(labels', InLabels(mem', labels'))
<1>3. Wrote(done(name), pushed(name).array, name)
  <2>1. CASE Known(name) = {}
    BY <2>1, WroteToNewLabel
  <2>2. CASE Known(name) # {}
    <3>1. pushed(name).array = labels
      BY <2>2 DEF AsIs
    <3> QED
      BY <2>2, <3>1, WroteToKnownLabel
  <2> QED
    BY <2>1, <2>2
<1> HIDE DEF done, pushed
<1>4. /\ Good(arena') /\ arena.blocks \subseteq arena'.blocks
      /\ Keeps(arena, mem, mem', B0)
      /\ LabelsAll(arena', mem', labels', queued')
      /\ NoneAdded(arena, B0, B2)
  BY <1>2, <1>3 DEF Wrote
<1>5. /\ Good(arena) /\ file \in Files /\ file \in Seq(Seq(Chars)) /\ next \in Nat
      /\ row \in 1 .. Len(file) + 1 /\ TokensGood(arena, mem, tokens, Busy, file, row)
      /\ tokens.block \notin B0 /\ LabelsAll(arena, mem, labels, queued)
  BY DEF AfterStart, Filled
<1>6. tokens.block \in arena.blocks
  BY <1>5, BlocksOfArrays
<1>7. /\ Busy = {tokens.block} \cup B0
      /\ Busy' = {tokens.block} \cup B2
  BY <1>1 DEF Busy, LineBlock
<1>8. B0 \subseteq Busy /\ NoneAdded(arena, Busy, Busy')
  BY <1>4, <1>7 DEF NoneAdded
<1>9. tokens'.block \notin B2
  BY <1>1, <1>4, <1>5, <1>6 DEF NoneAdded
<1> HIDE DEF B0, B2
<1>10. TokensGood(arena', mem', tokens, Busy', file, row)
  BY <1>4, <1>5, <1>8, TokensElsewhere
<1>11. Filled'
  BY <1>1, <1>4, <1>9, <1>10 DEF Filled, B2
<1>12. Reader' /\ InputInv' /\ ArenaInv'
  BY <1>1, <1>4, <1>5 DEF Reader, InputInv, ArenaInv
<1> QED
  BY <1>1, <1>11, <1>12, Folded

-----------------------------------------------------------------------------
(* The theorems. *)

LEMMA InitGood == Init => IInv
<1> SUFFICES ASSUME Init PROVE IInv
  OBVIOUS
<1>1. /\ file \in Files /\ row = 1 /\ stage = "start" /\ ArenaInit /\ next = 0
      /\ queued = [name \in Names |-> <<>>]
      /\ tokens = [block |-> NoBlock, count |-> 0, cap |-> TokensCapacity]
      /\ labels = [block |-> NoBlock, count |-> 0, cap |-> LabelsCapacity]
  BY DEF Init
<1>2. ArenaInv
  BY <1>1, GoodInit DEF ArenaInv, ArenaInit
<1>3. Len(file) \in Nat
  BY <1>1, FilesAssumption
<1>4. InputInv
  BY <1>1, <1>3 DEF InputInv
<1> QED
  BY <1>1, <1>2, <1>4 DEF IInv, Fresh, Reader

(* For every file, all capacities and sizes: the line at hand, the array   *)
(* of tokens, the storage of numbers, the labels and their queues are what *)
(* the code takes them for, through every growth of one between writes to  *)
(* another.                                                                *)
THEOREM StorageHolds == Spec => []IInv
<1>1. ASSUME IInv, [Next]_vars PROVE IInv'
  <2>1. CASE UNCHANGED vars
    BY <1>1, <2>1, StutterKeeps
  <2>2. CASE Start
    BY <1>1, <2>2, StartKeeps
  <2>3. CASE stage # "start"
    <3>1. AfterStart
      BY <1>1, <2>3, Unfolded
    <3>2. CASE BeginLine
      BY <3>1, <3>2, BeginLineKeeps
    <3>3. CASE StoreChar
      BY <3>1, <3>3, StoreCharKeeps
    <3>4. CASE AcceptLine
      BY <3>1, <3>4, AcceptLineKeeps
    <3>5. CASE SkipLine
      BY <3>1, <3>5, SkipLineKeeps
    <3>6. CASE EndOfFile
      BY <3>1, <3>6, EndOfFileKeeps
    <3>7. CASE WildTerminator
      BY <3>1, <3>7, WildTerminatorKeeps
    <3>8. CASE WriteReference
      BY <3>1, <3>8, WriteReferenceKeeps
    <3>9. CASE WriteNumber
      BY <3>1, <3>9, WriteNumberKeeps
    <3> QED
      BY <1>1, <2>1, <2>2, <3>2, <3>3, <3>4, <3>5, <3>6, <3>7, <3>8, <3>9 DEF Next
  <2>4. CASE stage = "start" /\ Next
    BY <2>2, <2>4 DEF Next, BeginLine, StoreChar, AcceptLine, SkipLine, EndOfFile, WildTerminator,
                      WriteReference, WriteNumber
  <2> QED
    BY <1>1, <2>1, <2>3, <2>4
<1> QED
  BY <1>1, InitGood, PTL DEF Spec

(* The blocks of lines, tokens, labels and queues never overlap.           *)
THEOREM ClientBlocksApart == Spec => []BlocksApart
<1>1. IInv => BlocksApart
  BY GoodSeparates DEF IInv
<1> QED
  BY <1>1, StorageHolds, PTL

LEMMA SpelledOut ==
  ASSUME NEW m, NEW b, NEW n \in Nat, NEW text, Contents(m, b, n, 1) = Spelled(text, n), NEW i \in 0 .. n - 1
  PROVE  At(m, Cell(b, i)).char = text[i + 1]
<1>1. At(m, EntryAt(b, i, 1)) = Character(text[i + 1])
  <2>1. Contents(m, b, n, 1)[i] = Spelled(text, n)[i]
    OBVIOUS
  <2> QED
    BY <2>1 DEF Contents, Spelled
<1>2. i \in Nat
  OBVIOUS
<1> QED
  BY <1>1, <1>2, CellOfEntry DEF Character

(* A line that is read is the line of the file, also after its block was   *)
(* exchanged: fgetline copies before it writes on.                         *)
THEOREM LineStaysIntact == Spec => []LineIntact
<1>1. ASSUME IInv PROVE LineIntact
  <2> SUFFICES ASSUME stage = "line", row <= Len(file), NEW k \in 1 .. line.len
               PROVE  At(mem, Cell(line.block, k - 1)).char = file[row][k]
    BY DEF LineIntact
  <2>1. LineGood(arena, mem, line, file, row)
    BY <1>1 DEF IInv, Reader
  <2>2. line.len \in Nat /\ Contents(mem, line.block, line.len, 1) = Spelled(file[row], line.len)
    BY <2>1 DEF LineGood, Sized
  <2>3. k - 1 \in 0 .. line.len - 1 /\ k - 1 + 1 = k
    BY <2>2
  <2> QED
    BY <2>2, <2>3, SpelledOut
<1> QED
  BY <1>1, StorageHolds, PTL

LEMMA TokenEntries ==
  ASSUME NEW t, t = InTokens(mem, tokens)
  PROVE  DOMAIN t = 0 .. tokens.count - 1 /\ \A k \in DOMAIN t : Entry(tokens, k, TokenSize) = t[k]
BY DEF InTokens, Contents, Entry, EntryCell, EntryAt

(* The array of tokens has one entry for each line that can be recognised, *)
(* in the order of the lines, whatever grows between two writes.           *)
THEOREM TokensStayKept == Spec => []TokensKept
<1>1. ASSUME IInv PROVE TokensKept
  <2> DEFINE t == InTokens(mem, tokens)
  <2>1. DOMAIN t = 0 .. tokens.count - 1 /\ \A k \in DOMAIN t : Entry(tokens, k, TokenSize) = t[k]
    BY TokenEntries
  <2>2. Listed(t, file, row)
    <3>1. CASE stage = "start"
      <4>1. DOMAIN t = {} /\ row = 1
        BY <1>1, <2>1, <3>1 DEF IInv, Fresh
      <4> QED
        BY <4>1 DEF Listed
    <3>2. CASE stage # "start"
      BY <1>1, <3>2 DEF IInv, Filled, TokensGood
    <3> QED
      BY <3>1, <3>2
  <2> HIDE DEF t
  <2>3. \A k \in DOMAIN t : /\ "row" \in DOMAIN t[k]
                            /\ t[k].row \in 1 .. row - 1 /\ Recognised(file[t[k].row])
    BY <2>2 DEF Listed, TokenOf
  <2>4. \A j, k \in DOMAIN t : j < k => t[j].row < t[k].row
    BY <2>2 DEF Listed
  <2>5. \A r \in 1 .. row - 1 : Recognised(file[r]) => \E k \in DOMAIN t : t[k].row = r
    BY <2>2 DEF Listed
  <2> QED
    BY <2>1, <2>3, <2>4, <2>5 DEF TokensKept
<1> QED
  BY <1>1, StorageHolds, PTL

(* The queue of each label holds the references to it, in order, while     *)
(* labels and other queues grow.                                           *)
THEOREM QueuesStayKept == Spec => []QueuesKept
<1>1. ASSUME IInv PROVE QueuesKept
  <2> DEFINE e == InLabels(mem, labels)
  <2>1. DOMAIN e = 0 .. labels.count - 1 /\ \A k \in DOMAIN e : Entry(labels, k, LabelSize) = e[k]
    BY DEF InLabels, Contents, Entry, EntryCell, EntryAt
  <2>2. CASE stage = "start"
    <3>1. labels.count = 0 /\ queued = [name \in Names |-> <<>>]
      BY <1>1, <2>2 DEF IInv, Fresh
    <3> QED
      BY <3>1 DEF QueuesKept
  <2>3. CASE stage # "start"
    <3>1. LabelsGood(arena, mem, e, labels.block, queued) /\ labels.count \in Nat
      BY <1>1, <2>3 DEF IInv, Filled, LabelsAll, LabelArray
    <3> HIDE DEF e
    <3>2. ASSUME NEW k \in DOMAIN e
          PROVE  /\ "label" \in DOMAIN e[k] /\ e[k].count = Len(queued[e[k].label])
                 /\ \A j \in 1 .. e[k].count :
                      At(mem, Cell(e[k].block, (j - 1) * AddressSize))
                        = [char |-> "other", addr |-> queued[e[k].label][j]]
      <4> DEFINE refs == queued[e[k].label]
      <4>1. e[k] \in LabelEntry /\ QueueGood(arena, mem, e[k], refs)
        BY <3>1 DEF LabelsGood
      <4>2. /\ e[k].count = Len(refs) /\ e[k].count \in Nat
            /\ Contents(mem, e[k].block, e[k].count, AddressSize) = [j \in 0 .. Len(refs) - 1 |-> Reference(refs[j + 1])]
        BY <4>1 DEF QueueGood, Sized
      <4>3. "label" \in DOMAIN e[k]
        BY <4>1 DEF LabelEntry
      <4> HIDE DEF refs
      <4>4. ASSUME NEW j \in 1 .. e[k].count
            PROVE  At(mem, Cell(e[k].block, (j - 1) * AddressSize)) = [char |-> "other", addr |-> refs[j]]
        <5>1. j - 1 \in 0 .. Len(refs) - 1 /\ j - 1 + 1 = j
          BY <4>2
        <5>2. Contents(mem, e[k].block, e[k].count, AddressSize)[j - 1] = Reference(refs[j])
          BY <4>2, <5>1
        <5> QED
          BY <4>2, <5>1, <5>2 DEF Contents, EntryAt, Reference
      <4> QED
        BY <4>2, <4>3, <4>4 DEF refs
    <3>3. \A name \in Names : queued[name] # <<>> => Known(name) # {}
      BY <3>1, KnownEntries DEF LabelsGood, NameOf, e
    <3> QED
      BY <2>1, <3>2, <3>3 DEF QueuesKept
  <2> QED
    BY <2>2, <2>3
<1> QED
  BY <1>1, StorageHolds, PTL

-----------------------------------------------------------------------------
(* The number that is read again. *)

LEMMA GreatestOfNats ==
  ASSUME NEW S \in SUBSET Nat, S # {}, NEW N \in Nat, \A x \in S : x <= N
  PROVE  Max(S) \in S /\ \A y \in S : y <= Max(S)
<1> DEFINE T == {N - x : x \in S}
<1>1. T \in SUBSET Nat /\ T # {}
  <2>1. \A x \in S : N - x \in Nat
    OBVIOUS
  <2>2. PICK x \in S : TRUE
    OBVIOUS
  <2>3. N - x \in T
    BY <2>2
  <2> QED
    BY <2>1, <2>3
<1>2. Min(T) \in T /\ \A y \in T : Min(T) <= y
  BY <1>1, LeastOfNats
<1>3. PICK x \in S : Min(T) = N - x
  BY <1>2
<1>4. \A y \in S : y <= x
  <2> SUFFICES ASSUME NEW y \in S PROVE y <= x
    OBVIOUS
  <2>1. N - x <= N - y
    BY <1>2, <1>3
  <2> QED
    BY <2>1
<1>5. \E z \in S : \A y \in S : y <= z
  BY <1>4
<1> QED
  BY <1>5 DEF Max

Run(text, p) == {j \in p .. Len(text) : \A i \in p .. j : text[i] = "n"}

LEMMA RunEnds ==
  ASSUME NEW text \in Seq(Chars), NEW p \in DOMAIN text, text[p] = "n", NEW e, e = Max(Run(text, p))
  PROVE  /\ e \in p .. Len(text) /\ \A i \in p .. e : text[i] = "n"
         /\ e < Len(text) => text[e + 1] # "n"
<1>1. p \in Nat /\ Len(text) \in Nat /\ p \in p .. Len(text)
  OBVIOUS
<1>2. Run(text, p) \in SUBSET Nat /\ p \in Run(text, p) /\ \A x \in Run(text, p) : x <= Len(text)
  BY <1>1 DEF Run
<1>3. e \in Run(text, p) /\ \A y \in Run(text, p) : y <= e
  BY <1>1, <1>2, GreatestOfNats
<1>4. e \in p .. Len(text) /\ \A i \in p .. e : text[i] = "n"
  BY <1>3 DEF Run
<1>5. ASSUME e < Len(text), text[e + 1] = "n" PROVE FALSE
  <2>1. e + 1 \in p .. Len(text)
    BY <1>1, <1>4, <1>5
  <2>2. \A i \in p .. e + 1 : i \in p .. e \/ i = e + 1
    BY <1>1, <1>4
  <2>3. e + 1 \in Run(text, p)
    BY <2>1, <2>2, <1>4, <1>5 DEF Run
  <2> QED
    BY <2>3, <1>1, <1>3, <1>4
<1> QED
  BY <1>4, <1>5

LEMMA NumberStarts ==
  ASSUME NEW text \in Seq(Chars), Recognised(text), NumberAt(text) # {}, NEW p, p = Min(NumberAt(text)),
         NEW e, e = Max(Run(text, p))
  PROVE  /\ p \in 1 .. Len(text) /\ text[p] = "n"
         /\ e < Len(text) => text[e + 1] = "s"
<1>1. NumberAt(text) \in SUBSET Nat
  BY DEF NumberAt
<1>2. p \in NumberAt(text)
  BY <1>1, LeastOfNats
<1>3. p \in 1 .. Len(text) /\ text[p] = "n"
  BY <1>2 DEF NumberAt
<1>4. e \in p .. Len(text)
  BY <1>3, RunEnds
<1>5. ASSUME e < Len(text) PROVE text[e + 1] = "s"
  <2>1. e + 1 \in DOMAIN text
    BY <1>3, <1>4, <1>5
  <2>2. \A k \in NumberAt(text), j \in DOMAIN text : j = Max(Run(text, k)) + 1 => text[j] = "s"
    BY DEF Recognised, Run
  <2> QED
    BY <2>1, <2>2, <1>2
<1> QED
  BY <1>3, <1>5

LEMMA DigitsFound ==
  ASSUME Good(arena), NEW b \in arena.blocks, NEW m, NEW text \in Seq(Chars),
         Recognised(text), NumberAt(text) # {}, InArchive(arena, m, b, text), Len(text) < b.size
  PROVE  parse_immediate(m, Cell(b, Min(NumberAt(text)) - 1)) = DigitsFrom(text, Min(NumberAt(text)))
<1> DEFINE L == Len(text)
           p == Min(NumberAt(text))
           e == Max(Run(text, p))
           d == e - p + 1
           imm == Cell(b, p - 1)
           cap == arena.chunks[b.chunk].cap
           ch(k) == At(m, <<imm[1], imm[2] + k>>).char
           digits == {k \in 0 .. cap : \A j \in 0 .. k - 1 : ch(j) = "n"}
<1>1. p \in 1 .. L /\ text[p] = "n" /\ (e < L => text[e + 1] = "s")
  BY NumberStarts
<1>2. e \in p .. L /\ \A i \in p .. e : text[i] = "n"
  BY <1>1, RunEnds
<1>3. b \in Block /\ arena.chunks \in Seq(Chunk) /\ b.chunk \in DOMAIN arena.chunks
      /\ b.from + b.size <= arena.chunks[b.chunk].size /\ arena.chunks[b.chunk].size <= arena.chunks[b.chunk].cap
  BY DEF Good, TypeOK, UsedParts, Bounded
<1>4. arena.chunks[b.chunk] \in Chunk
  BY <1>3
<1>5. b.from \in Nat /\ b.size \in Nat /\ L \in Nat /\ cap \in Nat /\ b.from + b.size <= cap
  BY <1>3, <1>4 DEF Block, Chunk
<1>6. /\ \A i \in 0 .. L - 1 : At(m, Cell(b, i)).char = text[i + 1]
      /\ At(m, Cell(b, L)).char = "end"
  <2>1. Contents(m, b, L, 1) = Spelled(text, L) /\ At(m, Cell(b, L)) = Character(EndMark)
    BY DEF InArchive
  <2>2. \A i \in 0 .. L - 1 : At(m, Cell(b, i)).char = text[i + 1]
    BY <2>1, <1>5, SpelledOut
  <2> QED
    BY <2>1, <2>2 DEF Character, EndMark
<1>7. imm[1] = b.chunk /\ imm[2] = b.from + (p - 1)
  BY DEF Cell
<1>8. ASSUME NEW k \in Int PROVE ch(k) = At(m, Cell(b, p - 1 + k)).char
  <2>1. imm[2] + k = b.from + (p - 1 + k)
    BY <1>1, <1>5, <1>7
  <2> QED
    BY <2>1, <1>7 DEF Cell
<1> HIDE DEF imm, ch, cap, e, p, L
<1>9. d \in Nat /\ d <= cap /\ p - 1 + d = e /\ p \in Nat /\ e \in Nat
  BY <1>1, <1>2, <1>5 DEF L
<1>10. \A j \in 0 .. d - 1 : ch(j) = "n"
  <2> SUFFICES ASSUME NEW j \in 0 .. d - 1 PROVE ch(j) = "n"
    OBVIOUS
  <2>1. p - 1 + j \in 0 .. L - 1 /\ p - 1 + j + 1 \in p .. e
    BY <1>1, <1>2, <1>5, <1>9
  <2>2. At(m, Cell(b, p - 1 + j)).char = text[p - 1 + j + 1]
    BY <2>1, <1>6
  <2> QED
    BY <2>1, <2>2, <1>2, <1>8
<1> HIDE DEF d
<1>11. ch(d) \in {"end", "s"}
  <2>1. ch(d) = At(m, Cell(b, e)).char
    <3>1. d \in Int
      BY <1>9
    <3>2. ch(d) = At(m, Cell(b, p - 1 + d)).char
      BY <3>1, <1>8
    <3> QED
      BY <3>2, <1>9
  <2>2. CASE e = L
    BY <2>1, <2>2, <1>6
  <2>3. CASE e # L
    <3>1. e \in 0 .. L - 1
      BY <2>3, <1>1, <1>2, <1>5, <1>9
    <3>2. At(m, Cell(b, e)).char = text[e + 1]
      BY <3>1, <1>6
    <3>3. e < L
      BY <3>1, <1>5
    <3>4. text[e + 1] = "s"
      BY <3>3, <1>1
    <3> QED
      BY <3>2, <3>4, <2>1
  <2> QED
    BY <2>2, <2>3
<1>12. digits = 0 .. d
  <2>1. \A k \in 0 .. d : k \in digits
    BY <1>5, <1>9, <1>10
  <2>2. ASSUME NEW k \in digits PROVE k \in 0 .. d
    <3>1. CASE k > d
      <4>1. d \in 0 .. k - 1
        BY <3>1, <1>5, <1>9
      <4> QED
        BY <4>1, <1>11
    <3> QED
      BY <3>1, <1>5, <1>9
  <2> QED
    BY <2>1, <2>2
<1> HIDE DEF digits
<1>13. Max(digits) = d
  <2>0. d \in Nat
    BY <1>9
  <2>1. 0 .. d \in SUBSET Nat /\ 0 .. d # {} /\ \A x \in 0 .. d : x <= d
    BY <2>0
  <2>2. Max(0 .. d) \in 0 .. d /\ \A y \in 0 .. d : y <= Max(0 .. d)
    BY <2>1, <1>9, GreatestOfNats
  <2>3. d \in 0 .. d
    BY <1>9
  <2>4. Max(0 .. d) = d
    BY <2>0, <2>2, <2>3
  <2> QED
    BY <2>4, <1>12
<1>14. parse_immediate(m, imm) = d
  <2>1. parse_immediate(m, imm) = IF ch(Max(digits)) \in {EndMark, "s"} THEN Max(digits) ELSE Unexpected
    BY <1>7 DEF parse_immediate, ch, cap, digits
  <2> QED
    BY <2>1, <1>11, <1>13 DEF EndMark
<1>15. DigitsFrom(text, p) = d
  BY DEF DigitsFrom, Run, d, e
<1> QED
  BY <1>14, <1>15 DEF imm, p

(* The number of a token is read again as the digits of its line, for      *)
(* every file, unless the line may have filled the block it was read to.   *)
THEOREM NumbersStayReadable == Spec => []NumbersRemain
<1>1. ASSUME IInv PROVE NumbersRemain
  <2> DEFINE t == InTokens(mem, tokens)
  <2>1. DOMAIN t = 0 .. tokens.count - 1 /\ \A k \in DOMAIN t : Entry(tokens, k, TokenSize) = t[k]
    BY TokenEntries
  <2>2. CASE stage = "start"
    <3>1. 0 .. tokens.count - 1 = {}
      BY <1>1, <2>2 DEF IInv, Fresh
    <3> QED
      BY <3>1 DEF NumbersRemain
  <2>3. CASE stage # "start"
    <3>1. Listed(t, file, row) /\ AllArchived(arena, mem, Busy, t, file)
      BY <1>1, <2>3 DEF IInv, Filled, TokensGood
    <3>2. Good(arena)
      BY <1>1 DEF IInv, ArenaInv
    <3>3. TextsOf(t, file)
      <4>1. file \in Seq(Seq(Chars)) /\ row \in 1 .. Len(file) + 1
        BY <1>1, FilesAssumption DEF IInv, InputInv, Chars
      <4> QED
        BY <4>1, <3>1, ListedRows
    <3> HIDE DEF t
    <3>4. ASSUME NEW k \in DOMAIN t, NEW token, token = t[k], NEW text, text = file[token.row],
                 token.imm # <<>>, Len(text) \notin Capacities
          PROVE  parse_immediate(mem, token.imm) = DigitsFrom(text, Min(NumberAt(text)))
      <4>1. Recognised(text) /\ text \in Seq(Chars)
        BY <3>1, <3>3, <3>4 DEF Listed, TextsOf
      <4>2. Archived(arena, mem, Busy, token, text)
        BY <3>1, <3>4 DEF AllArchived
      <4>3. NumberAt(text) # {}
        BY <4>2, <3>4 DEF Archived
      <4>4. PICK b \in arena.blocks :
              token.imm = Cell(b, Min(NumberAt(text)) - 1) /\ InArchive(arena, mem, b, text)
        BY <4>2, <3>4 DEF Archived
      <4>5. b.size \in Capacities /\ Len(text) <= b.size
        BY <4>4 DEF InArchive
      <4>6. b.size \in Nat /\ Len(text) \in Nat
        <5>1. Capacities \subseteq Nat
          BY CapacitiesAssumption
        <5>2. Len(text) \in Nat
          BY <4>1
        <5>3. b.size \in Nat
          BY <5>1, <4>5
        <5> QED
          BY <5>2, <5>3
      <4>7. Len(text) < b.size
        BY <4>5, <4>6, <3>4
      <4> QED
        BY <4>1, <4>3, <4>4, <4>7, <3>2, DigitsFound
    <3> QED
      BY <3>4, <2>1 DEF NumbersRemain
  <2> QED
    BY <2>2, <2>3
<1> QED
  BY <1>1, StorageHolds, PTL
=============================================================================
