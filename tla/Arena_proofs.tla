---------------------------- MODULE Arena_proofs ----------------------------
(***************************************************************************)
(* The blocks of the arena never overlap, for every capacity of a chunk    *)
(* and all sizes of blocks; what an allocation and a write leave alone.    *)
(***************************************************************************)
EXTENDS Arena, WellFoundedInduction, TLAPS

(* A search among naturals that can succeed has a first hit. *)
LEMMA LeastOfNats ==
  ASSUME NEW S \in SUBSET Nat, S # {}
  PROVE  Min(S) \in S /\ \A y \in S : Min(S) <= y
<1>1. PICK x \in S : \A y \in S : ~(<<y, x>> \in OpToRel(<, Nat))
  BY NatLessThanWellFounded, WFMin
<1>2. \A y \in S : ~(y < x)
  BY <1>1 DEF OpToRel
<1>3. \E m \in S : \A y \in S : m <= y
  BY <1>2
<1> QED
  BY <1>3 DEF Min

Chunk == [cap : Nat, size : Nat]
Block == [chunk : Nat, from : Nat, size : Nat \ {0}]

(* The parts of the inductive invariant, of any arena: two allocations of  *)
(* a step pass an arena that is no state.                                  *)
TypeOK(a)  == a \in [chunks : Seq(Chunk), blocks : SUBSET Block]
Bounded(a) == \A c \in DOMAIN a.chunks : a.chunks[c].size <= a.chunks[c].cap

(* What was handed out lies in the used part of its chunk, so that the     *)
(* next block of the chunk starts behind it.                               *)
UsedParts(a) == \A b \in a.blocks :
  /\ b.chunk \in DOMAIN a.chunks
  /\ b.from + b.size <= a.chunks[b.chunk].size
Disjoint(a)  == \A b, d \in a.blocks :
  b # d /\ b.chunk = d.chunk => b.from + b.size <= d.from \/ d.from + d.size <= b.from

Good(a) == TypeOK(a) /\ Bounded(a) /\ UsedParts(a) /\ Disjoint(a)

(* A new chunk is large enough for the block it is made for.               *)
LEMMA CapacitySuffices ==
  ASSUME NEW size \in Nat \ {0}
  PROVE  CapacityFor(size) \in Nat /\ size <= CapacityFor(size)
<1>1. CASE size <= DefaultCapacity
  BY <1>1, DefaultCapacityAssumption DEF CapacityFor
<1>2. CASE size > DefaultCapacity
  <2> DEFINE q == (size - 1) \div DefaultCapacity
             r == (size - 1) % DefaultCapacity
  <2>1. q \in Int /\ r \in 0 .. DefaultCapacity - 1 /\ size - 1 = DefaultCapacity * q + r
    BY DefaultCapacityAssumption
  <2>2. q \in Nat
    BY DefaultCapacityAssumption
  <2>3. (q + 1) * DefaultCapacity = DefaultCapacity * q + DefaultCapacity
    BY <2>1, DefaultCapacityAssumption
  <2>4. (q + 1) * DefaultCapacity \in Nat
    BY <2>2, DefaultCapacityAssumption
  <2>5. CapacityFor(size) = (q + 1) * DefaultCapacity
    BY <1>2 DEF CapacityFor
  <2> HIDE DEF q, r
  <2> QED
    BY <2>1, <2>3, <2>4, <2>5, DefaultCapacityAssumption
<1> QED
  BY <1>1, <1>2, DefaultCapacityAssumption

(* Nothing of its chunk is used behind the block.                          *)
LastOfChunk(a, b) ==
  b.chunk \in DOMAIN a.chunks /\ b.from + b.size = a.chunks[b.chunk].size

(* The arena has one block more.                                           *)
Gains(a, a2, b) == a2.blocks = a.blocks \cup {b}

(* What the search works on: the chunks there were, and one with room.     *)
LEMMA RoomIsMade ==
  ASSUME NEW chunks \in Seq(Chunk), NEW size \in Nat \ {0},
         \A c \in DOMAIN chunks : chunks[c].size <= chunks[c].cap
  PROVE  LET more == WithRoom(chunks, size) IN
           /\ more \in Seq(Chunk)
           /\ DOMAIN chunks \subseteq DOMAIN more
           /\ \A c \in DOMAIN chunks : more[c] = chunks[c]
           /\ \A c \in DOMAIN more : more[c].size <= more[c].cap
           /\ \E c \in DOMAIN more : Fits(more[c], size)
<1>1. CASE \E c \in DOMAIN chunks : Fits(chunks[c], size)
  BY <1>1 DEF WithRoom
<1>2. CASE ~\E c \in DOMAIN chunks : Fits(chunks[c], size)
  <2> DEFINE new  == arena_chunk_new(CapacityFor(size))
             more == Append(chunks, new)
             n    == Len(chunks)
  <2>1. new \in Chunk /\ new.size = 0 /\ size <= new.cap /\ new.size <= new.cap
    BY CapacitySuffices DEF arena_chunk_new, Chunk
  <2> HIDE DEF new
  <2>2. /\ more \in Seq(Chunk) /\ n \in Nat
        /\ DOMAIN chunks = 1 .. n /\ DOMAIN more = 1 .. n + 1
        /\ \A c \in 1 .. n : more[c] = chunks[c]
        /\ more[n + 1] = new
    BY <2>1
  <2> HIDE DEF more, n
  <2>3. Fits(more[n + 1], size)
    BY <2>1, <2>2 DEF Fits
  <2>5. \A c \in DOMAIN more : more[c].size <= more[c].cap
    <3> SUFFICES ASSUME NEW c \in 1 .. n + 1 PROVE more[c].size <= more[c].cap
      BY <2>2
    <3>1. c \in 1 .. n \/ c = n + 1
      BY <2>2
    <3> QED
      BY <3>1, <2>1, <2>2
  <2>6. WithRoom(chunks, size) = more
    BY <1>2 DEF WithRoom, more, new
  <2>7. n + 1 \in DOMAIN more /\ DOMAIN chunks \subseteq DOMAIN more
    BY <2>2
  <2> QED
    BY <2>2, <2>3, <2>5, <2>6, <2>7
<1> QED
  BY <1>1, <1>2

(* An allocation gives a new block, the last one of its chunk.             *)
LEMMA Allocated ==
  ASSUME NEW a, Good(a), NEW size \in Nat \ {0}, NEW got, got = arena_alloc(a, size)
  PROVE  /\ Good(got.arena)
         /\ got.block \in Block /\ got.block.size = size
         /\ got.block \notin a.blocks /\ Gains(a, got.arena, got.block)
         /\ LastOfChunk(got.arena, got.block)
<1> DEFINE more  == WithRoom(a.chunks, size)
           fit   == {c \in DOMAIN more : Fits(more[c], size)}
           c     == FirstFit(more, size)
           block == [chunk |-> c, from |-> more[c].size, size |-> size]
           after == [more EXCEPT ![c].size = @ + size]
<1>1. /\ a.chunks \in Seq(Chunk) /\ a.blocks \in SUBSET Block
      /\ Bounded(a) /\ UsedParts(a) /\ Disjoint(a)
  BY DEF Good, TypeOK
<1>2. /\ more \in Seq(Chunk)
      /\ DOMAIN a.chunks \subseteq DOMAIN more
      /\ \A k \in DOMAIN a.chunks : more[k] = a.chunks[k]
      /\ \A k \in DOMAIN more : more[k].size <= more[k].cap
      /\ \E k \in DOMAIN more : Fits(more[k], size)
  BY <1>1, RoomIsMade DEF Bounded
<1>3. /\ got.arena = [chunks |-> after, blocks |-> a.blocks \cup {block}]
      /\ got.block = block
  BY DEF arena_alloc
<1> HIDE DEF more
<1>4. c \in DOMAIN more /\ Fits(more[c], size)
  <2>1. fit # {} /\ fit \in SUBSET Nat
    BY <1>2
  <2>2. Min(fit) \in fit
    BY <2>1, LeastOfNats
  <2> QED
    BY <2>2 DEF FirstFit
<1> HIDE DEF c, fit
<1>5. more[c] \in Chunk /\ c \in Nat /\ more[c].size + size <= more[c].cap
  BY <1>2, <1>4 DEF Fits
<1>6. block \in Block
  BY <1>5 DEF Block, Chunk
<1>7. /\ after \in Seq(Chunk) /\ DOMAIN after = DOMAIN more
      /\ after[c] = [more[c] EXCEPT !.size = @ + size]
      /\ \A k \in DOMAIN more \ {c} : after[k] = more[k]
  <2>1. [more[c] EXCEPT !.size = @ + size] \in Chunk
    BY <1>5 DEF Chunk
  <2> QED
    BY <2>1, <1>2, <1>4
<1>8. after[c].size = more[c].size + size /\ after[c].cap = more[c].cap
  BY <1>5, <1>7 DEF Chunk
<1>9. block.chunk = c /\ block.from = more[c].size /\ block.size = size
  OBVIOUS
<1> HIDE DEF after, block
<1>10. \A k \in DOMAIN more : after[k].size <= after[k].cap
  BY <1>2, <1>5, <1>7, <1>8
<1>11. \A b \in a.blocks : /\ b.chunk \in DOMAIN more
                           /\ b.from + b.size <= more[b.chunk].size
  BY <1>1, <1>2 DEF UsedParts
<1>12. \A b \in a.blocks \cup {block} :
          b.chunk \in DOMAIN after /\ b.from + b.size <= after[b.chunk].size
  <2>1. ASSUME NEW b \in a.blocks
        PROVE  b.chunk \in DOMAIN after /\ b.from + b.size <= after[b.chunk].size
    <3>1. b \in Block /\ more[b.chunk] \in Chunk
      BY <1>1, <1>2, <1>11
    <3>2. more[b.chunk].size <= after[b.chunk].size
      <4>1. CASE b.chunk = c
        BY <4>1, <1>5, <1>8 DEF Chunk
      <4>2. CASE b.chunk # c
        BY <4>2, <3>1, <1>7, <1>11 DEF Chunk
      <4> QED
        BY <4>1, <4>2
    <3>3. after[b.chunk] \in Chunk
      BY <1>2, <1>7, <1>11
    <3> QED
      BY <3>1, <3>2, <3>3, <1>7, <1>11 DEF Block, Chunk
  <2>2. block.chunk \in DOMAIN after /\ block.from + block.size <= after[block.chunk].size
    BY <1>4, <1>5, <1>7, <1>8, <1>9 DEF Chunk
  <2> QED
    BY <2>1, <2>2
<1>13. \A b \in a.blocks : b.chunk = c => b.from + b.size <= block.from
  BY <1>9, <1>11
<1>14. \A b, d \in a.blocks \cup {block} :
          b # d /\ b.chunk = d.chunk => b.from + b.size <= d.from \/ d.from + d.size <= b.from
  BY <1>1, <1>9, <1>13 DEF Disjoint
<1> DEFINE b2 == [chunks |-> after, blocks |-> a.blocks \cup {block}]
<1>16. b2.chunks = after /\ b2.blocks = a.blocks \cup {block}
  OBVIOUS
<1>17. b2 \in [chunks : Seq(Chunk), blocks : SUBSET Block]
  BY <1>1, <1>6, <1>7
<1> HIDE DEF b2
<1>18. Good(b2)
  BY <1>7, <1>10, <1>12, <1>14, <1>16, <1>17
     DEF Good, TypeOK, Bounded, UsedParts, Disjoint
<1>19. block \notin a.blocks
  BY <1>5, <1>6, <1>9, <1>13 DEF Block, Chunk
<1>20. LastOfChunk(b2, block)
  BY <1>4, <1>7, <1>8, <1>9, <1>16 DEF LastOfChunk
<1> QED
  BY <1>3, <1>6, <1>9, <1>16, <1>18, <1>19, <1>20 DEF b2, Gains

ArenaInv == Good(arena)

LEMMA GoodInit == ArenaInit => ArenaInv
<1>1. EmptyArena \in [chunks : Seq(Chunk), blocks : SUBSET Block]
  BY DEF EmptyArena
<1>2. DOMAIN EmptyArena.chunks = {} /\ EmptyArena.blocks = {}
  BY DEF EmptyArena
<1> QED
  BY <1>1, <1>2 DEF ArenaInv, ArenaInit, Good, TypeOK, Bounded, UsedParts, Disjoint

LEMMA GoodSeparates == ArenaInv => BlocksApart
<1> SUFFICES ASSUME Good(arena), NEW b \in arena.blocks
             PROVE  /\ b.chunk \in DOMAIN arena.chunks
                    /\ b.from + b.size <= arena.chunks[b.chunk].cap
  BY DEF ArenaInv, Good, Disjoint, BlocksApart
<1>1. b \in Block /\ arena.chunks \in Seq(Chunk)
  BY DEF Good, TypeOK
<1>2. /\ b.chunk \in DOMAIN arena.chunks
      /\ b.from + b.size <= arena.chunks[b.chunk].size
      /\ arena.chunks[b.chunk].size <= arena.chunks[b.chunk].cap
  BY DEF Good, UsedParts, Bounded
<1>3. arena.chunks[b.chunk] \in Chunk
  BY <1>1, <1>2
<1> QED
  BY <1>1, <1>2, <1>3 DEF Block, Chunk

(* For every capacity of a chunk, all sizes of blocks and any order of     *)
(* allocations, blocks handed out by arena_alloc lie in their chunks and   *)
(* share no cell.                                                          *)
THEOREM BlocksStayApart == ArenaSpec => []BlocksApart
<1>1. ArenaInv /\ [ArenaNext]_arena => ArenaInv'
  <2> SUFFICES ASSUME Good(arena), [ArenaNext]_arena PROVE Good(arena')
    BY DEF ArenaInv
  <2>1. CASE UNCHANGED arena
    BY <2>1
  <2>2. CASE ArenaNext
    <3>1. PICK s \in BlockSizes :
            LET once == arena_alloc(arena, s).arena IN
              arena' = once \/ \E t \in BlockSizes : arena' = arena_alloc(once, t).arena
      BY <2>2 DEF ArenaNext
    <3>2. s \in Nat \ {0} /\ Good(arena_alloc(arena, s).arena)
      BY Allocated, BlockSizesAssumption
    <3>3. CASE arena' = arena_alloc(arena, s).arena
      BY <3>2, <3>3
    <3>4. ASSUME NEW t \in BlockSizes,
                 arena' = arena_alloc(arena_alloc(arena, s).arena, t).arena
          PROVE  Good(arena')
      BY <3>2, <3>4, Allocated, BlockSizesAssumption
    <3> QED
      BY <3>1, <3>3, <3>4
  <2> QED
    BY <2>1, <2>2
<1> QED
  BY <1>1, GoodInit, GoodSeparates, PTL DEF ArenaSpec

-----------------------------------------------------------------------------
(* Reading and writing cells.                                              *)

LEMMA CellsOfBlock ==
  ASSUME NEW b, NEW i \in Int, NEW j \in Int, i # j, b \in Block
  PROVE  Cell(b, i) # Cell(b, j)
BY DEF Cell, Block

LEMMA CellsOfBlocks ==
  ASSUME NEW a, Good(a), NEW b \in a.blocks, NEW d \in a.blocks, b # d,
         NEW i \in 0 .. b.size - 1, NEW j \in 0 .. d.size - 1
  PROVE  Cell(b, i) # Cell(d, j)
<1>1. b \in Block /\ d \in Block
  BY DEF Good, TypeOK
<1>2. b.chunk = d.chunk => b.from + b.size <= d.from \/ d.from + d.size <= b.from
  BY DEF Good, Disjoint
<1> QED
  BY <1>1, <1>2 DEF Cell, Block

(* The write of a terminator behind the last block of a chunk meets none.  *)
LEMMA CellBehind ==
  ASSUME NEW a, Good(a), NEW b \in a.blocks, LastOfChunk(a, b),
         NEW d \in a.blocks, NEW j \in 0 .. d.size - 1
  PROVE  Cell(b, b.size) # Cell(d, j)
<1>1. b \in Block /\ d \in Block /\ a.chunks \in Seq(Chunk)
  BY DEF Good, TypeOK
<1>2. d.from + d.size <= a.chunks[d.chunk].size /\ d.chunk \in DOMAIN a.chunks
  BY DEF Good, UsedParts
<1>3. a.chunks[d.chunk] \in Chunk
  BY <1>1, <1>2
<1> QED
  BY <1>1, <1>2, <1>3 DEF Cell, Block, Chunk, LastOfChunk

LEMMA ReadStored ==
  ASSUME NEW m, NEW c, NEW v
  PROVE  /\ At(Stored(m, c, v), c) = v
         /\ \A d : d # c => At(Stored(m, c, v), d) = At(m, d)
BY DEF At, Stored

Outside(cell, b) == \A k \in 0 .. b.size - 1 : cell # Cell(b, k)

LEMMA ReadCopied ==
  ASSUME NEW m, NEW old \in Block, NEW new \in Block
  PROVE  /\ \A k \in 0 .. new.size - 1 :
              k < old.size => At(Copied(m, old, new), Cell(new, k)) = At(m, Cell(old, k))
         /\ \A d : Outside(d, new) => At(Copied(m, old, new), d) = At(m, d)
<1> DEFINE cells == {Cell(new, k) : k \in 0 .. new.size - 1}
           m2 == Copied(m, old, new)
<1>1. /\ DOMAIN m2 = DOMAIN m \cup cells
      /\ \A c \in DOMAIN m2 :
           m2[c] = IF c \notin cells THEN m[c]
                   ELSE IF c[2] - new.from < old.size THEN At(m, Cell(old, c[2] - new.from)) ELSE Junk
  BY DEF Copied
<1>2. ASSUME NEW k \in 0 .. new.size - 1, k < old.size
      PROVE  At(m2, Cell(new, k)) = At(m, Cell(old, k))
  <2>1. Cell(new, k) \in cells /\ Cell(new, k)[2] - new.from = k
    BY DEF Cell, Block
  <2> HIDE DEF cells, m2
  <2> QED
    BY <1>1, <1>2, <2>1 DEF At
<1>3. ASSUME NEW d, Outside(d, new)
      PROVE  At(m2, d) = At(m, d)
  <2>1. d \notin cells
    BY <1>3 DEF Outside
  <2> HIDE DEF cells, m2
  <2> QED
    BY <1>1, <2>1 DEF At
<1> QED
  BY <1>2, <1>3
=============================================================================
