------------------------------- MODULE Arena -------------------------------
(***************************************************************************)
(* The allocator of arena.c.  Storage comes in chunks, each block is cut   *)
(* off the used part of the first chunk with room, nothing is given back   *)
(* before the arena is freed as a whole.                                   *)
(*                                                                         *)
(* blocks is everything that has been handed out, which the code does not  *)
(* keep.  A cell of memory is <<chunk, offset>>; memory is a function from *)
(* the cells that have been written.                                       *)
(***************************************************************************)
EXTENDS Integers, Sequences, FiniteSetsExt

CONSTANTS
  DefaultCapacity,   \* _ARENA_CHUNK_DEFAULT_CAPACITY
  BlockSizes         \* what the clients ask for

ASSUME DefaultCapacityAssumption == DefaultCapacity \in Nat \ {0}
ASSUME BlockSizesAssumption == BlockSizes \subseteq Nat \ {0}

VARIABLE arena

EmptyArena == [chunks |-> <<>>, blocks |-> {}]

arena_chunk_new(cap) == [cap |-> cap, size |-> 0]

CapacityFor(size) ==
  IF size > DefaultCapacity THEN ((size - 1) \div DefaultCapacity + 1) * DefaultCapacity
  ELSE DefaultCapacity

(* A mutation: a chunk that is not yet full is enough. *)
Fits_NotFull(chunk, size) == chunk.size < chunk.cap

Fits(chunk, size) == chunk.size + size <= chunk.cap

WithRoom(chunks, size) ==
  IF \E c \in DOMAIN chunks : Fits(chunks[c], size) THEN chunks
  ELSE Append(chunks, arena_chunk_new(CapacityFor(size)))

FirstFit(chunks, size) == Min({c \in DOMAIN chunks : Fits(chunks[c], size)})

arena_alloc(a, size) ==
  LET chunks == WithRoom(a.chunks, size)
      c      == FirstFit(chunks, size)
      block  == [chunk |-> c, from |-> chunks[c].size, size |-> size]
  IN  [arena |-> [chunks |-> [chunks EXCEPT ![c].size = @ + size],
                  blocks |-> a.blocks \cup {block}],
       block |-> block]

-----------------------------------------------------------------------------
(* What a cell holds shows as a character, or as none: an entry of an      *)
(* array has other fields, too.                                            *)
Character(c) == [char |-> c]
Junk == Character("junk")

Cell(block, k) == <<block.chunk, block.from + k>>
At(mem, cell) == IF cell \in DOMAIN mem THEN mem[cell] ELSE Junk
Stored(mem, cell, value) == [m \in DOMAIN mem \cup {cell} |-> IF m = cell THEN value ELSE mem[m]]

(* A mutation: the last cell of the old block is forgotten. *)
Copied_AllButLast(mem, old, new) ==
  LET cells == {Cell(new, k) : k \in 0 .. new.size - 1}
  IN  [m \in DOMAIN mem \cup cells |->
         IF m \notin cells THEN mem[m]
         ELSE LET k == m[2] - new.from
              IN  IF k < old.size - 1 THEN At(mem, Cell(old, k)) ELSE Junk]

(* The copy of arena_realloc is as long as the new block.  What it takes   *)
(* from behind the old one may be anything, and the two may overlap there; *)
(* the cells of the old block lie in front of the new one.                 *)
Copied(mem, old, new) ==
  LET cells == {Cell(new, k) : k \in 0 .. new.size - 1}
  IN  [m \in DOMAIN mem \cup cells |->
         IF m \notin cells THEN mem[m]
         ELSE LET k == m[2] - new.from
              IN  IF k < old.size THEN At(mem, Cell(old, k)) ELSE Junk]

-----------------------------------------------------------------------------
(* A step of a client of the arena allocates once or twice.                *)
ArenaInit == arena = EmptyArena
ArenaNext == \E s \in BlockSizes :
          LET once == arena_alloc(arena, s).arena IN
            \/ arena' = once
            \/ \E t \in BlockSizes : arena' = arena_alloc(once, t).arena
ArenaSpec == ArenaInit /\ [][ArenaNext]_arena

(* No two blocks share a cell, and each lies within its chunk: whatever    *)
(* the order in which lines and arrays were allocated and grew.            *)
BlocksApart ==
  /\ \A b \in arena.blocks :
       /\ b.chunk \in DOMAIN arena.chunks
       /\ b.from + b.size <= arena.chunks[b.chunk].cap
  /\ \A b, d \in arena.blocks :
       b # d /\ b.chunk = d.chunk => b.from + b.size <= d.from \/ d.from + d.size <= b.from
=============================================================================
