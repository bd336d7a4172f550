# Verification of the 8080 simulator

TLA+ modules, TLC configurations and TLAPS proofs for the program under
`src/8080`: a simulator of the Intel 8080 with its assembler, disassembler and
loader. The processor with its interrupt logic and its arithmetic, and the tool
chain from the lines of a source text to the listing of its binary are modelled,
checked and partly proved.

## The system

`examples/main.c` is the whole data flow: `assemble` reads a source text and
writes a binary, `load_program` reads it back, `print_disassemble` lists it,
`cpu8080_start_program` copies it into the processor's memory, and the host
calls `cpu8080_step` until `cpu8080_halt()` holds. Everything runs in one thread.
Concurrency enters through devices only: the host may call
`cpu8080_set_interrupt` between two steps, and the port functions, which run
inside an IN or OUT instruction, may call it too.

| component | state | operations | interacts with |
|---|---|---|---|
| processor (`cpu8080_emulator.c`) | A..L, F, PC, SP, `ram[65536]`, `halt`, `clock`, `long_exec`, `curr_opcode` | the 256 cases of `cpu8080_exec_instr`, `cpu8080_tick` | reads the opcode table for durations; calls the port functions |
| interrupt logic (same file) | `inte_reg`, `inte_bus`, `inte_pending` | `cpu8080_set_interrupt`, `check_interrupts`, EI, DI | shares `curr_opcode` and `exec_instr` with the tick |
| host interface (same file, `main.c`) | none of its own | `cpu8080_start_program`, `cpu8080_step`, `cpu8080_halt` | resets and drives the processor |
| opcode tables (`cpu8080_tables.c`) | constant | length, duration, flags, names, argument bits | emulator, assembler, disassembler |
| assembler (`cpu8080_assembler.c`) | `curr_addr`, labels with queues of references, output file | `write_token`, `add_label`, `queue_or_get_label`, `write_queued_labels` | tokens of the pre-pass; arena |
| pre-pass (`cpu8080_asmprepass.c`) | substitutes, stack of IFs | EQU, SET, IF, ENDIF, substitution, removal of tokens | rewrites the parser's tokens |
| parser (`cpu8080_parser.c`) | line buffer, token list | `fgetline`, label, opcode and argument recognition | arena |
| disassembler (`cpu8080_disassembler.c`) | position, run of NOPs | `print_disassemble` | image of the loader, length column |
| loader (`load_program`) | image, 16-bit size | reads the binary | processor, disassembler |
| arena (`arena.c`) | chunks | `arena_alloc`, `arena_realloc`, `arena_free` | parser, pre-pass, assembler |
| string views, preprocessor, file mapping | - | comparison and printing; unfinished and uncalled; Win32 wrappers | - |

What is hard, and what makes each component correct:

- *Processor.* 256 hand-written cases must agree with the table that the other
  tools use (operand bytes, flags), must write only where they address, and
  must wrap in C's narrow types exactly where the machine does. The stack must
  return control to where it came from.
- *Interrupts.* A request may come between any two steps or out of a port
  function, twice before it is taken, inside a handler, while the gate is shut.
  The injected opcode may itself touch the gate, call a device, halt or branch,
  and the acknowledgement comes after it, unconditionally. Requests must neither
  be served twice, nor be dropped, nor wait once they are deliverable, and must
  be invisible to the interrupted program.
- *Restart.* `start_program` may be called at any time; memory and
  `curr_opcode` survive, everything else must not.
- *Assembler and pre-pass.* Forward references patched after the fact, in
  16-bit addresses that wrap before the file does; labels defined twice or
  never; names substituted while the array of tokens is swept and shrinks under
  the sweep; conditional removal of tokens. The file must be the one that an
  assembler writes that knows every label from the start.
- *Arena, parser.* Lines, tokens, labels and queues grow by copying in one arena
  and point into each other: blocks must stay disjoint, what is pointed to must
  stay, and nothing that was spelled may get lost on the way to a token.
- *Loader, disassembler.* A size of 16 bits for an image of up to 2^16 bytes; a
  sweep that shows each byte once, as the instruction the source gave.

`PROJECT.json` lists the hazards, each at its line.

## Modules

| module | models |
|---|---|
| `Words8080` | bytes, 16-bit words, bits, the flag bit-field; each narrowing conversion of C is an explicit reduction |
| `Tables8080` | length, duration and flags columns of `opcodes_ordered_data` |
| `Alu8080` | the arithmetic helpers, as functions on the register file |
| `Cpu8080` | the processor, its interrupt logic and the host: a state machine with every static variable |
| `Cpu8080Props` | the properties that hold for every program, and the two refinement mappings |
| `Mnemonics8080` | `opcodes_base`, `arg_dbl_bits`, `arg_tpl_bits` and the lookup in them |
| `Tokens8080` | tokens, arguments, and what a text means to `parse_immediate` and DB |
| `Parser` | `parse_file` and `next_token`: from lines of lexemes to tokens |
| `Prepass` | `prepass`: substitution, sections, removal of tokens |
| `Assembler` | `write_tokens` and `write_queued_labels`: the file, the address, the labels and their queues |
| `Disassembler` | `print_disassemble`: the sweep and the lines of the listing |
| `Toolchain` | `assemble`, `load_program` and `print_disassemble` composed in the order of `main.c`, and what holds of the whole chain |
| `Arena` | `arena_alloc` and `arena_realloc`; `ArenaSpec` is any client, which the theorem `BlocksStayApart` is about |
| `LineReader` | `fgetline`, the arrays of tokens and labels and the queues, in the memory of the arena |
| `ParserReference`, `PrepassReference`, `AssemblerReference` | how statements are spelled as lines and what the parser should recover of them; what the pre-pass and the assembler should make of a program, said of the program as a whole |
| `InterruptGate` | abstract specification: a latch with the latest request, and a gate that shuts behind the one it lets through and is opened by a start or an executed EI only |
| `CallStack` | abstract specification: a pushdown store of words next to a program counter, emptied by a start only |
| `AluReference` | sequences of operations on A and one operand, with independent definitions of their results |
| `MCDispatch`, `MCPrograms` | programs and device behaviours for TLC |
| `MCCounting` | one of these programs with a history variable, `owed`: how often its handler should have run |
| `MCToolchain`, `MCLineReader`, `MCEncoding`, `MCRedefinition` | source texts, files and token lists for TLC; all but `MCLineReader` also the properties that speak of them |
| `*_proofs` | theorems and the lemmas they rest on |

**State.** `reg` is the function from register names to bytes that the unions
`_reg_AF` .. `_reg_HL` lay out; `reg_PC`, `reg_SP`, `halt`, `clock`,
`long_exec`, `inte`, `inte_bus`, `inte_pending`, `curr_opcode` are the statics
of the same names. `ram` holds the cells written so far: static storage starts
at zero, so `Peek` returns 0 elsewhere, and a state stays small. Every C type
keeps its width (`U8`, `U16`, `% ClockSize`).

**Control.** `phase` is the place inside `cpu8080_step`:

    idle --TakeInterrupt--> inject --instruction--> ack --AckInterrupt--> fetch
    idle --NoInterrupt----------------------------------------------------> fetch
    fetch --tick--> exec --instruction--> idle

`cpu8080_exec_instr` is one action per family of opcodes (`NOP` .. `OUT`), used
from `inject` and from `exec`, as in the code; `Retire` is the code behind the
switch. `StartProgram` and `SetInterrupt` are the host's calls, enabled where
the host has control. `IN_` and `OUT` contain the port function, an unknown
device that answers any of `PortBytes` and may call `set_interrupt`.

**The tool chain.** `stage` is the place inside `main`: `parse`, `prepass`,
`write` (and `data` inside DB and DW), `patch`, `assembled`, `list`, `done`. One
step is one line, one token, one argument of DB or DW, one patched reference, one
line of the listing. A string view is the text it shows; numerals and the
characters of quoted texts are constants (`Numerals`, `CharCodes`). A line is a
sequence of lexemes, with white space, colons, commas and comments as lexemes
(each with its text, and with its text and the white space behind it, which the
parser takes for the name of a label),
since the parser's behaviour depends on where they stand. A file is its length
and a function from the positions that were written with something else than a
filler (`fout`), so that an ORG to the end of the address space costs one step.
`curr_addr` is a second counter next to `fout.len`, of 16 bits, as in the code.

`LineReader` looks at the same programs from below: characters are three letters,
but memory is explicit, cell by cell, as are the chunks of the arena, the copy
made by `arena_realloc` and the place of the terminator. It answers the question
that `Parser` and `Assembler` leave open by using sequences: whether arrays and
lines keep what was put into them.

**Undefined and implementation-defined behaviour.** An index outside `ram`
(push with SP below 2, pop at SP 0xFFFF, SHLD/LHLD 0xFFFF) ends the behaviour in
phase `wild`: from there C promises nothing, and nothing is claimed. The two
calls in `cpu8080_next_short` are unsequenced; `HiFirst` is the order the build
takes. STAX adds the low half of the address of `ram` to its pair (line 245);
`RamBase` is that number. All theorems hold for every value of both. In the tool
chain: the count of a DS or ORG without a number is uninitialised and is any of
`Leftovers`; the strength that `add_substitute` reads lies behind the table, so
a redefinition may or may not go through; a copy that reads beyond the old block
brings `Junk`; a terminator written behind a chunk, and the first character of
an argument that was defined as nothing, end the behaviour in stage `wild`.

**What the tools do that a reader of 8080 assembler would not expect**, and the
models keep: operands are written and listed high byte first; a line with only a
label is dropped by the pre-pass, and the label with it (77); a section cannot
hold another (83), and definitions in a section that is kept are ordinary
tokens; a name that was defined as a number is not a number to the assembler,
which makes a label of it (257-267); a minus sign is skipped (305); a tab behind
a number drops the line (221); a number is no argument of RST (238).

**Deviations from an 8080 that the model keeps, because the code has them.**
JP tests the S flag for 1 as JM does (836). DAD H adds register H only (322).
STAX misses its cell (245). XTHL reads the top word but writes the two cells
below it (186-192). HLT steps over the next byte (482). SUB and CMP add the
two's complement, so for a non-zero operand the carry is that of the addition,
and CMP inverts it only if S is set (167-174). ADC and SBB wrap the operand
before the addition, losing the carry for operand 255. The auxiliary carry, and
DAA with it, combine bits of different numbers (93). An untaken conditional
jump or call leaves PC on its operand (821). These are stated as findings only
where a comment, a table or a test of the repository says otherwise.

## Runs

| run | what is asked | bounds and why they are enough |
|---|---|---|
| `dispatch` | `TypeOK`, `PcFollowsLength`, `FlagsWithinTable`, `WritesAreAddressed` | all 256 opcodes in 4 contexts: stack in the middle and at both ends of memory, flags all set / all clear / S alone, operands that carry, borrow, wrap; every action of the instruction set is taken, and both outcomes of each condition |
| `counting` | `CountingResult`, `LeavesStack`, `GateSpec`, `StackSpec`, `HaltsAtLast` | a program with calls and a handler that re-enables interrupts before it returns; 2 requests (so that services nest) at every boundary, 2 starts (a restart at every point) |
| `waiting` | `AnswerEndsWait` | a device that may answer by interrupt during OUT, under DI, or later; 2 requests |
| `example` | `ExampleResult` | the shipped image, restarted once at any point |
| `accepting` | `NoRequestDropped`, `PromptDelivery`, `GateSpec` | 18 opcodes, one of each kind that matters to `check_interrupts`, injected at every boundary of a program that opens and shuts the gate; 2 requests, by the host or by a port function, so that a second finds the first latched, in service (also in the middle of its own injected OUT) or done |
| `alu` | the six definitions of `AluReference` | every accumulator, 9 operands around the boundaries, every F that sequences of operations reach |
| `toolchain` | ten properties, below | about 4100 source texts: the example; programs of up to 3 of 11 statements and up to 4 of 5 (labels before, after, twice, never defined, data, fillers, the end of the address space); up to 3 of 8 and up to 4 of 6 definitions, conditions and uses; 12 statements in 8 spellings. Two definitions of a name with uses between and behind them need 3 or 4 statements, as do an IF in an IF and a label redefined after it was used |
| `lines` | `BlocksApart`, `LineIntact`, `TokensKept`, `NumbersRemain`, `QueuesKept` | files of up to 3 of 11 lines and of 4 of 4; lines of every length up to the second growth and beyond; initial capacities of 1 or 2 where the code has 4, 16 and 32, and chunks of 18 cells where it has 16384, so that arrays grow twice and several chunks are in use; 3 labels |
| `encoding` | violates `EncodesAsCommented` | finding: PUSH PSW, POP PSW, RST n and conditions C and M are assembled to other instructions |
| `redefinition` | violates `SetRedefines` | finding: the second SET of a name defines its value instead |
| `untaken` | violates `UntakenSkipsOperand` | finding: an untaken branch executes its operand |
| `rnz_duration` | violates `RnzDuration` | finding: an RNZ that does not return costs 181 cycles |

`MaxRaises` and `MaxStarts` bound the host's calls. `ClockSize` is 65536 in the
runs that look at durations or share states anyway. It is 1 in `waiting` and
`accepting`, which makes the clock constant: no action reads it (the program
only prints it), and a polling loop would otherwise have 65536 copies of each
state. `CHECK_DEADLOCK FALSE` in the processor runs, because the machine stops:
it halts, and after a stray access the model ends.

The properties, in short:

- `PcFollowsLength`: operands consumed = length column - 1, for every
  instruction that is no branch; this is what makes the disassembler's and
  assembler's layout the one the processor follows.
- `FlagsWithinTable`: a flag that the table does not list survives.
- `WritesAreAddressed`: memory changes only at the stack words the pointer
  moved over, the cell of HL, or the operand.
- `CountingResult`: wherever interrupts and a restart fall, the sum is right, the
  stack balanced, and the handler has run exactly as often as the requests call
  for. Not every request calls for an activation of its own: one replaces another
  that is still latched (1053), a start cancels what is latched and cuts short an
  activation that has not counted yet, and one that comes when the program has
  halted stays in the latch. `MCCounting` keeps this account in `owed`, and the
  counted and the latched ones add up to it: none is lost and none made up.
- `StackSpec`: the memory above SP is a pushdown store; a return goes to the
  address of the newest frame, which is the one behind the call. It holds of
  programs that keep the stack, `LeavesStack`: SP moves by pushing and popping only,
  and nothing else is stored into the frames. Only a start empties the store.
- `GateSpec`: between the taking of a request and its acknowledgement the latch
  and the gate count as cleared; an injected EI opens nothing. What opens the gate
  is a start, or the execution of an EI that the program fetched. The mapping
  hides a request that a port function raises during a service; it is
  `NoRequestDropped` that speaks of it.
- `NoRequestDropped`: a latched request leaves the latch only because a later one
  takes its place, because the host starts a program, or because it was executed
  and is acknowledged. The code has one exception, and the property admits no
  other: an injected IN or OUT whose port function raises a request has it cleared
  along with the one in service (1048).
- `PromptDelivery`: no instruction of the program is fetched or executed while
  a request is deliverable.
- `HaltsAtLast`, `AnswerEndsWait`: liveness.
- `ParserRecovers`: a line that spells a statement, with blanks, tabs and comments
  wherever they may stand, adds to the tokens what `ParserReference` says should be
  recovered of it: one token with its label, opcode and operands, up to the losses
  named above.
- `NamesExpand`: if no name is defined twice, the tokens after the pre-pass are
  those of the reference: each name replaced by its meaning where it stands,
  each false section gone, everything else left in order.
- `FileIsLaidOut`: in every state, the file with its pending references filled in
  is the beginning of the reference's image. The reference computes all
  addresses first; queues and patches do not occur in it. So this is the
  refinement of a two-pass assembler by a one-pass one, as an invariant.
- `ClosedIsComplete`: the closed file is that image, every reference resolved: a
  label that was defined twice at its first place, one that was never defined at
  its first reference.
- `ReferencesInFile`: queued references lie in what has been written, even after
  the address has wrapped, so patching never extends the file.
- `LoadedWhole`: what was written is what is loaded, unless it fills the memory.
- `ListingTiles`, `ListingShowsProgram`: the lines of a listing cover the image
  without gap or overlap, and show the instructions of the source.
- `ExampleAssembles`: the example becomes the binary the repository ships, which
  is the program of the run `example`: from text to result in two runs.
- `ToolsEnd`: every loop of the tools ends.
- `BlocksApart`: blocks do not overlap, and none leaves its chunk.
- `LineIntact`, `TokensKept`, `QueuesKept`: lines, tokens and queues keep their
  contents through their own growth and that of the others.
- `NumbersRemain`: a number is the same when it is read again for writing. It
  excludes lines that fill their block (32, 64, ... characters): the terminator
  of such a line is outside and gets overwritten, and without the exclusion TLC
  finds the number continued by what follows.
- `AddIsSum`, `DadIsSum`: nine-bit and 17-bit sums. `SubUndoesAdd`, `CmpCompares`:
  subtraction and comparison as inverse and order, with the carry they leave.
  `RotatesInvert`, `LogicAgrees`: inverse rotations and De Morgan's law.

`FileIsLaidOut`, `ClosedIsComplete`, `LoadedWhole` and `ListingShowsProgram` speak
of programs that stay within 64K and give numbers to DS and ORG (`InScope`). The
other programs are in the runs, too, for the properties that hold of them.

**Fairness.** `FairSpec` and `CountedSpec` add `WF_vars(step)`: the loop of `main.c`, lines 36 to
38, calls `cpu8080_step` as long as the machine is not halted, so a step that
can be taken is taken. Nothing is assumed of devices and restarts.
`FairToolSpec` is weak fairness of the next step of the tool chain: it is a
sequential program that waits for nobody.

Each property has a mutant of the code that breaks it (`PROJECT.json`); the
mutants stand next to the definitions they change, marked as such.

## Proofs

The theorems about the processor are for every program, set of devices, bound,
byte order and address of `ram` (the runs use 16480), from the four assumptions in
`Cpu8080` (images are bytes that fit 16 bits, devices deal in bytes, bounds are
naturals); those about the tool chain for every source text, every meaning of
numerals and every content of quoted texts, from the assumptions in `Tokens8080`
(numerals are 16-bit numbers, characters signed bytes), `Assembler` and
`Toolchain` (inputs have the type of inputs) and `ParserReference` (what is
spelled are statements, and without an opcode there are no operands).

- `Alu8080_proofs`: bit and range lemmas. The provers treat
  `MaxByte` and `MaxShort` through their bounds, never by enumeration.
- `Cpu8080_proofs!TypeCorrect` (`TypeOK`). `TypeOK` is inductive as it stands.
  The step is split into the machine proper (`ExecMachine`, one case per action
  of the switch) and the control state (`ExecControl`), which `ExecOutline`
  reduces to what all instructions share: they retire, only IN and OUT raise,
  only EI and DI move the gate. Writing through `CanPush` and `PairFits` is
  where the array bounds enter.
- `Cpu8080_proofs!DeliveryIsPrompt` (`PromptDelivery`) is inductive too:
  from the test to the end of the instruction nothing raises or opens without
  going back to `idle`.
- `Cpu8080_proofs!NothingDropped` (`NoRequestDropped`), for every device. Not
  inductive: `LatchInv` adds what is in `curr_opcode` during a service, the latched
  opcode or, behind an injected IN or OUT, another; so what the acknowledgement
  clears is what was executed, outside of that case.
- `Cpu8080_proofs!GateImplemented` (`GateSpec`): Init maps to Init and each
  step to a step of the gate or a stutter. It uses `TypeOK`, `PromptDelivery`
  and `Deliverable` (the request in service is still latched and enabled), which
  are needed to see that a stray access in the middle of a service is a stutter.
  `GateMoves` says of each instruction whether it moves the gate and how: that is
  what makes `Switch` the only step of an executed instruction.
- `Cpu8080_proofs!StackImplemented` (`StackSpec`): for every program whose behaviour
  satisfies `[]LeavesStack`, which the run `counting` checks of its own. The invariant
  besides `TypeOK` is `StackAligned`, SP is an even distance below its start:
  without it the lowest frame would straddle the initial pointer. A push appends
  the word it stores (`FramesGrow`), a pop takes the newest frame off and `Top` is
  that frame (`FramesShrink`), any other step leaves them (`FramesStay`), because
  what it stores is outside (`StoresMiss`; XTHL writes below SP, and STAX where
  `LeavesStack` allows it). Starting the machine again empties the store.
- `Cpu8080_proofs!LayoutFollowed` (`PcFollowsLength`), by the length of each
  family of opcodes.
- `Cpu8080_proofs!FlagsStayListed` (`FlagsWithinTable`): a case for each action of
  the switch. `SetFlagRest` and `SZPFlags` say what storing one flag, or three,
  leaves of the others; the instructions that are listed with the carry alone
  reduce to `CarryOnly`, INR and DCR to `CountingKeepsCarry`.
- `Cpu8080_proofs!WritesStayAddressed` (`WritesAreAddressed`): a cell that differs
  after a `Poke` is the one poked (`PeekPoke`), so a push can only change the word
  the pointer moved over, and `Store` only the cell of HL, for the opcodes whose
  destination field says M (`NamesM`). `CanPush` is needed: without it the pointer
  would wrap and the cells would not be the two above it.
- `Arena_proofs!BlocksStayApart` (`BlocksApart`), for every chunk capacity and
  every set of block sizes. The invariant `Good` says that the parts of a chunk up
  to its `size` are the ones handed out, and that blocks lie in used parts. What
  needs an induction is that among the chunks with room there is a first, which
  `Min` returns. The induction theorems cannot be instantiated; `LeastOfNats`
  gets it from the well-foundedness of < on the naturals (`WFMin`), which has no
  operator parameter. `Allocated`, `ReadStored` and `ReadCopied` say what an
  allocation, a write and the copy of a reallocation do, for any arena and
  memory; everything about `LineReader` rests on them.
- `LineReader_proofs`: for every file, every set of names and all capacities and
  sizes, `StorageHolds` proves an inductive invariant `IInv`, from which follow
  `LineStaysIntact` (`LineIntact`), `TokensStayKept` (`TokensKept`),
  `NumbersStayReadable` (`NumbersRemain`), `QueuesStayKept` (`QueuesKept`),
  and `ClientBlocksApart` (`BlocksApart`). None of the properties is inductive: that a line survives a step of the tokens needs to
  be known of the blocks, not of the characters. `IInv` says of each array that it
  has a block of its own of `cap` entries with `count` of them in use (`Sized`),
  and what the entries hold (`TokensGood`, `LabelsGood`, `LineGood`); that no two
  of the arrays, the queues and the line at hand have the same block (`Busy`); and
  of each token with a number that the line it points into lies in a block outside
  `Busy`, its text followed by a terminator unless it fills the block (`Archived`).
  That last exception is where `NumbersRemain` gets its condition on the length,
  and `LastOfChunk` (the line at hand ends its chunk) is what makes a terminator
  behind a full block harmless to all others (`TerminatorHarmsNothing`).
  `Keeps(a, m, m2, W)`, nothing but the blocks of W changes, is the frame
  condition that carries the rest through a step; growing an array keeps
  everything (`ArrayGrows`), appending to it everything else (`EntryAppended`).
  The capacities of a line, `Capacities`, are a
  constant that is closed under doubling while some line is longer
  (`CapacitiesAssumption`).
- `Assembler_proofs!ReferencesStayInFile` (`ReferencesInFile`), for every list of
  tokens. The invariant adds that the address is never ahead of the file
  (`FileOK`: it wraps downwards, the length does not), that labels are typed, and
  that each queue ends before the end of the file (`Fine`). A reference is
  queued at an address before its two bytes are written, so one step extends
  the file by what it queues; patching overwrites inside it.
- `AssemblerReference_proofs!FileStaysLaidOut` (`FileIsLaidOut`) and
  `ClosedStaysComplete` (`ClosedIsComplete`), for every list of tokens of any
  length: the one-pass assembler with its queues and patches writes what the
  two-pass definition says. At each position of the layout stands one byte of one
  statement or none (`Stands`, `StandsOnce`). `LInv` says of the labels that each
  is defined where its name first is, or has its first reference as its value
  (`LabelsTell`); of the cells that each holds what stands there, or is one half
  of a reference that is still pending (`CellsTell`); of the length that it is
  where the layout has come to; and of the cursors that nothing behind the first
  END has been read (`LayCursors`). `LaidHolds` proves it, one lemma per action.
  The definitions are recursive functions over the program; what they compute is
  obtained from the well-foundedness of < (`Induction`, `Recursion`), which
  shows first that such a function exists. The condition is `InScope`, as in the
  runs; programs outside of it are covered by `ReferencesInFile` only.
- `Toolchain_proofs`: the whole tool chain, for every source text.
  `SourcesAssumption` says only that a text is a sequence of lines of lexemes; that
  the parser makes tokens of them and the pre-pass keeps them tokens
  (`TokenOfLine`, `PrepassTyped`) is proved, so the theorems about the assembler
  apply to whatever reaches it. `ChainInv` carries this, and the invariants of
  the assembler, through all stages; it yields `TextIsAssembled`
  (`ReferencesInFile`, `FileIsLaidOut`, `ClosedIsComplete`) and, with the
  arithmetic of the 16-bit size (`LoadedSize`), `LoadedStaysWhole`
  (`LoadedWhole`). `ListingStaysTiled` (`ListingTiles`) needs to know where a run of
  zeros under way began: `SweepInv` says that the lines tile the image up to
  there, or up to the position if no run is under way, and end with an
  instruction. `ListingStaysTrue` (`ListingShowsProgram`) rests on `Cut`: the
  sweep never stands inside an instruction. That is not obvious, since the
  sweep takes the length of what it reads and skips zeros wherever they are; it
  follows because an opcode is zero for NOP only (`OpcodeZero`): what a run of
  zeros skips are one-byte instructions and fillers, so it ends between two
  statements.
- `Toolchain_proofs!NamesStayExpanded` (`NamesExpand`), for every source text: the
  sweep over a list that shrinks under it makes what `PrepassReference` says of the
  list as a whole. `SweepAt(ts, q)` says that the sweep stands at token q of the
  original list: what is before `index` is the expansion of the tokens before q and
  what is from there on is untouched (`PlaceIs`), each text is found as what it
  means at q (`NamesAre`), and `if_list` tells of the section q is in
  (`SectionIs`). A step moves it from q to q + 1 (`SweepStep`, one lemma per
  handler), whether the token stays and the index moves on or the token goes and
  the index stays (`PlaceMoves`). The handlers look at the token after its texts
  were replaced, the reference before: that this makes no difference, no name
  standing for a directive (`StandsFair`, `DirectiveExpanded`), is where the condition
  that names are defined once, and as something (`DefinedOnce`), is needed. That
  a definition never meets an entry for its name (`NamesGrow`) is the other place;
  without it the entry of a redefinition may or may not be written.
- `Toolchain_proofs!LinesAreRecovered` (`ParserRecovers`), for every statement, with
  any number of operands, in every style of `ParserReference`. It follows the parser
  along the line: where each part of a spelling stands (`LabelStands`,
  `OpcodeTail`, `CommentTail`); a colon is found behind the label and none behind
  an opcode (`LabelRead`, `OpcodeNoLabel`); reading from the opcode to the first
  stop gives the operands one by one, since what stands between them adds nothing
  (`OperandsRead`, `SilentRead`); and a number is followed by a comma unless it is
  the last operand, so that the line is dropped exactly when a tab stands behind
  that one (`SpelledIsGood`, `BadIsTab`).
- `AluReference_proofs`: all six definitions of `AluReference`, for all register
  files and operands: `AddSums`, `SubtractionInverts`, `DadSums` (every HL and
  every addend), `ComparisonOrders`, `RotationsAreInverse`, `LogicIsBoolean`. The
  carry of SUB and of CMP is stated as what the code leaves (`SUBCarry`), which is
  not a borrow, as said among the deviations. The four rotations
  have one shape (`Shifted`), which is undone by putting the old carry back.

Only model-checked: liveness (`HaltsAtLast`, `AnswerEndsWait`, `ToolsEnd`) is out
of the prover's reach.
`CountingResult`, `ExampleResult` and `ExampleAssembles` speak of given programs.
`LeavesStack` is a property of the program: the run fixes one, the theorem has it
as its hypothesis. The findings are counterexamples, which TLC gives.

## Not modelled

The contents of `printf` output, `cpu8080_dump_data` and `print_program`; the
build without `CPU8080_INSTANT_INSTRUCTIONS` (the header defines it); the
preprocessor, which nothing calls; the Win32 file-mapping header; the build with
`PARSE_AS_LEGACY_NUMBERS`, which the header rules out; the names of opcodes that
listings print. String views are values: that their length has eight bits, and
that most comparisons ignore case, is not modelled. What `strtol` makes of a text
is a constant. Arguments of a token live in `calloc`ed storage of their own that
is never freed, and are part of the token. Storage of the arena is not aligned;
a machine that traps on that is not modelled.

Also left out, as they need a host or a source text that the repository has no
example of: a call of `cpu8080_start_program` from inside a port function; what
`parse_immediate` reads behind a string view when an undefined name in an IF is
followed by a tab or an operator (157-168 of the parser; the model takes the text
alone); the memory of the pre-pass, whose arrays of substitutes and IFs grow like
those of `LineReader` and whose removal of a token moves the entries behind it.

## Plan

1. *Core* (done): `Words8080`, `Tables8080`, `Alu8080`, `Cpu8080`, the two
   abstract specifications, the runs and proofs above.
2. *Tool chain* (done): parser, pre-pass, assembler, loader, disassembler, their
   composition, and the arena with the readers that use it.
3. *Proofs* of the memory of the readers (done): `LineReader_proofs`.
4. *Proofs* of the tool chain (done): from the text to the listing,
   `AssemblerReference_proofs` and `Toolchain_proofs`.
5. *Proofs* of the pre-pass and the parser (done): `NamesStayExpanded`,
   `LinesAreRecovered`. Every safety property that the runs check of all programs
   or all source texts now has a theorem.
