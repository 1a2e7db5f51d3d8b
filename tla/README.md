# A formal model of simulatorRISCV

`simulatorRISCV` is a five-stage RV32I pipeline written in Verilog, compiled
with Verilator and driven by a C++ program (`src/main.cpp`). The program loads
an ELF file with the library ELFIO, which the repository carries, copies its
segments to instruction memory, toggles the clock, prints a trace and stops
when an exit instruction reaches the last stage. This directory models all of
that in TLA+, checks the models with TLC and proves theorems about them with
TLAPS.

Three questions are behind it:

1. **Does the pipeline run a program as if its instructions were executed one
   at a time, and is its trace that execution?** A pipeline fails to by taking
   an operand from the wrong stage, by losing or repeating an instruction
   around a stall, by letting one of a wrong path through, or by letting stale
   control bits act. Each takes several instructions at a particular distance.
2. **Does the processor start with the image the program was linked for?** The
   bytes pass through a layout, a file, a parser and a copy, each with its own
   arithmetic on addresses and offsets.
3. **Does an ELF file keep what a program put into it?** Through any order of
   edits, saves, crashes in a save and loads, with indices that sorting moves
   and hash tables that later edits leave stale.

## 1. Inventory

### The processor and its harness

| Component | Source | State | Operations | Correct when |
|---|---|---|---|---|
| Pipeline | `Simulator.v`, `Pipeline.v` | pipeline registers IF/ID, ID/EX, EX/MEM, MEM/WB | rising edge: all latch together, each with a reset and an enable | slots stay in program order; empty slots do nothing |
| Program counter | `PCCounter.v` | `pc` | rising edge: hold, pc+4, branch target, register target | never has to hold and jump at once |
| Decoder, control unit | `Decoder.v`, `ControlUnit.v`, `Ops.v` | latched outputs (unassigned in some cases) | decode the word in ID | stale outputs never reach an instruction that did not ask for them |
| Hazard unit | `Hazard.v` | none | forwarding choice, load stall, redirect | youngest producer wins; no forward from a load in MEM; a stall ends |
| Register file | `RegisterFile.v` | 32 registers | two reads in ID, a write at the falling edge | a reader three behind a writer sees it; settled when the trace is printed |
| Data memory | `MemoryData.v` | 2^17 words | lane read, lane write at the rising edge | in program order |
| Instruction memory | `MemoryInstruction.v` | 2^17 words | fetch | holds the linked image |
| ALU | `ALU.v` | none | ten operations in use | results of RV32I at word boundaries |
| Immediates | `CalcImmediate.v` | none | gather immediate bits | inverse of the encoding, in every format |
| Clock loop | `main.cpp:99-147` | clock level, running or not, what was printed | toggle, print trace, finish | prints each instruction once, in order; stops exactly at an exit of the program |
| ELF loader | `main.cpp:22-32, 72-95` | instruction memory, `pc` | check arguments, read, copy PT_LOAD segments | copies only within the memory; runs only whole programs |

### ELFIO

| Component | Source (`3rd_party/ELFIO/elfio/`) | State | Operations | Correct when |
|---|---|---|---|---|
| Types, byte order, streams | `elf_types.hpp`, `elfio_utils.hpp` | translation ranges | pack, unpack, convert, translate an address, seek past the end | conversions undo each other |
| Sections, strings | `elfio_section.hpp`, `elfio_strings.hpp` | header, data, capacity | set, append, resize, load, save | data and size agree |
| Segments | `elfio_segment.hpp` | header, members, offset | add a section, load, save | members match |
| Object, loading | `elfio.hpp` | header, sections, segments | create, load, find, validate | what was saved is loaded |
| Layout, saving | `elfio.hpp:181-908` | position in the file, set of sections generated | order segments, place sections and segments, write | nothing over anything else; addresses and offsets congruent |
| Symbols, relocations | `elfio_symbols.hpp`, `elfio_relocation.hpp` | the bytes of their sections | add, look up by name, hash and value, resolve, sort | relocations follow their symbols; stale hash tables mislead no lookup |
| Notes, arrays, dynamic, attributes, versions | `elfio_note.hpp`, `elfio_array.hpp`, `elfio_dynamic.hpp`, `elfio_modinfo.hpp`, `elfio_versym.hpp` | positions, counts or copies made when the accessor was | add, get, modify | an old accessor never hands out what is not in the table |
| Example programs | `examples/` | an object and a file | the orders of calls a program makes | |

**Interactions.** Everything in the processor shares one clock. At the rising
edge all registers latch values computed from the state *before* the edge; the
hazard unit reads ID, EX, MEM and WB and drives the enables and resets of the
counter, IF/ID and ID/EX; MEM and WB feed operands back to EX. The register
file alone writes at the falling edge, so that ID reads it in the second half
of the cycle. `main.cpp` sees `bit_exit`, `valid_out`, `pc_out` and a few
debug outputs while the clock is low. Before the loop it calls ELFIO's `load`
and reads segments from the object. Inside ELFIO all accessors share the bytes
of a section: none owns it, and several may be open on one section.

**What is hard here.** Distance-dependent interleavings of up to five
instructions; state that outlives its instruction (latches of `ControlUnit.v`,
the unforwarded jump base); two controls meeting in one register (reset and
enable, stall and redirect); ordering at the end of the run (an exit in WB, a
store in MEM, a print before the toggle); liveness of stalls and flushes;
numeric edges in the ALU, immediates, lanes, the loader's bound and the layout;
a save that stops half way; accessors whose copies go stale. There are no
threads, no messages and no timeouts. The full list, line by line, is under
`hazards` in `PROJECT.json`.

## 2. Modules

```
Machine            words, fields of an instruction, memory indices; size constants
 |- Hazard         Hazard.v
 |- MemoryData     lanes of MemoryData.v
 |- ControlUnit    Decoder.v, ControlUnit.v with its latches
 |    |- Isa       abstract machine: one instruction at a time
 |    |    `- TracedIsa   the same, observed
 |    `- Contract  the programs for which the pipeline implements Isa
 `- Simulator      Simulator.v, PCCounter.v, Pipeline.v, RegisterFile.v: the clocked pipeline
      `- Testbench clock loop of main.cpp, refinement mapping to Isa
           |- Trace       the loop with what it prints, refinement mapping to TracedIsa
           `- Documented  what comments and recorded runs say
ALU                ALU.v, for words of Width bits
Immediates         CalcImmediate.v, on the bits of an instruction
 `- Datapath       ControlUnit + Immediates + ALU: from an encoding to a result

ElfTypes           tables, byte order, address translation, streams
 |- ElfSection     section_impl, string tables
 `- ElfSegment     segment_impl
      `- ElfIO     elfio: create, load, find, validate
           |- ElfLayout   elfio: save
           |    |- ElfFile     a program and its file, refinement mapping to Container
           |    `- Boot        main.cpp before its clock loop
           |- ElfSymbols  symbols, hash tables, relocations
           |    `- SymbolFile  a program that adds, relocates and sorts
           `- ElfTables   notes, arrays, dynamic section, attributes, versions
                `- TableFile   a program with several accessors of one table
Container          what a program that keeps data in an ELF file relies on

Asm                instruction constructors for the MC modules
SimulatorProofs, RefinementProofs, TraceProofs, BootProofs, DatapathProofs,
SymbolProofs, ElfFileProofs, ElfSaveProofs                                 theorems
MC*                instances for TLC
```

### How state and actions correspond to the code

`Simulator` keeps one record per pipeline register, named after the stage that
reads it: `instrDecode` (IF/ID), `exec` (ID/EX), `mem` (EX/MEM), `wb` (MEM/WB).
`control` is the set of outputs of the control unit for the word in ID: a
variable because unassigned outputs are latches. `pc`, `imem`, `dmem`,
`registers` are the arrays of the source; `clk` is the level of the clock.

* `PosEdge` is the rising edge of the whole design in one step. All its parts
  (`PCCounter`, `PipeReg_*`, `WriteMemory`) read unprimed state, as
  non-blocking assignments do, except that `control'` is recomputed from
  `instrDecode'`, as the combinational block settles after the edge.
* `NegEdge` is the register write.
* `Testbench` adds the loop of `main.cpp`: `Finish` when the clock is low and
  WB holds an exit, `Toggle` otherwise. The loop acts every eighth pass; the
  other seven evaluate unchanged inputs and are left out.
* `Trace` splits a pass in two where its order matters: `PrintLine` writes the
  record of the instruction in WB, reading the *register file* as
  `main.cpp:132` does, and only then `Pass` ends the run or toggles.
* `Datapath` puts the three combinational parts together: an assembler scatters
  an immediate, `CalcImmediate` gathers it, `ControlUnit` picks the operation,
  the ALU applies it. The instruction is executed on its own result, so that
  operands are reached that no test writes down. `Carries` and `CarriesShift`
  say which immediates an assembler accepts for a format.
* `Boot` is `main()` up to the loop: `Start` (arguments), `ReadELFFile`, then
  one segment per step (`SkipSegment`, `RefuseSegment`, `CopySegment`) and
  `InitPC`. A null data pointer ends in `crashed`, a copy past the memory in
  `outside`: the code goes on undefined there.
* An `elfio` object is a record of header, sections and segments; a section is
  its header fields, its data, whether it has data (`has`), its capacity
  (`cap`) and the flags the class keeps (`addrSet`). `Load`, `Layout` and
  `SaveWrites` are whole calls. `SaveWrites` is the *list* of writes that a
  save makes, in order; `SaveFile` performs all of it, cut where the device is
  full, and `Crash` a prefix of it.
* Accessors have no state but what the class keeps: the notes' positions, the
  attributes' copies, the counts of the dynamic and version sections
  (`accs[a].seen`). Everything else they read from the section each time.

`rst` is 0 throughout: `main.cpp` never drives it and relies on Verilator's zero
initial values, which `Init` states.

### Abstractions

* Sizes are constants (`WordMod`, `HalfMod`, `ByteMod`, `NumRegs`, `ImemWords`,
  `DmemWords`); the source has 2^32, 2^16, 2^8, 32, 2^17, 2^17.
* In `Simulator` an instruction is its decoded fields, not 32 bits; in
  `Datapath` it is the set of positions of its ones. All of rd, rs1, rs2 exist
  in every format, because the hazard unit compares them in every format.
  `funct7` is whether the field is zero, all that the source asks.
* The ALU is a constant operator: the proofs assume only that it returns words
  and, where links and addresses matter, that its `ADD` adds; the runs give it
  `ALU!ALU` of module `ALU`.
* `ALUSrc1 = 1'bx` and `ALUSrc2 = 2'bxx` of an all-zero word are constants
  (`XALUSrc1`, `XALUSrc2`): the build fixes them once. The theorems hold for
  every choice.
* For the processor the loader's result is constants: `Programs` (images of
  instruction memory) and `Entries`; `Boot` shows how they come about. Data
  memory starts at zero, as the loader never writes it.
* Of the debug pipes only `pc_WB` is kept, of the ALU not the unused `zero`.
* An ELF file is a sequence of *cells*. A cell of a table is a field of two
  digits in base `Radix`, which is enough for a byte order that matters; a cell
  of section data is a byte. All fields have one width, so the two classes have
  tables of one size: the 32-bit class is modelled, the other is a copy of the
  same templates. Names are short sequences of bytes, the constants of
  `elf_types.hpp` those that some code compares with.
* Allocations succeed. Streams are modelled from how the library uses them
  (`external` in `PROJECT.json`): a read past the end returns what is there and
  makes the stream fail, a write past the end fills with zeros, a device takes
  `Room` cells.
* A hash table is a linker's work: the library only reads it. `SymbolFile`
  builds both forms for the symbols of a moment and never again.

## 3. The contract of the processor

`Isa` is what the decoder's table promises, read as intended: a jump links
pc+4, a jump through a register uses the register's current value, an exit
changes nothing else. The code does not keep that promise for every image.
`Contract!Conforming` names the images for which it does, each condition tied
to the code that makes it necessary:

| Condition | Excludes | Because |
|---|---|---|
| `Decodable` | all-zero words; branches with funct3 2 or 3 | no case decodes them as instructions |
| `BaseSettled` | a write to the base of a `jalr` in the two words before it | `Simulator.v:83` takes the unforwarded value |
| `LinkAdds` | a linking jump that may be decoded after a non-addition | `ControlUnit.v:148-173` leaves `ALU_op` latched |
| `ExitQuiet` | an exit behind a store, or with a non-zero rd field | `ControlUnit.v:212-215` leaves ten outputs latched |

The contract is enough: `PipelineImplementsIsa` (section 5) proves it for every
conforming image. It rests on one more fact, `WrapAssumption`: the instruction
memory repeats a whole number of times in the address space (2^17 words in 2^32
bytes), so that the word after the last address is the first word of the image.
Each condition but `Decodable` is also needed: without any one of the other
three the run `isa` fails. (Its two alphabets contain nothing that `Decodable`
excludes.)
What happens outside the contract is shown by the runs `jump_base` and
`jump_link`.

## 4. Runs

### The processor

| Run | Checks | Shows |
|---|---|---|
| `pipeline` | `TypeOK`, `NoForwardFromLoad`, `StallExcludesRedirect`, `BubblesInert`, `InOrder`, `StallLastsOneCycle` | the pipeline alone, under a clock that never stops, over **all** 9^4 images of nine instructions, among them exits, an unknown opcode with non-zero fields and all-zero words |
| `isa` | `ImplementsIsa`, `TraceIsExecution`, `RegistersSettled`, `BubblesBounded`, `KeepsCommitting` | the clock loop with its trace, over the conforming images of two alphabets, one of arithmetic, loads, stores and exits, one of branches, jumps, links, loads, stores and exits: it refines `Isa`, what it prints refines the observed `Isa`, and it goes on |
| `datapath` | `ImmediateSurvives`, `ComputesAsPromised` | every format with immediates of up to two ones or two zeros anywhere; every arithmetic instruction on every pair of four-bit operands |
| `jump_base` | `JumpsToRegisterPlusImm` (violated) | a jump through a register goes to the old value |
| `jump_link` | `LinkIsNextAddress` (violated) | a jump after a subtraction links pc-4 |

These use 4-bit words with 2-bit halves and 1-bit bytes, three registers, four
words of instruction memory, two of data memory, entry 0.

**Why the bounds are enough.** At most five instructions are in flight, and
every control decision depends on the fields of at most four neighbouring ones
(ID, EX, MEM, WB). Four words with every choice of instruction, and control
flow that wraps from the last to the first, produce every sequence of those
neighbours; loops make longer histories. Three registers are register 0 and two
that can be told apart. Two data words make addresses alias or differ, and data
indices wrap. Four-bit words make adders wrap. What these sizes do *not* reach:
instruction addresses beyond the instruction memory (16 addresses are exactly
four words), and shifts by more than three; the theorems cover the first. Immediates are checked at their full 32 bits: their wiring has no
size to reduce.

### The ELF file

| Run | Checks | Shows |
|---|---|---|
| `boot` | `MemoryIsImage`, `NeverOutside`, `LoadableRuns` | files that the model of the writer laid out, with one to three blocks in either order, gaps, zero-initialised data, parts at and just beyond the largest size that is safe, addresses below and above the loader's bound; the same cut off at every byte, with and without section table; files of the other class and byte order; one to four arguments |
| `elf_file` | `NoOverlap`, `WhereLinked`, `Covered`, `Valid`, `Resaved`, `KeepsContent`, `MemoryNeverShrinks` | a program builds a big-endian file from nothing: four edits, saves, a crash between any two writes of a save, a device that becomes full, loads from the file and from the memory of a process that mapped it in two ranges |
| `elf_linked` | the same | the program starts from the output of a linker: a segment for the program headers, a loaded segment from offset 0, a nested segment |
| `symbols` | `RelocationsFollow`, `NothingLost`, `LocalsFirst`, `LookupFinds`, `ValueFinds` | up to three symbols, a relocation with or without addend, changes and sorts in any order, around a System V or GNU hash table built at any moment |
| `tables` | `NewReaderFindsAll`, `OldReadersStayRight`, `SeesOwn` | six kinds of table in both byte orders, two accessors opened, used and made anew at any moment, save and load in between |
| `elf_backwards` | `NoOverlap` (violated) | a section whose address lies below its segment's is placed over what is there |
| `validate_types` | `OverlapReported` (violated) | `validate()` does not see a relocation section over the code |

**The abstract specification.** `Container` knows blobs, groups, and a store
that a save replaces and an open returns; it says nothing of offsets, tables or
byte orders. `KeepsContent` is the refinement (`ElfFile!Store`): every edit adds
or changes one blob, every complete save stores exactly what the program holds,
and nothing, after a refusal, or, after a full device or a crash, each part
either as it was or as zeros (`Torn`); every open returns what the file then
holds. A program that opens such a file may hold a section whose data it never
had; saving puts zeros in their place (`Container!Kept`).

**Why the bounds are enough.** The layout treats sections and segments pairwise:
two sections of the program besides the two mandatory ones (three in `elf_linked`),
in or outside a segment, with and without bits, in both orders of address, and
one segment (three in `elf_linked`), beside or inside each other and with sections
of their own or in common, reach every branch of `elfio.hpp:625-908` (all
disjuncts of the modelled code fire). `Radix` 16 gives fields of 256 values:
files stay below 200 cells, so that nothing wraps that does not wrap in the
source, except where unsigned differences become negative, which then wrap in
both. `Room` lies between the sizes of the files, so that some saves fit and
some are cut, in the middle of the header of a section among them. In `symbols` both names fall into the same bucket of either
hash table; three symbols are enough for two exchanges of one sort to meet in
one symbol. In `tables` three records over two accessors give every interleaving of
an old reader with another's additions. In `boot` the memory has 32 words, and the
largest part that is safe behind the highest address allowed, 97 cells, is
present with its successor, 98.

**What the properties of a saved file leave out, and why.** Each condition is a
place where the layout does something else than its reader expects (section 6).

| Property | Says it of | Because otherwise |
|---|---|---|
| `WhereLinked` | the sections a segment shares with no other; distances as numbers of a field | a section in two segments has one place in the file, and may be meant at two distances; offsets and addresses are unsigned |
| `Covered` | objects whose segments lie beside or inside each other (`Nested`) and have no section without bits in front of one with bits (`BitsFirst`) | `p_filesz` leaves out the padding in front of a section without bits; going back to a section that was placed already makes it negative |
| `Valid` | objects no section of which is in two segments (`Unshared`) | `validate()` wants the address of the section at a segment's offset to be that of the segment |
| `Resaved` | files whose sections are found in the segments they were put in, and `BitsFirst` | the reader decides by address what is in a segment (`elfio.hpp:562-583`) |

Two guards keep the model to what a program can do: it adds only to a section
whose data were read (`InMemory`; the source would copy from a null pointer),
and a system maps a file only if no segment reaches beyond its end (`Mappable`).

**Deadlock.** `Simulator`, `Datapath`, `ElfFile` and `TableFile` never stop and
are checked for deadlock, as is `Boot`, whose ends stutter explicitly
(`Stopped`). `Testbench` and `Trace` do stop, after `Finish`, and so does
`SymbolFile` when its bounds are used up in a sorted table: their runs switch
the check off. That the loop goes on for as long as the program does is
`KeepsCommitting`, and that nothing is committed after an exit is
`ImplementsIsa` (`halted`).

**Fairness.** `TraceSpec` (and `TBFairSpec`) assume weak fairness of the loop as
a whole: it is one thread without a wait, lock or input, and while the program
runs it takes its next pass. Nothing is assumed about any stage on its own.
`KeepsCommitting` also holds at the end of a run, where WB keeps the exit.
`BSpec` assumes weak fairness of the next step of `main()`, for the same reason.
The programs of `ElfFile`, `SymbolFile` and `TableFile` may stop at any time:
nothing is assumed of them and no liveness is claimed.

**Mutants.** Each property of a passing run has a mutant in `PROJECT.json` that
breaks it: a counter that moves during a stall, a stall that compares one field,
a redirect that empties one stage too many, forwarding that prefers the older
producer, a register write from the wrong source, a section placed without
its gap, a sort that does not tell the relocations, a copy counted in words. The
mutants stand next to the definitions they replace.

## 5. Theorems

The theorems hold for every value of the size constants, every image and every
choice of the x values. Their assumptions are the named ones of the modules,
which TLC evaluates on every run:

| Assumption | Says | Because |
|---|---|---|
| `SizesAssumption` | a word holds at least pc + 4; halves and bytes divide words; memories are not empty | widths of the source |
| `XAssumption`, `ImageAssumption` | the x values are control outputs, images and entries are typed | |
| `ALUAssumption`, `AdderAssumption` | the ALU returns words; its `ADD` adds | `ALU.v:12`; the first for all theorems about the processor, the second for the refinement only |
| `WrapAssumption` | section 3 | for the refinement only |
| `DatapathAssumption` | `Width` is 1 to 32 | an immediate has 32 bits |
| `ElfFileAssumption` | the files a program finds consist of numbers, and what it passes to the setters are numbers | unsigned parameters throughout |
| `RadixAssumption`, `WordsAssumption` | there are two digits, and a word of memory | |
| `SymbolsAssumption` | a byte has an even number of values; names are byte strings without a 0; the number of symbols, the relocation types, the addends and the size of all names fit their fields | what does not fit is cut when it is written (`elf_types.hpp`, fixed widths); a name in a string table ends at a 0; a GNU chain ends at a value whose lowest bit is set |
| `ProgramAssumption` | a file that loads is a file of its program (`HoldsProgram`) | what a linker writes; without it "the image the program was linked for" has no meaning |

**The processor.**

* `SimulatorProofs`, first part: the adders, indices, lanes and the control unit
  return what their types say. Lanes need that a half and a byte divide a word: then
  replacing the low part cannot leave the word's range (`MergeType`).
  `ControlUnitCoherent` is the key lemma about the latches: whatever was
  decoded before, an output set stays *coherent* (an empty slot asks for
  nothing; a load neither branches, jumps nor stores), and `valid` still says
  exactly whether the word is all zeros. `ControlUnitSettles`: decoding a word
  twice changes nothing, which is what a combinational block with latches owes
  while its input stands still.
* `SimulatorProofs`, second part: `TypeCorrect`; then `PipelineInvariant`, the inductive
  invariant `PipelineInv`. `InOrder`, `NoForwardFromLoad` and
  `StallExcludesRedirect` are not inductive alone. A step keeps
  `InOrder` only if a stall and a redirect never meet; that follows from
  coherence of the bits in EX, which came from `control`, which is a latch.
  After a flush, `control` must be invalid although only `instrDecode` was
  cleared: that is `ValidMatchesOpcode`. `NoForwardFromLoad` holds because the
  load stall of the cycle before emptied EX: `LoadNotRead`. The step lemma has
  four cases, as the code does: frozen by an exit, redirect, stall, flow.
* `RefinementProofs`, first part: the loop does only what the open clock may do
  (`LoopIsClock`), and `BubblesNeverPileUp`: with no all-zero word in the image
  at least one of EX, MEM and WB is occupied. The invariant `NextInDecode` says
  why: when WB holds the only instruction of the last three stages the next one
  is already in ID.
* `RefinementProofs`, second part: `PipelineImplementsIsa`, for programs that are all
  `Conforming`. Its inductive invariant is `RefinementInv` (`SlotsAreProgram`),
  and each part of it is there for one thing the refinement mapping needs:

  | Part | Says | Needed for |
  |---|---|---|
  | `DecodeMatches`, `ExecMatches`, `MemMatches`, `WbMatches` | each slot carries the fields and control bits of the image word at its pc, and no latch in it does harm (`DecodedAs`) | the step commits *this* instruction |
  | `OperandsRead` | an operand in EX is what the register holds, unless WB has just replaced it | with `RegistersSettled`: what is forwarded is the architectural value (`Forwarding`) |
  | `MemComputed` | MEM holds the result computed from the registers of the abstract machine | commit writes the right value |
  | `MemFollowed` | the oldest instruction behind MEM is the one the program goes on with | the abstract pc, also across a redirect |
  | `InOrderAcrossBubble` | a stall leaves one bubble, a redirect two, nothing else leaves any | the pc behind a bubble |

  Three of the conditions of the contract enter at one lemma each:
  `BaseIsCurrent` (`BaseSettled`), `FlushLeavesAddition` and `DecodedInOrder`
  (`LinkAdds`), `DecodedInOrder` (`ExitQuiet`). Once an exit has left EX
  nothing behind it commits, and the parts about ID and EX are claimed no
  longer (`Over`): the frozen pipeline does not keep them.
  `RisingEdgeRefines` and `FallingEdgeRefines` are the two steps: an edge with an
  instruction in MEM is `Arch!Step`, every other one a stutter.
* `TraceProofs`: the loop that prints does to the processor only what the loop
  that does not print may do (`TraceOnlyObserves`), so that what was proved of
  one holds of the other (`TracedBubblesNeverPileUp`,
  `TracedPipelineImplementsIsa`). `PrintsSettledRegisters`:
  whenever the loop prints, the register file is the architectural one. The
  falling edge writes what WB holds, WB does not move at that edge, and writing
  it twice changes nothing, because `wb.rdn` is a register and the result a
  word (`TypeCorrect`). `TraceIsTheExecution`: the observed machine of
  `TracedIsa` is implemented, by `RefinementInv` and `PrintedIsCommitted` (what
  was printed in this pass is the record of the instruction in WB, and nothing
  was printed while the clock is high).
* `DatapathProofs`: `ImmediatesSurvive`. Each wire of each format is computed
  from the part selects, replications and concatenations of `CalcImmediate.v`
  (`IWires` .. `JWires`); the assembler's table of the same format is injective
  and the wires follow it (`FormatFollows`); wires that follow an injective
  table gather what it scattered (`RoundTrip`), also in the bits that are copies
  of the highest or constant. And `ArithmeticIsPromised`: on every pair of
  operands of every width up to that of an immediate, what `ControlUnit.v` picks
  for an encoding and `ALU.v` computes is what the instruction set says of it.
  The bitwise operations are sums over bits, the arithmetic ones quotients and
  remainders: the proof relates the two by a power function and sums that are
  unfolded by `SetInduction` (below), bit by bit. Its invariant `Standing` keeps
  the encoding, the immediate and the operand together: an operand is the
  number the given bits stand for, or a second register.

**The loader.** `BootProofs` has two results.

* `CheckSuffices`. The loader compares an address in bytes with a
  number of words and does not look at the size (`main.cpp:82-91`). It is right
  all the same when no part exceeds three quarters of the memory: an address
  below the bound lies in the first quarter (`BoundSuffices`).
* `MemoryBecomesImage`. The invariant `ImageInv` says, cell by cell, that after n
  segments memory holds those n and is zero elsewhere (`Holding`). A copy keeps it
  because two loaded segments that meet hold the same part
  (`SegmentsAgree`), so that their order does not matter; at the end every part
  has had its segment (`AllCopied`). What `load` makes of the bytes of a file
  enters through `ProgramAssumption` alone.

**Symbols and relocations.** `SymbolProofs` is about the program of
`SymbolFile`: symbols are added, sorted and exchanged in a table of bytes while
a second table of bytes refers to them by number. Its inductive invariant
`YInv` (`TablesStand`) has four parts:

| Part | Says | Needed for |
|---|---|---|
| `Tables` | the three sections are in memory, their sizes are those of whole entries, each is where its link says, and a hash table, once built, can be searched | an accessor reads what an accessor wrote, and nothing else (`TablesReplaced`) |
| `Represents` | every symbol added is in the table at some place, with its name readable at its `st_name` | sorting changes only the place |
| `Refers` | every entry names the place at which the symbol it was made for now is, and has kept its offset, type and addend | `RelocationsFollow` |
| `sorted => IsArranged` | `sh_info` separates the locals from the others | `LocalsFirst`, also after the steps that do not sort |

The bound on the size of the names in `Stands` is there because `st_name` is a
field: a place that does not fit would be cut. From the bottom up:

* *Bytes.* Converting a field's byte order twice gives it back (`ConvertBack`);
  a symbol and an entry with or without addend read back as they were written,
  in either byte order (`SymbolBack`, `EntryBack`). Appending and overwriting
  one entry of a table leaves the others (`CutsAfterAppend`, `CutsAfterPut`).
  A name put into the string table is read back up to its 0 (`NamedIsRead`),
  and every name stays where it is when the table grows (`NamedStays`).
* *Loops.* `swap_symbols` and `arrange_local_symbols` are loops, here folds over
  their numbers of rounds. They are unfolded by `SetInduction`: a set that holds 0
  and the successor of each of its members holds every number. Unlike the
  library's induction theorems it takes a set and no operator.
  `EntriesSwapped`: after the pass over the relocations each entry that held
  one of the two numbers holds the other. `PairExchanged`: with the exchange
  of the symbols themselves, every relocation still refers to its symbol.
  `ArrangeHolds`: each round puts one more local in front, or nothing is left
  to sort; as many rounds as there are entries are enough.
* *Actions.* One lemma per action (`AddOneKeeps`, `RelocateNewKeeps`,
  `RelocateKeeps`, `RetargetKeeps`, `ArrangeKeeps`, `BuildHashKeeps`), and
  `NewObjectStands` for the object with its three sections.

From the invariant follow `ArrangeSeparates` (`LocalsFirst`), `SymbolsStay`
(`NothingLost`), `ValuesAreFound` (`ValueFinds`) and `RelocationsStay`
(`RelocationsFollow`): the relocation's computed value too.

`NamesAreFound` (`LookupFinds`) says that a lookup by name, through the hash
table or by going through all symbols, finds a symbol of that name whenever one
was added, however old the table is. Its hard part is that the search of a stale table *ends*. A
chain of a System V table descends, since it is built by putting each symbol in
front of those before it, and ends at 0; the cells of a GNU chain go up, and the
last of each bucket is odd. Later edits of the symbols change neither, so both
facts are part of `Tables`. A search that ends without a hit falls back on all
symbols, where `Represents` knows the symbol. Names are not empty: an empty
name is that of symbol 0.

**Files.** `ElfFileProofs` is about the program of `ElfFile`. Its invariant `FInv`
says that what the program works on is an object (`IsObject`: every header,
section and segment has its fields, with numbers in them, sections and segments
are numbered in order, and segments name sections that exist) and that the
bytes of a file are numbers. Every edit, every save, crashed or not, and every load
of *any* bytes, translated or not, keeps it (`EditsKeep`, `LayoutKeeps`,
`WrittenType`, `LoadIsObject`). The argument about the layout, from the bottom up:

* *The order.* Bringing segments to the front permutes them (`FrontPermutes`). The
  work list empties: of finitely many segments one is longest, it lies inside
  no other, and so each round finds one (`OutsideExists`); hence every segment is
  laid out, once (`OrderPermutes`).
* *One section.* What a round of `write_segment_data` may do to a section is
  `Moved`: nothing, or a place and, if it had none, an address (`PlaceCases`).
  Padding and the test for seeking backwards are arithmetic in a field
  (`PadType`, `FieldWraps`, `SameField`). A section just placed is `Linked`: as far
  behind the start of the segment in the file as in memory, as numbers of a
  field (`PutLinks`).
* *One segment, all segments, the rest.* The rounds are folds and are unfolded by
  `SetInduction`; their invariants (`Placing`, `Begun`, `Done`, `Beside`) say which sections
  are where they will stay. A section generated is not touched again, so a
  segment's own sections stay `Linked` to the end.
* *Room* (from here on `ElfSaveProofs`). `Stowed`: the sections generated so far lie behind the headers and before
  the current position, beside each other (`InRoom`). A round keeps it if the
  position does not wrap, which is why a bound is needed (`GapIsModest`,
  `StowAll`, `SegmentsStow`, `AloneStow`); then the table of sections goes behind
  them (`EverythingApart`).
* *There and back.* What a save writes is a set of writes (`SaveWritesAre`). If
  there is room no two of them share a cell (`WritesFree`), so each of them is in
  the file when the last one is done, whatever filled the gaps (`AllHold`,
  `SavedIsRecorded`). A load reads each of them where the header says it is
  (`HeaderBack`, `SectionsBack`, `SegmentsBack`), and unpacking undoes packing for
  numbers that fit (`Unpacked`, both byte orders). Then the sections get their
  names from the table (`NamesBack`). `LoadBack` puts the parts together.

| Theorem | Property | Says |
|---|---|---|
| `SectionsLieWhereLinked` | `WhereLinked` | for every object that can be built, loaded and edited, shared segments or not |
| `MemoryIsKept` | `MemoryNeverShrinks` | as the name says |
| `SavesKeepContent` | part of `KeepsContent` | no save changes what the program made |
| `RoomySavesApart` | `NoOverlap`, where `Roomy` | nothing over anything else, if the file is small against the range of an offset |
| `RoomySavesAreLoaded` | the step of `KeepsContent` that a save is, where `Roomy`, `Storable` and `Mappable` | opening the file brings back the content of the object |
| `StepsFollowStore` | the steps of `KeepsContent` that edits, such saves, refused saves and opens are | a program that edits, saves and opens does with its content what `Container` says |

`Roomy` is not idle. `NoOverlap` is false without it: offsets wrap, and that is
finding 3. It is a condition on what the program asks for: with sizes,
alignments and distances within a segment of at most m and at most r sections in
a segment, the headers and everything padded to the full do not reach the end
of the range (2^32 or 2^64 in the source). Every save of the run `elf_file` that
succeeds is roomy, those with two sections at addresses in a segment among
them; in `elf_linked`, whose 256 places are small for three segments, most are
not, and TLC shows `NoOverlap` for them all the same.

`Storable` is what the round trip asks of the object besides. `Fits`: each number
fits the field it is written to, and the identification is one that load
accepts. `Spacious`: the data of a section is as long as its size says, and the
header gives its tables entries that are large enough. `Named`: the label of
each section is what the table of names has at the offset the section carries.
The last is no invariant of every program: one that loads a file in which the
table of names is a section like the others may write to it, and so rename
every section in the file and none in memory. In the two runs every save
that succeeds is `Storable` and `Mappable`, unless the program holds a section
without its data, which it then opened from a file that was cut off.

`StepsFollowStore` asks of an edit that the table of names be none of the
program's own sections (`OwnNames`): a new section gets its name written there.
It is so for every object that `create` makes, and in every state of the two
runs that edits anything.

**Only model-checked.**

* `NoOverlap` of files that are not roomy.
* `Covered`, `Valid`, `Resaved`: what a segment's `p_filesz` is needs a further
  invariant of the rounds (it is the distance of the current position from the
  start, as long as no section is met twice), and `Valid` and `Resaved` need
  besides what a load makes of the bytes. In full they hold, like `NoOverlap`,
  of roomy files only.
* `KeepsContent` in full. `StepsFollowStore` has its steps but two: what a crash
  or a full device leaves (`Torn`), and loading from where a process has mapped
  the file. That a program's own edits keep the names in their table, in a
  program that only creates files, is not proved.
* `NewReaderFindsAll`, `OldReadersStayRight`, `SeesOwn`: the accessors of
  `ElfTables` walk byte strings entry by entry, each with its own width, and
  `Reopen` needs that a saved file loads as the object it was.
* The liveness properties `KeepsCommitting` and `LoadableRuns`: they rest on
  fairness, and the provers have no `ENABLED`.
* Recursion over data in general: the library's induction theorems take an
  operator as a parameter, which the provers here cannot instantiate.
  `SetInduction` replaces them where what is to be shown of each number can be
  written as a set.

## 6. Divergences found

1. **Stale jump base** (`Simulator.v:83`, run `jump_base`). `ControlUnit.v:156`
   and `Decoder.v:28` say the target is rs1 + imm; the value used is the one
   read in ID, without forwarding. `addi x1,x1,4; jalr x0,4(x1)` jumps to old
   x1+4.
2. **Latched link operation** (`ControlUnit.v:148-173`, run `jump_link`). `jal`
   and `jalr` do not assign `ALU_op`. The link is old operation(pc, 4). The
   recorded run (`trace_result/traceInstr:69-70`) shows pc+4, because an
   addition was decoded before it.
3. **Seeking backwards** (`elfio.hpp:846`, run `elf_backwards`). The comment
   says that a section that would be placed before the end of what is there
   makes the save fail. The test compares unsigned differences; when the section
   starts below its segment the difference wraps, the test passes and the
   section overwrites what was placed.
4. **Overlaps unreported** (`elfio.hpp:303`, run `validate_types`). `validate()`
   leaves out every section whose type has bit 3 set, not only SHT_NOBITS.

More that no run shows:

* The comment `PCCounter.v:7` says pc + imm + rs1, line 22 adds imm and rs1.
* `elfio_modinfo_get_attribute_by_name` (`c_wrapper/elfio_c_wrapper.cpp:418`) looks
  for its empty output string instead of the name it was given.
* `p_filesz` (`elfio.hpp:879-881`) leaves out the padding in front of a section
  without bits: a section with bits behind it is cut off by as much
  (`BitsFirst`).
* A section that is in two segments, and in the second behind one that the file
  has after it, makes the second's `p_filesz` negative, which is large. Such a
  file loads, the segment without its bytes; not so through an address
  translation, where no size is too large to be tried (`Nested`, `Mappable`).
* A section that was loaded from outside every segment keeps address 0
  (`AddLoaded`). Attached to a segment it is below it: finding 3.
* A section of type SHT_NULL with a size is passed over by the layout and may be
  reported by `validate()` at the offset it happens to have.

## 7. Not modelled, and the plan

Not modelled:

* `elfio_dump.hpp` (1344 lines) and the texts of the example programs: formatting
  of what accessors return.
* The C wrapper: each function forwards to one operation that is modelled.
* The 64-bit class: the same templates with wider fields. Of the relocation
  types only those of the i386 that `get_entry` computes.
* Allocation failure, and moving an `elfio` object (`elfio.hpp:71-101`): after a
  move the sections keep pointers to the converter and the translator of the
  object they came from. No program of the repository moves one.
* `get_note` with an index that is not a note's: undefined, and no program asks.
* `tutorial.cpp` and `anonymizer.cpp`: they read, or overwrite names in place
  without an ELFIO operation.
* Register dump formatting, VCD output, the two counters that are printed at the
  end, sample program, build files.

The plan, in order:

1. *Sizes*: a run with wider words and an instruction memory smaller than the
   address space, and one with the other choice of the x values. The theorems
   cover both already; the runs would cover the refinement's contract.
2. *Layout*: `Covered` and `Valid` of roomy files, from an invariant that gives
   a segment's sizes by the position it has reached.
3. *Saving*: the two steps of `KeepsContent` that `StepsFollowStore` leaves (a
   crash or a full device, and loading from mapped memory), and that the edits of
   a program that creates its file keep it `Storable`.
4. *Tables*: the walks of `ElfTables`, with an invariant that gives each note
   and attribute its place, for the three properties of `TableFile`.
5. *The loader's assumption*: replace `ProgramAssumption` by what `LoadSegment`
   returns for the bytes of one segment.
