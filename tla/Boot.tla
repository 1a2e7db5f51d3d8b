---------------------------------- MODULE Boot ----------------------------------
(***************************************************************************)
(* main.cpp up to its clock loop: the arguments, the ELF file, the copy of *)
(* its segments into instruction memory, and the entry point.  What a boot *)
(* leaves is what Simulator calls Programs and Entries.                    *)
(*                                                                         *)
(* A word of memory is four cells of the file, the lowest address first:   *)
(* the copy goes through a byte pointer on a little-endian host.           *)
(***************************************************************************)
EXTENDS ElfLayout

CONSTANTS Words,       \* 2^17 words of instruction memory
          Commands,    \* numbers of arguments, the name of the program included
          Files        \* what the first argument may name: [bytes, whole, parts,
                       \*   entry], the file and the program it was made for

ASSUME WordsAssumption == Words \in Nat \ {0}

VARIABLES stage,       \* where main() is, or how it ended
          file,        \* the file it was called with
          reader,      \* m_reader
          seg_i,       \* number of segments looked at
          imem,        \* MemoryInstruction.mem_buff
          pc           \* PCCounter.pc

bvars == <<stage, file, reader, seg_i, imem, pc>>

WordCells == 4
MemoryEnd == WordCells * Words

Ended == {"arguments", "thrown", "crashed", "outside", "running"}

BInit ==
  /\ stage = "start" /\ file \in Files
  /\ reader = NewElfio /\ seg_i = 0 /\ pc = 0
  /\ imem = [w \in 0 .. (Words - 1) |-> [b \in 0 .. (WordCells - 1) |-> 0]]

-----------------------------------------------------------------------------
(* check_arguments: the trace is asked for by a second argument.           *)
CheckArguments(argc) == IF argc < 2 \/ argc > 3 THEN 0 ELSE argc - 1

Start ==
  /\ stage = "start"
  /\ \E argc \in Commands :
       stage' = IF CheckArguments(argc) = 0 THEN "arguments" ELSE "read"
  /\ UNCHANGED <<file, reader, seg_i, imem, pc>>

(* readELFFile, into m_reader, which is new.                               *)
Loaded == [f \in Files |-> Load(NewElfio, f.bytes, << >>)]

ReadELFFile ==
  /\ stage = "read"
  /\ LET r == Loaded[file]
     IN  /\ reader' = r.elf
         /\ stage' = IF r.ok /\ r.elf.hdr.class = CLASS32 /\ r.elf.hdr.data = LSB
                     THEN "copy" ELSE "thrown"
  /\ UNCHANGED <<file, seg_i, imem, pc>>

Segment == reader.segs[seg_i + 1]

(* address >> 17: the address is in cells, the bound in words.             *)
\* Mutant: the bound is the size of the memory.
BeyondMemory(address) == address \div MemoryEnd # 0

\* Mutant: a shift by one bit less.
BeyondHalf(address) == address \div (Words \div 2) # 0

TooHigh(address) == address \div Words # 0

(* std::copy to dst + address.                                             *)
\* Mutant: the destination is counted in words.
CopiedByWords(memory, cells, address) ==
  [w \in DOMAIN memory |->
    [b \in DOMAIN memory[w] |->
      LET at == w * WordCells + b
          to == (address \div WordCells) * WordCells
      IN  IF at \in to .. (to + Len(cells) - 1) THEN cells[at - to + 1]
          ELSE memory[w][b]]]

Copied(memory, cells, address) ==
  [w \in DOMAIN memory |->
    [b \in DOMAIN memory[w] |->
      LET at == w * WordCells + b
      IN  IF at \in address .. (address + Len(cells) - 1) THEN cells[at - address + 1]
          ELSE memory[w][b]]]

Next1 == seg_i' = seg_i + 1 /\ UNCHANGED <<file, reader, pc>>

SkipSegment ==
  /\ stage = "copy" /\ seg_i < Len(reader.segs)
  /\ \/ Segment.type # PT_LOAD
     \/ ~TooHigh(Segment.vaddr) /\ Segment.filesz = 0
  /\ Next1 /\ UNCHANGED <<stage, imem>>

RefuseSegment ==
  /\ stage = "copy" /\ seg_i < Len(reader.segs)
  /\ Segment.type = PT_LOAD /\ TooHigh(Segment.vaddr)
  /\ stage' = "thrown" /\ Next1 /\ UNCHANGED imem

(* A segment that is larger than the file has no data: the copy reads from *)
(* a null pointer.  A copy beyond the memory is not defined, either.       *)
CopySegment ==
  /\ stage = "copy" /\ seg_i < Len(reader.segs)
  /\ Segment.type = PT_LOAD /\ ~TooHigh(Segment.vaddr) /\ Segment.filesz # 0
  /\ stage' = CASE ~Segment.has -> "crashed"
                [] Segment.has /\ Segment.vaddr + Segment.filesz > MemoryEnd -> "outside"
                [] OTHER -> "copy"
  /\ imem' = Copied(imem, Segment.data, Segment.vaddr)
  /\ Next1

InitPC ==
  /\ stage = "copy" /\ seg_i = Len(reader.segs)
  /\ pc' = reader.hdr.entry
  /\ stage' = "running"
  /\ UNCHANGED <<file, reader, seg_i, imem>>

Stopped == stage \in Ended /\ UNCHANGED bvars

BNext ==
  Start \/ ReadELFFile \/ SkipSegment \/ RefuseSegment \/ CopySegment \/ InitPC \/ Stopped

BSpec == BInit /\ [][BNext]_bvars /\ WF_bvars(Start \/ ReadELFFile \/ SkipSegment
                                               \/ RefuseSegment \/ CopySegment \/ InitPC)

-----------------------------------------------------------------------------
(* MemoryInstruction.v: the word an instruction fetch at address a reads.  *)
Fetch(a) == imem[(a \div WordCells) % Words]

(* When the processor starts, every part of the program is where it was    *)
(* linked to be, all that the program leaves free is 0, and the first      *)
(* fetch is at its entry point; a file that was cut off never gets there.  *)
MemoryIsImage ==
  stage = "running" =>
    /\ pc = file.entry
    /\ \A a \in 0 .. (MemoryEnd - 1) :
         LET holders == {p \in file.parts : a \in p.addr .. (p.addr + Len(p.cells) - 1)}
         IN  Fetch(a)[a % WordCells] = IF holders = {} THEN 0
                                       ELSE LET p == CHOOSE h \in holders : TRUE
                                            IN  p.cells[a - p.addr + 1]

(* The file is one of its program: the reader finds its entry point, every *)
(* loaded segment that has its data is a part of the program, every part   *)
(* has its segment, and the parts lie apart.                               *)
IsLoaded(seg) == seg.type = PT_LOAD /\ seg.filesz # 0

HoldsProgram(f) ==
  LET elf == Loaded[f].elf
  IN  /\ \A p \in f.parts : p.addr \in Nat /\ p.cells \in Seq(Digit)
      /\ \A p, q \in f.parts :
           p = q \/ p.addr + Len(p.cells) <= q.addr \/ q.addr + Len(q.cells) <= p.addr
      /\ Loaded[f].ok =>
           /\ elf.hdr.entry = f.entry
           /\ \A i \in 1 .. Len(elf.segs) : IsLoaded(elf.segs[i]) /\ elf.segs[i].has =>
                /\ elf.segs[i].filesz = Len(elf.segs[i].data)
                /\ \E p \in f.parts : p.addr = elf.segs[i].vaddr /\ p.cells = elf.segs[i].data
           /\ \A p \in f.parts : p.cells # << >> =>
                \E i \in 1 .. Len(elf.segs) :
                  /\ IsLoaded(elf.segs[i]) /\ elf.segs[i].vaddr = p.addr
                  /\ elf.segs[i].has => elf.segs[i].data = p.cells

ASSUME ProgramAssumption == \A f \in Files : HoldsProgram(f)

(* No part of the program is larger than three quarters of the memory.     *)
Fits(f) == \A p \in f.parts : Len(p.cells) <= MemoryEnd - Words + 1

(* The check of a segment is made in words for an address in bytes, and    *)
(* looks at its start only; what passes it fits into the memory, all the   *)
(* same, if no part of the program is too large (main.cpp:82-91).          *)
NeverOutside == Fits(file) => stage # "outside"

(* A whole file of a program that fits and starts every segment below the  *)
(* bound is loaded and run, whatever the order of its segments.            *)
Loadable(f) == f.whole /\ Fits(f) /\ \A p \in f.parts : p.addr < Words

LoadableRuns == (stage = "read" /\ Loadable(file)) ~> (stage = "running")

==============================================================================
