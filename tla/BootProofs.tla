------------------------------- MODULE BootProofs -------------------------------
(***************************************************************************)
(* Proofs about the loader of main.cpp.                                    *)
(***************************************************************************)
EXTENDS Boot, TLAPS

(* An address below the bound, and a part of at most three quarters of the *)
(* memory: the copy ends inside.  The division is by the number of words,  *)
(* the sum is of bytes.                                                    *)
LEMMA BoundSuffices ==
  ASSUME NEW address \in Nat, NEW size \in Nat,
         ~TooHigh(address), size <= MemoryEnd - Words + 1
  PROVE  address + size <= MemoryEnd
<1>1. Words \in Nat /\ Words > 0
  BY WordsAssumption
<1>2. address < Words
  BY <1>1 DEF TooHigh
<1>. QED
  BY <1>1, <1>2 DEF MemoryEnd, WordCells

(* While segments are copied the reader holds what load made of the file.  *)
CopyInv ==
  /\ file \in Files
  /\ seg_i \in Nat
  /\ stage = "copy" => reader = Loaded[file].elf /\ Loaded[file].ok
  /\ NeverOutside

(* One segment: nothing is written beyond the memory.                      *)
LEMMA CopyStaysInside ==
  ASSUME CopyInv, CopySegment, Fits(file)
  PROVE  stage' # "outside"
<1>. SUFFICES ASSUME Segment.has PROVE stage' = "copy"
  BY DEF CopySegment
<1>. DEFINE i == seg_i + 1
<1>1. /\ reader = Loaded[file].elf /\ Loaded[file].ok
      /\ i \in 1 .. Len(reader.segs) /\ Segment = reader.segs[i]
  BY DEF CopyInv, CopySegment, Segment
<1>2. IsLoaded(Segment)
  BY DEF CopySegment, IsLoaded
<1>3. /\ Segment.filesz = Len(Segment.data)
      /\ \E p \in file.parts : p.addr = Segment.vaddr /\ p.cells = Segment.data
  BY <1>1, <1>2, ProgramAssumption DEF CopyInv, HoldsProgram
<1>4. PICK p \in file.parts : p.addr = Segment.vaddr /\ p.cells = Segment.data
  BY <1>3
<1>5. /\ Segment.vaddr \in Nat /\ Segment.filesz \in Nat
      /\ Segment.filesz <= MemoryEnd - Words + 1
  BY <1>3, <1>4, ProgramAssumption DEF CopyInv, HoldsProgram, Fits
<1>6. Segment.vaddr + Segment.filesz <= MemoryEnd
  BY <1>5, BoundSuffices DEF CopySegment
<1>. QED
  BY <1>5, <1>6, WordsAssumption DEF CopySegment, MemoryEnd, WordCells

(* The check of the loader, made in the wrong unit and on one end only, is *)
(* enough for every size of the memory and every file whose parts fit      *)
(* (main.cpp:82-91).                                                       *)
THEOREM CheckSuffices == BSpec => []NeverOutside
<1>1. BInit => CopyInv
  BY DEF BInit, CopyInv, NeverOutside
<1>2. ASSUME CopyInv, [BNext]_bvars
      PROVE  CopyInv'
  <2>1. CASE Start
    BY <1>2, <2>1 DEF CopyInv, Start, NeverOutside, Fits
  <2>2. CASE ReadELFFile
    BY <1>2, <2>2 DEF CopyInv, ReadELFFile, NeverOutside, Fits
  <2>3. CASE SkipSegment \/ RefuseSegment
    BY <1>2, <2>3 DEF CopyInv, SkipSegment, RefuseSegment, Next1, NeverOutside, Fits
  <2>4. CASE CopySegment
    <3>1. Fits(file) => stage' # "outside"
      BY <1>2, <2>4, CopyStaysInside
    <3>. QED
      BY <1>2, <2>4, <3>1 DEF CopyInv, CopySegment, Next1, NeverOutside, Fits
  <2>5. CASE InitPC
    BY <1>2, <2>5 DEF CopyInv, InitPC, NeverOutside, Fits
  <2>6. CASE UNCHANGED bvars
    BY <1>2, <2>6 DEF CopyInv, bvars, NeverOutside, Fits
  <2>. QED
    BY <1>2, <2>1, <2>2, <2>3, <2>4, <2>5, <2>6 DEF BNext, Stopped
<1>3. CopyInv => NeverOutside
  BY DEF CopyInv
<1>. QED
  BY <1>1, <1>2, <1>3, PTL DEF BSpec
-------------------------------------------------------------------------------
(* What instruction memory holds at an address.                            *)
Cell(a) == imem[a \div WordCells][a % WordCells]

Addresses == 0 .. (MemoryEnd - 1)

(* What segment seg puts at an address.                                    *)
Puts(seg, a) ==
  IsLoaded(seg) /\ a \in seg.vaddr .. (seg.vaddr + Len(seg.data) - 1)

CellOfSegment(seg, a) == seg.data[a - seg.vaddr + 1]

(* The first n segments are in memory, and nothing else is.                *)
Holding(segs, n) ==
  \A a \in Addresses :
    /\ \A i \in 1 .. n : Puts(segs[i], a) => Cell(a) = CellOfSegment(segs[i], a)
    /\ (\A i \in 1 .. n : ~Puts(segs[i], a)) => Cell(a) = 0

MemoryType == imem \in [0 .. (Words - 1) -> [0 .. (WordCells - 1) -> Digit]]

(* Where the loader is, what it has copied is in memory.                   *)
ImageInv ==
  /\ file \in Files
  /\ stage \in {"start", "read"} => MemoryType /\ Holding(<< >>, 0) /\ seg_i = 0
  /\ stage \in {"copy", "running"} =>
       /\ MemoryType
       /\ reader = Loaded[file].elf /\ Loaded[file].ok /\ seg_i \in Nat
       /\ \A i \in 1 .. seg_i : IsLoaded(reader.segs[i]) => reader.segs[i].has
       /\ Holding(reader.segs, seg_i)
  /\ stage = "running" => seg_i = Len(reader.segs) /\ pc = reader.hdr.entry

(* An address is a word and a place in it.                                 *)
LEMMA AddressParts ==
  ASSUME NEW a \in Addresses
  PROVE  /\ a \div WordCells \in 0 .. (Words - 1) /\ a % WordCells \in 0 .. (WordCells - 1)
         /\ a = (a \div WordCells) * WordCells + (a % WordCells)
         /\ (a \div WordCells) % Words = a \div WordCells
<1>. DEFINE w == a \div WordCells
            b == a % WordCells
<1>1. w \in 0 .. (Words - 1) /\ b \in 0 .. (WordCells - 1) /\ a = w * WordCells + b
  BY WordsAssumption DEF Addresses, MemoryEnd, WordCells
<1>. HIDE DEF w
<1>2. w % Words = w
  BY <1>1, WordsAssumption
<1>. QED
  BY <1>1, <1>2 DEF w

(* One std::copy changes what its segment puts, and nothing else.          *)
LEMMA CopiedCell ==
  ASSUME MemoryType, NEW cells \in Seq(Digit), NEW address \in Nat,
         imem' = Copied(imem, cells, address)
  PROVE  /\ MemoryType'
         /\ \A a \in Addresses :
              Cell(a)' = IF a \in address .. (address + Len(cells) - 1)
                         THEN cells[a - address + 1] ELSE Cell(a)
<1>1. ASSUME NEW w \in 0 .. (Words - 1), NEW b \in 0 .. (WordCells - 1)
      PROVE  imem'[w][b] = LET at == w * WordCells + b
                           IN  IF at \in address .. (address + Len(cells) - 1)
                               THEN cells[at - address + 1] ELSE imem[w][b]
  BY DEF MemoryType, Copied
<1>2. ASSUME NEW at \in Nat, at \in address .. (address + Len(cells) - 1)
      PROVE  cells[at - address + 1] \in Digit
  <2>1. at - address + 1 \in 1 .. Len(cells)
    BY <1>2
  <2>. QED
    BY <2>1
<1>3. MemoryType'
  <2>1. ASSUME NEW w \in 0 .. (Words - 1), NEW b \in 0 .. (WordCells - 1)
        PROVE  imem'[w][b] \in Digit
    <3>1. w * WordCells + b \in Nat
      BY WordsAssumption DEF WordCells
    <3>2. imem[w][b] \in Digit
      BY DEF MemoryType
    <3>. QED
      BY <1>1, <1>2, <3>1, <3>2
  <2>2. /\ DOMAIN imem' = 0 .. (Words - 1)
        /\ imem' = [w \in 0 .. (Words - 1) |-> imem'[w]]
        /\ \A w \in 0 .. (Words - 1) :
             imem'[w] = [b \in 0 .. (WordCells - 1) |-> imem'[w][b]]
    BY DEF MemoryType, Copied
  <2>. QED
    BY <2>1, <2>2 DEF MemoryType
<1>4. ASSUME NEW a \in Addresses
      PROVE  Cell(a)' = IF a \in address .. (address + Len(cells) - 1)
                        THEN cells[a - address + 1] ELSE Cell(a)
  <2>. DEFINE w == a \div WordCells
              b == a % WordCells
  <2>1. w \in 0 .. (Words - 1) /\ b \in 0 .. (WordCells - 1) /\ a = w * WordCells + b
    BY AddressParts
  <2>2. Cell(a) = imem[w][b] /\ Cell(a)' = imem'[w][b]
    BY DEF Cell
  <2>. HIDE DEF w, b
  <2>. QED
    BY <1>1, <2>1, <2>2
<1>. QED
  BY <1>3, <1>4

(* Two segments that put something at an address put the same.             *)
LEMMA SegmentsAgree ==
  ASSUME NEW f \in Files, Loaded[f].ok, NEW segs, segs = Loaded[f].elf.segs,
         NEW i \in 1 .. Len(segs), NEW j \in 1 .. Len(segs), NEW a \in Addresses,
         segs[i].has, segs[j].has, Puts(segs[i], a), Puts(segs[j], a)
  PROVE  CellOfSegment(segs[i], a) = CellOfSegment(segs[j], a)
<1>1. PICK p \in f.parts : p.addr = segs[i].vaddr /\ p.cells = segs[i].data
  BY ProgramAssumption DEF HoldsProgram, Puts
<1>2. PICK q \in f.parts : q.addr = segs[j].vaddr /\ q.cells = segs[j].data
  BY ProgramAssumption DEF HoldsProgram, Puts
<1>3. p.addr \in Nat /\ q.addr \in Nat /\ Len(p.cells) \in Nat /\ Len(q.cells) \in Nat
  BY ProgramAssumption DEF HoldsProgram
<1>4. \/ p = q
      \/ p.addr + Len(p.cells) <= q.addr
      \/ q.addr + Len(q.cells) <= p.addr
  BY ProgramAssumption DEF HoldsProgram
<1>5. /\ a \in p.addr .. (p.addr + Len(p.cells) - 1)
      /\ a \in q.addr .. (q.addr + Len(q.cells) - 1)
  BY <1>1, <1>2 DEF Puts
<1>6. p = q
  BY <1>3, <1>4, <1>5, SMTT(30) DEF Addresses
<1>. QED
  BY <1>1, <1>2, <1>6 DEF CellOfSegment
(* Copying the next segment keeps what the others have put.                *)
LEMMA CopyHolds ==
  ASSUME NEW f \in Files, Loaded[f].ok, NEW segs, segs = Loaded[f].elf.segs,
         NEW n \in Nat, n + 1 \in 1 .. Len(segs),
         MemoryType, Holding(segs, n),
         \A i \in 1 .. (n + 1) : IsLoaded(segs[i]) => segs[i].has,
         IsLoaded(segs[n + 1]),
         imem' = Copied(imem, segs[n + 1].data, segs[n + 1].vaddr)
  PROVE  MemoryType' /\ Holding(segs, n + 1)'
<1>. DEFINE new == segs[n + 1]
<1>1. n + 1 \in 1 .. (n + 1) /\ new.has /\ IsLoaded(new)
  OBVIOUS
<1>2. new.data \in Seq(Digit) /\ new.vaddr \in Nat
  <2>1. PICK p \in f.parts : p.addr = new.vaddr /\ p.cells = new.data
    BY <1>1, ProgramAssumption DEF HoldsProgram
  <2>. QED
    BY <2>1, ProgramAssumption DEF HoldsProgram
<1>3. /\ MemoryType'
      /\ \A a \in Addresses : Cell(a)' = IF Puts(new, a) THEN CellOfSegment(new, a) ELSE Cell(a)
  <2>1. imem' = Copied(imem, new.data, new.vaddr)
    OBVIOUS
  <2>. HIDE DEF new
  <2>. QED
    BY <1>1, <1>2, <2>1, CopiedCell DEF Puts, CellOfSegment
<1>4. ASSUME NEW a \in Addresses, NEW i \in 1 .. (n + 1), Puts(segs[i], a)
      PROVE  Cell(a)' = CellOfSegment(segs[i], a)
  <2>1. CASE Puts(new, a)
    <3>1. i \in 1 .. Len(segs) /\ segs[i].has
      BY <1>4 DEF Puts
    <3>2. CellOfSegment(segs[i], a) = CellOfSegment(new, a)
      BY <1>1, <1>4, <2>1, <3>1, SegmentsAgree
    <3>. QED
      BY <1>3, <2>1, <3>2
  <2>2. CASE ~Puts(new, a)
    <3>1. i \in 1 .. n
      BY <1>4, <2>2
    <3>. QED
      BY <1>3, <1>4, <2>2, <3>1 DEF Holding
  <2>. QED
    BY <2>1, <2>2
<1>5. ASSUME NEW a \in Addresses, \A i \in 1 .. (n + 1) : ~Puts(segs[i], a)
      PROVE  Cell(a)' = 0
  <2>1. ~Puts(new, a) /\ \A i \in 1 .. n : ~Puts(segs[i], a)
    BY <1>1, <1>5
  <2>. QED
    BY <1>3, <2>1 DEF Holding
<1>. QED
  BY <1>3, <1>4, <1>5 DEF Holding

(* A segment that is not loaded, or is empty, puts nothing anywhere.       *)
LEMMA SkipHolds ==
  ASSUME NEW segs, NEW n \in Nat, Holding(segs, n), ~IsLoaded(segs[n + 1]), imem' = imem
  PROVE  Holding(segs, n + 1)'
<1>1. \A a \in Addresses : Cell(a)' = Cell(a)
  BY DEF Cell
<1>2. \A a : ~Puts(segs[n + 1], a)
  BY DEF Puts
<1>3. \A i \in 1 .. (n + 1) : i \in 1 .. n \/ i = n + 1
  OBVIOUS
<1>4. \A i \in 1 .. n : i \in 1 .. (n + 1)
  OBVIOUS
<1>. QED
  BY <1>1, <1>2, <1>3, <1>4 DEF Holding

(* All segments copied: the memory is the image of the program.            *)
LEMMA AllCopied ==
  ASSUME ImageInv, stage = "running"
  PROVE  MemoryIsImage
<1>. DEFINE segs == reader.segs
<1>1. /\ segs = Loaded[file].elf.segs /\ Loaded[file].ok /\ pc = file.entry
      /\ \A i \in 1 .. Len(segs) : IsLoaded(segs[i]) => segs[i].has
      /\ Holding(segs, Len(segs))
  BY ProgramAssumption DEF ImageInv, HoldsProgram
<1>2. ASSUME NEW a \in Addresses
      PROVE  Fetch(a)[a % WordCells] = Cell(a)
  BY AddressParts DEF Fetch, Cell
<1>3. ASSUME NEW a \in Addresses, NEW p \in file.parts,
             a \in p.addr .. (p.addr + Len(p.cells) - 1)
      PROVE  Cell(a) = p.cells[a - p.addr + 1]
  <2>1. p.addr \in Nat /\ p.cells \in Seq(Digit) /\ file \in Files
    BY ProgramAssumption DEF HoldsProgram, ImageInv
  <2>2. p.cells # << >>
    BY <1>3, <2>1 DEF Addresses
  <2>3. PICK i \in 1 .. Len(segs) :
          /\ IsLoaded(segs[i]) /\ segs[i].vaddr = p.addr
          /\ segs[i].has => segs[i].data = p.cells
    BY <1>1, <2>1, <2>2, ProgramAssumption DEF HoldsProgram
  <2>4. segs[i].has
    BY <1>1, <2>3
  <2>5. Puts(segs[i], a)
    BY <1>3, <2>3, <2>4 DEF Puts
  <2>6. Cell(a) = CellOfSegment(segs[i], a)
    BY <1>1, <2>5 DEF Holding
  <2>. QED
    BY <2>3, <2>4, <2>6 DEF CellOfSegment
<1>4. ASSUME NEW a \in Addresses,
             \A p \in file.parts : a \notin p.addr .. (p.addr + Len(p.cells) - 1)
      PROVE  Cell(a) = 0
  <2>1. ASSUME NEW i \in 1 .. Len(segs)
        PROVE  ~Puts(segs[i], a)
    <3>. SUFFICES ASSUME Puts(segs[i], a) PROVE FALSE
      OBVIOUS
    <3>1. IsLoaded(segs[i]) /\ segs[i].has
      BY <1>1 DEF Puts
    <3>2. PICK p \in file.parts : p.addr = segs[i].vaddr /\ p.cells = segs[i].data
      BY <1>1, <3>1, ProgramAssumption, SMTT(30) DEF HoldsProgram, ImageInv
    <3>. QED
      BY <1>4, <3>2 DEF Puts
  <2>. QED
    BY <1>1, <2>1 DEF Holding
<1>. QED
  BY <1>1, <1>2, <1>3, <1>4 DEF MemoryIsImage, Addresses
(* Before anything is copied memory is all zero.                           *)
LEMMA BootInit == BInit => ImageInv
<1>. SUFFICES ASSUME BInit PROVE ImageInv
  OBVIOUS
<1>1. MemoryType
  BY RadixAssumption, WordsAssumption DEF BInit, MemoryType, Digit
<1>2. Holding(<< >>, 0)
  BY AddressParts DEF Holding, Cell, BInit
<1>. QED
  BY <1>1, <1>2 DEF BInit, ImageInv

(* No step of the loader loses what is in memory or adds to it.            *)
LEMMA BootStep ==
  ASSUME ImageInv, [BNext]_bvars
  PROVE  ImageInv'
<1>. PICK f \in Files : f = file
  BY DEF ImageInv
<1>. DEFINE segs == Loaded[f].elf.segs
<1>1. CASE Start
  BY <1>1 DEF Start, ImageInv, MemoryType, Holding, Cell
<1>2. CASE ReadELFFile
  <2>1. Holding(segs, 0)' 
    BY <1>2 DEF ReadELFFile, ImageInv, Holding, Cell
  <2>. QED
    BY <1>2, <2>1 DEF ReadELFFile, ImageInv, MemoryType
<1>3. CASE SkipSegment \/ RefuseSegment \/ CopySegment
  <2>0. stage = "copy" /\ seg_i < Len(reader.segs) /\ Next1
    BY <1>3 DEF SkipSegment, RefuseSegment, CopySegment
  <2>1. PICK n \in Nat : n = seg_i
    BY <2>0 DEF ImageInv
  <2>2. /\ reader = Loaded[f].elf /\ reader.segs = segs /\ Loaded[f].ok
        /\ n + 1 \in 1 .. Len(segs) /\ n + 1 = seg_i' /\ Segment = segs[n + 1]
        /\ MemoryType /\ Holding(segs, n)
        /\ \A i \in 1 .. n : IsLoaded(segs[i]) => segs[i].has
    BY <2>0, <2>1 DEF ImageInv, Next1, Segment
  <2>3. CASE SkipSegment
    <3>1. ~IsLoaded(segs[n + 1])
      BY <2>2, <2>3 DEF SkipSegment, IsLoaded
    <3>2. Holding(segs, n + 1)' /\ MemoryType'
      BY <2>2, <2>3, <3>1, SkipHolds DEF SkipSegment, MemoryType
    <3>3. \A i \in 1 .. (n + 1) : IsLoaded(segs[i]) => segs[i].has
      BY <2>2, <3>1
    <3>. QED
      BY <2>0, <2>2, <2>3, <3>2, <3>3, SMTT(30) DEF ImageInv, SkipSegment, Next1
  <2>4. CASE RefuseSegment
    BY <2>4 DEF ImageInv, RefuseSegment, Next1, MemoryType
  <2>5. CASE CopySegment
    <3>1. IsLoaded(segs[n + 1]) /\ imem' = Copied(imem, segs[n + 1].data, segs[n + 1].vaddr)
      BY <2>2, <2>5 DEF CopySegment, IsLoaded
    <3>2. CASE segs[n + 1].has
      <4>1. \A i \in 1 .. (n + 1) : IsLoaded(segs[i]) => segs[i].has
        BY <2>2, <3>2
      <4>2. Holding(segs, n + 1)' /\ MemoryType'
        BY <2>2, <3>1, <4>1, CopyHolds
      <4>3. stage' \in {"copy", "outside"}
        BY <2>2, <2>5, <3>2 DEF CopySegment
      <4>. QED
        BY <2>0, <2>2, <4>1, <4>2, <4>3 DEF ImageInv, Next1
    <3>3. CASE ~segs[n + 1].has
      <4>1. stage' = "crashed"
        BY <2>2, <2>5, <3>3 DEF CopySegment
      <4>. QED
        BY <2>0, <2>5, <4>1 DEF ImageInv, Next1
    <3>. QED
      BY <3>2, <3>3
  <2>. QED
    BY <1>3, <2>3, <2>4, <2>5
<1>4. CASE InitPC
  <2>1. /\ stage = "copy" /\ stage' = "running" /\ seg_i' = seg_i
        /\ reader' = reader /\ imem' = imem /\ file' = file
        /\ seg_i = Len(reader.segs) /\ pc' = reader.hdr.entry
    BY <1>4 DEF InitPC
  <2>2. Holding(reader.segs, seg_i) => Holding(reader.segs, seg_i)'
    BY <2>1 DEF Holding, Cell
  <2>. QED
    BY <2>1, <2>2 DEF ImageInv, MemoryType
<1>5. CASE UNCHANGED bvars
  BY <1>5 DEF bvars, ImageInv, MemoryType, Holding, Cell
<1>. QED
  BY <1>1, <1>2, <1>3, <1>4, <1>5
  DEF BNext, SkipSegment, RefuseSegment, CopySegment, Stopped

(* When the processor starts, every part of the program is where it was    *)
(* linked to be, whatever the order and the number of its segments, all    *)
(* other memory is 0 and the first fetch is at the entry point, for every  *)
(* size of the memory (main.cpp:82-96).                                    *)
THEOREM MemoryBecomesImage == BSpec => []MemoryIsImage
<1>1. ImageInv => MemoryIsImage
  BY AllCopied DEF MemoryIsImage
<1>. QED
  BY <1>1, BootInit, BootStep, PTL DEF BSpec
==============================================================================
