--------------------------------- MODULE MCBoot ---------------------------------
(* Values of the constants of Boot: programs as the writer of this library *)
(* lays them out, one segment and one section for each block, a segment    *)
(* that is not loaded in front.                                            *)
EXTENDS Boot

Code == [vaddr |-> 8, n |-> 5, type |-> SHT_PROGBITS]
More == [vaddr |-> 14, n |-> 3, type |-> SHT_PROGBITS]
Bss  == [vaddr |-> 24, n |-> 4, type |-> SHT_NOBITS]
Big  == [vaddr |-> 31, n |-> 97, type |-> SHT_PROGBITS]
Huge == [vaddr |-> 31, n |-> 98, type |-> SHT_PROGBITS]
High == [vaddr |-> 40, n |-> 97, type |-> SHT_PROGBITS]

WithBlock(elf, b) ==
  LET e   == CreateSegment(AddSection(elf, <<2>>))
      i   == Len(e.secs)
      g   == Len(e.segs)
      sec == [e.secs[i] EXCEPT !.type = b.type, !.flags = SHF_ALLOC, !.align = 1]
  IN  [e EXCEPT
        !.secs[i] = IF b.type = SHT_NOBITS THEN [sec EXCEPT !.size = b.n]
                    ELSE SetData(sec, [c \in 1 .. b.n |-> (c % 9) + 1]),
        !.segs[g] = AddSectionIndex([@ EXCEPT !.type = PT_LOAD, !.vaddr = b.vaddr], i - 1, 1)]

Program(blocks, class, encoding) ==
  LET e == CreateSegment(Create(class, encoding))
      p == Loop(WithBlock, [e EXCEPT !.segs[1].type = PT_PHDR], blocks)
  IN  Layout([p EXCEPT !.hdr.entry = blocks[1].vaddr + 1]).elf

FileOf(elf, blocks) ==
  LET w == SaveWrites(elf)
  IN  [bytes |-> Written(w, Len(w), NoLimit).bytes, whole |-> TRUE,
       entry |-> blocks[1].vaddr + 1,
       parts |-> {[addr |-> elf.secs[i].addr, cells |-> elf.secs[i].data] :
                    i \in {j \in 3 .. Len(elf.secs) : elf.secs[j].type = SHT_PROGBITS}}]

CutOff(f, n) == [f EXCEPT !.bytes = SubSeq(@, 1, n), !.whole = FALSE]

(* The table of sections is no longer counted, as in a stripped file.      *)
Stripped(elf) == [elf EXCEPT !.hdr.shnum = 0, !.hdr.shstrndx = 0]

Blocks == {<<Code>>, <<Code, More>>, <<More, Code>>, <<Code, Bss>>, <<Bss, Code>>,
           <<Big>>, <<Huge>>, <<High>>, <<Code, High>>, <<Bss, More, Code>>}

Wholes == {FileOf(Program(b, CLASS32, LSB), b) : b \in Blocks}

Others == {[FileOf(Program(<<Code>>, c, e), <<Code>>) EXCEPT !.whole = FALSE] :
             c \in {CLASS32, CLASS64}, e \in {LSB, MSB}} \ Wholes

Cuts ==
  UNION {LET e == Program(b, CLASS32, LSB)
         IN  {CutOff(FileOf(e, b), n) : n \in 0 .. (Len(FileOf(e, b).bytes) - 1)}
             \cup {CutOff(FileOf(Stripped(e), b), n) : n \in 0 .. (Len(FileOf(e, b).bytes) - 1)} :
         b \in {<<Code, More>>, <<Big>>}}

MCFiles == Wholes \cup Others \cup Cuts
==============================================================================
