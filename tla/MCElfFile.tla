------------------------------- MODULE MCElfFile -------------------------------
(* Values of the constants of ElfFile.                                     *)
EXTENDS ElfFile

Text == [label |-> <<2>>, type |-> SHT_PROGBITS, flags |-> SHF_ALLOC, align |-> 4]
Bss  == [label |-> <<3>>, type |-> SHT_NOBITS, flags |-> SHF_ALLOC, align |-> 2]
Note == [label |-> <<2>>, type |-> SHT_NOTE, flags |-> 0, align |-> 1]

Load1 == [type |-> PT_LOAD, vaddr |-> 68, align |-> 8]
Inner == [type |-> PT_TLS, vaddr |-> 100, align |-> 4]

MCKinds  == {Text, Bss, Note}
MCRanges == {Load1}
NewFiles == {<< >>}

(* A program as a linker writes it: the table of segments has a segment of *)
(* its own, and the loaded segment starts with the headers of the file.    *)
LinkedElf ==
  LET e    == AddSection(Create(CLASS32, LSB), <<2>>)
      text == [e.secs[3] EXCEPT !.type = SHT_PROGBITS, !.flags = SHF_ALLOC, !.align = 4,
                                !.addr = 100, !.offset = 36, !.size = 3,
                                !.data = <<9, 9, 9>>, !.has = TRUE]
      phdr == [NewSegment EXCEPT !.type = PT_PHDR, !.offset = 16, !.vaddr = 80,
                                 !.filesz = 16, !.memsz = 16, !.align = 4]
      load == [NewSegment EXCEPT !.index = 1, !.type = PT_LOAD, !.vaddr = 64,
                                 !.filesz = 39, !.memsz = 40, !.align = 16]
  IN  [hdr  |-> [e.hdr EXCEPT !.phoff = 16, !.phnum = 2, !.shoff = 44, !.shnum = 3],
       secs |-> <<e.secs[1], [e.secs[2] EXCEPT !.offset = 39], text>>,
       segs |-> <<phdr, load>>]

LinkedFile == Written(SaveWrites(LinkedElf), Len(SaveWrites(LinkedElf)), NoLimit).bytes

(* A file whose relocations lie over its code.                             *)
OverlappingElf ==
  LET e == AddSection(LinkedElf, <<3>>)
      r == [e.secs[4] EXCEPT !.type = SHT_REL, !.offset = 38, !.size = 2,
                             !.data = <<9, 9>>, !.has = TRUE]
  IN  [e EXCEPT !.secs[4] = r, !.segs = << >>, !.hdr.phnum = 0, !.hdr.phoff = 0,
                !.hdr.shnum = 4, !.secs[2].offset = 40, !.hdr.shoff = 48]

OverlappingFiles ==
  {Written(SaveWrites(OverlappingElf), Len(SaveWrites(OverlappingElf)), NoLimit).bytes}

LinkedFiles  == {LinkedFile}
LinkedKinds  == {Text, Bss}
LinkedRanges == {Load1, Inner}

==============================================================================
