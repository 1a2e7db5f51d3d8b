-------------------------------- MODULE ElfIO --------------------------------
(***************************************************************************)
(* elfio.hpp and elfio_header.hpp: an elfio object, how a program builds   *)
(* one, how one is loaded from a stream and what validate() reports.       *)
(*                                                                         *)
(* An object is [hdr, secs, segs].  Section number i (from 0, as in the    *)
(* source) is secs[i + 1].                                                 *)
(***************************************************************************)
EXTENDS ElfSection, ElfSegment

Sec(elf, i) == elf.secs[i + 1]

Replace(elf, i, sec) == [elf EXCEPT !.secs[i + 1] = sec]

ReplaceSegment(elf, g, seg) == [elf EXCEPT !.segs[g] = seg]

CreateHeader(class, encoding) ==
  [[f \in ToSet(EhdrFields) |-> 0] EXCEPT
    !.magic = MAGIC, !.class = class, !.data = encoding, !.version = 1,
    !.ehsize = EhdrSize, !.shstrndx = 1,
    !.phentsize = PhdrSize, !.shentsize = ShdrSize]

CreateSection(elf) ==
  [elf EXCEPT !.secs = Append(@, [NewSection EXCEPT !.index = Len(elf.secs)])]

CreateSegment(elf) ==
  [elf EXCEPT !.segs = Append(@, [NewSegment EXCEPT !.index = Len(elf.segs)])]

(* Sections::add: the name also goes to the table of section names.        *)
AddSection(elf, name) ==
  LET e     == CreateSection(elf)
      new   == Len(elf.secs)
      table == e.hdr.shstrndx
      named == Replace(e, new, [Sec(e, new) EXCEPT !.label = name,
                                                   !.name  = NextString(Sec(e, table))])
  IN  Replace(named, table, AddString(Sec(named, table), name))

SHSTRTAB == <<1>>    \* ".shstrtab"

CreateMandatorySections(elf) ==
  LET e == AddSection(CreateSection(elf), SHSTRTAB)
  IN  Replace(e, 1, [Sec(e, 1) EXCEPT !.type = SHT_STRTAB, !.align = 1])

Create(class, encoding) ==
  CreateMandatorySections(
    [hdr |-> CreateHeader(class, encoding), secs |-> << >>, segs |-> << >>])

(* elfio()                                                                 *)
NewElfio == Create(CLASS32, LSB)

(* Sections::operator[]( name ): the first that has the name.              *)
NoSection == [none |-> TRUE]

FindSection(elf, name) ==
  LET hits == {i \in 1 .. Len(elf.secs) : elf.secs[i].label = name}
  IN  IF hits = {} THEN NoSection
      ELSE elf.secs[CHOOSE i \in hits : \A j \in hits : i <= j]

(* get_default_entry_size                                                  *)
SymSize == 6
RelSize == 2
RelaSize == 3
DynSize == 2

GetDefaultEntrySize(type) ==
  CASE type = SHT_RELA    -> RelaSize
    [] type = SHT_REL     -> RelSize
    [] type = SHT_SYMTAB  -> SymSize
    [] type = SHT_DYNAMIC -> DynSize
    [] OTHER              -> 0

-----------------------------------------------------------------------------
(***************************************************************************)
(* load.  A section that cannot be read does not stop it; a segment does.  *)
(* Each operator returns the object, the stream and the result so far.     *)
(***************************************************************************)
NameSections(secs, shstrndx) ==
  LET named(sec) ==
        LET str == GetString(secs[shstrndx + 1], sec.name)
        IN  IF str = NoString THEN sec ELSE [sec EXCEPT !.label = str]
  IN  IF shstrndx = 0 \/ shstrndx >= Len(secs) THEN secs
      ELSE Loop(LAMBDA done, sec : Append(done, named(sec)), << >>, secs)

SectionsRead(elf, read) ==
  [elf |-> [elf EXCEPT !.secs = NameSections(read.secs, elf.hdr.shstrndx)],
   st  |-> read.st, ok |-> TRUE]

\* Mutant: a loaded section does not know that it has an address.
AddWithoutAddress(read, r) ==
  [secs |-> Append(read.secs, [r.sec EXCEPT !.index = Len(read.secs)]), st |-> r.st]

(* A section that was loaded keeps its address.                            *)
AddLoaded(read, r) ==
  [secs |-> Append(read.secs, SetAddress([r.sec EXCEPT !.index = Len(read.secs)],
                                         r.sec.addr)),
   st   |-> r.st]

LoadSections(elf, st, tr) ==
  LET hdr == elf.hdr
      next(read, i) ==
        AddLoaded(read, LoadSection(read.st, hdr.shoff + i * hdr.shentsize, tr, hdr.data))
  IN  IF hdr.shnum # 0 /\ hdr.shentsize < ShdrSize
      THEN [elf |-> elf, st |-> st, ok |-> FALSE]
      ELSE SectionsRead(elf, Loop(next, [secs |-> << >>, st |-> st],
                                  [i \in 1 .. hdr.shnum |-> i - 1]))

IsSectInSeg(begin, size, segBegin, segEnd) ==
  segBegin <= begin /\ begin + size <= segEnd /\ begin < segEnd

(* The sections of a segment just read: those in memory by their address,  *)
(* the others by their place in the file.                                  *)
SectionsOf(elf, seg) ==
  LET inside(s) ==
        IF HasFlag(s.flags, SHF_ALLOC)
        THEN IsSectInSeg(s.addr, s.size, seg.vaddr, seg.vaddr + seg.memsz)
        ELSE IsSectInSeg(s.offset, s.size, seg.offset, seg.offset + seg.filesz)
      add(list, s) == IF inside(s) THEN Append(list, s.index) ELSE list
  IN  Loop(add, << >>, elf.secs)

AddSegment(acc, r) ==
  IF ~r.ok \/ r.st.fail THEN [acc EXCEPT !.st = r.st, !.ok = FALSE]
  ELSE [acc EXCEPT
         !.elf.segs = Append(@, [r.seg EXCEPT !.index = Len(acc.elf.segs),
                                              !.secs  = SectionsOf(acc.elf, r.seg)]),
         !.st       = r.st]

(* s: the object, the stream and the result after the sections.            *)
LoadSegments(s, tr) ==
  LET hdr == s.elf.hdr
      next(acc, i) ==
        IF ~acc.ok THEN acc
        ELSE AddSegment(acc, LoadSegment(acc.st, hdr.phoff + i * hdr.phentsize, tr, hdr.data))
  IN  IF ~s.ok THEN s
      ELSE IF hdr.phnum # 0 /\ hdr.phentsize < PhdrSize THEN [s EXCEPT !.ok = FALSE]
      ELSE Loop(next, s, [i \in 1 .. hdr.phnum |-> i - 1])

IsElf(ident) ==
  /\ Len(ident) = 3
  /\ ident[1] = MAGIC /\ ident[2] \in {CLASS32, CLASS64} /\ ident[3] \in {LSB, MSB}

(* The identification, the whole header, the sections, the segments.       *)
LoadParts(elf, st, ident, cells, tr) ==
  IF ~IsElf(ident) THEN [elf |-> elf, st |-> st, ok |-> FALSE]
  ELSE IF Len(cells) < EhdrSize
  THEN [elf |-> [elf EXCEPT !.hdr = CreateHeader(ident[2], ident[3])], st |-> st, ok |-> FALSE]
  ELSE LoadSegments(
         LoadSections([elf EXCEPT !.hdr = Unpack(EhdrCells, cells, ident[3])], st, tr), tr)

(* load( stream ).  What was loaded before a failure stays in the object.  *)
Load(elf, bytes, tr) ==
  LET st == InStream(bytes)
      at == Translate(tr, 0)
  IN  LoadParts([elf EXCEPT !.secs = << >>, !.segs = << >>], st,
                ReadAt(st, at, 3), ReadAt(st, at, EhdrSize), tr)

-----------------------------------------------------------------------------
(***************************************************************************)
(* validate(): the pairs of sections it calls overlapping and the segments *)
(* whose address disagrees with that of the section at their offset.  The  *)
(* type is tested with a mask: every type with the bit of SHT_NOBITS set   *)
(* is left out.                                                            *)
(***************************************************************************)
IsOffsetInSection(at, sec) == sec.offset <= at /\ at < sec.offset + sec.size

Comparable(sec) ==
  ~HasFlag(sec.type, SHT_NOBITS) /\ sec.size > 0 /\ sec.offset > 0

OverlapErrors(elf) ==
  {p \in (1 .. Len(elf.secs)) \X (1 .. Len(elf.secs)) :
     LET a == elf.secs[p[1]]
         b == elf.secs[p[2]]
     IN  /\ p[1] < p[2]
         /\ Comparable(a) /\ Comparable(b)
         /\ \/ IsOffsetInSection(a.offset, b)
            \/ IsOffsetInSection(a.offset + a.size - 1, b)
            \/ IsOffsetInSection(b.offset, a)
            \/ IsOffsetInSection(b.offset + b.size - 1, a)}

ProgSectionsAt(elf, at) ==
  SelectSeq(elf.secs, LAMBDA s : s.type = SHT_PROGBITS /\ IsOffsetInSection(at, s))

AddressErrors(elf) ==
  {h \in 1 .. Len(elf.segs) :
     LET seg  == elf.segs[h]
         secs == ProgSectionsAt(elf, seg.offset)
     IN  /\ seg.type = PT_LOAD /\ seg.filesz > 0 /\ secs # << >>
         /\ secs[1].addr + seg.offset - secs[1].offset # seg.vaddr}

Validates(elf) == OverlapErrors(elf) = {} /\ AddressErrors(elf) = {}

==============================================================================
