-------------------------------- MODULE ElfFile --------------------------------
(***************************************************************************)
(* A program that builds, saves, opens and changes an ELF file through an  *)
(* elfio object, and may stop in the middle of a save.                     *)
(***************************************************************************)
EXTENDS ElfLayout

CONSTANTS Encodings,     \* byte orders of the files the program creates
          Files,         \* what is in its file at first: nothing, or the output
                         \*   of a linker
          Kinds,         \* sections it creates: [label, type, flags, align]
          Ranges,        \* segments it creates: [type, vaddr, align]
          Addresses,     \* addresses it gives to sections
          Sizes,         \* numbers of cells it writes
          MaxSections,   \* bounds: sections, the two mandatory ones included,
          MaxSegments,   \*   segments,
          MaxSize,       \*   cells of one section
          MaxEdits,      \*   calls that change the object before a crash,
          Room,          \* cells the device takes
          MapAt          \* where a process has mapped its file

ASSUME ElfFileAssumption ==
  /\ Encodings \subseteq {LSB, MSB} /\ Files \subseteq Seq(Nat)
  /\ \A k \in Kinds : k.label \in Seq(Nat) /\ {k.type, k.flags, k.align} \subseteq Nat
  /\ \A k \in Ranges : {k.type, k.vaddr, k.align} \subseteq Nat
  /\ Addresses \cup Sizes \cup {MaxSections, MaxSegments, MaxEdits, Room} \subseteq Nat

VARIABLES elf,           \* the object
          file,          \* the bytes of the file
          reply,         \* how the last call that used the file ended
          seen,          \* what a reader finds in the file: Stored(file)
          edits          \* number of calls that changed the object

fvars == <<elf, file, reply, seen, edits>>

(* A program that finds a file at its start opens it first; an object that *)
(* was loaded from the memory of a process is only read.                   *)
Running == reply \notin {"crashed", "unreadable", "mapped"}

UserSections == 3 .. Len(elf.secs)
HasBits(i)   == elf.secs[i].type \notin {SHT_NULL, SHT_NOBITS}

NewFile(encoding) == Create(CLASS32, encoding)

(* The view of a program: its own sections with their data, its segments.  *)
BlobOf(sec) ==
  [label |-> sec.label, type |-> sec.type, flags |-> sec.flags, align |-> sec.align,
   size |-> sec.size, data |-> sec.data]

Content(e) ==
  [blobs  |-> [i \in 1 .. (Len(e.secs) - 2) |-> BlobOf(e.secs[i + 2])],
   groups |-> [g \in 1 .. Len(e.segs) |-> [type |-> e.segs[g].type, vaddr |-> e.segs[g].vaddr]]]

NoContent == [blobs |-> << >>, groups |-> << >>]

(* What load finds in a file.                                              *)
Stored(bytes) ==
  LET r == Load(NewElfio, bytes, << >>)
  IN  IF r.ok THEN Content(r.elf) ELSE NoContent

FInit ==
  /\ elf \in {NewFile(e) : e \in Encodings}
  /\ file \in Files /\ seen = Stored(file)
  /\ reply = (IF file = << >> THEN "none" ELSE "crashed")
  /\ edits = 0

Edited(e) ==
  /\ Running /\ edits < MaxEdits
  /\ elf' = e /\ reply' = "none" /\ edits' = edits + 1 /\ UNCHANGED <<file, seen>>

-----------------------------------------------------------------------------
(* A cell is written with the number of its section.                       *)
Cells(i, n) == [c \in 1 .. n |-> i]

Join(e, g, i) ==
  ReplaceSegment(e, g, AddSectionIndex(e.segs[g], e.secs[i].index, e.secs[i].align))

(* The segments a writer puts sections into.                               *)
Holders == {g \in 1 .. Len(elf.segs) : elf.segs[g].type # PT_PHDR}

(* A program adds to a section only what it can: its data were read.  The  *)
(* source would copy from a null pointer.                                  *)
InMemory(i) == i < Len(elf.secs) /\ Sec(elf, i).size <= Len(Sec(elf, i).data)

(* sections.add and what a writer then calls for the new section: the      *)
(* setters, set_data or set_size, and segments[g - 1]->add_section.        *)
NewSec(k, n, g) ==
  LET e == AddSection(elf, k.label)
      i == Len(e.secs)
      described == [e.secs[i] EXCEPT !.type = k.type, !.flags = k.flags, !.align = k.align]
      filled == Replace(e, i - 1, IF k.type = SHT_NOBITS THEN [described EXCEPT !.size = n]
                                  ELSE SetData(described, Cells(i, n)))
  IN  /\ InMemory(elf.hdr.shstrndx) /\ i <= MaxSections
      /\ Edited(IF g = 0 THEN filled ELSE Join(filled, g, i))

Write(i, n) == HasBits(i) /\ Edited(Replace(elf, i - 1, SetData(elf.secs[i], Cells(i, n))))

Extend(i, n) ==
  /\ HasBits(i) /\ InMemory(i - 1) /\ elf.secs[i].size + n <= MaxSize
  /\ Edited(Replace(elf, i - 1, AppendData(elf.secs[i], Cells(i, n))))

(* set_size, which a program calls for a section without bits.             *)
Resize(i, n) ==
  /\ elf.secs[i].type = SHT_NOBITS
  /\ Edited(Replace(elf, i - 1, [elf.secs[i] EXCEPT !.size = n]))

Place(i, a) ==
  ~elf.secs[i].addrSet /\ Edited(Replace(elf, i - 1, SetAddress(elf.secs[i], a)))

(* segments.add and the setters a writer calls on the new segment.         *)
NewSeg(k) ==
  LET e == CreateSegment(elf)
      n == Len(e.segs)
  IN  /\ n <= MaxSegments
      /\ Edited(ReplaceSegment(e, n, [e.segs[n] EXCEPT
           !.type = k.type, !.vaddr = k.vaddr, !.align = k.align]))

Attach(g, i) ==
  elf.secs[i].index \notin ToSet(elf.segs[g].secs) /\ Edited(Join(elf, g, i))

(* save( file_name ): the file is emptied before the layout is tried.      *)
SaveFile ==
  LET l     == Layout(elf)
      w     == SaveWrites(l.elf)
      out   == Written(w, IF l.ok THEN Len(w) ELSE 0, Room)
  IN  /\ Running
      /\ UNCHANGED edits
      /\ elf' = l.elf /\ file' = out.bytes /\ seen' = Stored(out.bytes)
      /\ reply' = IF ~SaveOk(l, Room) THEN "refused"
                  ELSE IF out.fail THEN "cut" ELSE "saved"

(* The program stops after the first n writes of a save.                   *)
Crash ==
  LET l == Layout(elf)
      w == SaveWrites(l.elf)
  IN  /\ Running /\ l.ok
      /\ \E n \in 0 .. (Len(w) - 1) :
           LET bytes == Written(w, n, Room).bytes
           IN  file' = bytes /\ seen' = Stored(bytes)
      /\ elf' = NewFile(LSB) /\ reply' = "crashed" /\ edits' = MaxEdits

(* load( file_name ) into a new object; a program gives up an object that  *)
(* could not be loaded.                                                    *)
OpenFile ==
  LET r == Load(NewElfio, file, << >>)
  IN  /\ elf' = IF r.ok THEN r.elf ELSE NewElfio
      /\ reply' = IF r.ok THEN "opened" ELSE "unreadable"
      /\ UNCHANGED <<file, seen, edits>>

(* The memory of a process that mapped the file in two parts, the header   *)
(* behind the rest, and the ranges in the order of their addresses.        *)
Gap(n) == [c \in 1 .. n |-> 0]

Memory ==
  Gap(MapAt) \o SubSeq(file, EhdrSize + 1, Len(file))
  \o Gap(MapAt) \o SubSeq(file, 1, EhdrSize) \o Gap(Len(file))

MappedRanges ==
  << [start |-> EhdrSize, size |-> Len(file), to |-> MapAt],
     [start |-> 0, size |-> EhdrSize, to |-> 2 * MapAt + Len(file) - EhdrSize] >>

(* set_address_translation and load, from that memory: no system maps a    *)
(* file for a segment that reaches beyond its end.                         *)
Mappable == \A g \in 1 .. Len(elf.segs) : elf.segs[g].offset + elf.segs[g].filesz <= Len(file)

OpenMapped ==
  LET r == Load(NewElfio, Memory, SetAddressTranslation(MappedRanges))
  IN  /\ reply = "saved" /\ Mappable
      /\ elf' = IF r.ok THEN r.elf ELSE NewElfio
      /\ reply' = IF r.ok THEN "mapped" ELSE "unreadable"
      /\ UNCHANGED <<file, seen, edits>>

FNext ==
  \/ \E k \in Kinds, n \in Sizes, g \in {0} \cup Holders : NewSec(k, n, g)
  \/ \E i \in UserSections :
       \/ \E n \in Sizes : Extend(i, n)
       \/ \E n \in {0} \cup Sizes : Write(i, n) \/ Resize(i, n)
       \/ \E a \in Addresses : Place(i, a)
       \/ \E g \in Holders : Attach(g, i)
  \/ \E k \in Ranges : NewSeg(k)
  \/ SaveFile
  \/ Crash
  \/ OpenFile
  \/ OpenMapped

FSpec == FInit /\ [][FNext]_fvars

-----------------------------------------------------------------------------
(* The sections and segments NewSec and NewSeg make, as a program sees     *)
(* them.                                                                   *)
NewBlob(k, n, i) ==
  [label |-> k.label, type |-> k.type, flags |-> k.flags, align |-> k.align, size |-> n,
   data |-> IF k.type = SHT_NOBITS THEN << >> ELSE [c \in 1 .. n |-> i]]

NewBlobs  == {NewBlob(k, n, i) : k \in Kinds, n \in Sizes, i \in 3 .. MaxSections}
NewGroups == {[type |-> k.type, vaddr |-> k.vaddr] : k \in Ranges}

Store == INSTANCE Container WITH
  Empty   <- NoContent,
  Blob    <- NewBlobs,
  Group   <- NewGroups,
  content <- Content(elf),
  stored  <- seen,
  outcome <- reply

(* Saving stores exactly what the program holds and opening brings it      *)
(* back, from the file or from where a process has mapped it; a save that  *)
(* is refused, cut off or interrupted leaves the parts that were written   *)
(* and nothing else.                                                       *)
KeepsContent == Store!CSpec

-----------------------------------------------------------------------------
(* The places of the file that a saved object uses: header, program        *)
(* headers, section headers, and the data of each section.                 *)
Places(e) ==
  {[from |-> 0, to |-> e.hdr.ehsize]}
  \cup {[from |-> e.hdr.phoff + (g - 1) * e.hdr.phentsize,
         to   |-> e.hdr.phoff + g * e.hdr.phentsize] : g \in 1 .. Len(e.segs)}
  \cup {[from |-> e.hdr.shoff + (i - 1) * e.hdr.shentsize,
         to   |-> e.hdr.shoff + i * e.hdr.shentsize] : i \in 1 .. Len(e.secs)}
  \cup {[from |-> e.secs[i].offset, to |-> e.secs[i].offset + e.secs[i].size] :
           i \in {j \in 2 .. Len(e.secs) : HasBits(j) /\ e.secs[j].size > 0}}

Apart(a, b) == a.to <= b.from \/ b.to <= a.from

(* What is written to the file is written to places of its own: no table   *)
(* and no section lies over another.                                       *)
NoOverlap ==
  reply = "saved" => \A a, b \in Places(elf) : a = b \/ Apart(a, b)

(* The sections that segment g shares with no other segment.               *)
Own(e, g) ==
  {i \in ToSet(e.segs[g].secs) :
     \A h \in 1 .. Len(e.segs) : i \in ToSet(e.segs[h].secs) => h = g}

(* Copying a segment into memory puts each of its own sections where the   *)
(* program was linked to find it: the section lies as far behind the start *)
(* of the segment in the file as in memory, in the width of the fields.    *)
WhereLinked ==
  reply = "saved" =>
    \A g \in 1 .. Len(elf.segs) : \A i \in Own(elf, g) \ {0} :
      LET sec == Sec(elf, i)
          seg == elf.segs[g]
      IN  HasBits(i + 1) /\ sec.size > 0
            => X(sec.offset - seg.offset) = X(sec.addr - seg.vaddr)

(* Segments lie beside or inside each other, and none has a section        *)
(* without bits in front of one with bits.                                 *)
Nested(e) ==
  \A g, h \in 1 .. Len(e.segs) :
    LET a == e.segs[g]
        b == e.segs[h]
    IN  \/ a.secs = b.secs \/ IsSubsequenceOf(a, b) \/ IsSubsequenceOf(b, a)
        \/ ToSet(a.secs) \cap ToSet(b.secs) = {}

BitsFirst(e) ==
  \A g \in 1 .. Len(e.segs) : \A m, n \in 1 .. Len(e.segs[g].secs) :
    LET first == Sec(e, e.segs[g].secs[m])
        then  == Sec(e, e.segs[g].secs[n])
    IN  m < n /\ first.type = SHT_NOBITS => then.type \in {SHT_NOBITS, SHT_NULL}

(* The part of the file that is copied for a segment holds its sections to *)
(* the end of the last.                                                    *)
Covered ==
  reply = "saved" /\ Nested(elf) /\ BitsFirst(elf) =>
    \A g \in 1 .. Len(elf.segs) : \A i \in ToSet(elf.segs[g].secs) :
      LET sec == Sec(elf, i)
          seg == elf.segs[g]
      IN  HasBits(i + 1) => sec.offset + sec.size <= seg.offset + seg.filesz

(* What save writes has none of the faults that validate() reports, unless *)
(* the program put a section into two segments.                            *)
Unshared(e) == \A g \in 1 .. Len(e.segs) : Own(e, g) = ToSet(e.segs[g].secs)

Valid == reply = "saved" /\ Unshared(elf) => Validates(elf)

(* validate() reports every pair of sections that lie over each other in   *)
(* the file, as its comment says of it.                                    *)
OverlapReported ==
  reply = "opened" =>
    \A i, j \in UserSections :
      LET a == elf.secs[i]
          b == elf.secs[j]
      IN  (i < j /\ HasBits(i) /\ HasBits(j) /\ a.size > 0 /\ b.size > 0
           /\ a.offset < b.offset + b.size /\ b.offset < a.offset + a.size)
          => <<i, j>> \in OverlapErrors(elf)

(* The memory size a segment was loaded with does not shrink when the file *)
(* is saved again.                                                         *)
MemoryNeverShrinks ==
  [][\A g \in 1 .. Len(elf.segs) :
       (g <= Len(elf'.segs) /\ reply' = "saved") => elf'.segs[g].memsz >= elf.segs[g].memsz]_fvars

(* Opening a file that was saved in full and saving it again without a     *)
(* change leaves every section at its address, every segment as large in   *)
(* memory as it was and its sections at their places in it, if the         *)
(* sections are found in the segments they were put in, in that order.     *)
Members(e) == [g \in 1 .. Len(e.segs) |-> e.segs[g].secs]

Image(e) ==
  [secs |-> [i \in 1 .. Len(e.secs) |-> e.secs[i].addr],
   segs |-> [g \in 1 .. Len(e.segs) |->
              [memsz  |-> e.segs[g].memsz,
               places |-> [i \in {j \in ToSet(e.segs[g].secs) :
                                    /\ Sec(e, j).type \notin {SHT_NULL, SHT_NOBITS}
                                    /\ Sec(e, j).size > 0} |->
                            Sec(e, i).offset - e.segs[g].offset]]]]

Resaved ==
  LET r == Load(NewElfio, file, << >>).elf
      l == Layout(r)
  IN  reply = "saved" /\ Members(r) = Members(elf) /\ BitsFirst(elf) =>
        l.ok /\ Image(l.elf) = Image(elf)

==============================================================================
