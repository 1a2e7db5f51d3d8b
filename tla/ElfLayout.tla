------------------------------- MODULE ElfLayout -------------------------------
(***************************************************************************)
(* elfio.hpp: save.  Every segment, then every section outside a segment,  *)
(* gets its place in the file; then the header, the sections and the       *)
(* segments are written.                                                   *)
(***************************************************************************)
EXTENDS ElfIO

X(v) == v % (Radix * Radix)        \* arithmetic on Elf_Xword and Elf64_Off

(* How far pos is from the next multiple of align.                         *)
Pad(pos, align) == (align - (pos % align)) % align

(* std::includes: one pass over both lists, which it takes to be sorted.   *)
Includes(long, short) ==
  LET from[i \in 1 .. (Len(long) + 1), j \in 1 .. (Len(short) + 1)] ==
        \/ j > Len(short)
        \/ /\ i <= Len(long)
           /\ long[i] <= short[j]
           /\ from[i + 1, IF long[i] = short[j] THEN j + 1 ELSE j]
  IN  from[1, 1]

IsSubsequenceOf(seg1, seg2) ==
  Len(seg1.secs) < Len(seg2.secs) /\ Includes(seg2.secs, seg1.secs)

(* Segments at offset 0 are brought to the front.                          *)
Swap(list, i, j) ==
  [k \in DOMAIN list |-> IF k = i THEN list[j] ELSE IF k = j THEN list[i] ELSE list[k]]

Forward(segs, acc, i) ==
  LET slot == IF segs[acc.list[acc.slot]].offset = 0 THEN acc.slot + 1 ELSE acc.slot
  IN  IF i # acc.slot /\ segs[acc.list[i]].offSet /\ segs[acc.list[i]].offset = 0
      THEN [list |-> Swap(acc.list, i, slot), slot |-> slot + 1]
      ELSE acc

FrontFirst(segs) ==
  LET all == [i \in 1 .. Len(segs) |-> i]
  IN  Loop(LAMBDA acc, i : Forward(segs, acc, i), [list |-> all, slot |-> 1], all).list

(* A segment inside another that still waits goes to the end: each segment *)
(* taken is the first that lies in none of them.  Every round finds one,   *)
(* because a segment lies only in longer ones.                             *)
Inside(segs, wait, k) ==
  \E j \in 1 .. Len(wait) : IsSubsequenceOf(segs[wait[k]], segs[wait[j]])

NextSegment(segs, acc) ==
  LET k == CHOOSE k \in 1 .. Len(acc.wait) :
             /\ ~Inside(segs, acc.wait, k)
             /\ \A j \in 1 .. (k - 1) : Inside(segs, acc.wait, j)
  IN  [wait |-> SubSeq(acc.wait, k + 1, Len(acc.wait)) \o SubSeq(acc.wait, 1, k - 1),
       done |-> Append(acc.done, acc.wait[k])]

GetOrderedSegments(segs) ==
  Loop(LAMBDA acc, seg : NextSegment(segs, acc),
       [wait |-> FrontFirst(segs), done |-> << >>], segs).done

(* The alignment of a segment is at least that of its sections.            *)
Raised(elf, seg) ==
  [seg EXCEPT !.align =
    Loop(LAMBDA a, i : IF Sec(elf, i).align > a THEN Sec(elf, i).align ELSE a, @, seg.secs)]

CalcSegmentAlignment(elf) ==
  [elf EXCEPT !.segs = Loop(LAMBDA done, seg : Append(done, Raised(elf, seg)), << >>, @)]

-----------------------------------------------------------------------------
(***************************************************************************)
(* Layout so far: the object, current_file_pos (pos), the sections         *)
(* generated (gen) and whether no step has failed (ok); inside a segment   *)
(* also its sizes in memory and in the file (mem, file).                   *)
(***************************************************************************)
(* How far the next section of the segment lies behind the current         *)
(* position: by its address if it has one, else by its own alignment.      *)
SectionAlign(acc, seg, start, i) ==
  LET sec   == Sec(acc.elf, i)
      align == IF sec.align = 0 THEN 1 ELSE sec.align
  IN  IF i \in acc.gen THEN X(sec.offset - start - acc.file)
      ELSE IF ~sec.addrSet THEN Pad(acc.pos, align)
      ELSE IF sec.type = SHT_NOBITS \/ sec.size = 0 THEN 0
      ELSE X(sec.addr - seg.vaddr - X(acc.pos - start))

\* Mutant: nobody looks.
NeverSeeksBackwards(acc, seg, start, i) == FALSE

(* "something has gone awfully wrong": its address is behind us.           *)
SeeksBackwards(acc, seg, start, i) ==
  LET sec == Sec(acc.elf, i)
  IN  /\ i \notin acc.gen /\ sec.addrSet
      /\ sec.type # SHT_NOBITS /\ sec.size # 0
      /\ X(sec.addr - seg.vaddr) < X(acc.pos - start)

(* What the section and the gap before it add to the sizes of the segment. *)
\* Mutant: the gap is not in the file.
SizedWithoutGap(acc, seg, sec, gap) ==
  [acc EXCEPT
    !.mem  = IF HasFlag(sec.flags, SHF_ALLOC) THEN X(@ + sec.size + gap) ELSE @,
    !.file = IF sec.type # SHT_NOBITS THEN X(@ + sec.size) ELSE @]

Sized(acc, seg, sec, gap) ==
  LET tbss == sec.type = SHT_NOBITS /\ HasFlag(sec.flags, SHF_TLS) /\ seg.type # PT_TLS
  IN  [acc EXCEPT
        !.mem  = IF HasFlag(sec.flags, SHF_ALLOC) /\ ~tbss THEN X(@ + sec.size + gap) ELSE @,
        !.file = IF sec.type # SHT_NOBITS THEN X(@ + sec.size + gap) ELSE @]

(* The section at its place, with an address if it had none.               *)
\* Mutant: the address is counted from the start of the file.
PlacedFromZero(sec, seg, start, at) ==
  [sec EXCEPT !.addr    = IF sec.addrSet THEN @ ELSE X(seg.vaddr + at),
              !.addrSet = TRUE,
              !.offset  = IF sec.index # 0 THEN at ELSE @]

Placed(sec, seg, start, at) ==
  [sec EXCEPT !.addr    = IF sec.addrSet THEN @ ELSE X(seg.vaddr + at - start),
              !.addrSet = TRUE,
              !.offset  = IF sec.index # 0 THEN at ELSE @]

(* One round of write_segment_data.                                        *)
PlaceSection(acc, seg, start, i) ==
  LET sec   == Sec(acc.elf, i)
      gap   == SectionAlign(acc, seg, start, i)
      at    == X(acc.pos + gap)
      sized == Sized(acc, seg, sec, gap)
  IN  IF ~acc.ok THEN acc
      ELSE IF sec.type = SHT_NULL THEN [acc EXCEPT !.gen = @ \cup {i}]
      ELSE IF SeeksBackwards(acc, seg, start, i) THEN [acc EXCEPT !.ok = FALSE]
      ELSE IF i \in acc.gen THEN sized
      ELSE [sized EXCEPT
             !.pos = IF sec.type # SHT_NOBITS THEN X(at + sec.size) ELSE at,
             !.gen = @ \cup {i},
             !.elf = Replace(@, i, Placed(sec, seg, start, at))]

WriteSegmentData(acc, seg, start) ==
  Loop(LAMBDA a, i : PlaceSection(a, seg, start, i), acc, seg.secs)

(* Where a segment starts, the position from which its sections are placed *)
(* and the size it has before any of them.                                 *)
SegmentStart(acc, seg) ==
  LET hdr   == acc.elf.hdr
      begin == [start |-> acc.pos, pos |-> acc.pos, size |-> 0]
      align == IF seg.align > 0 THEN seg.align ELSE 1
      fit   == X(acc.pos + ((seg.align + (seg.vaddr % align) - (acc.pos % align)) % align))
  IN  IF seg.type = PT_PHDR /\ seg.secs = << >>
      THEN [begin EXCEPT !.start = hdr.phoff, !.size = hdr.phentsize * hdr.phnum]
      ELSE IF seg.offSet /\ seg.offset = 0
      THEN [begin EXCEPT !.start = 0, !.size = IF seg.secs # << >> THEN acc.pos ELSE 0]
      ELSE IF seg.secs = << >> THEN begin
      ELSE IF seg.secs[1] \notin acc.gen THEN [begin EXCEPT !.start = fit, !.pos = fit]
      ELSE [begin EXCEPT !.start = Sec(acc.elf, seg.secs[1]).offset]

\* Mutant: the size in memory is the one the sections add up to.
LayoutSegmentAnew(acc, g) ==
  LET seg == acc.elf.segs[g]
      s   == SegmentStart(acc, seg)
      w   == WriteSegmentData([acc EXCEPT !.pos = s.pos, !.mem = s.size, !.file = s.size],
                              seg, s.start)
  IN  IF ~acc.ok THEN acc
      ELSE IF ~w.ok THEN w
      ELSE [w EXCEPT !.elf = ReplaceSegment(@, g,
             [SetOffset(seg, s.start) EXCEPT !.filesz = w.file, !.memsz = w.mem])]

(* One segment of layout_segments_and_their_sections; its size in memory   *)
(* never shrinks.                                                          *)
LayoutSegment(acc, g) ==
  LET seg == acc.elf.segs[g]
      s   == SegmentStart(acc, seg)
      w   == WriteSegmentData([acc EXCEPT !.pos = s.pos, !.mem = s.size, !.file = s.size],
                              seg, s.start)
  IN  IF ~acc.ok THEN acc
      ELSE IF ~w.ok THEN w
      ELSE [w EXCEPT !.elf = ReplaceSegment(@, g,
             [SetOffset(seg, s.start) EXCEPT
               !.filesz = w.file,
               !.memsz  = IF @ < w.mem THEN w.mem ELSE @])]

LayoutSegments(acc) ==
  Loop(LayoutSegment, acc, GetOrderedSegments(acc.elf.segs))

IsSectionWithoutSegment(elf, i) ==
  \A g \in 1 .. Len(elf.segs) : i \notin ToSet(elf.segs[g].secs)

\* Mutant: the padding before the section is not counted.
PlaceAloneShort(acc, i) ==
  LET sec == Sec(acc.elf, i)
      at  == IF sec.align > 1 THEN X(acc.pos + Pad(acc.pos, sec.align)) ELSE acc.pos
  IN  IF ~IsSectionWithoutSegment(acc.elf, i) THEN acc
      ELSE [acc EXCEPT
             !.elf = Replace(@, i, [sec EXCEPT !.offset = IF i # 0 THEN at ELSE @]),
             !.pos = IF sec.type \in {SHT_NOBITS, SHT_NULL} THEN @ ELSE X(@ + sec.size)]

PlaceAlone(acc, i) ==
  LET sec == Sec(acc.elf, i)
      at  == IF sec.align > 1 THEN X(acc.pos + Pad(acc.pos, sec.align)) ELSE acc.pos
  IN  IF ~IsSectionWithoutSegment(acc.elf, i) THEN acc
      ELSE [acc EXCEPT
             !.elf = Replace(@, i, [sec EXCEPT !.offset = IF i # 0 THEN at ELSE @]),
             !.pos = IF sec.type \in {SHT_NOBITS, SHT_NULL} THEN at ELSE X(at + sec.size)]

LayoutSectionsWithoutSegments(acc) ==
  Loop(PlaceAlone, acc, [i \in 1 .. Len(acc.elf.secs) |-> i - 1])

(* The table of section headers comes last, at a multiple of four.         *)
LayoutSectionTable(acc) ==
  LET at == X(acc.pos + Pad(acc.pos, 4))
  IN  [acc EXCEPT !.pos = at, !.elf.hdr.shoff = at]

-----------------------------------------------------------------------------
(* The fields of the header that depend on the layout.                     *)
LayoutHeader(elf) ==
  [elf EXCEPT
    !.hdr.phnum = Len(elf.segs),
    !.hdr.phoff = IF elf.segs # << >> THEN elf.hdr.ehsize ELSE 0,
    !.hdr.shnum = Len(elf.secs),
    !.hdr.shoff = 0]

(* What follows the segments.                                              *)
LayoutRest(acc) ==
  IF acc.ok THEN LayoutSectionTable(LayoutSectionsWithoutSegments(acc)) ELSE acc

(* save up to the first write: the object laid out, and whether it could   *)
(* be.                                                                     *)
Layout(elf) ==
  LET e == LayoutHeader(elf)
  IN  LayoutRest(LayoutSegments(
        [elf |-> CalcSegmentAlignment(e),
         pos |-> X(e.hdr.ehsize + e.hdr.phentsize * e.hdr.phnum),
         gen |-> {}, mem |-> 0, file |-> 0, ok |-> TRUE]))

(* The writes of save_header, save_sections and save_segments, in order.   *)
SaveWrites(elf) ==
  LET hdr == elf.hdr
  IN  << [at |-> 0, cells |-> Pack(EhdrFields, hdr, hdr.data)] >>
      \o FlattenSeq([i \in 1 .. Len(elf.secs) |->
           SectionWrites(elf.secs[i], hdr.shoff + hdr.shentsize * elf.secs[i].index, hdr.data)])
      \o FlattenSeq([g \in 1 .. Len(elf.segs) |->
           SegmentWrites(elf.segs[g], hdr.phoff + hdr.phentsize * elf.segs[g].index, hdr.data)])

(* The stream after the first n writes, on a device that takes room cells. *)
Written(writes, n, room) ==
  Loop(LAMBDA st, w : WriteAt(st, w.at, w.cells), OutStream(room), SubSeq(writes, 1, n))

(* Only the write of the header is looked at; the results of the others    *)
(* are dropped.                                                            *)
SaveOk(layout, room) == layout.ok /\ EhdrSize <= room

==============================================================================
