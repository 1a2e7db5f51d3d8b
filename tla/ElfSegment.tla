------------------------------ MODULE ElfSegment ------------------------------
(***************************************************************************)
(* elfio_segment.hpp: one segment, with its program header, the bytes it   *)
(* was loaded with and the indices of the sections it consists of.         *)
(***************************************************************************)
EXTENDS ElfTypes

(* The fields of segment_impl beside its header.                           *)
Bare == [index |-> 0, data |-> << >>, has |-> FALSE, secs |-> << >>, offSet |-> FALSE]

NewSegment == [f \in ToSet(PhdrFields) \cup DOMAIN Bare |->
                 IF f \in DOMAIN Bare THEN Bare[f] ELSE 0]

(* add_section_index: the alignment is raised to that of the section.      *)
AddSectionIndex(seg, i, align) ==
  [seg EXCEPT !.secs = Append(@, i), !.align = IF align > @ THEN align ELSE @]

SetOffset(seg, at) == [seg EXCEPT !.offset = at, !.offSet = TRUE]

(***************************************************************************)
(* load: returns the segment, the stream and whether load returned true.   *)
(* A segment larger than the stream is accepted without its bytes.         *)
(***************************************************************************)
SegmentHeader(cells, encoding) ==
  LET header == Unpack(PhdrCells, ZeroPadded(cells, PhdrSize), encoding)
  IN  [f \in DOMAIN NewSegment |-> IF f \in ToSet(PhdrFields) THEN header[f]
                                  ELSE IF f = "offSet" THEN TRUE ELSE NewSegment[f]]

SegmentWithBytes(seg, bytes, st) ==
  IF Len(bytes) # seg.filesz THEN [seg |-> seg, st |-> st, ok |-> FALSE]
  ELSE [seg |-> [seg EXCEPT !.has = TRUE, !.data = bytes], st |-> st, ok |-> TRUE]

LoadSegmentData(seg, st, limit, tr) ==
  LET from == Translate(tr, seg.offset)
  IN  IF seg.type = PT_NULL \/ seg.filesz = 0 \/ seg.filesz > limit
      THEN [seg |-> seg, st |-> st, ok |-> TRUE]
      ELSE SegmentWithBytes(seg, ReadAt(st, from, seg.filesz), AfterRead(st, from, seg.filesz))

LoadSegment(st, at, tr, encoding) ==
  LET header == Translate(tr, at)
      limit  == IF tr = << >> THEN StreamSize(st) ELSE NoLimit
  IN  LoadSegmentData(SegmentHeader(ReadAt(st, header, PhdrSize), encoding),
                      AfterRead(st, header, PhdrSize), limit, tr)

SegmentWrites(seg, at, encoding) ==
  << [at |-> at, cells |-> Pack(PhdrFields, seg, encoding)] >>

==============================================================================
