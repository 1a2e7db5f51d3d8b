------------------------------ MODULE ElfSection ------------------------------
(***************************************************************************)
(* elfio_section.hpp and elfio_strings.hpp: one section, with its header,  *)
(* its name, its data and the size of the buffer that holds the data; and  *)
(* the section that is used as a table of strings.                         *)
(*                                                                         *)
(* Allocations succeed.                                                    *)
(***************************************************************************)
EXTENDS ElfTypes

(* The fields of section_impl beside its header.  data and cap are the     *)
(* buffer and data_size; has is data != nullptr; stream is stream_size.    *)
Buffer == [index |-> 0, label |-> << >>, data |-> << >>, has |-> FALSE,
           cap |-> 0, addrSet |-> FALSE, stream |-> 0]

NewSection == [f \in ToSet(ShdrFields) \cup DOMAIN Buffer |->
                 IF f \in DOMAIN Buffer THEN Buffer[f] ELSE 0]

SetAddress(sec, a) == [sec EXCEPT !.addr = a, !.addrSet = TRUE]

(* set_data: a section without bits keeps its (empty) buffer, and its size *)
(* becomes the size of that buffer.                                        *)
SetData(sec, raw) ==
  LET s == IF sec.type = SHT_NOBITS THEN sec
           ELSE [sec EXCEPT !.data = raw, !.has = TRUE, !.cap = Len(raw)]
  IN  [s EXCEPT !.size = s.cap, !.stream = s.cap]

(* append_data: in place while there is room, into a buffer of twice the   *)
(* size otherwise.  data holds the cells in use; the rest of the buffer is *)
(* not initialised.                                                        *)
AppendData(sec, raw) ==
  IF sec.type = SHT_NOBITS THEN sec
  ELSE [sec EXCEPT
         !.cap    = IF sec.size + Len(raw) < @ THEN @ ELSE 2 * (@ + Len(raw)),
         !.data   = SubSeq(@, 1, sec.size) \o raw,
         !.has    = TRUE,
         !.size   = @ + Len(raw),
         !.stream = @ + Len(raw)]

(***************************************************************************)
(* load: the header, and the data when the size is below that of the       *)
(* stream.  Returns the section and the stream.                            *)
(***************************************************************************)
SectionHeader(cells, limit, encoding) ==
  LET header == Unpack(ShdrCells, ZeroPadded(cells, ShdrSize), encoding)
  IN  [f \in DOMAIN NewSection |-> IF f \in ToSet(ShdrFields) THEN header[f]
                                  ELSE IF f = "stream" THEN limit ELSE NewSection[f]]

WithBytes(sec, bytes) ==
  IF Len(bytes) # sec.size THEN sec
  ELSE [sec EXCEPT !.has = TRUE, !.data = bytes, !.cap = sec.size]

LoadSectionData(sec, st, tr) ==
  LET from == Translate(tr, sec.offset)
  IN  IF sec.type \in {SHT_NULL, SHT_NOBITS} \/ sec.size >= sec.stream
      THEN [sec |-> sec, st |-> st]
      ELSE IF sec.size = 0
      THEN [sec |-> [sec EXCEPT !.has = TRUE], st |-> st]
      ELSE [sec |-> WithBytes(sec, ReadAt(st, from, sec.size)),
            st  |-> AfterRead(st, from, sec.size)]

LoadSection(st, at, tr, encoding) ==
  LET header == Translate(tr, at)
      limit  == IF tr = << >> THEN StreamSize(st) ELSE NoLimit
  IN  LoadSectionData(SectionHeader(ReadAt(st, header, ShdrSize), limit, encoding),
                      AfterRead(st, header, ShdrSize), tr)

(* save: the writes it makes, each a position and the cells put there.     *)
SectionWrites(sec, at, encoding) ==
  << [at |-> at, cells |-> Pack(ShdrFields, sec, encoding)] >>
  \o IF sec.type \in {SHT_NOBITS, SHT_NULL} \/ sec.size = 0 \/ ~sec.has THEN << >>
     ELSE << [at |-> sec.offset, cells |-> sec.data] >>

-----------------------------------------------------------------------------
(***************************************************************************)
(* string_section_accessor.  A string is a sequence of cells other than 0; *)
(* NoString is the null pointer.                                           *)
(***************************************************************************)
NoString == <<0>>

(* The string that starts at index and ends before the next 0 inside the   *)
(* section.                                                                *)
GetString(sec, index) ==
  LET ends == {i \in (index + 1) .. sec.size : sec.data[i] = 0}
  IN  IF ~sec.has \/ index >= sec.size \/ ends = {} THEN NoString
      ELSE SubSeq(sec.data, index + 1,
                  (CHOOSE i \in ends : \A j \in ends : i <= j) - 1)

(* Where the next string goes, and the section with the string appended:   *)
(* a new table begins with the empty string.                               *)
NextString(sec) == IF sec.size = 0 THEN 1 ELSE sec.size

\* Mutant: the terminating zero is not written.
AddUnterminated(sec, str) ==
  AppendData(IF sec.size = 0 THEN AppendData(sec, <<0>>) ELSE sec, str)

AddString(sec, str) ==
  AppendData(IF sec.size = 0 THEN AppendData(sec, <<0>>) ELSE sec, Append(str, 0))

==============================================================================
