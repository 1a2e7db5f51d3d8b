------------------------------- MODULE ElfTables -------------------------------
(***************************************************************************)
(* The accessors of the remaining tables: elfio_note.hpp, elfio_array.hpp, *)
(* elfio_dynamic.hpp, elfio_modinfo.hpp and elfio_versym.hpp.  Each is a   *)
(* view of one section; most keep something they computed from it: the     *)
(* operators take and return that as seen.                                 *)
(***************************************************************************)
EXTENDS ElfSymbols, ElfLayout

(* A word inside data made of bytes takes two of them, and data that is    *)
(* aligned is aligned to a word.                                           *)
WordSize == 2

Bytes(v, encoding) ==
  LET c == Convert(encoding, v) IN <<c % Radix, c \div Radix>>

WordAt(sec, at, encoding) ==
  Convert(encoding, sec.data[at + 1] + Radix * sec.data[at + 2])

Aligned(n) == n + Pad(n, WordSize)

-----------------------------------------------------------------------------
(* Notes: seen is where each note starts.                                  *)
NoteHeader == 3 * WordSize

ProcessNotes(sec, encoding) ==
  LET from[at \in Nat] ==
        LET namesz  == WordAt(sec, at, encoding)
            descsz  == WordAt(sec, at + WordSize, encoding)
            advance == NoteHeader + Aligned(namesz) + Aligned(descsz)
        IN  IF /\ at + NoteHeader <= sec.size
               /\ namesz < sec.size /\ descsz < sec.size
               /\ at + advance <= sec.size
            THEN <<at>> \o from[at + advance]
            ELSE << >>
  IN  IF ~sec.has \/ sec.size = 0 THEN << >> ELSE from[0]

NoNote == [ok |-> FALSE]

(* get_note compares the index with the size of the section; an index      *)
(* between the number of notes and that size is not defined.               *)
GetNote(sec, encoding, seen, index) ==
  LET at     == seen[index + 1]
      namesz == WordAt(sec, at, encoding)
      descsz == WordAt(sec, at + WordSize, encoding)
      text   == at + NoteHeader
      desc   == text + Aligned(namesz)
  IN  IF index >= sec.size THEN NoNote
      ELSE IF namesz < 1 \/ namesz + descsz > sec.size - at THEN NoNote
      ELSE [ok   |-> TRUE,
            type |-> WordAt(sec, at + 2 * WordSize, encoding),
            name |-> SubSeq(sec.data, text + 1, text + namesz - 1),
            desc |-> SubSeq(sec.data, desc + 1, desc + descsz)]

\* Mutant: whole words are padded, too.
PaddedAlways(cells) == cells \o [i \in 1 .. (WordSize - (Len(cells) % WordSize)) |-> 0]

Padded(cells) == cells \o [i \in 1 .. Pad(Len(cells), WordSize) |-> 0]

NoteCells(note, encoding) ==
  Bytes(Len(note.name) + 1, encoding) \o Bytes(Len(note.desc), encoding)
  \o Bytes(note.type, encoding) \o Padded(Append(note.name, 0)) \o Padded(note.desc)

AddNote(sec, encoding, seen, note) ==
  [sec |-> AppendData(sec, NoteCells(note, encoding)), seen |-> Append(seen, sec.size)]

-----------------------------------------------------------------------------
(* Arrays of addresses: nothing is kept.                                   *)
GetArrayNum(sec) == sec.size \div WordSize

GetElement(sec, encoding, index) == WordAt(sec, index * WordSize, encoding)

AddElement(sec, encoding, address) == AppendData(sec, Bytes(address, encoding))

-----------------------------------------------------------------------------
(* The dynamic section: seen is the number of entries, once it has been    *)
(* counted and is not 0.                                                   *)
DynFields == <<"d_tag", "d_val">>
DynCells  == CellOf(DynFields)

DT_NULL == 0
DT_NEEDED == 1
DT_INIT == 12
DT_SONAME == 14
DT_RPATH == 15
DT_SYMBOLIC == 16
DT_TEXTREL == 22
DT_BIND_NOW == 24
DT_RUNPATH == 29
DT_VERNEEDNUM == 33    \* 0x6fffffff in the source

Valueless  == {DT_NULL, DT_SYMBOLIC, DT_TEXTREL, DT_BIND_NOW}
NamingTags == {DT_NEEDED, DT_SONAME, DT_RPATH, DT_RUNPATH}

GenericGetEntry(elf, d, index) ==
  LET sec   == Sec(elf, d)
      entry == Unpack(DynCells, CellsAt(sec, index, DynSize), elf.hdr.data)
  IN  IF ~sec.has \/ (index + 1) * sec.entsize > sec.size \/ sec.entsize < DynSize
      THEN [d_tag |-> DT_NULL, d_val |-> 0]
      ELSE IF entry.d_tag \in Valueless THEN [entry EXCEPT !.d_val = 0]
      ELSE entry

(* get_entries_num: up to the first DT_NULL, which counts.                 *)
GetDynNum(elf, d, seen) ==
  LET sec  == Sec(elf, d)
      all  == sec.size \div sec.entsize
      ends == {i \in 1 .. all : GenericGetEntry(elf, d, i - 1).d_tag = DT_NULL}
  IN  IF seen # 0 \/ sec.entsize < DynSize THEN seen
      ELSE IF ends = {} THEN all
      ELSE CHOOSE i \in ends : \A j \in ends : i <= j

GetDyn(elf, d, index) ==
  LET e   == GenericGetEntry(elf, d, index)
      str == IF e.d_tag \in NamingTags
             THEN GetString(Sec(elf, Sec(elf, d).link), e.d_val) ELSE << >>
  IN  [ok |-> str # NoString, tag |-> e.d_tag, value |-> e.d_val,
       str |-> IF str = NoString THEN << >> ELSE str]

AddDyn(elf, d, tag, value) ==
  LET entry == [d_tag |-> tag, d_val |-> IF tag \in Valueless THEN 0 ELSE value]
  IN  [elf EXCEPT !.secs[d + 1] = AppendData(@, Pack(DynFields, entry, elf.hdr.data))]

(* add_entry( tag, str )                                                   *)
AddDynString(elf, d, tag, str) ==
  LET table == Sec(elf, d).link + 1
  IN  AddDyn([elf EXCEPT !.secs[table] = AddString(@, str)], d, tag,
             NextString(elf.secs[table]))

-----------------------------------------------------------------------------
(* Module attributes: seen is all of them, as pairs.                       *)
EQUALS == 2

(* Before and after the first "="; a string without one is both.           *)
SplitAttribute(str) ==
  LET eqs == {i \in 1 .. Len(str) : str[i] = EQUALS}
      loc == CHOOSE i \in eqs : \A j \in eqs : i <= j
  IN  IF eqs = {} THEN <<str, str>>
      ELSE <<SubSeq(str, 1, loc - 1), SubSeq(str, loc + 1, Len(str))>>

ProcessAttributes(sec) ==
  LET step(acc, c) ==
        IF c # 0 THEN [acc EXCEPT !.str = Append(@, c)]
        ELSE IF acc.str = << >> THEN acc
        ELSE [all |-> Append(acc.all, SplitAttribute(acc.str)), str |-> << >>]
  IN  IF ~sec.has THEN << >>
      ELSE Loop(step, [all |-> << >>, str |-> << >>], Append(SubSeq(sec.data, 1, sec.size), 0)).all

NoAttribute == << >>

GetAttribute(seen, field) ==
  LET hits == {i \in 1 .. Len(seen) : seen[i][1] = field}
  IN  IF hits = {} THEN NoAttribute
      ELSE seen[CHOOSE i \in hits : \A j \in hits : i <= j]

\* Mutant: the accessor reads the section it appends to only when it is made.
AddAttributeToSection(sec, seen, attribute) ==
  [sec  |-> AppendData(sec, attribute[1] \o <<EQUALS>> \o attribute[2] \o <<0>>),
   seen |-> seen]

AddAttribute(sec, seen, attribute) ==
  [sec  |-> AppendData(sec, attribute[1] \o <<EQUALS>> \o attribute[2] \o <<0>>),
   seen |-> Append(seen, attribute)]

-----------------------------------------------------------------------------
(* Symbol versions: seen is their number.  The words are those of the      *)
(* host, whatever the byte order of the file.                              *)
VersionsIn(sec) == sec.size \div WordSize

GetVersion(sec, no) == WordAt(sec, no * WordSize, LSB)

\* Mutant: the index is not compared with the number of entries.
ModifyAnyVersion(sec, seen, no, value) ==
  PutCells(sec, no * WordSize, Bytes(value, LSB))

ModifyVersion(sec, seen, no, value) ==
  IF no < seen THEN PutCells(sec, no * WordSize, Bytes(value, LSB)) ELSE sec

AddVersion(sec, seen, value) ==
  [sec |-> AppendData(sec, Bytes(value, LSB)), seen |-> seen + 1]

(* Versions needed: seen is the number the dynamic section gives.          *)
DYNAMIC == <<8>>    \* ".dynamic"

VerneedFields == <<"vn_version", "vn_cnt", "vn_file", "vn_aux", "vn_next">>
VernauxFields == <<"vna_hash", "vna_flags", "vna_other", "vna_name", "vna_next">>

VerneedCells == CellOf(VerneedFields)
VernauxCells == CellOf(VernauxFields)

CountNeeded(elf) ==
  LET dynamic == FindSection(elf, DYNAMIC)
      entries == 1 .. GetDynNum(elf, dynamic.index, 0)
      hits    == {i \in entries : GetDyn(elf, dynamic.index, i - 1).tag = DT_VERNEEDNUM}
  IN  IF dynamic = NoSection \/ hits = {} THEN 0
      ELSE GetDyn(elf, dynamic.index, (CHOOSE i \in hits : \A j \in hits : i <= j) - 1).value

(* Along the chain of vn_next, as far as no.                               *)
GetNeeded(elf, v, no) ==
  LET sec     == Sec(elf, v)
      strings == Sec(elf, sec.link)
      at(n, from, cells) == Unpack(cells, SubSeq(sec.data, from + 1, from + n), LSB)
      need(from)  == at(Len(VerneedFields), from, VerneedCells)
      place[i \in Nat] == IF i = 0 THEN 0 ELSE place[i - 1] + need(place[i - 1]).vn_next
      verneed == need(place[no])
      vernaux == at(Len(VernauxFields), place[no] + verneed.vn_aux, VernauxCells)
  IN  [version |-> verneed.vn_version, file |-> GetString(strings, verneed.vn_file),
       hash |-> vernaux.vna_hash, other |-> vernaux.vna_other,
       dep |-> GetString(strings, vernaux.vna_name)]

==============================================================================
