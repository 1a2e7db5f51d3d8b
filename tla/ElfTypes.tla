------------------------------- MODULE ElfTypes -------------------------------
(***************************************************************************)
(* elf_types.hpp, elfio_utils.hpp: the tables an ELF file is made of, the  *)
(* conversion between the byte order of the file and of the host, the      *)
(* address translation of a reader, and the streams a file is read from    *)
(* and written to.                                                         *)
(*                                                                         *)
(* A file is a sequence of cells.  A cell of a table is one field, of two  *)
(* digits in base Radix; a cell of section data is one byte.  A field has  *)
(* the same width in every table, so the two ELF classes have tables of    *)
(* one size.                                                               *)
(***************************************************************************)
EXTENDS Integers, Sequences, SequencesExt

CONSTANT Radix      \* 256 in the source: number of values of a byte

ASSUME RadixAssumption == Radix \in Nat /\ Radix > 1

Digit == 0 .. (Radix - 1)
Field == 0 .. (Radix * Radix - 1)

EhdrFields == <<"magic", "class", "data", "type", "machine", "version", "entry",
                "phoff", "shoff", "flags", "ehsize", "phentsize", "phnum",
                "shentsize", "shnum", "shstrndx">>
ShdrFields == <<"name", "type", "flags", "addr", "offset", "size", "link",
                "info", "align", "entsize">>
PhdrFields == <<"type", "offset", "vaddr", "paddr", "filesz", "memsz",
                "flags", "align">>

(* At which cell of its table a field is.                                  *)
CellOf(fields) == [f \in ToSet(fields) |-> CHOOSE i \in DOMAIN fields : fields[i] = f]

EhdrCells == CellOf(EhdrFields)
ShdrCells == CellOf(ShdrFields)
PhdrCells == CellOf(PhdrFields)

EhdrSize == Len(EhdrFields)
ShdrSize == Len(ShdrFields)
PhdrSize == Len(PhdrFields)

MAGIC    == 127                         \* ELFMAG0 .. ELFMAG3, in one cell
CLASS32 == 1
CLASS64 == 2
LSB == 1
MSB == 2

SHT_NULL == 0
SHT_PROGBITS == 1
SHT_SYMTAB == 2
SHT_STRTAB == 3
SHT_RELA == 4
SHT_HASH == 5
SHT_DYNAMIC == 6
SHT_NOTE == 7
SHT_NOBITS == 8
SHT_REL == 9
SHT_DYNSYM == 11

PT_NULL == 0
PT_LOAD == 1
PT_PHDR == 6
PT_TLS == 7

SHF_ALLOC == 2
SHF_TLS == 8    \* 0x400 in the source

(* (flags & f) = f, for a flag f of one bit.                               *)
HasFlag(flags, f) == (flags \div f) % 2 = 1

(***************************************************************************)
(* endianess_convertor, on the two digits of a field: the digits change    *)
(* places when the file and the host (little-endian) differ.               *)
(***************************************************************************)
Convert(encoding, v) ==
  IF encoding = LSB THEN v ELSE (v % Radix) * Radix + v \div Radix

(* The cells a table entry occupies in a file of that encoding, and the    *)
(* entry read back from them.  The identification is bytes, not fields.    *)
Ident == {"magic", "class", "data", "st_info", "st_other"}

Pack(fields, entry, encoding) ==
  [i \in 1 .. Len(fields) |->
    IF fields[i] \in Ident THEN entry[fields[i]]
    ELSE Convert(encoding, entry[fields[i]])]

Unpack(at, cells, encoding) ==
  [f \in DOMAIN at |->
    IF f \in Ident THEN cells[at[f]] ELSE Convert(encoding, cells[at[f]])]

(* header = { 0 }, then as many fields as the stream delivered.            *)
ZeroPadded(cells, n) ==
  [i \in 1 .. n |-> IF i <= Len(cells) THEN cells[i] ELSE 0]

(* A loop over the elements of a sequence, from the first to the last:     *)
(* FoldLeft of SequencesExt, whose definition is slow to evaluate.         *)
Loop(op(_, _), base, seq) ==
  LET upTo[i \in 0 .. Len(seq)] == IF i = 0 THEN base ELSE op(upTo[i - 1], seq[i])
  IN  upTo[Len(seq)]

-----------------------------------------------------------------------------
(***************************************************************************)
(* address_translator: ranges [start, size, to] sorted by start; the first *)
(* that holds an address moves it.                                         *)
(***************************************************************************)
SetAddressTranslation(ranges) == SortSeq(ranges, LAMBDA a, b : a.start < b.start)

Translate(ranges, v) ==
  LET hits == {i \in 1 .. Len(ranges) :
                 ranges[i].start <= v /\ v - ranges[i].start < ranges[i].size}
  IN  IF hits = {} THEN v
      ELSE LET r == ranges[CHOOSE i \in hits : \A j \in hits : i <= j]
           IN  v - r.start + r.to

-----------------------------------------------------------------------------
(***************************************************************************)
(* The streams of the C++ library.  Once a read is short or a write is     *)
(* refused the stream has failed, and every later call does nothing.       *)
(***************************************************************************)
InStream(bytes) == [bytes |-> bytes, fail |-> FALSE]

NoLimit == 1000000   \* std::numeric_limits<size_t>::max()

(* seekg(0, end), tellg(): -1 on a failed stream, which as a size is the   *)
(* largest of all.                                                         *)
StreamSize(st) == IF st.fail THEN NoLimit ELSE Len(st.bytes)

(* seekg(at), read(n): the cells delivered.                                *)
ReadAt(st, at, n) ==
  IF st.fail THEN << >>
  ELSE SubSeq(st.bytes, at + 1, IF at + n <= Len(st.bytes) THEN at + n
                                ELSE Len(st.bytes))

AfterRead(st, at, n) == [st EXCEPT !.fail = @ \/ at + n > Len(st.bytes)]

(* room: how many cells the device takes before it is full.                *)
OutStream(room) == [bytes |-> << >>, fail |-> FALSE, room |-> room]

(* adjust_stream_size(at), write(cells): a gap is filled with zeros, and   *)
(* what no longer fits is lost.                                            *)
WriteAt(st, at, cells) ==
  LET padded == st.bytes \o [i \in 1 .. (at - Len(st.bytes)) |-> 0]
      all    == SubSeq(padded, 1, at) \o cells
                \o SubSeq(padded, at + Len(cells) + 1, Len(padded))
  IN  IF st.fail THEN st
      ELSE IF Len(all) <= st.room THEN [st EXCEPT !.bytes = all]
      ELSE [st EXCEPT !.bytes = SubSeq(all, 1, st.room), !.fail = TRUE]

==============================================================================
