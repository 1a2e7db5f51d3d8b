------------------------------ MODULE ElfSymbols ------------------------------
(***************************************************************************)
(* elfio_symbols.hpp, elfio_relocation.hpp and the hash functions of       *)
(* elfio_utils.hpp: a section of symbols with its names, the relocations   *)
(* that refer to it, and the hash tables a linker leaves beside it.        *)
(*                                                                         *)
(* s, r and h are numbers of sections of elf, as in ElfIO.                 *)
(***************************************************************************)
EXTENDS ElfIO

SymFields  == <<"st_name", "st_value", "st_size", "st_info", "st_other", "st_shndx">>
RelFields  == <<"r_offset", "r_info">>
RelaFields == <<"r_offset", "r_info", "r_addend">>

SymCells  == CellOf(SymFields)
RelCells  == CellOf(RelFields)
RelaCells == CellOf(RelaFields)

STB_LOCAL == 0
STB_GLOBAL == 1
STN_UNDEF == 0

SHT_GNU_HASH == 10          \* 0x6ffffff6 in the source

Info(bind, type) == bind * 16 + (type % 16)
Bind(info)       == info \div 16

Hashes == Radix * Radix     \* 2^32 in the source

(* elf_hash, on four digits in base 4 where the source has eight in base   *)
(* 16: the digit that reaches the top is folded into the second.           *)
Xor(a, b) == ((a \div 2 + b \div 2) % 2) * 2 + ((a + b) % 2)

ElfHash(name) ==
  LET step(h, c) ==
        LET shifted == (h * 4 + c) % 256
            top     == shifted \div 64
            second  == (shifted \div 4) % 4
        IN  shifted - top * 64 + (Xor(second, top) - second) * 4
  IN  Loop(step, 0, name)

ElfGnuHash(name) == Loop(LAMBDA h, c : (h * 33 + c) % Hashes, 5381 % Hashes, name)

-----------------------------------------------------------------------------
CellsAt(sec, i, n) == SubSeq(sec.data, i * sec.entsize + 1, i * sec.entsize + n)

PutCells(sec, at, cells) ==
  [sec EXCEPT !.data = [c \in 1 .. Len(@) |->
    IF c \in (at + 1) .. (at + Len(cells)) THEN cells[c - at] ELSE @[c]]]

GetSymbolsNum(sec) ==
  IF sec.entsize >= SymSize /\ sec.size <= sec.stream THEN sec.size \div sec.entsize ELSE 0

HasSymbol(sec, i) == sec.has /\ i < GetSymbolsNum(sec)

SymbolPtr(elf, s, i) == Unpack(SymCells, CellsAt(Sec(elf, s), i, SymSize), elf.hdr.data)

(* By index.  A name that cannot be read is NoString: the caller's string  *)
(* stays what it was.                                                      *)
NoSymbol == [ok |-> FALSE, name |-> NoString]

GetSymbol(elf, s, i) ==
  IF ~HasSymbol(Sec(elf, s), i) THEN NoSymbol
  ELSE LET p == SymbolPtr(elf, s, i)
       IN  [ok    |-> TRUE,
            name  |-> GetString(Sec(elf, Sec(elf, s).link), p.st_name),
            value |-> p.st_value, bind |-> Bind(p.st_info)]

(* find_hash_section: the first table linked to the symbols, 0 if none.    *)
FindHashSection(elf, s) ==
  LET tables == {h \in 0 .. (Len(elf.secs) - 1) :
                   Sec(elf, h).link = s /\ Sec(elf, h).type \in {SHT_HASH, SHT_GNU_HASH}}
  IN  IF tables = {} THEN 0 ELSE CHOOSE h \in tables : \A k \in tables : h <= k

(* Cell n of a hash table.                                                 *)
Word(elf, h, n) == Convert(elf.hdr.data, Sec(elf, h).data[n + 1])

(* hash_lookup: along the chain of the bucket, until the name, the end or  *)
(* an index beyond the table.                                              *)
HashLookup(elf, s, h, name) ==
  LET nbucket == Word(elf, h, 0)
      nchain  == Word(elf, h, 1)
      walk[y \in Nat] == [str \in Seq(Nat) |->
        LET sym == GetSymbol(elf, s, y)
            now == IF sym.name = NoString THEN str ELSE sym.name
        IN  IF now = name \/ y = STN_UNDEF \/ y >= nchain
            THEN IF now = name THEN sym ELSE NoSymbol
            ELSE walk[Word(elf, h, 2 + nbucket + y)][now]]
  IN  walk[Word(elf, h, 2 + (ElfHash(name) % nbucket))][<< >>]

(* gnu_hash_lookup: the filter, then the chain of the bucket; the lowest   *)
(* bit of a hash in the chain marks its end.                               *)
FilterBits == 4             \* 8 * sizeof( T )

Pow2[n \in Nat] == IF n = 0 THEN 1 ELSE 2 * Pow2[n - 1]

MayContain(filter, hash, shift) ==
  /\ HasFlag(filter, Pow2[hash % FilterBits])
  /\ HasFlag(filter, Pow2[(hash \div Pow2[shift]) % FilterBits])

GnuHashLookup(elf, s, h, name) ==
  LET nbuckets   == Word(elf, h, 0)
      symoffset  == Word(elf, h, 1)
      bloom_size == Word(elf, h, 2)
      hash       == ElfGnuHash(name)
      filter     == Word(elf, h, 4 + ((hash \div FilterBits) % bloom_size))
      first      == Word(elf, h, 4 + bloom_size + (hash % nbuckets))
      chain[i \in Nat] ==
        LET chain_hash == Word(elf, h, 4 + bloom_size + nbuckets + i)
            sym == GetSymbol(elf, s, i + symoffset)
        IN  IF chain_hash \div 2 = hash \div 2 /\ sym.ok /\ sym.name = name THEN sym
            ELSE IF chain_hash % 2 = 1 THEN NoSymbol
            ELSE chain[i + 1]
  IN  IF ~MayContain(filter, hash, Word(elf, h, 3)) \/ first < symoffset THEN NoSymbol
      ELSE chain[first - symoffset]

\* Mutant: a symbol that is not in the hash table is not looked for elsewhere.
HashedSymbolByName(elf, s, name) ==
  LET h    == FindHashSection(elf, s)
      hits == {i \in 0 .. (GetSymbolsNum(Sec(elf, s)) - 1) : GetSymbol(elf, s, i).name = name}
  IN  IF h # 0 /\ Sec(elf, h).type = SHT_HASH THEN HashLookup(elf, s, h, name)
      ELSE IF h # 0 THEN GnuHashLookup(elf, s, h, name)
      ELSE IF hits = {} THEN NoSymbol
      ELSE GetSymbol(elf, s, CHOOSE i \in hits : \A j \in hits : i <= j)

(* By name: through the hash table, then through all symbols.              *)
GetSymbolByName(elf, s, name) ==
  LET h      == FindHashSection(elf, s)
      hashed == IF h = 0 THEN NoSymbol
                ELSE IF Sec(elf, h).type = SHT_HASH THEN HashLookup(elf, s, h, name)
                ELSE GnuHashLookup(elf, s, h, name)
      hits   == {i \in 0 .. (GetSymbolsNum(Sec(elf, s)) - 1) :
                   GetSymbol(elf, s, i).ok /\ GetSymbol(elf, s, i).name = name}
  IN  IF hashed.ok THEN hashed
      ELSE IF hits = {} THEN NoSymbol
      ELSE GetSymbol(elf, s, CHOOSE i \in hits : \A j \in hits : i <= j)

(* By value: the first symbol that has it.                                 *)
\* Mutant: the last symbol of the table is not looked at.
ValueButLast(elf, s, value) ==
  LET hits == {i \in 0 .. (GetSymbolsNum(Sec(elf, s)) - 2) :
                 SymbolPtr(elf, s, i).st_value = value}
  IN  IF hits = {} THEN NoSymbol
      ELSE GetSymbol(elf, s, CHOOSE i \in hits : \A j \in hits : i <= j)

GetSymbolByValue(elf, s, value) ==
  LET hits == {i \in 0 .. (GetSymbolsNum(Sec(elf, s)) - 1) :
                 SymbolPtr(elf, s, i).st_value = value}
  IN  IF ~Sec(elf, s).has \/ hits = {} THEN NoSymbol
      ELSE GetSymbol(elf, s, CHOOSE i \in hits : \A j \in hits : i <= j)

(* A section of symbols begins with an empty one.                          *)
NullSymbol == [f \in ToSet(SymFields) |-> 0]

GenericAddSymbol(elf, s, entry) ==
  [elf EXCEPT !.secs[s + 1] = AppendData(@, Pack(SymFields, entry, elf.hdr.data))]

AddSymbol(elf, s, entry) ==
  GenericAddSymbol(IF Sec(elf, s).size = 0 THEN GenericAddSymbol(elf, s, NullSymbol)
                   ELSE elf, s, entry)

LastSymbol(elf, s) == Sec(elf, s).size \div SymSize - 1

-----------------------------------------------------------------------------
(* ELF32_R_INFO and back.                                                  *)
RInfo(symbol, type) == symbol * Radix + (type % Radix)
RSym(info)          == info \div Radix
RType(info)         == info % Radix

R_386_NONE == 0
R_386_32 == 1
R_386_PC32 == 2
R_386_GLOB_DAT == 6
R_386_JMP_SLOT == 7
R_386_RELATIVE == 8

GetEntriesNum(sec) == IF sec.entsize = 0 THEN 0 ELSE sec.size \div sec.entsize

GetEntry(elf, r, i) ==
  LET sec == Sec(elf, r)
      p   == IF sec.type = SHT_REL
             THEN Unpack(RelCells, CellsAt(sec, i, RelSize), elf.hdr.data)
             ELSE Unpack(RelaCells, CellsAt(sec, i, RelaSize), elf.hdr.data)
  IN  [offset |-> p.r_offset, symbol |-> RSym(p.r_info), type |-> RType(p.r_info),
       addend |-> IF sec.type = SHT_REL THEN 0 ELSE p.r_addend]

(* The entry with its symbol, and the value to be stored at its place.     *)
ResolveEntry(elf, r, i) ==
  LET e   == GetEntry(elf, r, i)
      sym == GetSymbol(elf, Sec(elf, r).link, e.symbol)
  IN  [ok |-> i < GetEntriesNum(Sec(elf, r)) /\ sym.ok, name |-> sym.name,
       calc |-> CASE e.type = R_386_32   -> (sym.value + e.addend) % Hashes
                  [] e.type = R_386_PC32 -> (sym.value + e.addend - e.offset) % Hashes
                  [] e.type \in {R_386_GLOB_DAT, R_386_JMP_SLOT} -> sym.value
                  [] e.type = R_386_RELATIVE -> e.addend
                  [] OTHER -> 0]

PackEntry(elf, r, e) ==
  LET fields == [r_offset |-> e.offset, r_info |-> RInfo(e.symbol, e.type),
                 r_addend |-> e.addend]
  IN  Pack(IF Sec(elf, r).type = SHT_REL THEN RelFields ELSE RelaFields,
           fields, elf.hdr.data)

SetEntry(elf, r, i, e) ==
  IF i >= GetEntriesNum(Sec(elf, r)) THEN elf
  ELSE [elf EXCEPT !.secs[r + 1] = PutCells(@, i * @.entsize, PackEntry(elf, r, e))]

AddEntry(elf, r, e) ==
  [elf EXCEPT !.secs[r + 1] = AppendData(@, PackEntry(elf, r, e))]

\* Mutant: only one of the two symbols is renumbered.
SwapFirstOnly(elf, r, first, second) ==
  LET step(acc, n) ==
        LET e == GetEntry(acc, r, n - 1)
        IN  IF e.symbol = first THEN SetEntry(acc, r, n - 1, [e EXCEPT !.symbol = second])
            ELSE acc
  IN  Loop(step, elf, [n \in 1 .. GetEntriesNum(Sec(elf, r)) |-> n])

SwapSymbols(elf, r, first, second) ==
  LET step(acc, n) ==
        LET e == GetEntry(acc, r, n - 1)
        IN  CASE e.symbol = first  -> SetEntry(acc, r, n - 1, [e EXCEPT !.symbol = second])
              [] e.symbol = second -> SetEntry(acc, r, n - 1, [e EXCEPT !.symbol = first])
              [] OTHER -> acc
  IN  Loop(step, elf, [n \in 1 .. GetEntriesNum(Sec(elf, r)) |-> n])

-----------------------------------------------------------------------------
(***************************************************************************)
(* arrange_local_symbols, with swap_symbols as its callback: the first     *)
(* symbol that is not local changes places with the next local one, until  *)
(* there is none; sh_info says where the others begin.                     *)
(***************************************************************************)
IsLocal(elf, s, i) == Bind(SymbolPtr(elf, s, i).st_info) = STB_LOCAL

FirstNotLocal(elf, s) ==
  LET count == GetSymbolsNum(Sec(elf, s))
      found == {i \in 1 .. (count - 1) : ~IsLocal(elf, s, i)}
  IN  IF found = {} THEN IF count > 1 THEN count ELSE 1
      ELSE CHOOSE i \in found : \A j \in found : i <= j

\* Mutant: the search for a local symbol stops before the last one.
NextLocalButLast(elf, s) ==
  LET count == GetSymbolsNum(Sec(elf, s))
      found == {i \in (FirstNotLocal(elf, s) + 1) .. (count - 2) : IsLocal(elf, s, i)}
  IN  IF found = {} THEN count ELSE CHOOSE i \in found : \A j \in found : i <= j

NextLocal(elf, s) ==
  LET count == GetSymbolsNum(Sec(elf, s))
      found == {i \in (FirstNotLocal(elf, s) + 1) .. (count - 1) : IsLocal(elf, s, i)}
  IN  IF found = {} THEN count ELSE CHOOSE i \in found : \A j \in found : i <= j

\* Mutant: the second copy reads what the first has just written.
ExchangeInPlace(elf, s, i, j) ==
  LET sec == Sec(elf, s)
  IN  [elf EXCEPT !.secs[s + 1] = PutCells(@, i * sec.entsize, CellsAt(sec, j, SymSize))]

ExchangeSymbols(elf, s, i, j) ==
  LET sec == Sec(elf, s)
      p   == CellsAt(sec, i, SymSize)
      q   == CellsAt(sec, j, SymSize)
  IN  [elf EXCEPT !.secs[s + 1] =
        PutCells(PutCells(@, i * sec.entsize, q), j * sec.entsize, p)]

ArrangeLocalSymbols(elf, s, r) ==
  LET count == GetSymbolsNum(Sec(elf, s))
      round(acc, n) ==
        LET first   == FirstNotLocal(acc, s)
            current == NextLocal(acc, s)
        IN  IF first < count /\ current < count
            THEN ExchangeSymbols(SwapSymbols(acc, r, first, current), s, first, current)
            ELSE acc
      sorted == Loop(round, elf, [n \in 1 .. count |-> n])
  IN  [sorted EXCEPT !.secs[s + 1].info = FirstNotLocal(sorted, s)]

==============================================================================
