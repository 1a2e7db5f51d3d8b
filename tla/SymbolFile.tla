------------------------------ MODULE SymbolFile ------------------------------
(***************************************************************************)
(* A program that adds symbols and relocations to an object file, changes  *)
(* and sorts them, in a file that may have the hash table of a linker,     *)
(* built for the symbols of that moment.                                   *)
(***************************************************************************)
EXTENDS ElfSymbols

CONSTANTS Encodings, Names, Types, Addends,
          MaxSymbols, MaxEntries          \* bounds

(* What is written into a field of a file fits into it: numbers of symbols *)
(* into their part of r_info, relocations, and places in a table of all    *)
(* the names.  A name ends where a 0 is.  The lowest bit of a cell of a    *)
(* hash table can be set, whatever the others are.                         *)
ASSUME SymbolsAssumption ==
  /\ Names \subseteq Seq(Nat \ {0}) /\ Radix % 2 = 0
  /\ Types \subseteq Digit /\ Addends \subseteq Field /\ 5 \in Field
  /\ MaxSymbols \in Digit /\ MaxEntries \in Nat
  /\ \E most \in Field : /\ \A name \in Names : Len(name) < most
                         /\ 1 + MaxSymbols * most \in Field

VARIABLES elf,      \* the object: sections Str, Sym, Rel and perhaps a hash table
          syms,     \* the symbols in the order they were added; the value of
                    \*   symbol n is n
          refs,     \* what each relocation was made to refer to
          sorted    \* arrange_local_symbols was the last change of the symbols

yvars == <<elf, syms, refs, sorted>>

Str == 2
Sym == 3
Rel == 4

(* The sections a writer sets up.                                          *)
NewObject(encoding, reltype) ==
  LET e == AddSection(AddSection(AddSection(Create(CLASS32, encoding),
                                            <<2>>), <<3>>), <<4>>)
      As(i, type, link) ==
        [Sec(e, i) EXCEPT !.type = type, !.link = link,
                          !.entsize = GetDefaultEntrySize(type)]
  IN  Replace(Replace(Replace(e, Str, As(Str, SHT_STRTAB, 0)),
                      Sym, As(Sym, SHT_SYMTAB, Str)),
              Rel, As(Rel, reltype, Sym))

YInit ==
  /\ \E enc \in Encodings, t \in {SHT_REL, SHT_RELA} : elf = NewObject(enc, t)
  /\ syms = << >> /\ refs = << >> /\ sorted = FALSE

-----------------------------------------------------------------------------
(* add_symbol( pStrWriter, ... ): the name, then the symbol.               *)
WithSymbol(e, name, bind) ==
  LET at    == NextString(Sec(e, Str))
      named == [e EXCEPT !.secs[Str + 1] = AddString(@, name)]
  IN  AddSymbol(named, Sym,
        [st_name |-> at, st_value |-> Len(syms) + 1, st_size |-> 0,
         st_info |-> Info(bind, 2), st_other |-> 0, st_shndx |-> 1])

AddOne(name, bind) ==
  /\ Len(syms) < MaxSymbols
  /\ elf' = WithSymbol(elf, name, bind)
  /\ syms' = Append(syms, [name |-> name, bind |-> bind])
  /\ sorted' = FALSE /\ UNCHANGED refs

(* Where symbol n is now.                                                  *)
IndexOf(n) ==
  CHOOSE i \in 0 .. LastSymbol(elf, Sym) : SymbolPtr(elf, Sym, i).st_value = n

Ref(n, type, addend) ==
  [sym |-> n, type |-> type, offset |-> 5,
   addend |-> IF Sec(elf, Rel).type = SHT_RELA THEN addend ELSE 0]

Entry(ref, index) ==
  [offset |-> ref.offset, symbol |-> index, type |-> ref.type, addend |-> ref.addend]

Relocate(n, type, addend) ==
  /\ Len(refs) < MaxEntries
  /\ refs' = Append(refs, Ref(n, type, addend))
  /\ elf' = AddEntry(elf, Rel, Entry(Ref(n, type, addend), IndexOf(n)))
  /\ UNCHANGED <<syms, sorted>>

(* add_entry( str_writer, str, sym_writer, ... ): all three at once.  Its  *)
(* entry has no addend: it is for sections of type SHT_REL.                *)
RelocateNew(name, bind, type) ==
  /\ Sec(elf, Rel).type = SHT_REL
  /\ Len(refs) < MaxEntries /\ Len(syms) < MaxSymbols
  /\ LET e == WithSymbol(elf, name, bind)
         ref == Ref(Len(syms) + 1, type, 0)
     IN  /\ elf' = AddEntry(e, Rel, Entry(ref, LastSymbol(e, Sym)))
         /\ refs' = Append(refs, ref)
  /\ syms' = Append(syms, [name |-> name, bind |-> bind])
  /\ sorted' = FALSE

Retarget(i, n, type) ==
  LET ref == Ref(n, type, 0)
  IN  /\ elf' = SetEntry(elf, Rel, i - 1, Entry(ref, IndexOf(n)))
      /\ refs' = [refs EXCEPT ![i] = ref]
      /\ UNCHANGED <<syms, sorted>>

Arrange ==
  /\ elf' = ArrangeLocalSymbols(elf, Sym, Rel)
  /\ sorted' = TRUE /\ UNCHANGED <<syms, refs>>

-----------------------------------------------------------------------------
(***************************************************************************)
(* The hash table of a linker, for the symbols as they are.                *)
(***************************************************************************)
NamesInTable == [i \in 1 .. (LastSymbol(elf, Sym) + 1) |-> GetSymbol(elf, Sym, i - 1).name]

SysVTable(names) ==
  LET Chain(b)   == {i \in 2 .. Len(names) : ElfHash(names[i]) % 2 = b}
      LastOf(S)  == IF S = {} THEN 0 ELSE CHOOSE i \in S : \A j \in S : i >= j
      Number(i)  == IF i = 0 THEN 0 ELSE i - 1
  IN  <<2, Len(names), Number(LastOf(Chain(0))), Number(LastOf(Chain(1)))>>
      \o [i \in 1 .. Len(names) |->
            IF i = 1 THEN 0
            ELSE Number(LastOf({j \in Chain(ElfHash(names[i]) % 2) : j < i}))]

GnuTable(names) ==
  LET hash(i) == ElfGnuHash(names[i])
      Bits    == UNION {{hash(i) % FilterBits, (hash(i) \div 4) % FilterBits} : i \in 2 .. Len(names)}
      filter  == Loop(LAMBDA sum, b : IF b - 1 \in Bits THEN sum + Pow2[b - 1] ELSE sum,
                      0, [b \in 1 .. FilterBits |-> b])
  IN  <<1, 1, 1, 2, filter, IF Len(names) > 1 THEN 1 ELSE 0>>
      \o [i \in 1 .. (Len(names) - 1) |->
            (hash(i + 1) \div 2) * 2 + (IF i = Len(names) - 1 THEN 1 ELSE 0)]

BuildHash(type) ==
  LET e     == AddSection(elf, <<5>>)
      h     == Len(elf.secs)
      table == IF type = SHT_HASH THEN SysVTable(NamesInTable) ELSE GnuTable(NamesInTable)
      cells == [i \in 1 .. Len(table) |-> Convert(elf.hdr.data, table[i])]
  IN  /\ Len(elf.secs) = Rel + 1 /\ Len(syms) > 0
      /\ elf' = Replace(e, h, SetData([Sec(e, h) EXCEPT !.type = type, !.link = Sym], cells))
      /\ UNCHANGED <<syms, refs, sorted>>

YNext ==
  \/ \E name \in Names, bind \in {STB_LOCAL, STB_GLOBAL} :
       \/ AddOne(name, bind)
       \/ \E t \in Types : RelocateNew(name, bind, t)
  \/ \E n \in 1 .. Len(syms), t \in Types :
       \/ \E a \in Addends : Relocate(n, t, a)
       \/ \E i \in 1 .. Len(refs) : Retarget(i, n, t)
  \/ Arrange
  \/ \E t \in {SHT_HASH, SHT_GNU_HASH} : BuildHash(t)

YSpec == YInit /\ [][YNext]_yvars

-----------------------------------------------------------------------------
(* Every relocation leads to the symbol it was made for, by its name, and  *)
(* yields the value of that symbol, wherever sorting has moved it.         *)
Calculated(ref) ==
  CASE ref.type = R_386_32   -> (ref.sym + ref.addend) % Hashes
    [] ref.type = R_386_PC32 -> (ref.sym + ref.addend - ref.offset) % Hashes
    [] ref.type \in {R_386_GLOB_DAT, R_386_JMP_SLOT} -> ref.sym
    [] ref.type = R_386_RELATIVE -> ref.addend
    [] OTHER -> 0

RelocationsFollow ==
  /\ GetEntriesNum(Sec(elf, Rel)) = Len(refs)
  /\ \A i \in 1 .. Len(refs) :
       LET e == ResolveEntry(elf, Rel, i - 1)
       IN  e.ok /\ e.name = syms[refs[i].sym].name /\ e.calc = Calculated(refs[i])

(* The table holds the empty symbol and then every symbol that was added,  *)
(* once, under its name and with its binding.                              *)
NothingLost ==
  /\ GetSymbolsNum(Sec(elf, Sym)) = (IF syms = << >> THEN 0 ELSE Len(syms) + 1)
  /\ syms # << >> => SymbolPtr(elf, Sym, 0) = NullSymbol
  /\ \A n \in 1 .. Len(syms) : \E i \in 1 .. Len(syms) :
       /\ SymbolPtr(elf, Sym, i).st_value = n
       /\ GetSymbol(elf, Sym, i).name = syms[n].name
       /\ GetSymbol(elf, Sym, i).bind = syms[n].bind

(* After sorting, sh_info separates the local symbols from the others.     *)
LocalsFirst ==
  sorted => \A i \in 1 .. Len(syms) :
              IsLocal(elf, Sym, i) <=> i < Sec(elf, Sym).info

(* A symbol is found by its name, and only by a name that some symbol has, *)
(* also when the hash table was built before symbols were added or sorted. *)
(* The empty name is that of the symbol every table begins with.           *)
LookupFinds ==
  \A name \in Names \ {<< >>} :
    LET sym == GetSymbolByName(elf, Sym, name)
    IN  /\ sym.ok <=> \E n \in 1 .. Len(syms) : syms[n].name = name
        /\ sym.ok => syms[sym.value] = [name |-> name, bind |-> sym.bind]

(* ... and by its value.                                                   *)
ValueFinds ==
  \A n \in 1 .. Len(syms) : GetSymbolByValue(elf, Sym, n).name = syms[n].name

==============================================================================
