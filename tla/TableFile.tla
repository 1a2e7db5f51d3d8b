------------------------------- MODULE TableFile -------------------------------
(***************************************************************************)
(* A program that fills one table of an ELF file through several accessors *)
(* of its section, and saves and opens the file in between.  An accessor   *)
(* computes what it keeps when it is made; the others go on changing the   *)
(* section behind its back.                                                *)
(***************************************************************************)
EXTENDS ElfTables

CONSTANTS Encodings, Accessors,
          Records,        \* for each kind of table, what the program adds to it
          Needed,         \* what a linker put into the table of needed versions
          MaxRecords      \* bound

VARIABLES elf,
          kind,     \* which table
          accs,     \* each accessor: open, and what it keeps (seen)
          log,      \* the records in the table
          own       \* the places in log of what each accessor added

tvars == <<elf, kind, accs, log, own>>

Kinds == {"notes", "array", "dynamic", "attributes", "versions", "needed"}

Str == 2
Table == 3
Dyn == 4

Closed == [open |-> FALSE, seen |-> 0]

SectionType == [notes |-> SHT_NOTE, array |-> SHT_PROGBITS, dynamic |-> SHT_DYNAMIC,
                attributes |-> SHT_PROGBITS, versions |-> SHT_PROGBITS,
                needed |-> SHT_PROGBITS]

NewTables(encoding, k) ==
  LET e == AddSection(AddSection(Create(CLASS32, encoding), <<3>>), <<4>>)
  IN  [e EXCEPT
        !.secs[Str + 1].type      = SHT_STRTAB,
        !.secs[Table + 1].type    = SectionType[k],
        !.secs[Table + 1].link    = Str,
        !.secs[Table + 1].entsize = GetDefaultEntrySize(SectionType[k])]

(* The table of needed versions is the work of a linker, on the host that  *)
(* reads it; the dynamic section says how many there are.                  *)
WithNeeded(elf0, needs) ==
  LET Strings(n) == <<0>> \o FlattenSeq([i \in 1 .. n |-> needs[i].file \o <<0>>])
      verneed(i) == [vn_version |-> 1, vn_cnt |-> 1, vn_file |-> Len(Strings(i - 1)),
                     vn_aux |-> Len(VerneedFields),
                     vn_next |-> IF i = Len(needs) THEN 0
                                 ELSE Len(VerneedFields) + Len(VernauxFields)]
      vernaux(i) == [vna_hash |-> needs[i].hash, vna_flags |-> 0,
                     vna_other |-> needs[i].other, vna_name |-> Len(Strings(i - 1)),
                     vna_next |-> 0]
      e == AddSection(elf0, DYNAMIC)
      cells == FlattenSeq([i \in 1 .. Len(needs) |->
                 Pack(VerneedFields, verneed(i), LSB) \o Pack(VernauxFields, vernaux(i), LSB)])
      dyn == [e EXCEPT !.secs[Dyn + 1].type = SHT_DYNAMIC,
                       !.secs[Dyn + 1].entsize = DynSize]
  IN  AddDyn(AddDyn([dyn EXCEPT !.secs[Str + 1]   = SetData(@, Strings(Len(needs))),
                                !.secs[Table + 1] = SetData(@, cells)],
                    Dyn, DT_VERNEEDNUM, Len(needs)),
             Dyn, DT_NULL, 0)

TInit ==
  /\ kind \in Kinds
  /\ \E enc \in IF kind = "needed" THEN {LSB} ELSE Encodings :
       elf = IF kind = "needed" THEN WithNeeded(NewTables(enc, kind), Needed)
             ELSE NewTables(enc, kind)
  /\ log = (IF kind = "needed" THEN Needed ELSE << >>)
  /\ accs = [a \in Accessors |-> Closed]
  /\ own = [a \in Accessors |-> {}]

Enc == elf.hdr.data

(* What a new accessor keeps.                                              *)
Fresh ==
  CASE kind = "notes"      -> ProcessNotes(Sec(elf, Table), Enc)
    [] kind = "attributes" -> ProcessAttributes(Sec(elf, Table))
    [] kind = "versions"   -> VersionsIn(Sec(elf, Table))
    [] kind = "needed"     -> CountNeeded(elf)
    [] OTHER               -> 0

(* What a program reads through an accessor, from the first index to the   *)
(* last.                                                                   *)
Contents(seen) ==
  LET sec == Sec(elf, Table)
  IN  CASE kind = "notes"      -> [i \in 1 .. Len(seen) |-> GetNote(sec, Enc, seen, i - 1)]
        [] kind = "array"      -> [i \in 1 .. GetArrayNum(sec) |-> GetElement(sec, Enc, i - 1)]
        [] kind = "dynamic"    -> [i \in 1 .. GetDynNum(elf, Table, seen) |-> GetDyn(elf, Table, i - 1)]
        [] kind = "attributes" -> seen
        [] kind = "versions"   -> [i \in 1 .. seen |-> GetVersion(sec, i - 1)]
        [] kind = "needed"     -> [i \in 1 .. seen |-> GetNeeded(elf, Table, i - 1)]

-----------------------------------------------------------------------------
Open(a) ==
  /\ accs' = [accs EXCEPT ![a] = [open |-> TRUE, seen |-> Fresh]]
  /\ own' = [own EXCEPT ![a] = {}]
  /\ UNCHANGED <<elf, kind, log>>

(* The only getter that changes an accessor: counting the entries of the   *)
(* dynamic section.                                                        *)
Count(a) ==
  /\ kind = "dynamic" /\ accs[a].open
  /\ accs' = [accs EXCEPT ![a].seen = GetDynNum(elf, Table, @)]
  /\ UNCHANGED <<elf, kind, log, own>>

Added(a, r, e, seen) ==
  /\ elf' = e
  /\ accs' = [accs EXCEPT ![a].seen = seen]
  /\ log' = Append(log, r)
  /\ own' = [own EXCEPT ![a] = @ \cup {Len(log) + 1}]
  /\ UNCHANGED kind

WithTable(sec) == [elf EXCEPT !.secs[Table + 1] = sec]

Add(a, r) ==
  LET sec  == Sec(elf, Table)
      seen == accs[a].seen
  IN  /\ accs[a].open /\ Len(log) < MaxRecords
      /\ \/ /\ kind = "notes"
            /\ LET n == AddNote(sec, Enc, seen, r) IN Added(a, r, WithTable(n.sec), n.seen)
         \/ kind = "array" /\ Added(a, r, WithTable(AddElement(sec, Enc, r)), seen)
         \/ /\ kind = "dynamic"
            /\ r.tag \notin NamingTags
            /\ Added(a, r, AddDyn(elf, Table, r.tag, r.value), seen)
         \/ /\ kind = "dynamic"
            /\ r.tag \in NamingTags
            /\ Added(a, [r EXCEPT !.value = NextString(Sec(elf, Str))],
                     AddDynString(elf, Table, r.tag, r.str), seen)
         \/ /\ kind = "attributes"
            /\ LET n == AddAttribute(sec, seen, r) IN Added(a, r, WithTable(n.sec), n.seen)
         \/ /\ kind = "versions"
            /\ LET n == AddVersion(sec, seen, r) IN Added(a, r, WithTable(n.sec), n.seen)

Modify(a, no, value) ==
  /\ kind = "versions" /\ accs[a].open
  /\ elf' = WithTable(ModifyVersion(Sec(elf, Table), accs[a].seen, no, value))
  /\ log' = IF no < accs[a].seen THEN [log EXCEPT ![no + 1] = value] ELSE log
  /\ UNCHANGED <<kind, accs, own>>

(* The file is saved and opened into a new object, and so are the          *)
(* accessors made anew.                                                    *)
Reopen ==
  LET w == SaveWrites(Layout(elf).elf)
      r == Load(NewElfio, Written(w, Len(w), NoLimit).bytes, << >>)
  IN  /\ elf' = r.elf
      /\ accs' = [a \in Accessors |-> Closed]
      /\ own' = [a \in Accessors |-> {}]
      /\ UNCHANGED <<kind, log>>

TNext ==
  \/ \E a \in Accessors :
       \/ Open(a)
       \/ Count(a)
       \/ \E r \in Records[kind] : Add(a, r)
       \/ \E no \in 0 .. (Len(log) - 1), v \in Records["versions"] : Modify(a, no, v)
  \/ Reopen

TSpec == TInit /\ [][TNext]_tvars

-----------------------------------------------------------------------------
(* The log as the readers of this kind of table present it: the dynamic    *)
(* section ends at its first DT_NULL.                                      *)
Shown(records) ==
  LET ends == {i \in 1 .. Len(records) : records[i].tag = DT_NULL}
  IN  IF kind # "dynamic" \/ ends = {} THEN records
      ELSE SubSeq(records, 1, CHOOSE i \in ends : \A j \in ends : i <= j)

(* A new accessor finds in the section exactly the records that were ever  *)
(* added, in that order, whoever added them and whether the file has been  *)
(* saved and opened since.                                                 *)
NewReaderFindsAll == Contents(Fresh) = Shown(log)

(* What an accessor still open hands out is in the table: records appended *)
(* or modified through another one do not turn it into something else, and *)
(* it stays in order.                                                      *)
IsSubsequence(s, t) ==
  \E S \in SUBSET DOMAIN t :
    /\ Cardinality(S) = Len(s)
    /\ \A i \in DOMAIN s : s[i] = t[SetToSortSeq(S, <)[i]]

OldReadersStayRight ==
  \A a \in Accessors : accs[a].open => IsSubsequence(Contents(accs[a].seen), Shown(log))

(* An accessor of notes, of an array or of attributes hands out what was   *)
(* added through it, also when another accessor of the section adds more.  *)
SeesOwn ==
  kind \in {"notes", "array", "attributes"} =>
    \A a \in Accessors, i \in 1 .. Len(log) :
      accs[a].open /\ i \in own[a] =>
        /\ log[i] \in ToSet(Contents(accs[a].seen))
        /\ kind = "attributes" => GetAttribute(accs[a].seen, log[i][1])[1] = log[i][1]

==============================================================================
