---------------------------- MODULE ElfSaveProofs ----------------------------
(***************************************************************************)
(* Proofs about a save of an object that leaves room: nothing is put over  *)
(* anything else, and opening the file brings back what was saved.         *)
(***************************************************************************)
EXTENDS ElfFileProofs

-------------------------------------------------------------------------------
(***************************************************************************)
(* Room: the places of the sections in the file.                           *)
(***************************************************************************)
InFile(s) == s.type \notin {SHT_NULL, SHT_NOBITS} /\ s.size > 0

Clear(s, t) == s.offset + s.size <= t.offset \/ t.offset + t.size <= s.offset

(* The sections in D lie between lo and hi, and beside each other.         *)
InRoom(e, lo, hi, D) ==
  /\ \A i \in D : InFile(Sec(e, i)) =>
       lo <= Sec(e, i).offset /\ Sec(e, i).offset + Sec(e, i).size <= hi
  /\ \A i, j \in D : i # j /\ InFile(Sec(e, i)) /\ InFile(Sec(e, j)) => Clear(Sec(e, i), Sec(e, j))

(* There may be more room than they need.                                  *)
LEMMA RoomKeeps ==
  ASSUME NEW e, NEW f, NEW D, NEW lo \in Nat, NEW hi \in Nat, NEW end \in Nat,
         \A j \in D : Sec(e, j).offset \in Nat /\ Sec(e, j).size \in Nat,
         InRoom(e, lo, hi, D), hi <= end, \A j \in D : Sec(f, j) = Sec(e, j)
  PROVE  InRoom(f, lo, end, D)
<1>1. ASSUME NEW j \in D, InFile(Sec(f, j))
      PROVE  lo <= Sec(f, j).offset /\ Sec(f, j).offset + Sec(f, j).size <= end
  <2>. DEFINE t == Sec(f, j)
  <2>1. lo <= t.offset /\ t.offset + t.size <= hi /\ t.offset \in Nat /\ t.size \in Nat
    BY <1>1 DEF InRoom
  <2>. HIDE DEF t
  <2>2. t.offset + t.size <= end
    BY <2>1
  <2>. QED
    BY <2>1, <2>2 DEF t
<1>2. \A j, k \in D : j # k /\ InFile(Sec(f, j)) /\ InFile(Sec(f, k)) => Clear(Sec(f, j), Sec(f, k))
  BY DEF InRoom
<1>. QED
  BY <1>1, <1>2 DEF InRoom

(* One more section behind the others.                                     *)
LEMMA RoomForOne ==
  ASSUME NEW e, NEW f, NEW D, NEW i, i \notin D, NEW lo \in Nat, NEW hi \in Nat, NEW end \in Nat,
         \A j \in D \cup {i} : Sec(f, j).offset \in Nat /\ Sec(f, j).size \in Nat,
         InRoom(e, lo, hi, D), lo <= hi, hi <= end,
         \A j \in D : Sec(f, j) = Sec(e, j),
         InFile(Sec(f, i)) => hi <= Sec(f, i).offset /\ Sec(f, i).offset + Sec(f, i).size <= end
  PROVE  InRoom(f, lo, end, D \cup {i})
<1>1. ASSUME NEW j \in D \cup {i}, InFile(Sec(f, j))
      PROVE  lo <= Sec(f, j).offset /\ Sec(f, j).offset + Sec(f, j).size <= end
  <2>1. CASE j \in D
    <3>1. lo <= Sec(f, j).offset /\ Sec(f, j).offset + Sec(f, j).size <= hi
      BY <1>1, <2>1 DEF InRoom
    <3>. QED
      BY <2>1, <3>1
  <2>2. CASE j = i
    BY <1>1, <2>2
  <2>. QED
    BY <2>1, <2>2
<1>2. ASSUME NEW j \in D, InFile(Sec(f, j)), InFile(Sec(f, i)) PROVE Clear(Sec(f, j), Sec(f, i))
  <2>1. Sec(f, j).offset + Sec(f, j).size <= hi
    BY <1>2 DEF InRoom
  <2>2. hi <= Sec(f, i).offset
    BY <1>2
  <2>. QED
    BY <2>1, <2>2 DEF Clear
<1>3. \A s, t : Clear(s, t) => Clear(t, s)
  BY DEF Clear
<1>4. ASSUME NEW j \in D \cup {i}, NEW k \in D \cup {i}, j # k, InFile(Sec(f, j)), InFile(Sec(f, k))
      PROVE  Clear(Sec(f, j), Sec(f, k))
  <2>1. CASE j \in D /\ k \in D
    BY <1>4, <2>1 DEF InRoom
  <2>2. CASE j \in D /\ k = i
    BY <1>2, <1>4, <2>2
  <2>3. CASE j = i /\ k \in D
    BY <1>2, <1>3, <1>4, <2>3
  <2>. QED
    BY <1>4, <2>1, <2>2, <2>3
<1>. QED
  BY <1>1, <1>4 DEF InRoom

(* A difference that does not become negative is the difference.           *)
LEMMA FieldMinus ==
  ASSUME NEW a \in Int, NEW d \in Nat, d <= X(a)
  PROVE  X(a - d) = X(a) - d
<1>. DEFINE x == X(a)
<1>1. x \in Nat /\ x < Span /\ \E q \in Int : a = q * Span + x
  BY FieldWraps
<1>2. d <= x
  OBVIOUS
<1>. HIDE DEF x
<1>3. PICK q \in Int : a = q * Span + x
  BY <1>1
<1>. DEFINE k == q * Span
            u == x - d
            v == a - d
<1>4. k \in Int /\ a = k + x
  BY <1>3, SpanType DEF Positive
<1>5. u \in Nat /\ u < Span
  <2>1. Span \in Nat
    BY SpanType DEF Positive
  <2>. HIDE DEF Span
  <2>. QED
    BY <1>1, <1>2, <2>1
<1>6. v \in Int /\ v = k + u
  <2>. HIDE DEF k
  <2>. QED
    BY <1>1, <1>4
<1>. HIDE DEF u, v
<1>7. X(v) = X(u)
  BY <1>5, <1>6, SameField
<1>8. X(u) = u
  BY <1>5, FieldKept
<1>. QED
  BY <1>7, <1>8 DEF u, v, x

(* One section and the gap before it are at most m.                        *)
Modest(s, vaddr, m) ==
  /\ s.size <= m /\ s.align <= m
  /\ InFile(s) /\ s.addrSet => X(s.addr - vaddr) <= m

LEMMA GapIsModest ==
  ASSUME NEW b, NEW acc, Acc(acc, b), NEW i \in 0 .. (Len(b.secs) - 1),
         NEW seg, seg.vaddr \in Nat, NEW start \in Nat, NEW m \in Nat,
         Modest(Sec(acc.elf, i), seg.vaddr, m), i \notin acc.gen,
         Sec(acc.elf, i).type # SHT_NULL, ~SeeksBackwards(acc, seg, start, i)
  PROVE  SectionAlign(acc, seg, start, i) \in 0 .. m
<1>. DEFINE s == Sec(acc.elf, i)
            here == X(acc.pos - start)
            there == X(s.addr - seg.vaddr)
            align == IF s.align = 0 THEN 1 ELSE s.align
            pad == Pad(acc.pos, align)
            ahead == X(s.addr - seg.vaddr - here)
            gap == SectionAlign(acc, seg, start, i)
<1>1. /\ s.addr \in Nat /\ s.size \in Nat /\ s.align \in Nat /\ s.addrSet \in BOOLEAN /\ acc.pos \in Nat
  BY SectionLaid DEF Acc
<1>2. gap = IF ~s.addrSet THEN pad ELSE IF s.type = SHT_NOBITS \/ s.size = 0 THEN 0 ELSE ahead
  BY DEF SectionAlign
<1>3. /\ s.size <= m /\ s.align <= m
      /\ InFile(s) /\ s.addrSet => there <= m
  BY DEF Modest
<1>4. pad \in 0 .. m
  <2>1. align \in Positive /\ (align <= m \/ align = 1)
    <3>. HIDE DEF s
    <3>. QED
      BY <1>1, <1>3 DEF Positive
  <2>2. pad \in Nat /\ pad < align
    <3>. HIDE DEF align
    <3>. QED
      BY <1>1, <2>1, PadType
  <2>. HIDE DEF pad, align
  <2>. QED
    BY <2>1, <2>2 DEF Positive
<1>5. CASE s.addrSet /\ s.type # SHT_NOBITS /\ s.size # 0
  <2>1. here \in Nat /\ there \in Nat
    <3>. DEFINE x == acc.pos - start
                y == s.addr - seg.vaddr
    <3>1. x \in Int /\ y \in Int
      <4>. HIDE DEF s
      <4>. QED
        BY <1>1
    <3>. HIDE DEF x, y
    <3>2. X(x) \in Nat /\ X(y) \in Nat
      BY <3>1, FieldType
    <3>. QED
      BY <3>2 DEF x, y
  <2>2. here <= there
    <3>1. ~(there < here)
      BY <1>5 DEF SeeksBackwards
    <3>. HIDE DEF here, there
    <3>. QED
      BY <2>1, <3>1
  <2>3. ahead = there - here
    <3>. DEFINE y == s.addr - seg.vaddr
    <3>1. y \in Int
      <4>. HIDE DEF s
      <4>. QED
        BY <1>1
    <3>2. here <= X(y)
      BY <2>2
    <3>. HIDE DEF y, here
    <3>3. X(y - here) = X(y) - here
      BY <2>1, <3>1, <3>2, FieldMinus
    <3>. QED
      BY <3>3 DEF y
  <2>4. there <= m
    <3>1. InFile(s)
      <4>. HIDE DEF s
      <4>. QED
        BY <1>1, <1>5 DEF InFile, s
    <3>. QED
      BY <1>3, <1>5, <3>1
  <2>5. gap = ahead
    BY <1>2, <1>5
  <2>6. ahead \in 0 .. m
    <3>. HIDE DEF ahead, there, here
    <3>. QED
      BY <2>1, <2>2, <2>3, <2>4
  <2>. QED
    BY <2>5, <2>6
<1>6. CASE ~s.addrSet \/ s.type = SHT_NOBITS \/ s.size = 0
  <2>1. gap = pad \/ gap = 0
    BY <1>2, <1>6
  <2>2. 0 \in 0 .. m
    OBVIOUS
  <2>3. gap \in 0 .. m
    <3>. HIDE DEF gap, pad
    <3>. QED
      BY ONLY <1>4, <2>1, <2>2
  <2>. QED
    BY <2>3
<1>. QED
  BY <1>5, <1>6

(* It is placed behind the position, which moves by at most 2 * m.         *)
LEMMA PutAhead ==
  ASSUME NEW b, NEW acc, Acc(acc, b), NEW i \in 0 .. (Len(b.secs) - 1),
         NEW seg, seg.vaddr \in Nat, NEW start \in Nat, NEW m \in Nat,
         Modest(Sec(acc.elf, i), seg.vaddr, m), acc.pos + (m + m) < Span,
         NEW r, r.pos \in Nat, Put(r, acc, Len(b.secs), seg, start, i)
  PROVE  /\ acc.pos <= r.pos /\ r.pos <= acc.pos + (m + m)
         /\ i # 0 /\ InFile(Sec(r.elf, i)) =>
              acc.pos <= Sec(r.elf, i).offset /\ Sec(r.elf, i).offset + Sec(r.elf, i).size <= r.pos
<1>. DEFINE s == Sec(acc.elf, i)
            gap == SectionAlign(acc, seg, start, i)
            at == X(acc.pos + gap)
            p == Placed(s, seg, start, at)
            end == X(at + s.size)
<1>1. /\ i \notin acc.gen /\ s.type # SHT_NULL /\ ~SeeksBackwards(acc, seg, start, i)
      /\ r.pos = (IF s.type # SHT_NOBITS THEN end ELSE at)
      /\ Sec(r.elf, i) = p
  BY DEF Put, At
<1>2. gap \in 0 .. m
  BY <1>1, GapIsModest
<1>3. /\ IsSection(s, i) /\ s.size \in Nat /\ acc.pos \in Nat /\ s.size <= m
      /\ {"type", "size"} \subseteq DOMAIN s
  BY SectionLaid, SectionHas DEF Acc, Modest
<1>4. Span \in Nat /\ acc.pos + (m + m) < Span
  BY SpanType DEF Positive
<1>. HIDE DEF gap
<1>5. at = acc.pos + gap
  <2>. DEFINE v == acc.pos + gap
  <2>1. v \in Nat /\ v < Span
    <3>. HIDE DEF Span, s
    <3>. QED
      BY ONLY <1>2, <1>3, <1>4, m \in Nat
  <2>. HIDE DEF v
  <2>2. X(v) = v
    BY <2>1, FieldKept
  <2>. QED
    BY <2>2 DEF v
<1>6. end = acc.pos + gap + s.size
  <2>. DEFINE v == acc.pos + gap + s.size
  <2>1. v \in Nat /\ v < Span
    <3>. HIDE DEF Span, s
    <3>. QED
      BY ONLY <1>2, <1>3, <1>4, m \in Nat
  <2>2. at + s.size = v
    BY <1>5
  <2>. HIDE DEF v, at
  <2>3. X(v) = v
    BY <2>1, FieldKept
  <2>. QED
    BY <2>2, <2>3 DEF v
<1>7. SameSection(p, s) /\ (i # 0 => p.offset = at)
  <2>1. at \in Nat
    BY <1>2, <1>3, <1>5
  <2>2. p = Placed(s, seg, start, at)
    OBVIOUS
  <2>. HIDE DEF p, at, s
  <2>3. SameSection(p, s) /\ Moved(p, s, i, seg.vaddr, start, at)
    BY <1>3, <2>1, <2>2, PlacedKeeps
  <2>. QED
    BY <2>3 DEF Moved
<1>8. p.type = s.type /\ p.size = s.size
  BY <1>3, <1>7 DEF SameSection
<1>. HIDE DEF s, at, p, end
<1>9. acc.pos <= r.pos /\ r.pos <= acc.pos + (m + m)
  BY <1>1, <1>2, <1>3, <1>5, <1>6, SMTT(30)
<1>10. i # 0 /\ InFile(p) => acc.pos <= p.offset /\ p.offset + p.size <= r.pos
  <2>. SUFFICES ASSUME i # 0, InFile(p) PROVE acc.pos <= p.offset /\ p.offset + p.size <= r.pos
    OBVIOUS
  <2>1. s.type # SHT_NOBITS
    BY <1>8 DEF InFile
  <2>. QED
    BY <1>1, <1>2, <1>3, <1>5, <1>6, <1>7, <1>8, <2>1, SMTT(30)
<1>. QED
  BY <1>1, <1>9, <1>10


(* The sections generated so far lie between lo and the position, and the  *)
(* others are as they were in b.                                           *)
Stowed(r, b, lo) ==
  /\ lo <= r.pos
  /\ r.gen \subseteq 0 .. (Len(b.secs) - 1)
  /\ \A j \in 0 .. (Len(b.secs) - 1) : j \notin r.gen => Sec(r.elf, j) = Sec(b, j)
  /\ InRoom(r.elf, lo, r.pos, r.gen \ {0})

LEMMA StowStep ==
  ASSUME NEW b, NEW lo \in Nat, NEW acc, Acc(acc, b), Stowed(acc, b, lo),
         NEW i \in 0 .. (Len(b.secs) - 1), NEW seg, seg.vaddr \in Nat, NEW start \in Nat,
         NEW m \in Nat, Modest(Sec(b, i), seg.vaddr, m), acc.pos + (m + m) < Span,
         NEW r, r = PlaceSection(acc, seg, start, i), r.ok
  PROVE  /\ Acc(r, b) /\ Stowed(r, b, lo) /\ r.elf.segs = acc.elf.segs /\ acc.ok
         /\ acc.pos <= r.pos /\ r.pos <= acc.pos + (m + m)
<1>. DEFINE n == Len(b.secs)
            D == acc.gen \ {0}
<1>1. /\ Acc(r, b) /\ r.elf.segs = acc.elf.segs /\ acc.ok
      /\ Passed(r, acc, i) \/ Put(r, acc, n, seg, start, i)
  BY PlaceCases, SMTT(30)
<1>2. acc.pos \in Nat /\ r.pos \in Nat
  BY <1>1 DEF Acc
<1>3. /\ lo <= acc.pos /\ acc.gen \subseteq 0 .. (n - 1)
      /\ \A j \in 0 .. (n - 1) : j \notin acc.gen => Sec(acc.elf, j) = Sec(b, j)
      /\ InRoom(acc.elf, lo, acc.pos, D)
  BY DEF Stowed
<1>4. \A j \in 0 .. (n - 1) : Sec(r.elf, j).offset \in Nat /\ Sec(r.elf, j).size \in Nat
  BY <1>1, SectionLaid DEF Acc
<1>. HIDE DEF n, D
<1>5. \A j \in D \cup {i} : j \in 0 .. (n - 1)
  BY <1>3 DEF D, n
<1>6. \A j \in D : j \in acc.gen /\ j # 0
  BY DEF D
<1>7. r.gen = acc.gen \cup {i}
  BY <1>1 DEF Passed, Put
<1>8. (r.gen \ {0}) = IF i = 0 THEN D ELSE D \cup {i}
  BY <1>7 DEF D
<1>9. acc.pos <= r.pos /\ r.pos <= acc.pos + (m + m)
  <2>1. CASE Passed(r, acc, i)
    BY <1>2, <2>1 DEF Passed
  <2>2. CASE Put(r, acc, n, seg, start, i)
    <3>1. Modest(Sec(acc.elf, i), seg.vaddr, m)
      <4>1. i \notin acc.gen
        BY <2>2 DEF Put
      <4>. QED
        BY <1>3, <4>1 DEF n
    <3>. QED
      BY <1>2, <2>2, <3>1, PutAhead DEF n
  <2>. QED
    BY <1>1, <2>1, <2>2
<1>10. \A j \in 0 .. (n - 1) : j # i => Sec(r.elf, j) = Sec(acc.elf, j)
  BY <1>1 DEF Passed, Put
<1>11. i \in D => Sec(r.elf, i) = Sec(acc.elf, i)
  BY <1>1, <1>6 DEF Passed, Put
<1>12. \A j \in D : Sec(r.elf, j) = Sec(acc.elf, j)
  BY <1>5, <1>10, <1>11
<1>13. InRoom(r.elf, lo, r.pos, D)
  <2>1. \A j \in D : Sec(acc.elf, j).offset \in Nat /\ Sec(acc.elf, j).size \in Nat
    BY <1>4, <1>5, <1>12
  <2>. QED
    BY <1>2, <1>3, <1>9, <1>12, <2>1, RoomKeeps
<1>14. InRoom(r.elf, lo, r.pos, r.gen \ {0})
  <2>1. CASE i = 0
    BY <1>8, <1>13, <2>1
  <2>2. CASE i \in D
    <3>1. D \cup {i} = D
      BY <2>2
    <3>. QED
      BY <1>8, <1>6, <1>13, <2>2, <3>1
  <2>3. CASE i # 0 /\ i \notin D
    <3>1. InFile(Sec(r.elf, i)) =>
            acc.pos <= Sec(r.elf, i).offset /\ Sec(r.elf, i).offset + Sec(r.elf, i).size <= r.pos
      <4>1. CASE Passed(r, acc, i)
        <5>1. i \notin acc.gen
          BY <2>3 DEF D
        <5>2. Sec(r.elf, i).type = SHT_NULL
          BY <4>1, <5>1 DEF Passed
        <5>. QED
          BY <5>2 DEF InFile
      <4>2. CASE Put(r, acc, n, seg, start, i)
        <5>1. Modest(Sec(acc.elf, i), seg.vaddr, m)
          <6>1. i \notin acc.gen
            BY <4>2 DEF Put
          <6>. QED
            BY <1>3, <6>1 DEF n
        <5>. QED
          BY <1>2, <2>3, <4>2, <5>1, PutAhead DEF n
      <4>. QED
        BY <1>1, <4>1, <4>2
    <3>2. \A j \in D \cup {i} : Sec(r.elf, j).offset \in Nat /\ Sec(r.elf, j).size \in Nat
      BY <1>4, <1>5
    <3>3. InRoom(r.elf, lo, r.pos, D \cup {i})
      BY <1>2, <1>3, <1>9, <1>12, <2>3, <3>1, <3>2, RoomForOne
    <3>. QED
      BY <1>8, <2>3, <3>3
  <2>. QED
    BY <2>1, <2>2, <2>3
<1>15. \A j \in 0 .. (n - 1) : j \notin r.gen => Sec(r.elf, j) = Sec(b, j)
  BY <1>3, <1>7, <1>10
<1>16. lo <= r.pos /\ r.gen \subseteq 0 .. (n - 1)
  BY <1>2, <1>3, <1>7, <1>9 DEF n
<1>17. Stowed(r, b, lo)
  BY <1>14, <1>15, <1>16 DEF Stowed, n
<1>. QED
  BY <1>1, <1>9, <1>17

(* One step of c more, of at most m.                                       *)
LEMMA StepMore ==
  ASSUME NEW c \in Nat, NEW k \in Nat, NEW m \in Nat, k + 1 <= m
  PROVE  k * c \in Nat /\ m * c \in Nat /\ (k + 1) * c = k * c + c /\ (k + 1) * c <= m * c
<1>1. k * c \in Nat /\ m * c \in Nat /\ (k + 1) * c = k * c + c
  OBVIOUS
<1>2. PICK d \in Nat : m = (k + 1) + d
  <2>1. m - (k + 1) \in Nat /\ m = (k + 1) + (m - (k + 1))
    OBVIOUS
  <2>. QED
    BY <2>1
<1>3. m * c = (k + 1) * c + d * c /\ d * c \in Nat
  BY <1>2
<1>4. (k + 1) * c \in Nat
  OBVIOUS
<1>. DEFINE x == (k + 1) * c
            y == d * c
<1>. HIDE DEF x, y
<1>5. x <= x + y
  BY <1>3, <1>4 DEF x, y
<1>. QED
  BY <1>1, <1>3, <1>5 DEF x, y

(* All sections of a segment.                                              *)
LEMMA StowAll ==
  ASSUME NEW b, NEW lo \in Nat, NEW acc, Acc(acc, b), Stowed(acc, b, lo),
         NEW seg, seg.vaddr \in Nat, NEW start \in Nat, seg.secs \in Seq(0 .. (Len(b.secs) - 1)),
         NEW m \in Nat, \A i \in ToSet(seg.secs) : Modest(Sec(b, i), seg.vaddr, m),
         acc.pos + Len(seg.secs) * (m + m) < Span,
         NEW w, w = WriteSegmentData(acc, seg, start), w.ok
  PROVE  /\ Acc(w, b) /\ Stowed(w, b, lo) /\ w.elf.segs = acc.elf.segs /\ acc.ok
         /\ acc.pos <= w.pos /\ w.pos <= acc.pos + Len(seg.secs) * (m + m)
<1>. DEFINE q == seg.secs
            l == Len(q)
            n == Len(b.secs)
            c == m + m
            Fine(r, k) == /\ Acc(r, b) /\ r.elf.segs = acc.elf.segs
                          /\ r.ok => /\ acc.ok /\ Stowed(r, b, lo)
                                     /\ acc.pos <= r.pos /\ r.pos <= acc.pos + k * c
<1>1. l \in Nat /\ q \in [1 .. l -> 0 .. (n - 1)] /\ c \in Nat
  <2>1. l \in Nat /\ q \in [1 .. l -> 0 .. (n - 1)]
    <3>. HIDE DEF n
    <3>. QED
      BY LenProperties DEF n
  <2>2. c \in Nat
    OBVIOUS
  <2>. QED
    BY <2>1, <2>2
<1>2. PICK f : /\ f[0] = acc
               /\ \A k \in 1 .. l : f[k] = PlaceSection(f[k - 1], seg, start, q[k])
               /\ WriteSegmentData(acc, seg, start) = f[l]
  BY <1>1, WriteUnfolds
<1>3. \A k \in 1 .. l : q[k] \in 0 .. (n - 1) /\ Modest(Sec(b, q[k]), seg.vaddr, m)
  <2>1. \A k \in 1 .. l : q[k] \in ToSet(q)
    BY <1>1 DEF ToSet
  <2>. HIDE DEF q, l
  <2>. QED
    BY <1>1, <2>1 DEF q
<1>4. acc.pos \in Nat /\ acc.pos + l * c < Span /\ Span \in Nat
  BY SpanType DEF Acc, Positive
<1>. DEFINE T == {k \in Nat : k <= l => Fine(f[k], k)}
<1>. HIDE DEF q, l, n
<1>5. 0 \in T
  <2>1. acc.pos <= acc.pos /\ acc.pos <= acc.pos + 0 * c
    BY <1>1, <1>4
  <2>. HIDE DEF c
  <2>. QED
    BY <1>2, <2>1
<1>. HIDE DEF c
<1>6. ASSUME NEW k \in Nat, k \in T PROVE k + 1 \in T
  <2>. SUFFICES ASSUME k + 1 <= l PROVE Fine(f[k + 1], k + 1)
    OBVIOUS
  <2>. DEFINE i == q[k + 1]
              r == f[k]
              s == PlaceSection(r, seg, start, i)
  <2>1. k + 1 \in 1 .. l /\ (k + 1) - 1 = k /\ k <= l
    BY <1>1
  <2>2. f[k + 1] = s /\ i \in 0 .. (n - 1) /\ Modest(Sec(b, i), seg.vaddr, m)
    BY <1>2, <1>3, <2>1
  <2>3. Acc(r, b) /\ r.elf.segs = acc.elf.segs
    BY <1>6, <2>1
  <2>4. r.ok => acc.ok /\ Stowed(r, b, lo) /\ acc.pos <= r.pos /\ r.pos <= acc.pos + k * c
    BY <1>6, <2>1
  <2>5. Acc(s, b) /\ s.elf.segs = r.elf.segs /\ (s.ok => r.ok)
    <3>. HIDE DEF i, r
    <3>. QED
      BY <2>2, <2>3, PlaceCases DEF n
  <2>6. k * c \in Nat /\ l * c \in Nat /\ (k + 1) * c = k * c + c /\ (k + 1) * c <= l * c
    BY <1>1, <2>1, StepMore
  <2>. HIDE DEF i, r
  <2>7. ASSUME s.ok
        PROVE  Stowed(s, b, lo) /\ acc.pos <= s.pos /\ s.pos <= acc.pos + (k + 1) * c
    <3>1. /\ r.ok /\ Stowed(r, b, lo) /\ acc.pos <= r.pos /\ r.pos <= acc.pos + k * c
          /\ r.pos \in Nat
      BY <2>3, <2>4, <2>5, <2>7 DEF Acc
    <3>. DEFINE kc == k * c
                kd == (k + 1) * c
                lc == l * c
    <3>2. kd = kc + c /\ kd <= lc /\ kc \in Nat /\ lc \in Nat /\ acc.pos + lc < Span
      BY <1>4, <2>6
    <3>. HIDE DEF kc, kd, lc
    <3>3. r.pos + c < Span
      BY <1>1, <1>4, <3>1, <3>2, SMTT(30) DEF kc
    <3>4. r.pos + (m + m) < Span
      BY <3>3 DEF c
    <3>5. Stowed(s, b, lo) /\ r.pos <= s.pos /\ s.pos <= r.pos + (m + m)
      BY <2>2, <2>3, <2>7, <3>1, <3>4, StowStep, SMTT(30) DEF n
    <3>6. s.pos \in Nat
      BY <2>5 DEF Acc
    <3>7. acc.pos <= s.pos /\ s.pos <= acc.pos + kd
      <4>1. s.pos <= r.pos + c /\ r.pos <= acc.pos + kc
        BY <3>1, <3>5 DEF c, kc
      <4>2. acc.pos <= r.pos /\ r.pos <= s.pos
        BY <3>1, <3>5
      <4>3. acc.pos \in Nat /\ r.pos \in Nat /\ c \in Nat
        BY <1>1, <1>4, <3>1
      <4>. HIDE DEF s
      <4>. QED
        BY ONLY <3>2, <3>6, <4>1, <4>2, <4>3
    <3>. QED
      BY <3>5, <3>7 DEF kd
  <2>. HIDE DEF s
  <2>. QED
    BY <2>2, <2>3, <2>4, <2>5, <2>7
<1>7. Fine(f[l], l)
  <2>. HIDE DEF T, Fine
  <2>1. Nat \subseteq T
    BY <1>5, <1>6, SetInduction
  <2>. QED
    BY <1>1, <2>1 DEF T
<1>. QED
  BY <1>2, <1>7 DEF q, l, c

(* A segment starts at most its alignment away.                            *)
LEMMA StartAhead ==
  ASSUME NEW b, NEW acc, Acc(acc, b), NEW g \in 1 .. Len(b.segs), NEW m \in Nat,
         acc.elf.segs[g].align <= m, acc.pos + m < Span
  PROVE  LET s == SegmentStart(acc, acc.elf.segs[g])
         IN  acc.pos <= s.pos /\ s.pos <= acc.pos + m
<1>. DEFINE seg == acc.elf.segs[g]
            hdr == acc.elf.hdr
            align == IF seg.align > 0 THEN seg.align ELSE 1
            away == (seg.align + (seg.vaddr % align) - (acc.pos % align)) % align
            far == acc.pos + away
            n == Len(b.secs)
            begin == [start |-> acc.pos, pos |-> acc.pos, size |-> 0]
<1>1. IsSegment(seg, n) /\ acc.pos \in Nat /\ Span \in Nat
  BY SpanType DEF Acc, Laid, IsObject, Positive
<1>2. seg.align \in Nat /\ seg.vaddr \in Nat /\ seg.align <= m
  <2>1. seg.align \in Nat /\ seg.vaddr \in Nat
    <3>. HIDE DEF n, seg
    <3>. QED
      BY <1>1, SegmentHas
  <2>. QED
    BY <2>1
<1>3. away \in 0 .. m
  <2>1. align \in Positive /\ (align <= m \/ align = 1)
    <3>. HIDE DEF seg
    <3>. QED
      BY <1>2 DEF Positive
  <2>. DEFINE av == seg.vaddr % align
              ap == acc.pos % align
  <2>2. av \in Int /\ ap \in Int
    <3>. HIDE DEF align, seg
    <3>. QED
      BY <1>1, <1>2, <2>1, DivSplit
  <2>. DEFINE d == seg.align + av - ap
  <2>3. d \in Int
    <3>. HIDE DEF av, ap, seg
    <3>. QED
      BY <1>2, <2>2
  <2>. DEFINE rest == d % align
  <2>4. rest \in Nat /\ rest < align
    <3>. HIDE DEF d, align
    <3>. QED
      BY <2>1, <2>3, DivSplit
  <2>5. away = rest
    OBVIOUS
  <2>6. rest \in 0 .. m
    <3>. HIDE DEF rest, align
    <3>. QED
      BY <2>1, <2>4 DEF Positive
  <2>. QED
    BY <2>5, <2>6
<1>4. X(far) = far /\ far \in Nat /\ acc.pos <= far /\ far <= acc.pos + m
  <2>1. far \in Nat /\ far < Span /\ acc.pos <= far /\ far <= acc.pos + m
    <3>1. acc.pos + m < Span
      OBVIOUS
    <3>. HIDE DEF away, Span
    <3>. QED
      BY ONLY <1>1, <1>3, <3>1, m \in Nat
  <2>. HIDE DEF far
  <2>. QED
    BY <2>1, FieldKept
<1>. DEFINE fit == X(far)
            away2 == IF seg.type = PT_PHDR /\ seg.secs = << >> THEN acc.pos
                     ELSE IF seg.offSet /\ seg.offset = 0 THEN acc.pos
                     ELSE IF seg.secs = << >> THEN acc.pos
                     ELSE IF seg.secs[1] \notin acc.gen THEN fit ELSE acc.pos
<1>5. SegmentStart(acc, seg) =
        IF seg.type = PT_PHDR /\ seg.secs = << >>
        THEN [begin EXCEPT !.start = hdr.phoff, !.size = hdr.phentsize * hdr.phnum]
        ELSE IF seg.offSet /\ seg.offset = 0
        THEN [begin EXCEPT !.start = 0, !.size = IF seg.secs # << >> THEN acc.pos ELSE 0]
        ELSE IF seg.secs = << >> THEN begin
        ELSE IF seg.secs[1] \notin acc.gen THEN [begin EXCEPT !.start = fit, !.pos = fit]
        ELSE [begin EXCEPT !.start = Sec(acc.elf, seg.secs[1]).offset]
  BY DEF SegmentStart
<1>. HIDE DEF seg, hdr, fit
<1>6. SegmentStart(acc, seg).pos = away2
  BY <1>5
<1>7. fit = far
  BY <1>4 DEF fit
<1>. HIDE DEF far
<1>8. away2 = acc.pos \/ away2 = far
  BY <1>7
<1>. HIDE DEF away2
<1>9. acc.pos <= away2 /\ away2 <= acc.pos + m
  BY <1>1, <1>4, <1>8
<1>. QED
  BY <1>6, <1>9 DEF seg

(* One segment.                                                            *)
Tight(b, g, m) ==
  LET seg == b.segs[g]
  IN  seg.align <= m /\ \A i \in ToSet(seg.secs) : Modest(Sec(b, i), seg.vaddr, m)

LEMMA SegmentStow ==
  ASSUME NEW b, NEW lo \in Nat, NEW acc, Acc(acc, b), Stowed(acc, b, lo),
         NEW g \in 1 .. Len(b.segs), NEW m \in Nat, Tight(b, g, m),
         acc.pos + (m + Len(b.segs[g].secs) * (m + m)) < Span,
         NEW r, r = LayoutSegment(acc, g), r.ok
  PROVE  /\ Acc(r, b) /\ Stowed(r, b, lo) /\ acc.ok
         /\ acc.pos <= r.pos /\ r.pos <= acc.pos + (m + Len(b.segs[g].secs) * (m + m))
<1>. DEFINE seg == acc.elf.segs[g]
            old == b.segs[g]
            s == SegmentStart(acc, seg)
            a == [acc EXCEPT !.pos = s.pos, !.mem = s.size, !.file = s.size]
            w == WriteSegmentData(a, seg, s.start)
            n == Len(b.secs)
            put == [SetOffset(seg, s.start) EXCEPT
                      !.filesz = w.file, !.memsz = IF @ < w.mem THEN w.mem ELSE @]
            e == ReplaceSegment(w.elf, g, put)
            c == Len(old.secs) * (m + m)
<1>1. IsSegment(seg, n) /\ SameSegment(seg, old) /\ acc.pos \in Nat
  BY DEF Acc, Laid, IsObject
<1>2. /\ seg.vaddr \in Nat /\ seg.secs \in Seq(0 .. (n - 1))
      /\ {"vaddr", "secs", "align"} \subseteq DOMAIN seg
  <2>. HIDE DEF seg, n, old
  <2>. QED
    BY <1>1, SegmentHas
<1>3. seg.vaddr = old.vaddr /\ seg.secs = old.secs /\ seg.align = old.align
  <2>. HIDE DEF seg, old
  <2>. QED
    BY <1>1, <1>2 DEF SameSegment
<1>4. s.start \in Nat /\ s.pos \in Nat /\ s.size \in Nat
  BY StartType
<1>5. c \in Nat /\ acc.pos + (m + c) < Span /\ Span \in Nat
  <2>1. Len(old.secs) \in Nat
    <3>. HIDE DEF seg, old, n
    <3>. QED
      BY <1>2, <1>3, LenProperties
  <2>2. c \in Nat
    <3>. DEFINE k == Len(old.secs)
    <3>1. c = k * (m + m) /\ k \in Nat
      BY <2>1
    <3>. HIDE DEF k, c
    <3>. QED
      BY <3>1
  <2>. QED
    BY <2>2, SpanType DEF Positive
<1>6. acc.pos <= s.pos /\ s.pos <= acc.pos + m
  <2>1. seg.align <= m
    BY <1>3 DEF Tight
  <2>2. acc.pos + m < Span
    <3>. HIDE DEF c, Span, seg
    <3>. QED
      BY <1>1, <1>5
  <2>. QED
    BY <2>1, <2>2, StartAhead
<1>7. Acc(a, b) /\ a.elf = acc.elf /\ a.gen = acc.gen /\ a.ok = acc.ok /\ a.pos = s.pos
  <2>. HIDE DEF s
  <2>. QED
    BY <1>4 DEF Acc
<1>. HIDE DEF s, a, old, seg, n
<1>8. Stowed(a, b, lo)
  <2>1. lo <= a.pos
    BY <1>1, <1>4, <1>6, <1>7 DEF Stowed
  <2>2. \A i \in a.gen : i \in 0 .. (n - 1)
    BY <1>7 DEF Stowed, n
  <2>3. \A i \in a.gen : Sec(a.elf, i).offset \in Nat /\ Sec(a.elf, i).size \in Nat
    BY <1>7, <2>2, SectionLaid DEF Acc, n
  <2>4. InRoom(acc.elf, lo, acc.pos, acc.gen \ {0})
    BY DEF Stowed
  <2>5. InRoom(a.elf, lo, a.pos, a.gen \ {0})
    <3>1. acc.pos <= a.pos /\ a.pos \in Nat
      BY <1>4, <1>6, <1>7
    <3>2. InRoom(a.elf, lo, acc.pos, a.gen \ {0})
      BY <1>7, <2>4
    <3>. QED
      BY <1>1, <2>3, <3>1, <3>2, RoomKeeps
  <2>. QED
    BY <1>7, <2>1, <2>5 DEF Stowed
<1>9. a.pos + Len(seg.secs) * (m + m) < Span
  <2>. DEFINE l == Len(seg.secs) * (m + m)
  <2>1. l = c
    BY <1>3
  <2>. HIDE DEF c, Span, l
  <2>2. a.pos + l < Span
    BY ONLY <1>1, <1>4, <1>5, <1>6, <1>7, <2>1, m \in Nat
  <2>. QED
    BY <2>2 DEF l
<1>10. \A i \in ToSet(seg.secs) : Modest(Sec(b, i), seg.vaddr, m)
  BY <1>3 DEF Tight, old
<1>11. r = IF ~acc.ok THEN acc ELSE IF ~w.ok THEN w ELSE [w EXCEPT !.elf = e]
  BY DEF LayoutSegment, a, s, seg
<1>. HIDE DEF e
<1>12. Acc(w, b)
  <2>. HIDE DEF w
  <2>1. w = WriteSegmentData(a, seg, s.start)
    BY DEF w
  <2>. QED
    BY <1>2, <1>4, <1>7, <2>1, WriteKeeps DEF n
<1>. HIDE DEF w
<1>13. acc.ok /\ w.ok /\ r = [w EXCEPT !.elf = e]
  BY <1>11
<1>14. /\ Stowed(w, b, lo) /\ a.pos <= w.pos /\ w.pos <= a.pos + Len(seg.secs) * (m + m)
  <2>1. w = WriteSegmentData(a, seg, s.start)
    BY DEF w
  <2>. QED
    BY <1>2, <1>4, <1>7, <1>8, <1>9, <1>10, <1>13, <2>1, StowAll DEF n
<1>15. Acc(r, b)
  BY SegmentKeeps
<1>16. r.pos = w.pos /\ r.gen = w.gen /\ r.elf = e
  <2>1. DOMAIN w = {"elf", "pos", "gen", "mem", "file", "ok"}
    BY <1>12 DEF Acc
  <2>. QED
    BY <1>13, <2>1
<1>17. \A j : Sec(r.elf, j) = Sec(w.elf, j)
  <2>1. {"secs", "segs"} \subseteq DOMAIN w.elf
    BY <1>12 DEF Acc, Laid, IsObject
  <2>. HIDE DEF put
  <2>2. e.secs = w.elf.secs
    BY <2>1 DEF e, ReplaceSegment
  <2>. QED
    BY <1>16, <2>2 DEF Sec
<1>18. Stowed(r, b, lo)
  BY <1>14, <1>16, <1>17 DEF Stowed, InRoom
<1>19. acc.pos <= r.pos /\ r.pos <= acc.pos + (m + c)
  <2>1. Len(seg.secs) * (m + m) = c
    BY <1>3
  <2>2. w.pos \in Nat
    BY <1>12 DEF Acc
  <2>. HIDE DEF c
  <2>3. s.pos <= w.pos /\ w.pos <= s.pos + c
    BY <1>7, <1>14, <2>1
  <2>. QED
    BY ONLY <1>1, <1>4, <1>5, <1>6, <1>16, <2>2, <2>3, m \in Nat, SMTT(30)
<1>. QED
  BY <1>13, <1>15, <1>18, <1>19 DEF c, old

(* All segments.                                                           *)
LEMMA SegmentsStow ==
  ASSUME NEW b, IsObject(b), NEW acc, Fresh(acc, b), NEW m \in Nat, NEW c \in Nat,
         \A g \in 1 .. Len(b.segs) : Tight(b, g, m) /\ m + Len(b.segs[g].secs) * (m + m) <= c,
         acc.pos + Len(b.segs) * c < Span,
         NEW w, w = LayoutSegments(acc), w.ok
  PROVE  /\ Acc(w, b) /\ Stowed(w, b, acc.pos) /\ Done(w, b, 1 .. Len(b.segs))
         /\ acc.pos <= w.pos /\ w.pos <= acc.pos + Len(b.segs) * c
<1>. DEFINE order == GetOrderedSegments(acc.elf.segs)
            n == Len(b.segs)
            Fine(r, k) == Acc(r, b) /\ (r.ok => /\ Stowed(r, b, acc.pos)
                                                /\ acc.pos <= r.pos /\ r.pos <= acc.pos + k * c)
<1>1. n \in Nat /\ acc.elf.segs = b.segs /\ \A g \in 1 .. n : Len(b.segs[g].secs) \in Nat
  <2>1. IsSeq(b.segs) /\ acc.elf = b /\ \A g \in 1 .. n : IsSegment(b.segs[g], Len(b.secs))
    BY DEF IsObject, Fresh
  <2>2. n \in Nat
    BY <2>1, SeqIs
  <2>3. ASSUME NEW g \in 1 .. n PROVE Len(b.segs[g].secs) \in Nat
    <3>. DEFINE seg == b.segs[g]
    <3>1. IsSegment(seg, Len(b.secs))
      BY <2>1
    <3>2. seg.secs \in Seq(0 .. (Len(b.secs) - 1))
      BY <3>1 DEF IsSegment
    <3>. QED
      BY <3>2, LenProperties
  <2>. QED
    BY <2>1, <2>2, <2>3
<1>2. Len(order) = n /\ Permutes(order, n)
  BY <1>1, OrderPermutes
<1>3. PICK f : /\ f[0] = acc
               /\ \A k \in 1 .. Len(order) : f[k] = LayoutSegment(f[k - 1], order[k])
               /\ LayoutSegments(acc) = f[Len(order)]
  <2>1. Len(order) \in Nat
    BY <1>1, <1>2
  <2>. QED
    BY <2>1, SegmentsUnfold
<1>4. acc.pos \in Nat /\ acc.pos + n * c < Span /\ Span \in Nat
  BY SpanType DEF Fresh, Acc, Positive
<1>. HIDE DEF order, n
<1>5. \A k \in 1 .. n : order[k] \in 1 .. n
  BY <1>2 DEF Permutes
<1>. DEFINE T == {k \in Nat : k <= n => Fine(f[k], k)}
<1>6. 0 \in T
  <2>1. Stowed(acc, b, acc.pos)
    <3>1. acc.elf = b /\ acc.gen = {}
      BY DEF Fresh
    <3>. QED
      BY <1>4, <3>1 DEF Stowed, InRoom
  <2>2. acc.pos <= acc.pos /\ acc.pos <= acc.pos + 0 * c
    BY <1>4
  <2>. QED
    BY <1>3, <2>1, <2>2 DEF Fresh
<1>7. ASSUME NEW k \in Nat, k \in T PROVE k + 1 \in T
  <2>. SUFFICES ASSUME k + 1 <= n PROVE Fine(f[k + 1], k + 1)
    OBVIOUS
  <2>. DEFINE g == order[k + 1]
              r == f[k]
              s == LayoutSegment(r, g)
              l == m + Len(b.segs[g].secs) * (m + m)
              kc == k * c
              kd == (k + 1) * c
              nc == n * c
  <2>1. k + 1 \in 1 .. n /\ (k + 1) - 1 = k /\ k <= n
    BY <1>1
  <2>2. f[k + 1] = s
    BY <1>2, <1>3, <2>1
  <2>3. Acc(r, b) /\ (r.ok => Stowed(r, b, acc.pos) /\ acc.pos <= r.pos /\ r.pos <= acc.pos + kc)
    BY <1>7, <2>1
  <2>4. g \in 1 .. n
    BY <1>5, <2>1
  <2>5. kc \in Nat /\ nc \in Nat /\ kd = kc + c /\ kd <= nc
    BY <1>1, <2>1, StepMore
  <2>6. acc.pos + nc < Span
    BY <1>4
  <2>. HIDE DEF r, g, kc, kd, nc
  <2>7. Acc(s, b) /\ (s.ok => r.ok)
    BY <2>3, <2>4, SegmentKeeps DEF n
  <2>8. Tight(b, g, m) /\ l <= c /\ l \in Nat
    <3>1. Tight(b, g, m) /\ l <= c
      BY <2>4 DEF n
    <3>. DEFINE z == Len(b.segs[g].secs)
    <3>2. z \in Nat /\ l = m + z * (m + m)
      BY <1>1, <2>4
    <3>. HIDE DEF z, l
    <3>3. l \in Nat
      BY <3>2
    <3>. QED
      BY <3>1, <3>3 DEF l
  <2>9. ASSUME s.ok
        PROVE  Stowed(s, b, acc.pos) /\ acc.pos <= s.pos /\ s.pos <= acc.pos + kd
    <3>1. r.ok /\ Stowed(r, b, acc.pos) /\ acc.pos <= r.pos /\ r.pos <= acc.pos + kc /\ r.pos \in Nat
      BY <2>3, <2>7, <2>9 DEF Acc
    <3>2. r.pos + l < Span
      <4>. HIDE DEF l, Span
      <4>1. acc.pos \in Nat /\ Span \in Nat
        BY <1>4
      <4>. QED
        BY ONLY <2>5, <2>6, <2>8, <3>1, <4>1, c \in Nat
    <3>3. Stowed(s, b, acc.pos) /\ r.pos <= s.pos /\ s.pos <= r.pos + l
      <4>. DEFINE lo == acc.pos
      <4>1. lo \in Nat /\ Stowed(r, b, lo)
        BY <1>4, <3>1
      <4>. HIDE DEF lo
      <4>2. Stowed(s, b, lo) /\ r.pos <= s.pos /\ s.pos <= r.pos + l
        BY <2>3, <2>4, <2>8, <2>9, <3>2, <4>1, SegmentStow DEF n
      <4>. QED
        BY <4>2 DEF lo
    <3>4. s.pos \in Nat
      BY <2>7 DEF Acc
    <3>. HIDE DEF l, s
    <3>5. acc.pos \in Nat
      BY <1>4
    <3>6. acc.pos <= s.pos /\ s.pos <= acc.pos + kd
      BY ONLY <2>5, <2>8, <3>1, <3>3, <3>4, <3>5, c \in Nat
    <3>. QED
      BY <3>3, <3>6
  <2>. HIDE DEF s
  <2>. QED
    BY <2>2, <2>7, <2>9 DEF kd
<1>8. Fine(f[n], n)
  <2>. HIDE DEF T, Fine
  <2>1. Nat \subseteq T
    BY <1>6, <1>7, SetInduction
  <2>. QED
    BY <1>1, <2>1 DEF T
<1>9. Acc(w, b) /\ (w.ok => Done(w, b, 1 .. Len(b.segs)))
  BY SegmentsKeep
<1>. QED
  BY <1>2, <1>3, <1>8, <1>9 DEF n

(* One section outside of the segments.                                    *)
LEMMA AloneAhead ==
  ASSUME NEW b, NEW acc, Acc(acc, b), NEW i \in 0 .. (Len(b.secs) - 1), NEW m \in Nat,
         Sec(b, i).size <= m, Sec(b, i).align <= m, acc.pos + (m + m) < Span,
         NEW r, r = PlaceAlone(acc, i)
  PROVE  /\ acc.pos <= r.pos /\ r.pos <= acc.pos + (m + m)
         /\ \A j \in 0 .. (Len(b.secs) - 1) : j # i => Sec(r.elf, j) = Sec(acc.elf, j)
         /\ ~IsSectionWithoutSegment(b, i) => r = acc
         /\ IsSectionWithoutSegment(b, i) /\ i # 0 /\ InFile(Sec(r.elf, i)) =>
              acc.pos <= Sec(r.elf, i).offset /\ Sec(r.elf, i).offset + Sec(r.elf, i).size <= r.pos
<1>. DEFINE sec == Sec(acc.elf, i)
            pad == Pad(acc.pos, sec.align)
            at == IF sec.align > 1 THEN X(acc.pos + pad) ELSE acc.pos
            end == X(at + sec.size)
            s == [sec EXCEPT !.offset = IF i # 0 THEN at ELSE @]
            e == Replace(acc.elf, i, s)
            n == Len(b.secs)
            gap == at - acc.pos
<1>1. /\ IsSection(sec, i) /\ SameSection(sec, Sec(b, i)) /\ sec.size \in Nat /\ sec.align \in Nat
      /\ Laid(acc.elf, b) /\ acc.pos \in Nat /\ Span \in Nat
  BY SpanType, SectionLaid DEF Acc, Positive
<1>2. sec.size <= m /\ sec.align <= m /\ acc.pos + (m + m) < Span
  <2>1. {"size", "align"} \subseteq DOMAIN sec
    <3>. HIDE DEF sec
    <3>. QED
      BY <1>1, SectionHas
  <2>2. sec.size = Sec(b, i).size /\ sec.align = Sec(b, i).align
    <3>. HIDE DEF sec
    <3>. QED
      BY <1>1, <2>1 DEF SameSection
  <2>. QED
    BY <2>2
<1>3. at \in Nat /\ acc.pos <= at /\ at <= acc.pos + m
  <2>1. CASE sec.align > 1
    <3>1. pad \in Nat /\ pad < sec.align
      <4>1. sec.align \in Positive
        <5>. HIDE DEF sec
        <5>. QED
          BY <1>1, <2>1 DEF Positive
      <4>. HIDE DEF sec
      <4>. QED
        BY <1>1, <4>1, PadType
    <3>. DEFINE v == acc.pos + pad
    <3>2. v \in Nat /\ v < Span /\ acc.pos <= v /\ v <= acc.pos + m
      <4>. HIDE DEF pad, sec, Span
      <4>. QED
        BY ONLY <1>1, <1>2, <3>1, m \in Nat, SMTT(30)
    <3>3. at = X(v)
      BY <2>1
    <3>. HIDE DEF v, at
    <3>4. X(v) = v
      BY <3>2, FieldKept
    <3>. QED
      BY <3>2, <3>3, <3>4
  <2>2. CASE ~(sec.align > 1)
    <3>1. at = acc.pos
      BY <2>2
    <3>. HIDE DEF at
    <3>. QED
      BY <1>1, <3>1
  <2>. QED
    BY <2>1, <2>2
<1>4. end = at + sec.size
  <2>. DEFINE v == at + sec.size
  <2>1. v \in Nat /\ v < Span
    <3>. HIDE DEF at, sec, Span
    <3>. QED
      BY ONLY <1>1, <1>2, <1>3, m \in Nat, SMTT(30)
  <2>. HIDE DEF v
  <2>2. X(v) = v
    BY <2>1, FieldKept
  <2>. QED
    BY <2>2 DEF v
<1>5. /\ DOMAIN s = DOMAIN sec /\ (i # 0 => s.offset = at) /\ s.type = sec.type /\ s.size = sec.size
      /\ \A f \in DOMAIN sec \ {"offset"} : s[f] = sec[f]
  <2>. HIDE DEF at, sec
  <2>1. {"offset", "type", "size"} \subseteq DOMAIN sec
    BY <1>1, SectionHas
  <2>. QED
    BY <2>1
<1>6. /\ {"secs", "segs"} \subseteq DOMAIN acc.elf /\ i + 1 \in DOMAIN acc.elf.secs
      /\ Len(acc.elf.secs) = n /\ IsSeq(acc.elf.secs)
  <2>1. /\ {"secs", "segs"} \subseteq DOMAIN acc.elf /\ Len(acc.elf.secs) = n /\ IsSeq(acc.elf.secs)
    BY <1>1 DEF Laid, IsObject
  <2>2. DOMAIN acc.elf.secs = 1 .. Len(acc.elf.secs) /\ Len(acc.elf.secs) \in Nat
    BY <2>1, SeqIs
  <2>. QED
    BY <2>1, <2>2
<1>. HIDE DEF s
<1>7. Sec(e, i) = s /\ \A j \in 0 .. (n - 1) : j # i => Sec(e, j) = Sec(acc.elf, j)
  <2>. DEFINE q == acc.elf.secs
              t == [q EXCEPT ![i + 1] = s]
  <2>1. e.secs = t
    BY <1>6 DEF Replace
  <2>2. t[i + 1] = s /\ \A j \in 0 .. (n - 1) : j # i => t[j + 1] = q[j + 1]
    <3>1. DOMAIN q = 1 .. n /\ n \in Nat
      BY <1>6, SeqIs
    <3>. HIDE DEF q, n
    <3>. QED
      BY <1>6, <3>1 DEF q, n
  <2>. HIDE DEF e, t
  <2>. QED
    BY <2>1, <2>2 DEF Sec
<1>8. IsSectionWithoutSegment(acc.elf, i) <=> IsSectionWithoutSegment(b, i)
  <2>1. Len(acc.elf.segs) = Len(b.segs)
    BY <1>1 DEF Laid
  <2>2. \A g \in 1 .. Len(b.segs) : acc.elf.segs[g].secs = b.segs[g].secs
    <3>. SUFFICES ASSUME NEW g \in 1 .. Len(b.segs) PROVE acc.elf.segs[g].secs = b.segs[g].secs
      OBVIOUS
    <3>1. SameSegment(acc.elf.segs[g], b.segs[g]) /\ IsSegment(acc.elf.segs[g], Len(acc.elf.secs))
      BY <1>1, <2>1 DEF Laid, IsObject
    <3>. QED
      BY <3>1 DEF SameSegment, IsSegment
  <2>. QED
    BY <2>1, <2>2 DEF IsSectionWithoutSegment
<1>9. r = IF ~IsSectionWithoutSegment(acc.elf, i) THEN acc
          ELSE [acc EXCEPT !.elf = e, !.pos = IF sec.type \in {SHT_NOBITS, SHT_NULL} THEN at ELSE end]
  BY DEF PlaceAlone, s
<1>. HIDE DEF e, at, end, sec, n
<1>10. CASE ~IsSectionWithoutSegment(acc.elf, i)
  <2>1. r = acc
    BY <1>9, <1>10
  <2>2. acc.pos <= acc.pos /\ acc.pos <= acc.pos + (m + m)
    BY <1>1
  <2>. QED
    BY <1>8, <1>10, <2>1, <2>2
<1>11. CASE IsSectionWithoutSegment(acc.elf, i)
  <2>1. /\ r = [acc EXCEPT !.elf = e, !.pos = IF sec.type \in {SHT_NOBITS, SHT_NULL} THEN at ELSE end]
        /\ DOMAIN acc = {"elf", "pos", "gen", "mem", "file", "ok"}
    BY <1>9, <1>11 DEF Acc
  <2>2. r.elf = e /\ r.pos = (IF sec.type \in {SHT_NOBITS, SHT_NULL} THEN at ELSE end)
    BY <2>1
  <2>3. acc.pos <= r.pos /\ r.pos <= acc.pos + (m + m)
    BY ONLY <1>1, <1>2, <1>3, <1>4, <2>2, m \in Nat, SMTT(30)
  <2>4. i # 0 /\ InFile(s) => acc.pos <= s.offset /\ s.offset + s.size <= r.pos
    <3>. SUFFICES ASSUME i # 0, InFile(s) PROVE acc.pos <= s.offset /\ s.offset + s.size <= r.pos
      OBVIOUS
    <3>1. sec.type \notin {SHT_NOBITS, SHT_NULL} /\ s.offset = at /\ s.size = sec.size
      BY <1>5 DEF InFile
    <3>2. r.pos = at + sec.size
      BY <1>4, <2>2, <3>1
    <3>. QED
      BY <1>1, <1>3, <3>1, <3>2
  <2>. QED
    BY <1>7, <1>8, <1>11, <2>2, <2>3, <2>4 DEF n
<1>. QED
  BY <1>10, <1>11

(* All sections outside of the segments.                                   *)
Within(b) == {j \in 1 .. (Len(b.secs) - 1) : ~IsSectionWithoutSegment(b, j)}

LEMMA AloneStow ==
  ASSUME NEW b, NEW acc, Acc(acc, b), NEW m \in Nat, NEW lo \in Nat, lo <= acc.pos,
         \A i \in 0 .. (Len(b.secs) - 1) : Sec(b, i).size <= m /\ Sec(b, i).align <= m,
         InRoom(acc.elf, lo, acc.pos, Within(b)), acc.pos + Len(b.secs) * (m + m) < Span,
         NEW w, w = LayoutSectionsWithoutSegments(acc)
  PROVE  /\ Acc(w, b) /\ InRoom(w.elf, lo, w.pos, 1 .. (Len(b.secs) - 1))
         /\ acc.pos <= w.pos /\ w.pos <= acc.pos + Len(b.secs) * (m + m)
<1>. DEFINE n == Len(b.secs)
            c == m + m
            D(k) == Within(b) \cup 1 .. (k - 1)
            Fine(r, k) == /\ Acc(r, b) /\ InRoom(r.elf, lo, r.pos, D(k))
                          /\ acc.pos <= r.pos /\ r.pos <= acc.pos + k * c
<1>1. Len(acc.elf.secs) = n /\ n \in Nat
  BY SeqIs DEF Acc, Laid, IsObject
<1>2. PICK f : /\ f[0] = acc
               /\ \A k \in 1 .. n : f[k] = PlaceAlone(f[k - 1], k - 1)
               /\ LayoutSectionsWithoutSegments(acc) = f[n]
  BY <1>1, AloneUnfolds
<1>3. acc.pos \in Nat /\ acc.pos + n * c < Span /\ Span \in Nat /\ c \in Nat
  <2>1. acc.pos \in Nat /\ Span \in Nat
    BY SpanType DEF Acc, Positive
  <2>2. acc.pos + n * c < Span
    OBVIOUS
  <2>3. c \in Nat
    OBVIOUS
  <2>. QED
    BY <2>1, <2>2, <2>3
<1>. HIDE DEF n
<1>4. D(0) = Within(b) /\ D(n) = 1 .. (n - 1)
  BY <1>1 DEF Within, n
<1>5. \A k \in 0 .. (n - 1) : \A j \in D(k) \cup {k} : j \in 0 .. (n - 1)
  BY <1>1 DEF Within, n
<1>6. \A k \in 0 .. (n - 1) : k # 0 => D(k + 1) = D(k) \cup {k}
  <2>. SUFFICES ASSUME NEW k \in 0 .. (n - 1), k # 0 PROVE D(k + 1) = D(k) \cup {k}
    OBVIOUS
  <2>1. \A j : j \in 1 .. ((k + 1) - 1) <=> j \in 1 .. (k - 1) \/ j = k
    BY <1>1
  <2>. QED
    BY <2>1
<1>7. \A j \in D(0) : j # 0
  BY DEF Within
<1>8. D(1) = D(0)
  OBVIOUS
<1>9. \A k \in 0 .. (n - 1) : k # 0 => (k \in D(k) <=> ~IsSectionWithoutSegment(b, k))
  BY <1>1 DEF Within, n
<1>. DEFINE T == {k \in Nat : k <= n => Fine(f[k], k)}
<1>10. 0 \in T
  <2>1. acc.pos <= acc.pos /\ acc.pos <= acc.pos + 0 * c
    BY <1>3
  <2>2. InRoom(acc.elf, lo, acc.pos, D(0))
    BY <1>4
  <2>. HIDE DEF D, c
  <2>. QED
    BY <1>2, <2>1, <2>2
<1>. HIDE DEF D, c
<1>11. ASSUME NEW k \in Nat, k \in T PROVE k + 1 \in T
  <2>. SUFFICES ASSUME k + 1 <= n PROVE Fine(f[k + 1], k + 1)
    OBVIOUS
  <2>. DEFINE r == f[k]
              s == PlaceAlone(r, k)
              kc == k * c
              kd == (k + 1) * c
              nc == n * c
  <2>1. k + 1 \in 1 .. n /\ (k + 1) - 1 = k /\ k <= n /\ k \in 0 .. (n - 1)
    BY <1>1
  <2>2. f[k + 1] = s
    BY <1>2, <2>1
  <2>3. Acc(r, b) /\ InRoom(r.elf, lo, r.pos, D(k)) /\ acc.pos <= r.pos /\ r.pos <= acc.pos + kc
    BY <1>11, <2>1
  <2>4. kc \in Nat /\ nc \in Nat /\ kd = kc + c /\ kd <= nc
    BY <1>1, <1>3, <2>1, StepMore
  <2>5. acc.pos + nc < Span
    BY <1>3
  <2>. HIDE DEF r, kc, kd, nc
  <2>6. r.pos \in Nat /\ r.pos + (m + m) < Span
    <3>1. r.pos \in Nat
      BY <2>3 DEF Acc
    <3>2. acc.pos \in Nat /\ Span \in Nat
      BY <1>3
    <3>. HIDE DEF Span
    <3>. QED
      BY ONLY <2>3, <2>4, <2>5, <3>1, <3>2, m \in Nat DEF c
  <2>7. /\ r.pos <= s.pos /\ s.pos <= r.pos + (m + m)
        /\ \A j \in 0 .. (n - 1) : j # k => Sec(s.elf, j) = Sec(r.elf, j)
        /\ ~IsSectionWithoutSegment(b, k) => s = r
        /\ IsSectionWithoutSegment(b, k) /\ k # 0 /\ InFile(Sec(s.elf, k)) =>
             r.pos <= Sec(s.elf, k).offset /\ Sec(s.elf, k).offset + Sec(s.elf, k).size <= s.pos
    BY <2>1, <2>3, <2>6, AloneAhead DEF n
  <2>8. Acc(s, b)
    BY <2>1, <2>3, AloneStep DEF n
  <2>. HIDE DEF s
  <2>9. s.pos \in Nat /\ lo <= r.pos
    <3>1. acc.pos \in Nat
      BY <1>3
    <3>. QED
      BY <2>3, <2>6, <2>8, <3>1 DEF Acc
  <2>10. acc.pos <= s.pos /\ s.pos <= acc.pos + kd
    <3>1. acc.pos \in Nat
      BY <1>3
    <3>2. r.pos <= s.pos /\ s.pos <= r.pos + c
      BY <2>7 DEF c
    <3>3. acc.pos <= r.pos /\ r.pos <= acc.pos + kc
      BY <2>3
    <3>. QED
      BY ONLY <1>3, <2>4, <2>6, <2>9, <3>1, <3>2, <3>3
  <2>11. /\ \A j \in 0 .. (n - 1) : Sec(s.elf, j).offset \in Nat /\ Sec(s.elf, j).size \in Nat
         /\ \A j \in 0 .. (n - 1) : Sec(r.elf, j).offset \in Nat /\ Sec(r.elf, j).size \in Nat
    BY <2>3, <2>8, SectionLaid DEF Acc, n
  <2>12. \A j \in D(k) \cup {k} : j \in 0 .. (n - 1)
    BY <1>5, <2>1
  <2>13. CASE k = 0
    <3>1. D(k + 1) = D(k) /\ \A j \in D(k) : j # k
      BY <1>7, <1>8, <2>13
    <3>2. InRoom(s.elf, lo, s.pos, D(k))
      BY <2>3, <2>6, <2>7, <2>9, <2>11, <2>12, <3>1, RoomKeeps, SMTT(30)
    <3>. QED
      BY <2>2, <2>8, <2>10, <3>1, <3>2 DEF kd
  <2>14. CASE k # 0 /\ IsSectionWithoutSegment(b, k)
    <3>1. D(k + 1) = D(k) \cup {k} /\ k \notin D(k)
      BY <1>6, <1>9, <2>1, <2>14
    <3>2. \A j \in D(k) : Sec(s.elf, j) = Sec(r.elf, j)
      BY <2>7, <2>12, <3>1
    <3>3. InFile(Sec(s.elf, k)) =>
             r.pos <= Sec(s.elf, k).offset /\ Sec(s.elf, k).offset + Sec(s.elf, k).size <= s.pos
      BY <2>7, <2>14
    <3>4. InRoom(s.elf, lo, s.pos, D(k) \cup {k})
      BY <2>3, <2>6, <2>7, <2>9, <2>11, <2>12, <3>1, <3>2, <3>3, RoomForOne
    <3>. QED
      BY <2>2, <2>8, <2>10, <3>1, <3>4 DEF kd
  <2>15. CASE k # 0 /\ ~IsSectionWithoutSegment(b, k)
    <3>1. D(k + 1) = D(k)
      <4>1. k \in D(k) /\ D(k + 1) = D(k) \cup {k}
        BY <1>6, <1>9, <2>1, <2>15
      <4>. QED
        BY <4>1
    <3>2. InRoom(s.elf, lo, s.pos, D(k))
      BY <2>3, <2>7, <2>15
    <3>. QED
      BY <2>2, <2>8, <2>10, <3>1, <3>2 DEF kd
  <2>. QED
    BY <2>13, <2>14, <2>15
<1>12. Fine(f[n], n)
  <2>. HIDE DEF T, Fine
  <2>1. Nat \subseteq T
    BY <1>10, <1>11, SetInduction
  <2>. QED
    BY <1>1, <2>1 DEF T
<1>. QED
  BY <1>2, <1>4, <1>12 DEF n, c

(* The alignment of a segment with modest sections.                        *)
LEMMA RaisedModest ==
  ASSUME NEW e, NEW seg, Len(seg.secs) \in Nat, NEW m, seg.align <= m, "align" \in DOMAIN seg,
         \A i \in ToSet(seg.secs) : Sec(e, i).align <= m
  PROVE  Raised(e, seg).align <= m
<1>. DEFINE q == seg.secs
            l == Len(q)
<1>1. PICK f : /\ f[0] = seg.align
               /\ \A k \in 1 .. l : f[k] = (IF Sec(e, q[k]).align > f[k - 1] THEN Sec(e, q[k]).align
                                            ELSE f[k - 1])
               /\ Raised(e, seg) = [seg EXCEPT !.align = f[l]]
  BY RaisedUnfolds
<1>2. l \in Nat /\ \A k \in 1 .. l : Sec(e, q[k]).align <= m
  BY DEF ToSet
<1>. HIDE DEF q, l
<1>. DEFINE T == {k \in Nat : k <= l => f[k] <= m}
<1>3. 0 \in T
  BY <1>1
<1>4. ASSUME NEW k \in Nat, k \in T PROVE k + 1 \in T
  <2>. SUFFICES ASSUME k + 1 <= l PROVE f[k + 1] <= m
    OBVIOUS
  <2>1. k + 1 \in 1 .. l /\ (k + 1) - 1 = k /\ k <= l
    BY <1>2
  <2>. QED
    BY <1>1, <1>2, <1>4, <2>1
<1>5. f[l] <= m
  <2>. HIDE DEF T
  <2>1. Nat \subseteq T
    BY <1>3, <1>4, SetInduction
  <2>. QED
    BY <1>2, <2>1 DEF T
<1>. QED
  BY <1>1, <1>5

(* A file that is small against the range of an offset: sections,          *)
(* alignments and distances within a segment are at most m, a segment has  *)
(* at most r sections, and what all of it may take does not reach the end  *)
(* of the range.                                                           *)
Moderate(e, m) ==
  /\ \A i \in 0 .. (Len(e.secs) - 1) : Sec(e, i).size <= m /\ Sec(e, i).align <= m
  /\ \A g \in 1 .. Len(e.segs) :
       e.segs[g].align <= m /\ \A i \in ToSet(e.segs[g].secs) : Modest(Sec(e, i), e.segs[g].vaddr, m)

AtMost(e, m, r) ==
  e.hdr.ehsize + e.hdr.phentsize * Len(e.segs)
    + Len(e.segs) * (m + r * (m + m)) + Len(e.secs) * (m + m) + 4

Roomy(e) ==
  \E m, r \in Nat :
    Moderate(e, m) /\ (\A g \in 1 .. Len(e.segs) : Len(e.segs[g].secs) <= r) /\ AtMost(e, m, r) < Span

LEMMA BaseModest ==
  ASSUME NEW e, IsObject(e), NEW m \in Nat, Moderate(e, m), NEW b, b = Base(e),
         NEW g \in 1 .. Len(e.segs)
  PROVE  Tight(b, g, m)
<1>. DEFINE h == LayoutHeader(e)
            seg == e.segs[g]
<1>1. IsObject(h) /\ h.secs = e.secs /\ h.segs = e.segs
  BY HeaderKeeps
<1>2. b.secs = e.secs /\ b.segs[g] = Raised(h, seg)
  <2>. HIDE DEF h
  <2>1. b = CalcSegmentAlignment(h)
    BY DEF Base, h
  <2>. QED
    BY <1>1, <2>1, AlignmentKeeps
<1>. HIDE DEF h
<1>3. IsSegment(seg, Len(h.secs))
  BY <1>1 DEF IsObject
<1>4. /\ Len(seg.secs) \in Nat /\ "align" \in DOMAIN seg
      /\ {"vaddr", "secs"} \subseteq DOMAIN seg \ {"align"}
  <2>. HIDE DEF seg
  <2>1. seg.secs \in Seq(0 .. (Len(h.secs) - 1)) /\ {"align", "vaddr", "secs"} \subseteq DOMAIN seg
    BY <1>3, SegmentHas
  <2>2. Len(seg.secs) \in Nat
    BY <2>1, LenProperties
  <2>. QED
    BY <2>1, <2>2
<1>5. /\ seg.align <= m /\ \A i \in ToSet(seg.secs) : Modest(Sec(e, i), seg.vaddr, m)
      /\ \A i : Sec(h, i) = Sec(e, i) /\ Sec(b, i) = Sec(e, i)
  BY <1>1, <1>2 DEF Moderate, Sec
<1>. HIDE DEF seg
<1>6. Raised(h, seg).align <= m
  <2>1. \A i \in ToSet(seg.secs) : Sec(h, i).align <= m
    BY <1>5 DEF Modest
  <2>. QED
    BY <1>4, <1>5, <2>1, RaisedModest
<1>7. Raised(h, seg).vaddr = seg.vaddr /\ Raised(h, seg).secs = seg.secs
  BY <1>1, <1>3, <1>4, RaisedKeeps
<1>. QED
  BY <1>2, <1>5, <1>6, <1>7 DEF Tight

LEMMA RowsLie ==
  ASSUME NEW c \in Nat, NEW j \in Nat, NEW k \in Nat, j <= k
  PROVE  j * c \in Nat /\ k * c \in Nat /\ j * c <= k * c
<1>1. PICK d \in Nat : k = j + d
  <2>1. k - j \in Nat /\ k = j + (k - j)
    OBVIOUS
  <2>. QED
    BY <2>1
<1>2. k * c = j * c + d * c /\ d * c \in Nat /\ j * c \in Nat
  BY <1>1
<1>. DEFINE x == j * c
            y == d * c
<1>. HIDE DEF x, y
<1>3. x <= x + y
  BY <1>2 DEF x, y
<1>. QED
  BY <1>2, <1>3 DEF x, y

(* The whole layout: the sections lie between the program headers and the  *)
(* section headers.                                                        *)
LEMMA LayoutStow ==
  ASSUME NEW e, IsObject(e), Roomy(e), NEW l, l = Layout(e), l.ok
  PROVE  /\ \E hi \in Nat :
              /\ InRoom(l.elf, e.hdr.ehsize + e.hdr.phentsize * Len(e.segs), hi,
                        1 .. (Len(e.secs) - 1))
              /\ e.hdr.ehsize + e.hdr.phentsize * Len(e.segs) <= hi /\ hi <= l.elf.hdr.shoff
         /\ l.elf.hdr.ehsize = e.hdr.ehsize /\ l.elf.hdr.phentsize = e.hdr.phentsize
         /\ l.elf.hdr.phoff = IF e.segs # << >> THEN e.hdr.ehsize ELSE 0
         /\ Kept(l.elf, e)
<1>. DEFINE b == Base(e)
            first == FirstAcc(e)
            r == LayoutSegments(first)
            a == LayoutSectionsWithoutSegments(r)
            t == LayoutSectionTable(a)
            n == Len(e.secs)
            G == 1 .. Len(e.segs)
            k == Len(e.segs)
            h == LayoutHeader(e)
<1>1. PICK m \in Nat, z \in Nat :
        Moderate(e, m) /\ (\A g \in G : Len(e.segs[g].secs) <= z) /\ AtMost(e, m, z) < Span
  BY DEF Roomy
<1>. DEFINE c == m + z * (m + m)
            low == e.hdr.ehsize + e.hdr.phentsize * k
<1>2. /\ IsObject(b) /\ b.hdr = h.hdr /\ b.secs = e.secs /\ Len(b.segs) = k
      /\ \A g \in G : b.segs[g].secs = e.segs[g].secs
      /\ Fresh(first, b)
  BY BaseKeeps
<1>3. l = IF r.ok THEN t ELSE r
  BY DEF Layout, LayoutRest, FirstAcc, Base
<1>4. /\ h.hdr.ehsize = e.hdr.ehsize /\ h.hdr.phentsize = e.hdr.phentsize
      /\ h.hdr.phoff = (IF e.segs # << >> THEN e.hdr.ehsize ELSE 0) /\ h.hdr.phnum = k
  <2>1. /\ {"hdr", "secs", "segs"} \subseteq DOMAIN e
        /\ {"phnum", "phoff", "shnum", "shoff", "ehsize", "phentsize", "shentsize"} \subseteq DOMAIN e.hdr
    BY HeaderHas DEF IsObject
  <2>. QED
    BY <2>1 DEF LayoutHeader
<1>5. first.pos = X(low)
  <2>1. first.pos = X(h.hdr.ehsize + h.hdr.phentsize * h.hdr.phnum)
    BY DEF FirstAcc
  <2>. HIDE DEF h
  <2>. QED
    BY <1>4, <2>1
<1>6. /\ n \in Nat /\ k \in Nat /\ e.hdr.ehsize \in Nat /\ e.hdr.phentsize \in Nat /\ Span \in Nat
      /\ e.hdr.phentsize * k \in Nat
  <2>1. n \in Nat /\ k \in Nat /\ e.hdr.ehsize \in Nat /\ e.hdr.phentsize \in Nat /\ Span \in Nat
    BY SeqIs, HeaderHas, SpanType DEF IsObject, Positive
  <2>. DEFINE p == e.hdr.phentsize
  <2>. HIDE DEF p, k
  <2>2. p \in Nat => p * k \in Nat
    BY <2>1
  <2>. QED
    BY <2>1, <2>2 DEF p
<1>. DEFINE kc == k * c
            nm == n * (m + m)
<1>7. low \in Nat /\ c \in Nat /\ kc \in Nat /\ nm \in Nat /\ low + kc + nm + 4 < Span
  <2>1. low \in Nat
    <3>. DEFINE p == e.hdr.phentsize * k
    <3>1. p \in Nat
      BY <1>6
    <3>. HIDE DEF p
    <3>2. e.hdr.ehsize + p \in Nat
      BY <1>6, <3>1
    <3>. QED
      BY <3>2 DEF p
  <2>2. c \in Nat
    OBVIOUS
  <2>3. kc \in Nat /\ nm \in Nat
    <3>. HIDE DEF k, n, c
    <3>. QED
      BY <1>6, <2>2
  <2>4. AtMost(e, m, z) = low + kc + nm + 4
    BY DEF AtMost
  <2>. HIDE DEF low, kc, nm, c
  <2>. QED
    BY <1>1, <2>1, <2>2, <2>3, <2>4
<1>. HIDE DEF b, first, h
<1>8. X(low) = low
  <2>1. low < Span
    <3>. HIDE DEF low, kc, nm, Span
    <3>. QED
      BY ONLY <1>6, <1>7
  <2>. HIDE DEF low
  <2>. QED
    BY <1>7, <2>1, FieldKept
<1>9. l = t /\ r.ok
  <2>. HIDE DEF r, t
  <2>. QED
    BY <1>3
<1>10. \A g \in 1 .. Len(b.segs) : Tight(b, g, m) /\ m + Len(b.segs[g].secs) * (m + m) <= c
  <2>. SUFFICES ASSUME NEW g \in G
                PROVE  Tight(b, g, m) /\ m + Len(b.segs[g].secs) * (m + m) <= c
    BY <1>2
  <2>1. Tight(b, g, m)
    BY <1>1, BaseModest DEF b
  <2>. DEFINE x == Len(b.segs[g].secs)
              mm == m + m
  <2>2. x \in Nat /\ x <= z
    <3>1. IsSegment(b.segs[g], Len(b.secs))
      BY <1>2 DEF IsObject
    <3>. DEFINE seg == b.segs[g]
    <3>. HIDE DEF seg
    <3>2. seg.secs \in Seq(0 .. (Len(b.secs) - 1))
      BY <3>1, SegmentHas DEF seg
    <3>3. Len(seg.secs) \in Nat
      BY <3>2, LenProperties
    <3>. QED
      BY <1>1, <1>2, <3>3 DEF seg
  <2>3. mm \in Nat
    OBVIOUS
  <2>. HIDE DEF x
  <2>4. x * mm \in Nat /\ z * mm \in Nat /\ x * mm <= z * mm
    <3>. HIDE DEF mm
    <3>. QED
      BY <2>2, <2>3, RowsLie
  <2>. DEFINE u == x * mm
              v == z * mm
  <2>5. m + u <= m + v
    <3>1. u \in Nat /\ v \in Nat /\ u <= v
      BY <2>4
    <3>. HIDE DEF u, v
    <3>. QED
      BY <3>1
  <2>. QED
    BY <2>1, <2>5 DEF x
<1>11. first.pos = low
  BY <1>5, <1>8
<1>. HIDE DEF low, c, kc, nm
<1>12. /\ Acc(r, b) /\ Stowed(r, b, low) /\ Done(r, b, 1 .. Len(b.segs))
       /\ low <= r.pos /\ r.pos <= low + kc
  <2>1. first.pos + Len(b.segs) * c < Span
    <3>1. Len(b.segs) * c = kc
      BY <1>2 DEF kc
    <3>2. low + kc < Span
      <4>. HIDE DEF Span
      <4>. QED
        BY ONLY <1>6, <1>7
    <3>. QED
      BY <1>11, <3>1, <3>2
  <2>. DEFINE rr == LayoutSegments(first)
  <2>2. rr.ok /\ rr = LayoutSegments(first)
    BY <1>9
  <2>. HIDE DEF rr
  <2>3. /\ Acc(rr, b) /\ Stowed(rr, b, first.pos) /\ Done(rr, b, 1 .. Len(b.segs))
        /\ first.pos <= rr.pos /\ rr.pos <= first.pos + Len(b.segs) * c
    BY <1>2, <1>7, <1>10, <2>1, <2>2, SegmentsStow
  <2>4. Len(b.segs) * c = kc
    BY <1>2 DEF kc
  <2>. QED
    BY <1>11, <2>3, <2>4 DEF rr
<1>. HIDE DEF r
<1>13. r.pos \in Nat
  BY <1>12 DEF Acc
<1>14. InRoom(r.elf, low, r.pos, Within(b))
  <2>1. \A j \in Within(b) : j \in r.gen \ {0}
    <3>. SUFFICES ASSUME NEW j \in Within(b) PROVE j \in r.gen /\ j # 0
      OBVIOUS
    <3>1. j # 0 /\ \E g \in 1 .. Len(b.segs) : j \in ToSet(b.segs[g].secs)
      BY DEF Within, IsSectionWithoutSegment
    <3>. QED
      BY <1>12, <3>1 DEF Done
  <2>2. InRoom(r.elf, low, r.pos, r.gen \ {0})
    BY <1>12 DEF Stowed
  <2>. QED
    BY <2>1, <2>2 DEF InRoom
<1>15. /\ Acc(a, b) /\ InRoom(a.elf, low, a.pos, 1 .. (n - 1))
       /\ r.pos <= a.pos /\ a.pos <= r.pos + nm
  <2>1. r.pos + Len(b.secs) * (m + m) < Span
    <3>1. Len(b.secs) * (m + m) = nm
      BY <1>2 DEF nm
    <3>2. r.pos + nm < Span
      <4>. HIDE DEF Span
      <4>. QED
        BY ONLY <1>6, <1>7, <1>12, <1>13
    <3>. QED
      BY <3>1, <3>2
  <2>2. \A i \in 0 .. (Len(b.secs) - 1) : Sec(b, i).size <= m /\ Sec(b, i).align <= m
    BY <1>1, <1>2 DEF Moderate, Sec
  <2>. DEFINE aa == LayoutSectionsWithoutSegments(r)
  <2>3. aa = LayoutSectionsWithoutSegments(r)
    OBVIOUS
  <2>. HIDE DEF aa
  <2>4. /\ Acc(aa, b) /\ InRoom(aa.elf, low, aa.pos, 1 .. (Len(b.secs) - 1))
        /\ r.pos <= aa.pos /\ aa.pos <= r.pos + Len(b.secs) * (m + m)
    BY <1>7, <1>12, <1>14, <2>1, <2>2, <2>3, AloneStow
  <2>5. Len(b.secs) * (m + m) = nm /\ Len(b.secs) = n
    BY <1>2 DEF nm
  <2>. QED
    BY <2>4, <2>5 DEF aa
<1>. HIDE DEF a
<1>16. /\ t.elf.secs = a.elf.secs /\ t.elf.hdr.shoff = X(a.pos + Pad(a.pos, 4))
       /\ \A x \in DOMAIN a.elf.hdr \ {"shoff"} : t.elf.hdr[x] = a.elf.hdr[x]
  BY <1>15, TableKeeps DEF Acc, Laid
<1>. HIDE DEF t
<1>17. a.pos \in Nat /\ a.pos <= t.elf.hdr.shoff
  <2>1. a.pos \in Nat /\ 4 \in Positive
    BY <1>15 DEF Acc, Positive
  <2>. DEFINE p == Pad(a.pos, 4)
              v == a.pos + p
  <2>2. p \in Nat /\ p < 4
    BY <2>1, PadType
  <2>. HIDE DEF p
  <2>3. v \in Nat /\ v < Span /\ a.pos <= v
    <3>. HIDE DEF Span
    <3>1. /\ r.pos <= low + kc /\ a.pos <= r.pos + nm /\ low + kc + nm + 4 < Span
          /\ low \in Nat /\ kc \in Nat /\ nm \in Nat /\ Span \in Nat
      BY <1>6, <1>7, <1>12, <1>15
    <3>. QED
      BY ONLY <1>13, <2>1, <2>2, <3>1
  <2>. HIDE DEF v
  <2>4. X(v) = v
    BY <2>3, FieldKept
  <2>. QED
    BY <1>16, <2>1, <2>3, <2>4 DEF v, p
<1>18. /\ t.elf.hdr.ehsize = e.hdr.ehsize /\ t.elf.hdr.phentsize = e.hdr.phentsize
       /\ t.elf.hdr.phoff = (IF e.segs # << >> THEN e.hdr.ehsize ELSE 0)
  <2>1. a.elf.hdr = h.hdr /\ {"ehsize", "phentsize", "phoff"} \subseteq DOMAIN a.elf.hdr \ {"shoff"}
    <3>1. a.elf.hdr = b.hdr /\ IsObject(a.elf)
      BY <1>15 DEF Acc, Laid
    <3>. QED
      BY <1>2, <3>1, HeaderHas
  <2>. QED
    BY <1>4, <1>16, <2>1
<1>19. InRoom(l.elf, low, a.pos, 1 .. (n - 1)) /\ low <= a.pos
  <2>1. \A j : Sec(l.elf, j) = Sec(a.elf, j)
    BY <1>9, <1>16 DEF Sec
  <2>2. low <= a.pos
    BY <1>7, <1>12, <1>13, <1>15, <1>17
  <2>. QED
    BY <1>15, <2>1, <2>2 DEF InRoom
<1>20. Kept(l.elf, e)
  BY LayoutKeeps
<1>. QED
  BY <1>9, <1>17, <1>18, <1>19, <1>20 DEF low

(* Header, tables and sections of a saved object.                          *)
Rows(base, size, count) ==
  {[from |-> base + (k - 1) * size, to |-> base + k * size] : k \in 1 .. count}

Data(e) ==
  {[from |-> e.secs[i].offset, to |-> e.secs[i].offset + e.secs[i].size] :
     i \in {j \in 2 .. Len(e.secs) : InFile(e.secs[j])}}

(* The rows of a table lie one behind the other.                           *)
LEMMA RowsApart ==
  ASSUME NEW base \in Nat, NEW size \in Nat, NEW count \in Nat
  PROVE  /\ \A x \in Rows(base, size, count) :
              /\ x.from \in Nat /\ x.to \in Nat
              /\ base <= x.from /\ x.from <= x.to /\ x.to <= base + size * count
         /\ \A x, y \in Rows(base, size, count) : x = y \/ Apart(x, y)
<1>1. \A k \in 1 .. count : k - 1 \in Nat /\ k \in Nat /\ k - 1 <= k /\ k <= count
  OBVIOUS
<1>2. ASSUME NEW k \in 1 .. count
      PROVE  /\ base + (k - 1) * size \in Nat /\ base + k * size \in Nat
             /\ base <= base + (k - 1) * size /\ base + (k - 1) * size <= base + k * size
             /\ base + k * size <= base + size * count
  <2>. DEFINE u == (k - 1) * size
              v == k * size
              w == count * size
  <2>1. u \in Nat /\ v \in Nat /\ w \in Nat /\ u <= v /\ v <= w
    BY <1>1, RowsLie
  <2>2. w = size * count
    OBVIOUS
  <2>. HIDE DEF u, v, w
  <2>3. /\ base + u \in Nat /\ base + v \in Nat
        /\ base <= base + u /\ base + u <= base + v /\ base + v <= base + w
    BY <2>1
  <2>. QED
    BY <2>2, <2>3 DEF u, v
<1>3. ASSUME NEW j \in 1 .. count, NEW k \in 1 .. count, j < k
      PROVE  base + j * size <= base + (k - 1) * size
  <2>1. j \in Nat /\ k - 1 \in Nat /\ j <= k - 1
    BY <1>3
  <2>. DEFINE u == j * size
              v == (k - 1) * size
  <2>2. u \in Nat /\ v \in Nat /\ u <= v
    BY <2>1, RowsLie
  <2>. HIDE DEF u, v
  <2>3. base + u <= base + v
    BY <2>2
  <2>. QED
    BY <2>3 DEF u, v
<1>4. ASSUME NEW x \in Rows(base, size, count), NEW y \in Rows(base, size, count)
      PROVE  x = y \/ Apart(x, y)
  <2>1. PICK j \in 1 .. count : x = [from |-> base + (j - 1) * size, to |-> base + j * size]
    BY DEF Rows
  <2>2. PICK k \in 1 .. count : y = [from |-> base + (k - 1) * size, to |-> base + k * size]
    BY DEF Rows
  <2>3. CASE j = k
    BY <2>1, <2>2, <2>3
  <2>4. CASE j < k
    <3>1. x.to <= y.from
      BY <1>3, <2>1, <2>2, <2>4
    <3>. QED
      BY <3>1 DEF Apart
  <2>5. CASE k < j
    <3>1. y.to <= x.from
      BY <1>3, <2>1, <2>2, <2>5
    <3>. QED
      BY <3>1 DEF Apart
  <2>. QED
    BY <2>3, <2>4, <2>5
<1>5. ASSUME NEW x \in Rows(base, size, count)
      PROVE  /\ x.from \in Nat /\ x.to \in Nat
             /\ base <= x.from /\ x.from <= x.to /\ x.to <= base + size * count
  <2>1. PICK k \in 1 .. count : x = [from |-> base + (k - 1) * size, to |-> base + k * size]
    BY DEF Rows
  <2>2. x.from = base + (k - 1) * size /\ x.to = base + k * size
    BY <2>1
  <2>. QED
    BY <1>2, <2>2
<1>. QED
  BY <1>4, <1>5

(* Nothing lies over anything else.                                        *)
LEMMA EverythingApart ==
  ASSUME NEW f, NEW lo \in Nat, NEW hi \in Nat, IsObject(f), lo <= hi, hi <= f.hdr.shoff,
         InRoom(f, lo, hi, 1 .. (Len(f.secs) - 1)),
         lo = f.hdr.ehsize + f.hdr.phentsize * Len(f.segs),
         f.segs # << >> => f.hdr.phoff = f.hdr.ehsize,
         NEW x, NEW y,
         {x, y} \subseteq {[from |-> 0, to |-> f.hdr.ehsize]}
                          \cup Rows(f.hdr.phoff, f.hdr.phentsize, Len(f.segs))
                          \cup Rows(f.hdr.shoff, f.hdr.shentsize, Len(f.secs)) \cup Data(f)
  PROVE  x = y \/ Apart(x, y)
<1>. DEFINE head == [from |-> 0, to |-> f.hdr.ehsize]
            P == Rows(f.hdr.phoff, f.hdr.phentsize, Len(f.segs))
            S == Rows(f.hdr.shoff, f.hdr.shentsize, Len(f.secs))
            D == Data(f)
            eh == f.hdr.ehsize
            sh == f.hdr.shoff
<1>1. /\ eh \in Nat /\ sh \in Nat /\ f.hdr.phoff \in Nat /\ f.hdr.phentsize \in Nat
      /\ f.hdr.shentsize \in Nat /\ Len(f.segs) \in Nat /\ Len(f.secs) \in Nat
      /\ IsSeq(f.segs) /\ IsSeq(f.secs)
  BY SeqIs, HeaderHas DEF IsObject
<1>2. eh <= lo
  <2>. DEFINE p == f.hdr.phentsize * Len(f.segs)
  <2>1. p \in Nat
    <3>. DEFINE u == f.hdr.phentsize
                v == Len(f.segs)
    <3>1. u \in Nat /\ v \in Nat
      BY <1>1
    <3>. HIDE DEF u, v
    <3>2. u * v \in Nat
      BY <3>1
    <3>. QED
      BY <3>2 DEF u, v
  <2>2. lo = eh + p
    OBVIOUS
  <2>. HIDE DEF p, eh
  <2>. QED
    BY <1>1, <2>1, <2>2
<1>3. /\ \A p \in P : p.from \in Nat /\ p.to \in Nat /\ eh <= p.from /\ p.from <= p.to /\ p.to <= lo
      /\ \A p, q \in P : p = q \/ Apart(p, q)
  <2>1. CASE f.segs = << >>
    <3>1. Len(f.segs) = 0
      BY <2>1
    <3>2. P = {}
      BY <3>1 DEF Rows
    <3>. QED
      BY <3>2
  <2>2. CASE f.segs # << >>
    <3>1. f.hdr.phoff = eh
      BY <2>2
    <3>. QED
      BY <1>1, <3>1, RowsApart
  <2>. QED
    BY <2>1, <2>2
<1>4. /\ \A p \in S : p.from \in Nat /\ p.to \in Nat /\ sh <= p.from /\ p.from <= p.to
      /\ \A p, q \in S : p = q \/ Apart(p, q)
  BY <1>1, RowsApart
<1>5. /\ \A p \in D : p.from \in Nat /\ p.to \in Nat /\ lo <= p.from /\ p.from <= p.to /\ p.to <= hi
      /\ \A p, q \in D : p = q \/ Apart(p, q)
  <2>1. ASSUME NEW i \in 2 .. Len(f.secs)
        PROVE  /\ i - 1 \in 1 .. (Len(f.secs) - 1) /\ Sec(f, i - 1) = f.secs[i]
               /\ f.secs[i].offset \in Nat /\ f.secs[i].size \in Nat
    <3>1. i - 1 \in 1 .. (Len(f.secs) - 1) /\ (i - 1) + 1 = i /\ i \in 1 .. Len(f.secs)
      BY <1>1
    <3>2. IsSection(f.secs[i], i - 1)
      BY <3>1 DEF IsObject
    <3>3. f.secs[i].offset \in Nat /\ f.secs[i].size \in Nat
      BY <3>2, SectionHas
    <3>. QED
      BY <3>1, <3>3 DEF Sec
  <2>2. ASSUME NEW p \in D
        PROVE  p.from \in Nat /\ p.to \in Nat /\ lo <= p.from /\ p.from <= p.to /\ p.to <= hi
    <3>1. PICK i \in 2 .. Len(f.secs) :
            InFile(f.secs[i]) /\ p = [from |-> f.secs[i].offset, to |-> f.secs[i].offset + f.secs[i].size]
      BY DEF Data
    <3>. DEFINE o == f.secs[i].offset
                z == f.secs[i].size
    <3>2. o \in Nat /\ z \in Nat /\ lo <= o /\ o + z <= hi
      BY <2>1, <3>1 DEF InRoom
    <3>3. p.from = o /\ p.to = o + z
      BY <3>1
    <3>. HIDE DEF o, z
    <3>. QED
      BY <3>2, <3>3
  <2>3. ASSUME NEW p \in D, NEW q \in D
        PROVE  p = q \/ Apart(p, q)
    <3>1. PICK i \in 2 .. Len(f.secs) :
            InFile(f.secs[i]) /\ p = [from |-> f.secs[i].offset, to |-> f.secs[i].offset + f.secs[i].size]
      BY DEF Data
    <3>2. PICK j \in 2 .. Len(f.secs) :
            InFile(f.secs[j]) /\ q = [from |-> f.secs[j].offset, to |-> f.secs[j].offset + f.secs[j].size]
      BY DEF Data
    <3>3. CASE i = j
      BY <3>1, <3>2, <3>3
    <3>4. CASE i # j
      <4>1. i - 1 # j - 1
        BY <3>4
      <4>2. Clear(f.secs[i], f.secs[j])
        BY <2>1, <3>1, <3>2, <4>1 DEF InRoom
      <4>. QED
        BY <3>1, <3>2, <4>2 DEF Clear, Apart
    <3>. QED
      BY <3>3, <3>4
  <2>. QED
    BY <2>2, <2>3
<1>6. head.from = 0 /\ head.to = eh
  OBVIOUS
<1>7. \A p, q : Apart(p, q) => Apart(q, p)
  BY DEF Apart
<1>8. {x, y} \subseteq {head} \cup P \cup S \cup D
  OBVIOUS
<1>. HIDE DEF head, P, S, D, eh, sh
<1>9. \A p \in P \cup S \cup D : Apart(head, p)
  <2>1. \A p \in P \cup S \cup D : p.from \in Nat /\ eh <= p.from
    <3>1. \A p \in D : eh <= p.from
      BY <1>1, <1>2, <1>5
    <3>2. eh <= sh
      BY <1>1, <1>2 DEF sh
    <3>3. \A p \in S : eh <= p.from
      BY <1>1, <1>4, <3>2
    <3>. QED
      BY <1>3, <1>4, <1>5, <3>1, <3>3
  <2>. QED
    BY <1>6, <2>1 DEF Apart
<1>10. \A p \in P, q \in S \cup D : Apart(p, q)
  <2>1. \A q \in S \cup D : q.from \in Nat /\ lo <= q.from
    <3>1. lo <= sh
      BY <1>1 DEF sh
    <3>2. \A q \in S : lo <= q.from
      BY <1>1, <1>4, <3>1
    <3>. QED
      BY <1>4, <1>5, <3>2
  <2>2. \A p \in P : p.to \in Nat /\ p.to <= lo
    BY <1>3
  <2>3. ASSUME NEW p \in P, NEW q \in S \cup D PROVE p.to <= q.from
    BY <2>1, <2>2
  <2>. QED
    BY <2>3 DEF Apart
<1>11. \A p \in D, q \in S : Apart(p, q)
  <2>1. \A q \in S : q.from \in Nat /\ hi <= q.from
    BY <1>1, <1>4 DEF sh
  <2>2. ASSUME NEW p \in D, NEW q \in S PROVE p.to <= q.from
    BY <1>5, <2>1
  <2>. QED
    BY <2>2 DEF Apart
<1>. QED
  BY <1>3, <1>4, <1>5, <1>7, <1>8, <1>9, <1>10, <1>11

(* A save of a file that is small against the range of an offset puts      *)
(* nothing over anything else: not a section over another, nor over the    *)
(* header or a table.                                                      *)
THEOREM RoomySavesApart ==
  FSpec => [][SaveFile /\ reply' = "saved" /\ Roomy(elf) => NoOverlap']_fvars
<1>1. ASSUME FInv, SaveFile, reply' = "saved", Roomy(elf) PROVE NoOverlap'
  <2>. DEFINE l == Layout(elf)
              f == elf'
  <2>1. IsObject(elf) /\ f = l.elf /\ l.ok
    <3>1. IsObject(elf) /\ f = l.elf
      BY <1>1 DEF FInv, SaveFile
    <3>2. reply' = IF ~SaveOk(l, Room) THEN "refused"
                   ELSE IF Written(SaveWrites(l.elf), IF l.ok THEN Len(SaveWrites(l.elf)) ELSE 0, Room).fail
                        THEN "cut" ELSE "saved"
      BY <1>1 DEF SaveFile
    <3>3. l.ok
      <4>. HIDE DEF l
      <4>. QED
        BY <1>1, <3>2 DEF SaveOk
    <3>. QED
      BY <3>1, <3>3
  <2>. DEFINE lo == elf.hdr.ehsize + elf.hdr.phentsize * Len(elf.segs)
  <2>2. PICK hi \in Nat :
          /\ InRoom(f, lo, hi, 1 .. (Len(elf.secs) - 1)) /\ lo <= hi /\ hi <= f.hdr.shoff
          /\ f.hdr.ehsize = elf.hdr.ehsize /\ f.hdr.phentsize = elf.hdr.phentsize
          /\ f.hdr.phoff = (IF elf.segs # << >> THEN elf.hdr.ehsize ELSE 0)
          /\ Kept(f, elf)
    BY <1>1, <2>1, LayoutStow
  <2>3. IsObject(f) /\ Len(f.secs) = Len(elf.secs) /\ Len(f.segs) = Len(elf.segs)
    BY <2>2 DEF Kept
  <2>4. lo \in Nat /\ lo = f.hdr.ehsize + f.hdr.phentsize * Len(f.segs)
    <3>1. lo = f.hdr.ehsize + f.hdr.phentsize * Len(f.segs)
      BY <2>2, <2>3
    <3>2. f.hdr.ehsize \in Nat /\ f.hdr.phentsize \in Nat /\ Len(f.segs) \in Nat
      BY <2>3, HeaderHas, SeqIs DEF IsObject
    <3>. DEFINE u == f.hdr.ehsize
                v == f.hdr.phentsize
                w == Len(f.segs)
    <3>. HIDE DEF u, v, w
    <3>3. u \in Nat /\ v \in Nat /\ w \in Nat => u + v * w \in Nat
      OBVIOUS
    <3>. QED
      BY <3>1, <3>2, <3>3 DEF u, v, w
  <2>5. f.segs # << >> => f.hdr.phoff = f.hdr.ehsize
    <3>1. f.segs # << >> => elf.segs # << >>
      <4>1. IsSeq(f.segs) /\ Len(f.segs) = Len(elf.segs)
        BY <2>3 DEF IsObject
      <4>2. elf.segs = << >> => Len(f.segs) = 0
        BY <4>1
      <4>. HIDE DEF f
      <4>3. Len(f.segs) = 0 => f.segs = << >>
        BY <4>1, EmptySeq DEF IsSeq
      <4>. QED
        BY <4>2, <4>3
    <3>. QED
      BY <2>2, <3>1
  <2>6. Places(elf)' = {[from |-> 0, to |-> f.hdr.ehsize]}
                        \cup Rows(f.hdr.phoff, f.hdr.phentsize, Len(f.segs))
                        \cup Rows(f.hdr.shoff, f.hdr.shentsize, Len(f.secs)) \cup Data(f)
    BY DEF Places, Rows, Data, InFile, HasBits
  <2>. HIDE DEF lo, f
  <2>7. ASSUME NEW x, NEW y,
               {x, y} \subseteq {[from |-> 0, to |-> f.hdr.ehsize]}
                        \cup Rows(f.hdr.phoff, f.hdr.phentsize, Len(f.segs))
                        \cup Rows(f.hdr.shoff, f.hdr.shentsize, Len(f.secs)) \cup Data(f)
        PROVE  x = y \/ Apart(x, y)
    BY <2>2, <2>3, <2>4, <2>5, <2>7, EverythingApart
  <2>8. \A x, y \in Places(elf)' : x = y \/ Apart(x, y)
    BY <2>6, <2>7
  <2>. QED
    BY <2>8 DEF NoOverlap
<1>. QED
  BY <1>1, FInvHolds, PTL DEF FSpec

-------------------------------------------------------------------------------
(***************************************************************************)
(* What is in a file that was written in full.                             *)
(***************************************************************************)
Free(v, w) == v.at + Len(v.cells) <= w.at \/ w.at + Len(w.cells) <= v.at

(* The cells are in the file, behind position at.                          *)
Found(bytes, at, cells) ==
  /\ at + Len(cells) <= Len(bytes)
  /\ \A c \in 1 .. Len(cells) : bytes[at + c] = cells[c]

(* t is what s has from position lo to hi, and u is s followed by t.       *)
IsPart(t, s, lo, hi) ==
  /\ t \in Seq(Nat) /\ Len(t) \in Nat /\ Len(t) = IF lo < hi THEN hi - lo ELSE 0
  /\ \A c \in (lo + 1) .. hi : t[c - lo] = s[c]

IsJoin(u, s, t) ==
  /\ u \in Seq(Nat) /\ Len(u) = Len(s) + Len(t)
  /\ \A c \in 1 .. Len(s) : u[c] = s[c]
  /\ \A c \in 1 .. Len(t) : u[Len(s) + c] = t[c]

LEMMA Part ==
  ASSUME NEW s \in Seq(Nat), NEW lo \in Nat, NEW hi \in Nat, hi <= Len(s), NEW m, m = lo + 1,
         NEW t, t = SubSeq(s, m, hi)
  PROVE  IsPart(t, s, lo, hi)
<1>1. m \in Int /\ hi \in Int /\ Len(s) \in Nat
  OBVIOUS
<1>2. \A i \in m .. hi : s[i] \in Nat
  <2>1. \A i \in m .. hi : i \in 1 .. Len(s)
    BY <1>1
  <2>. QED
    BY <2>1
<1>4. /\ t \in Seq(Nat) /\ Len(t) = IF m <= hi THEN hi - m + 1 ELSE 0
      /\ \A i \in 1 .. (hi - m + 1) : t[i] = s[m + i - 1]
  BY <1>1, <1>2, SubSeqProperties, SMTT(30)
<1>5. \A c \in (lo + 1) .. hi : c - lo \in 1 .. (hi - m + 1) /\ m + (c - lo) - 1 = c
  BY <1>1
<1>6. (IF m <= hi THEN hi - m + 1 ELSE 0) = IF lo < hi THEN hi - lo ELSE 0
  BY <1>1
<1>7. Len(t) = (IF lo < hi THEN hi - lo ELSE 0) /\ Len(t) \in Nat
  <2>1. (IF lo < hi THEN hi - lo ELSE 0) \in Nat
    OBVIOUS
  <2>. QED
    BY <1>4, <1>6, <2>1
<1>8. \A c \in (lo + 1) .. hi : t[c - lo] = s[c]
  <2>. SUFFICES ASSUME NEW c \in (lo + 1) .. hi PROVE t[c - lo] = s[c]
    OBVIOUS
  <2>1. c - lo \in 1 .. (hi - m + 1) /\ m + (c - lo) - 1 = c
    BY <1>5
  <2>2. t[c - lo] = s[m + (c - lo) - 1]
    BY <1>4, <2>1
  <2>. QED
    BY <2>1, <2>2
<1>. QED
  BY <1>4, <1>7, <1>8 DEF IsPart

LEMMA Joined ==
  ASSUME NEW s \in Seq(Nat), NEW t \in Seq(Nat), NEW u, u = s \o t
  PROVE  IsJoin(u, s, t)
<1>. DEFINE n == Len(s)
            m == Len(t)
<1>1. n \in Nat /\ m \in Nat
  OBVIOUS
<1>2. /\ u \in Seq(Nat) /\ Len(u) = n + m
      /\ \A i \in 1 .. (n + m) : u[i] = IF i <= n THEN s[i] ELSE t[i - n]
  BY ConcatProperties
<1>. HIDE DEF n, m
<1>3. \A c \in 1 .. n : c \in 1 .. (n + m) /\ c <= n
  BY <1>1
<1>4. \A c \in 1 .. m : n + c \in 1 .. (n + m) /\ ~(n + c <= n) /\ (n + c) - n = c
  BY <1>1
<1>. QED
  BY <1>2, <1>3, <1>4 DEF IsJoin, n, m

(* A write that the device takes puts its cells where it should and leaves *)
(* the others alone.                                                       *)
LEMMA WriteHolds ==
  ASSUME NEW st, IsOut(st), NEW at \in Nat, NEW cells \in Seq(Nat), NEW u,
         u = WriteAt(st, at, cells), ~u.fail
  PROVE  /\ ~st.fail /\ Found(u.bytes, at, cells) /\ Len(st.bytes) <= Len(u.bytes)
         /\ \A c \in 1 .. Len(st.bytes) :
              c <= at \/ at + Len(cells) < c => u.bytes[c] = st.bytes[c]
<1>. DEFINE b      == st.bytes
            gap    == at - Len(b)
            zeros  == [i \in 1 .. gap |-> 0]
            padded == b \o zeros
            n      == Len(cells)
            p      == Len(padded)
            front  == SubSeq(padded, 1, at)
            back   == SubSeq(padded, at + n + 1, p)
            head   == front \o cells
            all    == head \o back
<1>1. b \in Seq(Nat) /\ Len(b) \in Nat /\ gap \in Int /\ n \in Nat
  BY DEF IsOut
<1>2. zeros \in Seq(Nat) /\ Len(zeros) \in Nat /\ Len(zeros) >= gap
  <2>1. CASE gap \in Nat
    <3>1. zeros \in [1 .. gap -> Nat]
      OBVIOUS
    <3>. HIDE DEF gap, zeros
    <3>2. zeros \in Seq(Nat)
      BY <2>1, <3>1, SeqMade
    <3>3. Len(zeros) = gap
      BY <2>1 DEF zeros
    <3>. QED
      BY <2>1, <3>2, <3>3
  <2>2. CASE gap \notin Nat
    <3>. HIDE DEF gap
    <3>1. 1 .. gap = {} /\ gap < 0
      BY <1>1, <2>2
    <3>2. zeros = << >>
      BY <3>1
    <3>. HIDE DEF zeros
    <3>. QED
      BY <1>1, <3>1, <3>2
  <2>. QED
    BY <2>1, <2>2
<1>. HIDE DEF zeros
<1>3. /\ padded \in Seq(Nat) /\ p = Len(b) + Len(zeros)
      /\ \A c \in 1 .. Len(b) : padded[c] = b[c]
  <2>. HIDE DEF b, padded
  <2>1. padded = b \o zeros
    BY DEF padded
  <2>2. IsJoin(padded, b, zeros)
    BY ONLY <1>1, <1>2, <2>1, Joined
  <2>. QED
    BY <2>2 DEF IsJoin
<1>. HIDE DEF padded, n
<1>4. p \in Nat /\ p >= at /\ p >= Len(b)
  BY <1>1, <1>2, <1>3
<1>. HIDE DEF p, b
<1>5. /\ front \in Seq(Nat) /\ Len(front) = at
      /\ \A c \in 1 .. at : front[c] = padded[c]
  <2>. DEFINE z == 0
              y == 1
  <2>1. z \in Nat /\ y = z + 1 /\ front = SubSeq(padded, y, at) /\ at <= Len(padded)
    BY <1>4 DEF p
  <2>. HIDE DEF front
  <2>2. IsPart(front, padded, z, at)
    <3>. HIDE DEF z, y
    <3>. QED
      BY <1>3, <2>1, Part
  <2>3. \A c \in 1 .. at : c \in (z + 1) .. at /\ c - z = c
    OBVIOUS
  <2>4. (IF z < at THEN at - z ELSE 0) = at
    OBVIOUS
  <2>. HIDE DEF z
  <2>. QED
    BY <2>2, <2>3, <2>4 DEF IsPart
<1>. DEFINE o == at + n
            v == o + 1
<1>6. o \in Nat /\ v = o + 1 /\ back = SubSeq(padded, v, p)
  BY <1>1
<1>. HIDE DEF o, v, back, front
<1>7. /\ back \in Seq(Nat) /\ Len(back) \in Nat /\ Len(back) = IF o < p THEN p - o ELSE 0
      /\ \A c \in (o + 1) .. p : back[c - o] = padded[c]
  <2>1. p <= Len(padded)
    BY <1>4 DEF p
  <2>2. IsPart(back, padded, o, p)
    BY <1>3, <1>4, <1>6, <2>1, Part
  <2>. QED
    BY <2>2 DEF IsPart
<1>8. /\ head \in Seq(Nat) /\ Len(head) = o
      /\ \A c \in 1 .. at : head[c] = front[c]
      /\ \A c \in 1 .. n : head[at + c] = cells[c]
  <2>1. head = front \o cells
    OBVIOUS
  <2>. HIDE DEF head
  <2>2. IsJoin(head, front, cells)
    BY ONLY <1>5, <2>1, Joined
  <2>. QED
    BY <1>5, <2>2 DEF IsJoin, n, o
<1>. HIDE DEF head
<1>9. /\ all \in Seq(Nat) /\ Len(all) = o + Len(back)
      /\ \A c \in 1 .. o : all[c] = head[c]
      /\ \A c \in 1 .. Len(back) : all[o + c] = back[c]
  <2>1. all = head \o back
    OBVIOUS
  <2>. HIDE DEF all
  <2>2. IsJoin(all, head, back)
    BY ONLY <1>7, <1>8, <2>1, Joined
  <2>. QED
    BY <1>8, <2>2 DEF IsJoin
<1>. HIDE DEF all
<1>10. /\ ~st.fail /\ u.bytes = all
  <2>1. WriteAt(st, at, cells) = IF st.fail THEN st
                                 ELSE IF Len(all) <= st.room THEN [st EXCEPT !.bytes = all]
                                 ELSE [st EXCEPT !.bytes = SubSeq(all, 1, st.room), !.fail = TRUE]
    BY DEF WriteAt, all, head, front, back, padded, zeros, gap, b, n, p, o, v
  <2>2. "bytes" \in DOMAIN st /\ "fail" \in DOMAIN st
    BY DEF IsOut
  <2>3. ~st.fail
    BY <2>1
  <2>4. Len(all) <= st.room
    <3>. SUFFICES ASSUME ~(Len(all) <= st.room) PROVE FALSE
      OBVIOUS
    <3>1. u = [st EXCEPT !.bytes = SubSeq(all, 1, st.room), !.fail = TRUE]
      BY <2>1, <2>3
    <3>2. u.fail = TRUE
      BY <2>2, <3>1
    <3>. QED
      BY <3>2
  <2>5. u = [st EXCEPT !.bytes = all]
    BY <2>1, <2>3, <2>4
  <2>6. u.bytes = all
    BY <2>2, <2>5
  <2>. QED
    BY <2>3, <2>6
<1>11. at + n <= Len(all) /\ Len(b) <= Len(all)
  <2>. DEFINE bn == Len(b)
              kn == Len(back)
              an == Len(all)
  <2>1. /\ at \in Nat /\ n \in Nat /\ bn \in Nat /\ p \in Nat /\ kn \in Nat /\ bn <= p
        /\ o = at + n /\ an = o + kn /\ kn = IF o < p THEN p - o ELSE 0
    BY <1>1, <1>4, <1>6, <1>7, <1>9 DEF o
  <2>. HIDE DEF bn, kn, an
  <2>2. at + n <= an /\ bn <= an
    BY ONLY <2>1
  <2>. QED
    BY <2>2 DEF bn, an
<1>12. \A c \in 1 .. n : all[at + c] = cells[c]
  <2>1. \A c \in 1 .. n : at + c \in 1 .. o
    BY <1>1 DEF o
  <2>. QED
    BY <1>8, <1>9, <2>1
<1>13. ASSUME NEW c \in 1 .. Len(b), c <= at \/ o < c PROVE all[c] = b[c]
  <2>1. CASE c <= at
    <3>1. c \in 1 .. at /\ c \in 1 .. o
      BY <1>1, <2>1 DEF o
    <3>. QED
      BY <1>3, <1>5, <1>8, <1>9, <3>1
  <2>2. CASE o < c
    <3>1. c \in (o + 1) .. p /\ o < p
      BY <1>1, <1>4, <1>6, <2>2
    <3>2. c - o \in 1 .. Len(back) /\ o + (c - o) = c
      BY <1>4, <1>6, <1>7, <3>1
    <3>. QED
      BY <1>3, <1>7, <1>9, <3>1, <3>2
  <2>. QED
    BY <1>13, <2>1, <2>2
<1>. QED
  BY <1>10, <1>11, <1>12, <1>13 DEF Found, n, b, o

(* Of writes that are the same or lie apart each is found in the file.     *)
LEMMA AllHold ==
  ASSUME NEW writes \in Seq(WriteSet), NEW out, out = Written(writes, Len(writes), Room),
         ~out.fail,
         \A j, k \in 1 .. Len(writes) : writes[j] = writes[k] \/ Free(writes[j], writes[k])
  PROVE  out.bytes \in Seq(Nat) /\ \A k \in 1 .. Len(writes) : Found(out.bytes, writes[k].at, writes[k].cells)
<1>. DEFINE m == Len(writes)
            q == SubSeq(writes, 1, m)
<1>1. m \in Nat /\ q = writes /\ Room \in Nat
  BY ElfFileAssumption
<1>2. PICK f : /\ f[0] = OutStream(Room)
               /\ \A k \in 1 .. m : f[k] = Written1(f[k - 1], writes[k])
               /\ out = f[m]
  <2>1. q = SubSeq(writes, 1, m) /\ Len(q) \in Nat
    BY <1>1
  <2>. HIDE DEF q
  <2>2. Unfolded(writes, m, Room, q)
    BY ONLY <2>1, WrittenUnfolds
  <2>. QED
    BY <1>1, <2>2 DEF Unfolded
<1>3. \A k \in 1 .. m : writes[k].at \in Nat /\ writes[k].cells \in Seq(Nat)
  <2>1. \A k \in 1 .. m : writes[k] \in WriteSet
    OBVIOUS
  <2>. QED
    BY <2>1 DEF WriteSet
<1>. DEFINE T == {k \in Nat : k <= m =>
                    /\ IsOut(f[k])
                    /\ ~f[k].fail => \A j \in 1 .. k : Found(f[k].bytes, writes[j].at, writes[j].cells)}
<1>. HIDE DEF m, q
<1>4. 0 \in T
  <2>1. << >> \in Seq(Nat) /\ IsOut(OutStream(Room))
    BY <1>1 DEF OutStream, IsOut
  <2>. QED
    BY <1>2, <2>1
<1>5. ASSUME NEW k \in Nat, k \in T PROVE k + 1 \in T
  <2>. SUFFICES ASSUME k + 1 <= m
                PROVE  /\ IsOut(f[k + 1])
                       /\ ~f[k + 1].fail => \A j \in 1 .. (k + 1) : Found(f[k + 1].bytes, writes[j].at, writes[j].cells)
    OBVIOUS
  <2>. DEFINE st == f[k]
              w  == writes[k + 1]
              at == w.at
              c  == w.cells
              u  == f[k + 1]
  <2>1. k + 1 \in 1 .. m /\ (k + 1) - 1 = k /\ k <= m
    BY <1>1
  <2>2. IsOut(st) /\ (~st.fail => \A j \in 1 .. k : Found(st.bytes, writes[j].at, writes[j].cells))
    BY <1>5, <2>1
  <2>3. at \in Nat /\ c \in Seq(Nat) /\ Len(c) \in Nat
    BY <1>3, <2>1
  <2>4. u = WriteAt(st, at, c)
    BY <1>2, <2>1 DEF Written1
  <2>. HIDE DEF st, at, c, u
  <2>5. IsOut(u)
    BY <2>2, <2>3, <2>4, WriteType
  <2>6. ASSUME ~u.fail, NEW j \in 1 .. (k + 1) PROVE Found(u.bytes, writes[j].at, writes[j].cells)
    <3>1. /\ ~st.fail /\ Found(u.bytes, at, c) /\ Len(st.bytes) <= Len(u.bytes)
          /\ \A i \in 1 .. Len(st.bytes) :
               i <= at \/ at + Len(c) < i => u.bytes[i] = st.bytes[i]
      BY <2>2, <2>3, <2>4, <2>6, WriteHolds
    <3>2. Found(u.bytes, w.at, w.cells)
      BY <3>1 DEF at, c
    <3>. DEFINE v == writes[j]
    <3>3. CASE v = w
      BY <3>2, <3>3
    <3>4. CASE v # w
      <4>1. j \in 1 .. k /\ j \in 1 .. m
        <5>1. j # k + 1
          BY <3>4
        <5>. QED
          BY <1>1, <2>1, <5>1
      <4>2. Found(st.bytes, v.at, v.cells)
        BY <2>2, <3>1, <4>1
      <4>3. v.at \in Nat /\ Len(v.cells) \in Nat
        BY <1>3, <4>1
      <4>4. v.at + Len(v.cells) <= at \/ at + Len(c) <= v.at
        BY <2>1, <3>4, <4>1 DEF Free, m, at, c
      <4>. HIDE DEF v
      <4>5. Len(st.bytes) \in Nat /\ Len(u.bytes) \in Nat
        BY <2>2, <2>5 DEF IsOut
      <4>6. v.at + Len(v.cells) <= Len(st.bytes)
        BY <4>2 DEF Found
      <4>7. ASSUME NEW i \in 1 .. Len(v.cells) PROVE u.bytes[v.at + i] = v.cells[i]
        <5>. DEFINE y == v.at + i
        <5>1. y \in 1 .. Len(st.bytes) /\ (y <= at \/ at + Len(c) < y)
          <6>. DEFINE va == v.at
                      vn == Len(v.cells)
                      wn == Len(c)
                      sn == Len(st.bytes)
          <6>1. /\ va \in Nat /\ vn \in Nat /\ wn \in Nat /\ sn \in Nat /\ at \in Nat
                /\ va + vn <= at \/ at + wn <= va
                /\ va + vn <= sn /\ i \in 1 .. vn /\ y = va + i
            BY <2>3, <4>3, <4>4, <4>5, <4>6
          <6>. HIDE DEF va, vn, wn, sn, y
          <6>2. y \in 1 .. sn /\ (y <= at \/ at + wn < y)
            BY ONLY <6>1
          <6>. QED
            BY <6>2 DEF sn, wn
        <5>2. st.bytes[y] = v.cells[i]
          BY <4>2 DEF Found
        <5>. HIDE DEF y
        <5>3. u.bytes[y] = st.bytes[y]
          BY <3>1, <5>1
        <5>. QED
          BY <5>2, <5>3 DEF y
      <4>8. v.at + Len(v.cells) <= Len(u.bytes)
        BY <3>1, <4>3, <4>5, <4>6
      <4>. QED
        BY <4>7, <4>8 DEF Found, v
    <3>. QED
      BY <3>3, <3>4
  <2>. QED
    BY <2>5, <2>6 DEF u
<1>6. IsOut(f[m]) /\ \A j \in 1 .. m : Found(f[m].bytes, writes[j].at, writes[j].cells)
  <2>. HIDE DEF T
  <2>1. Nat \subseteq T
    BY <1>4, <1>5, SetInduction
  <2>. QED
    BY <1>1, <1>2, <2>1 DEF T
<1>. QED
  BY <1>2, <1>6 DEF IsOut, m

(* The elements of two sequences behind each other, and of many.           *)
LEMMA JoinElements ==
  ASSUME NEW S, NEW s \in Seq(S), NEW t \in Seq(S)
  PROVE  ToSet(s \o t) = ToSet(s) \cup ToSet(t)
<1>. DEFINE n == Len(s)
            m == Len(t)
            u == s \o t
<1>1. n \in Nat /\ m \in Nat /\ DOMAIN s = 1 .. n /\ DOMAIN t = 1 .. m
  OBVIOUS
<1>2. /\ u \in Seq(S) /\ Len(u) = n + m
      /\ \A i \in 1 .. (n + m) : u[i] = IF i <= n THEN s[i] ELSE t[i - n]
  BY ConcatProperties
<1>. HIDE DEF u
<1>3. DOMAIN u = 1 .. (n + m)
  BY <1>2
<1>. HIDE DEF n, m
<1>4. ASSUME NEW x \in ToSet(u) PROVE x \in ToSet(s) \cup ToSet(t)
  <2>1. PICK i \in 1 .. (n + m) : x = u[i]
    BY <1>3, <1>4 DEF ToSet
  <2>2. CASE i <= n
    <3>1. i \in 1 .. n /\ x = s[i]
      BY <1>1, <1>2, <2>1, <2>2
    <3>. QED
      BY <1>1, <3>1 DEF ToSet
  <2>3. CASE ~(i <= n)
    <3>1. i - n \in 1 .. m /\ x = t[i - n]
      BY <1>1, <1>2, <2>1, <2>3
    <3>. QED
      BY <1>1, <3>1 DEF ToSet
  <2>. QED
    BY <2>2, <2>3
<1>5. ASSUME NEW x \in ToSet(s) PROVE x \in ToSet(u)
  <2>1. PICK i \in 1 .. n : x = s[i]
    BY <1>1, <1>5 DEF ToSet
  <2>2. i \in 1 .. (n + m) /\ i <= n
    BY <1>1, <2>1
  <2>. QED
    BY <1>2, <1>3, <2>1, <2>2 DEF ToSet
<1>6. ASSUME NEW x \in ToSet(t) PROVE x \in ToSet(u)
  <2>1. PICK i \in 1 .. m : x = t[i]
    BY <1>1, <1>6 DEF ToSet
  <2>2. n + i \in 1 .. (n + m) /\ ~(n + i <= n) /\ (n + i) - n = i
    BY <1>1, <2>1
  <2>. QED
    BY <1>2, <1>3, <2>1, <2>2 DEF ToSet
<1>. QED
  BY <1>4, <1>5, <1>6 DEF u

LEMMA FlattenElements ==
  ASSUME NEW S, NEW q \in Seq(Seq(S))
  PROVE  ToSet(FlattenSeq(q)) = UNION {ToSet(q[i]) : i \in 1 .. Len(q)}
<1>. DEFINE n == Len(q)
            All(k) == UNION {ToSet(q[i]) : i \in 1 .. k}
<1>1. n \in Nat /\ \A i \in 1 .. n : q[i] \in Seq(S)
  OBVIOUS
<1>2. PICK f : /\ f[0] = << >>
               /\ \A i \in 1 .. n : f[i] = f[i - 1] \o q[i] /\ f[i] \in Seq(S)
               /\ FlattenSeq(q) = f[n]
  BY FlattenUnfolds
<1>. DEFINE T == {k \in Nat : k <= n => ToSet(f[k]) = All(k)}
<1>. HIDE DEF n
<1>3. 0 \in T
  <2>1. 1 .. 0 = {} /\ ToSet(<< >>) = {}
    BY DEF ToSet
  <2>. QED
    BY <1>2, <2>1
<1>4. ASSUME NEW k \in Nat, k \in T PROVE k + 1 \in T
  <2>. SUFFICES ASSUME k + 1 <= n PROVE ToSet(f[k + 1]) = All(k + 1)
    OBVIOUS
  <2>1. k + 1 \in 1 .. n /\ (k + 1) - 1 = k /\ k <= n
    BY <1>1
  <2>2. f[k + 1] = f[k] \o q[k + 1] /\ q[k + 1] \in Seq(S)
    BY <1>1, <1>2, <2>1
  <2>3. f[k] \in Seq(S)
    <3>1. CASE k = 0
      BY <1>2, <3>1, EmptySeq
    <3>2. CASE k # 0
      <4>1. k \in 1 .. n
        BY <1>1, <2>1, <3>2
      <4>. QED
        BY <1>2, <4>1
    <3>. QED
      BY <3>1, <3>2
  <2>4. ToSet(f[k + 1]) = ToSet(f[k]) \cup ToSet(q[k + 1])
    BY <2>2, <2>3, JoinElements
  <2>5. ToSet(f[k]) = All(k)
    BY <1>4, <2>1
  <2>6. 1 .. (k + 1) = (1 .. k) \cup {k + 1}
    OBVIOUS
  <2>7. All(k + 1) = All(k) \cup ToSet(q[k + 1])
    BY <2>6
  <2>. QED
    BY <2>4, <2>5, <2>7
<1>5. ToSet(f[n]) = All(n)
  <2>. HIDE DEF T, All
  <2>1. Nat \subseteq T
    BY <1>3, <1>4, SetInduction
  <2>. QED
    BY <1>1, <2>1 DEF T
<1>. QED
  BY <1>2, <1>5 DEF n

(* The writes of a save: of the header, of the header and the data of each *)
(* section and of the header of each segment.                              *)
HeadW(e) == [at |-> 0, cells |-> Pack(EhdrFields, e.hdr, e.hdr.data)]

SecW(e, i) == [at    |-> e.hdr.shoff + e.hdr.shentsize * e.secs[i].index,
               cells |-> Pack(ShdrFields, e.secs[i], e.hdr.data)]

DatW(e, i) == [at |-> e.secs[i].offset, cells |-> e.secs[i].data]

SegW(e, g) == [at    |-> e.hdr.phoff + e.hdr.phentsize * e.segs[g].index,
               cells |-> Pack(PhdrFields, e.segs[g], e.hdr.data)]

WithData(e) == {i \in 1 .. Len(e.secs) : InFile(e.secs[i]) /\ e.secs[i].has}

LEMMA OneElement == \A x : ToSet(<< x >>) = {x} /\ DOMAIN << x >> = {1}
<1>. SUFFICES ASSUME NEW x PROVE ToSet(<< x >>) = {x} /\ DOMAIN << x >> = {1}
  OBVIOUS
<1>1. DOMAIN << x >> = 1 .. 1 /\ << x >>[1] = x /\ 1 .. 1 = {1}
  OBVIOUS
<1>. QED
  BY <1>1 DEF ToSet

LEMMA SectionElements ==
  ASSUME NEW e, IsObject(e), NEW i \in 1 .. Len(e.secs), NEW w,
         w = SectionWrites(e.secs[i], e.hdr.shoff + e.hdr.shentsize * e.secs[i].index, e.hdr.data)
  PROVE  ToSet(w) = {SecW(e, i)} \cup {DatW(e, j) : j \in WithData(e) \cap {i}}
<1>. DEFINE s == e.secs[i]
            a == << SecW(e, i) >>
            d == << DatW(e, i) >>
            b == IF s.type \in {SHT_NOBITS, SHT_NULL} \/ s.size = 0 \/ ~s.has THEN << >> ELSE d
            U == {SecW(e, i), DatW(e, i)}
<1>1. w = a \o b
  BY DEF SectionWrites, SecW, DatW
<1>2. IsSection(s, i - 1) /\ s.size \in Nat
  BY SectionHas DEF IsObject
<1>3. (s.type \in {SHT_NOBITS, SHT_NULL} \/ s.size = 0 \/ ~s.has) <=> i \notin WithData(e)
  <2>1. InFile(s) <=> ~(s.type \in {SHT_NOBITS, SHT_NULL} \/ s.size = 0)
    <3>. HIDE DEF s
    <3>. QED
      BY <1>2 DEF InFile
  <2>2. i \in WithData(e) <=> InFile(s) /\ s.has
    BY DEF WithData
  <2>. HIDE DEF s
  <2>. QED
    BY <2>1, <2>2
<1>4. b = IF i \notin WithData(e) THEN << >> ELSE d
  <2>. HIDE DEF s, d
  <2>. QED
    BY <1>3 DEF b
<1>5. a \in Seq(U) /\ d \in Seq(U) /\ << >> \in Seq(U)
  OBVIOUS
<1>6. ToSet(a) = {SecW(e, i)} /\ ToSet(d) = {DatW(e, i)} /\ ToSet(<< >>) = {}
  BY OneElement DEF ToSet
<1>. HIDE DEF a, b, d, U
<1>7. b \in Seq(U)
  BY <1>4, <1>5
<1>8. ToSet(w) = ToSet(a) \cup ToSet(b)
  BY <1>1, <1>5, <1>7, JoinElements, ZenonT(30)
<1>9. CASE i \in WithData(e)
  <2>1. WithData(e) \cap {i} = {i} /\ ToSet(b) = {DatW(e, i)}
    BY <1>4, <1>6, <1>9
  <2>. QED
    BY <1>6, <1>8, <2>1
<1>10. CASE i \notin WithData(e)
  <2>1. WithData(e) \cap {i} = {} /\ ToSet(b) = {}
    BY <1>4, <1>6, <1>10
  <2>. QED
    BY <1>6, <1>8, <2>1
<1>. QED
  BY <1>9, <1>10

LEMMA SaveWritesAre ==
  ASSUME NEW e, IsObject(e)
  PROVE  ToSet(SaveWrites(e)) =
           {HeadW(e)} \cup {SecW(e, i) : i \in 1 .. Len(e.secs)}
             \cup {DatW(e, i) : i \in WithData(e)} \cup {SegW(e, g) : g \in 1 .. Len(e.segs)}
<1>. DEFINE h == e.hdr
            a == << HeadW(e) >>
            sw(i) == SectionWrites(e.secs[i], h.shoff + h.shentsize * e.secs[i].index, h.data)
            gw(g) == SegmentWrites(e.segs[g], h.phoff + h.phentsize * e.segs[g].index, h.data)
            n == Len(e.secs)
            m == Len(e.segs)
            ss == [i \in 1 .. n |-> sw(i)]
            gs == [g \in 1 .. m |-> gw(g)]
            W == Seq(WriteSet)
<1>1. /\ a \in W /\ ss \in [1 .. n -> W] /\ gs \in [1 .. m -> W] /\ n \in Nat /\ m \in Nat
  BY SaveWritesParts DEF HeadW
<1>2. SaveWrites(e) = (a \o FlattenSeq(ss)) \o FlattenSeq(gs)
  BY DEF SaveWrites, HeadW
<1>3. \A i \in 1 .. n : ToSet(ss[i]) = {SecW(e, i)} \cup {DatW(e, j) : j \in WithData(e) \cap {i}}
  <2>1. \A i \in 1 .. n : ToSet(sw(i)) = {SecW(e, i)} \cup {DatW(e, j) : j \in WithData(e) \cap {i}}
    BY SectionElements
  <2>. HIDE DEF sw
  <2>. QED
    BY <2>1
<1>4. \A g \in 1 .. m : ToSet(gs[g]) = {SegW(e, g)}
  <2>1. \A g \in 1 .. m : gw(g) = << SegW(e, g) >>
    BY DEF SegmentWrites, SegW
  <2>. HIDE DEF gw
  <2>. QED
    BY <2>1, OneElement
<1>. HIDE DEF ss, gs, W
<1>5. ss \in Seq(W) /\ gs \in Seq(W)
  BY <1>1, SeqMade
<1>6. /\ FlattenSeq(ss) \in W /\ FlattenSeq(gs) \in W
      /\ ToSet(FlattenSeq(ss)) = UNION {ToSet(ss[i]) : i \in 1 .. Len(ss)}
      /\ ToSet(FlattenSeq(gs)) = UNION {ToSet(gs[g]) : g \in 1 .. Len(gs)}
      /\ Len(ss) = n /\ Len(gs) = m
  <2>1. Len(ss) = n /\ Len(gs) = m
    BY <1>1
  <2>. QED
    BY <1>5, <2>1, FlattenType, FlattenElements DEF W
<1>7. ToSet(a) = {HeadW(e)}
  BY OneElement
<1>. HIDE DEF a, n, m
<1>. DEFINE u == FlattenSeq(ss)
            v == FlattenSeq(gs)
            x == a \o u
<1>8. ToSet(x) = ToSet(a) \cup ToSet(u) /\ x \in W
  <2>. HIDE DEF u
  <2>. QED
    BY <1>1, <1>6, JoinElements, ConcatProperties DEF W, u
<1>9. ToSet(SaveWrites(e)) = ToSet(x) \cup ToSet(v)
  <2>1. SaveWrites(e) = x \o v /\ v \in W
    BY <1>2, <1>6
  <2>. HIDE DEF x, v
  <2>. QED
    BY <1>8, <2>1, JoinElements DEF W
<1>10. ToSet(u) = {SecW(e, i) : i \in 1 .. n} \cup {DatW(e, i) : i \in WithData(e)}
  <2>1. \A i \in WithData(e) : i \in 1 .. n
    BY DEF WithData, n
  <2>2. UNION {ToSet(ss[i]) : i \in 1 .. n}
          = {SecW(e, i) : i \in 1 .. n} \cup {DatW(e, i) : i \in WithData(e)}
    <3>. DEFINE A == UNION {ToSet(ss[i]) : i \in 1 .. n}
                B == {SecW(e, i) : i \in 1 .. n} \cup {DatW(e, i) : i \in WithData(e)}
    <3>1. ASSUME NEW y \in A PROVE y \in B
      <4>1. PICK i \in 1 .. n : y \in ToSet(ss[i])
        BY <3>1
      <4>2. y = SecW(e, i) \/ \E j \in WithData(e) : y = DatW(e, j)
        BY <1>3, <4>1
      <4>. QED
        BY <4>1, <4>2
    <3>2. ASSUME NEW y \in B PROVE y \in A
      <4>1. CASE y \in {SecW(e, i) : i \in 1 .. n}
        <5>1. PICK i \in 1 .. n : y = SecW(e, i)
          BY <4>1
        <5>2. y \in ToSet(ss[i])
          BY <1>3, <5>1
        <5>. QED
          BY <5>2
      <4>2. CASE y \in {DatW(e, i) : i \in WithData(e)}
        <5>1. PICK i \in WithData(e) : y = DatW(e, i)
          BY <4>2
        <5>2. i \in 1 .. n /\ i \in WithData(e) \cap {i}
          BY <2>1, <5>1
        <5>3. y \in ToSet(ss[i])
          BY <1>3, <5>1, <5>2
        <5>. QED
          BY <5>2, <5>3
      <4>. QED
        BY <3>2, <4>1, <4>2
    <3>. HIDE DEF A, B
    <3>3. A = B
      BY <3>1, <3>2
    <3>. QED
      BY <3>3 DEF A, B
  <2>. QED
    BY <1>6, <2>2
<1>11. ToSet(v) = {SegW(e, g) : g \in 1 .. m}
  <2>1. UNION {ToSet(gs[g]) : g \in 1 .. m} = {SegW(e, g) : g \in 1 .. m}
    BY <1>4, Zenon
  <2>. QED
    BY <1>6, <2>1
<1>. HIDE DEF u, v, x
<1>. QED
  BY <1>7, <1>8, <1>9, <1>10, <1>11 DEF n, m

(* A row of a table ends before the next begins.                           *)
LEMMA RowBefore ==
  ASSUME NEW base \in Nat, NEW size \in Nat, NEW n \in Nat, n <= size,
         NEW j \in Nat, NEW k \in Nat, j < k
  PROVE  /\ base + size * j \in Nat /\ base + size * k \in Nat
         /\ base <= base + size * j /\ base + size * j + n <= base + size * k
<1>. DEFINE u == size * j
            v == size * k
            y == j + 1
<1>1. u \in Nat /\ v \in Nat /\ u + size <= v
  <2>1. y \in Nat /\ y <= k
    OBVIOUS
  <2>. HIDE DEF y
  <2>2. y * size \in Nat /\ k * size \in Nat /\ y * size <= k * size
    BY <2>1, RowsLie
  <2>3. y * size = u + size /\ k * size = v
    BY DEF y
  <2>4. u \in Nat
    OBVIOUS
  <2>. QED
    BY <2>2, <2>3, <2>4
<1>. HIDE DEF u, v
<1>. QED
  BY <1>1

LEMMA RowsFree ==
  ASSUME NEW base \in Nat, NEW size \in Nat, NEW n \in Nat, n <= size, NEW j \in Nat, NEW k \in Nat
  PROVE  /\ base + size * j \in Nat /\ base <= base + size * j
         /\ j = k \/ base + size * j + n <= base + size * k \/ base + size * k + n <= base + size * j
         /\ j < k => base + size * j + n <= base + size * k
<1>1. CASE j < k
  BY <1>1, RowBefore
<1>2. CASE k < j
  BY <1>2, RowBefore
<1>3. CASE j = k
  <2>. DEFINE u == size * j
  <2>1. u \in Nat
    OBVIOUS
  <2>. HIDE DEF u
  <2>. QED
    BY <1>3, <2>1 DEF u
<1>. QED
  BY <1>1, <1>2, <1>3

(* The tables have room for what is written to them and the data of a      *)
(* section are as long as the section.                                     *)
Whole(s) == IF InFile(s) THEN s.has /\ Len(s.data) = s.size ELSE s.data = << >>

Spacious(e) ==
  /\ EhdrSize <= e.hdr.ehsize /\ ShdrSize <= e.hdr.shentsize
  /\ e.segs # << >> => PhdrSize <= e.hdr.phentsize
  /\ \A i \in 1 .. Len(e.secs) : Whole(e.secs[i]) /\ (InFile(e.secs[i]) => i > 1)

(* Every write of such an object has cells of its own.                     *)
Stored1(f, lo, hi) ==
  /\ IsObject(f) /\ lo <= hi /\ hi <= f.hdr.shoff
  /\ InRoom(f, lo, hi, 1 .. (Len(f.secs) - 1))
  /\ lo = f.hdr.ehsize + f.hdr.phentsize * Len(f.segs)
  /\ f.segs # << >> => f.hdr.phoff = f.hdr.ehsize

Before(v, w) == v.at + Len(v.cells) <= w.at

LEMMA WriteSizes ==
  ASSUME NEW f, IsObject(f)
  PROVE  /\ HeadW(f).at = 0 /\ Len(HeadW(f).cells) = 16
         /\ \A i \in 1 .. Len(f.secs) :
              /\ SecW(f, i).at = f.hdr.shoff + f.hdr.shentsize * (i - 1)
              /\ Len(SecW(f, i).cells) = 10 /\ i - 1 \in Nat
         /\ \A g \in 1 .. Len(f.segs) :
              /\ SegW(f, g).at = f.hdr.phoff + f.hdr.phentsize * (g - 1)
              /\ Len(SegW(f, g).cells) = 8 /\ g - 1 \in Nat
<1>1. \A x, y : /\ Len(Pack(EhdrFields, x, y)) = 16 /\ Len(Pack(ShdrFields, x, y)) = 10
                /\ Len(Pack(PhdrFields, x, y)) = 8
  BY DEF Pack, EhdrFields, ShdrFields, PhdrFields
<1>2. \A i \in 1 .. Len(f.secs) : f.secs[i].index = i - 1 /\ i - 1 \in Nat
  BY SectionHas DEF IsObject
<1>3. \A g \in 1 .. Len(f.segs) : f.segs[g].index = g - 1 /\ g - 1 \in Nat
  BY DEF IsObject
<1>. QED
  BY <1>1, <1>2, <1>3 DEF HeadW, SecW, SegW

LEMMA WritesBefore ==
  ASSUME NEW f, NEW lo \in Nat, NEW hi \in Nat, Stored1(f, lo, hi), Spacious(f)
  PROVE  /\ \A g \in 1 .. Len(f.segs) : Before(HeadW(f), SegW(f, g))
         /\ \A i \in WithData(f) : Before(HeadW(f), DatW(f, i))
         /\ \A i \in 1 .. Len(f.secs) : Before(HeadW(f), SecW(f, i))
         /\ \A g \in 1 .. Len(f.segs), i \in WithData(f) : Before(SegW(f, g), DatW(f, i))
         /\ \A g \in 1 .. Len(f.segs), i \in 1 .. Len(f.secs) : Before(SegW(f, g), SecW(f, i))
         /\ \A i \in WithData(f), j \in 1 .. Len(f.secs) : Before(DatW(f, i), SecW(f, j))
         /\ \A g, h \in 1 .. Len(f.segs) : g = h \/ Free(SegW(f, g), SegW(f, h))
         /\ \A i, j \in 1 .. Len(f.secs) : i = j \/ Free(SecW(f, i), SecW(f, j))
         /\ \A i, j \in WithData(f) : i = j \/ Free(DatW(f, i), DatW(f, j))
<1>. DEFINE eh == f.hdr.ehsize
            sh == f.hdr.shoff
            ss == f.hdr.shentsize
            ps == f.hdr.phentsize
            po == f.hdr.phoff
            n  == Len(f.secs)
            m  == Len(f.segs)
<1>1. /\ IsObject(f) /\ lo <= hi /\ hi <= sh /\ 16 <= eh /\ 10 <= ss /\ lo = eh + ps * m
      /\ eh \in Nat /\ sh \in Nat /\ ss \in Nat /\ ps \in Nat /\ n \in Nat /\ m \in Nat
  BY HeaderHas, SeqIs, CellsOf DEF Stored1, Spacious, IsObject
<1>2. eh <= lo
  <2>. DEFINE z == ps * m
  <2>1. z \in Nat
    <3>. HIDE DEF ps, m
    <3>. QED
      BY <1>1
  <2>2. lo = eh + z
    BY <1>1
  <2>. HIDE DEF z, eh
  <2>. QED
    BY <1>1, <2>1, <2>2
<1>3. HeadW(f).at = 0 /\ Len(HeadW(f).cells) = 16
  BY <1>1, WriteSizes
<1>4. ASSUME NEW i \in 1 .. n
      PROVE  /\ SecW(f, i).at \in Nat /\ sh <= SecW(f, i).at /\ Len(SecW(f, i).cells) = 10
             /\ \A j \in 1 .. n : i = j \/ Free(SecW(f, i), SecW(f, j))
  <2>1. \A j \in 1 .. n : SecW(f, j).at = sh + ss * (j - 1) /\ Len(SecW(f, j).cells) = 10 /\ j - 1 \in Nat
    BY <1>1, WriteSizes
  <2>2. ASSUME NEW j \in 1 .. n
        PROVE  /\ SecW(f, i).at \in Nat /\ sh <= SecW(f, i).at
               /\ i = j \/ Free(SecW(f, i), SecW(f, j))
    <3>. DEFINE x == i - 1
                y == j - 1
                k == 10
    <3>1. x \in Nat /\ y \in Nat /\ k \in Nat /\ k <= ss /\ (x = y => i = j)
      BY <1>1, <2>1
    <3>2. SecW(f, i).at = sh + ss * x /\ SecW(f, j).at = sh + ss * y
      BY <2>1
    <3>. HIDE DEF x, y, k
    <3>3. /\ sh + ss * x \in Nat /\ sh <= sh + ss * x
          /\ x = y \/ sh + ss * x + k <= sh + ss * y \/ sh + ss * y + k <= sh + ss * x
      <4>. HIDE DEF sh, ss
      <4>. QED
        BY <1>1, <3>1, RowsFree
    <3>. QED
      BY <2>1, <3>1, <3>2, <3>3 DEF Free, k
  <2>. QED
    BY <2>1, <2>2
<1>5. ASSUME NEW g \in 1 .. m
      PROVE  /\ SegW(f, g).at \in Nat /\ eh <= SegW(f, g).at /\ Len(SegW(f, g).cells) = 8
             /\ SegW(f, g).at + 8 <= lo
             /\ \A h \in 1 .. m : g = h \/ Free(SegW(f, g), SegW(f, h))
  <2>1. f.segs # << >>
    <3>1. m # 0
      BY <1>1
    <3>. QED
      BY <3>1
  <2>2. po = eh /\ 8 <= ps
    BY <2>1, CellsOf DEF Stored1, Spacious
  <2>3. \A h \in 1 .. m : SegW(f, h).at = eh + ps * (h - 1) /\ Len(SegW(f, h).cells) = 8 /\ h - 1 \in Nat
    BY <1>1, <2>2, WriteSizes
  <2>4. ASSUME NEW h \in 1 .. m
        PROVE  /\ SegW(f, g).at \in Nat /\ eh <= SegW(f, g).at /\ SegW(f, g).at + 8 <= lo
               /\ g = h \/ Free(SegW(f, g), SegW(f, h))
    <3>. DEFINE x == g - 1
                y == h - 1
                k == 8
    <3>1. x \in Nat /\ y \in Nat /\ k \in Nat /\ k <= ps /\ (x = y => g = h) /\ x < m
      BY <1>1, <2>2, <2>3
    <3>2. SegW(f, g).at = eh + ps * x /\ SegW(f, h).at = eh + ps * y
      BY <2>3
    <3>. HIDE DEF x, y, k
    <3>3. /\ eh + ps * x \in Nat /\ eh <= eh + ps * x
          /\ x = y \/ eh + ps * x + k <= eh + ps * y \/ eh + ps * y + k <= eh + ps * x
      <4>. HIDE DEF eh, ps
      <4>. QED
        BY <1>1, <3>1, RowsFree
    <3>4. eh + ps * x + k <= eh + ps * m
      <4>. HIDE DEF eh, ps, m
      <4>. QED
        BY <1>1, <3>1, RowsFree
    <3>5. SegW(f, g).at + 8 <= lo
      BY <1>1, <3>2, <3>4 DEF k
    <3>. QED
      BY <2>3, <3>1, <3>2, <3>3, <3>5 DEF Free, k
  <2>. QED
    BY <2>3, <2>4
<1>6. ASSUME NEW i \in WithData(f)
      PROVE  /\ DatW(f, i).at \in Nat /\ lo <= DatW(f, i).at /\ Len(DatW(f, i).cells) \in Nat
             /\ DatW(f, i).at + Len(DatW(f, i).cells) <= hi
             /\ \A j \in WithData(f) : i = j \/ Free(DatW(f, i), DatW(f, j))
  <2>1. ASSUME NEW j \in WithData(f)
        PROVE  /\ j - 1 \in 1 .. (n - 1) /\ Sec(f, j - 1) = f.secs[j] /\ InFile(f.secs[j])
               /\ DatW(f, j).at = f.secs[j].offset /\ Len(DatW(f, j).cells) = f.secs[j].size
               /\ f.secs[j].offset \in Nat /\ f.secs[j].size \in Nat
    <3>1. j \in 1 .. n /\ InFile(f.secs[j]) /\ j > 1 /\ Len(f.secs[j].data) = f.secs[j].size
      BY DEF WithData, Spacious, Whole
    <3>2. j - 1 \in 1 .. (n - 1) /\ (j - 1) + 1 = j
      BY <1>1, <3>1, SMTT(30)
    <3>3. f.secs[j].offset \in Nat /\ f.secs[j].size \in Nat
      BY <1>1, <3>1, SectionHas DEF IsObject
    <3>. QED
      BY <3>1, <3>2, <3>3 DEF DatW, Sec
  <2>2. InRoom(f, lo, hi, 1 .. (n - 1))
    BY DEF Stored1
  <2>3. lo <= f.secs[i].offset /\ f.secs[i].offset + f.secs[i].size <= hi
    BY <2>1, <2>2 DEF InRoom
  <2>4. ASSUME NEW j \in WithData(f), i # j PROVE Free(DatW(f, i), DatW(f, j))
    <3>1. i - 1 # j - 1
      <4>1. i \in Int /\ j \in Int
        BY DEF WithData
      <4>. QED
        BY <2>4, <4>1
    <3>2. Clear(f.secs[i], f.secs[j])
      BY <2>1, <2>2, <3>1 DEF InRoom
    <3>. QED
      BY <2>1, <3>2 DEF Clear, Free
  <2>. QED
    BY <2>1, <2>3, <2>4
<1>. HIDE DEF eh, sh, n, m
<1>7. \A g \in 1 .. m : Before(HeadW(f), SegW(f, g))
  BY <1>1, <1>3, <1>5 DEF Before
<1>8. \A i \in WithData(f) : Before(HeadW(f), DatW(f, i))
  BY <1>1, <1>2, <1>3, <1>6 DEF Before
<1>9. \A i \in 1 .. n : Before(HeadW(f), SecW(f, i))
  BY <1>1, <1>2, <1>3, <1>4 DEF Before
<1>10. \A g \in 1 .. m, i \in WithData(f) : Before(SegW(f, g), DatW(f, i))
  <2>. SUFFICES ASSUME NEW g \in 1 .. m, NEW i \in WithData(f) PROVE Before(SegW(f, g), DatW(f, i))
    OBVIOUS
  <2>. DEFINE a == SegW(f, g).at
              b == DatW(f, i).at
              k == Len(SegW(f, g).cells)
  <2>1. a \in Nat /\ b \in Nat /\ k = 8 /\ a + 8 <= lo /\ lo <= b
    BY <1>5, <1>6
  <2>. HIDE DEF a, b, k
  <2>2. a + k <= b
    BY <2>1
  <2>. QED
    BY <2>2 DEF Before, a, b, k
<1>11. \A g \in 1 .. m, i \in 1 .. n : Before(SegW(f, g), SecW(f, i))
  <2>. SUFFICES ASSUME NEW g \in 1 .. m, NEW i \in 1 .. n PROVE Before(SegW(f, g), SecW(f, i))
    OBVIOUS
  <2>. DEFINE a == SegW(f, g).at
              b == SecW(f, i).at
              k == Len(SegW(f, g).cells)
  <2>1. a \in Nat /\ b \in Nat /\ k = 8 /\ a + 8 <= lo /\ lo <= hi /\ hi <= sh /\ sh <= b /\ sh \in Nat
    BY <1>1, <1>4, <1>5
  <2>. HIDE DEF a, b, k
  <2>2. a + k <= b
    BY <2>1
  <2>. QED
    BY <2>2 DEF Before, a, b, k
<1>12. \A i \in WithData(f), j \in 1 .. n : Before(DatW(f, i), SecW(f, j))
  <2>. SUFFICES ASSUME NEW i \in WithData(f), NEW j \in 1 .. n PROVE Before(DatW(f, i), SecW(f, j))
    OBVIOUS
  <2>. DEFINE a == DatW(f, i).at
              b == SecW(f, j).at
              k == Len(DatW(f, i).cells)
  <2>1. a \in Nat /\ b \in Nat /\ k \in Nat /\ a + k <= hi /\ hi <= sh /\ sh <= b /\ sh \in Nat
    BY <1>1, <1>4, <1>6
  <2>. HIDE DEF a, b, k
  <2>2. a + k <= b
    BY <2>1
  <2>. QED
    BY <2>2 DEF Before, a, b, k
<1>. QED
  BY <1>4, <1>5, <1>6, <1>7, <1>8, <1>9, <1>10, <1>11, <1>12 DEF n, m

LEMMA WritesFree ==
  ASSUME NEW f, NEW lo \in Nat, NEW hi \in Nat, Stored1(f, lo, hi), Spacious(f),
         NEW v \in ToSet(SaveWrites(f)), NEW w \in ToSet(SaveWrites(f))
  PROVE  v = w \/ Free(v, w)
<1>. DEFINE A == {SecW(f, i) : i \in 1 .. Len(f.secs)}
            B == {DatW(f, i) : i \in WithData(f)}
            C == {SegW(f, g) : g \in 1 .. Len(f.segs)}
<1>1. {v, w} \subseteq {HeadW(f)} \cup A \cup B \cup C
  BY SaveWritesAre DEF Stored1
<1>2. /\ \A y \in A \cup B \cup C : Before(HeadW(f), y)
      /\ \A x \in C, y \in A \cup B : Before(x, y)
      /\ \A x \in B, y \in A : Before(x, y)
      /\ \A x, y \in A : x = y \/ Free(x, y)
      /\ \A x, y \in B : x = y \/ Free(x, y)
      /\ \A x, y \in C : x = y \/ Free(x, y)
  <2>1. /\ \A g \in 1 .. Len(f.segs) : Before(HeadW(f), SegW(f, g))
        /\ \A i \in WithData(f) : Before(HeadW(f), DatW(f, i))
        /\ \A i \in 1 .. Len(f.secs) : Before(HeadW(f), SecW(f, i))
        /\ \A g \in 1 .. Len(f.segs), i \in WithData(f) : Before(SegW(f, g), DatW(f, i))
        /\ \A g \in 1 .. Len(f.segs), i \in 1 .. Len(f.secs) : Before(SegW(f, g), SecW(f, i))
        /\ \A i \in WithData(f), j \in 1 .. Len(f.secs) : Before(DatW(f, i), SecW(f, j))
        /\ \A g, h \in 1 .. Len(f.segs) : g = h \/ Free(SegW(f, g), SegW(f, h))
        /\ \A i, j \in 1 .. Len(f.secs) : i = j \/ Free(SecW(f, i), SecW(f, j))
        /\ \A i, j \in WithData(f) : i = j \/ Free(DatW(f, i), DatW(f, j))
    BY WritesBefore
  <2>. QED
    BY <2>1, Zenon
<1>. HIDE DEF A, B, C
<1>3. \A x, y : (Before(x, y) \/ Before(y, x)) => Free(x, y)
  BY DEF Before, Free
<1>. QED
  BY <1>1, <1>2, <1>3, Zenon

(* A file that holds all that is written of an object.                     *)
Holds(bytes, w) == Found(bytes, w.at, w.cells)

Recorded(bytes, e) ==
  /\ bytes \in Seq(Nat)
  /\ Holds(bytes, HeadW(e))
  /\ \A i \in 1 .. Len(e.secs) : Holds(bytes, SecW(e, i))
  /\ \A i \in WithData(e) : Holds(bytes, DatW(e, i))
  /\ \A g \in 1 .. Len(e.segs) : Holds(bytes, SegW(e, g))

LEMMA SavedIsRecorded ==
  ASSUME NEW f, NEW lo \in Nat, NEW hi \in Nat, Stored1(f, lo, hi), Spacious(f),
         NEW w, w = SaveWrites(f), NEW out, out = Written(w, Len(w), Room), ~out.fail
  PROVE  Recorded(out.bytes, f)
<1>1. IsObject(f)
  BY DEF Stored1
<1>2. w \in Seq(WriteSet)
  BY <1>1, SaveWritesType
<1>3. Len(w) \in Nat /\ DOMAIN w = 1 .. Len(w)
  BY <1>2
<1>4. \A k \in 1 .. Len(w) : w[k] \in ToSet(w)
  BY <1>3 DEF ToSet
<1>5. \A j, k \in 1 .. Len(w) : w[j] = w[k] \/ Free(w[j], w[k])
  <2>1. \A x, y \in ToSet(SaveWrites(f)) : x = y \/ Free(x, y)
    BY WritesFree
  <2>. QED
    BY <1>4, <2>1
<1>6. out.bytes \in Seq(Nat) /\ \A k \in 1 .. Len(w) : Found(out.bytes, w[k].at, w[k].cells)
  BY <1>2, <1>5, AllHold
<1>7. \A x \in ToSet(w) : Holds(out.bytes, x)
  <2>. SUFFICES ASSUME NEW x \in ToSet(w) PROVE Holds(out.bytes, x)
    OBVIOUS
  <2>1. PICK k \in 1 .. Len(w) : x = w[k]
    BY <1>3 DEF ToSet
  <2>. QED
    BY <1>6, <2>1 DEF Holds
<1>8. /\ HeadW(f) \in ToSet(w)
      /\ \A i \in 1 .. Len(f.secs) : SecW(f, i) \in ToSet(w)
      /\ \A i \in WithData(f) : DatW(f, i) \in ToSet(w)
      /\ \A g \in 1 .. Len(f.segs) : SegW(f, g) \in ToSet(w)
  <2>1. ToSet(w) = {HeadW(f)} \cup {SecW(f, i) : i \in 1 .. Len(f.secs)}
             \cup {DatW(f, i) : i \in WithData(f)} \cup {SegW(f, g) : g \in 1 .. Len(f.segs)}
    BY <1>1, SaveWritesAre
  <2>. QED
    BY <2>1
<1>. QED
  BY <1>6, <1>7, <1>8 DEF Recorded

-------------------------------------------------------------------------------
(***************************************************************************)
(* Reading what was written.                                               *)
(***************************************************************************)
LEMMA SwappedBack ==
  ASSUME NEW v \in Field, NEW encoding
  PROVE  Convert(encoding, Convert(encoding, v)) = v
<1>1. CASE encoding = LSB
  BY <1>1 DEF Convert
<1>2. CASE encoding # LSB
  <2>. DEFINE q == v \div Radix
              r == v % Radix
              y == r * Radix + q
  <2>1. v \in Int /\ 0 <= v /\ v < Radix * Radix /\ Radix \in Nat /\ Radix > 1
    <3>. DEFINE n == Radix * Radix
    <3>1. n \in Int /\ Radix \in Nat /\ Radix > 1
      BY RadixAssumption
    <3>2. v \in 0 .. (n - 1)
      BY DEF Field
    <3>. HIDE DEF n
    <3>3. v \in Int /\ 0 <= v /\ v < n
      BY <3>1, <3>2
    <3>. QED
      BY <3>1, <3>3 DEF n
  <2>2. q \in Int /\ r \in Int /\ v = q * Radix + r /\ 0 <= r /\ r < Radix
    BY <2>1, DivSplit, SpanType
  <2>3. Convert(encoding, v) = y
    BY <1>2 DEF Convert
  <2>. HIDE DEF q, r
  <2>4. 0 <= q
    <3>. SUFFICES ASSUME -q >= 1 PROVE FALSE
      BY <2>2
    <3>1. (-q) * Radix >= Radix
      BY <2>1, <2>2, Multiple
    <3>2. (-q) * Radix = -(q * Radix) /\ q * Radix \in Int
      BY <2>1, <2>2
    <3>. DEFINE z == q * Radix
    <3>. HIDE DEF z
    <3>. QED
      BY <2>1, <2>2, <3>1, <3>2 DEF z
  <2>5. q < Radix
    <3>. SUFFICES ASSUME ~(q < Radix) PROVE FALSE
      OBVIOUS
    <3>. DEFINE k == q - Radix
                z == k * Radix
    <3>1. k \in Nat
      BY <2>1, <2>2
    <3>. HIDE DEF k
    <3>2. z \in Nat
      BY <2>1, <3>1
    <3>3. q * Radix = Radix * Radix + z
      BY <2>1, <2>2 DEF k
    <3>. DEFINE s == Radix * Radix
                t == q * Radix
    <3>4. s \in Int /\ t \in Int
      BY <2>1, <2>2
    <3>. HIDE DEF z, s, t
    <3>. QED
      BY <2>1, <2>2, <3>2, <3>3, <3>4 DEF s, t
  <2>6. y \in Int
    BY <2>1, <2>2
  <2>7. y = r * Radix + q
    OBVIOUS
  <2>. HIDE DEF y
  <2>8. y \div Radix = r /\ y % Radix = q
    BY <2>1, <2>2, <2>4, <2>5, <2>6, <2>7, DivUnique, SpanType
  <2>9. Convert(encoding, y) = q * Radix + r
    BY <1>2, <2>8 DEF Convert
  <2>. QED
    BY <2>2, <2>3, <2>9
<1>. QED
  BY <1>1, <1>2

(* A table entry whose fields are as wide as the file has them is read     *)
(* from the cells it was written as.                                       *)
Narrow(fields, entry) == \A f \in ToSet(fields) : f \notin Ident => entry[f] \in Field

LEMMA Unpacked ==
  ASSUME NEW fields, NEW n \in Nat, Len(fields) = n, DOMAIN fields = 1 .. n,
         NEW entry, Narrow(fields, entry), NEW encoding,
         NEW p, p = Pack(fields, entry, encoding),
         NEW cells, \A c \in 1 .. n : cells[c] = p[c]
  PROVE  \A f \in ToSet(fields) : Unpack(CellOf(fields), cells, encoding)[f] = entry[f]
<1>. SUFFICES ASSUME NEW f \in ToSet(fields)
              PROVE  Unpack(CellOf(fields), cells, encoding)[f] = entry[f]
  OBVIOUS
<1>. DEFINE i == CellOf(fields)[f]
            v == entry[f]
<1>1. i \in 1 .. n /\ fields[i] = f
  <2>1. \E j \in DOMAIN fields : fields[j] = f
    BY DEF ToSet
  <2>2. i = CHOOSE j \in DOMAIN fields : fields[j] = f
    BY DEF CellOf
  <2>. QED
    BY <2>1, <2>2
<1>2. DOMAIN CellOf(fields) = ToSet(fields)
  BY DEF CellOf
<1>3. Unpack(CellOf(fields), cells, encoding)[f]
        = IF f \in Ident THEN cells[i] ELSE Convert(encoding, cells[i])
  BY <1>2 DEF Unpack
<1>. HIDE DEF i
<1>4. p[i] = IF f \in Ident THEN v ELSE Convert(encoding, v)
  BY <1>1 DEF Pack
<1>5. f \notin Ident => v \in Field
  BY DEF Narrow
<1>6. f \notin Ident => Convert(encoding, Convert(encoding, v)) = v
  <2>. HIDE DEF v
  <2>. QED
    BY <1>5, SwappedBack
<1>7. cells[i] = p[i]
  BY <1>1
<1>. HIDE DEF v
<1>8. CASE f \in Ident
  BY <1>3, <1>4, <1>7, <1>8 DEF v
<1>9. CASE f \notin Ident
  BY <1>3, <1>4, <1>6, <1>7, <1>9 DEF v
<1>. QED
  BY <1>8, <1>9

(* The first n cells of what is found at a place.                          *)
LEMMA ReadBack ==
  ASSUME NEW bytes \in Seq(Nat), NEW at \in Nat, NEW cells, Len(cells) \in Nat,
         Found(bytes, at, cells), NEW n \in Nat, n <= Len(cells),
         NEW r, r = ReadAt(InStream(bytes), at, n)
  PROVE  /\ r \in Seq(Nat) /\ Len(r) = n /\ \A c \in 1 .. n : r[c] = cells[c]
         /\ AfterRead(InStream(bytes), at, n) = InStream(bytes)
<1>. DEFINE st == InStream(bytes)
            m  == Len(bytes)
            k  == Len(cells)
            to == at + n
            lo == at + 1
<1>1. m \in Nat /\ k \in Nat /\ at + k <= m /\ \A c \in 1 .. k : bytes[at + c] = cells[c]
  BY DEF Found
<1>2. st.bytes = bytes /\ st.fail = FALSE /\ DOMAIN st = {"bytes", "fail"}
  BY DEF InStream
<1>. HIDE DEF m, k
<1>3. to \in Nat /\ to <= m /\ lo \in Int /\ to \in Int /\ k \in Nat /\ n <= k
  BY <1>1 DEF k
<1>4. r = SubSeq(bytes, lo, to)
  BY <1>2, <1>3 DEF ReadAt, m
<1>5. AfterRead(st, at, n) = st
  <2>. DEFINE u == AfterRead(st, at, n)
              z == st.fail \/ at + n > Len(bytes)
  <2>1. u = [st EXCEPT !.fail = z]
    BY <1>2 DEF AfterRead
  <2>2. z = FALSE
    BY <1>1, <1>2, <1>3 DEF m
  <2>. HIDE DEF z
  <2>3. u = [bytes |-> bytes, fail |-> FALSE]
    BY <2>1, <2>2 DEF InStream
  <2>. QED
    BY <2>3 DEF InStream
<1>6. \A i \in lo .. to : bytes[i] \in Nat
  <2>1. \A i \in lo .. to : i \in 1 .. m
    BY <1>1, <1>3
  <2>. QED
    BY <2>1 DEF m
<1>7. /\ r \in Seq(Nat) /\ Len(r) = IF lo <= to THEN to - lo + 1 ELSE 0
      /\ \A i \in 1 .. (to - lo + 1) : r[i] = bytes[lo + i - 1]
  <2>. HIDE DEF lo, to
  <2>. QED
    BY <1>3, <1>4, <1>6, SubSeqProperties
<1>8. (IF lo <= to THEN to - lo + 1 ELSE 0) = n /\ to - lo + 1 = n
      /\ \A i \in 1 .. n : lo + i - 1 = at + i
  OBVIOUS
<1>9. \A c \in 1 .. n : r[c] = cells[c]
  <2>1. \A c \in 1 .. n : c \in 1 .. k
    BY <1>3
  <2>2. \A c \in 1 .. n : r[c] = bytes[at + c]
    BY <1>7, <1>8
  <2>. QED
    BY <1>1, <2>1, <2>2
<1>. QED
  BY <1>5, <1>7, <1>8, <1>9

(* What a section is loaded with: its header, its data, no name yet.       *)
Back(t, s) ==
  /\ \A f \in SecNumbers : t[f] = s[f]
  /\ t.label = << >> /\ t.data = s.data
  /\ IF InFile(s) THEN t.has ELSE s.size = 0 \/ ~t.has

SectionCells == SecNumbers \cup {"label", "data", "has", "cap", "index", "addrSet", "stream"}

HeaderOnly(h, s, limit) ==
  /\ \A f \in SecNumbers : h[f] = s[f]
  /\ h.label = << >> /\ h.data = << >> /\ h.has = FALSE /\ h.stream = limit
  /\ DOMAIN h = SectionCells

LEMMA SectionHeaderBack ==
  ASSUME NEW s, NEW i, IsSection(s, i), Narrow(ShdrFields, s), NEW encoding,
         NEW p, p = Pack(ShdrFields, s, encoding),
         NEW cells, Len(cells) = 10, \A c \in 1 .. 10 : cells[c] = p[c],
         NEW limit, NEW h, h = SectionHeader(cells, limit, encoding)
  PROVE  HeaderOnly(h, s, limit)
<1>. DEFINE pad == ZeroPadded(cells, ShdrSize)
            u == Unpack(ShdrCells, pad, encoding)
<1>1. \A c \in 1 .. 10 : pad[c] = p[c]
  <2>1. ShdrSize = 10
    BY CellsOf
  <2>2. pad = [c \in 1 .. 10 |-> IF c <= 10 THEN cells[c] ELSE 0]
    BY <2>1 DEF ZeroPadded
  <2>. HIDE DEF pad
  <2>. QED
    BY <2>2
<1>. HIDE DEF pad
<1>2. \A f \in SecNumbers : u[f] = s[f]
  <2>1. ToSet(ShdrFields) = SecNumbers /\ DOMAIN ShdrFields = 1 .. 10 /\ Len(ShdrFields) = 10
    BY FieldSets DEF ShdrFields
  <2>. DEFINE n == 10
  <2>2. n \in Nat /\ Len(ShdrFields) = n /\ DOMAIN ShdrFields = 1 .. n /\ \A c \in 1 .. n : pad[c] = p[c]
    BY <1>1, <2>1
  <2>. HIDE DEF n
  <2>3. \A f \in ToSet(ShdrFields) : Unpack(CellOf(ShdrFields), pad, encoding)[f] = s[f]
    BY <2>2, Unpacked
  <2>. QED
    BY <2>1, <2>3 DEF ShdrCells
<1>3. /\ DOMAIN NewSection = SecNumbers \cup DOMAIN Buffer
      /\ DOMAIN Buffer = {"index", "label", "data", "has", "cap", "addrSet", "stream"}
  BY FieldSets DEF NewSection, Buffer
<1>4. NewSection.data = << >> /\ NewSection.label = << >> /\ NewSection.has = FALSE
  BY <1>3, FieldSets DEF NewSection, Buffer, SecNumbers
<1>5. h = [f \in DOMAIN NewSection |-> IF f \in SecNumbers THEN u[f]
                                      ELSE IF f = "stream" THEN limit ELSE NewSection[f]]
  BY FieldSets DEF SectionHeader, pad
<1>. HIDE DEF u
<1>6. \A f \in SecNumbers : h[f] = s[f]
  BY <1>2, <1>3, <1>5
<1>7. h.label = << >> /\ h.data = << >> /\ h.has = FALSE /\ h.stream = limit
  <2>1. {"data", "label", "has", "stream"} \cap SecNumbers = {}
    BY DEF SecNumbers
  <2>2. {"data", "label", "has", "stream"} \subseteq DOMAIN NewSection
    BY <1>3
  <2>. QED
    BY <1>4, <1>5, <2>1, <2>2
<1>8. DOMAIN h = SecNumbers \cup {"label", "data", "has", "cap", "index", "addrSet", "stream"}
  BY <1>3, <1>5
<1>. QED
  BY <1>6, <1>7, <1>8 DEF HeaderOnly, SectionCells

LEMMA SectionBack ==
  ASSUME NEW s, NEW i, IsSection(s, i), Narrow(ShdrFields, s), Whole(s), NEW encoding,
         NEW bytes \in Seq(Nat), NEW at \in Nat, Found(bytes, at, Pack(ShdrFields, s, encoding)),
         InFile(s) => s.offset > 0 /\ Found(bytes, s.offset, s.data),
         NEW r, r = LoadSection(InStream(bytes), at, << >>, encoding)
  PROVE  /\ Back(r.sec, s) /\ r.st = InStream(bytes)
         /\ DOMAIN r.sec = SectionCells
<1>. DEFINE st    == InStream(bytes)
            p     == Pack(ShdrFields, s, encoding)
            limit == StreamSize(st)
            cells == ReadAt(st, at, ShdrSize)
            h     == SectionHeader(cells, limit, encoding)
            data  == ReadAt(st, s.offset, s.size)
            st3   == AfterRead(st, s.offset, s.size)
            bare  == [h EXCEPT !.has = TRUE]
            full  == [h EXCEPT !.has = TRUE, !.data = data, !.cap = h.size]
            B     == {"label", "data", "has", "cap", "index", "addrSet", "stream"}
<1>1. ShdrSize = 10 /\ Len(p) = 10 /\ 10 \in Nat /\ 10 <= 10
  BY CellsOf DEF Pack, ShdrFields
<1>2. cells \in Seq(Nat) /\ Len(cells) = 10 /\ (\A c \in 1 .. 10 : cells[c] = p[c])
      /\ AfterRead(st, at, ShdrSize) = st
  <2>. DEFINE n == ShdrSize
  <2>1. n \in Nat /\ n <= Len(p) /\ Len(p) \in Nat
    BY <1>1
  <2>. HIDE DEF n, p
  <2>2. /\ ReadAt(InStream(bytes), at, n) \in Seq(Nat) /\ Len(ReadAt(InStream(bytes), at, n)) = n
        /\ \A c \in 1 .. n : ReadAt(InStream(bytes), at, n)[c] = p[c]
        /\ AfterRead(InStream(bytes), at, n) = InStream(bytes)
    BY <2>1, ReadBack DEF p
  <2>. QED
    BY <1>1, <2>2 DEF n
<1>3. limit = Len(bytes) /\ Len(bytes) \in Nat
  BY DEF StreamSize, InStream
<1>4. r = LoadSectionData(h, st, << >>)
  BY <1>2, NoTranslation DEF LoadSection
<1>5. s.offset \in Nat /\ s.size \in Nat /\ s.type \in Nat /\ s.data \in Seq(Nat)
  BY SectionHas
<1>. HIDE DEF cells, limit, st, p
<1>0. h = SectionHeader(cells, limit, encoding) /\ p = Pack(ShdrFields, s, encoding)
  BY DEF p
<1>. HIDE DEF h
<1>6. /\ \A f \in SecNumbers : h[f] = s[f]
      /\ h.label = << >> /\ h.data = << >> /\ h.has = FALSE /\ h.stream = limit
      /\ SecNumbers \cup B = DOMAIN h
  <2>. HIDE DEF B
  <2>1. IsSection(s, i) /\ Narrow(ShdrFields, s)
    OBVIOUS
  <2>2. HeaderOnly(h, s, limit)
    BY ONLY <1>0, <1>2, <2>1, SectionHeaderBack
  <2>. QED
    BY <2>2 DEF HeaderOnly, SectionCells, B
<1>7. h.type = s.type /\ h.size = s.size /\ h.offset = s.offset
  BY <1>6 DEF SecNumbers
<1>8. SecNumbers \cap B = {}
  BY DEF SecNumbers
<1>9. CASE ~InFile(s)
  <2>1. s.data = << >>
    BY <1>9 DEF Whole
  <2>2. r = [sec |-> h, st |-> st] \/ (s.size = 0 /\ r = [sec |-> bare, st |-> st])
    BY <1>4, <1>5, <1>7, <1>9, NoTranslation DEF LoadSectionData, InFile
  <2>3. /\ DOMAIN bare = DOMAIN h /\ \A f \in DOMAIN h \ {"has"} : bare[f] = h[f]
    BY <1>6
  <2>. HIDE DEF bare
  <2>4. /\ \A f \in SecNumbers : bare[f] = s[f]
        /\ bare.label = << >> /\ bare.data = << >>
    <3>1. SecNumbers \subseteq DOMAIN h \ {"has"} /\ {"label", "data"} \subseteq DOMAIN h \ {"has"}
      BY <1>6, <1>8
    <3>. QED
      BY <1>6, <2>3, <3>1
  <2>5. Back(h, s) /\ (s.size = 0 => Back(bare, s))
    BY <1>6, <1>9, <2>1, <2>4 DEF Back
  <2>6. (r.sec = h \/ (s.size = 0 /\ r.sec = bare)) /\ r.st = st
    BY <2>2
  <2>. QED
    BY <1>6, <2>3, <2>5, <2>6 DEF st, SectionCells
<1>10. CASE InFile(s)
  <2>1. s.has /\ Len(s.data) = s.size /\ s.size > 0 /\ s.type \notin {SHT_NULL, SHT_NOBITS}
    BY <1>10 DEF Whole, InFile
  <2>2. s.offset > 0 /\ Found(bytes, s.offset, s.data) /\ s.offset + s.size <= Len(bytes)
    BY <1>10, <2>1 DEF Found
  <2>3. ~(s.size >= limit)
    BY <1>3, <1>5, <2>2
  <2>4. r = [sec |-> WithBytes(h, data), st |-> st3]
    BY <1>4, <1>6, <1>7, <2>1, <2>3, <1>5, NoTranslation DEF LoadSectionData
  <2>5. data \in Seq(Nat) /\ Len(data) = s.size /\ (\A c \in 1 .. s.size : data[c] = s.data[c])
        /\ st3 = st
    <3>. DEFINE n == s.size
                o == s.offset
                d == s.data
    <3>1. n \in Nat /\ o \in Nat /\ n <= Len(d) /\ Len(d) \in Nat
      BY <1>5, <2>1
    <3>2. Found(bytes, o, d)
      BY <2>2
    <3>3. data = ReadAt(InStream(bytes), o, n) /\ st3 = AfterRead(InStream(bytes), o, n)
      BY DEF st
    <3>. HIDE DEF n, o, d, data, st3
    <3>4. /\ data \in Seq(Nat) /\ Len(data) = n /\ (\A c \in 1 .. n : data[c] = d[c])
          /\ AfterRead(InStream(bytes), o, n) = InStream(bytes)
      BY <3>1, <3>2, <3>3, ReadBack
    <3>. QED
      BY <3>3, <3>4 DEF n, o, d, st
  <2>. HIDE DEF data, st3
  <2>6. data = s.data
    <3>. DEFINE d == s.data
                n == s.size
    <3>1. d \in Seq(Nat) /\ Len(d) = n /\ Len(data) = n /\ \A c \in 1 .. n : data[c] = d[c]
      BY <1>5, <2>1, <2>5
    <3>. HIDE DEF d, n
    <3>2. IsSeq(d) /\ IsSeq(data)
      BY <2>5, <3>1 DEF IsSeq
    <3>3. d = [c \in 1 .. n |-> d[c]] /\ data = [c \in 1 .. n |-> data[c]]
      BY <3>1, <3>2, SeqIs
    <3>. QED
      BY <3>1, <3>3 DEF d
  <2>7. WithBytes(h, data) = full
    BY <1>7, <2>5 DEF WithBytes
  <2>8. {"has", "data", "cap"} \subseteq DOMAIN h
    BY <1>6
  <2>9. /\ DOMAIN full = DOMAIN h /\ full.data = data /\ full.has = TRUE
        /\ \A f \in DOMAIN h \ {"has", "data", "cap"} : full[f] = h[f]
    BY <2>8
  <2>. HIDE DEF full
  <2>10. /\ \A f \in SecNumbers : full[f] = s[f]
         /\ full.label = << >>
    <3>1. SecNumbers \subseteq DOMAIN h \ {"has", "data", "cap"} /\ "label" \in DOMAIN h \ {"has", "data", "cap"}
      BY <1>6, <1>8
    <3>. QED
      BY <1>6, <2>9, <3>1
  <2>11. Back(full, s)
    BY <1>10, <2>6, <2>9, <2>10 DEF Back
  <2>12. r.sec = full /\ r.st = st
    BY <2>4, <2>5, <2>7
  <2>. QED
    BY <1>6, <2>9, <2>11, <2>12 DEF st, SectionCells
<1>. QED
  BY <1>9, <1>10

(* An object that can be written without loss.                             *)
Fits(e) ==
  /\ e.hdr.magic = MAGIC /\ e.hdr.class \in {CLASS32, CLASS64} /\ e.hdr.data \in {LSB, MSB}
  /\ Narrow(EhdrFields, e.hdr)
  /\ \A i \in 1 .. Len(e.secs) : Narrow(ShdrFields, e.secs[i])
  /\ \A g \in 1 .. Len(e.segs) : Narrow(PhdrFields, e.segs[g])

(* A file that holds such an object, as layout leaves it.                  *)
Readable(e, bytes) ==
  /\ IsObject(e) /\ Recorded(bytes, e) /\ Fits(e) /\ Spacious(e)
  /\ e.hdr.shnum = Len(e.secs) /\ e.hdr.phnum = Len(e.segs)
  /\ \A i \in 1 .. Len(e.secs) : InFile(e.secs[i]) => e.secs[i].offset > 0

(* The first k sections of e.                                              *)
BackTo(q, e, k) ==
  /\ IsSeq(q) /\ Len(q) = k
  /\ \A j \in 1 .. k : Back(q[j], e.secs[j]) /\ DOMAIN q[j] = SectionCells

LEMMA OneMoreBack ==
  ASSUME NEW e, NEW k \in Nat, NEW read, BackTo(read.secs, e, k),
         NEW r, Back(r.sec, e.secs[k + 1]), DOMAIN r.sec = SectionCells
  PROVE  BackTo(AddLoaded(read, r).secs, e, k + 1) /\ AddLoaded(read, r).st = r.st
<1>. DEFINE n == Len(read.secs)
            q == read.secs
            s == r.sec
            a == s.addr
            i == [s EXCEPT !.index = n]
            t == [i EXCEPT !.addr = a, !.addrSet = TRUE]
            p == Append(q, t)
<1>1. AddLoaded(read, r) = [secs |-> p, st |-> r.st]
  BY DEF AddLoaded, SetAddress
<1>2. /\ {"index", "addr", "addrSet"} \subseteq DOMAIN s
      /\ SecNumbers \subseteq DOMAIN s \ {"index", "addrSet"}
      /\ {"label", "data", "has"} \subseteq DOMAIN s \ {"index", "addr", "addrSet"}
      /\ DOMAIN s = SectionCells
  BY DEF SectionCells, SecNumbers
<1>. HIDE DEF n, a, s
<1>3. DOMAIN i = DOMAIN s /\ \A f \in DOMAIN s \ {"index"} : i[f] = s[f]
  BY <1>2
<1>. HIDE DEF i
<1>4. /\ DOMAIN t = DOMAIN s /\ t.addr = a
      /\ \A f \in DOMAIN s \ {"index", "addr", "addrSet"} : t[f] = s[f]
  BY <1>2, <1>3
<1>. HIDE DEF t
<1>5. \A f \in SecNumbers : t[f] = s[f]
  <2>. SUFFICES ASSUME NEW f \in SecNumbers PROVE t[f] = s[f]
    OBVIOUS
  <2>1. CASE f = "addr"
    BY <1>4, <2>1 DEF a
  <2>2. CASE f # "addr"
    BY <1>2, <1>4, <2>2
  <2>. QED
    BY <2>1, <2>2
<1>6. t.label = s.label /\ t.data = s.data /\ t.has = s.has
  BY <1>2, <1>4
<1>7. Back(t, e.secs[k + 1]) /\ DOMAIN t = SectionCells
  BY <1>2, <1>4, <1>5, <1>6 DEF Back, s
<1>8. IsSeq(q) /\ Len(q) = k
  BY DEF BackTo
<1>9. IsSeq(p) /\ Len(p) = k + 1 /\ p[k + 1] = t /\ \A j \in 1 .. k : p[j] = q[j]
  <2>. HIDE DEF q
  <2>. QED
    BY <1>8, SeqAppend
<1>. HIDE DEF p
<1>10. \A j \in 1 .. (k + 1) : Back(p[j], e.secs[j]) /\ DOMAIN p[j] = SectionCells
  <2>. SUFFICES ASSUME NEW j \in 1 .. (k + 1)
                PROVE  Back(p[j], e.secs[j]) /\ DOMAIN p[j] = SectionCells
    OBVIOUS
  <2>1. CASE j = k + 1
    BY <1>7, <1>9, <2>1
  <2>2. CASE j # k + 1
    <3>1. j \in 1 .. k
      BY <2>2
    <3>. QED
      BY <1>9, <3>1 DEF BackTo
  <2>. QED
    BY <2>1, <2>2
<1>11. AddLoaded(read, r).secs = p /\ AddLoaded(read, r).st = r.st
  BY <1>1
<1>. QED
  BY <1>9, <1>10, <1>11 DEF BackTo

LEMMA SectionsBack ==
  ASSUME NEW e, NEW bytes, Readable(e, bytes), NEW d, \A f \in HdrNumbers : d.hdr[f] = e.hdr[f]
  PROVE  \E read : /\ LoadSections(d, InStream(bytes), << >>) = SectionsRead(d, read)
                   /\ read.st = InStream(bytes) /\ BackTo(read.secs, e, Len(e.secs))
<1>. DEFINE h == e.hdr
            n == Len(e.secs)
            st == InStream(bytes)
<1>1. /\ d.hdr.shoff = h.shoff /\ d.hdr.shentsize = h.shentsize /\ d.hdr.data = h.data
      /\ d.hdr.shnum = n
      /\ n \in Nat /\ h.shoff \in Nat /\ h.shentsize \in Nat /\ 10 <= h.shentsize /\ ShdrSize = 10
  BY HeaderHas, SeqIs, CellsOf DEF HdrNumbers, Readable, IsObject, Spacious
<1>2. ~(d.hdr.shnum # 0 /\ d.hdr.shentsize < ShdrSize) /\ d.hdr.shnum \in Nat
  BY <1>1
<1>3. PICK f : /\ f[0] = [secs |-> << >>, st |-> st]
               /\ \A k \in 1 .. d.hdr.shnum : f[k] = ReadMore(d.hdr, f[k - 1], k - 1)
               /\ LoadSections(d, st, << >>) = SectionsRead(d, f[d.hdr.shnum])
  <2>. HIDE DEF st
  <2>. QED
    BY <1>2, SectionsUnfold
<1>. HIDE DEF n, h, st
<1>. DEFINE T == {k \in Nat : k <= n => f[k].st = st /\ BackTo(f[k].secs, e, k)}
<1>4. 0 \in T
  <2>1. IsSeq(<< >>) /\ Len(<< >>) = 0
    BY EmptySeq DEF IsSeq
  <2>2. BackTo(<< >>, e, 0)
    BY <2>1 DEF BackTo
  <2>. QED
    BY <1>3, <2>2
<1>5. ASSUME NEW k \in Nat, k \in T PROVE k + 1 \in T
  <2>. SUFFICES ASSUME k + 1 <= n PROVE f[k + 1].st = st /\ BackTo(f[k + 1].secs, e, k + 1)
    OBVIOUS
  <2>. DEFINE read == f[k]
              s == e.secs[k + 1]
              at == d.hdr.shoff + k * d.hdr.shentsize
              enc == d.hdr.data
              l == LoadSection(st, at, << >>, enc)
  <2>1. k + 1 \in 1 .. n /\ (k + 1) - 1 = k /\ k <= n
    BY <1>1
  <2>2. read.st = st /\ BackTo(read.secs, e, k)
    BY <1>5, <2>1
  <2>3. f[k + 1] = AddLoaded(read, l)
    BY <1>1, <1>3, <2>1, <2>2 DEF ReadMore
  <2>4. at = SecW(e, k + 1).at /\ at \in Nat
    <3>. DEFINE o == h.shoff
                z == h.shentsize
    <3>1. SecW(e, k + 1).at = o + z * ((k + 1) - 1)
      BY <2>1, WriteSizes DEF Readable, h, n
    <3>2. o \in Nat /\ z \in Nat /\ at = o + k * z /\ SecW(e, k + 1).at = o + z * k
      BY <1>1, <2>1, <3>1
    <3>. HIDE DEF o, z, at
    <3>3. k * z \in Nat /\ k * z = z * k
      BY <3>2
    <3>. QED
      BY <3>2, <3>3
  <2>5. /\ IsSection(s, k) /\ Narrow(ShdrFields, s) /\ Whole(s)
        /\ InFile(s) => s.offset > 0 /\ Found(bytes, s.offset, s.data)
    <3>1. IsSection(s, k) /\ Narrow(ShdrFields, s) /\ Whole(s) /\ (InFile(s) => s.offset > 0)
      BY <2>1 DEF Readable, IsObject, Fits, Spacious, n
    <3>2. InFile(s) => k + 1 \in WithData(e)
      BY <2>1, <3>1 DEF WithData, Whole, n
    <3>3. InFile(s) => Holds(bytes, DatW(e, k + 1))
      BY <3>2 DEF Readable, Recorded
    <3>. QED
      BY <3>1, <3>3 DEF Holds, DatW
  <2>6. bytes \in Seq(Nat) /\ Found(bytes, at, Pack(ShdrFields, s, enc))
    <3>1. bytes \in Seq(Nat) /\ Holds(bytes, SecW(e, k + 1))
      BY <2>1 DEF Readable, Recorded, n
    <3>2. SecW(e, k + 1).cells = Pack(ShdrFields, s, enc)
      BY <1>1 DEF SecW, h
    <3>. HIDE DEF at, s, enc
    <3>. QED
      BY <2>4, <3>1, <3>2 DEF Holds
  <2>7. l = LoadSection(InStream(bytes), at, << >>, enc)
    BY DEF st
  <2>. HIDE DEF read, at, enc, l, s
  <2>8. Back(l.sec, s) /\ l.st = InStream(bytes) /\ DOMAIN l.sec = SectionCells
    BY <2>4, <2>5, <2>6, <2>7, SectionBack
  <2>9. BackTo(AddLoaded(read, l).secs, e, k + 1) /\ AddLoaded(read, l).st = l.st
    BY <2>2, <2>8, OneMoreBack DEF s
  <2>. QED
    BY <2>3, <2>8, <2>9 DEF st
<1>6. f[n].st = st /\ BackTo(f[n].secs, e, n)
  <2>. HIDE DEF T
  <2>1. Nat \subseteq T
    BY <1>4, <1>5, SetInduction
  <2>. QED
    BY <1>1, <2>1 DEF T
<1>. QED
  BY <1>1, <1>3, <1>6 DEF st, n

(* The name that a reader finds for section i.                             *)
LabelIn(e, i) ==
  LET k     == e.hdr.shstrndx
      table == e.secs[k + 1]
      str   == GetString(table, e.secs[i].name)
  IN  IF k = 0 \/ k >= Len(e.secs) \/ ~InFile(table) \/ str = NoString THEN << >> ELSE str

(* What section i is loaded with, its name included.                       *)
BackNamed(t, e, i) ==
  /\ \A f \in SecNumbers : t[f] = e.secs[i][f]
  /\ t.data = e.secs[i].data /\ t.label = LabelIn(e, i)

LEMMA NameBack ==
  ASSUME NEW e, IsObject(e), Spacious(e), NEW q, BackTo(q, e, Len(e.secs)),
         NEW k, k = e.hdr.shstrndx, ~(k = 0 \/ k >= Len(e.secs)), k \in Nat,
         NEW i \in 1 .. Len(e.secs)
  PROVE  BackNamed(NamedOne(q, k, q[i]), e, i)
<1>. DEFINE n == Len(e.secs)
            t == q[i]
            s == e.secs[i]
            x == s.name
            table == e.secs[k + 1]
            found == q[k + 1]
            str == GetString(found, x)
            u == [t EXCEPT !.label = str]
<1>1. n \in Nat /\ k + 1 \in 1 .. n
  <2>1. n \in Nat
    BY SeqIs DEF IsObject
  <2>. QED
    BY <2>1
<1>2. Back(t, s) /\ DOMAIN t = SectionCells /\ Back(found, table)
  BY <1>1 DEF BackTo
<1>3. x \in Nat /\ t.name = x
  <2>1. IsSection(s, i - 1)
    BY DEF IsObject
  <2>. QED
    BY <1>2, <2>1 DEF IsSection, Numbers, SecNumbers, Back
<1>4. found.size = table.size /\ found.data = table.data /\ table.size \in Nat
  <2>1. IsSection(table, k)
    BY <1>1 DEF IsObject
  <2>. QED
    BY <1>2, <2>1, SectionHas DEF Back, SecNumbers
<1>5. Whole(table)
  BY <1>1 DEF Spacious
<1>6. NamedOne(q, k, t) = IF str = NoString THEN t ELSE u
  BY <1>3 DEF NamedOne
<1>7. InFile(table) => str = GetString(table, x)
  <2>. SUFFICES ASSUME InFile(table) PROVE str = GetString(table, x)
    OBVIOUS
  <2>1. found.has /\ table.has
    BY <1>2, <1>5 DEF Back, Whole
  <2>. HIDE DEF found, table, x
  <2>. QED
    BY <1>4, <2>1 DEF GetString
<1>8. ~InFile(table) => str = NoString
  <2>. SUFFICES ASSUME ~InFile(table) PROVE str = NoString
    OBVIOUS
  <2>1. table.size = 0 \/ ~found.has
    BY <1>2 DEF Back
  <2>2. ~found.has \/ x >= found.size
    BY <1>3, <1>4, <2>1
  <2>. HIDE DEF found, table, x
  <2>. QED
    BY <2>2 DEF GetString
<1>9. LabelIn(e, i) = IF str = NoString THEN << >> ELSE str
  <2>. DEFINE own == GetString(table, x)
  <2>1. LabelIn(e, i) = IF ~InFile(table) \/ own = NoString THEN << >> ELSE own
    BY DEF LabelIn
  <2>. HIDE DEF own, str
  <2>. QED
    BY <1>7, <1>8, <2>1 DEF own
<1>. HIDE DEF str
<1>10. CASE str = NoString
  <2>1. t.label = << >>
    BY <1>2 DEF Back
  <2>. QED
    BY <1>2, <1>6, <1>9, <1>10, <2>1 DEF Back, BackNamed
<1>11. CASE str # NoString
  <2>1. "label" \in DOMAIN t /\ SecNumbers \subseteq DOMAIN t \ {"label"} /\ "data" \in DOMAIN t \ {"label"}
    BY <1>2 DEF SectionCells, SecNumbers
  <2>. HIDE DEF t
  <2>2. u.label = str /\ \A f \in DOMAIN t \ {"label"} : u[f] = t[f]
    BY <2>1
  <2>3. NamedOne(q, k, t) = u
    BY <1>6, <1>11
  <2>. HIDE DEF u
  <2>4. \A f \in SecNumbers : u[f] = s[f]
    BY <1>2, <2>1, <2>2 DEF Back
  <2>5. u.data = s.data
    BY <1>2, <2>1, <2>2 DEF Back
  <2>. QED
    BY <1>9, <1>11, <2>2, <2>3, <2>4, <2>5 DEF BackNamed, t
<1>. QED
  BY <1>10, <1>11

LEMMA NamesBack ==
  ASSUME NEW e, IsObject(e), Spacious(e), NEW q, BackTo(q, e, Len(e.secs)),
         NEW k, k = e.hdr.shstrndx, NEW r, r = NameSections(q, k)
  PROVE  Len(r) = Len(e.secs) /\ \A i \in 1 .. Len(e.secs) : BackNamed(r[i], e, i)
<1>. DEFINE n == Len(e.secs)
<1>1. n \in Nat /\ k \in Nat /\ Len(q) = n /\ IsSeq(q)
  BY SeqIs DEF IsObject, BackTo, Numbers, HdrNumbers
<1>2. CASE k = 0 \/ k >= n
  <2>1. r = q
    BY <1>1, <1>2 DEF NameSections
  <2>2. \A i \in 1 .. n : LabelIn(e, i) = << >>
    BY <1>2 DEF LabelIn
  <2>. QED
    BY <1>1, <2>1, <2>2 DEF BackTo, Back, BackNamed
<1>3. CASE ~(k = 0 \/ k >= n)
  <2>1. PICK f : /\ f[0] = << >>
                 /\ \A i \in 1 .. Len(q) : f[i] = NameMore(q, k, f[i - 1], q[i])
                 /\ r = f[Len(q)]
    BY <1>1, <1>3, NamesUnfold
  <2>. DEFINE Upto(w, j) == IsSeq(w) /\ Len(w) = j /\ \A i \in 1 .. j : BackNamed(w[i], e, i)
              T == {j \in Nat : j <= n => Upto(f[j], j)}
  <2>2. \A i \in 1 .. n : BackNamed(NamedOne(q, k, q[i]), e, i)
    BY <1>1, <1>3, NameBack
  <2>. HIDE DEF n
  <2>3. 0 \in T
    <3>1. IsSeq(<< >>) /\ Len(<< >>) = 0
      BY EmptySeq DEF IsSeq
    <3>. QED
      BY <2>1, <3>1
  <2>4. ASSUME NEW j \in Nat, j \in T PROVE j + 1 \in T
    <3>. SUFFICES ASSUME j + 1 <= n PROVE Upto(f[j + 1], j + 1)
      OBVIOUS
    <3>. DEFINE w == f[j]
                x == NamedOne(q, k, q[j + 1])
                p == Append(w, x)
    <3>1. j + 1 \in 1 .. n /\ (j + 1) - 1 = j /\ j <= n
      BY <1>1
    <3>2. IsSeq(w) /\ Len(w) = j /\ \A i \in 1 .. j : BackNamed(w[i], e, i)
      BY <2>4, <3>1
    <3>3. f[j + 1] = p
      BY <1>1, <2>1, <3>1 DEF NameMore
    <3>4. BackNamed(x, e, j + 1)
      BY <2>2, <3>1
    <3>. HIDE DEF w, x
    <3>5. IsSeq(p) /\ Len(p) = j + 1 /\ p[j + 1] = x /\ \A i \in 1 .. j : p[i] = w[i]
      BY <3>2, SeqAppend
    <3>. HIDE DEF p
    <3>6. \A i \in 1 .. (j + 1) : i = j + 1 \/ i \in 1 .. j
      OBVIOUS
    <3>7. \A i \in 1 .. (j + 1) : BackNamed(p[i], e, i)
      BY <3>2, <3>4, <3>5, <3>6
    <3>. QED
      BY <3>3, <3>5, <3>7
  <2>5. Upto(f[n], n)
    <3>. HIDE DEF T
    <3>1. Nat \subseteq T
      BY <2>3, <2>4, SetInduction
    <3>. QED
      BY <1>1, <3>1 DEF T
  <2>. QED
    BY <1>1, <2>1, <2>5 DEF n
<1>. QED
  BY <1>2, <1>3

(* Any part of the file is read in full.                                   *)
LEMMA ReadInFull ==
  ASSUME NEW bytes \in Seq(Nat), NEW at \in Nat, NEW n \in Nat, at + n <= Len(bytes)
  PROVE  Len(ReadAt(InStream(bytes), at, n)) = n /\ AfterRead(InStream(bytes), at, n) = InStream(bytes)
<1>. DEFINE cells == [c \in 1 .. n |-> bytes[at + c]]
<1>1. Len(cells) = n /\ \A c \in 1 .. n : cells[c] = bytes[at + c]
  OBVIOUS
<1>. HIDE DEF cells
<1>2. Len(cells) \in Nat /\ Found(bytes, at, cells) /\ n <= Len(cells)
  BY <1>1 DEF Found
<1>. QED
  BY <1>2, ReadBack

(* What a segment is loaded with.                                          *)
SegmentCells == SegNumbers \cup {"index", "data", "has", "secs", "offSet"}

SameHeader(h, s) == (\A f \in SegNumbers : h[f] = s[f]) /\ DOMAIN h = SegmentCells

LEMMA SegmentHeaderBack ==
  ASSUME NEW s, Narrow(PhdrFields, s), NEW encoding, NEW p, p = Pack(PhdrFields, s, encoding),
         NEW cells, Len(cells) = 8, \A c \in 1 .. 8 : cells[c] = p[c],
         NEW h, h = SegmentHeader(cells, encoding)
  PROVE  SameHeader(h, s)
<1>. DEFINE pad == ZeroPadded(cells, PhdrSize)
            u == Unpack(PhdrCells, pad, encoding)
<1>1. \A c \in 1 .. 8 : pad[c] = p[c]
  <2>1. PhdrSize = 8
    BY CellsOf
  <2>2. pad = [c \in 1 .. 8 |-> IF c <= 8 THEN cells[c] ELSE 0]
    BY <2>1 DEF ZeroPadded
  <2>. HIDE DEF pad
  <2>. QED
    BY <2>2
<1>. HIDE DEF pad
<1>2. \A f \in SegNumbers : u[f] = s[f]
  <2>1. ToSet(PhdrFields) = SegNumbers /\ DOMAIN PhdrFields = 1 .. 8 /\ Len(PhdrFields) = 8
    BY FieldSets DEF PhdrFields
  <2>. DEFINE n == 8
  <2>2. n \in Nat /\ Len(PhdrFields) = n /\ DOMAIN PhdrFields = 1 .. n /\ \A c \in 1 .. n : pad[c] = p[c]
    BY <1>1, <2>1
  <2>. HIDE DEF n
  <2>3. \A f \in ToSet(PhdrFields) : Unpack(CellOf(PhdrFields), pad, encoding)[f] = s[f]
    BY <2>2, Unpacked
  <2>. QED
    BY <2>1, <2>3 DEF PhdrCells
<1>3. DOMAIN NewSegment = SegNumbers \cup {"data", "has", "index", "secs", "offSet"}
  BY FieldSets DEF NewSegment, Bare
<1>4. h = [f \in DOMAIN NewSegment |-> IF f \in SegNumbers THEN u[f]
                                      ELSE IF f = "offSet" THEN TRUE ELSE NewSegment[f]]
  BY FieldSets DEF SegmentHeader, pad
<1>. HIDE DEF u
<1>5. \A f \in SegNumbers : h[f] = s[f]
  BY <1>2, <1>3, <1>4
<1>6. DOMAIN h = SegmentCells
  BY <1>3, <1>4 DEF SegmentCells
<1>. QED
  BY <1>5, <1>6 DEF SameHeader

LEMMA SegmentBack ==
  ASSUME NEW s, NEW i, IsSegment(s, i), Narrow(PhdrFields, s), NEW encoding,
         NEW bytes \in Seq(Nat), NEW at \in Nat, Found(bytes, at, Pack(PhdrFields, s, encoding)),
         s.offset + s.filesz <= Len(bytes),
         NEW r, r = LoadSegment(InStream(bytes), at, << >>, encoding)
  PROVE  r.ok = TRUE /\ r.st = InStream(bytes) /\ SameHeader(r.seg, s)
<1>. DEFINE st    == InStream(bytes)
            p     == Pack(PhdrFields, s, encoding)
            limit == StreamSize(st)
            cells == ReadAt(st, at, PhdrSize)
            h     == SegmentHeader(cells, encoding)
            data  == ReadAt(st, s.offset, s.filesz)
            st3   == AfterRead(st, s.offset, s.filesz)
            full  == [h EXCEPT !.has = TRUE, !.data = data]
<1>1. PhdrSize = 8 /\ Len(p) = 8 /\ 8 \in Nat /\ 8 <= 8
  BY CellsOf DEF Pack, PhdrFields
<1>2. cells \in Seq(Nat) /\ Len(cells) = 8 /\ (\A c \in 1 .. 8 : cells[c] = p[c])
      /\ AfterRead(st, at, PhdrSize) = st
  <2>. DEFINE n == PhdrSize
  <2>1. n \in Nat /\ n <= Len(p) /\ Len(p) \in Nat
    BY <1>1
  <2>. HIDE DEF n, p
  <2>2. /\ ReadAt(InStream(bytes), at, n) \in Seq(Nat) /\ Len(ReadAt(InStream(bytes), at, n)) = n
        /\ \A c \in 1 .. n : ReadAt(InStream(bytes), at, n)[c] = p[c]
        /\ AfterRead(InStream(bytes), at, n) = InStream(bytes)
    BY <2>1, ReadBack DEF p
  <2>. QED
    BY <1>1, <2>2 DEF n
<1>3. r = LoadSegmentData(h, st, limit, << >>)
  BY <1>2, NoTranslation DEF LoadSegment
<1>4. s.offset \in Nat /\ s.filesz \in Nat
  BY SegmentHas
<1>. HIDE DEF cells, limit, p
<1>5. h = SegmentHeader(cells, encoding) /\ p = Pack(PhdrFields, s, encoding)
  BY DEF p
<1>. HIDE DEF h
<1>6. (\A f \in SegNumbers : h[f] = s[f]) /\ DOMAIN h = SegmentCells
  <2>1. Narrow(PhdrFields, s)
    OBVIOUS
  <2>2. SameHeader(h, s)
    BY ONLY <1>2, <1>5, <2>1, SegmentHeaderBack
  <2>. QED
    BY <2>2 DEF SameHeader
<1>7. h.filesz = s.filesz /\ h.offset = s.offset
  BY <1>6 DEF SegNumbers
<1>8. Len(data) = s.filesz /\ st3 = st
  <2>. DEFINE n == s.filesz
              o == s.offset
  <2>1. n \in Nat /\ o \in Nat /\ o + n <= Len(bytes)
    BY <1>4
  <2>. HIDE DEF n, o
  <2>2. Len(ReadAt(InStream(bytes), o, n)) = n /\ AfterRead(InStream(bytes), o, n) = InStream(bytes)
    BY <2>1, ReadInFull
  <2>. QED
    BY <2>2 DEF n, o
<1>9. \/ r = [seg |-> h, st |-> st, ok |-> TRUE]
      \/ r = SegmentWithBytes(h, data, st3)
  BY <1>3, <1>7, NoTranslation DEF LoadSegmentData
<1>. HIDE DEF data, st3
<1>10. SegmentWithBytes(h, data, st3) = [seg |-> full, st |-> st, ok |-> TRUE]
  BY <1>7, <1>8 DEF SegmentWithBytes
<1>11. DOMAIN full = DOMAIN h /\ \A f \in SegNumbers : full[f] = h[f]
  <2>1. {"has", "data"} \subseteq DOMAIN h /\ SegNumbers \subseteq DOMAIN h \ {"has", "data"}
    BY <1>6 DEF SegmentCells, SegNumbers
  <2>2. DOMAIN full = DOMAIN h /\ \A f \in DOMAIN h \ {"has", "data"} : full[f] = h[f]
    BY <2>1
  <2>. HIDE DEF full
  <2>. QED
    BY <2>1, <2>2
<1>. HIDE DEF full, st
<1>12. (r.seg = h \/ r.seg = full) /\ r.st = st
  BY <1>9, <1>10
<1>13. r.ok = TRUE
  <2>1. CASE r = [seg |-> h, st |-> st, ok |-> TRUE]
    BY <2>1
  <2>2. CASE r = [seg |-> full, st |-> st, ok |-> TRUE]
    BY <2>2
  <2>. QED
    BY <1>9, <1>10, <2>1, <2>2
<1>14. \A f \in SegNumbers : r.seg[f] = s[f]
  BY <1>6, <1>11, <1>12
<1>15. DOMAIN r.seg = SegmentCells
  BY <1>6, <1>11, <1>12
<1>. QED
  BY <1>12, <1>13, <1>14, <1>15 DEF st, SameHeader

(* The object, the stream and the result when k segments were read.        *)
SegmentsTo(acc, e, secs, st, k) ==
  /\ DOMAIN acc = {"elf", "st", "ok"} /\ acc.ok = TRUE /\ acc.st = st
  /\ {"hdr", "secs", "segs"} \subseteq DOMAIN acc.elf /\ acc.elf.secs = secs
  /\ IsSeq(acc.elf.segs) /\ Len(acc.elf.segs) = k
  /\ \A j \in 1 .. k : \A f \in SegNumbers : acc.elf.segs[j][f] = e.segs[j][f]

LEMMA OneSegmentMore ==
  ASSUME NEW e, NEW secs, NEW st, st.fail = FALSE, NEW k \in Nat, NEW acc, SegmentsTo(acc, e, secs, st, k),
         NEW r, r.ok = TRUE, r.st = st, SameHeader(r.seg, e.segs[k + 1])
  PROVE  SegmentsTo(AddSegment(acc, r), e, secs, st, k + 1)
<1>. DEFINE d == acc.elf
            s == r.seg
            n == Len(d.segs)
            l == SectionsOf(d, s)
            x == [s EXCEPT !.index = n, !.secs = l]
            q == Append(d.segs, x)
            u == [d EXCEPT !.segs = q]
            b == [acc EXCEPT !.elf = u, !.st = st]
<1>1. AddSegment(acc, r) = b
  BY DEF AddSegment
<1>2. /\ DOMAIN acc = {"elf", "st", "ok"} /\ acc.ok = TRUE /\ {"hdr", "secs", "segs"} \subseteq DOMAIN d
      /\ d.secs = secs /\ IsSeq(d.segs) /\ Len(d.segs) = k
      /\ \A j \in 1 .. k : \A f \in SegNumbers : d.segs[j][f] = e.segs[j][f]
  BY DEF SegmentsTo
<1>. HIDE DEF l, n
<1>3. \A f \in SegNumbers : x[f] = e.segs[k + 1][f]
  <2>1. SegNumbers \subseteq DOMAIN s \ {"index", "secs"}
    BY DEF SameHeader, SegmentCells, SegNumbers
  <2>2. \A f \in DOMAIN s \ {"index", "secs"} : x[f] = s[f]
    OBVIOUS
  <2>. HIDE DEF x
  <2>. QED
    BY <2>1, <2>2 DEF SameHeader
<1>. HIDE DEF x, d
<1>4. IsSeq(q) /\ Len(q) = k + 1 /\ q[k + 1] = x /\ \A j \in 1 .. k : q[j] = d.segs[j]
  <2>. DEFINE w == d.segs
  <2>1. IsSeq(w) /\ Len(w) = k
    BY <1>2
  <2>. HIDE DEF w
  <2>2. IsSeq(Append(w, x)) /\ Len(Append(w, x)) = Len(w) + 1 /\ Append(w, x)[Len(w) + 1] = x
        /\ \A j \in 1 .. Len(w) : Append(w, x)[j] = w[j]
    BY <2>1, SeqAppend
  <2>. QED
    BY <2>1, <2>2 DEF w
<1>. HIDE DEF q
<1>5. \A j \in 1 .. (k + 1) : \A f \in SegNumbers : q[j][f] = e.segs[j][f]
  <2>. SUFFICES ASSUME NEW j \in 1 .. (k + 1) PROVE \A f \in SegNumbers : q[j][f] = e.segs[j][f]
    OBVIOUS
  <2>1. CASE j = k + 1
    BY <1>3, <1>4, <2>1
  <2>2. CASE j # k + 1
    <3>1. j \in 1 .. k
      BY <2>2
    <3>. QED
      BY <1>2, <1>4, <3>1
  <2>. QED
    BY <2>1, <2>2
<1>6. {"hdr", "secs", "segs"} \subseteq DOMAIN u /\ u.segs = q /\ u.secs = secs
  BY <1>2
<1>. HIDE DEF u
<1>7. DOMAIN b = DOMAIN acc /\ b.elf = u /\ b.st = st /\ b.ok = TRUE
  BY <1>2
<1>. HIDE DEF b
<1>. QED
  BY <1>1, <1>2, <1>4, <1>5, <1>6, <1>7 DEF SegmentsTo

(* The segments of e lie within the file.                                  *)
InsideFile(e, bytes) == \A g \in 1 .. Len(e.segs) : e.segs[g].offset + e.segs[g].filesz <= Len(bytes)

LEMMA SegmentsBack ==
  ASSUME NEW e, NEW bytes, Readable(e, bytes), InsideFile(e, bytes),
         NEW st, st = InStream(bytes), NEW secs,
         NEW s, SegmentsTo(s, e, secs, st, 0), \A f \in HdrNumbers : s.elf.hdr[f] = e.hdr[f],
         NEW r, r = LoadSegments(s, << >>)
  PROVE  SegmentsTo(r, e, secs, st, Len(e.segs))
<1>. DEFINE h == e.hdr
            d == s.elf
            n == Len(e.segs)
<1>1. /\ d.hdr.phoff = h.phoff /\ d.hdr.phentsize = h.phentsize /\ d.hdr.data = h.data
      /\ d.hdr.phnum = n /\ s.ok
      /\ n \in Nat /\ h.phoff \in Nat /\ h.phentsize \in Nat /\ PhdrSize = 8
  BY HeaderHas, SeqIs, CellsOf DEF HdrNumbers, Readable, IsObject, SegmentsTo
<1>2. ~(d.hdr.phnum # 0 /\ d.hdr.phentsize < PhdrSize) /\ d.hdr.phnum \in Nat
  <2>1. n # 0 => e.segs # << >>
    OBVIOUS
  <2>2. e.segs # << >> => 8 <= h.phentsize
    BY <1>1 DEF Readable, Spacious
  <2>. QED
    BY <1>1, <2>1, <2>2
<1>3. PICK f : /\ f[0] = s
               /\ \A k \in 1 .. d.hdr.phnum : f[k] = ReadSegment(d.hdr, f[k - 1], k - 1)
               /\ LoadSegments(s, << >>) = f[d.hdr.phnum]
  BY <1>1, <1>2, LoadUnfolds
<1>. HIDE DEF n, h, d
<1>. DEFINE T == {k \in Nat : k <= n => SegmentsTo(f[k], e, secs, st, k)}
<1>4. 0 \in T
  BY <1>3
<1>5. ASSUME NEW k \in Nat, k \in T PROVE k + 1 \in T
  <2>. SUFFICES ASSUME k + 1 <= n PROVE SegmentsTo(f[k + 1], e, secs, st, k + 1)
    OBVIOUS
  <2>. DEFINE acc == f[k]
              g == e.segs[k + 1]
              at == d.hdr.phoff + k * d.hdr.phentsize
              enc == d.hdr.data
              l == LoadSegment(st, at, << >>, enc)
  <2>1. k + 1 \in 1 .. n /\ (k + 1) - 1 = k /\ k <= n
    BY <1>1
  <2>2. SegmentsTo(acc, e, secs, st, k) /\ acc.st = st /\ acc.ok
    BY <1>5, <2>1 DEF SegmentsTo
  <2>3. f[k + 1] = AddSegment(acc, l)
    BY <1>1, <1>3, <2>1, <2>2 DEF ReadSegment
  <2>4. at = SegW(e, k + 1).at /\ at \in Nat
    <3>. DEFINE o == h.phoff
                z == h.phentsize
    <3>1. SegW(e, k + 1).at = o + z * ((k + 1) - 1)
      BY <2>1, WriteSizes DEF Readable, h, n
    <3>2. o \in Nat /\ z \in Nat /\ at = o + k * z /\ SegW(e, k + 1).at = o + z * k
      BY <1>1, <2>1, <3>1
    <3>. HIDE DEF o, z, at
    <3>3. k * z \in Nat /\ k * z = z * k
      BY <3>2
    <3>. QED
      BY <3>2, <3>3
  <2>5. IsSegment(g, Len(e.secs)) /\ Narrow(PhdrFields, g) /\ g.offset + g.filesz <= Len(bytes)
    BY <2>1 DEF Readable, IsObject, Fits, InsideFile, n
  <2>6. bytes \in Seq(Nat) /\ Found(bytes, at, Pack(PhdrFields, g, enc))
    <3>1. bytes \in Seq(Nat) /\ Holds(bytes, SegW(e, k + 1))
      BY <2>1 DEF Readable, Recorded, n
    <3>2. SegW(e, k + 1).cells = Pack(PhdrFields, g, enc)
      BY <1>1 DEF SegW, h
    <3>. HIDE DEF at, g, enc
    <3>. QED
      BY <2>4, <3>1, <3>2 DEF Holds
  <2>7. l = LoadSegment(InStream(bytes), at, << >>, enc)
    OBVIOUS
  <2>. HIDE DEF acc, at, enc, l, g
  <2>8. l.ok = TRUE /\ l.st = InStream(bytes) /\ SameHeader(l.seg, g)
    <3>. DEFINE i == Len(e.secs)
    <3>1. IsSegment(g, i)
      BY <2>5
    <3>. HIDE DEF i
    <3>. QED
      BY ONLY <2>4, <2>5, <2>6, <2>7, <3>1, SegmentBack, ZenonT(30)
  <2>9. st.fail = FALSE
    BY DEF InStream
  <2>10. SegmentsTo(AddSegment(acc, l), e, secs, st, k + 1)
    BY <2>2, <2>8, <2>9, OneSegmentMore DEF g
  <2>. QED
    BY <2>3, <2>10
<1>6. SegmentsTo(f[n], e, secs, st, n)
  <2>. HIDE DEF T
  <2>1. Nat \subseteq T
    BY <1>4, <1>5, SetInduction
  <2>. QED
    BY <1>1, <2>1 DEF T
<1>. QED
  BY <1>1, <1>3, <1>6 DEF n

(* Opening a file brings back what it holds.                               *)
LoadedAs(x, e) ==
  /\ Len(x.secs) = Len(e.secs) /\ \A i \in 1 .. Len(e.secs) : BackNamed(x.secs[i], e, i)
  /\ Len(x.segs) = Len(e.segs)
  /\ \A g \in 1 .. Len(e.segs) : \A f \in SegNumbers : x.segs[g][f] = e.segs[g][f]

LEMMA HeaderBack ==
  ASSUME NEW e, NEW bytes, Readable(e, bytes), NEW st, st = InStream(bytes),
         NEW ident, ident = ReadAt(st, 0, 3), NEW cells, cells = ReadAt(st, 0, EhdrSize)
  PROVE  /\ IsElf(ident) /\ Len(cells) = EhdrSize
         /\ \A f \in HdrNumbers : Unpack(EhdrCells, cells, ident[3])[f] = e.hdr[f]
<1>. DEFINE h == e.hdr
            p == Pack(EhdrFields, h, h.data)
<1>1. Found(bytes, 0, p) /\ bytes \in Seq(Nat)
  BY DEF Readable, Recorded, Holds, HeadW
<1>2. EhdrSize = 16 /\ Len(p) = 16
  BY CellsOf DEF Pack, EhdrFields
<1>3. /\ Narrow(EhdrFields, h) /\ h.magic = MAGIC /\ h.class \in {CLASS32, CLASS64}
      /\ h.data \in {LSB, MSB}
  BY DEF Readable, Fits
<1>4. p[1] = h.magic /\ p[2] = h.class /\ p[3] = h.data
  BY DEF Pack, EhdrFields, Ident
<1>. HIDE DEF p, h
<1>. DEFINE Whole3(x, n) == Len(x) = n /\ \A c \in 1 .. n : x[c] = p[c]
<1>5. ASSUME NEW n \in Nat, n <= 16 PROVE Whole3(ReadAt(st, 0, n), n)
  <2>. DEFINE z == 0
  <2>1. z \in Nat /\ n <= Len(p) /\ Len(p) \in Nat
    BY <1>2, <1>5
  <2>2. Found(bytes, z, p)
    BY <1>1
  <2>. HIDE DEF z
  <2>3. /\ ReadAt(InStream(bytes), z, n) \in Seq(Nat) /\ Len(ReadAt(InStream(bytes), z, n)) = n
        /\ \A c \in 1 .. n : ReadAt(InStream(bytes), z, n)[c] = p[c]
        /\ AfterRead(InStream(bytes), z, n) = InStream(bytes)
    <3>1. bytes \in Seq(Nat) /\ n \in Nat
      BY <1>1
    <3>. QED
      BY ONLY <2>1, <2>2, <3>1, ReadBack
  <2>. QED
    BY <2>3 DEF z
<1>6. Whole3(ident, 3) /\ Whole3(cells, 16)
  <2>1. 3 \in Nat /\ 3 <= 16 /\ 16 \in Nat /\ 16 <= 16
    OBVIOUS
  <2>. HIDE DEF Whole3
  <2>. QED
    BY <1>2, <1>5, <2>1
<1>7. IsElf(ident)
  BY <1>3, <1>4, <1>6 DEF IsElf
<1>8. \A f \in HdrNumbers : Unpack(EhdrCells, cells, ident[3])[f] = h[f]
  <2>1. ToSet(EhdrFields) = HdrNumbers /\ DOMAIN EhdrFields = 1 .. 16 /\ Len(EhdrFields) = 16
    BY FieldSets DEF EhdrFields
  <2>. DEFINE n == 16
              enc == ident[3]
  <2>2. n \in Nat /\ Len(EhdrFields) = n /\ DOMAIN EhdrFields = 1 .. n /\ \A c \in 1 .. n : cells[c] = p[c]
    BY <1>6, <2>1
  <2>3. p = Pack(EhdrFields, h, enc)
    BY <1>4, <1>6 DEF p
  <2>. HIDE DEF n, enc
  <2>4. \A f \in ToSet(EhdrFields) : Unpack(CellOf(EhdrFields), cells, enc)[f] = h[f]
    BY <1>3, <2>2, <2>3, Unpacked
  <2>. QED
    BY <2>1, <2>4 DEF EhdrCells, enc
<1>. QED
  BY <1>2, <1>6, <1>7, <1>8 DEF h

LEMMA LoadBack ==
  ASSUME NEW e, NEW bytes, Readable(e, bytes), InsideFile(e, bytes),
         NEW r, r = Load(NewElfio, bytes, << >>)
  PROVE  r.ok = TRUE /\ LoadedAs(r.elf, e)
<1>. DEFINE b     == NewElfio
            d     == [b EXCEPT !.secs = << >>, !.segs = << >>]
            st    == InStream(bytes)
            ident == ReadAt(st, 0, 3)
            cells == ReadAt(st, 0, EhdrSize)
            h     == Unpack(EhdrCells, cells, ident[3])
            f     == [d EXCEPT !.hdr = h]
            s     == LoadSections(f, st, << >>)
<1>1. IsObject(b) /\ IsObject(e) /\ Spacious(e)
  <2>1. CLASS32 \in Nat /\ LSB \in Nat
    BY DEF CLASS32, LSB
  <2>. QED
    BY <2>1, CreateIsObject DEF NewElfio, Readable
<1>2. r = LoadParts(d, st, ident, cells, << >>)
  BY NoTranslation DEF Load
<1>. HIDE DEF b, st
<1>3. /\ DOMAIN d = DOMAIN b /\ d.secs = << >> /\ d.segs = << >>
      /\ {"hdr", "secs", "segs"} \subseteq DOMAIN d
  BY <1>1 DEF IsObject
<1>. HIDE DEF d, ident, cells
<1>4. /\ IsElf(ident) /\ Len(cells) = EhdrSize /\ EhdrSize = 16
      /\ \A x \in HdrNumbers : h[x] = e.hdr[x]
  BY HeaderBack, CellsOf DEF st, ident, cells
<1>. HIDE DEF h
<1>5. r = LoadSegments(s, << >>)
  <2>1. ~(Len(cells) < EhdrSize)
    BY <1>4
  <2>. HIDE DEF s
  <2>2. r = LoadSegments(LoadSections([d EXCEPT !.hdr = h], st, << >>), << >>)
    BY <1>2, <1>4, <2>1 DEF LoadParts, h
  <2>. QED
    BY <2>2 DEF s
<1>6. /\ {"hdr", "secs", "segs"} \subseteq DOMAIN f /\ f.hdr = h
      /\ f.secs = << >> /\ f.segs = << >>
  BY <1>3
<1>. HIDE DEF f
<1>7. \A x \in HdrNumbers : f.hdr[x] = e.hdr[x]
  BY <1>4, <1>6
<1>8. PICK read : /\ s = SectionsRead(f, read) /\ read.st = st
                  /\ BackTo(read.secs, e, Len(e.secs))
  BY <1>7, SectionsBack DEF st
<1>. DEFINE q == read.secs
            k == f.hdr.shstrndx
            x == NameSections(q, k)
            u == [f EXCEPT !.secs = x]
<1>9. s = [elf |-> u, st |-> st, ok |-> TRUE]
  BY <1>8 DEF SectionsRead
<1>10. k = e.hdr.shstrndx
  BY <1>7 DEF HdrNumbers
<1>11. Len(x) = Len(e.secs) /\ \A i \in 1 .. Len(e.secs) : BackNamed(x[i], e, i)
  <2>1. x = NameSections(q, k) /\ BackTo(q, e, Len(e.secs))
    BY <1>8
  <2>. HIDE DEF x, q, k
  <2>. QED
    BY <1>1, <1>10, <2>1, NamesBack
<1>. HIDE DEF x
<1>12. {"hdr", "secs", "segs"} \subseteq DOMAIN u /\ u.hdr = f.hdr /\ u.secs = x /\ u.segs = << >>
  BY <1>6
<1>. HIDE DEF s, u
<1>13. SegmentsTo(s, e, x, st, 0)
  <2>1. DOMAIN s = {"elf", "st", "ok"} /\ s.elf = u /\ s.st = st
    BY <1>9
  <2>2. s.ok = TRUE
    BY <1>9
  <2>3. IsSeq(<< >>) /\ Len(<< >>) = 0
    BY EmptySeq DEF IsSeq
  <2>. QED
    BY <1>12, <2>1, <2>2, <2>3 DEF SegmentsTo
<1>14. \A y \in HdrNumbers : s.elf.hdr[y] = e.hdr[y]
  BY <1>7, <1>9, <1>12
<1>15. SegmentsTo(r, e, x, st, Len(e.segs))
  <2>1. st = InStream(bytes)
    BY DEF st
  <2>. HIDE DEF st
  <2>. QED
    BY <1>5, <1>13, <1>14, <2>1, SegmentsBack
<1>. QED
  BY <1>11, <1>15 DEF SegmentsTo, LoadedAs

(* The counts in the header are those of the object.                       *)
LEMMA LayoutCounts ==
  ASSUME NEW e, IsObject(e), NEW l, l = Layout(e), l.ok
  PROVE  l.elf.hdr.phnum = Len(e.segs) /\ l.elf.hdr.shnum = Len(e.secs)
<1>. DEFINE b == Base(e)
            first == FirstAcc(e)
            r == LayoutSegments(first)
            a == LayoutSectionsWithoutSegments(r)
            t == LayoutSectionTable(a)
            h == LayoutHeader(e)
<1>1. IsObject(b) /\ b.hdr = h.hdr /\ Fresh(first, b)
  BY BaseKeeps
<1>2. l = IF r.ok THEN t ELSE r
  BY DEF Layout, LayoutRest, FirstAcc, Base
<1>3. h.hdr.phnum = Len(e.segs) /\ h.hdr.shnum = Len(e.secs)
  <2>1. /\ {"hdr", "secs", "segs"} \subseteq DOMAIN e
        /\ {"phnum", "phoff", "shnum", "shoff", "ehsize", "phentsize", "shentsize"} \subseteq DOMAIN e.hdr
    BY HeaderHas DEF IsObject
  <2>. QED
    BY <2>1 DEF LayoutHeader
<1>. HIDE DEF b, first, h
<1>4. l = t
  <2>. HIDE DEF r, t
  <2>. QED
    BY <1>2
<1>5. Acc(r, b)
  BY <1>1, SegmentsKeep
<1>. HIDE DEF r
<1>6. Acc(a, b)
  BY <1>5, AloneKeeps
<1>. HIDE DEF a
<1>7. a.elf.hdr = h.hdr /\ {"phnum", "shnum"} \subseteq DOMAIN a.elf.hdr \ {"shoff"}
  <2>1. a.elf.hdr = b.hdr /\ IsObject(a.elf)
    BY <1>6 DEF Acc, Laid
  <2>. QED
    BY <1>1, <2>1, HeaderHas
<1>8. \A x \in DOMAIN a.elf.hdr \ {"shoff"} : t.elf.hdr[x] = a.elf.hdr[x]
  BY <1>6, TableKeeps DEF Acc, Laid
<1>. HIDE DEF t
<1>. QED
  BY <1>3, <1>4, <1>7, <1>8

(* The names of an object are those its name table gives.                  *)
Named(e) == \A i \in 3 .. Len(e.secs) : e.secs[i].label = LabelIn(e, i)

LEMMA ContentBack ==
  ASSUME NEW e, IsObject(e), NEW x, LoadedAs(x, e), Named(e)
  PROVE  Content(x) = Content(e)
<1>. DEFINE n == Len(e.secs)
            m == Len(e.segs)
<1>1. n \in Nat /\ m \in Nat /\ Len(x.secs) = n /\ Len(x.segs) = m
  BY SeqIs DEF IsObject, LoadedAs
<1>2. ASSUME NEW i \in 3 .. n PROVE BlobOf(x.secs[i]) = BlobOf(e.secs[i])
  <2>. DEFINE s == e.secs[i]
              t == x.secs[i]
  <2>1. BackNamed(t, e, i)
    <3>1. i \in 1 .. n
      OBVIOUS
    <3>. QED
      BY <3>1 DEF LoadedAs
  <2>2. t.type = s.type /\ t.flags = s.flags /\ t.align = s.align /\ t.size = s.size
    BY <2>1 DEF BackNamed, SecNumbers
  <2>3. t.data = s.data /\ t.label = s.label
    BY <2>1 DEF BackNamed, Named
  <2>. HIDE DEF s, t
  <2>4. BlobOf(t) = BlobOf(s)
    BY <2>2, <2>3 DEF BlobOf
  <2>. QED
    BY <2>4 DEF s, t
<1>3. \A i \in 1 .. (n - 2) : BlobOf(x.secs[i + 2]) = BlobOf(e.secs[i + 2])
  <2>1. \A i \in 1 .. (n - 2) : i + 2 \in 3 .. n
    BY <1>1
  <2>. QED
    BY <1>2, <2>1
<1>4. \A g \in 1 .. m : x.segs[g].type = e.segs[g].type /\ x.segs[g].vaddr = e.segs[g].vaddr
  BY DEF LoadedAs, SegNumbers
<1>5. Content(e) = [blobs |-> [i \in 1 .. (n - 2) |-> BlobOf(e.secs[i + 2])],
                    groups |-> [g \in 1 .. m |-> [type |-> e.segs[g].type,
                                                  vaddr |-> e.segs[g].vaddr]]]
  BY DEF Content
<1>6. Content(x) = [blobs |-> [i \in 1 .. (n - 2) |-> BlobOf(x.secs[i + 2])],
                    groups |-> [g \in 1 .. m |-> [type |-> x.segs[g].type,
                                                  vaddr |-> x.segs[g].vaddr]]]
  BY <1>1 DEF Content
<1>. HIDE DEF n, m
<1>7. [i \in 1 .. (n - 2) |-> BlobOf(e.secs[i + 2])] = [i \in 1 .. (n - 2) |-> BlobOf(x.secs[i + 2])]
  BY <1>3
<1>8. [g \in 1 .. m |-> [type |-> e.segs[g].type, vaddr |-> e.segs[g].vaddr]]
        = [g \in 1 .. m |-> [type |-> x.segs[g].type, vaddr |-> x.segs[g].vaddr]]
  BY <1>4
<1>. QED
  BY <1>5, <1>6, <1>7, <1>8

(* A file saved with room for everything is one that can be read.          *)
LEMMA SavedIsReadable ==
  ASSUME NEW e, IsObject(e), Roomy(e), NEW l, l = Layout(e), l.ok, NEW f, f = l.elf,
         Fits(f), Spacious(f),
         NEW w, w = SaveWrites(f), NEW out, out = Written(w, Len(w), Room), ~out.fail
  PROVE  Readable(f, out.bytes) /\ Kept(f, e)
<1>. DEFINE lo == e.hdr.ehsize + e.hdr.phentsize * Len(e.segs)
<1>1. PICK hi \in Nat :
        /\ InRoom(f, lo, hi, 1 .. (Len(e.secs) - 1)) /\ lo <= hi /\ hi <= f.hdr.shoff
        /\ f.hdr.ehsize = e.hdr.ehsize /\ f.hdr.phentsize = e.hdr.phentsize
        /\ f.hdr.phoff = (IF e.segs # << >> THEN e.hdr.ehsize ELSE 0)
        /\ Kept(f, e)
  BY LayoutStow
<1>2. IsObject(f) /\ Len(f.secs) = Len(e.secs) /\ Len(f.segs) = Len(e.segs)
  BY <1>1 DEF Kept
<1>3. f.hdr.ehsize \in Nat /\ f.hdr.phentsize \in Nat /\ Len(f.segs) \in Nat /\ Len(f.secs) \in Nat
  BY <1>2, HeaderHas, SeqIs DEF IsObject
<1>4. /\ lo \in Nat /\ lo = f.hdr.ehsize + f.hdr.phentsize * Len(f.segs) /\ 16 <= lo
  <2>1. lo = f.hdr.ehsize + f.hdr.phentsize * Len(f.segs)
    BY <1>1, <1>2
  <2>2. 16 <= f.hdr.ehsize
    BY CellsOf DEF Spacious
  <2>. DEFINE u == f.hdr.ehsize
              v == f.hdr.phentsize
              k == Len(f.segs)
              p == v * k
  <2>3. p \in Nat
    <3>. HIDE DEF v, k
    <3>. QED
      BY <1>3 DEF v, k
  <2>. HIDE DEF u, p
  <2>4. u + p \in Nat /\ 16 <= u + p
    BY <1>3, <2>2, <2>3, SMTT(30) DEF u
  <2>. QED
    BY <2>1, <2>4 DEF u, p
<1>5. f.segs # << >> => f.hdr.phoff = f.hdr.ehsize
  <2>1. f.segs # << >> => e.segs # << >>
    <3>1. IsSeq(f.segs)
      BY <1>2 DEF IsObject
    <3>2. e.segs = << >> => Len(f.segs) = 0
      BY <1>2
    <3>3. Len(f.segs) = 0 => f.segs = << >>
      BY <3>1, EmptySeq DEF IsSeq
    <3>. QED
      BY <3>2, <3>3
  <2>. QED
    BY <1>1, <2>1
<1>. HIDE DEF lo
<1>6. Stored1(f, lo, hi)
  BY <1>1, <1>2, <1>4, <1>5 DEF Stored1
<1>7. Recorded(out.bytes, f)
  BY <1>4, <1>6, SavedIsRecorded
<1>8. f.hdr.phnum = Len(f.segs) /\ f.hdr.shnum = Len(f.secs)
  BY <1>2, LayoutCounts
<1>9. ASSUME NEW i \in 1 .. Len(f.secs), InFile(f.secs[i]) PROVE f.secs[i].offset > 0
  <2>1. i > 1
    BY <1>9 DEF Spacious
  <2>2. i - 1 \in 1 .. (Len(e.secs) - 1) /\ Sec(f, i - 1) = f.secs[i]
    <3>1. (i - 1) + 1 = i
      BY <1>3
    <3>. QED
      BY <1>2, <1>3, <2>1, <3>1 DEF Sec
  <2>3. lo <= f.secs[i].offset
    BY <1>1, <1>9, <2>2 DEF InRoom
  <2>4. f.secs[i].offset \in Nat
    BY <1>2, SectionHas DEF IsObject
  <2>. QED
    BY <1>4, <2>3, <2>4
<1>. QED
  BY <1>1, <1>2, <1>7, <1>8, <1>9 DEF Readable

(* What the round trip asks of an object beside room: its numbers fit      *)
(* their fields, its data is as long as its size says and its tables as    *)
(* wide as their entries, and its name table holds the names.              *)
Storable(e) == Fits(e) /\ Spacious(e) /\ Named(e)

(* A file that was saved with room for everything, and whose segments lie  *)
(* within it, is opened with the content of the object that was saved:     *)
(* sections with their names, types, flags, alignments, sizes and data,    *)
(* and segments with their types and addresses (save, elfio.hpp:181, and   *)
(* load, elfio.hpp:130, undo each other).                                  *)
THEOREM RoomySavesAreLoaded ==
  FSpec => [][SaveFile /\ reply' = "saved" /\ Roomy(elf) /\ Storable(elf') /\ Mappable'
              => seen' = Content(elf') /\ seen' = Content(elf)]_fvars
<1>1. ASSUME FInv, SaveFile, reply' = "saved", Roomy(elf), Storable(elf'), Mappable'
      PROVE  seen' = Content(elf') /\ seen' = Content(elf)
  <2>. DEFINE l == Layout(elf)
              f == l.elf
              w == SaveWrites(f)
              k == IF l.ok THEN Len(w) ELSE 0
              out == Written(w, k, Room)
  <2>1. /\ IsObject(elf) /\ elf' = f /\ file' = out.bytes /\ seen' = Stored(out.bytes)
        /\ reply' = IF ~SaveOk(l, Room) THEN "refused" ELSE IF out.fail THEN "cut" ELSE "saved"
    BY <1>1 DEF FInv, SaveFile
  <2>2. l.ok /\ ~out.fail
    <3>. HIDE DEF l, out
    <3>. QED
      BY <1>1, <2>1 DEF SaveOk
  <2>3. k = Len(w)
    BY <2>2
  <2>. HIDE DEF k
  <2>4. out = Written(w, Len(w), Room)
    BY <2>3
  <2>5. Fits(f) /\ Spacious(f) /\ Named(f)
    BY <1>1, <2>1 DEF Storable
  <2>6. InsideFile(f, out.bytes)
    BY <1>1, <2>1 DEF Mappable, InsideFile
  <2>. HIDE DEF l, w, out
  <2>7. Readable(f, out.bytes) /\ Kept(f, elf)
    BY <1>1, <2>1, <2>2, <2>4, <2>5, SavedIsReadable DEF l, w
  <2>. DEFINE r == Load(NewElfio, out.bytes, << >>)
  <2>8. seen' = IF r.ok THEN Content(r.elf) ELSE NoContent
    BY <2>1 DEF Stored
  <2>. HIDE DEF r, f
  <2>9. r.ok = TRUE /\ LoadedAs(r.elf, f)
    BY <2>6, <2>7, LoadBack DEF r
  <2>10. Content(r.elf) = Content(f)
    BY <2>5, <2>7, <2>9, ContentBack DEF Readable
  <2>11. Content(f) = Content(elf)
    BY <2>1, <2>7, KeptContent
  <2>. QED
    BY <2>1, <2>8, <2>9, <2>10, <2>11
<1>. QED
  BY <1>1, FInvHolds, PTL DEF FSpec

-------------------------------------------------------------------------------
(***************************************************************************)
(* The steps of the refinement.                                            *)
(***************************************************************************)
(* One blob changes its data, its size, or nothing.                        *)
Changed(d, c) ==
  /\ d.groups = c.groups /\ DOMAIN d.blobs = DOMAIN c.blobs
  /\ \E i \in DOMAIN c.blobs : \A j \in DOMAIN c.blobs :
       IF j # i THEN d.blobs[j] = c.blobs[j]
       ELSE \A f \in DOMAIN c.blobs[i] \ {"data", "size"} : d.blobs[i][f] = c.blobs[i][f]

LEMMA BlobPut ==
  ASSUME NEW e, IsObject(e), NEW i \in 3 .. Len(e.secs), NEW s, s = e.secs[i],
         NEW t, IsSection(t, i - 1),
         t.label = s.label, t.type = s.type, t.flags = s.flags, t.align = s.align,
         NEW f, f = Replace(e, i - 1, t)
  PROVE  Changed(Content(f), Content(e))
<1>. DEFINE n == Len(e.secs)
            x == i - 1
            y == i - 2
<1>1. n \in Nat /\ x \in 0 .. (n - 1) /\ x + 1 = i /\ y \in 1 .. (n - 2) /\ y + 2 = i
  <2>1. n \in Nat
    BY SeqIs DEF IsObject
  <2>. HIDE DEF n
  <2>2. i \in 3 .. n
    BY DEF n
  <2>. QED
    BY <2>1, <2>2
<1>2. /\ Len(f.secs) = n /\ f.segs = e.segs /\ Sec(f, x) = t
      /\ \A j \in 0 .. (n - 1) : j # x => Sec(f, j) = Sec(e, j)
  <2>1. f = Replace(e, x, t) /\ IsSection(t, x)
    OBVIOUS
  <2>. HIDE DEF x
  <2>. QED
    BY <1>1, <2>1, ObjectPut
<1>3. f.secs[i] = t /\ \A j \in 1 .. n : j # i => f.secs[j] = e.secs[j]
  <2>1. f.secs[i] = t
    BY <1>1, <1>2 DEF Sec
  <2>2. ASSUME NEW j \in 1 .. n, j # i PROVE f.secs[j] = e.secs[j]
    <3>1. j - 1 \in 0 .. (n - 1) /\ j - 1 # x /\ (j - 1) + 1 = j
      BY <1>1, <2>2
    <3>. QED
      BY <1>2, <3>1 DEF Sec
  <2>. QED
    BY <2>1, <2>2
<1>. HIDE DEF x
<1>4. /\ Content(f).groups = Content(e).groups
      /\ Content(e).blobs = [j \in 1 .. (n - 2) |-> BlobOf(e.secs[j + 2])]
      /\ Content(f).blobs = [j \in 1 .. (n - 2) |-> BlobOf(f.secs[j + 2])]
  BY <1>2 DEF Content
<1>. HIDE DEF n
<1>5. ASSUME NEW j \in 1 .. (n - 2), j # y PROVE BlobOf(f.secs[j + 2]) = BlobOf(e.secs[j + 2])
  <2>1. j + 2 \in 1 .. n /\ j + 2 # i
    BY <1>1, <1>5
  <2>. QED
    BY <1>3, <2>1
<1>6. /\ BlobOf(e.secs[y + 2]) = BlobOf(s) /\ BlobOf(f.secs[y + 2]) = BlobOf(t)
  BY <1>1, <1>3
<1>7. \A g \in DOMAIN BlobOf(s) \ {"data", "size"} : BlobOf(t)[g] = BlobOf(s)[g]
  BY DEF BlobOf
<1>. HIDE DEF y
<1>. DEFINE c == Content(e).blobs
            d == Content(f).blobs
<1>8. /\ DOMAIN c = 1 .. (n - 2) /\ DOMAIN d = 1 .. (n - 2) /\ y \in DOMAIN c
      /\ \A j \in 1 .. (n - 2) : c[j] = BlobOf(e.secs[j + 2]) /\ d[j] = BlobOf(f.secs[j + 2])
  BY <1>1, <1>4
<1>. HIDE DEF c, d
<1>9. \A j \in DOMAIN c : j # y => d[j] = c[j]
  BY <1>5, <1>8
<1>10. \A g \in DOMAIN c[y] \ {"data", "size"} : d[y][g] = c[y][g]
  BY <1>6, <1>7, <1>8
<1>. QED
  BY <1>4, <1>8, <1>9, <1>10 DEF Changed, c, d

(* The calls that change a section.                                        *)
LEMMA CellEditsChange ==
  ASSUME IsObject(elf), NEW i \in UserSections, NEW n \in {0} \cup Sizes,
         Write(i, n) \/ Extend(i, n) \/ Resize(i, n)
  PROVE  Changed(Content(elf'), Content(elf))
<1>. DEFINE s == elf.secs[i]
            j == i - 1
<1>1. n \in Nat
  BY ElfFileAssumption
<1>2. i \in Nat /\ IsSection(s, j) /\ i \in 3 .. Len(elf.secs)
  <2>1. Len(elf.secs) \in Nat /\ i \in 1 .. Len(elf.secs)
    BY SeqIs DEF IsObject, UserSections
  <2>. QED
    BY <2>1 DEF IsObject, UserSections
<1>3. {"size", "addr", "addrSet", "data", "index", "label", "type", "flags", "align"} \subseteq DOMAIN s
      /\ SecNumbers \subseteq DOMAIN s
  BY <1>2 DEF IsSection, Numbers, SecNumbers
<1>4. Cells(i, n) \in Seq(Nat)
  BY <1>1, <1>2, CellsType
<1>. DEFINE Like(t) == /\ t.label = s.label /\ t.type = s.type /\ t.flags = s.flags
                       /\ t.align = s.align
<1>5. ASSUME NEW t, IsSection(t, j), Like(t), Edited(Replace(elf, j, t))
      PROVE  Changed(Content(elf'), Content(elf))
  <2>1. elf' = Replace(elf, j, t)
    BY <1>5 DEF Edited
  <2>. QED
    BY <1>2, <1>5, <2>1, BlobPut
<1>6. CASE Write(i, n)
  <2>. DEFINE t == SetData(s, Cells(i, n))
  <2>1. Edited(Replace(elf, j, t)) /\ s.type # SHT_NOBITS
    BY <1>6 DEF Write, HasBits
  <2>. HIDE DEF s, j
  <2>2. IsSection(t, j)
    BY <1>2, <1>4, <2>1, SetDataKeeps
  <2>3. Like(t)
    BY <1>3 DEF SetData
  <2>. HIDE DEF t, Like
  <2>. QED
    BY <1>5, <2>1, <2>2, <2>3
<1>7. CASE Extend(i, n)
  <2>. DEFINE t == AppendData(s, Cells(i, n))
  <2>1. Edited(Replace(elf, j, t)) /\ InMemory(j)
    BY <1>7 DEF Extend
  <2>2. s.size <= Len(s.data)
    <3>1. (i - 1) + 1 = i
      BY <1>2
    <3>. QED
      BY <2>1, <3>1 DEF InMemory, Sec
  <2>. HIDE DEF s, j
  <2>3. IsSection(t, j)
    BY <1>2, <1>4, <2>2, AppendDataKeeps
  <2>4. Like(t)
    BY <1>3 DEF AppendData
  <2>. HIDE DEF t, Like
  <2>. QED
    BY <1>5, <2>1, <2>3, <2>4
<1>8. CASE Resize(i, n)
  <2>. DEFINE t == [s EXCEPT !.size = n]
  <2>1. Edited(Replace(elf, j, t))
    BY <1>8 DEF Resize
  <2>. HIDE DEF s, j
  <2>2. DOMAIN t = DOMAIN s /\ t.size = n /\ \A f \in DOMAIN s \ {"size"} : t[f] = s[f]
    BY <1>3
  <2>. HIDE DEF t
  <2>3. \A f \in SecNumbers : f = "size" \/ t[f] = s[f]
    BY <1>3, <2>2
  <2>4. \A f \in SecNumbers : t[f] \in Nat
    BY <1>1, <1>2, <2>2, <2>3 DEF IsSection, Numbers
  <2>5. t.index = s.index /\ t.data = s.data /\ t.addrSet = s.addrSet
    BY <1>3, <2>2
  <2>6. IsSection(t, j)
    BY <1>2, <2>2, <2>4, <2>5, SectionChange DEF IsSection
  <2>7. Like(t)
    BY <1>3, <2>2
  <2>. HIDE DEF Like
  <2>. QED
    BY <1>5, <2>1, <2>6, <2>7
<1>. QED
  BY <1>6, <1>7, <1>8

LEMMA PlaceChanges ==
  ASSUME IsObject(elf), NEW i \in UserSections, NEW a \in Addresses, Place(i, a)
  PROVE  Changed(Content(elf'), Content(elf))
<1>. DEFINE s == elf.secs[i]
            j == i - 1
            t == SetAddress(s, a)
<1>1. a \in Nat
  BY ElfFileAssumption
<1>2. IsSection(s, j) /\ i \in 3 .. Len(elf.secs)
  <2>1. Len(elf.secs) \in Nat /\ i \in 1 .. Len(elf.secs)
    BY SeqIs DEF IsObject, UserSections
  <2>. QED
    BY <2>1 DEF IsObject, UserSections
<1>3. /\ {"addr", "addrSet", "data", "index", "label", "type", "flags", "align"} \subseteq DOMAIN s
      /\ SecNumbers \subseteq DOMAIN s
  BY <1>2 DEF IsSection, Numbers, SecNumbers
<1>4. elf' = Replace(elf, j, t)
  BY DEF Place, Edited
<1>. HIDE DEF s, j
<1>5. /\ DOMAIN t = DOMAIN s /\ t.addr = a /\ t.addrSet = TRUE
      /\ \A f \in DOMAIN s \ {"addr", "addrSet"} : t[f] = s[f]
  BY <1>3 DEF SetAddress
<1>. HIDE DEF t
<1>6. \A f \in SecNumbers : f = "addr" \/ t[f] = s[f]
  BY <1>3, <1>5 DEF SecNumbers
<1>7. \A f \in SecNumbers : t[f] \in Nat
  BY <1>1, <1>2, <1>5, <1>6 DEF IsSection, Numbers
<1>8. t.index = s.index /\ t.data = s.data
  BY <1>3, <1>5
<1>9. IsSection(t, j)
  BY <1>2, <1>5, <1>7, <1>8, SectionChange DEF IsSection
<1>10. t.label = s.label /\ t.type = s.type /\ t.flags = s.flags /\ t.align = s.align
  BY <1>3, <1>5
<1>. QED
  BY <1>2, <1>4, <1>9, <1>10, BlobPut DEF s, j

(* A sequence with one element more.                                       *)
IsList(q, n) == q = [j \in 1 .. n |-> q[j]]

LEMMA Grown ==
  ASSUME NEW n \in Nat, NEW q, IsList(q, n), NEW x, NEW r, IsList(r, n + 1),
         \A j \in 1 .. n : r[j] = q[j], r[n + 1] = x
  PROVE  r = Append(q, x)
<1>. USE DEF IsList
<1>. DEFINE S == {q[j] : j \in 1 .. n}
            p == Append(q, x)
<1>1. IsSeq(q) /\ Len(q) = n
  <2>1. \A j \in 1 .. n : q[j] \in S
    OBVIOUS
  <2>2. q \in [1 .. n -> S]
    <3>. HIDE DEF S
    <3>. QED
      BY <2>1
  <2>. HIDE DEF S
  <2>3. q \in UNION {[1 .. m -> S] : m \in Nat}
    BY ONLY <2>2
  <2>4. q \in Seq(S)
    BY ONLY <2>3, SeqDef, Zenon
  <2>5. DOMAIN q = 1 .. n
    BY <2>2
  <2>6. Len(q) \in Nat /\ DOMAIN q = 1 .. Len(q)
    BY <2>4, LenProperties
  <2>7. Len(q) = n
    <3>. DEFINE l == Len(q)
    <3>1. l \in Nat /\ 1 .. l = 1 .. n
      BY <2>5, <2>6
    <3>. HIDE DEF l
    <3>2. l = n
      <4>1. \A y \in Int : (y \in 1 .. l) <=> (y \in 1 .. n)
        BY ONLY <3>1
      <4>2. (l \in 1 .. l <=> l \in 1 .. n) /\ (n \in 1 .. l <=> n \in 1 .. n)
        BY <3>1, <4>1
      <4>. QED
        BY <3>1, <4>2
    <3>. QED
      BY <3>2 DEF l
  <2>. QED
    BY <2>4, <2>7 DEF IsSeq
<1>2. IsSeq(p) /\ Len(p) = n + 1 /\ p[n + 1] = x /\ \A j \in 1 .. n : p[j] = q[j]
  BY <1>1, SeqAppend
<1>. HIDE DEF p
<1>3. p = [j \in 1 .. (n + 1) |-> p[j]]
  BY <1>2, SeqIs
<1>4. \A j \in 1 .. (n + 1) : r[j] = p[j]
  <2>. SUFFICES ASSUME NEW j \in 1 .. (n + 1) PROVE r[j] = p[j]
    OBVIOUS
  <2>1. j = n + 1 \/ j \in 1 .. n
    OBVIOUS
  <2>. QED
    BY <1>2, <2>1
<1>5. [j \in 1 .. (n + 1) |-> r[j]] = [j \in 1 .. (n + 1) |-> p[j]]
  BY <1>4
<1>. QED
  BY <1>3, <1>5 DEF p

GroupOf(seg) == [type |-> seg.type, vaddr |-> seg.vaddr]

LEMMA NewSegAdds ==
  ASSUME IsObject(elf), NEW k \in Ranges, NewSeg(k)
  PROVE  /\ Content(elf').blobs = Content(elf).blobs
         /\ Content(elf').groups = Append(Content(elf).groups, [type |-> k.type, vaddr |-> k.vaddr])
<1>. DEFINE e == CreateSegment(elf)
            n == Len(e.segs)
            s == e.segs[n]
            m == Len(elf.segs)
            new == [NewSegment EXCEPT !.index = m]
            t == [s EXCEPT !.type = k.type, !.vaddr = k.vaddr, !.align = k.align]
<1>1. elf' = ReplaceSegment(e, n, t)
  BY DEF NewSeg, Edited
<1>2. m \in Nat /\ {"hdr", "secs", "segs"} \subseteq DOMAIN elf /\ IsSeq(elf.segs)
  BY SeqIs DEF IsObject
<1>3. {"type", "vaddr", "align"} \subseteq DOMAIN new
  <2>1. "index" \in DOMAIN NewSegment
    BY DEF NewSegment, Bare
  <2>2. IsSegment(new, 0)
    BY <1>2, <2>1, NewKeeps
  <2>. HIDE DEF new
  <2>. QED
    BY <2>2 DEF IsSegment, Numbers, SegNumbers
<1>. HIDE DEF new
<1>4. DOMAIN e = DOMAIN elf /\ e.hdr = elf.hdr /\ e.secs = elf.secs /\ e.segs = Append(elf.segs, new)
  BY <1>2 DEF CreateSegment, new
<1>. HIDE DEF e
<1>5. IsSeq(e.segs) /\ n = m + 1 /\ s = new /\ \A j \in 1 .. m : e.segs[j] = elf.segs[j]
  <2>. DEFINE q == elf.segs
  <2>1. IsSeq(q)
    BY <1>2
  <2>. HIDE DEF q
  <2>2. IsSeq(Append(q, new)) /\ Len(Append(q, new)) = Len(q) + 1 /\ Append(q, new)[Len(q) + 1] = new
        /\ \A j \in 1 .. Len(q) : Append(q, new)[j] = q[j]
    BY <2>1, SeqAppend
  <2>. QED
    BY <1>4, <2>2 DEF q
<1>6. n \in 1 .. Len(e.segs)
  BY <1>2, <1>5
<1>7. t.type = k.type /\ t.vaddr = k.vaddr
  BY <1>3, <1>5
<1>. HIDE DEF t, s
<1>8. elf'.secs = elf.secs /\ Len(elf'.segs) = m + 1 /\ elf'.segs[n] = t
      /\ \A j \in 1 .. m : elf'.segs[j] = elf.segs[j]
  <2>. DEFINE q == e.segs
              r == [q EXCEPT ![n] = t]
  <2>1. elf' = [e EXCEPT !.segs = r]
    BY <1>1 DEF ReplaceSegment
  <2>2. elf'.segs = r /\ elf'.secs = e.secs
    BY <1>2, <1>4, <2>1
  <2>3. IsSeq(q) /\ n \in 1 .. Len(q)
    BY <1>5, <1>6
  <2>. HIDE DEF q
  <2>4. Len(r) = Len(q) /\ r[n] = t /\ \A j \in 1 .. Len(q) : j # n => r[j] = q[j]
    BY <2>3, SeqPut
  <2>. HIDE DEF r
  <2>5. \A j \in 1 .. m : j \in 1 .. n /\ j # n
    BY <1>2, <1>5
  <2>. QED
    BY <1>4, <1>5, <2>2, <2>4, <2>5 DEF q
<1>. HIDE DEF n
<1>. DEFINE c == Content(elf).groups
            d == Content(elf').groups
            x == [type |-> k.type, vaddr |-> k.vaddr]
<1>9. /\ Content(elf').blobs = Content(elf).blobs
      /\ c = [g \in 1 .. m |-> GroupOf(elf.segs[g])]
      /\ d = [g \in 1 .. (m + 1) |-> GroupOf(elf'.segs[g])]
  BY <1>8 DEF Content, GroupOf
<1>10. GroupOf(t) = x /\ n = m + 1
  BY <1>5, <1>7 DEF GroupOf, n
<1>. HIDE DEF c, d, x, m
<1>11. IsList(c, m) /\ IsList(d, m + 1)
  BY <1>9 DEF IsList
<1>12. \A g \in 1 .. m : d[g] = c[g]
  <2>. SUFFICES ASSUME NEW g \in 1 .. m PROVE d[g] = c[g]
    OBVIOUS
  <2>1. g \in 1 .. (m + 1)
    BY <1>2 DEF m
  <2>. QED
    BY <1>8, <1>9, <2>1
<1>13. d[m + 1] = x
  <2>1. m + 1 \in 1 .. (m + 1)
    BY <1>2 DEF m
  <2>. QED
    BY <1>8, <1>9, <1>10, <2>1
<1>14. d = Append(c, x)
  <2>1. m \in Nat
    BY <1>2 DEF m
  <2>. QED
    BY <2>1, <1>11, <1>12, <1>13, Grown
<1>. QED
  BY <1>9, <1>14 DEF c, d, x

(* Joining a segment does not change what the program sees.                *)
LEMMA JoinSame ==
  ASSUME NEW e, {"secs", "segs"} \subseteq DOMAIN e, IsSeq(e.segs), NEW g \in 1 .. Len(e.segs),
         {"type", "vaddr", "secs", "align"} \subseteq DOMAIN e.segs[g],
         NEW i, NEW t, t = Join(e, g, i)
  PROVE  Content(t) = Content(e)
<1>. DEFINE seg == e.segs[g]
            s == AddSectionIndex(seg, e.secs[i].index, e.secs[i].align)
            q == e.segs
            r == [q EXCEPT ![g] = s]
<1>1. {"secs", "segs"} \subseteq DOMAIN e /\ IsSeq(q) /\ g \in 1 .. Len(q)
  OBVIOUS
<1>2. {"type", "vaddr"} \subseteq DOMAIN seg \ {"secs", "align"}
  OBVIOUS
<1>3. t = [e EXCEPT !.segs = r]
  BY DEF Join, ReplaceSegment
<1>4. t.segs = r /\ t.secs = e.secs
  BY <1>1, <1>3
<1>5. s.type = seg.type /\ s.vaddr = seg.vaddr
  <2>. HIDE DEF seg
  <2>. QED
    BY <1>2 DEF AddSectionIndex
<1>. HIDE DEF s, seg
<1>6. Len(r) = Len(q) /\ r[g] = s /\ \A j \in 1 .. Len(q) : j # g => r[j] = q[j]
  <2>. HIDE DEF q
  <2>. QED
    BY <1>1, SeqPut
<1>. HIDE DEF r
<1>7. \A j \in 1 .. Len(q) : r[j].type = q[j].type /\ r[j].vaddr = q[j].vaddr
  <2>. SUFFICES ASSUME NEW j \in 1 .. Len(q) PROVE r[j].type = q[j].type /\ r[j].vaddr = q[j].vaddr
    OBVIOUS
  <2>1. CASE j = g
    BY <1>5, <1>6, <2>1 DEF seg
  <2>2. CASE j # g
    BY <1>6, <2>2
  <2>. QED
    BY <2>1, <2>2
<1>8. [j \in 1 .. Len(q) |-> [type |-> r[j].type, vaddr |-> r[j].vaddr]]
      = [j \in 1 .. Len(q) |-> [type |-> q[j].type, vaddr |-> q[j].vaddr]]
  BY <1>7
<1>. QED
  BY <1>4, <1>6, <1>8 DEF Content

(* A section put into an object.                                           *)
LEMMA PutAt ==
  ASSUME NEW e, "secs" \in DOMAIN e, IsSeq(e.secs), NEW i \in 0 .. (Len(e.secs) - 1), NEW s,
         NEW t, t = Replace(e, i, s)
  PROVE  /\ DOMAIN t = DOMAIN e /\ IsSeq(t.secs) /\ Len(t.secs) = Len(e.secs) /\ Sec(t, i) = s
         /\ \A j \in 0 .. (Len(e.secs) - 1) : j # i => Sec(t, j) = Sec(e, j)
         /\ \A f \in DOMAIN e \ {"secs"} : t[f] = e[f]
<1>. DEFINE q == e.secs
            r == [q EXCEPT ![i + 1] = s]
<1>1. IsSeq(q) /\ Len(q) \in Nat
  BY SeqIs
<1>2. i + 1 \in 1 .. Len(q)
  BY <1>1
<1>3. t = [e EXCEPT !.secs = r]
  BY DEF Replace
<1>4. DOMAIN t = DOMAIN e /\ t.secs = r /\ \A f \in DOMAIN e \ {"secs"} : t[f] = e[f]
  BY <1>3
<1>5. IsSeq(r) /\ Len(r) = Len(q) /\ r[i + 1] = s /\ \A j \in 1 .. Len(q) : j # i + 1 => r[j] = q[j]
  <2>. HIDE DEF q
  <2>. QED
    BY <1>1, <1>2, SeqPut
<1>6. ASSUME NEW j \in 0 .. (Len(q) - 1), j # i PROVE r[j + 1] = q[j + 1]
  <2>1. j + 1 \in 1 .. Len(q) /\ j + 1 # i + 1
    BY <1>1, <1>6
  <2>. QED
    BY <1>5, <2>1
<1>. HIDE DEF r
<1>. QED
  BY <1>4, <1>5, <1>6 DEF Sec

(* Sections::add leaves every section alone except the table of names.     *)
LEMMA AddSectionAdds ==
  ASSUME NEW e, IsObject(e), NamesInMemory(e), e.hdr.shstrndx < Len(e.secs), NEW name,
         NEW t, t = AddSection(e, name)
  PROVE  /\ Sec(t, Len(e.secs)).label = name /\ Sec(t, Len(e.secs)).data = << >>
         /\ \A j \in 0 .. (Len(e.secs) - 1) : j # e.hdr.shstrndx => Sec(t, j) = Sec(e, j)
<1>. DEFINE c     == CreateSection(e)
            n     == Len(e.secs)
            k     == e.hdr.shstrndx
            next  == NextString(Sec(c, k))
            new   == Sec(c, n)
            given == [new EXCEPT !.label = name, !.name = next]
            named == Replace(c, n, given)
            str   == AddString(Sec(named, k), name)
<1>1. /\ IsObject(c) /\ Len(c.secs) = n + 1 /\ c.hdr = e.hdr /\ Sec(c, n).data = << >>
      /\ \A i \in 0 .. (n - 1) : Sec(c, i) = Sec(e, i)
  BY CreateSectionKeeps
<1>2. n \in Nat /\ k \in 0 .. (n - 1) /\ k \in 0 .. n /\ n \in 0 .. n /\ n # k
  BY SeqIs, SMTT(30) DEF IsObject, Numbers, HdrNumbers
<1>3. t = Replace(named, k, str)
  BY <1>1 DEF AddSection
<1>4. {"label", "name", "data"} \subseteq DOMAIN new
  <2>1. n \in 0 .. (Len(c.secs) - 1)
    BY <1>1, <1>2
  <2>2. IsSection(new, n)
    BY <1>1, <2>1, SectionAt
  <2>. QED
    BY <2>2 DEF IsSection, Numbers, SecNumbers
<1>. HIDE DEF c, str, named, next
<1>5. given.label = name /\ given.data = << >>
  <2>1. new.data = << >>
    BY <1>1
  <2>. HIDE DEF new
  <2>. QED
    BY <1>4, <2>1
<1>. HIDE DEF given
<1>6. /\ "secs" \in DOMAIN named /\ IsSeq(named.secs) /\ Len(named.secs) = n + 1
      /\ Sec(named, n) = given
      /\ \A j \in 0 .. n : j # n => Sec(named, j) = Sec(c, j)
  <2>1. "secs" \in DOMAIN c /\ IsSeq(c.secs) /\ n \in 0 .. (Len(c.secs) - 1)
        /\ 0 .. (Len(c.secs) - 1) = 0 .. n
    BY <1>1, <1>2 DEF IsObject
  <2>2. named = Replace(c, n, given)
    BY DEF named
  <2>. HIDE DEF n
  <2>. QED
    BY <1>1, <2>1, <2>2, PutAt
<1>7. \A j \in 0 .. n : j # k => Sec(t, j) = Sec(named, j)
  <2>1. k \in 0 .. (Len(named.secs) - 1) /\ 0 .. (Len(named.secs) - 1) = 0 .. n
    BY <1>2, <1>6
  <2>2. "secs" \in DOMAIN named /\ IsSeq(named.secs)
    BY <1>6
  <2>. HIDE DEF n, k
  <2>3. \A j \in 0 .. (Len(named.secs) - 1) : j # k => Sec(t, j) = Sec(named, j)
    BY ONLY <1>3, <2>1, <2>2, PutAt
  <2>. QED
    BY <2>1, <2>3
<1>8. \A j \in 0 .. (n - 1) : j \in 0 .. n /\ j # n
  BY <1>2
<1>9. Sec(t, n) = given
  <2>. HIDE DEF n, k
  <2>. QED
    BY <1>2, <1>6, <1>7
<1>10. \A j \in 0 .. (n - 1) : j # k => Sec(t, j) = Sec(e, j)
  <2>. HIDE DEF n, k
  <2>. QED
    BY <1>1, <1>6, <1>7, <1>8
<1>. QED
  BY <1>5, <1>9, <1>10

(* The table of names is not one of the sections a program made.           *)
OwnNames(e) == e.hdr.shstrndx < 2 /\ Len(e.secs) >= 2

LEMMA NewSecAdds ==
  ASSUME IsObject(elf), OwnNames(elf), NEW k \in Kinds, NEW n \in Sizes,
         NEW g \in {0} \cup Holders, NewSec(k, n, g)
  PROVE  /\ Content(elf').groups = Content(elf).groups
         /\ \E b \in NewBlobs : Content(elf').blobs = Append(Content(elf).blobs, b)
<1>. DEFINE e == AddSection(elf, k.label)
            i == Len(e.secs)
            s == e.secs[i]
            described == [s EXCEPT !.type = k.type, !.flags = k.flags, !.align = k.align]
            filled == IF k.type = SHT_NOBITS THEN [described EXCEPT !.size = n]
                      ELSE SetData(described, Cells(i, n))
            t == Replace(e, i - 1, filled)
            m == Len(elf.secs)
            b == [label |-> k.label, type |-> k.type, flags |-> k.flags, align |-> k.align,
                  size |-> n, data |-> IF k.type = SHT_NOBITS THEN << >> ELSE [c \in 1 .. n |-> i]]
<1>1. k.label \in Seq(Nat) /\ n \in Nat /\ MaxSections \in Nat
  BY ElfFileAssumption
<1>2. i <= MaxSections /\ InMemory(elf.hdr.shstrndx) /\ elf' = (IF g = 0 THEN t ELSE Join(t, g, i))
  BY DEF NewSec, Edited
<1>3. NamesInMemory(elf) /\ elf.hdr.shstrndx < m
  BY <1>2 DEF InMemory, NamesInMemory
<1>4. IsObject(e) /\ i = m + 1 /\ e.segs = elf.segs
  BY <1>1, <1>3, AddSectionKeeps
<1>5. /\ Sec(e, m).label = k.label /\ Sec(e, m).data = << >>
      /\ \A j \in 0 .. (m - 1) : j # elf.hdr.shstrndx => Sec(e, j) = Sec(elf, j)
  BY <1>3, AddSectionAdds
<1>6. m \in Nat /\ m >= 2 /\ elf.hdr.shstrndx \in Nat /\ elf.hdr.shstrndx < 2
  BY SeqIs DEF IsObject, OwnNames, Numbers, HdrNumbers
<1>. HIDE DEF e, m
<1>7. i \in 3 .. MaxSections /\ i - 1 = m /\ i - 1 \in 0 .. (i - 1) /\ i \in Nat
  BY <1>1, <1>2, <1>4, <1>6
<1>8. s.label = k.label /\ s.data = << >> /\ IsSection(s, m)
  <2>1. s = Sec(e, m)
    BY <1>4 DEF Sec
  <2>2. IsSection(s, i - 1)
    BY <1>4, <1>7 DEF IsObject
  <2>. QED
    BY <1>5, <1>7, <2>1, <2>2
<1>9. {"label", "type", "flags", "align", "size", "data", "has", "cap", "stream"} \subseteq DOMAIN s
  BY <1>8 DEF IsSection, Numbers, SecNumbers
<1>. HIDE DEF s
<1>10. /\ described.label = k.label /\ described.type = k.type /\ described.flags = k.flags
       /\ described.align = k.align /\ described.data = << >> /\ DOMAIN described = DOMAIN s
  BY <1>8, <1>9
<1>. HIDE DEF described
<1>11. BlobOf(filled) = b
  <2>1. CASE k.type = SHT_NOBITS
    <3>. DEFINE u == [described EXCEPT !.size = n]
    <3>1. /\ u.label = k.label /\ u.type = k.type /\ u.flags = k.flags /\ u.align = k.align
          /\ u.size = n /\ u.data = << >>
      BY <1>9, <1>10
    <3>2. filled = u /\ b.data = << >>
      BY <2>1
    <3>. HIDE DEF u, filled
    <3>. QED
      BY <2>1, <3>1, <3>2 DEF BlobOf
  <2>2. CASE k.type # SHT_NOBITS
    <3>. DEFINE raw == Cells(i, n)
                v == [described EXCEPT !.data = raw, !.has = TRUE, !.cap = Len(raw)]
                u == [v EXCEPT !.size = v.cap, !.stream = v.cap]
    <3>1. Len(raw) = n /\ raw = [c \in 1 .. n |-> i]
      BY <1>1, <1>7 DEF Cells
    <3>2. filled = u
      BY <1>10, <2>2 DEF SetData
    <3>. HIDE DEF raw, filled
    <3>3. /\ v.label = k.label /\ v.type = k.type /\ v.flags = k.flags /\ v.align = k.align
          /\ v.cap = n /\ v.data = raw /\ DOMAIN v = DOMAIN s
      BY <1>9, <1>10, <3>1
    <3>. HIDE DEF v
    <3>4. /\ u.label = k.label /\ u.type = k.type /\ u.flags = k.flags /\ u.align = k.align
          /\ u.size = n /\ u.data = raw
      BY <1>9, <3>3
    <3>. HIDE DEF u
    <3>. QED
      BY <2>2, <3>1, <3>2, <3>4 DEF BlobOf
  <2>. QED
    BY <2>1, <2>2
<1>. HIDE DEF filled
<1>12. /\ {"secs", "segs"} \subseteq DOMAIN t /\ Len(t.secs) = i /\ t.segs = elf.segs
       /\ Sec(t, m) = filled /\ \A j \in 0 .. (m - 1) : Sec(t, j) = Sec(e, j)
  <2>1. "secs" \in DOMAIN e /\ "segs" \in DOMAIN e \ {"secs"} /\ IsSeq(e.secs)
    BY <1>4 DEF IsObject
  <2>2. m \in 0 .. (Len(e.secs) - 1) /\ t = Replace(e, m, filled)
    BY <1>7
  <2>3. \A j \in 0 .. (m - 1) : j \in 0 .. (Len(e.secs) - 1) /\ j # m
    BY <1>4, <1>6
  <2>. HIDE DEF t
  <2>. QED
    BY <1>4, <2>1, <2>2, <2>3, PutAt
<1>. HIDE DEF t
<1>13. Content(elf') = Content(t)
  <2>1. CASE g = 0
    BY <1>2, <2>1
  <2>2. CASE g # 0
    <3>1. g \in 1 .. Len(t.segs) /\ IsSeq(t.segs)
      BY <1>12, <2>2 DEF Holders, IsObject
    <3>2. {"type", "vaddr", "secs", "align"} \subseteq DOMAIN t.segs[g]
      BY <1>12, <3>1 DEF IsObject, IsSegment, Numbers, SegNumbers
    <3>3. elf' = Join(t, g, i)
      BY <1>2, <2>2
    <3>. HIDE DEF i
    <3>. QED
      BY <1>12, <3>1, <3>2, <3>3, JoinSame
  <2>. QED
    BY <2>1, <2>2
<1>14. Content(t).groups = Content(elf).groups
  BY <1>12 DEF Content
<1>. DEFINE c == Content(elf).blobs
            d == Content(t).blobs
            p == m - 2
<1>15. /\ c = [j \in 1 .. p |-> BlobOf(elf.secs[j + 2])]
       /\ d = [j \in 1 .. (p + 1) |-> BlobOf(t.secs[j + 2])]
       /\ p \in Nat /\ (p + 1) + 2 = i
  <2>1. i - 2 = p + 1 /\ p \in Nat /\ (p + 1) + 2 = i
    BY <1>4, <1>6
  <2>. QED
    BY <1>12, <2>1 DEF Content, m
<1>16. ASSUME NEW j \in 1 .. p PROVE t.secs[j + 2] = elf.secs[j + 2]
  <2>1. j + 1 \in 0 .. (m - 1) /\ j + 1 # elf.hdr.shstrndx /\ (j + 1) + 1 = j + 2
    BY <1>6
  <2>2. Sec(t, j + 1) = Sec(elf, j + 1)
    BY <1>5, <1>12, <2>1
  <2>. QED
    BY <2>1, <2>2 DEF Sec
<1>17. t.secs[i] = filled
  BY <1>4, <1>12 DEF Sec
<1>. HIDE DEF p, i, b
<1>18. /\ \A j \in 1 .. p : c[j] = BlobOf(elf.secs[j + 2])
       /\ \A j \in 1 .. (p + 1) : d[j] = BlobOf(t.secs[j + 2])
       /\ IsList(c, p) /\ IsList(d, p + 1)
  BY <1>15 DEF IsList
<1>. HIDE DEF c, d
<1>19. \A j \in 1 .. p : d[j] = c[j]
  <2>1. \A j \in 1 .. p : j \in 1 .. (p + 1)
    BY <1>15
  <2>. QED
    BY <1>16, <1>18, <2>1
<1>20. d[p + 1] = b
  <2>1. p + 1 \in 1 .. (p + 1)
    BY <1>15
  <2>. QED
    BY <1>11, <1>15, <1>17, <1>18, <2>1
<1>21. d = Append(c, b)
  <2>1. p \in Nat /\ IsList(c, p) /\ IsList(d, p + 1)
    BY <1>15, <1>18
  <2>. QED
    BY ONLY <2>1, <1>19, <1>20, Grown
<1>22. b \in NewBlobs
  <2>1. b = NewBlob(k, n, i)
    BY DEF NewBlob, b
  <2>. QED
    BY <1>7, <2>1 DEF NewBlobs
<1>. QED
  BY <1>13, <1>14, <1>21, <1>22 DEF c, d
(* A device never holds more than it has room for.                         *)
LEMMA WriteFits ==
  ASSUME NEW st, IsOut(st), Len(st.bytes) <= st.room, NEW at, NEW cells,
         NEW u, u = WriteAt(st, at, cells)
  PROVE  u.room = st.room /\ Len(u.bytes) <= st.room
<1>. DEFINE padded == st.bytes \o [i \in 1 .. (at - Len(st.bytes)) |-> 0]
            all    == SubSeq(padded, 1, at) \o cells
                       \o SubSeq(padded, at + Len(cells) + 1, Len(padded))
            cut    == SubSeq(all, 1, st.room)
<1>1. u = IF st.fail THEN st
          ELSE IF Len(all) <= st.room THEN [st EXCEPT !.bytes = all]
          ELSE [st EXCEPT !.bytes = cut, !.fail = TRUE]
  BY DEF WriteAt
<1>. HIDE DEF all
<1>2. Len(cut) <= st.room
  <2>. DEFINE r == st.room
              S == {all[i] : i \in 1 .. r}
  <2>1. r \in Nat /\ 1 \in Int /\ r \in Int /\ \A i \in 1 .. r : all[i] \in S
    BY DEF IsOut
  <2>. HIDE DEF r, S
  <2>2. Len(SubSeq(all, 1, r)) = IF 1 <= r THEN r - 1 + 1 ELSE 0
    BY <2>1, SubSeqProperties
  <2>. QED
    BY <2>1, <2>2 DEF r
<1>. HIDE DEF cut
<1>. QED
  BY <1>1, <1>2 DEF IsOut

LEMMA WrittenFits ==
  ASSUME NEW writes \in Seq(WriteSet), NEW n \in 0 .. Len(writes)
  PROVE  /\ Len(Written(writes, n, Room).bytes) <= Room
         /\ n = 0 => Written(writes, n, Room).bytes = << >>
<1>. DEFINE q == SubSeq(writes, 1, n)
            m == Len(q)
<1>0. n = 0 => m = 0
  <2>1. n = 0 => SubSeq(writes, 1, n) = << >>
    BY SubSeqEmpty
  <2>. QED
    BY <2>1
<1>1. n \in Nat /\ Len(writes) \in Nat /\ n <= Len(writes) /\ Room \in Nat
  BY ElfFileAssumption
<1>2. q \in Seq(WriteSet)
  <2>1. 1 \in Int /\ n \in Int /\ \A i \in 1 .. n : writes[i] \in WriteSet
    BY <1>1
  <2>. QED
    BY <2>1, SubSeqProperties
<1>3. m \in Nat /\ \A k \in 1 .. m : q[k] \in WriteSet
  BY <1>2
<1>4. PICK f : /\ f[0] = OutStream(Room)
               /\ \A k \in 1 .. m : f[k] = Written1(f[k - 1], q[k])
               /\ Written(writes, n, Room) = f[m]
  <2>1. q = SubSeq(writes, 1, n) /\ Len(q) \in Nat
    BY <1>3
  <2>. HIDE DEF q
  <2>2. Unfolded(writes, n, Room, q)
    BY ONLY <2>1, WrittenUnfolds
  <2>. QED
    BY <2>2 DEF Unfolded
<1>. DEFINE Fit(st) == IsOut(st) /\ st.room = Room /\ Len(st.bytes) <= Room
            T == {k \in Nat : k <= m => Fit(f[k])}
<1>. HIDE DEF q, m
<1>5. 0 \in T
  <2>1. << >> \in Seq(Nat) /\ Len(<< >>) = 0 /\ Fit(OutStream(Room))
    BY <1>1 DEF OutStream, IsOut
  <2>. QED
    BY <1>4, <2>1
<1>6. ASSUME NEW k \in Nat, k \in T PROVE k + 1 \in T
  <2>. SUFFICES ASSUME k + 1 <= m PROVE Fit(f[k + 1])
    OBVIOUS
  <2>. DEFINE st == f[k]
              at == q[k + 1].at
              c  == q[k + 1].cells
  <2>1. k + 1 \in 1 .. m /\ (k + 1) - 1 = k /\ k <= m
    BY <1>3
  <2>2. Fit(st)
    BY <1>6, <2>1
  <2>3. at \in Nat /\ c \in Seq(Nat)
    BY <1>3, <2>1 DEF WriteSet
  <2>4. f[k + 1] = WriteAt(st, at, c)
    BY <1>4, <2>1 DEF Written1
  <2>. HIDE DEF st, at, c
  <2>5. IsOut(f[k + 1])
    BY <2>2, <2>3, <2>4, WriteType
  <2>. QED
    BY <2>2, <2>4, <2>5, WriteFits
<1>7. Fit(f[m])
  <2>. HIDE DEF T
  <2>1. Nat \subseteq T
    BY <1>5, <1>6, SetInduction
  <2>. QED
    BY <1>3, <2>1 DEF T
<1>. QED
  BY <1>0, <1>4, <1>7 DEF OutStream

(* A file without a whole header is not loaded.                            *)
LEMMA ShortFile ==
  ASSUME NEW bytes \in Seq(Nat), Len(bytes) < EhdrSize
  PROVE  Stored(bytes) = NoContent
<1>. DEFINE st    == InStream(bytes)
            cells == ReadAt(st, 0, EhdrSize)
            ident == ReadAt(st, 0, 3)
            r     == Load(NewElfio, bytes, << >>)
<1>1. EhdrSize = 16 /\ Len(bytes) \in Nat
  BY DEF EhdrSize, EhdrFields
<1>2. cells = SubSeq(bytes, 1, Len(bytes))
  <2>1. ~(0 + EhdrSize <= Len(bytes)) /\ 0 + 1 = 1
    BY <1>1
  <2>. QED
    BY <2>1 DEF ReadAt, InStream
<1>3. Len(cells) < EhdrSize
  <2>. DEFINE n == Len(bytes)
  <2>1. 1 \in Int /\ n \in Nat /\ \A i \in 1 .. n : bytes[i] \in Nat
    BY <1>1
  <2>. HIDE DEF n
  <2>2. Len(SubSeq(bytes, 1, n)) = IF 1 <= n THEN n - 1 + 1 ELSE 0
    BY <2>1, SubSeqProperties
  <2>. QED
    BY <1>1, <1>2, <2>1, <2>2 DEF n
<1>. HIDE DEF cells, ident, st
<1>4. Translate(<< >>, 0) = 0
  BY NoTranslation
<1>5. r = LoadParts([NewElfio EXCEPT !.secs = << >>, !.segs = << >>], st, ident, cells, << >>)
  BY <1>4 DEF Load, st, cells, ident
<1>6. r.ok = FALSE
  <2>. HIDE DEF r
  <2>. QED
    BY <1>3, <1>5 DEF LoadParts
<1>. HIDE DEF r
<1>. QED
  BY <1>6 DEF Stored, r

(* A save that is refused leaves a file in which a reader finds nothing.   *)
LEMMA RefusedEmpties ==
  ASSUME IsObject(elf), SaveFile, reply' = "refused"
  PROVE  seen' = NoContent
<1>. DEFINE l == Layout(elf)
            w == SaveWrites(l.elf)
            n == IF l.ok THEN Len(w) ELSE 0
            out == Written(w, n, Room)
<1>1. /\ file' = out.bytes /\ seen' = Stored(out.bytes)
      /\ reply' = IF ~SaveOk(l, Room) THEN "refused"
                  ELSE IF out.fail THEN "cut" ELSE "saved"
  BY DEF SaveFile
<1>2. out.bytes \in Seq(Nat)
  BY <1>1, SaveKeeps
<1>3. Kept(l.elf, elf)
  BY LayoutKeeps
<1>4. ~SaveOk(l, Room)
  <2>. HIDE DEF l, out
  <2>. QED
    BY <1>1
<1>. HIDE DEF l
<1>5. w \in Seq(WriteSet)
  BY <1>3, SaveWritesType DEF Kept
<1>. HIDE DEF w
<1>6. Len(out.bytes) < EhdrSize
  <2>1. CASE l.ok
    <3>1. n = Len(w) /\ ~(EhdrSize <= Room)
      BY <1>4, <2>1 DEF SaveOk
    <3>2. n \in 0 .. Len(w)
      BY <1>5, <3>1
    <3>. HIDE DEF n
    <3>3. Len(out.bytes) <= Room
      BY <1>5, <3>2, WrittenFits
    <3>4. Room \in Nat /\ EhdrSize = 16 /\ Len(out.bytes) \in Nat
      <4>. HIDE DEF out
      <4>. QED
        BY <1>2, ElfFileAssumption DEF EhdrSize, EhdrFields
    <3>. HIDE DEF out
    <3>. QED
      BY <3>1, <3>3, <3>4
  <2>2. CASE ~l.ok
    <3>1. n = 0 /\ n \in 0 .. Len(w)
      BY <1>5, <2>2
    <3>. HIDE DEF n
    <3>2. out.bytes = << >>
      BY <1>5, <3>1, WrittenFits
    <3>. QED
      BY <3>2 DEF EhdrSize, EhdrFields
  <2>. QED
    BY <2>1, <2>2
<1>. HIDE DEF out
<1>. QED
  BY <1>1, <1>2, <1>6, ShortFile
(* A new object holds nothing.                                             *)
LEMMA CreateIsEmpty ==
  ASSUME NEW class, NEW encoding, NEW t, t = Create(class, encoding)
  PROVE  Content(t) = NoContent
<1>. DEFINE h == CreateHeader(class, encoding)
            a == [hdr |-> h, secs |-> << >>, segs |-> << >>]
            b == CreateSection(a)
            c == CreateSection(b)
            new   == [Sec(c, 1) EXCEPT !.label = SHSTRTAB, !.name = NextString(Sec(c, 1))]
            named == Replace(c, 1, new)
            str   == AddString(Sec(named, 1), SHSTRTAB)
            e == Replace(named, 1, str)
            u == [Sec(e, 1) EXCEPT !.type = SHT_STRTAB, !.align = 1]
            Shape(o, n) == /\ {"hdr", "secs", "segs"} \subseteq DOMAIN o /\ o.hdr = h
                           /\ IsSeq(o.secs) /\ Len(o.secs) = n /\ o.segs = << >>
<1>1. h.shstrndx = 1
  <2>. DEFINE z == [f \in HdrNumbers |-> 0]
  <2>1. h = [z EXCEPT !.magic = MAGIC, !.class = class, !.data = encoding, !.version = 1,
               !.ehsize = EhdrSize, !.shstrndx = 1, !.phentsize = PhdrSize,
               !.shentsize = ShdrSize]
    BY FieldSets DEF CreateHeader
  <2>. HIDE DEF h
  <2>. QED
    BY <2>1 DEF HdrNumbers
<1>. HIDE DEF h
<1>2. Shape(a, 0)
  BY EmptySeq DEF IsSeq
<1>. HIDE DEF a
<1>3. ASSUME NEW o, NEW n \in Nat, Shape(o, n) PROVE Shape(CreateSection(o), n + 1)
  <2>. DEFINE q == o.secs
              x == [NewSection EXCEPT !.index = Len(q)]
              p == CreateSection(o)
  <2>1. /\ {"hdr", "secs", "segs"} \subseteq DOMAIN p /\ p.hdr = h /\ p.segs = << >>
        /\ p.secs = Append(q, x)
    BY <1>3 DEF CreateSection
  <2>. HIDE DEF x, p
  <2>2. IsSeq(q) /\ Len(q) = n
    BY <1>3
  <2>. HIDE DEF q
  <2>3. IsSeq(Append(q, x)) /\ Len(Append(q, x)) = n + 1
    BY <2>2, SeqAppend
  <2>4. Shape(p, n + 1)
    BY <2>1, <2>3
  <2>. QED
    BY <2>4 DEF p
<1>4. ASSUME NEW o, Shape(o, 2), NEW s PROVE Shape(Replace(o, 1, s), 2)
  <2>. DEFINE p == Replace(o, 1, s)
  <2>1. 1 \in 0 .. (Len(o.secs) - 1) /\ "secs" \in DOMAIN o
        /\ {"hdr", "segs"} \subseteq DOMAIN o \ {"secs"}
    BY <1>4
  <2>2. p = Replace(o, 1, s)
    OBVIOUS
  <2>. HIDE DEF p
  <2>5. IsSeq(o.secs)
    BY <1>4
  <2>3. /\ DOMAIN p = DOMAIN o /\ IsSeq(p.secs) /\ Len(p.secs) = Len(o.secs)
        /\ \A f \in DOMAIN o \ {"secs"} : p[f] = o[f]
    BY ONLY <2>1, <2>2, <2>5, PutAt
  <2>4. Shape(p, 2)
    BY <1>4, <2>1, <2>3
  <2>. QED
    BY <2>4 DEF p
<1>5. Shape(b, 1)
  <2>1. Shape(CreateSection(a), 0 + 1)
    BY <1>2, <1>3
  <2>. QED
    BY <2>1
<1>. HIDE DEF b
<1>6. Shape(c, 2)
  <2>1. Shape(CreateSection(b), 1 + 1)
    <3>. HIDE DEF Shape, c
    <3>. QED
      BY <1>3, <1>5
  <2>. QED
    BY <2>1
<1>7. AddSection(b, SHSTRTAB) = e
  <2>1. Len(b.secs) = 1 /\ c.hdr.shstrndx = 1
    BY <1>1, <1>5, <1>6
  <2>. HIDE DEF c
  <2>. QED
    BY <2>1 DEF AddSection, c
<1>. HIDE DEF c, new, str
<1>8. Shape(named, 2)
  BY <1>4, <1>6
<1>. HIDE DEF named
<1>9. Shape(e, 2)
  BY <1>4, <1>8
<1>. HIDE DEF e
<1>10. t = Replace(e, 1, u)
  BY <1>7 DEF Create, CreateMandatorySections, a, b, h
<1>. HIDE DEF u
<1>11. Shape(t, 2)
  BY <1>4, <1>9, <1>10
<1>12. Len(t.secs) = 2 /\ t.segs = << >>
  BY <1>11
<1>13. Len(t.secs) - 2 = 0 /\ Len(t.segs) = 0
  BY <1>12
<1>14. \A f : [i \in 1 .. 0 |-> f[i]] = << >>
  OBVIOUS
<1>. QED
  BY <1>13 DEF Content, NoContent
LEMMA ContentIs ==
  ASSUME NEW e, NEW f
  PROVE  /\ \A b : /\ Content(f).groups = Content(e).groups
                   /\ Content(f).blobs = Append(Content(e).blobs, b)
                   => Content(f) = [Content(e) EXCEPT !.blobs = Append(@, b)]
         /\ \A g : /\ Content(f).blobs = Content(e).blobs
                   /\ Content(f).groups = Append(Content(e).groups, g)
                   => Content(f) = [Content(e) EXCEPT !.groups = Append(@, g)]
<1>. DEFINE b1 == Content(e).blobs
            g1 == Content(e).groups
            b2 == Content(f).blobs
            g2 == Content(f).groups
<1>1. Content(e) = [blobs |-> b1, groups |-> g1] /\ Content(f) = [blobs |-> b2, groups |-> g2]
  BY DEF Content
<1>. HIDE DEF b1, g1, b2, g2
<1>. QED
  BY <1>1

LEMMA EditsFollow ==
  ASSUME FInv, Edits, OwnNames(elf)
  PROVE  Store!Edit
<1>1. Running /\ reply' = "none" /\ seen' = seen
  BY EditsEdit
<1>2. IsObject(elf)
  BY <1>1 DEF FInv
<1>3. ASSUME Changed(Content(elf'), Content(elf)) PROVE Store!ChangeBlob
  BY <1>3 DEF Store!ChangeBlob, Changed
<1>4. ASSUME NEW k \in Kinds, NEW n \in Sizes, NEW g \in {0} \cup Holders, NewSec(k, n, g)
      PROVE  Store!AddBlob
  <2>1. PICK b \in NewBlobs : /\ Content(elf').groups = Content(elf).groups
                           /\ Content(elf').blobs = Append(Content(elf).blobs, b)
    BY <1>2, <1>4, NewSecAdds
  <2>2. Content(elf') = [Content(elf) EXCEPT !.blobs = Append(@, b)]
    BY <2>1, ContentIs
  <2>. QED
    BY <2>2 DEF Store!AddBlob
<1>5. ASSUME NEW k \in Ranges, NewSeg(k) PROVE Store!AddGroup
  <2>. DEFINE g == [type |-> k.type, vaddr |-> k.vaddr]
  <2>1. /\ Content(elf').blobs = Content(elf).blobs
        /\ Content(elf').groups = Append(Content(elf).groups, g)
    BY <1>2, <1>5, NewSegAdds
  <2>2. g \in NewGroups
    BY DEF NewGroups
  <2>. HIDE DEF g
  <2>3. Content(elf') = [Content(elf) EXCEPT !.groups = Append(@, g)]
    BY <2>1, ContentIs
  <2>. QED
    BY <2>2, <2>3 DEF Store!AddGroup
<1>6. ASSUME NEW i \in UserSections, NEW n \in {0} \cup Sizes,
             Write(i, n) \/ Extend(i, n) \/ Resize(i, n)
      PROVE  Store!ChangeBlob
  BY <1>2, <1>3, <1>6, CellEditsChange
<1>7. ASSUME NEW i \in UserSections, NEW a \in Addresses, Place(i, a) PROVE Store!ChangeBlob
  BY <1>2, <1>3, <1>7, PlaceChanges
<1>8. ASSUME NEW i \in UserSections, NEW g \in Holders, Attach(g, i)
      PROVE  Content(elf)' = Content(elf)
  <2>1. elf' = Join(elf, g, i) /\ g \in 1 .. Len(elf.segs)
    BY <1>8 DEF Attach, Edited, Holders
  <2>2. /\ {"secs", "segs"} \subseteq DOMAIN elf /\ IsSeq(elf.segs)
        /\ {"type", "vaddr", "secs", "align"} \subseteq DOMAIN elf.segs[g]
    BY <1>2, <2>1 DEF IsObject, IsSegment, Numbers, SegNumbers
  <2>. QED
    BY <2>1, <2>2, JoinSame
<1>9. Store!AddBlob \/ Store!AddGroup \/ Store!ChangeBlob \/ Content(elf)' = Content(elf)
  BY <1>4, <1>5, <1>6, <1>7, <1>8 DEF Edits
<1>. QED
  BY <1>1, <1>9 DEF Store!Edit

(* The calls of a program are the steps of the store it relies on: editing *)
(* adds or changes one blob or adds a group, while the table of names is   *)
(* none of its own sections; a save that has room stores what the program  *)
(* holds, one that is refused leaves nothing, and opening brings back what *)
(* is stored (elfio.hpp:81-222).                                           *)
StoreSteps ==
  [][/\ Edits /\ OwnNames(elf) => Store!Edit
     /\ SaveFile /\ reply' = "saved" /\ Roomy(elf) /\ Storable(elf') /\ Mappable' => Store!Save
     /\ SaveFile /\ reply' = "refused" => Store!Refused
     /\ OpenFile => Store!Open]_fvars

THEOREM StepsFollowStore == FSpec => Store!CInit /\ StoreSteps
<1>1. FInit => Store!CInit
  BY CreateIsEmpty DEF FInit, NewFile, Store!CInit
<1>2. ASSUME FInv, Edits, OwnNames(elf) PROVE Store!Edit
  BY <1>2, EditsFollow
<1>3. ASSUME FInv, SaveFile PROVE Content(elf)' = Content(elf)
  <2>1. IsObject(elf)
    BY <1>3 DEF FInv, SaveFile
  <2>2. Kept(elf', elf)
    BY <1>3, <2>1, SaveKeeps
  <2>. QED
    BY <2>1, <2>2, KeptContent
<1>4. ASSUME FInv, SaveFile, reply' = "refused" PROVE Store!Refused
  <2>1. seen' = NoContent
    BY <1>4, RefusedEmpties DEF FInv, SaveFile
  <2>. QED
    BY <1>3, <1>4, <2>1 DEF Store!Refused
<1>5. ASSUME FInv, OpenFile PROVE Store!Open
  <2>. DEFINE r == Load(NewElfio, file, << >>)
  <2>1. /\ elf' = IF r.ok THEN r.elf ELSE NewElfio
        /\ reply' = IF r.ok THEN "opened" ELSE "unreadable"
        /\ seen' = seen
    BY <1>5 DEF OpenFile
  <2>2. seen = IF r.ok THEN Content(r.elf) ELSE NoContent
    BY <1>5 DEF FInv, Stored
  <2>3. Content(NewElfio) = NoContent
    BY CreateIsEmpty DEF NewElfio
  <2>. HIDE DEF r
  <2>4. Content(elf') = seen
    BY <2>1, <2>2, <2>3
  <2>. QED
    BY <2>1, <2>4 DEF Store!Open
<1>6. ASSUME FInv, SaveFile, reply' = "saved", seen' = Content(elf) PROVE Store!Save
  <2>1. Store!Kept(seen', Content(elf))
    BY <1>6 DEF Store!Kept
  <2>. QED
    BY <1>3, <1>6, <2>1 DEF Store!Save
<1>. QED
  BY <1>1, <1>2, <1>4, <1>5, <1>6, FInvHolds, RoomySavesAreLoaded, PTL DEF FSpec, StoreSteps

====
