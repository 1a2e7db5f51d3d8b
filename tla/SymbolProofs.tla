----------------------------- MODULE SymbolProofs -----------------------------
(***************************************************************************)
(* Proofs about elfio_symbols.hpp and elfio_relocation.hpp: sorting a      *)
(* table of symbols, with relocations that hold indices of it, and looking *)
(* a symbol up by its name, through a hash table or without one.           *)
(***************************************************************************)
EXTENDS SymbolFile, SequenceTheorems, WellFoundedInduction, TLAPS

-------------------------------------------------------------------------------
(***************************************************************************)
(* Induction, as a fact about sets: a loop is unfolded with it.            *)
(***************************************************************************)
(* Every set of natural numbers has a smallest element.                    *)
LEMMA Smallest ==
  ASSUME NEW T \in SUBSET Nat, T # {}
  PROVE  \E x \in T : \A y \in T : x <= y
<1>. DEFINE R == {ss \in Nat \X Nat : ss[1] < ss[2]}
<1>1. R = OpToRel(<, Nat)
  BY DEF OpToRel
<1>2. IsWellFoundedOn(R, Nat)
  BY <1>1, NatLessThanWellFounded
<1>3. PICK x \in T : \A y \in T : ~(<<y, x>> \in R)
  <2>. HIDE DEF R
  <2>. QED
    BY <1>2, WFMin
<1>4. \A y \in T : <<y, x>> \in R <=> y < x
  BY <1>3
<1>. HIDE DEF R
<1>5. \A y \in T : ~(y < x)
  BY <1>3, <1>4, Zenon
<1>. QED
  BY <1>5

(* A set that holds 0 and the successor of each of its members holds all.  *)
LEMMA SetInduction ==
  ASSUME NEW S, 0 \in S, \A n \in Nat : n \in S => n + 1 \in S
  PROVE  Nat \subseteq S
<1>. SUFFICES ASSUME NEW b \in Nat, b \notin S PROVE FALSE
  OBVIOUS
<1>. DEFINE T == {n \in Nat : n \notin S}
<1>1. PICK x \in T : \A y \in T : x <= y
  BY Smallest
<1>2. x # 0 /\ x - 1 \in Nat /\ x - 1 \in S
  BY <1>1
<1>. QED
  BY <1>1, <1>2

-------------------------------------------------------------------------------
(***************************************************************************)
(* Fields and their byte order.                                            *)
(***************************************************************************)
(* A product and a remainder give both back.                               *)
LEMMA TwoDigits ==
  ASSUME NEW q \in Nat, NEW r \in Digit
  PROVE  (q * Radix + r) % Radix = r /\ (q * Radix + r) \div Radix = q
<1>. DEFINE v == q * Radix + r
            d == v \div Radix
            s == v % Radix
            t == d - q
<1>1. /\ v \in Nat /\ d \in Int /\ s \in 0 .. (Radix - 1) /\ v = Radix * d + s
      /\ t \in Int /\ r \in 0 .. (Radix - 1)
  BY RadixAssumption DEF Digit
<1>2. Radix * t = r - s
  BY <1>1, RadixAssumption
<1>3. ~(t >= 1)
  <2>1. t >= 1 => Radix * t >= Radix
    BY <1>1, RadixAssumption
  <2>. QED
    BY <1>1, <1>2, <2>1, RadixAssumption
<1>4. ~(t <= -1)
  <2>1. t <= -1 => Radix * t <= -Radix
    BY <1>1, RadixAssumption
  <2>. QED
    BY <1>1, <1>2, <2>1, RadixAssumption
<1>5. t = 0
  BY <1>1, <1>3, <1>4
<1>. QED
  BY <1>1, <1>2, <1>5, RadixAssumption

(* A field has two digits.                                                 *)
LEMMA FieldDigits ==
  ASSUME NEW v \in Field
  PROVE  v % Radix \in Digit /\ v \div Radix \in Digit
         /\ v = (v \div Radix) * Radix + (v % Radix)
<1>. DEFINE d == v \div Radix
            s == v % Radix
<1>1. d \in Nat /\ s \in Digit /\ v = d * Radix + s /\ v < Radix * Radix
  BY RadixAssumption DEF Field, Digit
<1>2. ~(d >= Radix)
  <2>1. d >= Radix => d * Radix >= Radix * Radix
    BY <1>1, RadixAssumption
  <2>. QED
    BY <1>1, <2>1, RadixAssumption DEF Digit
<1>. QED
  BY <1>1, <1>2, RadixAssumption DEF Digit

(* Two digits make a field.                                                *)
LEMMA DigitsField ==
  ASSUME NEW q \in Digit, NEW r \in Digit
  PROVE  q * Radix + r \in Field
<1>1. q * Radix <= (Radix - 1) * Radix
  BY RadixAssumption DEF Digit
<1>2. q * Radix \in Nat /\ (Radix - 1) * Radix = Radix * Radix - Radix
  BY RadixAssumption DEF Digit
<1>. QED
  BY <1>1, <1>2, RadixAssumption DEF Digit, Field

(* Converting twice gives a field back (elfio_utils.hpp:58-159).           *)
LEMMA ConvertBack ==
  ASSUME NEW v \in Field, NEW encoding
  PROVE  /\ Convert(encoding, v) \in Field
         /\ Convert(encoding, Convert(encoding, v)) = v
<1>1. CASE encoding = LSB
  BY <1>1 DEF Convert
<1>2. CASE encoding # LSB
  <2>. DEFINE d == v \div Radix
              s == v % Radix
  <2>1. d \in Digit /\ s \in Digit /\ v = d * Radix + s
    BY FieldDigits, Zenon
  <2>2. Convert(encoding, v) = s * Radix + d
    BY <1>2 DEF Convert
  <2>3. s * Radix + d \in Field
    BY <2>1, DigitsField
  <2>4. (s * Radix + d) % Radix = d /\ (s * Radix + d) \div Radix = s
    <3>1. s \in Nat
      BY <2>1, RadixAssumption DEF Digit
    <3>. HIDE DEF s, d
    <3>. QED
      BY <2>1, <3>1, TwoDigits
  <2>. QED
    BY <1>2, <2>1, <2>2, <2>3, <2>4 DEF Convert
<1>. QED
  BY <1>1, <1>2

-------------------------------------------------------------------------------
(***************************************************************************)
(* The two loops, unfolded.                                                *)
(***************************************************************************)
(* swap_symbols for entry n.                                               *)
Swapped(e, r, first, second, n) ==
  LET entry == GetEntry(e, r, n - 1)
  IN  CASE entry.symbol = first  -> SetEntry(e, r, n - 1, [entry EXCEPT !.symbol = second])
        [] entry.symbol = second -> SetEntry(e, r, n - 1, [entry EXCEPT !.symbol = first])
        [] OTHER -> e

(* swap_symbols goes through the entries one after the other.              *)
LEMMA SwapUnfolds ==
  ASSUME NEW e, NEW r, NEW first, NEW second, GetEntriesNum(Sec(e, r)) \in Nat
  PROVE  \E f : /\ f[0] = e
                /\ \A n \in 1 .. GetEntriesNum(Sec(e, r)) :
                     f[n] = Swapped(f[n - 1], r, first, second, n)
                /\ SwapSymbols(e, r, first, second) = f[GetEntriesNum(Sec(e, r))]
<1>. DEFINE count == GetEntriesNum(Sec(e, r))
            seq == [n \in 1 .. count |-> n]
            Runs(f, m) == f = [i \in 0 .. m |-> IF i = 0 THEN e
                                ELSE Swapped(f[i - 1], r, first, second, seq[i])]
            T == {m \in Nat : \E f : Runs(f, m)}
            F == CHOOSE f : Runs(f, Len(seq))
<1>1. 0 \in T
  <2>1. Runs([i \in 0 .. 0 |-> e], 0)
    OBVIOUS
  <2>. QED
    BY <2>1
<1>2. ASSUME NEW m \in Nat, m \in T PROVE m + 1 \in T
  <2>1. PICK f : Runs(f, m)
    BY <1>2
  <2>. DEFINE g == [i \in 0 .. (m + 1) |->
                      IF i = m + 1 THEN Swapped(f[m], r, first, second, seq[m + 1]) ELSE f[i]]
  <2>2. Runs(g, m + 1)
    <3>. SUFFICES ASSUME NEW i \in 0 .. (m + 1)
                  PROVE  g[i] = IF i = 0 THEN e
                                ELSE Swapped(g[i - 1], r, first, second, seq[i])
      BY Zenon
    <3>. HIDE DEF seq
    <3>. QED
      BY <2>1
  <2>. HIDE DEF Runs, g
  <2>. QED
    BY <2>2
<1>3. Nat \subseteq T
  <2>. HIDE DEF T
  <2>. QED
    BY <1>1, <1>2, SetInduction
<1>4. SwapSymbols(e, r, first, second) = F[Len(seq)]
  BY DEF SwapSymbols, Swapped, Loop
<1>5. Len(seq) = count /\ \A n \in 1 .. count : seq[n] = n
  OBVIOUS
<1>6. Runs(F, count)
  <2>1. \E f : Runs(f, count)
    BY <1>3
  <2>. HIDE DEF Runs, count, seq
  <2>. QED
    BY <1>5, <2>1
<1>7. /\ F[0] = e
      /\ \A n \in 1 .. count : F[n] = Swapped(F[n - 1], r, first, second, n)
  <2>. HIDE DEF F, seq, count
  <2>. QED
    BY <1>5, <1>6 DEF count
<1>. QED
  BY <1>4, <1>5, <1>7

-------------------------------------------------------------------------------
(***************************************************************************)
(* Sections whose data are entries of one width.                           *)
(***************************************************************************)
Widths == {SymSize, RelSize, RelaSize}

(* w cells behind cell a; entry i of a table.                              *)
Piece(data, a, w) == SubSeq(data, a + 1, a + w)

Cut(data, i, w) == Piece(data, i * w, w)

(* A piece is as long as it is wide.                                       *)
LEMMA PieceType ==
  ASSUME NEW w \in Nat, NEW s \in Seq(Nat), NEW a \in Nat, a + w <= Len(s)
  PROVE  /\ Piece(s, a, w) \in Seq(Nat) /\ Len(Piece(s, a, w)) = w
         /\ \A c \in 1 .. w : Piece(s, a, w)[c] = s[a + c]
<1>. DEFINE m == a + 1
            n == a + w
            t == SubSeq(s, m, n)
<1>1. m \in Int /\ n \in Int /\ n - m + 1 = w /\ (m <= n <=> w # 0) /\ Len(s) \in Nat
  OBVIOUS
<1>2. \A i \in m .. n : i \in 1 .. Len(s)
  BY ONLY <1>1, a \in Nat, a + w <= Len(s)
<1>3. \A i \in m .. n : s[i] \in Nat
  BY ONLY <1>2, s \in Seq(Nat)
<1>4. \A c \in 1 .. w : m + c - 1 = a + c
  BY ONLY a \in Nat, w \in Nat
<1>. HIDE DEF m, n
<1>5. /\ t \in Seq(Nat) /\ Len(t) = IF m <= n THEN n - m + 1 ELSE 0
      /\ \A c \in 1 .. n - m + 1 : t[c] = s[m + c - 1]
  BY ONLY <1>1, <1>3, SubSeqProperties
<1>. HIDE DEF t
<1>6. t \in Seq(Nat) /\ Len(t) = w /\ \A c \in 1 .. w : t[c] = s[a + c]
  BY ONLY <1>1, <1>4, <1>5, w \in Nat
<1>. QED
  BY ONLY <1>6 DEF Piece, t, m, n

(* Equal cells are equal pieces.                                           *)
LEMMA PieceIs ==
  ASSUME NEW w \in Nat, w > 0, NEW s \in Seq(Nat), NEW a \in Nat, a + w <= Len(s),
         NEW cells \in Seq(Nat), Len(cells) = w, \A c \in 1 .. w : s[a + c] = cells[c]
  PROVE  Piece(s, a, w) = cells
<1>. DEFINE u == Piece(s, a, w)
<1>1. u \in Seq(Nat) /\ Len(u) = w /\ \A c \in 1 .. w : u[c] = s[a + c]
  BY PieceType
<1>. HIDE DEF u
<1>2. Len(u) = Len(cells) /\ \A c \in 1 .. Len(u) : u[c] = cells[c]
  BY <1>1
<1>3. u = cells
  BY <1>1, <1>2, SeqEqual
<1>. QED
  BY <1>3 DEF u

(* Sequences that agree in the cells of a piece agree in the piece.        *)
LEMMA PiecesEqual ==
  ASSUME NEW w \in Nat, w > 0, NEW s \in Seq(Nat), NEW t \in Seq(Nat), NEW a \in Nat,
         a + w <= Len(s), a + w <= Len(t), \A c \in 1 .. w : s[a + c] = t[a + c]
  PROVE  Piece(s, a, w) = Piece(t, a, w)
<1>. DEFINE v == Piece(t, a, w)
<1>1. v \in Seq(Nat) /\ Len(v) = w /\ \A c \in 1 .. w : v[c] = t[a + c]
  BY PieceType
<1>. HIDE DEF v
<1>2. \A c \in 1 .. w : s[a + c] = v[c]
  BY <1>1
<1>3. Piece(s, a, w) = v
  BY <1>1, <1>2, PieceIs
<1>. QED
  BY <1>3 DEF v

(* The cells of two sequences in a row.                                    *)
LEMMA ConcatCells ==
  ASSUME NEW s \in Seq(Nat), NEW raw \in Seq(Nat)
  PROVE  LET t == s \o raw
         IN  /\ t \in Seq(Nat) /\ Len(t) = Len(s) + Len(raw)
             /\ \A c \in 1 .. Len(s) : t[c] = s[c]
             /\ \A c \in 1 .. Len(raw) : t[Len(s) + c] = raw[c]
<1>. DEFINE t == s \o raw
<1>1. /\ t \in Seq(Nat) /\ Len(t) = Len(s) + Len(raw)
      /\ \A c \in 1 .. Len(s) + Len(raw) :
           t[c] = IF c <= Len(s) THEN s[c] ELSE raw[c - Len(s)]
  BY ConcatProperties, Zenon
<1>. HIDE DEF t
<1>2. Len(s) \in Nat /\ Len(raw) \in Nat
  OBVIOUS
<1>3. ASSUME NEW c \in 1 .. Len(s) PROVE t[c] = s[c]
  <2>1. c \in 1 .. Len(s) + Len(raw) /\ c <= Len(s)
    BY ONLY <1>2, c \in 1 .. Len(s)
  <2>. QED
    BY ONLY <1>1, <2>1, Zenon
<1>4. ASSUME NEW c \in 1 .. Len(raw) PROVE t[Len(s) + c] = raw[c]
  <2>1. /\ Len(s) + c \in 1 .. Len(s) + Len(raw) /\ ~(Len(s) + c <= Len(s))
        /\ (Len(s) + c) - Len(s) = c
    BY ONLY <1>2, c \in 1 .. Len(raw)
  <2>. QED
    BY ONLY <1>1, <2>1
<1>. QED
  BY <1>1, <1>3, <1>4 DEF t

(* What is appended leaves the pieces before it as they are.               *)
LEMMA PieceAfterAppend ==
  ASSUME NEW w \in Nat, w > 0, NEW s \in Seq(Nat), NEW raw \in Seq(Nat)
  PROVE  /\ s \o raw \in Seq(Nat) /\ Len(s \o raw) = Len(s) + Len(raw)
         /\ \A a \in Nat : a + w <= Len(s) => Piece(s \o raw, a, w) = Piece(s, a, w)
         /\ Len(raw) = w => Piece(s \o raw, Len(s), w) = raw
<1>. DEFINE t == s \o raw
<1>1. /\ t \in Seq(Nat) /\ Len(t) = Len(s) + Len(raw)
      /\ \A c \in 1 .. Len(s) + Len(raw) :
           t[c] = IF c <= Len(s) THEN s[c] ELSE raw[c - Len(s)]
  BY ConcatProperties, Zenon
<1>. HIDE DEF t
<1>2. ASSUME NEW a \in Nat, a + w <= Len(s) PROVE Piece(t, a, w) = Piece(s, a, w)
  <2>1. ASSUME NEW c \in 1 .. w PROVE t[a + c] = s[a + c]
    <3>1. a + c \in 1 .. Len(s) + Len(raw) /\ a + c <= Len(s)
      BY <1>2
    <3>. QED
      BY <1>1, <3>1
  <2>2. a + w <= Len(t)
    BY <1>1, <1>2
  <2>. QED
    BY <1>1, <1>2, <2>1, <2>2, PiecesEqual
<1>3. ASSUME Len(raw) = w PROVE Piece(t, Len(s), w) = raw
  <2>1. ASSUME NEW c \in 1 .. w PROVE t[Len(s) + c] = raw[c]
    <3>1. /\ Len(s) + c \in 1 .. Len(s) + Len(raw)
          /\ ~(Len(s) + c <= Len(s)) /\ (Len(s) + c) - Len(s) = c
      BY <1>3
    <3>. QED
      BY <1>1, <3>1
  <2>2. Len(s) \in Nat /\ Len(s) + w <= Len(t)
    BY <1>1, <1>3
  <2>. QED
    BY <1>1, <1>3, <2>1, <2>2, PieceIs
<1>. QED
  BY <1>1, <1>2, <1>3 DEF t

(* A function on 1 .. n is a sequence.                                     *)
LEMMA FunctionIsSeq ==
  ASSUME NEW S, NEW n \in Nat, NEW f \in [1 .. n -> S]
  PROVE  f \in Seq(S) /\ Len(f) = n
OBVIOUS

(* Pieces that do not overlap share no cell.                               *)
LEMMA Apart ==
  ASSUME NEW n \in Nat, NEW w \in Nat, NEW a \in Nat, NEW b \in Nat, NEW c \in 1 .. w,
         a + w <= n, a + w <= b \/ b + w <= a
  PROVE  a + c \in 1 .. n /\ a + c \notin (b + 1) .. (b + w)
OBVIOUS

(* A piece that does not overlap what is overwritten stays.                *)
LEMMA PieceBeside ==
  ASSUME NEW w \in Nat, w > 0, NEW s \in Seq(Nat), NEW t \in Seq(Nat), Len(t) = Len(s),
         NEW a \in Nat, NEW b \in Nat, a + w <= Len(s), a + w <= b \/ b + w <= a,
         \A c \in 1 .. Len(s) : c \notin (b + 1) .. (b + w) => t[c] = s[c]
  PROVE  Piece(t, a, w) = Piece(s, a, w)
<1>1. ASSUME NEW c \in 1 .. w PROVE t[a + c] = s[a + c]
  <2>1. a + c \in 1 .. Len(s) /\ a + c \notin (b + 1) .. (b + w)
    BY Apart
  <2>. QED
    BY <2>1, Zenon
<1>. QED
  BY <1>1, PiecesEqual

(* Overwriting w cells behind cell b.                                      *)
LEMMA CellsAfterPut ==
  ASSUME NEW w \in Nat, NEW sec, "data" \in DOMAIN sec, sec.data \in Seq(Nat),
         NEW b \in Nat, b + w <= Len(sec.data), NEW cells \in Seq(Nat), Len(cells) = w
  PROVE  LET t == PutCells(sec, b, cells).data
         IN  /\ t \in Seq(Nat) /\ Len(t) = Len(sec.data)
             /\ \A c \in 1 .. w : t[b + c] = cells[c]
             /\ \A c \in 1 .. Len(sec.data) :
                  c \notin (b + 1) .. (b + w) => t[c] = sec.data[c]
<1>. DEFINE s == sec.data
            t == PutCells(sec, b, cells).data
<1>0. s \in Seq(Nat) /\ Len(s) \in Nat /\ b + w <= Len(s)
  OBVIOUS
<1>1. t = [c \in 1 .. Len(s) |-> IF c \in (b + 1) .. (b + w) THEN cells[c - b] ELSE s[c]]
  BY DEF PutCells
<1>. HIDE DEF s, t
<1>2. ASSUME NEW c \in 1 .. Len(s) PROVE t[c] \in Nat
  <2>1. CASE c \in (b + 1) .. (b + w)
    <3>1. c - b \in 1 .. Len(cells)
      BY <2>1
    <3>2. cells[c - b] \in Nat
      BY <3>1
    <3>. QED
      BY ONLY <1>1, <2>1, <3>2
  <2>2. CASE c \notin (b + 1) .. (b + w)
    <3>1. s[c] \in Nat
      BY <1>0
    <3>. QED
      BY ONLY <1>1, <2>2, <3>1
  <2>. QED
    BY <2>1, <2>2
<1>3. t \in [1 .. Len(s) -> Nat]
  BY ONLY <1>1, <1>2
<1>4. t \in Seq(Nat) /\ Len(t) = Len(s)
  BY ONLY <1>0, <1>3, FunctionIsSeq
<1>5. ASSUME NEW c \in 1 .. w PROVE t[b + c] = cells[c]
  <2>1. /\ b + c \in 1 .. Len(s) /\ b + c \in (b + 1) .. (b + w)
        /\ (b + c) - b = c
    BY <1>0
  <2>. QED
    BY ONLY <1>1, <2>1
<1>6. ASSUME NEW c \in 1 .. Len(s), c \notin (b + 1) .. (b + w) PROVE t[c] = s[c]
  BY ONLY <1>1, <1>6
<1>. QED
  BY ONLY <1>4, <1>5, <1>6 DEF s, t

(* Where entry i of n is.                                                  *)
LEMMA CutPlaces ==
  ASSUME NEW w \in Widths, NEW n \in Nat
  PROVE  /\ w \in Nat /\ w > 0 /\ n * w \in Nat /\ (n + 1) * w = n * w + w
         /\ \A i \in 0 .. (n - 1) : i * w \in Nat /\ i * w + w <= n * w
         /\ \A i, j \in 0 .. (n - 1) :
              i # j => i * w + w <= j * w \/ j * w + w <= i * w
BY DEF Widths, SymSize, RelSize, RelaSize

(* An entry behind the others leaves them as they are.                     *)
LEMMA CutsAfterAppend ==
  ASSUME NEW w \in Widths, NEW s \in Seq(Nat), NEW n \in Nat, Len(s) = n * w,
         NEW raw \in Seq(Nat), Len(raw) = w
  PROVE  /\ s \o raw \in Seq(Nat) /\ Len(s \o raw) = (n + 1) * w
         /\ \A i \in 0 .. (n - 1) : Cut(s \o raw, i, w) = Cut(s, i, w)
         /\ Cut(s \o raw, n, w) = raw
<1>. DEFINE t == s \o raw
<1>1. /\ t \in Seq(Nat) /\ Len(t) = Len(s) + Len(raw)
      /\ \A a \in Nat : a + w <= Len(s) => Piece(t, a, w) = Piece(s, a, w)
      /\ Piece(t, Len(s), w) = raw
  BY CutPlaces, PieceAfterAppend
<1>. HIDE DEF t
<1>2. ASSUME NEW i \in 0 .. (n - 1) PROVE Cut(t, i, w) = Cut(s, i, w)
  <2>1. i * w \in Nat /\ i * w + w <= Len(s)
    BY DEF Widths, SymSize, RelSize, RelaSize
  <2>. QED
    BY <1>1, <2>1, Zenon DEF Cut
<1>. QED
  BY <1>1, <1>2, CutPlaces DEF Cut, t

(* An entry that is overwritten is the only one that changes.              *)
LEMMA CutsAfterPut ==
  ASSUME NEW w \in Widths, NEW sec, "data" \in DOMAIN sec, sec.data \in Seq(Nat),
         NEW n \in Nat, Len(sec.data) = n * w, NEW j \in 0 .. (n - 1),
         NEW cells \in Seq(Nat), Len(cells) = w
  PROVE  LET t == PutCells(sec, j * w, cells).data
         IN  /\ t \in Seq(Nat) /\ Len(t) = Len(sec.data)
             /\ Cut(t, j, w) = cells
             /\ \A i \in 0 .. (n - 1) : i # j => Cut(t, i, w) = Cut(sec.data, i, w)
<1>. DEFINE s == sec.data
            t == PutCells(sec, j * w, cells).data
            b == j * w
<1>1. w \in Widths /\ n \in Nat /\ Len(s) = n * w /\ j \in 0 .. (n - 1)
  OBVIOUS
<1>2. /\ \A i \in 0 .. (n - 1) : i * w \in Nat /\ i * w + w <= Len(s)
      /\ \A i \in 0 .. (n - 1) : i # j => i * w + w <= b \/ b + w <= i * w
  BY ONLY <1>1, CutPlaces
<1>3. b \in Nat /\ b + w <= Len(s) /\ w \in Nat /\ w > 0
  BY ONLY <1>1, <1>2, CutPlaces
<1>4. /\ b \in Nat /\ b + w <= Len(s) /\ w \in Nat /\ w > 0
      /\ "data" \in DOMAIN sec /\ s \in Seq(Nat) /\ cells \in Seq(Nat) /\ Len(cells) = w
  <2>. HIDE DEF b
  <2>. QED
    BY <1>3
<1>5. t = PutCells(sec, b, cells).data /\ s = sec.data /\ b = j * w
  OBVIOUS
<1>. HIDE DEF s, t, b
<1>6. /\ t \in Seq(Nat) /\ Len(t) = Len(s)
      /\ \A c \in 1 .. w : t[b + c] = cells[c]
      /\ \A c \in 1 .. Len(s) : c \notin (b + 1) .. (b + w) => t[c] = s[c]
  <2>1. sec.data \in Seq(Nat) /\ b + w <= Len(sec.data)
    BY ONLY <1>4, <1>5
  <2>. QED
    BY ONLY <1>4, <1>5, <2>1, CellsAfterPut
<1>7. /\ w \in Nat /\ w > 0 /\ b \in Nat
      /\ s \in Seq(Nat) /\ t \in Seq(Nat) /\ Len(t) = Len(s)
      /\ \A c \in 1 .. Len(s) : c \notin (b + 1) .. (b + w) => t[c] = s[c]
  BY ONLY <1>4, <1>6
<1>8. ASSUME NEW i \in 0 .. (n - 1), i # j PROVE Cut(t, i, w) = Cut(s, i, w)
  <2>. DEFINE a == i * w
  <2>1. /\ a \in Nat /\ a + w <= Len(s) /\ (a + w <= b \/ b + w <= a)
    BY <1>2, <1>8
  <2>2. Cut(t, i, w) = Piece(t, a, w) /\ Cut(s, i, w) = Piece(s, a, w)
    BY DEF Cut
  <2>. HIDE DEF a
  <2>3. Piece(t, a, w) = Piece(s, a, w)
    BY ONLY <1>7, <2>1, PieceBeside, ZenonT(30)
  <2>. QED
    BY ONLY <2>2, <2>3
<1>9. Cut(t, j, w) = cells
  <2>1. b + w <= Len(t)
    BY ONLY <1>4, <1>6
  <2>2. Piece(t, b, w) = cells
    BY ONLY <1>4, <1>6, <2>1, PieceIs
  <2>. QED
    BY ONLY <1>5, <2>2 DEF Cut
<1>. QED
  BY ONLY <1>6, <1>8, <1>9 DEF s, t

(* A section in memory whose size is that of its data.                     *)
Keys == {"type", "size", "data", "has", "stream", "entsize", "link", "info"}

Shaped(sec) ==
  /\ Keys \subseteq DOMAIN sec /\ sec.type # SHT_NOBITS
  /\ sec.data \in Seq(Nat) /\ sec.size = Len(sec.data) /\ sec.stream = sec.size
  /\ sec.size # 0 => sec.has = TRUE

SameHead(t, sec) ==
  /\ t.type = sec.type /\ t.entsize = sec.entsize
  /\ t.link = sec.link /\ t.info = sec.info

(* append_data puts data behind the data.                                  *)
LEMMA Appended ==
  ASSUME NEW sec, Shaped(sec), NEW raw \in Seq(Nat), Len(raw) > 0
  PROVE  LET t == AppendData(sec, raw)
         IN  /\ Shaped(t) /\ SameHead(t, sec)
             /\ t.data = sec.data \o raw /\ t.size = sec.size + Len(raw)
<1>. DEFINE s == sec.data
            t == AppendData(sec, raw)
<1>1. s \in Seq(Nat) /\ sec.size = Len(s) /\ Len(s) \in Nat /\ Len(raw) \in Nat
  BY DEF Shaped
<1>2. SubSeq(s, 1, Len(s)) = s
  BY <1>1
<1>3. /\ DOMAIN t = DOMAIN sec
      /\ t.data = SubSeq(s, 1, sec.size) \o raw
      /\ t.size = sec.size + Len(raw) /\ t.stream = sec.stream + Len(raw) /\ t.has = TRUE
      /\ SameHead(t, sec)
  BY DEF Shaped, Keys, AppendData, SameHead
<1>4. s \o raw \in Seq(Nat) /\ Len(s \o raw) = Len(s) + Len(raw)
  BY <1>1
<1>5. t.data = s \o raw
  BY <1>1, <1>2, <1>3
<1>6. t.type # SHT_NOBITS /\ Keys \subseteq DOMAIN t
  BY <1>3 DEF Shaped, SameHead
<1>7. sec.stream = sec.size
  BY DEF Shaped
<1>. HIDE DEF t, s
<1>8. t.has = TRUE /\ t.size = Len(t.data) /\ t.stream = t.size
  BY <1>1, <1>3, <1>4, <1>5, <1>7
<1>9. Shaped(t)
  BY ONLY <1>4, <1>5, <1>6, <1>8 DEF Shaped
<1>. QED
  BY ONLY <1>3, <1>5, <1>9 DEF t, s

(* A section whose data are n entries of width w.                          *)
Table(sec, w, n) == Shaped(sec) /\ sec.entsize = w /\ Len(sec.data) = n * w

(* An entry is added behind the others (elfio_section.hpp:137-166).        *)
LEMMA TableAppend ==
  ASSUME NEW w \in Widths, NEW n \in Nat, NEW sec, Table(sec, w, n),
         NEW raw \in Seq(Nat), Len(raw) = w
  PROVE  LET t == AppendData(sec, raw)
         IN  /\ Table(t, w, n + 1) /\ SameHead(t, sec)
             /\ \A i \in 0 .. (n - 1) : Cut(t.data, i, w) = Cut(sec.data, i, w)
             /\ Cut(t.data, n, w) = raw
<1>. DEFINE s == sec.data
            t == AppendData(sec, raw)
<1>1. s \in Seq(Nat) /\ Len(s) = n * w
  BY DEF Table, Shaped
<1>2. Shaped(t) /\ SameHead(t, sec) /\ t.data = s \o raw
  <2>1. Len(raw) > 0 /\ Shaped(sec)
    BY DEF Widths, SymSize, RelSize, RelaSize, Table
  <2>. QED
    BY <2>1, Appended
<1>3. t.entsize = w
  BY <1>2 DEF SameHead, Table
<1>. HIDE DEF t, s
<1>4. /\ Len(s \o raw) = (n + 1) * w
      /\ \A i \in 0 .. (n - 1) : Cut(s \o raw, i, w) = Cut(s, i, w)
      /\ Cut(s \o raw, n, w) = raw
  BY <1>1, CutsAfterAppend
<1>. QED
  BY ONLY <1>2, <1>3, <1>4 DEF Table, s, t

(* An entry is replaced.                                                   *)
LEMMA TablePut ==
  ASSUME NEW w \in Widths, NEW n \in Nat, NEW sec, Table(sec, w, n),
         NEW j \in 0 .. (n - 1), NEW cells \in Seq(Nat), Len(cells) = w
  PROVE  LET t == PutCells(sec, j * w, cells)
         IN  /\ Table(t, w, n) /\ SameHead(t, sec) /\ t.size = sec.size
             /\ Cut(t.data, j, w) = cells
             /\ \A i \in 0 .. (n - 1) : i # j => Cut(t.data, i, w) = Cut(sec.data, i, w)
<1>. DEFINE t == PutCells(sec, j * w, cells)
<1>1. "data" \in DOMAIN sec /\ sec.data \in Seq(Nat) /\ Len(sec.data) = n * w
      /\ Shaped(sec) /\ sec.entsize = w
  BY DEF Table, Shaped, Keys
<1>2. /\ t.data \in Seq(Nat) /\ Len(t.data) = Len(sec.data)
      /\ Cut(t.data, j, w) = cells
      /\ \A i \in 0 .. (n - 1) : i # j => Cut(t.data, i, w) = Cut(sec.data, i, w)
  BY <1>1, CutsAfterPut
<1>3. /\ DOMAIN t = DOMAIN sec /\ SameHead(t, sec) /\ t.size = sec.size
      /\ t.stream = sec.stream /\ t.has = sec.has
  BY <1>1 DEF PutCells, SameHead
<1>. HIDE DEF t
<1>4. Table(t, w, n)
  BY ONLY <1>1, <1>2, <1>3 DEF Table, Shaped, SameHead
<1>. QED
  BY ONLY <1>2, <1>3, <1>4 DEF t

(* The cells of an entry.                                                  *)
LEMMA CutType ==
  ASSUME NEW w \in Widths, NEW n \in Nat, NEW sec, Table(sec, w, n), NEW i \in 0 .. (n - 1)
  PROVE  Cut(sec.data, i, w) \in Seq(Nat) /\ Len(Cut(sec.data, i, w)) = w
<1>1. w \in Nat /\ w > 0 /\ i * w \in Nat /\ i * w + w <= Len(sec.data)
  BY CutPlaces DEF Table
<1>2. sec.data \in Seq(Nat)
  BY DEF Table, Shaped
<1>. DEFINE s == sec.data
            a == i * w
<1>3. w \in Nat /\ w > 0 /\ a \in Nat /\ a + w <= Len(s) /\ s \in Seq(Nat)
  BY <1>1, <1>2
<1>. HIDE DEF s, a
<1>4. Piece(s, a, w) \in Seq(Nat) /\ Len(Piece(s, a, w)) = w
  BY ONLY <1>3, PieceType
<1>. QED
  BY <1>4 DEF Cut, s, a

-------------------------------------------------------------------------------
(***************************************************************************)
(* The table of the names.                                                 *)
(***************************************************************************)
String == Seq(Nat \ {0})

(* The name is at that place, and a 0 behind it.                           *)
Named(sec, at, name) ==
  /\ at \in Nat /\ at + Len(name) + 1 <= Len(sec.data)
  /\ \A c \in 1 .. Len(name) : sec.data[at + c] = name[c]
  /\ sec.data[at + Len(name) + 1] = 0

(* What is there is read (elfio_strings.hpp:40-56).                        *)
LEMMA NamedIsRead ==
  ASSUME NEW sec, Shaped(sec), NEW at, NEW name \in String, Named(sec, at, name)
  PROVE  GetString(sec, at) = name /\ name # NoString
<1>. DEFINE d == sec.data
            n == Len(name)
            ends == {i \in (at + 1) .. sec.size : d[i] = 0}
            first == CHOOSE i \in ends : \A j \in ends : i <= j
<1>1. d \in Seq(Nat) /\ sec.size = Len(d) /\ at \in Nat /\ n \in Nat /\ at + n + 1 <= Len(d)
  BY DEF Shaped, Named, String
<1>2. d[at + n + 1] = 0 /\ \A c \in 1 .. n : d[at + c] = name[c] /\ name[c] # 0
  BY DEF Named, String
<1>3. sec.has = TRUE /\ at < sec.size
  BY <1>1 DEF Shaped
<1>4. at + n + 1 \in ends
  BY <1>1, <1>2
<1>5. ASSUME NEW j \in ends PROVE at + n + 1 <= j
  <2>1. SUFFICES ASSUME j < at + n + 1 PROVE FALSE
    BY <1>1
  <2>2. j - at \in 1 .. n /\ at + (j - at) = j
    BY <1>1, <2>1
  <2>. QED
    BY <1>2, <2>2
<1>6. first = at + n + 1
  <2>1. \E i \in ends : \A j \in ends : i <= j
    BY <1>4, <1>5
  <2>2. first \in ends /\ \A j \in ends : first <= j
    BY <2>1
  <2>3. ends \subseteq Int
    BY <1>1
  <2>. HIDE DEF ends, first, d, n
  <2>4. first \in Int /\ first <= at + n + 1 /\ at + n + 1 <= first
    BY ONLY <1>4, <1>5, <2>2, <2>3
  <2>. QED
    BY ONLY <1>1, <2>4
<1>7. GetString(sec, at) = SubSeq(d, at + 1, first - 1)
  <2>1. ends # {} /\ ~(at >= sec.size) /\ sec.has
    BY <1>1, <1>3, <1>4
  <2>. QED
    BY ONLY <2>1, Zenon DEF GetString
<1>8. SubSeq(d, at + 1, at + n) = name
  <2>. DEFINE u == SubSeq(d, at + 1, at + n)
  <2>1. u \in Seq(Nat) /\ Len(u) = n /\ \A c \in 1 .. n : u[c] = d[at + c]
    <3>1. d \in Seq(Nat) /\ n \in Nat /\ at \in Nat /\ at + n <= Len(d)
      BY <1>1
    <3>. HIDE DEF d, n
    <3>. QED
      BY ONLY <3>1, PieceType DEF Piece
  <2>. HIDE DEF u
  <2>2. name \in Seq(Nat)
    BY DEF String
  <2>3. Len(u) = Len(name) /\ \A c \in 1 .. Len(u) : u[c] = name[c]
    BY <1>2, <2>1
  <2>4. u = name
    BY ONLY <2>1, <2>2, <2>3, SeqEqual
  <2>. QED
    BY <2>4 DEF u
<1>9. name # NoString
  <2>. SUFFICES ASSUME name = NoString PROVE FALSE
    OBVIOUS
  <2>1. Len(name) = 1 /\ name[1] = 0
    BY DEF NoString
  <2>2. \A c \in 1 .. Len(name) : name[c] # 0
    BY DEF String
  <2>. QED
    BY ONLY <2>1, <2>2
<1>. HIDE DEF first, d, n
<1>10. first - 1 = at + n
  BY ONLY <1>1, <1>6
<1>. QED
  BY ONLY <1>7, <1>8, <1>9, <1>10

(* A name stays where it is when something is appended.                    *)
LEMMA NamedStays ==
  ASSUME NEW sec, Shaped(sec), NEW t, Shaped(t), NEW raw \in Seq(Nat),
         t.data = sec.data \o raw,
         NEW at, NEW name \in String, Named(sec, at, name)
  PROVE  Named(t, at, name)
<1>. DEFINE d == sec.data
            n == Len(name)
<1>1. /\ d \in Seq(Nat) /\ at \in Nat /\ n \in Nat /\ at + n + 1 <= Len(d) /\ Len(d) \in Nat
      /\ d[at + n + 1] = 0 /\ \A c \in 1 .. n : d[at + c] = name[c]
  BY DEF Shaped, Named, String
<1>2. /\ Len(t.data) = Len(d) + Len(raw) /\ Len(raw) \in Nat
      /\ \A c \in 1 .. Len(d) : t.data[c] = d[c]
  BY <1>1
<1>. HIDE DEF d, n
<1>3. at + n + 1 <= Len(t.data) /\ t.data[at + n + 1] = 0
  BY ONLY <1>1, <1>2
<1>4. ASSUME NEW c \in 1 .. n PROVE t.data[at + c] = name[c]
  <2>1. at + c \in 1 .. Len(d)
    BY ONLY <1>1, c \in 1 .. n
  <2>. QED
    BY <1>1, <1>2, <2>1, Zenon
<1>. QED
  BY ONLY <1>1, <1>3, <1>4 DEF Named, n

(* A table of names begins with the empty one.                             *)
EmptyFirst(sec) == sec.size # 0 => sec.data[1] = 0

(* A name that is added is there, and the others stay                      *)
(* (elfio_strings.hpp:65-83).                                              *)
LEMMA StringAdded ==
  ASSUME NEW sec, Shaped(sec), NEW name \in String
  PROVE  LET t == AddString(sec, name)
         IN  /\ Shaped(t) /\ SameHead(t, sec)
             /\ EmptyFirst(sec) => EmptyFirst(t)
             /\ Named(t, NextString(sec), name)
             /\ NextString(sec) \in Nat
             /\ t.size = NextString(sec) + Len(name) + 1
             /\ \A at, other : other \in String /\ Named(sec, at, other)
                               => Named(t, at, other)
<1>. DEFINE u == IF sec.size = 0 THEN AppendData(sec, <<0>>) ELSE sec
            t == AddString(sec, name)
            raw == Append(name, 0)
<1>1. /\ Shaped(u) /\ SameHead(u, sec) /\ u.size = NextString(sec) /\ u.size # 0
      /\ EmptyFirst(sec) => EmptyFirst(u)
      /\ \A at, other : other \in String /\ Named(sec, at, other) => Named(u, at, other)
  <2>1. CASE sec.size # 0
    BY <2>1 DEF NextString, SameHead
  <2>2. CASE sec.size = 0
    <3>1. <<0>> \in Seq(Nat) /\ Len(<<0>>) = 1 /\ Len(<<0>>) > 0
      OBVIOUS
    <3>4. u = AppendData(sec, <<0>>)
      BY <2>2
    <3>5. Shaped(sec)
      OBVIOUS
    <3>. HIDE DEF u
    <3>2. Shaped(u) /\ SameHead(u, sec) /\ u.size = 0 + 1 /\ u.data = sec.data \o <<0>>
      BY ONLY <2>2, <3>1, <3>4, <3>5, Appended
    <3>6. u.data[1] = 0
      <4>. DEFINE d == sec.data
      <4>1. d \in Seq(Nat) /\ Len(d) = 0
        BY <2>2 DEF Shaped
      <4>. HIDE DEF d
      <4>2. (d \o <<0>>)[1] = 0
        BY ONLY <4>1
      <4>. QED
        BY <3>2, <4>2 DEF d
    <3>3. ASSUME NEW at, NEW other \in String, Named(sec, at, other) PROVE FALSE
      BY <2>2, <3>3 DEF Named, String, Shaped
    <3>. QED
      BY <2>2, <3>2, <3>3, <3>6 DEF NextString, EmptyFirst
  <2>. QED
    BY <2>1, <2>2
<1>2. raw \in Seq(Nat) /\ Len(raw) = Len(name) + 1 /\ Len(name) \in Nat
  BY DEF String
<1>12. raw[Len(name) + 1] = 0 /\ \A c \in 1 .. Len(name) : raw[c] = name[c]
  BY DEF String
<1>3. t = AppendData(u, raw)
  BY DEF AddString
<1>. HIDE DEF u, t, raw
<1>4. Len(raw) > 0
  BY <1>2
<1>5. Shaped(t) /\ SameHead(t, u) /\ t.data = u.data \o raw /\ t.size = u.size + Len(raw)
  BY ONLY <1>1, <1>2, <1>3, <1>4, Appended
<1>6. u.size \in Nat /\ u.data \in Seq(Nat) /\ u.size = Len(u.data)
  <2>1. Shaped(u)
    BY <1>1
  <2>. QED
    BY ONLY <2>1 DEF Shaped
<1>7. Named(t, u.size, name)
  <2>. DEFINE d == u.data
              m == Len(d)
              k == Len(name)
  <2>1. d \in Seq(Nat) /\ m = u.size /\ m \in Nat
    BY <1>6
  <2>8. t.data = d \o raw
    BY <1>5
  <2>2. k \in Nat /\ Len(raw) = k + 1 /\ raw \in Seq(Nat)
    BY <1>2
  <2>. HIDE DEF d
  <2>3. Len(t.data) = m + Len(raw) /\ \A c \in 1 .. Len(raw) : t.data[m + c] = raw[c]
    <3>1. d \in Seq(Nat) /\ raw \in Seq(Nat)
      BY <2>1, <2>2
    <3>2. /\ Len(d \o raw) = Len(d) + Len(raw)
          /\ \A c \in 1 .. Len(raw) : (d \o raw)[Len(d) + c] = raw[c]
      BY ONLY <3>1, ConcatCells, Zenon
    <3>. QED
      BY ONLY <2>8, <3>2, Zenon
  <2>. HIDE DEF m, k
  <2>4. ASSUME NEW c \in 1 .. k PROVE t.data[m + c] = name[c]
    <3>1. c \in 1 .. Len(raw)
      BY ONLY <2>2, c \in 1 .. k
    <3>2. raw[c] = name[c]
      BY <1>12 DEF k
    <3>. QED
      BY ONLY <2>3, <3>1, <3>2
  <2>5. t.data[m + k + 1] = 0
    <3>1. m + k + 1 = m + (k + 1) /\ k + 1 \in 1 .. Len(raw)
      BY ONLY <2>1, <2>2
    <3>2. raw[k + 1] = 0
      BY <1>12 DEF k
    <3>. QED
      BY ONLY <2>3, <3>1, <3>2
  <2>6. m + k + 1 <= Len(t.data)
    BY ONLY <2>1, <2>2, <2>3
  <2>7. Named(t, m, name)
    BY ONLY <2>1, <2>4, <2>5, <2>6 DEF Named, k
  <2>. QED
    BY ONLY <2>1, <2>7
<1>8. ASSUME NEW at, NEW other \in String, Named(sec, at, other) PROVE Named(t, at, other)
  BY <1>1, <1>2, <1>5, <1>8, NamedStays
<1>9. SameHead(t, sec)
  BY <1>1, <1>5 DEF SameHead
<1>10. t.size = u.size + Len(name) + 1
  <2>1. t.size = u.size + Len(raw) /\ u.size \in Nat
    BY <1>5, <1>6
  <2>. QED
    BY ONLY <1>2, <2>1, SMTT(30)
<1>13. EmptyFirst(sec) => EmptyFirst(t)
  <2>. DEFINE d == u.data
  <2>1. d \in Seq(Nat) /\ Len(d) \in Nat /\ Len(d) # 0 /\ t.data = d \o raw
    BY <1>1, <1>5, <1>6
  <2>. HIDE DEF d
  <2>2. (d \o raw)[1] = d[1]
    BY ONLY <1>2, <2>1
  <2>. QED
    BY ONLY <1>1, <2>1, <2>2 DEF d, EmptyFirst
<1>11. SUFFICES /\ Shaped(t) /\ SameHead(t, sec) /\ Named(t, NextString(sec), name)
                /\ NextString(sec) \in Nat /\ t.size = NextString(sec) + Len(name) + 1
                /\ \A at, other : other \in String /\ Named(sec, at, other)
                                  => Named(t, at, other)
                /\ EmptyFirst(sec) => EmptyFirst(t)
  BY DEF t
<1>. QED
  BY ONLY <1>1, <1>5, <1>6, <1>7, <1>8, <1>9, <1>10, <1>13, Zenon

-------------------------------------------------------------------------------
(***************************************************************************)
(* Symbols and relocations as entries of a table.                          *)
(***************************************************************************)
(* The cells of a symbol.                                                  *)
LEMMA SymCellsAre ==
  /\ ToSet(SymFields) = {"st_name", "st_value", "st_size", "st_info", "st_other", "st_shndx"}
  /\ DOMAIN SymCells = ToSet(SymFields)
  /\ SymCells["st_name"] = 1 /\ SymCells["st_value"] = 2 /\ SymCells["st_size"] = 3
  /\ SymCells["st_info"] = 4 /\ SymCells["st_other"] = 5 /\ SymCells["st_shndx"] = 6
<1>1. ToSet(SymFields) = {"st_name", "st_value", "st_size", "st_info", "st_other", "st_shndx"}
  BY DEF ToSet, SymFields
<1>. QED
  BY <1>1 DEF SymCells, CellOf, SymFields

(* The cells of a relocation.                                              *)
LEMMA RelCellsAre ==
  /\ DOMAIN RelCells = {"r_offset", "r_info"}
  /\ RelCells["r_offset"] = 1 /\ RelCells["r_info"] = 2
  /\ DOMAIN RelaCells = {"r_offset", "r_info", "r_addend"}
  /\ RelaCells["r_offset"] = 1 /\ RelaCells["r_info"] = 2 /\ RelaCells["r_addend"] = 3
<1>1. /\ ToSet(RelFields) = {"r_offset", "r_info"}
      /\ ToSet(RelaFields) = {"r_offset", "r_info", "r_addend"}
  BY DEF ToSet, RelFields, RelaFields
<1>. QED
  BY <1>1 DEF RelCells, RelaCells, CellOf, RelFields, RelaFields

(* The symbol that n cells hold; a symbol whose fields fit.                *)
SymbolIn(cells, encoding) == Unpack(SymCells, cells, encoding)

Fits(p) ==
  /\ p.st_name \in Field /\ p.st_value \in Field /\ p.st_size \in Field
  /\ p.st_info \in Nat /\ p.st_other \in Nat /\ p.st_shndx \in Field

(* A symbol is read as it was written (elfio_symbols.hpp:413-447).         *)
LEMMA SymbolBack ==
  ASSUME NEW p, Fits(p), DOMAIN p = ToSet(SymFields), p = [f \in DOMAIN p |-> p[f]],
         NEW encoding
  PROVE  LET cells == Pack(SymFields, p, encoding)
         IN  /\ cells \in Seq(Nat) /\ Len(cells) = SymSize
             /\ SymbolIn(cells, encoding) = p
<1>. DEFINE cells == Pack(SymFields, p, encoding)
            q == SymbolIn(cells, encoding)
<1>1. cells = <<Convert(encoding, p.st_name), Convert(encoding, p.st_value),
                Convert(encoding, p.st_size), p.st_info, p.st_other,
                Convert(encoding, p.st_shndx)>>
  BY DEF Pack, SymFields, Ident
<1>2. Field \subseteq Nat
  BY RadixAssumption DEF Field
<1>3. /\ Convert(encoding, p.st_name) \in Nat /\ Convert(encoding, p.st_value) \in Nat
      /\ Convert(encoding, p.st_size) \in Nat /\ Convert(encoding, p.st_shndx) \in Nat
  BY <1>2, ConvertBack DEF Fits
<1>4. cells \in Seq(Nat) /\ Len(cells) = SymSize
  BY <1>1, <1>3 DEF Fits, SymSize
<1>. HIDE DEF cells
<1>5. /\ cells[1] = Convert(encoding, p.st_name) /\ cells[2] = Convert(encoding, p.st_value)
      /\ cells[3] = Convert(encoding, p.st_size) /\ cells[4] = p.st_info
      /\ cells[5] = p.st_other /\ cells[6] = Convert(encoding, p.st_shndx)
  BY <1>1
<1>6. DOMAIN q = ToSet(SymFields) /\ q = [f \in DOMAIN q |-> q[f]]
  BY SymCellsAre DEF SymbolIn, Unpack
<1>7. /\ q["st_name"] = p.st_name /\ q["st_value"] = p.st_value /\ q["st_size"] = p.st_size
      /\ q["st_info"] = p.st_info /\ q["st_other"] = p.st_other /\ q["st_shndx"] = p.st_shndx
  BY <1>5, SymCellsAre, ConvertBack DEF SymbolIn, Unpack, Ident, Fits
<1>. HIDE DEF q
<1>8. \A f \in ToSet(SymFields) : q[f] = p[f]
  BY <1>7, SymCellsAre
<1>9. q = p
  BY ONLY <1>6, <1>8, DOMAIN p = ToSet(SymFields), p = [f \in DOMAIN p |-> p[f]]
<1>. QED
  BY <1>4, <1>9 DEF cells, q

(* The entry that cells hold, in a section of that type.                   *)
EntryIn(type, cells, encoding) ==
  LET p == IF type = SHT_REL THEN Unpack(RelCells, cells, encoding)
           ELSE Unpack(RelaCells, cells, encoding)
  IN  [offset |-> p.r_offset, symbol |-> RSym(p.r_info), type |-> RType(p.r_info),
       addend |-> IF type = SHT_REL THEN 0 ELSE p.r_addend]

EntryCells(type, entry, encoding) ==
  LET fields == [r_offset |-> entry.offset, r_info |-> RInfo(entry.symbol, entry.type),
                 r_addend |-> entry.addend]
  IN  Pack(IF type = SHT_REL THEN RelFields ELSE RelaFields, fields, encoding)

EntryWidth(type) == IF type = SHT_REL THEN RelSize ELSE RelaSize

Relocations(type) ==
  [offset : Field, symbol : Digit, type : Digit,
   addend : IF type = SHT_REL THEN {0} ELSE Field]

(* A relocation is read as it was written (elfio_relocation.hpp).          *)
LEMMA EntryBack ==
  ASSUME NEW type, NEW entry \in Relocations(type), NEW encoding
  PROVE  LET cells == EntryCells(type, entry, encoding)
         IN  /\ cells \in Seq(Nat) /\ Len(cells) = EntryWidth(type)
             /\ EntryIn(type, cells, encoding) = entry
<1>. DEFINE cells == EntryCells(type, entry, encoding)
            info == RInfo(entry.symbol, entry.type)
<1>1. /\ entry.offset \in Field /\ entry.symbol \in Digit /\ entry.type \in Digit
      /\ type # SHT_REL => entry.addend \in Field
      /\ type = SHT_REL => entry.addend = 0
  BY DEF Relocations
<1>2. info \in Field /\ RSym(info) = entry.symbol /\ RType(info) = entry.type
  <2>1. entry.type % Radix = entry.type /\ entry.symbol \in Nat
    BY <1>1, RadixAssumption DEF Digit
  <2>2. info = entry.symbol * Radix + entry.type
    BY <2>1 DEF RInfo
  <2>. QED
    BY <1>1, <2>1, <2>2, TwoDigits, DigitsField DEF RSym, RType
<1>3. Field \subseteq Nat
  BY RadixAssumption DEF Field
<1>. HIDE DEF info
<1>6. /\ Convert(encoding, entry.offset) \in Nat /\ Convert(encoding, info) \in Nat
      /\ type # SHT_REL => Convert(encoding, entry.addend) \in Nat
  BY <1>1, <1>2, <1>3, ConvertBack
<1>4. CASE type = SHT_REL
  <2>1. cells = <<Convert(encoding, entry.offset), Convert(encoding, info)>>
    BY <1>4 DEF EntryCells, Pack, RelFields, Ident, info
  <2>2. cells \in Seq(Nat) /\ Len(cells) = RelSize
    BY ONLY <1>6, <2>1 DEF RelSize
  <2>3. cells[1] = Convert(encoding, entry.offset) /\ cells[2] = Convert(encoding, info)
    BY <2>1
  <2>. HIDE DEF cells
  <2>4. LET p == Unpack(RelCells, cells, encoding)
        IN  p.r_offset = entry.offset /\ p.r_info = info
    BY <1>1, <1>2, <2>3, RelCellsAre, ConvertBack DEF Unpack, Ident
  <2>5. EntryIn(type, cells, encoding) = entry
    BY <1>1, <1>2, <1>4, <2>4 DEF EntryIn, Relocations
  <2>. QED
    BY <1>4, <2>2, <2>5 DEF cells, EntryWidth
<1>5. CASE type # SHT_REL
  <2>1. cells = <<Convert(encoding, entry.offset), Convert(encoding, info),
                  Convert(encoding, entry.addend)>>
    BY <1>5 DEF EntryCells, Pack, RelaFields, Ident, info
  <2>2. cells \in Seq(Nat) /\ Len(cells) = RelaSize
    BY ONLY <1>5, <1>6, <2>1 DEF RelaSize
  <2>3. cells[1] = Convert(encoding, entry.offset) /\ cells[2] = Convert(encoding, info)
        /\ cells[3] = Convert(encoding, entry.addend)
    BY <2>1
  <2>. HIDE DEF cells
  <2>4. LET p == Unpack(RelaCells, cells, encoding)
        IN  p.r_offset = entry.offset /\ p.r_info = info /\ p.r_addend = entry.addend
    BY <1>1, <1>2, <1>5, <2>3, RelCellsAre, ConvertBack DEF Unpack, Ident
  <2>5. EntryIn(type, cells, encoding) = entry
    BY <1>1, <1>2, <1>5, <2>4 DEF EntryIn, Relocations
  <2>. QED
    BY <1>5, <2>2, <2>5 DEF cells, EntryWidth
<1>. QED
  BY <1>4, <1>5

-------------------------------------------------------------------------------
(***************************************************************************)
(* Objects: what a change of one section leaves alone.                     *)
(***************************************************************************)
IsSeq(q) == \E S : q \in Seq(S)

Object(e) == {"hdr", "secs"} \subseteq DOMAIN e /\ e.hdr.shstrndx = 1 /\ IsSeq(e.secs)

(* One section is another one, the rest is what it was.                    *)
LEMMA Replaced ==
  ASSUME NEW e, Object(e), NEW s \in 0 .. (Len(e.secs) - 1), NEW sec
  PROVE  LET t == Replace(e, s, sec)
         IN  /\ Object(t) /\ t.hdr = e.hdr /\ Len(t.secs) = Len(e.secs)
             /\ Sec(t, s) = sec
             /\ \A k \in 0 .. (Len(e.secs) - 1) : k # s => Sec(t, k) = Sec(e, k)
<1>. DEFINE t == Replace(e, s, sec)
<1>1. PICK S : e.secs \in Seq(S)
  BY DEF Object, IsSeq
<1>2. {"hdr", "secs"} \subseteq DOMAIN e /\ e.hdr.shstrndx = 1
  BY DEF Object
<1>3. DOMAIN t = DOMAIN e /\ t.hdr = e.hdr /\ t.secs = [e.secs EXCEPT ![s + 1] = sec]
  BY <1>2 DEF Replace
<1>. HIDE DEF t
<1>. DEFINE q == e.secs
<1>4. q \in Seq(S) /\ s + 1 \in 1 .. Len(q)
  BY <1>1
<1>5. t.secs = [q EXCEPT ![s + 1] = sec]
  BY <1>3
<1>. HIDE DEF q
<1>6. q \in Seq(S \cup {sec})
  BY ONLY <1>4
<1>7. /\ t.secs \in Seq(S \cup {sec}) /\ Len(t.secs) = Len(q)
      /\ t.secs[s + 1] = sec
      /\ \A k \in 1 .. Len(q) : k # s + 1 => t.secs[k] = q[k]
  BY ONLY <1>4, <1>5, <1>6
<1>8. IsSeq(t.secs)
  BY ONLY <1>7 DEF IsSeq
<1>9. Object(t)
  BY ONLY <1>2, <1>3, <1>8 DEF Object
<1>10. ASSUME NEW k \in 0 .. (Len(q) - 1), k # s PROVE Sec(t, k) = Sec(e, k)
  <2>1. k + 1 \in 1 .. Len(q) /\ k + 1 # s + 1
    BY <1>4, <1>10
  <2>. QED
    BY <1>7, <2>1 DEF Sec, q
<1>. QED
  BY <1>3, <1>7, <1>9, <1>10 DEF Sec, q, t

(***************************************************************************)
(* Hash tables in which every search ends: a chain of hash_lookup goes to  *)
(* smaller numbers of symbols, one of gnu_hash_lookup to an odd cell.      *)
(***************************************************************************)
CellIn(sec, encoding, c) == Convert(encoding, sec.data[c + 1])

ChainsDescend(sec, encoding, m) ==
  LET nbucket == CellIn(sec, encoding, 0)
      nchain  == CellIn(sec, encoding, 1)
  IN  /\ nbucket \in Nat \ {0} /\ nchain \in 0 .. m
      /\ \A b \in 0 .. (nbucket - 1) : CellIn(sec, encoding, 2 + b) \in 0 .. (nchain - 1)
      /\ \A y \in 1 .. (nchain - 1) : CellIn(sec, encoding, 2 + nbucket + y) \in 0 .. (y - 1)

ChainEnds(sec, encoding, start, first) ==
  \E k \in Nat : k >= first /\ CellIn(sec, encoding, start + k) % 2 = 1

ChainsEnd(sec, encoding) ==
  LET nbuckets   == CellIn(sec, encoding, 0)
      symoffset  == CellIn(sec, encoding, 1)
      bloom_size == CellIn(sec, encoding, 2)
  IN  /\ nbuckets \in Nat \ {0} /\ symoffset \in Nat
      /\ \A b \in 0 .. (nbuckets - 1) :
           LET first == CellIn(sec, encoding, 4 + bloom_size + b)
           IN  /\ first \in Nat
               /\ first >= symoffset =>
                    ChainEnds(sec, encoding, 4 + bloom_size + nbuckets, first - symoffset)

IsHash(sec) == sec.link = Sym /\ sec.type \in {SHT_HASH, SHT_GNU_HASH}

Searchable(sec, encoding, m) ==
  IF sec.type = SHT_HASH THEN ChainsDescend(sec, encoding, m) ELSE ChainsEnd(sec, encoding)

Typed(sec, type) == "type" \in DOMAIN sec /\ sec.type = type

(* Every hash table for the symbols is behind the other sections, and was  *)
(* built for at most as many symbols as there are.  Section 1 has the      *)
(* names of the sections.                                                  *)
Hashed(e, m) ==
  /\ Typed(Sec(e, 1), SHT_STRTAB)
  /\ \A h \in 0 .. Rel : ~IsHash(Sec(e, h))
  /\ \A h \in (Rel + 1) .. (Len(e.secs) - 1) :
       IsHash(Sec(e, h)) => Searchable(Sec(e, h), e.hdr.data, m)

(* A hash table stays one when symbols are added, and when another section *)
(* is replaced.                                                            *)
LEMMA HashedStays ==
  ASSUME NEW e, NEW m \in Nat, Hashed(e, m), Len(e.secs) \in Nat, NEW t, t.hdr = e.hdr,
         Len(t.secs) = Len(e.secs), NEW s \in {Str, Sym, Rel}, ~IsHash(Sec(t, s)),
         Len(e.secs) > Rel,
         \A k \in 0 .. (Len(e.secs) - 1) : k # s => Sec(t, k) = Sec(e, k),
         NEW more \in Nat, more >= m
  PROVE  Hashed(t, more)
<1>. DEFINE N == Len(e.secs)
<1>1. N \in Nat /\ N > Rel /\ Rel = 4 /\ s \in 2 .. 4
  BY DEF Str, Sym, Rel
<1>. HIDE DEF N
<1>2. ASSUME NEW h \in 0 .. Rel PROVE ~IsHash(Sec(t, h))
  <2>1. h \in 0 .. (N - 1)
    BY ONLY <1>1, h \in 0 .. Rel
  <2>. QED
    BY <2>1 DEF Hashed, N
<1>3. ASSUME NEW h \in (Rel + 1) .. (N - 1), IsHash(Sec(t, h))
      PROVE  Searchable(Sec(t, h), t.hdr.data, more)
  <2>1. h \in 0 .. (N - 1) /\ h # s
    BY ONLY <1>1, h \in (Rel + 1) .. (N - 1)
  <2>2. Sec(t, h) = Sec(e, h)
    BY <2>1 DEF N
  <2>3. Searchable(Sec(e, h), e.hdr.data, m)
    BY <1>3, <2>2 DEF Hashed, N
  <2>. DEFINE sec == Sec(e, h)
              enc == e.hdr.data
  <2>. HIDE DEF sec, enc
  <2>4. Searchable(sec, enc, m)
    BY <2>3 DEF sec, enc
  <2>5. Searchable(sec, enc, more)
    BY ONLY <2>4, m \in Nat, more \in Nat, more >= m DEF Searchable, ChainsDescend
  <2>. QED
    BY <2>2, <2>5 DEF sec, enc
<1>4. Typed(Sec(t, 1), SHT_STRTAB)
  <2>1. 1 \in 0 .. (N - 1) /\ 1 # s
    BY ONLY <1>1
  <2>. QED
    BY <2>1 DEF Hashed, N
<1>. QED
  BY <1>2, <1>3, <1>4 DEF Hashed, N

(* A table of names that begins with the empty one, a table of m symbols,  *)
(* one of n relocations and hash tables that can be searched.              *)
Tables(e, m, n) ==
  /\ Object(e) /\ Len(e.secs) > Rel
  /\ Shaped(Sec(e, Str)) /\ EmptyFirst(Sec(e, Str)) /\ Hashed(e, m)
  /\ Table(Sec(e, Sym), SymSize, m) /\ Sec(e, Sym).link = Str
  /\ Table(Sec(e, Rel), EntryWidth(Sec(e, Rel).type), n) /\ Sec(e, Rel).link = Sym

(* What the accessors make of the tables.                                  *)
LEMMA TablesRead ==
  ASSUME NEW e, NEW m \in Nat, NEW n \in Nat, Tables(e, m, n)
  PROVE  /\ GetSymbolsNum(Sec(e, Sym)) = m /\ LastSymbol(e, Sym) = m - 1
         /\ m # 0 => Sec(e, Sym).has = TRUE
         /\ GetEntriesNum(Sec(e, Rel)) = n
         /\ \A i : SymbolPtr(e, Sym, i) = SymbolIn(Cut(Sec(e, Sym).data, i, SymSize), e.hdr.data)
         /\ \A i : GetEntry(e, Rel, i) =
                     EntryIn(Sec(e, Rel).type,
                             Cut(Sec(e, Rel).data, i, EntryWidth(Sec(e, Rel).type)), e.hdr.data)
<1>. DEFINE sym == Sec(e, Sym)
            rel == Sec(e, Rel)
<1>1. /\ sym.entsize = 6 /\ sym.size = m * 6 /\ sym.size <= sym.stream
      /\ m # 0 => sym.has = TRUE
  BY DEF Tables, Table, Shaped, SymSize
<1>2. rel.entsize = EntryWidth(rel.type) /\ rel.size = n * EntryWidth(rel.type)
  BY DEF Tables, Table, Shaped
<1>3. \A i : SymbolPtr(e, Sym, i) = SymbolIn(Cut(sym.data, i, SymSize), e.hdr.data)
  BY <1>1, Zenon DEF SymbolPtr, SymbolIn, CellsAt, Cut, Piece, SymSize
<1>. HIDE DEF sym
<1>4. GetSymbolsNum(sym) = m /\ sym.size \div SymSize - 1 = m - 1
  BY ONLY <1>1, m \in Nat DEF GetSymbolsNum, SymSize
<1>5. GetEntriesNum(rel) = n
  <2>. HIDE DEF rel
  <2>1. EntryWidth(rel.type) = 2 \/ EntryWidth(rel.type) = 3
    BY DEF EntryWidth, RelSize, RelaSize
  <2>. QED
    BY ONLY <1>2, <2>1, n \in Nat DEF GetEntriesNum
<1>6. ASSUME NEW i
      PROVE  GetEntry(e, Rel, i) =
               EntryIn(rel.type, Cut(rel.data, i, EntryWidth(rel.type)), e.hdr.data)
  <2>1. CASE rel.type = SHT_REL
    <3>1. CellsAt(rel, i, RelSize) = Cut(rel.data, i, RelSize)
      BY <1>2, <2>1 DEF CellsAt, Cut, Piece, EntryWidth
    <3>. QED
      BY <2>1, <3>1, Zenon DEF GetEntry, EntryIn, EntryWidth
  <2>2. CASE rel.type # SHT_REL
    <3>1. CellsAt(rel, i, RelaSize) = Cut(rel.data, i, RelaSize)
      BY <1>2, <2>2 DEF CellsAt, Cut, Piece, EntryWidth
    <3>. QED
      BY <2>2, <3>1, Zenon DEF GetEntry, EntryIn, EntryWidth
  <2>. QED
    BY <2>1, <2>2
<1>. QED
  BY <1>1, <1>3, <1>4, <1>5, <1>6 DEF sym, LastSymbol

(* Symbols and relocations are where their sections are.                   *)
LEMMA SameRows ==
  ASSUME NEW e, NEW t, t.hdr = e.hdr
  PROVE  /\ Sec(t, Sym) = Sec(e, Sym) => \A i : SymbolPtr(t, Sym, i) = SymbolPtr(e, Sym, i)
         /\ Sec(t, Rel) = Sec(e, Rel) => \A i : GetEntry(t, Rel, i) = GetEntry(e, Rel, i)
BY Zenon DEF SymbolPtr, GetEntry

(* A section of the tables is another one.                                 *)
LEMMA OneReplaced ==
  ASSUME NEW e, NEW m \in Nat, NEW n \in Nat, Tables(e, m, n), NEW sec,
         NEW s \in {Str, Sym, Rel}, NEW t, t = Replace(e, s, sec), ~IsHash(sec),
         NEW more \in Nat, more >= m
  PROVE  /\ Object(t) /\ t.hdr = e.hdr /\ Len(t.secs) = Len(e.secs) /\ Sec(t, s) = sec
         /\ \A k \in {Str, Sym, Rel} : k # s => Sec(t, k) = Sec(e, k)
         /\ Hashed(t, more)
<1>1. Object(e) /\ Hashed(e, m) /\ Len(e.secs) \in Nat /\ Len(e.secs) > Rel
  BY DEF Tables, Object, IsSeq
<1>2. s \in 0 .. (Len(e.secs) - 1) /\ s \in {Str, Sym, Rel}
  BY ONLY <1>1, s \in {Str, Sym, Rel} DEF Str, Sym, Rel
<1>3. /\ Object(t) /\ t.hdr = e.hdr /\ Len(t.secs) = Len(e.secs) /\ Sec(t, s) = sec
      /\ \A k \in 0 .. (Len(e.secs) - 1) : k # s => Sec(t, k) = Sec(e, k)
  BY ONLY <1>1, <1>2, t = Replace(e, s, sec), Replaced
<1>4. Hashed(t, more)
  <2>1. ~IsHash(Sec(t, s))
    BY <1>3
  <2>. QED
    BY ONLY <1>1, <1>2, <1>3, <2>1, m \in Nat, more \in Nat, more >= m, HashedStays
<1>5. ASSUME NEW k \in {Str, Sym, Rel} PROVE k \in 0 .. (Len(e.secs) - 1)
  BY ONLY <1>1, k \in {Str, Sym, Rel} DEF Str, Sym, Rel
<1>. QED
  BY ONLY <1>3, <1>4, <1>5

(* What each of them is beside the others.                                 *)
LEMMA HeadsApart ==
  ASSUME NEW e, NEW m, NEW n, Tables(e, m, n)
  PROVE  /\ Str # Sym /\ Sym # Rel /\ Str # Rel
         /\ ~IsHash(Sec(e, Str)) /\ ~IsHash(Sec(e, Sym)) /\ ~IsHash(Sec(e, Rel))
BY DEF Tables, Hashed, Str, Sym, Rel

(* The names are others.                                                   *)
LEMMA NamesReplaced ==
  ASSUME NEW e, NEW m \in Nat, NEW n \in Nat, Tables(e, m, n), NEW sec,
         Shaped(sec), SameHead(sec, Sec(e, Str)), EmptyFirst(sec),
         NEW t, t = Replace(e, Str, sec)
  PROVE  /\ Tables(t, m, n) /\ t.hdr = e.hdr /\ Sec(t, Str) = sec
         /\ Sec(t, Sym) = Sec(e, Sym) /\ Sec(t, Rel) = Sec(e, Rel)
<1>1. ~IsHash(sec) /\ m >= m /\ Str \in {Str, Sym, Rel}
  BY HeadsApart DEF IsHash, SameHead
<1>2. /\ Object(t) /\ t.hdr = e.hdr /\ Len(t.secs) = Len(e.secs) /\ Sec(t, Str) = sec
      /\ \A k \in {Str, Sym, Rel} : k # Str => Sec(t, k) = Sec(e, k)
      /\ Hashed(t, m)
  BY <1>1, OneReplaced, SMTT(30)
<1>3. Sec(t, Sym) = Sec(e, Sym) /\ Sec(t, Rel) = Sec(e, Rel)
  BY <1>2, HeadsApart
<1>. QED
  BY ONLY <1>2, <1>3, Shaped(sec), EmptyFirst(sec), Tables(e, m, n) DEF Tables

(* There are k symbols.                                                    *)
LEMMA SymbolsReplaced ==
  ASSUME NEW e, NEW m \in Nat, NEW n \in Nat, Tables(e, m, n), NEW sec,
         NEW k \in Nat, k >= m, Table(sec, SymSize, k), sec.link = Sec(e, Sym).link,
         NEW t, t = Replace(e, Sym, sec)
  PROVE  /\ Tables(t, k, n) /\ t.hdr = e.hdr /\ Sec(t, Sym) = sec
         /\ Sec(t, Str) = Sec(e, Str) /\ Sec(t, Rel) = Sec(e, Rel)
<1>1. ~IsHash(sec) /\ Sym \in {Str, Sym, Rel}
  BY HeadsApart DEF IsHash, Tables
<1>2. /\ Object(t) /\ t.hdr = e.hdr /\ Len(t.secs) = Len(e.secs) /\ Sec(t, Sym) = sec
      /\ \A i \in {Str, Sym, Rel} : i # Sym => Sec(t, i) = Sec(e, i)
      /\ Hashed(t, k)
  BY <1>1, OneReplaced
<1>3. Sec(t, Str) = Sec(e, Str) /\ Sec(t, Rel) = Sec(e, Rel)
  BY <1>2, HeadsApart
<1>. QED
  BY ONLY <1>2, <1>3, Table(sec, SymSize, k), sec.link = Sec(e, Sym).link, Tables(e, m, n)
  DEF Tables

(* There are k relocations.                                                *)
LEMMA EntriesReplaced ==
  ASSUME NEW e, NEW m \in Nat, NEW n \in Nat, Tables(e, m, n), NEW sec,
         NEW k \in Nat, Table(sec, EntryWidth(sec.type), k), SameHead(sec, Sec(e, Rel)),
         NEW t, t = Replace(e, Rel, sec)
  PROVE  /\ Tables(t, m, k) /\ t.hdr = e.hdr /\ Sec(t, Rel) = sec
         /\ Sec(t, Str) = Sec(e, Str) /\ Sec(t, Sym) = Sec(e, Sym)
<1>1. ~IsHash(sec) /\ m >= m /\ Rel \in {Str, Sym, Rel}
  BY HeadsApart DEF IsHash, SameHead
<1>2. /\ Object(t) /\ t.hdr = e.hdr /\ Len(t.secs) = Len(e.secs) /\ Sec(t, Rel) = sec
      /\ \A i \in {Str, Sym, Rel} : i # Rel => Sec(t, i) = Sec(e, i)
      /\ Hashed(t, m)
  BY <1>1, OneReplaced
<1>3. Sec(t, Str) = Sec(e, Str) /\ Sec(t, Sym) = Sec(e, Sym)
  BY <1>2, HeadsApart
<1>4. sec.link = Sec(e, Rel).link
  BY DEF SameHead
<1>. QED
  BY ONLY <1>2, <1>3, <1>4, Table(sec, EntryWidth(sec.type), k), Tables(e, m, n) DEF Tables

(* Both objects hold the same names, symbols or relocations.               *)
SameSymbols(t, e) ==
  /\ Sec(t, Sym) = Sec(e, Sym) /\ \A i : SymbolPtr(t, Sym, i) = SymbolPtr(e, Sym, i)

SameEntries(t, e) ==
  /\ Sec(t, Rel) = Sec(e, Rel) /\ \A i : GetEntry(t, Rel, i) = GetEntry(e, Rel, i)

(* A symbol is added behind the others (elfio_symbols.hpp:413-430).        *)
LEMMA SymbolAppended ==
  ASSUME NEW e, NEW m \in Nat, NEW n \in Nat, Tables(e, m, n),
         NEW p, Fits(p), DOMAIN p = ToSet(SymFields), p = [f \in DOMAIN p |-> p[f]]
  PROVE  LET t == GenericAddSymbol(e, Sym, p)
         IN  /\ Tables(t, m + 1, n) /\ t.hdr = e.hdr
             /\ Sec(t, Str) = Sec(e, Str) /\ SameEntries(t, e)
             /\ SymbolPtr(t, Sym, m) = p
             /\ \A i \in 0 .. (m - 1) : SymbolPtr(t, Sym, i) = SymbolPtr(e, Sym, i)
<1>. DEFINE cells == Pack(SymFields, p, e.hdr.data)
            sec == AppendData(Sec(e, Sym), cells)
            t == GenericAddSymbol(e, Sym, p)
<1>1. t = Replace(e, Sym, sec)
  BY DEF GenericAddSymbol, Replace, Sec
<1>2. /\ cells \in Seq(Nat) /\ Len(cells) = SymSize
      /\ SymbolIn(cells, e.hdr.data) = p
  BY SymbolBack
<1>3. Table(Sec(e, Sym), SymSize, m) /\ SymSize \in Widths
  BY DEF Tables, Widths
<1>. HIDE DEF cells
<1>4. /\ Table(sec, SymSize, m + 1) /\ SameHead(sec, Sec(e, Sym))
      /\ \A i \in 0 .. (m - 1) : Cut(sec.data, i, SymSize) = Cut(Sec(e, Sym).data, i, SymSize)
      /\ Cut(sec.data, m, SymSize) = cells
  BY <1>2, <1>3, TableAppend
<1>. HIDE DEF sec, t
<1>5. /\ Tables(t, m + 1, n) /\ t.hdr = e.hdr /\ Sec(t, Sym) = sec
      /\ Sec(t, Str) = Sec(e, Str) /\ Sec(t, Rel) = Sec(e, Rel)
  <2>1. m + 1 \in Nat /\ m + 1 >= m
    OBVIOUS
  <2>2. m \in Nat /\ n \in Nat /\ Tables(e, m, n)
    OBVIOUS
  <2>3. sec.link = Sec(e, Sym).link
    BY <1>4 DEF SameHead
  <2>. QED
    BY ONLY <1>1, <1>4, <2>1, <2>2, <2>3, SymbolsReplaced
<1>6. \A i : SymbolPtr(t, Sym, i) = SymbolIn(Cut(sec.data, i, SymSize), e.hdr.data)
  <2>1. m + 1 \in Nat
    OBVIOUS
  <2>. QED
    BY <1>5, <2>1, TablesRead
<1>7. \A i : SymbolPtr(e, Sym, i) = SymbolIn(Cut(Sec(e, Sym).data, i, SymSize), e.hdr.data)
  BY TablesRead
<1>8. SameEntries(t, e)
  BY <1>5, SameRows DEF SameEntries
<1>. QED
  BY ONLY <1>2, <1>4, <1>5, <1>6, <1>7, <1>8 DEF t

(* A relocation is added behind the others.                                *)
LEMMA EntryAppended ==
  ASSUME NEW e, NEW m \in Nat, NEW n \in Nat, Tables(e, m, n),
         NEW entry \in Relocations(Sec(e, Rel).type)
  PROVE  LET t == AddEntry(e, Rel, entry)
         IN  /\ Tables(t, m, n + 1) /\ t.hdr = e.hdr
             /\ Sec(t, Str) = Sec(e, Str) /\ SameSymbols(t, e)
             /\ Sec(t, Rel).type = Sec(e, Rel).type
             /\ GetEntry(t, Rel, n) = entry
             /\ \A i \in 0 .. (n - 1) : GetEntry(t, Rel, i) = GetEntry(e, Rel, i)
<1>. DEFINE type == Sec(e, Rel).type
            cells == EntryCells(type, entry, e.hdr.data)
            sec == AppendData(Sec(e, Rel), cells)
            t == AddEntry(e, Rel, entry)
            w == EntryWidth(type)
<1>1. t = Replace(e, Rel, sec)
  BY DEF AddEntry, PackEntry, EntryCells, Replace, Sec
<1>2. /\ cells \in Seq(Nat) /\ Len(cells) = w
      /\ EntryIn(type, cells, e.hdr.data) = entry
  BY EntryBack
<1>3. Table(Sec(e, Rel), w, n) /\ w \in Widths
  BY DEF Tables, Widths, EntryWidth
<1>. HIDE DEF cells
<1>4. /\ Table(sec, w, n + 1) /\ SameHead(sec, Sec(e, Rel))
      /\ \A i \in 0 .. (n - 1) : Cut(sec.data, i, w) = Cut(Sec(e, Rel).data, i, w)
      /\ Cut(sec.data, n, w) = cells
  <2>. HIDE DEF w
  <2>. QED
    BY <1>2, <1>3, TableAppend
<1>. HIDE DEF sec, t
<1>10. sec.type = type
  BY <1>4 DEF SameHead
<1>5. /\ Tables(t, m, n + 1) /\ t.hdr = e.hdr /\ Sec(t, Rel) = sec
      /\ Sec(t, Str) = Sec(e, Str) /\ Sec(t, Sym) = Sec(e, Sym)
  <2>1. n + 1 \in Nat
    OBVIOUS
  <2>2. m \in Nat /\ n \in Nat /\ Tables(e, m, n)
    OBVIOUS
  <2>3. Table(sec, EntryWidth(sec.type), n + 1) /\ SameHead(sec, Sec(e, Rel))
    BY <1>4, <1>10
  <2>. QED
    BY ONLY <1>1, <2>1, <2>2, <2>3, EntriesReplaced
<1>6. \A i : GetEntry(t, Rel, i) = EntryIn(type, Cut(sec.data, i, w), e.hdr.data)
  <2>1. n + 1 \in Nat
    OBVIOUS
  <2>. QED
    BY <1>5, <1>10, <2>1, TablesRead
<1>7. \A i : GetEntry(e, Rel, i) = EntryIn(type, Cut(Sec(e, Rel).data, i, w), e.hdr.data)
  BY TablesRead
<1>8. SameSymbols(t, e)
  BY <1>5, SameRows DEF SameSymbols
<1>. HIDE DEF type, w
<1>. QED
  BY ONLY <1>2, <1>4, <1>5, <1>6, <1>7, <1>8, <1>10 DEF t, type

(* A relocation is replaced.                                               *)
LEMMA EntryReplaced ==
  ASSUME NEW e, NEW m \in Nat, NEW n \in Nat, Tables(e, m, n), NEW j \in 0 .. (n - 1),
         NEW entry \in Relocations(Sec(e, Rel).type)
  PROVE  LET t == SetEntry(e, Rel, j, entry)
         IN  /\ Tables(t, m, n) /\ t.hdr = e.hdr
             /\ Sec(t, Str) = Sec(e, Str) /\ SameSymbols(t, e)
             /\ Sec(t, Rel).type = Sec(e, Rel).type
             /\ GetEntry(t, Rel, j) = entry
             /\ \A i \in 0 .. (n - 1) : i # j => GetEntry(t, Rel, i) = GetEntry(e, Rel, i)
<1>. DEFINE type == Sec(e, Rel).type
            w == EntryWidth(type)
            cells == EntryCells(type, entry, e.hdr.data)
            sec == PutCells(Sec(e, Rel), j * w, cells)
            t == SetEntry(e, Rel, j, entry)
<1>1. t = Replace(e, Rel, sec)
  <2>3. GetEntriesNum(Sec(e, Rel)) = n
    BY TablesRead
  <2>1. ~(j >= GetEntriesNum(Sec(e, Rel)))
    BY ONLY <2>3, n \in Nat, j \in 0 .. (n - 1)
  <2>2. Sec(e, Rel).entsize = w
    BY DEF Tables, Table
  <2>. QED
    BY <2>1, <2>2 DEF SetEntry, PackEntry, EntryCells, Replace, Sec
<1>2. /\ cells \in Seq(Nat) /\ Len(cells) = w
      /\ EntryIn(type, cells, e.hdr.data) = entry
  BY EntryBack
<1>3. Table(Sec(e, Rel), w, n) /\ w \in Widths
  BY DEF Tables, Widths, EntryWidth
<1>. HIDE DEF cells
<1>4. /\ Table(sec, w, n) /\ SameHead(sec, Sec(e, Rel))
      /\ Cut(sec.data, j, w) = cells
      /\ \A i \in 0 .. (n - 1) : i # j => Cut(sec.data, i, w) = Cut(Sec(e, Rel).data, i, w)
  <2>. HIDE DEF w
  <2>. QED
    BY <1>2, <1>3, TablePut
<1>. HIDE DEF sec, t
<1>10. sec.type = type
  BY <1>4 DEF SameHead
<1>5. /\ Tables(t, m, n) /\ t.hdr = e.hdr /\ Sec(t, Rel) = sec
      /\ Sec(t, Str) = Sec(e, Str) /\ Sec(t, Sym) = Sec(e, Sym)
  <2>2. m \in Nat /\ n \in Nat /\ Tables(e, m, n)
    OBVIOUS
  <2>3. Table(sec, EntryWidth(sec.type), n) /\ SameHead(sec, Sec(e, Rel))
    BY <1>4, <1>10
  <2>. QED
    BY ONLY <1>1, <2>2, <2>3, EntriesReplaced
<1>6. \A i : GetEntry(t, Rel, i) = EntryIn(type, Cut(sec.data, i, w), e.hdr.data)
  BY <1>5, <1>10, TablesRead
<1>7. \A i : GetEntry(e, Rel, i) = EntryIn(type, Cut(Sec(e, Rel).data, i, w), e.hdr.data)
  BY TablesRead
<1>8. SameSymbols(t, e)
  BY <1>5, SameRows DEF SameSymbols
<1>. HIDE DEF type, w
<1>. QED
  BY ONLY <1>2, <1>4, <1>5, <1>6, <1>7, <1>8, <1>10 DEF t, type

-------------------------------------------------------------------------------
(***************************************************************************)
(* Two symbols change places.                                              *)
(***************************************************************************)
Other(x, first, second) ==
  IF x = first THEN second ELSE IF x = second THEN first ELSE x

Moved(entry, first, second) == [entry EXCEPT !.symbol = Other(@, first, second)]

(* Rows i and j change places, the others stay (elfio_symbols.hpp:318-337). *)
LEMMA SymbolsExchanged ==
  ASSUME NEW e, NEW m \in Nat, NEW n \in Nat, Tables(e, m, n),
         NEW i \in 0 .. (m - 1), NEW j \in 0 .. (m - 1), i # j
  PROVE  LET t == ExchangeSymbols(e, Sym, i, j)
         IN  /\ Tables(t, m, n) /\ t.hdr = e.hdr
             /\ Sec(t, Str) = Sec(e, Str) /\ SameEntries(t, e)
             /\ \A k \in 0 .. (m - 1) :
                  SymbolPtr(t, Sym, k) = SymbolPtr(e, Sym, Other(k, i, j))
<1>. DEFINE sec == Sec(e, Sym)
            w == SymSize
            p == Cut(sec.data, i, w)
            q == Cut(sec.data, j, w)
            one == PutCells(sec, i * w, q)
            two == PutCells(one, j * w, p)
            t == ExchangeSymbols(e, Sym, i, j)
<1>1. Table(sec, w, m) /\ w \in Widths /\ sec.entsize = w
  BY DEF Tables, Table, Widths
<1>2. t = Replace(e, Sym, two)
  BY <1>1 DEF ExchangeSymbols, Replace, Sec, CellsAt, Cut, Piece
<1>3. p \in Seq(Nat) /\ Len(p) = w /\ q \in Seq(Nat) /\ Len(q) = w
  <2>. HIDE DEF w, sec
  <2>. QED
    BY <1>1, CutType
<1>. HIDE DEF p, q
<1>4. /\ Table(one, w, m) /\ SameHead(one, sec) /\ Cut(one.data, i, w) = q
      /\ \A k \in 0 .. (m - 1) : k # i => Cut(one.data, k, w) = Cut(sec.data, k, w)
  <2>. HIDE DEF w, sec
  <2>. QED
    BY <1>1, <1>3, TablePut
<1>. HIDE DEF one
<1>5. /\ Table(two, w, m) /\ SameHead(two, one) /\ Cut(two.data, j, w) = p
      /\ \A k \in 0 .. (m - 1) : k # j => Cut(two.data, k, w) = Cut(one.data, k, w)
  <2>. HIDE DEF w
  <2>. QED
    BY <1>1, <1>3, <1>4, TablePut, SMTT(30)
<1>6. SameHead(two, sec)
  BY <1>4, <1>5 DEF SameHead
<1>. HIDE DEF two, t
<1>7. ASSUME NEW k \in 0 .. (m - 1)
      PROVE  Cut(two.data, k, w) = Cut(sec.data, Other(k, i, j), w)
  <2>1. CASE k = j
    BY <1>5, <2>1 DEF Other, p
  <2>2. CASE k = i
    BY <1>4, <1>5, <2>2 DEF Other, q
  <2>3. CASE k # i /\ k # j
    BY <1>4, <1>5, <2>3 DEF Other
  <2>. QED
    BY <2>1, <2>2, <2>3
<1>8. /\ Tables(t, m, n) /\ t.hdr = e.hdr /\ Sec(t, Sym) = two
      /\ Sec(t, Str) = Sec(e, Str) /\ Sec(t, Rel) = Sec(e, Rel)
  <2>1. m \in Nat /\ n \in Nat /\ Tables(e, m, n) /\ m >= m
    OBVIOUS
  <2>2. Table(two, SymSize, m) /\ two.link = Sec(e, Sym).link
    BY <1>5, <1>6 DEF SameHead
  <2>. QED
    BY ONLY <1>2, <2>1, <2>2, SymbolsReplaced
<1>9. \A k : SymbolPtr(t, Sym, k) = SymbolIn(Cut(two.data, k, w), e.hdr.data)
  BY <1>8, TablesRead
<1>10. \A k : SymbolPtr(e, Sym, k) = SymbolIn(Cut(sec.data, k, w), e.hdr.data)
  BY TablesRead
<1>11. SameEntries(t, e)
  BY <1>8, SameRows DEF SameEntries
<1>. HIDE DEF sec, w
<1>. QED
  BY ONLY <1>7, <1>8, <1>9, <1>10, <1>11 DEF t

(* All n relocations are such as can be written.                           *)
Writable(e, n) ==
  \A i \in 0 .. (n - 1) : GetEntry(e, Rel, i) \in Relocations(Sec(e, Rel).type)

(* t is e with the relocations of two symbols exchanged.                   *)
EntriesMoved(t, e, m, n, first, second) ==
  /\ Tables(t, m, n) /\ t.hdr = e.hdr
  /\ Sec(t, Str) = Sec(e, Str) /\ SameSymbols(t, e)
  /\ Sec(t, Rel).type = Sec(e, Rel).type
  /\ \A i \in 0 .. (n - 1) :
       GetEntry(t, Rel, i) = Moved(GetEntry(e, Rel, i), first, second)

(* The relocations of both symbols change their symbol, the others stay    *)
(* (elfio_relocation.hpp).                                                 *)
LEMMA EntriesSwapped ==
  ASSUME NEW e, NEW m \in Nat, NEW n \in Nat, Tables(e, m, n),
         NEW first \in Digit, NEW second \in Digit, Writable(e, n)
  PROVE  EntriesMoved(SwapSymbols(e, Rel, first, second), e, m, n, first, second)
<1>. DEFINE type == Sec(e, Rel).type
            All == Relocations(type)
<1>1. GetEntriesNum(Sec(e, Rel)) = n
  BY TablesRead
<1>2. PICK f : /\ f[0] = e
               /\ \A k \in 1 .. n : f[k] = Swapped(f[k - 1], Rel, first, second, k)
               /\ SwapSymbols(e, Rel, first, second) = f[n]
  <2>1. GetEntriesNum(Sec(e, Rel)) \in Nat
    BY <1>1
  <2>2. \E f : /\ f[0] = e
               /\ \A k \in 1 .. GetEntriesNum(Sec(e, Rel)) :
                    f[k] = Swapped(f[k - 1], Rel, first, second, k)
               /\ SwapSymbols(e, Rel, first, second) = f[GetEntriesNum(Sec(e, Rel))]
    BY ONLY <2>1, SwapUnfolds
  <2>. QED
    BY ONLY <1>1, <2>2, Zenon
<1>. DEFINE Same(t) == /\ Tables(t, m, n) /\ t.hdr = e.hdr
                       /\ Sec(t, Str) = Sec(e, Str) /\ SameSymbols(t, e)
                       /\ Sec(t, Rel).type = type
            After(t, k) == \A i \in 0 .. (n - 1) :
              GetEntry(t, Rel, i) = IF i < k THEN Moved(GetEntry(e, Rel, i), first, second)
                                    ELSE GetEntry(e, Rel, i)
            T == {k \in Nat : k <= n => Same(f[k]) /\ After(f[k], k)}
<1>3. 0 \in T
  <2>1. Same(e)
    BY DEF SameSymbols
  <2>2. After(e, 0)
    OBVIOUS
  <2>. QED
    BY <1>2, <2>1, <2>2
<1>4. ASSUME NEW entry \in All
      PROVE  Moved(entry, first, second) \in All
  BY DEF Moved, Other, Relocations
<1>5. ASSUME NEW k \in Nat, k \in T, k < n PROVE Same(f[k + 1]) /\ After(f[k + 1], k + 1)
  <2>. DEFINE u == f[k]
              t == f[k + 1]
              entry == GetEntry(e, Rel, k)
              moved == Moved(entry, first, second)
  <2>1. Same(u) /\ After(u, k)
    BY <1>5
  <2>2. k + 1 \in 1 .. n /\ (k + 1) - 1 = k /\ k \in 0 .. (n - 1) /\ ~(k < k)
    BY <1>5
  <2>3. t = Swapped(u, Rel, first, second, k + 1)
    BY <1>2, <2>2
  <2>4. GetEntry(u, Rel, k) = entry
    BY <2>1, <2>2
  <2>5. entry \in All /\ moved \in All
    BY <1>4, <2>2 DEF Writable
  <2>6. \/ t = SetEntry(u, Rel, k, moved)
        \/ t = u /\ moved = entry
    <3>1. CASE entry.symbol = first
      BY <2>2, <2>3, <2>4, <3>1 DEF Swapped, Moved, Other
    <3>2. CASE entry.symbol # first /\ entry.symbol = second
      BY <2>2, <2>3, <2>4, <3>2 DEF Swapped, Moved, Other
    <3>3. CASE entry.symbol # first /\ entry.symbol # second
      <4>1. t = u
        BY <2>2, <2>3, <2>4, <3>3 DEF Swapped
      <4>2. moved = entry
        BY <2>5, <3>3 DEF Moved, Other, Relocations
      <4>. QED
        BY <4>1, <4>2
    <3>. QED
      BY <3>1, <3>2, <3>3
  <2>. HIDE DEF u, t, entry, moved, All
  <2>7. /\ Same(t) /\ GetEntry(t, Rel, k) = moved
        /\ \A i \in 0 .. (n - 1) : i # k => GetEntry(t, Rel, i) = GetEntry(u, Rel, i)
    <3>1. CASE t = u /\ moved = entry
      BY <2>1, <2>4, <3>1
    <3>2. CASE t = SetEntry(u, Rel, k, moved)
      <4>1. /\ Tables(u, m, n) /\ moved \in Relocations(Sec(u, Rel).type)
            /\ m \in Nat /\ n \in Nat
        BY <2>1, <2>5 DEF All
      <4>2. /\ Tables(t, m, n) /\ t.hdr = u.hdr
            /\ Sec(t, Str) = Sec(u, Str) /\ SameSymbols(t, u)
            /\ Sec(t, Rel).type = Sec(u, Rel).type
            /\ GetEntry(t, Rel, k) = moved
            /\ \A i \in 0 .. (n - 1) : i # k => GetEntry(t, Rel, i) = GetEntry(u, Rel, i)
        BY ONLY <2>2, <3>2, <4>1, EntryReplaced
      <4>3. SameSymbols(t, e)
        BY <2>1, <4>2 DEF SameSymbols
      <4>. QED
        BY <2>1, <4>2, <4>3
    <3>. QED
      BY <2>6, <3>1, <3>2
  <2>8. After(t, k + 1)
    <3>1. SUFFICES ASSUME NEW i \in 0 .. (n - 1)
                   PROVE  GetEntry(t, Rel, i) =
                            IF i < k + 1 THEN Moved(GetEntry(e, Rel, i), first, second)
                            ELSE GetEntry(e, Rel, i)
      OBVIOUS
    <3>2. CASE i = k
      BY <2>2, <2>7, <3>2 DEF moved, entry
    <3>3. CASE i # k
      <4>1. GetEntry(t, Rel, i) = GetEntry(u, Rel, i)
        BY <2>7, <3>3
      <4>2. i < k + 1 <=> i < k
        BY <3>3
      <4>. QED
        BY <2>1, <4>1, <4>2
    <3>. QED
      BY <3>2, <3>3
  <2>. QED
    BY <2>7, <2>8 DEF t
<1>6. \A k \in Nat : k \in T => k + 1 \in T
  <2>1. SUFFICES ASSUME NEW k \in Nat, k \in T, k + 1 <= n
                 PROVE  Same(f[k + 1]) /\ After(f[k + 1], k + 1)
    OBVIOUS
  <2>2. k < n
    BY <2>1
  <2>. QED
    BY <1>5, <2>1, <2>2
<1>7. Nat \subseteq T
  <2>. HIDE DEF T
  <2>. QED
    BY <1>3, <1>6, SetInduction
<1>8. Same(f[n]) /\ After(f[n], n)
  <2>1. n \in T /\ n <= n
    BY <1>7
  <2>. QED
    BY <2>1
<1>. QED
  BY <1>2, <1>8 DEF EntriesMoved

-------------------------------------------------------------------------------
(***************************************************************************)
(* What the tables stand for: the symbols ss in any order, and for each of *)
(* rr a relocation that refers to the symbol it was made for.              *)
(***************************************************************************)
Rows(ss) == IF ss = << >> THEN 0 ELSE Len(ss) + 1

Represents(e, ss) ==
  /\ ss # << >> => SymbolPtr(e, Sym, 0) = NullSymbol
  /\ \A i \in 1 .. Len(ss) :
       /\ SymbolPtr(e, Sym, i).st_value \in 1 .. Len(ss)
       /\ Named(Sec(e, Str), SymbolPtr(e, Sym, i).st_name,
                ss[SymbolPtr(e, Sym, i).st_value].name)
       /\ Bind(SymbolPtr(e, Sym, i).st_info) = ss[SymbolPtr(e, Sym, i).st_value].bind
  /\ \A n \in 1 .. Len(ss) : \E i \in 1 .. Len(ss) : SymbolPtr(e, Sym, i).st_value = n

RefersTo(e, ss, entry, ref) ==
  /\ entry \in Relocations(Sec(e, Rel).type)
  /\ entry.symbol \in 1 .. Len(ss) /\ SymbolPtr(e, Sym, entry.symbol).st_value = ref.sym
  /\ entry.offset = ref.offset /\ entry.type = ref.type /\ entry.addend = ref.addend

Refers(e, ss, rr) == \A i \in 1 .. Len(rr) : RefersTo(e, ss, GetEntry(e, Rel, i - 1), rr[i])

Holds(e, ss, rr) ==
  /\ Tables(e, Rows(ss), Len(rr)) /\ Represents(e, ss) /\ Refers(e, ss, rr)

(* Exchanging two symbols and renumbering the relocations keeps all that.  *)
LEMMA PairExchanged ==
  ASSUME NEW e, NEW X, NEW ss \in Seq(X), NEW Y, NEW rr \in Seq(Y), Holds(e, ss, rr),
         Len(ss) \in Digit, NEW i \in 1 .. Len(ss), NEW j \in 1 .. Len(ss), i # j
  PROVE  LET t == ExchangeSymbols(SwapSymbols(e, Rel, i, j), Sym, i, j)
         IN  /\ Holds(t, ss, rr) /\ t.hdr = e.hdr /\ Sec(t, Str) = Sec(e, Str)
             /\ \A k \in 0 .. Len(ss) :
                  SymbolPtr(t, Sym, k) = SymbolPtr(e, Sym, Other(k, i, j))
<1>. DEFINE m == Rows(ss)
            n == Len(rr)
            s == SwapSymbols(e, Rel, i, j)
            t == ExchangeSymbols(s, Sym, i, j)
            type == Sec(e, Rel).type
<1>1. /\ Len(ss) \in Nat /\ m = Len(ss) + 1 /\ m \in Nat /\ n \in Nat
      /\ i \in 0 .. (m - 1) /\ j \in 0 .. (m - 1) /\ i \in Digit /\ j \in Digit
  <2>1. ss # << >> /\ Len(ss) \in Nat
    OBVIOUS
  <2>. QED
    BY <2>1, RadixAssumption DEF Rows, Digit
<1>2. /\ Tables(e, m, n) /\ Represents(e, ss) /\ Refers(e, ss, rr)
  BY DEF Holds
<1>. HIDE DEF m, n
<1>3. ASSUME NEW k \in 0 .. (n - 1)
      PROVE  /\ k + 1 \in 1 .. Len(rr)
             /\ RefersTo(e, ss, GetEntry(e, Rel, k), rr[k + 1])
  <2>1. k + 1 \in 1 .. Len(rr) /\ (k + 1) - 1 = k
    BY ONLY <1>1, k \in 0 .. (n - 1) DEF n
  <2>. QED
    BY <1>2, <2>1 DEF Refers
<1>4. Writable(e, n)
  BY <1>3 DEF RefersTo, Writable
<1>5. /\ Tables(s, m, n) /\ s.hdr = e.hdr /\ Sec(s, Str) = Sec(e, Str) /\ SameSymbols(s, e)
      /\ Sec(s, Rel).type = type
      /\ \A k \in 0 .. (n - 1) : GetEntry(s, Rel, k) = Moved(GetEntry(e, Rel, k), i, j)
  <2>1. m \in Nat /\ n \in Nat /\ i \in Digit /\ j \in Digit /\ Tables(e, m, n)
    BY <1>1, <1>2
  <2>2. EntriesMoved(s, e, m, n, i, j)
    BY ONLY <1>4, <2>1, EntriesSwapped
  <2>. QED
    BY ONLY <2>2 DEF EntriesMoved
<1>. HIDE DEF s
<1>6. /\ Tables(t, m, n) /\ t.hdr = s.hdr /\ Sec(t, Str) = Sec(s, Str) /\ SameEntries(t, s)
      /\ \A k \in 0 .. (m - 1) : SymbolPtr(t, Sym, k) = SymbolPtr(s, Sym, Other(k, i, j))
  <2>1. i # j
    OBVIOUS
  <2>. QED
    BY ONLY <1>1, <1>5, <2>1, SymbolsExchanged
<1>. HIDE DEF t
<1>7. \A k \in 0 .. Len(ss) : SymbolPtr(t, Sym, k) = SymbolPtr(e, Sym, Other(k, i, j))
  BY <1>1, <1>5, <1>6 DEF SameSymbols
<1>8. \A k \in 1 .. Len(ss) : /\ Other(k, i, j) \in 1 .. Len(ss)
                              /\ Other(Other(k, i, j), i, j) = k
  BY DEF Other
<1>9. Represents(t, ss)
  <2>1. SymbolPtr(t, Sym, 0) = SymbolPtr(e, Sym, 0)
    <3>1. Other(0, i, j) = 0 /\ 0 \in 0 .. Len(ss)
      BY <1>1 DEF Other
    <3>. QED
      BY <1>7, <3>1
  <2>2. ASSUME NEW k \in 1 .. Len(ss)
        PROVE  /\ SymbolPtr(t, Sym, k).st_value \in 1 .. Len(ss)
               /\ Named(Sec(t, Str), SymbolPtr(t, Sym, k).st_name,
                        ss[SymbolPtr(t, Sym, k).st_value].name)
               /\ Bind(SymbolPtr(t, Sym, k).st_info) = ss[SymbolPtr(t, Sym, k).st_value].bind
    <3>1. SymbolPtr(t, Sym, k) = SymbolPtr(e, Sym, Other(k, i, j))
      BY <1>7
    <3>2. Sec(t, Str) = Sec(e, Str)
      BY <1>5, <1>6
    <3>. QED
      BY ONLY <1>2, <1>8, <3>1, <3>2, k \in 1 .. Len(ss) DEF Represents
  <2>3. ASSUME NEW v \in 1 .. Len(ss)
        PROVE  \E k \in 1 .. Len(ss) : SymbolPtr(t, Sym, k).st_value = v
    <3>1. PICK k \in 1 .. Len(ss) : SymbolPtr(e, Sym, k).st_value = v
      BY <1>2 DEF Represents
    <3>2. Other(k, i, j) \in 1 .. Len(ss) /\ Other(Other(k, i, j), i, j) = k
      BY <1>8
    <3>3. SymbolPtr(t, Sym, Other(k, i, j)) = SymbolPtr(e, Sym, k)
      BY <1>7, <3>2
    <3>. QED
      BY ONLY <3>1, <3>2, <3>3, Zenon
  <2>4. ss # << >> => SymbolPtr(t, Sym, 0) = NullSymbol
    BY <1>2, <2>1 DEF Represents
  <2>. QED
    BY ONLY <2>2, <2>3, <2>4, Zenon DEF Represents
<1>10. Refers(t, ss, rr)
  <2>1. SUFFICES ASSUME NEW k \in 1 .. Len(rr)
                 PROVE  RefersTo(t, ss, GetEntry(t, Rel, k - 1), rr[k])
    BY DEF Refers
  <2>. DEFINE entry == GetEntry(e, Rel, k - 1)
              moved == Moved(entry, i, j)
  <2>2. k - 1 \in 0 .. (n - 1) /\ (k - 1) + 1 = k
    BY <1>1 DEF n
  <2>3. RefersTo(e, ss, entry, rr[k])
    BY <1>3, <2>2
  <2>4. GetEntry(t, Rel, k - 1) = moved
    BY <1>5, <1>6, <2>2 DEF SameEntries
  <2>5. Sec(t, Rel).type = type
    BY <1>5, <1>6 DEF SameEntries
  <2>6. entry \in Relocations(type) /\ entry.symbol \in 1 .. Len(ss)
    BY <2>3 DEF RefersTo
  <2>. HIDE DEF entry
  <2>7. /\ moved \in Relocations(type) /\ moved.symbol = Other(entry.symbol, i, j)
        /\ moved.offset = entry.offset /\ moved.type = entry.type
        /\ moved.addend = entry.addend
    <3>. HIDE DEF type
    <3>. QED
      BY ONLY <1>1, <2>6 DEF Moved, Relocations, Other
  <2>8. SymbolPtr(t, Sym, moved.symbol) = SymbolPtr(e, Sym, entry.symbol)
    <3>1. /\ Other(entry.symbol, i, j) \in 0 .. Len(ss)
          /\ Other(Other(entry.symbol, i, j), i, j) = entry.symbol
      BY <1>8, <2>6
    <3>. QED
      BY <1>7, <2>7, <3>1
  <2>9. moved.symbol \in 1 .. Len(ss)
    BY <1>8, <2>6, <2>7
  <2>. HIDE DEF moved
  <2>. QED
    BY ONLY <2>3, <2>4, <2>5, <2>7, <2>8, <2>9 DEF RefersTo
<1>11. Holds(t, ss, rr)
  BY ONLY <1>6, <1>9, <1>10 DEF Holds, m, n
<1>. QED
  BY ONLY <1>5, <1>6, <1>7, <1>11 DEF s, t

-------------------------------------------------------------------------------
(***************************************************************************)
(* arrange_local_symbols.                                                  *)
(***************************************************************************)
(* One round: the first symbol that is not local and the next that is.     *)
Round(e, s, r, count) ==
  LET first   == FirstNotLocal(e, s)
      current == NextLocal(e, s)
  IN  IF first < count /\ current < count
      THEN ExchangeSymbols(SwapSymbols(e, r, first, current), s, first, current)
      ELSE e

(* t is what the rounds make of e.                                         *)
RoundsTo(e, s, r, count, t) ==
  \E f : /\ f[0] = e
         /\ \A n \in 1 .. count : f[n] = Round(f[n - 1], s, r, count)
         /\ t = [f[count] EXCEPT !.secs[s + 1].info = FirstNotLocal(f[count], s)]

(* Arranging is one round after the other.                                 *)
LEMMA ArrangeUnfolds ==
  ASSUME NEW e, NEW s, NEW r, GetSymbolsNum(Sec(e, s)) \in Nat
  PROVE  RoundsTo(e, s, r, GetSymbolsNum(Sec(e, s)), ArrangeLocalSymbols(e, s, r))
<1>. DEFINE count == GetSymbolsNum(Sec(e, s))
            seq == [n \in 1 .. count |-> n]
            Runs(f, m) == f = [i \in 0 .. m |-> IF i = 0 THEN e
                                ELSE Round(f[i - 1], s, r, count)]
            T == {m \in Nat : \E f : Runs(f, m)}
            F == CHOOSE f : Runs(f, Len(seq))
            last == F[Len(seq)]
<1>1. 0 \in T
  <2>1. Runs([i \in 0 .. 0 |-> e], 0)
    OBVIOUS
  <2>. QED
    BY <2>1
<1>2. ASSUME NEW m \in Nat, m \in T PROVE m + 1 \in T
  <2>1. PICK f : Runs(f, m)
    BY <1>2
  <2>. DEFINE g == [i \in 0 .. (m + 1) |->
                      IF i = m + 1 THEN Round(f[m], s, r, count) ELSE f[i]]
  <2>2. Runs(g, m + 1)
    <3>. SUFFICES ASSUME NEW i \in 0 .. (m + 1)
                  PROVE  g[i] = IF i = 0 THEN e ELSE Round(g[i - 1], s, r, count)
      BY Zenon
    <3>. HIDE DEF count
    <3>. QED
      BY <2>1
  <2>. HIDE DEF Runs, g
  <2>. QED
    BY <2>2
<1>3. Nat \subseteq T
  <2>. HIDE DEF T
  <2>. QED
    BY <1>1, <1>2, SetInduction
<1>4. ArrangeLocalSymbols(e, s, r) =
        [last EXCEPT !.secs[s + 1].info = FirstNotLocal(last, s)]
  BY DEF ArrangeLocalSymbols, Round, Loop
<1>5. Len(seq) = count
  OBVIOUS
<1>6. Runs(F, count)
  <2>1. \E f : Runs(f, count)
    BY <1>3
  <2>. HIDE DEF Runs, count, seq
  <2>. QED
    BY <1>5, <2>1
<1>7. /\ F[0] = e
      /\ \A n \in 1 .. count : F[n] = Round(F[n - 1], s, r, count)
  <2>. HIDE DEF F, seq, count
  <2>. QED
    BY <1>6 DEF count
<1>8. last = F[count]
  BY <1>5
<1>. HIDE DEF F, last
<1>. QED
  BY <1>4, <1>7, <1>8 DEF RoundsTo

(* What first_not_local and the search for the next local symbol find.     *)
FirstIs(e, m, first) ==
  /\ first \in 1 .. m
  /\ \A i \in 1 .. (m - 1) : i < first => IsLocal(e, Sym, i)
  /\ first < m => ~IsLocal(e, Sym, first)

NextIs(e, m, first, next) ==
  /\ next \in (first + 1) .. m
  /\ next < m => IsLocal(e, Sym, next)
  /\ next = m => \A i \in 1 .. (m - 1) : i > first => ~IsLocal(e, Sym, i)

(* The first symbol that is not local.                                     *)
LEMMA FirstFound ==
  ASSUME NEW e, NEW m \in Nat, m > 1, GetSymbolsNum(Sec(e, Sym)) = m
  PROVE  FirstIs(e, m, FirstNotLocal(e, Sym))
<1>. DEFINE found == {i \in 1 .. (m - 1) : ~IsLocal(e, Sym, i)}
            least == CHOOSE i \in found : \A j \in found : i <= j
<1>1. FirstNotLocal(e, Sym) = IF found = {} THEN m ELSE least
  BY DEF FirstNotLocal
<1>2. CASE found = {}
  BY <1>1, <1>2 DEF FirstIs
<1>3. CASE found # {}
  <2>1. \E i \in found : \A j \in found : i <= j
    <3>1. found \in SUBSET Nat
      OBVIOUS
    <3>. HIDE DEF found
    <3>. QED
      BY <1>3, <3>1, Smallest
  <2>2. least \in found /\ \A j \in found : least <= j
    BY <2>1
  <2>3. FirstNotLocal(e, Sym) = least
    BY <1>1, <1>3
  <2>. HIDE DEF least
  <2>. QED
    BY <2>2, <2>3 DEF FirstIs
<1>. QED
  BY <1>2, <1>3

(* The next local symbol.                                                  *)
LEMMA NextFound ==
  ASSUME NEW e, NEW m \in Nat, m > 1, GetSymbolsNum(Sec(e, Sym)) = m,
         FirstNotLocal(e, Sym) \in 1 .. (m - 1)
  PROVE  NextIs(e, m, FirstNotLocal(e, Sym), NextLocal(e, Sym))
<1>. DEFINE first == FirstNotLocal(e, Sym)
            found == {i \in (first + 1) .. (m - 1) : IsLocal(e, Sym, i)}
            least == CHOOSE i \in found : \A j \in found : i <= j
<1>1. NextLocal(e, Sym) = IF found = {} THEN m ELSE least
  BY DEF NextLocal
<1>. HIDE DEF first
<1>2. first \in 1 .. (m - 1)
  BY DEF first
<1>3. CASE found = {}
  <2>1. \A i \in 1 .. (m - 1) : i > first => ~IsLocal(e, Sym, i)
    BY <1>2, <1>3
  <2>. QED
    BY <1>1, <1>2, <1>3, <2>1 DEF NextIs, first
<1>4. CASE found # {}
  <2>1. \E i \in found : \A j \in found : i <= j
    <3>1. found \in SUBSET Nat
      BY <1>2
    <3>. QED
      BY <1>4, <3>1, Smallest
  <2>2. least \in found
    BY <2>1
  <2>3. NextLocal(e, Sym) = least
    BY <1>1, <1>4
  <2>. HIDE DEF least
  <2>. QED
    BY <1>2, <2>2, <2>3 DEF NextIs, first
<1>. QED
  BY <1>3, <1>4

(* The local symbols are those before the first that is not local.         *)
Arranged(e, count) ==
  \A i \in 1 .. count : IsLocal(e, Sym, i) <=> i < FirstNotLocal(e, Sym)

(* t holds the same symbols and relocations as e, among the same names.    *)
Keeps(t, e, ss, rr) ==
  Holds(t, ss, rr) /\ t.hdr = e.hdr /\ Sec(t, Str) = Sec(e, Str)

(* A round arranges one symbol more, unless all are arranged.              *)
LEMMA RoundArranges ==
  ASSUME NEW e, NEW X, NEW ss \in Seq(X), NEW Y, NEW rr \in Seq(Y), Holds(e, ss, rr),
         Len(ss) \in Digit, ss # << >>, NEW k \in Nat,
         FirstNotLocal(e, Sym) > k \/ Arranged(e, Len(ss))
  PROVE  LET t == Round(e, Sym, Rel, Len(ss) + 1)
         IN  /\ Keeps(t, e, ss, rr)
             /\ FirstNotLocal(t, Sym) > k + 1 \/ Arranged(t, Len(ss))
<1>. DEFINE N == Len(ss)
            m == N + 1
            first == FirstNotLocal(e, Sym)
            next == NextLocal(e, Sym)
            t == Round(e, Sym, Rel, m)
<1>1. N \in Nat /\ N >= 1 /\ Rows(ss) = m /\ Len(rr) \in Nat
  BY DEF Rows
<1>2. Tables(e, m, Len(rr))
  BY <1>1 DEF Holds
<1>. HIDE DEF N
<1>3. GetSymbolsNum(Sec(e, Sym)) = m /\ m \in Nat /\ m > 1
  <2>1. m \in Nat /\ m > 1 /\ Len(rr) \in Nat
    BY <1>1
  <2>. QED
    BY ONLY <1>2, <2>1, TablesRead
<1>4. FirstIs(e, m, first)
  BY ONLY <1>3, FirstFound
<1>. HIDE DEF first, next
<1>5. CASE ~(first < m /\ next < m)
  <2>1. t = e
    BY <1>5 DEF Round, first, next
  <2>2. Arranged(e, N)
    <3>1. CASE first = m
      BY ONLY <1>1, <1>4, <3>1 DEF FirstIs, Arranged, first
    <3>2. CASE first < m
      <4>1. NextIs(e, m, first, next)
        <5>1. first \in 1 .. (m - 1)
          BY ONLY <1>3, <1>4, <3>2 DEF FirstIs
        <5>. QED
          BY ONLY <1>3, <5>1, NextFound DEF first, next
      <4>2. next = m
        BY ONLY <1>3, <1>4, <1>5, <3>2, <4>1 DEF NextIs, FirstIs
      <4>. QED
        BY ONLY <1>1, <1>4, <3>2, <4>1, <4>2 DEF FirstIs, NextIs, Arranged, first
    <3>. QED
      BY ONLY <1>3, <1>4, <3>1, <3>2 DEF FirstIs
  <2>. QED
    BY <2>1, <2>2 DEF Keeps, N
<1>6. CASE first < m /\ next < m
  <2>1. first \in 1 .. N /\ ~IsLocal(e, Sym, first)
    BY ONLY <1>1, <1>4, <1>6 DEF FirstIs
  <2>2. next \in (first + 1) .. N /\ IsLocal(e, Sym, next)
    <3>1. NextIs(e, m, first, next)
      <4>1. first \in 1 .. (m - 1)
        BY ONLY <1>3, <1>4, <1>6 DEF FirstIs
      <4>. QED
        BY ONLY <1>3, <4>1, NextFound DEF first, next
    <3>. QED
      BY ONLY <1>1, <1>6, <2>1, <3>1 DEF NextIs
  <2>3. next \in 1 .. N /\ first # next /\ first < next
    BY ONLY <1>1, <2>1, <2>2
  <2>4. t = ExchangeSymbols(SwapSymbols(e, Rel, first, next), Sym, first, next)
    BY <1>6 DEF Round, first, next
  <2>5. /\ Keeps(t, e, ss, rr)
        /\ \A i \in 0 .. N : SymbolPtr(t, Sym, i) = SymbolPtr(e, Sym, Other(i, first, next))
    <3>. HIDE DEF t
    <3>. QED
      BY <2>1, <2>3, <2>4, PairExchanged DEF Keeps, N
  <2>. HIDE DEF t
  <2>6. \A i \in 1 .. first : IsLocal(t, Sym, i)
    <3>1. SUFFICES ASSUME NEW i \in 1 .. first PROVE IsLocal(t, Sym, i)
      OBVIOUS
    <3>2. i \in 0 .. N /\ i # next
      BY ONLY <1>1, <2>1, <2>3, i \in 1 .. first
    <3>3. SymbolPtr(t, Sym, i) = SymbolPtr(e, Sym, Other(i, first, next))
      BY <2>5, <3>2
    <3>4. IsLocal(e, Sym, Other(i, first, next))
      <4>1. CASE i = first
        BY <2>2, <4>1 DEF Other
      <4>2. CASE i # first
        <5>1. i \in 1 .. (m - 1) /\ i < first
          BY ONLY <1>1, <2>1, <4>2, i \in 1 .. first
        <5>. QED
          BY <1>4, <3>2, <4>2, <5>1 DEF FirstIs, Other
      <4>. QED
        BY <4>1, <4>2
    <3>. QED
      BY ONLY <3>3, <3>4, Zenon DEF IsLocal
  <2>7. FirstIs(t, m, FirstNotLocal(t, Sym))
    <3>1. Tables(t, m, Len(rr))
      BY <1>1, <2>5 DEF Keeps, Holds
    <3>2. Len(rr) \in Nat
      BY <1>1
    <3>3. GetSymbolsNum(Sec(t, Sym)) = m
      BY ONLY <1>3, <3>1, <3>2, TablesRead
    <3>. QED
      BY ONLY <1>3, <3>3, FirstFound
  <2>8. FirstNotLocal(t, Sym) > first
    <3>. DEFINE g == FirstNotLocal(t, Sym)
    <3>1. g \in 1 .. m /\ (g < m => ~IsLocal(t, Sym, g))
      BY <2>7 DEF FirstIs
    <3>. HIDE DEF g
    <3>4. g \in Int /\ first \in Int
      BY ONLY <1>3, <2>1, <3>1
    <3>2. ASSUME g <= first PROVE FALSE
      <4>1. g \in 1 .. first /\ g < m
        BY ONLY <1>1, <2>1, <3>1, <3>2
      <4>. QED
        BY ONLY <2>6, <3>1, <4>1
    <3>3. g > first
      BY ONLY <3>2, <3>4
    <3>. QED
      BY <3>3 DEF g
  <2>9. first > k
    <3>1. Arranged(e, N) => FALSE
      BY ONLY <1>1, <2>2, <2>3, <2>1 DEF Arranged, first
    <3>. QED
      BY <3>1 DEF N, first
  <2>10. FirstNotLocal(t, Sym) > k + 1
    <3>1. FirstNotLocal(t, Sym) \in Nat
      BY <1>3, <2>7 DEF FirstIs
    <3>. QED
      BY ONLY <2>1, <2>8, <2>9, <3>1, k \in Nat, <1>1
  <2>. QED
    BY <2>5, <2>10 DEF t, N
<1>. QED
  BY <1>5, <1>6

(* Arranging keeps the symbols and the relocations, and sh_info separates  *)
(* the local symbols from the others (elfio_symbols.hpp:299-352).          *)
LEMMA ArrangeHolds ==
  ASSUME NEW e, NEW X, NEW ss \in Seq(X), NEW Y, NEW rr \in Seq(Y), Holds(e, ss, rr),
         Len(ss) \in Digit
  PROVE  LET t == ArrangeLocalSymbols(e, Sym, Rel)
         IN  /\ Keeps(t, e, ss, rr)
             /\ \A i \in 1 .. Len(ss) : IsLocal(t, Sym, i) <=> i < Sec(t, Sym).info
<1>. DEFINE N == Len(ss)
            m == Rows(ss)
            n == Len(rr)
            t == ArrangeLocalSymbols(e, Sym, Rel)
<1>1. /\ N \in Nat /\ m \in Nat /\ n \in Nat /\ Tables(e, m, n)
      /\ ss = << >> => N = 0 /\ m = 0
      /\ ss # << >> => m = N + 1 /\ m > 1
  BY DEF Rows, Holds
<1>2. GetSymbolsNum(Sec(e, Sym)) = m
  BY <1>1, TablesRead
<1>. HIDE DEF m
<1>3. PICK f : /\ f[0] = e
               /\ \A k \in 1 .. m : f[k] = Round(f[k - 1], Sym, Rel, m)
               /\ t = [f[m] EXCEPT !.secs[Sym + 1].info = FirstNotLocal(f[m], Sym)]
  <2>1. GetSymbolsNum(Sec(e, Sym)) \in Nat
    BY <1>1, <1>2
  <2>2. RoundsTo(e, Sym, Rel, m, t)
    BY ONLY <1>2, <2>1, ArrangeUnfolds
  <2>. QED
    BY ONLY <2>2 DEF RoundsTo
<1>4. /\ Keeps(f[m], e, ss, rr)
      /\ ss # << >> => Arranged(f[m], N)
  <2>1. CASE ss = << >>
    BY <1>1, <1>3, <2>1 DEF Keeps
  <2>2. CASE ss # << >>
    <3>. DEFINE Done(k) == /\ Keeps(f[k], e, ss, rr)
                           /\ FirstNotLocal(f[k], Sym) > k \/ Arranged(f[k], N)
                T == {k \in Nat : k <= m => Done(k)}
    <3>1. 0 \in T
      <4>1. FirstNotLocal(e, Sym) > 0
        <5>1. m > 1
          BY <1>1, <2>2
        <5>2. FirstIs(e, m, FirstNotLocal(e, Sym))
          BY ONLY <1>1, <1>2, <5>1, FirstFound
        <5>. QED
          BY ONLY <1>1, <5>2 DEF FirstIs
      <4>. QED
        BY <1>3, <4>1 DEF Keeps
    <3>2. ASSUME NEW k \in Nat, k \in T, k + 1 <= m PROVE Done(k + 1)
      <4>1. Done(k)
        <5>1. k <= m
          BY ONLY <1>1, <3>2, k \in Nat
        <5>. QED
          BY <3>2, <5>1
      <4>2. f[k + 1] = Round(f[k], Sym, Rel, Len(ss) + 1)
        <5>1. k + 1 \in 1 .. m /\ (k + 1) - 1 = k
          BY ONLY <1>1, <3>2, k \in Nat
        <5>2. m = Len(ss) + 1
          BY <1>1, <2>2
        <5>. QED
          BY ONLY <1>3, <5>1, <5>2, Zenon
      <4>. DEFINE u == f[k]
                  v == f[k + 1]
      <4>3. Holds(u, ss, rr) /\ (FirstNotLocal(u, Sym) > k \/ Arranged(u, Len(ss)))
        BY <4>1 DEF Keeps
      <4>4. v = Round(u, Sym, Rel, Len(ss) + 1)
        BY <4>2
      <4>. HIDE DEF u, v
      <4>5. /\ Keeps(v, u, ss, rr)
            /\ FirstNotLocal(v, Sym) > k + 1 \/ Arranged(v, Len(ss))
        BY <2>2, <4>3, <4>4, RoundArranges
      <4>6. Keeps(v, e, ss, rr)
        BY <4>1, <4>5 DEF Keeps, u
      <4>. QED
        BY <4>5, <4>6 DEF v
    <3>3. Nat \subseteq T
      <4>1. \A k \in Nat : k \in T => k + 1 \in T
        BY <3>2
      <4>. HIDE DEF T
      <4>. QED
        BY <3>1, <4>1, SetInduction
    <3>4. Done(m)
      <4>1. m \in T /\ m <= m
        BY <1>1, <3>3
      <4>. QED
        BY <4>1
    <3>5. ~(FirstNotLocal(f[m], Sym) > m)
      <4>. DEFINE u == f[m]
      <4>1. Tables(u, m, n)
        BY <3>4 DEF Keeps, Holds, m
      <4>. HIDE DEF u
      <4>2. GetSymbolsNum(Sec(u, Sym)) = m
        BY ONLY <1>1, <4>1, TablesRead
      <4>3. m > 1
        BY <1>1, <2>2
      <4>4. FirstIs(u, m, FirstNotLocal(u, Sym))
        BY ONLY <1>1, <4>2, <4>3, FirstFound
      <4>5. ~(FirstNotLocal(u, Sym) > m)
        BY ONLY <1>1, <4>4 DEF FirstIs
      <4>. QED
        BY <4>5 DEF u
    <3>. QED
      BY <3>4, <3>5
  <2>. QED
    BY <2>1, <2>2
<1>. DEFINE last == f[m]
            first == FirstNotLocal(last, Sym)
            sec == [Sec(last, Sym) EXCEPT !.info = first]
<1>5. Holds(last, ss, rr) /\ Tables(last, m, n)
  BY <1>4 DEF Keeps, Holds, m
<1>6. t = Replace(last, Sym, sec)
  BY <1>3 DEF Replace, Sec
<1>. HIDE DEF last, first
<1>7. /\ Table(sec, SymSize, m) /\ sec.link = Sec(last, Sym).link
      /\ sec.info = first /\ sec.data = Sec(last, Sym).data
  <2>1. Table(Sec(last, Sym), SymSize, m)
    BY <1>5 DEF Tables
  <2>. QED
    BY ONLY <2>1 DEF Table, Shaped, Keys
<1>. HIDE DEF sec, t
<1>8. /\ Tables(t, m, n) /\ t.hdr = last.hdr /\ Sec(t, Sym) = sec
      /\ Sec(t, Str) = Sec(last, Str) /\ Sec(t, Rel) = Sec(last, Rel)
  <2>1. m >= m
    BY ONLY <1>1
  <2>. QED
    BY ONLY <1>1, <1>5, <1>6, <1>7, <2>1, SymbolsReplaced
<1>9. \A i : SymbolPtr(t, Sym, i) = SymbolPtr(last, Sym, i)
  <2>1. \A i : SymbolPtr(t, Sym, i) =
                 SymbolIn(Cut(Sec(t, Sym).data, i, SymSize), t.hdr.data)
    BY ONLY <1>1, <1>8, TablesRead
  <2>2. \A i : SymbolPtr(last, Sym, i) =
                 SymbolIn(Cut(Sec(last, Sym).data, i, SymSize), last.hdr.data)
    BY ONLY <1>1, <1>5, TablesRead
  <2>. QED
    BY ONLY <1>7, <1>8, <2>1, <2>2
<1>10. \A i : GetEntry(t, Rel, i) = GetEntry(last, Rel, i)
  BY ONLY <1>8, SameRows
<1>11. Holds(t, ss, rr)
  <2>1. Represents(t, ss)
    BY ONLY <1>5, <1>8, <1>9, Zenon DEF Holds, Represents
  <2>2. Refers(t, ss, rr)
    BY ONLY <1>5, <1>8, <1>9, <1>10, Zenon DEF Holds, Refers, RefersTo
  <2>. QED
    BY ONLY <1>8, <2>1, <2>2 DEF Holds, m
<1>12. Keeps(t, e, ss, rr)
  BY <1>4, <1>8, <1>11 DEF Keeps, last
<1>13. ASSUME NEW i \in 1 .. N PROVE IsLocal(t, Sym, i) <=> i < Sec(t, Sym).info
  <2>1. Arranged(last, N)
    <3>1. ss # << >>
      BY <1>1
    <3>. QED
      BY <1>4, <3>1 DEF last
  <2>2. IsLocal(t, Sym, i) <=> IsLocal(last, Sym, i)
    BY <1>9, Zenon DEF IsLocal
  <2>3. Sec(t, Sym).info = first
    BY <1>7, <1>8
  <2>. QED
    BY <2>1, <2>2, <2>3 DEF Arranged, first
<1>. QED
  BY <1>12, <1>13 DEF t

-------------------------------------------------------------------------------
(***************************************************************************)
(* The operations of the program on tables that stand for syms and refs.   *)
(***************************************************************************)
(* A change of the relocations leaves the symbols as they are, and what    *)
(* the others refer to.                                                    *)
LEMMA OthersStay ==
  ASSUME NEW e, NEW t, NEW ss, Sec(t, Str) = Sec(e, Str), SameSymbols(t, e),
         Sec(t, Rel).type = Sec(e, Rel).type
  PROVE  /\ Represents(e, ss) => Represents(t, ss)
         /\ \A entry, ref : RefersTo(e, ss, entry, ref) => RefersTo(t, ss, entry, ref)
<1>1. \A i : SymbolPtr(t, Sym, i) = SymbolPtr(e, Sym, i)
  BY DEF SameSymbols
<1>2. Sec(t, Str) = Sec(e, Str) /\ Sec(t, Rel).type = Sec(e, Rel).type
  OBVIOUS
<1>. QED
  BY ONLY <1>1, <1>2, Zenon DEF Represents, RefersTo

(* A relocation that is added refers to what it was made for.              *)
LEMMA AddEntryHolds ==
  ASSUME NEW e, NEW X, NEW ss \in Seq(X), NEW Y, NEW rr \in Seq(Y), Holds(e, ss, rr),
         NEW entry, NEW ref \in Y, RefersTo(e, ss, entry, ref)
  PROVE  LET t == AddEntry(e, Rel, entry)
         IN  /\ Holds(t, ss, Append(rr, ref)) /\ t.hdr = e.hdr
             /\ Sec(t, Str) = Sec(e, Str) /\ SameSymbols(t, e)
             /\ Sec(t, Rel).type = Sec(e, Rel).type
<1>. DEFINE t == AddEntry(e, Rel, entry)
            m == Rows(ss)
            n == Len(rr)
            more == Append(rr, ref)
<1>1. m \in Nat /\ n \in Nat /\ Tables(e, m, n)
  BY DEF Rows, Holds
<1>2. entry \in Relocations(Sec(e, Rel).type)
  BY DEF RefersTo
<1>3. /\ Len(more) = n + 1 /\ more[n + 1] = ref
      /\ \A i \in 1 .. n : more[i] = rr[i]
  OBVIOUS
<1>. HIDE DEF m, t, more
<1>4. /\ Tables(t, m, n + 1) /\ t.hdr = e.hdr
      /\ Sec(t, Str) = Sec(e, Str) /\ SameSymbols(t, e)
      /\ Sec(t, Rel).type = Sec(e, Rel).type
      /\ GetEntry(t, Rel, n) = entry
      /\ \A i \in 0 .. (n - 1) : GetEntry(t, Rel, i) = GetEntry(e, Rel, i)
  <2>. HIDE DEF n
  <2>. QED
    BY ONLY <1>1, <1>2, EntryAppended DEF t
<1>5. /\ Represents(e, ss) => Represents(t, ss)
      /\ \A x, y : RefersTo(e, ss, x, y) => RefersTo(t, ss, x, y)
  BY ONLY <1>4, OthersStay
<1>6. Represents(e, ss) /\ Refers(e, ss, rr) /\ RefersTo(e, ss, entry, ref)
  BY DEF Holds
<1>7. Refers(t, ss, more)
  <2>1. SUFFICES ASSUME NEW i \in 1 .. (n + 1)
                 PROVE  RefersTo(t, ss, GetEntry(t, Rel, i - 1), more[i])
    BY <1>3 DEF Refers
  <2>2. CASE i = n + 1
    <3>1. i - 1 = n
      BY ONLY <1>1, <2>2
    <3>. QED
      BY <1>3, <1>4, <1>5, <1>6, <2>2, <3>1
  <2>3. CASE i # n + 1
    <3>1. i \in 1 .. n /\ i - 1 \in 0 .. (n - 1)
      BY ONLY <1>1, <2>3, i \in 1 .. (n + 1)
    <3>2. RefersTo(e, ss, GetEntry(e, Rel, i - 1), rr[i])
      BY <1>6, <3>1 DEF Refers
    <3>. QED
      BY <1>3, <1>4, <1>5, <3>1, <3>2
  <2>. QED
    BY <2>2, <2>3
<1>8. Holds(t, ss, more)
  BY ONLY <1>3, <1>4, <1>5, <1>6, <1>7 DEF Holds, m
<1>. QED
  BY <1>4, <1>8 DEF t, more

(* ... and so does one that is changed.                                    *)
LEMMA SetEntryHolds ==
  ASSUME NEW e, NEW X, NEW ss \in Seq(X), NEW Y, NEW rr \in Seq(Y), Holds(e, ss, rr),
         NEW entry, NEW ref \in Y, RefersTo(e, ss, entry, ref), NEW j \in 1 .. Len(rr)
  PROVE  LET t == SetEntry(e, Rel, j - 1, entry)
         IN  /\ Holds(t, ss, [rr EXCEPT ![j] = ref]) /\ t.hdr = e.hdr
             /\ Sec(t, Str) = Sec(e, Str) /\ SameSymbols(t, e)
             /\ Sec(t, Rel).type = Sec(e, Rel).type
<1>. DEFINE t == SetEntry(e, Rel, j - 1, entry)
            m == Rows(ss)
            n == Len(rr)
            new == [rr EXCEPT ![j] = ref]
<1>1. m \in Nat /\ n \in Nat /\ Tables(e, m, n) /\ j - 1 \in 0 .. (n - 1)
  BY DEF Rows, Holds
<1>2. entry \in Relocations(Sec(e, Rel).type)
  BY DEF RefersTo
<1>3. /\ Len(new) = n /\ new[j] = ref
      /\ \A i \in 1 .. n : i # j => new[i] = rr[i]
  OBVIOUS
<1>. HIDE DEF m, t, new
<1>4. /\ Tables(t, m, n) /\ t.hdr = e.hdr
      /\ Sec(t, Str) = Sec(e, Str) /\ SameSymbols(t, e)
      /\ Sec(t, Rel).type = Sec(e, Rel).type
      /\ GetEntry(t, Rel, j - 1) = entry
      /\ \A i \in 0 .. (n - 1) : i # j - 1 => GetEntry(t, Rel, i) = GetEntry(e, Rel, i)
  <2>. HIDE DEF n
  <2>. QED
    BY ONLY <1>1, <1>2, EntryReplaced DEF t
<1>5. /\ Represents(e, ss) => Represents(t, ss)
      /\ \A x, y : RefersTo(e, ss, x, y) => RefersTo(t, ss, x, y)
  BY ONLY <1>4, OthersStay
<1>6. Represents(e, ss) /\ Refers(e, ss, rr) /\ RefersTo(e, ss, entry, ref)
  BY DEF Holds
<1>7. Refers(t, ss, new)
  <2>1. SUFFICES ASSUME NEW i \in 1 .. n
                 PROVE  RefersTo(t, ss, GetEntry(t, Rel, i - 1), new[i])
    BY <1>3 DEF Refers
  <2>2. CASE i = j
    BY <1>3, <1>4, <1>5, <1>6, <2>2
  <2>3. CASE i # j
    <3>1. i - 1 \in 0 .. (n - 1) /\ i - 1 # j - 1
      BY ONLY <1>1, <2>3, i \in 1 .. n, j \in 1 .. Len(rr)
    <3>2. RefersTo(e, ss, GetEntry(e, Rel, i - 1), rr[i])
      BY <1>6 DEF Refers
    <3>. QED
      BY <1>3, <1>4, <1>5, <2>3, <3>1, <3>2
  <2>. QED
    BY <2>2, <2>3
<1>8. Holds(t, ss, new)
  BY ONLY <1>3, <1>4, <1>5, <1>6, <1>7 DEF Holds, m
<1>. QED
  BY <1>4, <1>8 DEF t, new

(* A bound of the length of a name, and of a table of all of them.         *)
Longest == CHOOSE most \in Field : /\ \A name \in Names : Len(name) < most
                                   /\ 1 + MaxSymbols * most \in Field

(* The bound is one.                                                       *)
LEMMA LongestBounds ==
  /\ Longest \in Nat /\ \A name \in Names : Len(name) < Longest
  /\ \A n \in 0 .. MaxSymbols : 1 + n * Longest \in Field
<1>1. \E most \in Field : /\ \A name \in Names : Len(name) < most
                          /\ 1 + MaxSymbols * most \in Field
  BY SymbolsAssumption
<1>2. /\ Longest \in Field /\ \A name \in Names : Len(name) < Longest
      /\ 1 + MaxSymbols * Longest \in Field
  BY <1>1 DEF Longest
<1>3. Longest \in Nat /\ MaxSymbols \in Nat
  BY <1>2, RadixAssumption, SymbolsAssumption DEF Field, Digit
<1>4. ASSUME NEW n \in 0 .. MaxSymbols PROVE 1 + n * Longest \in Field
  <2>. DEFINE rest == MaxSymbols - n
  <2>1. rest \in Nat /\ n \in Nat /\ n + rest = MaxSymbols
    BY <1>3
  <2>2. n * Longest \in Nat /\ rest * Longest \in Nat
    BY ONLY <1>3, <2>1
  <2>3. MaxSymbols * Longest = n * Longest + rest * Longest
    BY ONLY <1>3, <2>1
  <2>. QED
    BY ONLY <1>2, <2>2, <2>3, RadixAssumption DEF Field
<1>. QED
  BY <1>2, <1>3, <1>4

(* The symbol that is written for a name.                                  *)
NewSymbol(at, value, bind) ==
  [st_name |-> at, st_value |-> value, st_size |-> 0,
   st_info |-> Info(bind, 2), st_other |-> 0, st_shndx |-> 1]

(* Its fields fit, as those of the empty symbol do.                        *)
LEMMA NewFits ==
  /\ \A at \in Field, value \in Digit, bind \in {STB_LOCAL, STB_GLOBAL} :
       LET p == NewSymbol(at, value, bind)
       IN  /\ Fits(p) /\ DOMAIN p = ToSet(SymFields) /\ p = [f \in DOMAIN p |-> p[f]]
           /\ p.st_name = at /\ p.st_value = value /\ Bind(p.st_info) = bind
  /\ Fits(NullSymbol) /\ DOMAIN NullSymbol = ToSet(SymFields)
  /\ NullSymbol = [f \in DOMAIN NullSymbol |-> NullSymbol[f]]
  /\ NullSymbol.st_value = 0
<1>1. 0 \in Field /\ 1 \in Field /\ Digit \subseteq Field
  <2>1. Radix \in Nat /\ Radix * Radix \in Nat /\ Radix * Radix >= 2 * Radix
    BY RadixAssumption
  <2>. QED
    BY <2>1, RadixAssumption DEF Field, Digit
<1>2. ASSUME NEW at \in Field, NEW value \in Digit, NEW bind \in {STB_LOCAL, STB_GLOBAL}
      PROVE  LET p == NewSymbol(at, value, bind)
             IN  /\ Fits(p) /\ DOMAIN p = ToSet(SymFields) /\ p = [f \in DOMAIN p |-> p[f]]
                 /\ p.st_name = at /\ p.st_value = value /\ Bind(p.st_info) = bind
  <2>1. Info(bind, 2) \in Nat /\ Bind(Info(bind, 2)) = bind
    BY DEF STB_LOCAL, STB_GLOBAL, Info, Bind
  <2>2. value \in Field
    BY <1>1
  <2>3. /\ DOMAIN NewSymbol(at, value, bind) = ToSet(SymFields)
        /\ NewSymbol(at, value, bind) =
             [f \in DOMAIN NewSymbol(at, value, bind) |-> NewSymbol(at, value, bind)[f]]
    BY SymCellsAre DEF NewSymbol
  <2>4. /\ NewSymbol(at, value, bind).st_name = at
        /\ NewSymbol(at, value, bind).st_value = value
        /\ NewSymbol(at, value, bind).st_size = 0
        /\ NewSymbol(at, value, bind).st_info = Info(bind, 2)
        /\ NewSymbol(at, value, bind).st_other = 0
        /\ NewSymbol(at, value, bind).st_shndx = 1
    BY DEF NewSymbol
  <2>. QED
    BY ONLY <1>1, <2>1, <2>2, <2>3, <2>4, at \in Field DEF Fits
<1>3. /\ Fits(NullSymbol) /\ DOMAIN NullSymbol = ToSet(SymFields)
      /\ NullSymbol = [f \in DOMAIN NullSymbol |-> NullSymbol[f]]
      /\ NullSymbol.st_value = 0
  BY <1>1, SymCellsAre DEF NullSymbol, Fits
<1>. QED
  BY <1>2, <1>3

Bindings == {STB_LOCAL, STB_GLOBAL}

(* A symbol that is added is behind the others, which stay; its number is  *)
(* its value (elfio_symbols.hpp:147-188).                                  *)
LEMMA WithSymbolHolds ==
  ASSUME NEW X, syms \in Seq(X), NEW Y, refs \in Seq(Y), Holds(elf, syms, refs),
         Len(syms) < MaxSymbols, Sec(elf, Str).size <= 1 + Len(syms) * Longest,
         \A y \in X : y.name \in Names,
         NEW name \in Names, NEW bind \in Bindings, NEW x \in X,
         x.name = name, x.bind = bind
  PROVE  LET t    == WithSymbol(elf, name, bind)
             more == Append(syms, x)
         IN  /\ Holds(t, more, refs)
             /\ Sec(t, Str).size <= 1 + Len(more) * Longest
             /\ Sec(t, Rel).type = Sec(elf, Rel).type
             /\ LastSymbol(t, Sym) = Len(more)
             /\ SymbolPtr(t, Sym, Len(more)).st_value = Len(more)
<1>. DEFINE t == WithSymbol(elf, name, bind)
            more == Append(syms, x)
            N == Len(syms)
            m == Rows(syms)
            n == Len(refs)
            at == NextString(Sec(elf, Str))
            str == AddString(Sec(elf, Str), name)
            named == Replace(elf, Str, str)
            base == IF m = 0 THEN GenericAddSymbol(named, Sym, NullSymbol) ELSE named
            p == NewSymbol(at, N + 1, bind)
<1>1. /\ N \in Nat /\ m \in Nat /\ n \in Nat /\ Tables(elf, m, n)
      /\ syms = << >> => N = 0 /\ m = 0
      /\ syms # << >> => m = N + 1 /\ m # 0
      /\ N = 0 => syms = << >>
  BY DEF Rows, Holds
<1>2. /\ N + 1 \in Digit /\ MaxSymbols \in Nat /\ name \in String /\ Names \subseteq String
  <2>1. MaxSymbols \in Digit /\ Names \subseteq String
    BY SymbolsAssumption DEF String
  <2>. QED
    BY ONLY <1>1, <2>1, RadixAssumption, Len(syms) < MaxSymbols, name \in Names DEF Digit
<1>3. Represents(elf, syms) /\ Refers(elf, syms, refs)
  BY DEF Holds
<1>4. /\ Shaped(str) /\ SameHead(str, Sec(elf, Str)) /\ Named(str, at, name)
      /\ EmptyFirst(str)
      /\ at \in Nat /\ str.size = at + Len(name) + 1
      /\ \A place, other : other \in String /\ Named(Sec(elf, Str), place, other)
                           => Named(str, place, other)
  <2>1. Shaped(Sec(elf, Str)) /\ EmptyFirst(Sec(elf, Str)) /\ name \in String
    BY <1>1, <1>2 DEF Tables
  <2>. QED
    BY ONLY <2>1, StringAdded
<1>5. at \in Field /\ str.size <= 1 + (N + 1) * Longest
  <2>1. /\ Longest \in Nat /\ Len(name) < Longest /\ 1 + N * Longest \in Field
        /\ Len(name) \in Nat /\ N * Longest \in Nat
    <3>1. N \in 0 .. MaxSymbols /\ Len(name) \in Nat
      BY <1>1, <1>2 DEF String
    <3>2. Longest \in Nat /\ Len(name) < Longest /\ 1 + N * Longest \in Field
      BY <3>1, LongestBounds
    <3>. QED
      BY ONLY <1>1, <3>1, <3>2
  <2>2. at <= 1 + N * Longest
    <3>1. at = 1 \/ at = Sec(elf, Str).size
      BY DEF NextString
    <3>. HIDE DEF at
    <3>. QED
      BY <2>1, <3>1
  <2>3. (N + 1) * Longest = N * Longest + Longest
    BY ONLY <1>1, <2>1
  <2>4. at \in Field
    BY ONLY <1>4, <2>1, <2>2, RadixAssumption DEF Field
  <2>5. str.size <= 1 + (N + 1) * Longest
    BY ONLY <1>4, <2>1, <2>2, <2>3
  <2>. QED
    BY ONLY <2>4, <2>5
<1>6. t = GenericAddSymbol(base, Sym, p)
  <2>1. named = [elf EXCEPT !.secs[Str + 1] = AddString(@, name)]
    BY DEF Replace, Sec
  <2>2. Sec(named, Sym).size = 0 <=> m = 0
    <3>1. Tables(named, m, n)
      BY ONLY <1>1, <1>4, NamesReplaced
    <3>. HIDE DEF named
    <3>2. Sec(named, Sym).size = m * 6
      BY <3>1 DEF Tables, Table, Shaped, SymSize
    <3>. QED
      BY ONLY <1>1, <3>2
  <2>3. t = AddSymbol(named, Sym, p)
    BY <2>1 DEF WithSymbol, NewSymbol
  <2>. HIDE DEF named, p, t, m
  <2>. QED
    BY ONLY <2>2, <2>3 DEF AddSymbol, base
<1>. HIDE DEF m, t, more, str, at, N
<1>7. /\ Tables(named, m, n) /\ named.hdr = elf.hdr /\ Sec(named, Str) = str
      /\ Sec(named, Sym) = Sec(elf, Sym) /\ Sec(named, Rel) = Sec(elf, Rel)
  BY ONLY <1>1, <1>4, NamesReplaced, SMTT(30) DEF named
<1>8. /\ \A i : SymbolPtr(named, Sym, i) = SymbolPtr(elf, Sym, i)
      /\ \A i : GetEntry(named, Rel, i) = GetEntry(elf, Rel, i)
  BY ONLY <1>7, SameRows
<1>. HIDE DEF named
<1>9. /\ Tables(base, N + 1, n) /\ Sec(base, Str) = str
      /\ SymbolPtr(base, Sym, 0) = NullSymbol
      /\ \A i \in 1 .. N : SymbolPtr(base, Sym, i) = SymbolPtr(elf, Sym, i)
      /\ Sec(base, Rel) = Sec(elf, Rel)
      /\ \A i : GetEntry(base, Rel, i) = GetEntry(elf, Rel, i)
  <2>1. CASE m # 0
    <3>1. base = named /\ m = N + 1 /\ syms # << >>
      BY <1>1, <2>1 DEF base
    <3>2. SymbolPtr(elf, Sym, 0) = NullSymbol
      BY <1>3, <3>1 DEF Represents
    <3>. QED
      BY ONLY <1>7, <1>8, <3>1, <3>2
  <2>2. CASE m = 0
    <3>1. base = GenericAddSymbol(named, Sym, NullSymbol) /\ N = 0 /\ N + 1 = m + 1
      BY <1>1, <2>2 DEF base
    <3>. HIDE DEF base
    <3>2. /\ Fits(NullSymbol) /\ DOMAIN NullSymbol = ToSet(SymFields)
          /\ NullSymbol = [f \in DOMAIN NullSymbol |-> NullSymbol[f]]
      BY NewFits
    <3>3. /\ Tables(base, m + 1, n) /\ base.hdr = named.hdr
          /\ Sec(base, Str) = Sec(named, Str) /\ SameEntries(base, named)
          /\ SymbolPtr(base, Sym, m) = NullSymbol
      BY ONLY <1>1, <1>7, <3>1, <3>2, SymbolAppended
    <3>. QED
      BY ONLY <1>1, <1>7, <1>8, <2>2, <3>1, <3>3 DEF SameEntries
  <2>. QED
    BY <2>1, <2>2
<1>. HIDE DEF base
<1>10. /\ Fits(p) /\ DOMAIN p = ToSet(SymFields) /\ p = [f \in DOMAIN p |-> p[f]]
       /\ p.st_name = at /\ p.st_value = N + 1 /\ Bind(p.st_info) = bind
  BY <1>2, <1>5, NewFits DEF Bindings
<1>. HIDE DEF p
<1>11. /\ Tables(t, N + 2, n) /\ Sec(t, Str) = str /\ SameEntries(t, base)
       /\ SymbolPtr(t, Sym, N + 1) = p
       /\ \A i \in 0 .. N : SymbolPtr(t, Sym, i) = SymbolPtr(base, Sym, i)
  <2>. DEFINE k == N + 1
  <2>1. k \in Nat /\ Tables(base, k, n) /\ n \in Nat
    BY <1>1, <1>9
  <2>2. t = GenericAddSymbol(base, Sym, p)
    BY <1>6
  <2>3. k + 1 = N + 2 /\ k - 1 = N
    BY <1>1
  <2>. HIDE DEF k
  <2>4. /\ Tables(t, k + 1, n) /\ Sec(t, Str) = Sec(base, Str) /\ SameEntries(t, base)
        /\ SymbolPtr(t, Sym, k) = p
        /\ \A i \in 0 .. (k - 1) : SymbolPtr(t, Sym, i) = SymbolPtr(base, Sym, i)
    BY ONLY <1>10, <2>1, <2>2, SymbolAppended
  <2>. QED
    BY ONLY <1>9, <2>3, <2>4 DEF k
<1>12. /\ Len(more) = N + 1 /\ more # << >> /\ more[N + 1] = x
       /\ \A i \in 1 .. N : more[i] = syms[i]
  BY ONLY syms \in Seq(X), x \in X DEF more, N
<1>13. Rows(more) = N + 2
  BY ONLY <1>1, <1>12 DEF Rows
<1>14. \A i \in 1 .. N : SymbolPtr(t, Sym, i) = SymbolPtr(elf, Sym, i)
  <2>1. \A i \in 1 .. N : i \in 0 .. N
    BY ONLY <1>1
  <2>. QED
    BY ONLY <1>9, <1>11, <2>1
<1>15. SymbolPtr(t, Sym, 0) = NullSymbol
  <2>1. 0 \in 0 .. N
    BY ONLY <1>1
  <2>. QED
    BY ONLY <1>9, <1>11, <2>1
<1>16. /\ Sec(t, Rel) = Sec(elf, Rel)
       /\ \A i : GetEntry(t, Rel, i) = GetEntry(elf, Rel, i)
  BY ONLY <1>9, <1>11 DEF SameEntries
<1>17. Represents(t, more)
  <2>1. ASSUME NEW i \in 1 .. (N + 1)
        PROVE  /\ SymbolPtr(t, Sym, i).st_value \in 1 .. (N + 1)
               /\ Named(Sec(t, Str), SymbolPtr(t, Sym, i).st_name,
                        more[SymbolPtr(t, Sym, i).st_value].name)
               /\ Bind(SymbolPtr(t, Sym, i).st_info) = more[SymbolPtr(t, Sym, i).st_value].bind
    <3>1. CASE i = N + 1
      <4>1. N + 1 \in 1 .. (N + 1) /\ x.name = name /\ x.bind = bind
        BY <1>1
      <4>. QED
        BY ONLY <1>4, <1>10, <1>11, <1>12, <3>1, <4>1
    <3>2. CASE i # N + 1
      <4>. DEFINE q == SymbolPtr(elf, Sym, i)
      <4>1. i \in 1 .. N /\ 1 .. N \subseteq 1 .. (N + 1)
        BY ONLY <1>1, <3>2, i \in 1 .. (N + 1)
      <4>2. /\ q.st_value \in 1 .. N
            /\ Named(Sec(elf, Str), q.st_name, syms[q.st_value].name)
            /\ Bind(q.st_info) = syms[q.st_value].bind
        BY <1>3, <4>1 DEF Represents, N
      <4>3. syms[q.st_value].name \in String
        BY <1>2, <4>2 DEF N
      <4>4. Named(str, q.st_name, syms[q.st_value].name)
        BY <1>4, <4>2, <4>3
      <4>. QED
        BY <1>11, <1>12, <1>14, <4>1, <4>2, <4>4
    <3>. QED
      BY <3>1, <3>2
  <2>2. ASSUME NEW v \in 1 .. (N + 1)
        PROVE  \E i \in 1 .. (N + 1) : SymbolPtr(t, Sym, i).st_value = v
    <3>1. CASE v = N + 1
      BY <1>1, <1>10, <1>11, <3>1
    <3>2. CASE v # N + 1
      <4>1. v \in 1 .. N /\ 1 .. N \subseteq 1 .. (N + 1)
        BY ONLY <1>1, <3>2, v \in 1 .. (N + 1)
      <4>2. PICK i \in 1 .. N : SymbolPtr(elf, Sym, i).st_value = v
        BY <1>3, <4>1 DEF Represents, N
      <4>. QED
        BY <1>14, <4>1, <4>2
    <3>. QED
      BY <3>1, <3>2
  <2>. QED
    BY ONLY <1>12, <1>15, <2>1, <2>2 DEF Represents
<1>18. Refers(t, more, refs)
  <2>1. SUFFICES ASSUME NEW i \in 1 .. Len(refs)
                 PROVE  RefersTo(t, more, GetEntry(t, Rel, i - 1), refs[i])
    BY DEF Refers
  <2>2. RefersTo(elf, syms, GetEntry(elf, Rel, i - 1), refs[i])
    BY <1>3 DEF Refers
  <2>. DEFINE entry == GetEntry(elf, Rel, i - 1)
  <2>3. entry.symbol \in 1 .. N
    BY <2>2 DEF RefersTo, N
  <2>4. GetEntry(t, Rel, i - 1) = entry /\ Sec(t, Rel).type = Sec(elf, Rel).type
    BY <1>16
  <2>. HIDE DEF entry
  <2>5. /\ entry.symbol \in 1 .. Len(more)
        /\ SymbolPtr(t, Sym, entry.symbol) = SymbolPtr(elf, Sym, entry.symbol)
    BY ONLY <1>1, <1>12, <1>14, <2>3
  <2>6. RefersTo(elf, syms, entry, refs[i])
    BY <2>2 DEF entry
  <2>. QED
    BY ONLY <2>4, <2>5, <2>6 DEF RefersTo
<1>19. Holds(t, more, refs)
  BY ONLY <1>11, <1>13, <1>17, <1>18 DEF Holds, n
<1>20. LastSymbol(t, Sym) = N + 1
  <2>1. N + 2 \in Nat /\ (N + 2) - 1 = N + 1
    BY <1>1
  <2>. QED
    BY ONLY <1>1, <1>11, <2>1, TablesRead
<1>21. SymbolPtr(t, Sym, N + 1).st_value = N + 1
  BY ONLY <1>10, <1>11
<1>. QED
  BY ONLY <1>5, <1>11, <1>12, <1>16, <1>19, <1>20, <1>21 DEF t, more

(***************************************************************************)
(* The inductive invariant: every table holds what the program put there.  *)
(***************************************************************************)
Symbols    == [name : Names, bind : Bindings]
References == [sym : Nat, type : Types, offset : {5}, addend : Field]

IsArranged(e, ss) ==
  \A i \in 1 .. Len(ss) : IsLocal(e, Sym, i) <=> i < Sec(e, Sym).info

Stands(e, ss, rr) ==
  /\ ss \in Seq(Symbols) /\ Len(ss) <= MaxSymbols /\ rr \in Seq(References)
  /\ Holds(e, ss, rr)
  /\ Sec(e, Str).size <= 1 + Len(ss) * Longest

YInv == Stands(elf, syms, refs) /\ (sorted => IsArranged(elf, syms))

(* The index of a symbol is a number of one of those that were added, the  *)
(* one with that value.                                                    *)
LEMMA IndexFound ==
  ASSUME Stands(elf, syms, refs), NEW n \in 1 .. Len(syms)
  PROVE  IndexOf(n) \in 1 .. Len(syms) /\ SymbolPtr(elf, Sym, IndexOf(n)).st_value = n
<1>. DEFINE N == Len(syms)
            i == IndexOf(n)
<1>1. /\ N \in Nat /\ n \in 1 .. N /\ syms # << >> /\ Rows(syms) = N + 1
      /\ Holds(elf, syms, refs) /\ Len(refs) \in Nat
  BY DEF Stands, Rows
<1>2. LastSymbol(elf, Sym) = N
  <2>1. Tables(elf, N + 1, Len(refs)) /\ N + 1 \in Nat /\ (N + 1) - 1 = N
    BY <1>1 DEF Holds
  <2>. QED
    BY ONLY <1>1, <2>1, TablesRead
<1>3. /\ SymbolPtr(elf, Sym, 0).st_value # n
      /\ \E k \in 1 .. N : SymbolPtr(elf, Sym, k).st_value = n
  <2>1. Represents(elf, syms) /\ SymbolPtr(elf, Sym, 0) = NullSymbol
    BY <1>1 DEF Holds, Represents
  <2>2. NullSymbol.st_value = 0
    BY NewFits
  <2>. QED
    BY <1>1, <2>1, <2>2 DEF Represents
<1>4. \E k \in 0 .. N : SymbolPtr(elf, Sym, k).st_value = n
  BY ONLY <1>1, <1>3
<1>5. i \in 0 .. N /\ SymbolPtr(elf, Sym, i).st_value = n
  BY <1>2, <1>4, Zenon DEF IndexOf
<1>. HIDE DEF i
<1>6. i # 0
  BY ONLY <1>3, <1>5
<1>7. i \in 1 .. N
  BY ONLY <1>1, <1>5, <1>6
<1>. QED
  BY <1>5, <1>7 DEF i

(* The entry that is written for a relocation refers to its symbol.        *)
LEMMA EntryRefers ==
  ASSUME NEW e, NEW ss, NEW N \in Nat, Len(ss) = N, N <= MaxSymbols,
         Sec(e, Rel).type = Sec(elf, Rel).type,
         NEW n \in Nat, NEW type \in Types, NEW addend \in Field,
         NEW i \in 1 .. N, SymbolPtr(e, Sym, i).st_value = n
  PROVE  /\ Ref(n, type, addend) \in References
         /\ RefersTo(e, ss, Entry(Ref(n, type, addend), i), Ref(n, type, addend))
<1>. DEFINE ref == Ref(n, type, addend)
            entry == Entry(ref, i)
<1>1. /\ 0 \in Field /\ 5 \in Field /\ type \in Digit /\ i \in Digit
  <2>1. MaxSymbols \in Digit /\ Radix \in Nat /\ Radix * Radix \in Nat /\ Radix * Radix >= 1
    BY SymbolsAssumption, RadixAssumption
  <2>2. 0 \in Field /\ i \in Digit
    BY ONLY <2>1, N \in Nat, N <= MaxSymbols, i \in 1 .. N DEF Field, Digit
  <2>. QED
    BY <2>2, SymbolsAssumption
<1>2. ref \in References
  BY <1>1 DEF Ref, References
<1>3. /\ ref.sym = n /\ ref.type = type /\ ref.offset = 5
      /\ ref.addend = IF Sec(e, Rel).type = SHT_RELA THEN addend ELSE 0
  BY DEF Ref
<1>4. /\ entry.offset = ref.offset /\ entry.symbol = i /\ entry.type = ref.type
      /\ entry.addend = ref.addend
      /\ entry = [offset |-> 5, symbol |-> i, type |-> type, addend |-> ref.addend]
  BY <1>3 DEF Entry
<1>. HIDE DEF ref, entry
<1>5. entry \in Relocations(Sec(e, Rel).type)
  <2>1. SHT_REL # SHT_RELA
    BY DEF SHT_REL, SHT_RELA
  <2>2. CASE Sec(e, Rel).type = SHT_REL
    <3>1. ref.addend \in {0} /\ 5 \in Field
      BY <1>1, <1>3, <2>1, <2>2
    <3>. QED
      BY ONLY <1>1, <1>4, <2>2, <3>1 DEF Relocations
  <2>3. CASE Sec(e, Rel).type # SHT_REL
    <3>1. ref.addend \in Field
      BY <1>1, <1>3
    <3>. QED
      BY ONLY <1>1, <1>4, <2>3, <3>1 DEF Relocations
  <2>. QED
    BY <2>2, <2>3
<1>6. RefersTo(e, ss, entry, ref)
  BY <1>3, <1>4, <1>5 DEF RefersTo
<1>. QED
  BY <1>2, <1>6 DEF entry, ref

(* The names of the symbols are names.                                     *)
LEMMA SymbolsAre ==
  /\ \A y \in Symbols : y.name \in Names /\ y.bind \in Bindings
  /\ \A name \in Names, bind \in Bindings : [name |-> name, bind |-> bind] \in Symbols
BY DEF Symbols

(* add_symbol, with the name.                                              *)
LEMMA AddOneKeeps ==
  ASSUME YInv, NEW name \in Names, NEW bind \in Bindings, AddOne(name, bind)
  PROVE  YInv'
<1>. DEFINE x == [name |-> name, bind |-> bind]
            t == WithSymbol(elf, name, bind)
            more == Append(syms, x)
<1>1. /\ syms \in Seq(Symbols) /\ refs \in Seq(References) /\ Holds(elf, syms, refs)
      /\ Sec(elf, Str).size <= 1 + Len(syms) * Longest
  BY DEF YInv, Stands
<1>2. /\ Len(syms) < MaxSymbols /\ elf' = t /\ syms' = more /\ sorted' = FALSE
      /\ refs' = refs
  BY DEF AddOne
<1>3. x \in Symbols /\ x.name = name /\ x.bind = bind /\ \A y \in Symbols : y.name \in Names
  BY SymbolsAre
<1>. HIDE DEF x
<1>4. /\ Holds(t, more, refs) /\ Sec(t, Str).size <= 1 + Len(more) * Longest
  <2>1. LET u == WithSymbol(elf, name, bind)
            all == Append(syms, x)
        IN  /\ Holds(u, all, refs)
            /\ Sec(u, Str).size <= 1 + Len(all) * Longest
            /\ Sec(u, Rel).type = Sec(elf, Rel).type
            /\ LastSymbol(u, Sym) = Len(all)
            /\ SymbolPtr(u, Sym, Len(all)).st_value = Len(all)
    BY ONLY <1>1, <1>2, <1>3, name \in Names, bind \in Bindings, WithSymbolHolds
  <2>. QED
    BY <2>1
<1>5. more \in Seq(Symbols) /\ Len(more) = Len(syms) + 1 /\ Len(syms) \in Nat
  BY ONLY <1>1, <1>3
<1>6. Len(more) <= MaxSymbols
  <2>1. MaxSymbols \in Nat
    BY SymbolsAssumption, RadixAssumption DEF Digit
  <2>. QED
    BY ONLY <1>2, <1>5, <2>1
<1>. HIDE DEF t, more
<1>7. Stands(elf', syms', refs')
  BY ONLY <1>1, <1>2, <1>4, <1>5, <1>6 DEF Stands
<1>. QED
  BY <1>2, <1>7 DEF YInv

(* add_entry with a new symbol and its name.                               *)
LEMMA RelocateNewKeeps ==
  ASSUME YInv, NEW name \in Names, NEW bind \in Bindings, NEW type \in Types,
         RelocateNew(name, bind, type)
  PROVE  YInv'
<1>. DEFINE x == [name |-> name, bind |-> bind]
            e == WithSymbol(elf, name, bind)
            more == Append(syms, x)
            N == Len(more)
            ref == Ref(Len(syms) + 1, type, 0)
            entry == Entry(ref, LastSymbol(e, Sym))
            t == AddEntry(e, Rel, entry)
<1>1. /\ syms \in Seq(Symbols) /\ refs \in Seq(References) /\ Holds(elf, syms, refs)
      /\ Sec(elf, Str).size <= 1 + Len(syms) * Longest
  BY DEF YInv, Stands
<1>2. /\ Len(syms) < MaxSymbols /\ elf' = t /\ syms' = more /\ sorted' = FALSE
      /\ refs' = Append(refs, ref)
  BY DEF RelocateNew
<1>3. x \in Symbols /\ x.name = name /\ x.bind = bind /\ \A y \in Symbols : y.name \in Names
  BY SymbolsAre
<1>. HIDE DEF x
<1>4. /\ Holds(e, more, refs) /\ Sec(e, Str).size <= 1 + Len(more) * Longest
      /\ Sec(e, Rel).type = Sec(elf, Rel).type
      /\ LastSymbol(e, Sym) = Len(more)
      /\ SymbolPtr(e, Sym, Len(more)).st_value = Len(more)
  <2>1. LET u == WithSymbol(elf, name, bind)
            all == Append(syms, x)
        IN  /\ Holds(u, all, refs)
            /\ Sec(u, Str).size <= 1 + Len(all) * Longest
            /\ Sec(u, Rel).type = Sec(elf, Rel).type
            /\ LastSymbol(u, Sym) = Len(all)
            /\ SymbolPtr(u, Sym, Len(all)).st_value = Len(all)
    BY ONLY <1>1, <1>2, <1>3, name \in Names, bind \in Bindings, WithSymbolHolds
  <2>. QED
    BY <2>1
<1>5. more \in Seq(Symbols) /\ N = Len(syms) + 1 /\ Len(syms) \in Nat /\ N \in Nat
  BY ONLY <1>1, <1>3
<1>6. N <= MaxSymbols
  <2>1. MaxSymbols \in Nat
    BY SymbolsAssumption, RadixAssumption DEF Digit
  <2>. QED
    BY ONLY <1>2, <1>5, <2>1
<1>. HIDE DEF e, more
<1>7. ref \in References /\ RefersTo(e, more, entry, ref)
  <2>1. 0 \in Field /\ N \in 1 .. N
    BY <1>5, RadixAssumption DEF Field
  <2>2. /\ Ref(N, type, 0) \in References
        /\ RefersTo(e, more, Entry(Ref(N, type, 0), N), Ref(N, type, 0))
    BY ONLY <1>4, <1>5, <1>6, <2>1, type \in Types, EntryRefers
  <2>. QED
    BY ONLY <1>4, <1>5, <2>2
<1>. HIDE DEF ref, entry
<1>8. Holds(t, more, Append(refs, ref)) /\ Sec(t, Str) = Sec(e, Str)
  BY ONLY <1>1, <1>4, <1>5, <1>7, AddEntryHolds
<1>9. Append(refs, ref) \in Seq(References)
  BY ONLY <1>1, <1>7
<1>. HIDE DEF t
<1>10. Stands(elf', syms', refs')
  BY ONLY <1>2, <1>4, <1>5, <1>6, <1>8, <1>9 DEF Stands
<1>. QED
  BY <1>2, <1>10 DEF YInv

(* The order of the symbols is seen in the symbols and in sh_info.         *)
LEMMA StaysArranged ==
  ASSUME NEW e, NEW t, SameSymbols(t, e), NEW ss
  PROVE  IsArranged(e, ss) => IsArranged(t, ss)
BY DEF SameSymbols, IsArranged, IsLocal

(* add_entry with a symbol that is there.                                  *)
LEMMA RelocateKeeps ==
  ASSUME YInv, NEW n \in 1 .. Len(syms), NEW type \in Types, NEW addend \in Addends,
         Relocate(n, type, addend)
  PROVE  YInv'
<1>. DEFINE ref == Ref(n, type, addend)
            i == IndexOf(n)
            entry == Entry(ref, i)
            t == AddEntry(elf, Rel, entry)
            N == Len(syms)
<1>1. /\ syms \in Seq(Symbols) /\ refs \in Seq(References) /\ Holds(elf, syms, refs)
      /\ Sec(elf, Str).size <= 1 + N * Longest /\ N <= MaxSymbols /\ N \in Nat
      /\ Stands(elf, syms, refs) /\ n \in Nat
  BY DEF YInv, Stands
<1>2. /\ elf' = t /\ syms' = syms /\ sorted' = sorted /\ refs' = Append(refs, ref)
  BY DEF Relocate
<1>3. i \in 1 .. N /\ SymbolPtr(elf, Sym, i).st_value = n
  BY <1>1, IndexFound
<1>4. ref \in References /\ RefersTo(elf, syms, entry, ref)
  <2>1. addend \in Field /\ Sec(elf, Rel).type = Sec(elf, Rel).type
    BY SymbolsAssumption
  <2>. HIDE DEF i, N
  <2>2. Len(syms) = N
    BY DEF N
  <2>. QED
    BY ONLY <1>1, <1>3, <2>1, <2>2, type \in Types, EntryRefers
<1>. HIDE DEF ref, entry
<1>5. /\ Holds(t, syms, Append(refs, ref)) /\ Sec(t, Str) = Sec(elf, Str)
      /\ SameSymbols(t, elf)
  BY ONLY <1>1, <1>4, AddEntryHolds
<1>6. Append(refs, ref) \in Seq(References)
  BY ONLY <1>1, <1>4
<1>. HIDE DEF t
<1>7. Stands(elf', syms', refs')
  BY ONLY <1>1, <1>2, <1>5, <1>6 DEF Stands
<1>8. IsArranged(elf, syms) => IsArranged(t, syms)
  BY ONLY <1>5, StaysArranged
<1>. QED
  BY <1>2, <1>7, <1>8 DEF YInv

(* set_entry.                                                              *)
LEMMA RetargetKeeps ==
  ASSUME YInv, NEW j \in 1 .. Len(refs), NEW n \in 1 .. Len(syms), NEW type \in Types,
         Retarget(j, n, type)
  PROVE  YInv'
<1>. DEFINE ref == Ref(n, type, 0)
            i == IndexOf(n)
            entry == Entry(ref, i)
            t == SetEntry(elf, Rel, j - 1, entry)
            new == [refs EXCEPT ![j] = ref]
            N == Len(syms)
<1>1. /\ syms \in Seq(Symbols) /\ refs \in Seq(References) /\ Holds(elf, syms, refs)
      /\ Sec(elf, Str).size <= 1 + N * Longest /\ N <= MaxSymbols /\ N \in Nat
      /\ Stands(elf, syms, refs) /\ n \in Nat
  BY DEF YInv, Stands
<1>2. /\ elf' = t /\ syms' = syms /\ sorted' = sorted /\ refs' = new
  BY DEF Retarget
<1>3. i \in 1 .. N /\ SymbolPtr(elf, Sym, i).st_value = n
  BY <1>1, IndexFound
<1>4. ref \in References /\ RefersTo(elf, syms, entry, ref)
  <2>1. 0 \in Field /\ Sec(elf, Rel).type = Sec(elf, Rel).type
    BY RadixAssumption DEF Field
  <2>. HIDE DEF i, N
  <2>2. Len(syms) = N
    BY DEF N
  <2>. QED
    BY ONLY <1>1, <1>3, <2>1, <2>2, type \in Types, EntryRefers
<1>. HIDE DEF ref, entry
<1>5. /\ Holds(t, syms, new) /\ Sec(t, Str) = Sec(elf, Str)
      /\ SameSymbols(t, elf)
  BY ONLY <1>1, <1>4, j \in 1 .. Len(refs), SetEntryHolds
<1>6. new \in Seq(References)
  BY ONLY <1>1, <1>4
<1>. HIDE DEF t, new
<1>7. Stands(elf', syms', refs')
  BY ONLY <1>1, <1>2, <1>5, <1>6 DEF Stands
<1>8. IsArranged(elf, syms) => IsArranged(t, syms)
  BY ONLY <1>5, StaysArranged
<1>. QED
  BY <1>2, <1>7, <1>8 DEF YInv

(* arrange_local_symbols.                                                  *)
LEMMA ArrangeKeeps ==
  ASSUME YInv, Arrange
  PROVE  YInv'
<1>. DEFINE t == ArrangeLocalSymbols(elf, Sym, Rel)
<1>1. /\ syms \in Seq(Symbols) /\ refs \in Seq(References) /\ Holds(elf, syms, refs)
      /\ Sec(elf, Str).size <= 1 + Len(syms) * Longest /\ Len(syms) <= MaxSymbols
  BY DEF YInv, Stands
<1>2. elf' = t /\ syms' = syms /\ refs' = refs
  BY DEF Arrange
<1>3. Len(syms) \in Digit
  BY <1>1, SymbolsAssumption, RadixAssumption DEF Digit
<1>4. /\ Keeps(t, elf, syms, refs)
      /\ \A i \in 1 .. Len(syms) : IsLocal(t, Sym, i) <=> i < Sec(t, Sym).info
  BY ONLY <1>1, <1>3, ArrangeHolds
<1>. HIDE DEF t
<1>5. Stands(elf', syms', refs')
  BY ONLY <1>1, <1>2, <1>4 DEF Stands, Keeps
<1>6. IsArranged(elf', syms')
  BY ONLY <1>2, <1>4 DEF IsArranged
<1>. QED
  BY <1>5, <1>6 DEF YInv

-------------------------------------------------------------------------------
(***************************************************************************)
(* Sections that are added: the tables of a new object, and a hash table   *)
(* beside them.                                                            *)
(***************************************************************************)
Fresh(sec) ==
  /\ Keys \subseteq DOMAIN sec /\ sec.type = SHT_NULL
  /\ sec.data = << >> /\ sec.size = 0 /\ sec.stream = 0

(* A section that is created is empty.                                     *)
LEMMA NewIsFresh ==
  ASSUME NEW i, NEW label, NEW at
  PROVE  Fresh([[NewSection EXCEPT !.index = i] EXCEPT !.label = label, !.name = at])
<1>1. ToSet(ShdrFields) = {"name", "type", "flags", "addr", "offset", "size", "link",
                           "info", "align", "entsize"}
  BY DEF ToSet, ShdrFields
<1>2. DOMAIN Buffer = {"index", "label", "data", "has", "cap", "addrSet", "stream"}
      /\ Buffer["data"] = << >> /\ Buffer["stream"] = 0
  BY DEF Buffer
<1>3. /\ Keys \subseteq DOMAIN NewSection /\ NewSection.type = 0 /\ NewSection.size = 0
      /\ NewSection.data = << >> /\ NewSection.stream = 0
  BY <1>1, <1>2 DEF NewSection, Keys
<1>. QED
  BY <1>3 DEF Fresh, SHT_NULL

(* Its type is that of an unused section.                                   *)
LEMMA TypeOfNew ==
  ASSUME NEW i
  PROVE  Typed([NewSection EXCEPT !.index = i], SHT_NULL)
<1>1. "type" \in ToSet(ShdrFields) /\ "type" \notin DOMAIN Buffer
  BY DEF ToSet, ShdrFields, Buffer
<1>2. "type" \in DOMAIN NewSection /\ NewSection["type"] = 0
  BY <1>1 DEF NewSection
<1>. QED
  BY <1>2 DEF Typed, SHT_NULL

(* add, with a name for each of its steps.                                 *)
Steps(x, name, n, c, place, last, d) ==
  /\ n = Len(x.secs) /\ c = CreateSection(x) /\ place = c.hdr.shstrndx
  /\ last = [Sec(c, n) EXCEPT !.label = name, !.name = NextString(Sec(c, place))]
  /\ d = Replace(c, n, last)

(* The last step is the name in the table of names.                        *)
LEMMA AddSteps ==
  ASSUME NEW x, NEW name, NEW n, NEW c, NEW place, NEW last, NEW d,
         Steps(x, name, n, c, place, last, d)
  PROVE  AddSection(x, name) = Replace(d, place, AddString(Sec(d, place), name))
BY Zenon DEF AddSection, Steps

(* An empty section at the end (elfio.hpp:402-423).                        *)
LEMMA SectionCreated ==
  ASSUME NEW e, Object(e)
  PROVE  LET c == CreateSection(e)
         IN  /\ Object(c) /\ c.hdr = e.hdr /\ Len(c.secs) = Len(e.secs) + 1
             /\ \A k \in 0 .. (Len(e.secs) - 1) : Sec(c, k) = Sec(e, k)
             /\ Sec(c, Len(e.secs)) = [NewSection EXCEPT !.index = Len(e.secs)]
<1>1. PICK S : e.secs \in Seq(S)
  BY DEF Object, IsSeq
<1>. DEFINE q == e.secs
            n == Len(e.secs)
            new == [NewSection EXCEPT !.index = n]
            c == CreateSection(e)
<1>2. {"hdr", "secs"} \subseteq DOMAIN e /\ e.hdr.shstrndx = 1 /\ n \in Nat
  BY <1>1 DEF Object
<1>3. DOMAIN c = DOMAIN e /\ c.hdr = e.hdr /\ c.secs = Append(q, new)
  BY <1>2 DEF CreateSection
<1>. HIDE DEF new, q
<1>4. /\ IsSeq(Append(q, new)) /\ Len(Append(q, new)) = n + 1
      /\ Append(q, new)[n + 1] = new
      /\ \A k \in 0 .. (n - 1) : Append(q, new)[k + 1] = q[k + 1]
  <2>1. q \in Seq(S) /\ n = Len(q)
    BY <1>1 DEF q
  <2>2. /\ Append(q, new) \in Seq(S \cup {new}) /\ Len(Append(q, new)) = n + 1
        /\ Append(q, new)[n + 1] = new
        /\ \A k \in 1 .. n : Append(q, new)[k] = q[k]
    BY ONLY <2>1
  <2>3. \A k \in 0 .. (n - 1) : k + 1 \in 1 .. n
    BY ONLY <1>2
  <2>. QED
    BY ONLY <2>2, <2>3 DEF IsSeq
<1>. HIDE DEF n, c
<1>5. /\ Object(c) /\ Len(c.secs) = n + 1 /\ Sec(c, n) = new
      /\ \A k \in 0 .. (n - 1) : Sec(c, k) = Sec(e, k)
  BY ONLY <1>2, <1>3, <1>4 DEF Object, Sec, q
<1>. QED
  BY ONLY <1>3, <1>5 DEF c, n, new

(* A string that is added leaves the type.                                 *)
LEMMA TypeStays ==
  ASSUME NEW sec, NEW type, Typed(sec, type), NEW name
  PROVE  Typed(AddString(sec, name), type)
<1>1. ASSUME NEW raw, NEW u, Typed(u, type) PROVE Typed(AppendData(u, raw), type)
  <2>1. CASE u.type = SHT_NOBITS
    BY <1>1, <2>1 DEF AppendData
  <2>2. CASE u.type # SHT_NOBITS
    BY <1>1, <2>2 DEF AppendData, Typed
  <2>. QED
    BY <2>1, <2>2
<1>2. Typed(IF sec.size = 0 THEN AppendData(sec, <<0>>) ELSE sec, type)
  BY <1>1
<1>. QED
  BY ONLY <1>1, <1>2, Zenon DEF AddString

(* add: of the other sections only the table of section names changes      *)
(* (elfio.hpp:953-965).                                                    *)
LEMMA SectionAdded ==
  ASSUME NEW e, Object(e), Len(e.secs) >= 1, NEW name
  PROVE  LET t == AddSection(e, name)
         IN  /\ Object(t) /\ t.hdr = e.hdr /\ Len(t.secs) = Len(e.secs) + 1
             /\ \A k \in 0 .. (Len(e.secs) - 1) : k # 1 => Sec(t, k) = Sec(e, k)
             /\ Len(e.secs) # 1 => Fresh(Sec(t, Len(e.secs)))
             /\ \A type : Len(e.secs) # 1 /\ Typed(Sec(e, 1), type) => Typed(Sec(t, 1), type)
             /\ Len(e.secs) = 1 => Typed(Sec(t, 1), SHT_NULL)
<1>. DEFINE n == Len(e.secs)
            c == CreateSection(e)
            last == [Sec(c, n) EXCEPT !.label = name, !.name = NextString(Sec(c, c.hdr.shstrndx))]
            d == Replace(c, n, last)
            table == AddString(Sec(d, c.hdr.shstrndx), name)
            t == AddSection(e, name)
<1>1. e.hdr.shstrndx = 1 /\ n \in Nat /\ n >= 1
  BY DEF Object, IsSeq
<1>2. /\ Object(c) /\ c.hdr = e.hdr /\ Len(c.secs) = n + 1
      /\ \A k \in 0 .. (n - 1) : Sec(c, k) = Sec(e, k)
      /\ Sec(c, n) = [NewSection EXCEPT !.index = n]
  BY ONLY Object(e), SectionCreated
<1>3. Fresh(last)
  BY ONLY <1>2, NewIsFresh
<1>4. t = Replace(d, c.hdr.shstrndx, table)
  <2>1. Steps(e, name, n, c, c.hdr.shstrndx, last, d)
    BY Zenon DEF Steps
  <2>. HIDE DEF n, c, last, d
  <2>2. AddSection(e, name) =
          Replace(d, c.hdr.shstrndx, AddString(Sec(d, c.hdr.shstrndx), name))
    BY ONLY <2>1, AddSteps
  <2>. QED
    BY ONLY <2>2 DEF t, table
<1>. HIDE DEF n, c, last, d, table, t
<1>5. n \in 0 .. (Len(c.secs) - 1) /\ 1 \in 0 .. (Len(c.secs) - 1)
  BY ONLY <1>1, <1>2
<1>6. /\ Object(d) /\ d.hdr = c.hdr /\ Len(d.secs) = Len(c.secs) /\ Sec(d, n) = last
      /\ \A k \in 0 .. (Len(c.secs) - 1) : k # n => Sec(d, k) = Sec(c, k)
  BY ONLY <1>2, <1>5, Replaced DEF d
<1>7. /\ Object(t) /\ t.hdr = d.hdr /\ Len(t.secs) = Len(d.secs)
      /\ \A k \in 0 .. (Len(d.secs) - 1) : k # 1 => Sec(t, k) = Sec(d, k)
      /\ Sec(t, 1) = table
  <2>1. t = Replace(d, 1, table)
    BY <1>1, <1>2, <1>4
  <2>2. 1 \in 0 .. (Len(d.secs) - 1)
    BY <1>5, <1>6
  <2>. QED
    BY ONLY <1>6, <2>1, <2>2, Replaced
<1>8. ASSUME NEW k \in 0 .. (n - 1), k # 1 PROVE Sec(t, k) = Sec(e, k)
  <2>1. k \in 0 .. (Len(c.secs) - 1) /\ k # n
    BY ONLY <1>1, <1>2, k \in 0 .. (n - 1)
  <2>. QED
    BY <1>2, <1>6, <1>7, <1>8, <2>1
<1>9. n # 1 => Sec(t, n) = last
  <2>1. n \in 0 .. (Len(d.secs) - 1)
    BY ONLY <1>5, <1>6
  <2>. QED
    BY ONLY <1>6, <1>7, <2>1
<1>10. table = AddString(Sec(d, 1), name)
  BY <1>1, <1>2 DEF table
<1>11. ASSUME NEW type, n # 1, Typed(Sec(e, 1), type) PROVE Typed(Sec(t, 1), type)
  <2>1. 1 \in 0 .. (n - 1) /\ 1 \in 0 .. (Len(c.secs) - 1)
    BY ONLY <1>1, <1>2, <1>11
  <2>2. Sec(d, 1) = Sec(e, 1)
    BY ONLY <1>2, <1>6, <1>11, <2>1
  <2>. QED
    BY <1>7, <1>10, <1>11, <2>2, TypeStays
<1>12. n = 1 => Typed(Sec(t, 1), SHT_NULL)
  <2>1. Typed(last, SHT_NULL)
    BY <1>3 DEF Fresh, Keys, Typed
  <2>. QED
    BY <1>6, <1>7, <1>10, <2>1, TypeStays
<1>. QED
  BY <1>2, <1>3, <1>6, <1>7, <1>8, <1>9, <1>11, <1>12 DEF t, n

Retyped(s, sec, type, link, w) ==
  s = [sec EXCEPT !.type = type, !.link = link, !.entsize = w]

(* A fresh section that is made a table has no entries.                    *)
LEMMA FreshTable ==
  ASSUME NEW sec, Fresh(sec), NEW type, type # SHT_NOBITS, NEW link, NEW w \in Nat,
         NEW s, Retyped(s, sec, type, link, w)
  PROVE  Table(s, w, 0) /\ s.type = type /\ s.link = link /\ s.size = 0
<1>1. /\ DOMAIN s = DOMAIN sec /\ s.type = type /\ s.link = link /\ s.entsize = w
      /\ s.data = << >> /\ s.size = 0 /\ s.stream = 0
  BY DEF Fresh, Keys, Retyped
<1>2. << >> \in Seq(Nat) /\ Len(<< >>) = 0 /\ 0 * w = 0
  OBVIOUS
<1>3. Keys \subseteq DOMAIN s
  BY <1>1 DEF Fresh
<1>4. Shaped(s)
  BY ONLY <1>1, <1>2, <1>3, type # SHT_NOBITS DEF Shaped
<1>. QED
  BY ONLY <1>1, <1>2, <1>4 DEF Table


(* A new object has the empty section and the table of section names.      *)
LEMMA CreatedObject ==
  ASSUME NEW class, NEW encoding
  PROVE  LET t == Create(class, encoding)
         IN  /\ Object(t) /\ Len(t.secs) = 2
             /\ Typed(Sec(t, 0), SHT_NULL) /\ Typed(Sec(t, 1), SHT_STRTAB)
<1>. DEFINE hdr == CreateHeader(class, encoding)
            x == [hdr |-> hdr, secs |-> << >>, segs |-> << >>]
            c == CreateSection(x)
            e == AddSection(c, SHSTRTAB)
            names == [Sec(e, 1) EXCEPT !.type = SHT_STRTAB, !.align = 1]
            t == Create(class, encoding)
<1>1. t = Replace(e, 1, names)
  BY Zenon DEF Create, CreateMandatorySections
<1>2. hdr.shstrndx = 1
  <2>. DEFINE zero == [f \in ToSet(EhdrFields) |-> 0]
  <2>1. "shstrndx" \in DOMAIN zero
    BY DEF EhdrFields, ToSet
  <2>. DEFINE h1 == [zero EXCEPT !.magic = MAGIC, !.class = class, !.data = encoding]
              h2 == [h1 EXCEPT !.version = 1, !.ehsize = EhdrSize, !.shstrndx = 1]
              h3 == [h2 EXCEPT !.phentsize = PhdrSize, !.shentsize = ShdrSize]
  <2>2. hdr = h3
    BY Zenon DEF CreateHeader
  <2>. HIDE DEF zero, hdr
  <2>3. "shstrndx" \in DOMAIN h1
    BY ONLY <2>1
  <2>. HIDE DEF h1
  <2>4. "shstrndx" \in DOMAIN h2 /\ h2["shstrndx"] = 1
    BY ONLY <2>3
  <2>. HIDE DEF h2
  <2>5. h3["shstrndx"] = 1
    BY ONLY <2>4
  <2>. HIDE DEF h3
  <2>. QED
    BY ONLY <2>2, <2>5
<1>. HIDE DEF hdr
<1>3. Object(x) /\ Len(x.secs) = 0
  <2>1. IsSeq(<< >>)
    BY DEF IsSeq
  <2>. QED
    BY ONLY <1>2, <2>1 DEF Object
<1>. HIDE DEF x, c, e, names, t
<1>4. Object(c) /\ Len(c.secs) = 1 /\ Typed(Sec(c, 0), SHT_NULL)
  <2>1. Object(x)
    BY <1>3
  <2>2. /\ Object(c) /\ Len(c.secs) = Len(x.secs) + 1
        /\ Sec(c, Len(x.secs)) = [NewSection EXCEPT !.index = Len(x.secs)]
    BY ONLY <2>1, SectionCreated, Zenon DEF c
  <2>3. Typed([NewSection EXCEPT !.index = 0], SHT_NULL)
    BY TypeOfNew
  <2>. QED
    BY ONLY <1>3, <2>2, <2>3
<1>5. /\ Object(e) /\ Len(e.secs) = 2 /\ Typed(Sec(e, 0), SHT_NULL)
      /\ Typed(Sec(e, 1), SHT_NULL)
  <2>1. Len(c.secs) >= 1 /\ Len(c.secs) + 1 = 2 /\ 0 \in 0 .. (Len(c.secs) - 1) /\ 0 # 1
    BY <1>4
  <2>. QED
    BY ONLY <1>4, <2>1, SectionAdded DEF e
<1>6. /\ Object(t) /\ Len(t.secs) = 2
      /\ Typed(Sec(t, 0), SHT_NULL) /\ Typed(Sec(t, 1), SHT_STRTAB)
  <2>1. 0 \in 0 .. (Len(e.secs) - 1) /\ 1 \in 0 .. (Len(e.secs) - 1) /\ 0 # 1
    BY <1>5
  <2>4. /\ Object(t) /\ Len(t.secs) = Len(e.secs) /\ Sec(t, 1) = names
        /\ \A k \in 0 .. (Len(e.secs) - 1) : k # 1 => Sec(t, k) = Sec(e, k)
    <3>. DEFINE s == 1
    <3>1. Object(e) /\ s \in 0 .. (Len(e.secs) - 1) /\ t = Replace(e, s, names)
      BY <1>1, <1>5, <2>1
    <3>. HIDE DEF s
    <3>2. /\ Object(t) /\ Len(t.secs) = Len(e.secs) /\ Sec(t, s) = names
          /\ \A k \in 0 .. (Len(e.secs) - 1) : k # s => Sec(t, k) = Sec(e, k)
      BY ONLY <3>1, Replaced
    <3>. QED
      BY <3>2 DEF s
  <2>2. Object(t) /\ Len(t.secs) = 2 /\ Sec(t, 0) = Sec(e, 0) /\ Sec(t, 1) = names
    BY ONLY <1>5, <2>1, <2>4
  <2>3. Typed(names, SHT_STRTAB)
    BY <1>5 DEF names, Typed
  <2>. QED
    BY ONLY <1>5, <2>2, <2>3
<1>. QED
  BY <1>6 DEF t

(* The first two sections, and nothing that looks like a hash table.       *)
Heads(e) == Typed(Sec(e, 0), SHT_NULL) /\ Typed(Sec(e, 1), SHT_STRTAB)

(* The tables of a new object are empty.                                   *)
LEMMA NewObjectStands ==
  ASSUME NEW encoding, NEW type \in {SHT_REL, SHT_RELA}
  PROVE  Stands(NewObject(encoding, type), << >>, << >>)
<1>. DEFINE e1 == Create(CLASS32, encoding)
            e2 == AddSection(e1, <<2>>)
            e3 == AddSection(e2, <<3>>)
            e4 == AddSection(e3, <<4>>)
            As(i, kind, link) == [Sec(e4, i) EXCEPT !.type = kind, !.link = link,
                                                    !.entsize = GetDefaultEntrySize(kind)]
            str == As(Str, SHT_STRTAB, 0)
            sym == As(Sym, SHT_SYMTAB, Str)
            rel == As(Rel, type, Sym)
            t1 == Replace(e4, Str, str)
            t2 == Replace(t1, Sym, sym)
            t == NewObject(encoding, type)
<1>1. t = Replace(t2, Rel, rel)
  BY Zenon DEF NewObject
<1>2. /\ GetDefaultEntrySize(SHT_SYMTAB) = SymSize /\ GetDefaultEntrySize(SHT_STRTAB) = 0
      /\ GetDefaultEntrySize(type) = EntryWidth(type) /\ EntryWidth(type) \in Nat
      /\ SHT_SYMTAB # SHT_NOBITS /\ SHT_STRTAB # SHT_NOBITS /\ type # SHT_NOBITS
      /\ SymSize \in Nat /\ 0 \in Nat
  BY DEF GetDefaultEntrySize, EntryWidth, SHT_SYMTAB, SHT_STRTAB, SHT_NOBITS, SHT_REL,
         SHT_RELA, SHT_DYNAMIC, SymSize, RelSize, RelaSize
<1>3. Retyped(str, Sec(e4, Str), SHT_STRTAB, 0, 0)
  BY ONLY <1>2, Zenon DEF Retyped
<1>4. Retyped(sym, Sec(e4, Sym), SHT_SYMTAB, Str, SymSize)
  BY ONLY <1>2, Zenon DEF Retyped
<1>5. Retyped(rel, Sec(e4, Rel), type, Sym, EntryWidth(type))
  BY ONLY <1>2, Zenon DEF Retyped
<1>. HIDE DEF e1, e2, e3, e4, str, sym, rel, t1, t2, t
<1>6. /\ Object(e1) /\ Len(e1.secs) = 2 /\ Len(e1.secs) >= 1 /\ Len(e1.secs) # 1
      /\ Heads(e1)
  BY CreatedObject DEF e1, Heads
<1>19. ASSUME NEW x, Object(x), Len(x.secs) \in Nat, Len(x.secs) > 1, Heads(x), NEW name
       PROVE  Heads(AddSection(x, name))
  <2>1. Len(x.secs) >= 1 /\ Len(x.secs) # 1 /\ 0 \in 0 .. (Len(x.secs) - 1) /\ 0 # 1
    <3>. DEFINE n == Len(x.secs)
    <3>1. n \in Nat /\ n > 1
      BY <1>19
    <3>. HIDE DEF n
    <3>2. n >= 1 /\ n # 1 /\ 0 \in 0 .. (n - 1) /\ 0 # 1
      BY ONLY <3>1
    <3>. QED
      BY <3>2 DEF n
  <2>. DEFINE y == AddSection(x, name)
  <2>2. \A k \in 0 .. (Len(x.secs) - 1) : k # 1 => Sec(y, k) = Sec(x, k)
    BY ONLY <1>19, <2>1, SectionAdded
  <2>3. \A kind : Typed(Sec(x, 1), kind) => Typed(Sec(y, 1), kind)
    BY ONLY <1>19, <2>1, SectionAdded
  <2>. HIDE DEF y
  <2>4. Heads(y)
    BY ONLY <1>19, <2>1, <2>2, <2>3 DEF Heads
  <2>. QED
    BY <2>4 DEF y
<1>7. Object(e2) /\ Len(e2.secs) = 3 /\ Fresh(Sec(e2, 2)) /\ Heads(e2)
  <2>1. Object(e2) /\ Len(e2.secs) = Len(e1.secs) + 1 /\ Fresh(Sec(e2, Len(e1.secs)))
    BY ONLY <1>6, SectionAdded DEF e2
  <2>2. Len(e1.secs) \in Nat /\ Len(e1.secs) > 1
    BY <1>6
  <2>3. Heads(e2)
    BY ONLY <1>6, <1>19, <2>2 DEF e2
  <2>. QED
    BY ONLY <1>6, <2>1, <2>3
<1>8. /\ Object(e3) /\ Len(e3.secs) = 4 /\ Fresh(Sec(e3, 2)) /\ Fresh(Sec(e3, 3))
      /\ Heads(e3)
  <2>1. Len(e2.secs) >= 1 /\ Len(e2.secs) # 1 /\ 2 \in 0 .. (Len(e2.secs) - 1)
    BY ONLY <1>7
  <2>2. /\ Object(e3) /\ Len(e3.secs) = Len(e2.secs) + 1 /\ Fresh(Sec(e3, Len(e2.secs)))
        /\ \A k \in 0 .. (Len(e2.secs) - 1) : k # 1 => Sec(e3, k) = Sec(e2, k)
    BY ONLY <1>7, <2>1, SectionAdded DEF e3
  <2>3. Len(e2.secs) \in Nat /\ Len(e2.secs) > 1
    BY <1>7
  <2>4. Heads(e3)
    BY ONLY <1>7, <1>19, <2>3 DEF e3
  <2>. QED
    BY ONLY <1>7, <2>1, <2>2, <2>4
<1>9. /\ Object(e4) /\ Len(e4.secs) = 5 /\ Heads(e4)
      /\ Fresh(Sec(e4, Str)) /\ Fresh(Sec(e4, Sym)) /\ Fresh(Sec(e4, Rel))
  <2>1. /\ Len(e3.secs) >= 1 /\ Len(e3.secs) # 1
        /\ 2 \in 0 .. (Len(e3.secs) - 1) /\ 3 \in 0 .. (Len(e3.secs) - 1)
    BY ONLY <1>8
  <2>2. /\ Object(e4) /\ Len(e4.secs) = Len(e3.secs) + 1 /\ Fresh(Sec(e4, Len(e3.secs)))
        /\ \A k \in 0 .. (Len(e3.secs) - 1) : k # 1 => Sec(e4, k) = Sec(e3, k)
    BY ONLY <1>8, <2>1, SectionAdded DEF e4
  <2>3. Len(e3.secs) \in Nat /\ Len(e3.secs) > 1
    BY <1>8
  <2>4. Heads(e4)
    BY ONLY <1>8, <1>19, <2>3 DEF e4
  <2>. QED
    BY ONLY <1>8, <2>1, <2>2, <2>4 DEF Str, Sym, Rel
<1>10. /\ Shaped(str) /\ str.size = 0 /\ str.type = SHT_STRTAB /\ rel.type = type
       /\ Table(sym, SymSize, 0) /\ sym.link = Str
       /\ Table(rel, EntryWidth(rel.type), 0) /\ rel.link = Sym
  <2>1. Table(str, 0, 0) /\ str.size = 0 /\ str.type = SHT_STRTAB
    BY ONLY <1>2, <1>3, <1>9, FreshTable
  <2>2. Table(sym, SymSize, 0) /\ sym.link = Str
    BY ONLY <1>2, <1>4, <1>9, FreshTable
  <2>3. Table(rel, EntryWidth(type), 0) /\ rel.link = Sym /\ rel.type = type
    BY ONLY <1>2, <1>5, <1>9, FreshTable
  <2>. QED
    BY ONLY <2>1, <2>2, <2>3 DEF Table
<1>11. /\ Str \in 0 .. (Len(e4.secs) - 1) /\ Sym \in 0 .. (Len(e4.secs) - 1)
       /\ Rel \in 0 .. (Len(e4.secs) - 1) /\ Str # Sym /\ Sym # Rel /\ Str # Rel
       /\ Len(e4.secs) > Rel /\ Str = 2 /\ Sym = 3 /\ Rel = 4
       /\ \A k \in {0, 1} : k \in 0 .. (Len(e4.secs) - 1) /\ k # Str /\ k # Sym /\ k # Rel
  BY ONLY <1>9 DEF Str, Sym, Rel
<1>12. /\ Object(t1) /\ Len(t1.secs) = Len(e4.secs) /\ Sec(t1, Str) = str
       /\ \A k \in {0, 1} : Sec(t1, k) = Sec(e4, k)
  <2>1. Object(e4) /\ Str \in 0 .. (Len(e4.secs) - 1) /\ t1 = Replace(e4, Str, str)
    BY <1>9, <1>11 DEF t1
  <2>2. /\ Object(t1) /\ Len(t1.secs) = Len(e4.secs) /\ Sec(t1, Str) = str
        /\ \A k \in 0 .. (Len(e4.secs) - 1) : k # Str => Sec(t1, k) = Sec(e4, k)
    BY ONLY <2>1, Replaced
  <2>. QED
    BY ONLY <1>11, <2>2
<1>13. /\ Object(t2) /\ Len(t2.secs) = Len(e4.secs) /\ Sec(t2, Str) = str /\ Sec(t2, Sym) = sym
       /\ \A k \in {0, 1} : Sec(t2, k) = Sec(t1, k)
  BY ONLY <1>11, <1>12, Replaced DEF t2
<1>14. /\ Object(t) /\ Len(t.secs) = Len(e4.secs)
       /\ Sec(t, Str) = str /\ Sec(t, Sym) = sym /\ Sec(t, Rel) = rel
       /\ \A k \in {0, 1} : Sec(t, k) = Sec(t2, k)
  BY ONLY <1>1, <1>11, <1>13, Replaced
<1>20. Hashed(t, 0)
  <2>1. Typed(Sec(t, 0), SHT_NULL) /\ Typed(Sec(t, 1), SHT_STRTAB)
    <3>1. Sec(t, 0) = Sec(e4, 0) /\ Sec(t, 1) = Sec(e4, 1)
      BY ONLY <1>12, <1>13, <1>14
    <3>. QED
      BY ONLY <1>9, <3>1 DEF Heads
  <2>2. ASSUME NEW h \in 0 .. Rel PROVE ~IsHash(Sec(t, h))
    <3>1. \/ Sec(t, h).link # Sym
          \/ Sec(t, h).type \in {SHT_NULL, SHT_STRTAB, SHT_REL, SHT_RELA}
      <4>1. h = 0 \/ h = 1 \/ h = Str \/ h = Sym \/ h = Rel
        BY ONLY <1>11, h \in 0 .. Rel
      <4>. QED
        BY <1>10, <1>11, <1>14, <2>1, <4>1 DEF Typed
    <3>2. {SHT_NULL, SHT_STRTAB, SHT_REL, SHT_RELA} \cap {SHT_HASH, SHT_GNU_HASH} = {}
      BY DEF SHT_NULL, SHT_STRTAB, SHT_REL, SHT_RELA, SHT_HASH, SHT_GNU_HASH
    <3>. QED
      BY ONLY <3>1, <3>2 DEF IsHash
  <2>3. (Rel + 1) .. (Len(t.secs) - 1) = {}
    BY ONLY <1>9, <1>11, <1>14
  <2>. QED
    BY ONLY <2>1, <2>2, <2>3 DEF Hashed
<1>15. Tables(t, 0, 0)
  BY ONLY <1>10, <1>11, <1>14, <1>20 DEF Tables, EmptyFirst
<1>16. Holds(t, << >>, << >>)
  BY ONLY <1>15 DEF Holds, Rows, Represents, Refers
<1>17. MaxSymbols \in Nat /\ Longest \in Nat
  BY SymbolsAssumption, RadixAssumption, LongestBounds DEF Digit
<1>18. Stands(t, << >>, << >>)
  BY ONLY <1>10, <1>14, <1>16, <1>17 DEF Stands
<1>. QED
  BY <1>18 DEF t

-------------------------------------------------------------------------------
(***************************************************************************)
(* The hash functions, and the tables a linker makes with them.            *)
(***************************************************************************)
Closed(g, S, n) == \A h \in S, i \in 1 .. n : g[<<h, i>>] \in S

IsRun(f, g, S, base, n) ==
  f \in [0 .. n -> S] /\ f[0] = base /\ \A i \in 1 .. n : f[i] = g[<<f[i - 1], i>>]

(* A function that is defined by its first value and a step exists.        *)
LEMMA RunExists ==
  ASSUME NEW S, NEW base \in S, NEW n \in Nat, NEW g, Closed(g, S, n)
  PROVE  \E f : IsRun(f, g, S, base, n)
<1>. DEFINE Run(f, m) == /\ f \in [0 .. n -> S] /\ f[0] = base
                         /\ \A i \in 1 .. m : f[i] = g[<<f[i - 1], i>>]
            T == {m \in Nat : m <= n => \E f : Run(f, m)}
<1>1. 0 \in T
  <2>1. Run([i \in 0 .. n |-> base], 0)
    OBVIOUS
  <2>. QED
    BY <2>1
<1>2. ASSUME NEW m \in Nat, m \in T PROVE m + 1 \in T
  <2>. SUFFICES ASSUME m + 1 <= n PROVE \E f : Run(f, m + 1)
    OBVIOUS
  <2>1. PICK f : Run(f, m)
    BY <1>2
  <2>. DEFINE new == g[<<f[m], m + 1>>]
              k == [f EXCEPT ![m + 1] = new]
  <2>2. f[m] \in S /\ m + 1 \in 1 .. n /\ new \in S
    <3>1. m \in 0 .. n /\ m + 1 \in 1 .. n
      OBVIOUS
    <3>. QED
      BY <2>1, <3>1 DEF Closed
  <2>. HIDE DEF new
  <2>3. k \in [0 .. n -> S] /\ k[0] = base
    BY <2>1, <2>2
  <2>4. ASSUME NEW i \in 1 .. (m + 1) PROVE k[i] = g[<<k[i - 1], i>>]
    <3>1. i \in 0 .. n /\ i - 1 \in 0 .. n /\ i - 1 # m + 1
      OBVIOUS
    <3>2. k[i - 1] = f[i - 1]
      BY <2>1, <3>1
    <3>3. CASE i = m + 1
      <4>1. k[m + 1] = new /\ i - 1 = m
        BY <2>1, <2>2, <3>3
      <4>. QED
        BY <3>2, <3>3, <4>1 DEF new
    <3>4. CASE i # m + 1
      <4>1. k[i] = f[i] /\ i \in 1 .. m
        BY <2>1, <3>1, <3>4
      <4>. QED
        BY <2>1, <3>2, <4>1
    <3>. QED
      BY <3>3, <3>4
  <2>. HIDE DEF k
  <2>5. Run(k, m + 1)
    BY <2>3, <2>4
  <2>. HIDE DEF Run
  <2>. QED
    BY <2>5
<1>3. Nat \subseteq T
  <2>. HIDE DEF T
  <2>. QED
    BY <1>1, <1>2, SetInduction
<1>4. PICK f : Run(f, n)
  <2>1. n \in T /\ n <= n
    <3>. HIDE DEF T
    <3>. QED
      BY <1>3
  <2>. HIDE DEF Run
  <2>. QED
    BY <2>1
<1>. QED
  BY <1>4 DEF IsRun

(* Its values stay in a set the step does not leave.                       *)
LEMMA RunStays ==
  ASSUME NEW S, NEW n \in Nat, NEW f, f[0] \in S,
         \A i \in 1 .. n : f[i - 1] \in S => f[i] \in S
  PROVE  f[n] \in S
<1>. DEFINE T == {m \in Nat : m <= n => f[m] \in S}
<1>1. 0 \in T
  OBVIOUS
<1>2. ASSUME NEW m \in Nat, m \in T PROVE m + 1 \in T
  <2>. SUFFICES ASSUME m + 1 <= n PROVE f[m + 1] \in S
    OBVIOUS
  <2>1. m + 1 \in 1 .. n /\ (m + 1) - 1 = m /\ f[m] \in S
    BY <1>2
  <2>. QED
    BY <2>1
<1>3. Nat \subseteq T
  <2>. HIDE DEF T
  <2>. QED
    BY <1>1, <1>2, SetInduction
<1>. QED
  BY <1>3

ElfStep(h, c) ==
  LET shifted == (h * 4 + c) % 256
      top     == shifted \div 64
      second  == (shifted \div 4) % 4
  IN  shifted - top * 64 + (Xor(second, top) - second) * 4

GnuStep(h, c) == (h * 33 + c) % Hashes

(* elf_hash returns a number, elf_gnu_hash one of Hashes                   *)
(* (elfio_utils.hpp:210-238).                                              *)
LEMMA HashesAre ==
  ASSUME NEW name \in Seq(Nat)
  PROVE  ElfHash(name) \in Int /\ ElfGnuHash(name) \in 0 .. (Hashes - 1)
<1>. DEFINE n == Len(name)
            D == 0 .. (Hashes - 1)
<1>1. Hashes \in Nat /\ Hashes > 0
  BY RadixAssumption DEF Hashes
<1>2. n \in Nat /\ \A i \in 1 .. n : name[i] \in Int
  OBVIOUS
<1>3. \A h, c \in Int : ElfStep(h, c) \in Int
  <2>1. \A a, b \in Int : Xor(a, b) \in Int
    BY DEF Xor
  <2>2. ASSUME NEW h \in Int, NEW c \in Int PROVE ElfStep(h, c) \in Int
    <3>. DEFINE shifted == (h * 4 + c) % 256
                top == shifted \div 64
                second == (shifted \div 4) % 4
    <3>1. shifted \in Int /\ top \in Int /\ second \in Int
      OBVIOUS
    <3>2. Xor(second, top) \in Int
      BY ONLY <2>1, <3>1
    <3>3. ElfStep(h, c) = shifted - top * 64 + (Xor(second, top) - second) * 4
      BY DEF ElfStep
    <3>. HIDE DEF shifted, top, second
    <3>. QED
      BY ONLY <3>1, <3>2, <3>3
  <2>. QED
    BY <2>2
<1>4. \A h, c \in Int : GnuStep(h, c) \in D
  BY <1>1 DEF GnuStep
<1>. HIDE DEF n
<1>5. ElfHash(name) \in Int
  <2>. DEFINE F == CHOOSE f : f = [i \in 0 .. n |-> IF i = 0 THEN 0
                                                    ELSE ElfStep(f[i - 1], name[i])]
              g == [q \in Int \X (1 .. n) |-> ElfStep(q[1], name[q[2]])]
  <2>1. ElfHash(name) = F[n]
    BY DEF ElfHash, ElfStep, Loop, n
  <2>2. PICK f \in [0 .. n -> Int] : f[0] = 0 /\ \A i \in 1 .. n : f[i] = g[<<f[i - 1], i>>]
    <3>1. Closed(g, Int, n)
      BY <1>2, <1>3 DEF Closed
    <3>2. 0 \in Int
      OBVIOUS
    <3>. HIDE DEF g
    <3>3. \E f : IsRun(f, g, Int, 0, n)
      BY ONLY <1>2, <3>1, <3>2, RunExists
    <3>. QED
      BY ONLY <3>3 DEF IsRun
  <2>3. f = [i \in 0 .. n |-> IF i = 0 THEN 0 ELSE ElfStep(f[i - 1], name[i])]
    <3>1. ASSUME NEW i \in 0 .. n, i # 0 PROVE f[i] = ElfStep(f[i - 1], name[i])
      <4>1. i \in 1 .. n /\ i - 1 \in 0 .. n
        BY <1>2, <3>1
      <4>2. f[i - 1] \in Int
        BY <4>1
      <4>. QED
        BY <2>2, <4>1, <4>2
    <3>. QED
      BY <2>2, <3>1
  <2>4. F = [i \in 0 .. n |-> IF i = 0 THEN 0 ELSE ElfStep(F[i - 1], name[i])]
    BY <2>3
  <2>. HIDE DEF F
  <2>5. F[0] \in Int
    BY <1>2, <2>4
  <2>6. ASSUME NEW i \in 1 .. n, F[i - 1] \in Int PROVE F[i] \in Int
    <3>1. F[i] = ElfStep(F[i - 1], name[i])
      BY <1>2, <2>4
    <3>. QED
      BY <1>2, <1>3, <2>6, <3>1
  <2>7. F[n] \in Int
    BY ONLY <1>2, <2>5, <2>6, RunStays
  <2>. QED
    BY <2>1, <2>7
<1>6. ElfGnuHash(name) \in D
  <2>. DEFINE base == 5381 % Hashes
              F == CHOOSE f : f = [i \in 0 .. n |-> IF i = 0 THEN base
                                                    ELSE GnuStep(f[i - 1], name[i])]
              g == [q \in D \X (1 .. n) |-> GnuStep(q[1], name[q[2]])]
  <2>1. ElfGnuHash(name) = F[n]
    BY DEF ElfGnuHash, GnuStep, Loop, n
  <2>8. base \in D /\ D \subseteq Int
    BY <1>1
  <2>. HIDE DEF base, D
  <2>2. PICK f \in [0 .. n -> D] : f[0] = base /\ \A i \in 1 .. n : f[i] = g[<<f[i - 1], i>>]
    <3>1. Closed(g, D, n)
      BY <1>2, <1>4, <2>8 DEF Closed
    <3>. HIDE DEF g
    <3>2. \E f : IsRun(f, g, D, base, n)
      BY ONLY <1>2, <2>8, <3>1, RunExists
    <3>. QED
      BY ONLY <3>2 DEF IsRun
  <2>3. f = [i \in 0 .. n |-> IF i = 0 THEN base ELSE GnuStep(f[i - 1], name[i])]
    <3>1. ASSUME NEW i \in 0 .. n, i # 0 PROVE f[i] = GnuStep(f[i - 1], name[i])
      <4>1. i \in 1 .. n /\ i - 1 \in 0 .. n
        BY <1>2, <3>1
      <4>2. f[i - 1] \in D
        BY <4>1
      <4>. QED
        BY <2>2, <4>1, <4>2
    <3>. QED
      BY <2>2, <3>1
  <2>4. F = [i \in 0 .. n |-> IF i = 0 THEN base ELSE GnuStep(F[i - 1], name[i])]
    BY <2>3
  <2>. HIDE DEF F
  <2>5. F[0] \in D
    BY <1>2, <2>4, <2>8
  <2>6. ASSUME NEW i \in 1 .. n, F[i - 1] \in D PROVE F[i] \in D
    <3>1. F[i] = GnuStep(F[i - 1], name[i])
      BY <1>2, <2>4
    <3>. QED
      BY <1>2, <1>4, <2>6, <2>8, <3>1
  <2>7. F[n] \in D
    BY ONLY <1>2, <2>5, <2>6, RunStays
  <2>. QED
    BY <2>1, <2>7
<1>. QED
  BY <1>5, <1>6

(* The cells of a head and of what follows it.                             *)
Joins(t, head, rest) ==
  /\ Len(t) = Len(head) + Len(rest)
  /\ \A c \in 1 .. Len(head) : t[c] = head[c]
  /\ \A c \in 1 .. Len(rest) : t[Len(head) + c] = rest[c]

(* Two sequences one behind the other.                                     *)
LEMMA Joined ==
  ASSUME NEW S, NEW head \in Seq(S), NEW rest \in Seq(S)
  PROVE  Joins(head \o rest, head, rest)
<1>. DEFINE t == head \o rest
<1>1. /\ Len(t) = Len(head) + Len(rest)
      /\ \A c \in 1 .. Len(head) + Len(rest) :
           t[c] = IF c <= Len(head) THEN head[c] ELSE rest[c - Len(head)]
  BY ConcatProperties, Zenon
<1>2. Len(head) \in Nat /\ Len(rest) \in Nat
  OBVIOUS
<1>. HIDE DEF t
<1>3. ASSUME NEW c \in 1 .. Len(head) PROVE t[c] = head[c]
  <2>1. c \in 1 .. Len(head) + Len(rest) /\ c <= Len(head)
    BY ONLY <1>2, c \in 1 .. Len(head)
  <2>. QED
    BY ONLY <1>1, <2>1, Zenon
<1>4. ASSUME NEW c \in 1 .. Len(rest) PROVE t[Len(head) + c] = rest[c]
  <2>1. /\ Len(head) + c \in 1 .. Len(head) + Len(rest) /\ ~(Len(head) + c <= Len(head))
        /\ (Len(head) + c) - Len(head) = c
    BY ONLY <1>2, c \in 1 .. Len(rest)
  <2>. QED
    BY ONLY <1>1, <2>1
<1>5. Joins(t, head, rest)
  BY ONLY <1>1, <1>3, <1>4 DEF Joins
<1>. QED
  BY ONLY <1>5 DEF t

(* The number of the last symbol in a chain, 0 when it is empty.           *)
NumberOfLast(S) ==
  LET last == IF S = {} THEN 0 ELSE CHOOSE i \in S : \A j \in S : i >= j
  IN  IF last = 0 THEN 0 ELSE last - 1

(* It is one of the symbols before row k of the table.                     *)
LEMMA LastBelow ==
  ASSUME NEW k \in Nat \ {0}, NEW S \in SUBSET (2 .. k)
  PROVE  NumberOfLast(S) \in 0 .. (k - 1)
<1>1. CASE S = {}
  BY <1>1 DEF NumberOfLast
<1>2. CASE S # {}
  <2>. DEFINE T == {k - i : i \in S}
              last == CHOOSE i \in S : \A j \in S : i >= j
  <2>1. T \in SUBSET Nat /\ T # {}
    <3>1. \A i \in S : k - i \in Nat
      OBVIOUS
    <3>2. PICK i \in S : TRUE
      BY <1>2
    <3>3. k - i \in T
      BY <3>2
    <3>. QED
      BY ONLY <3>1, <3>3 DEF T
  <2>2. PICK x \in T : \A y \in T : x <= y
    <3>. HIDE DEF T
    <3>. QED
      BY <2>1, Smallest
  <2>3. \E i \in S : \A j \in S : i >= j
    <3>1. PICK i \in S : x = k - i
      BY <2>2
    <3>2. ASSUME NEW j \in S PROVE i >= j
      <4>1. x <= k - j
        BY <2>2
      <4>. QED
        BY <3>1, <4>1
    <3>. QED
      BY <3>2
  <2>4. last \in 2 .. k
    BY <2>3
  <2>5. NumberOfLast(S) = IF last = 0 THEN 0 ELSE last - 1
    BY <1>2 DEF NumberOfLast
  <2>. HIDE DEF last
  <2>. QED
    BY <2>4, <2>5
<1>. QED
  BY <1>1, <1>2

(* Small numbers are fields.                                               *)
LEMMA SmallFields ==
  /\ 0 .. Radix \subseteq Field /\ {1, 2} \subseteq Field
  /\ \A h \in 0 .. (Hashes - 1) : (h \div 2) * 2 + 1 \in Field
<1>1. Radix \in Nat /\ Radix >= 2 /\ Radix * Radix \in Nat
  BY RadixAssumption
<1>2. Radix * Radix >= 2 * Radix
  BY ONLY <1>1
<1>3. Field = 0 .. (Radix * Radix - 1) /\ Hashes = Radix * Radix
  BY DEF Field, Hashes
<1>4. \E r \in Nat : Radix * Radix = 2 * r
  <2>1. Radix % 2 = 0
    BY SymbolsAssumption
  <2>2. PICK q \in Nat : Radix = 2 * q
    <3>1. Radix = 2 * (Radix \div 2) /\ Radix \div 2 \in Nat
      BY ONLY <1>1, <2>1
    <3>. QED
      BY <3>1
  <2>3. Radix * Radix = 2 * (q * Radix) /\ q * Radix \in Nat
    BY ONLY <1>1, <2>2
  <2>. QED
    BY <2>3
<1>. DEFINE all == Radix * Radix
<1>5. all \in Nat /\ all >= 2 * Radix /\ \E r \in Nat : all = 2 * r
  BY <1>1, <1>2, <1>4
<1>6. Field = 0 .. (all - 1) /\ Hashes = all
  BY <1>3
<1>. HIDE DEF all
<1>7. 0 .. Radix \subseteq Field /\ {1, 2} \subseteq Field
  BY ONLY <1>1, <1>5, <1>6
<1>8. ASSUME NEW h \in 0 .. (all - 1) PROVE (h \div 2) * 2 + 1 \in 0 .. (all - 1)
  BY ONLY <1>5, h \in 0 .. (all - 1)
<1>. QED
  BY <1>6, <1>7, <1>8

(* In the SysV table every chain goes down.                                *)
LEMMA SysVDescends ==
  ASSUME NEW m \in Nat, m > 0, NEW names, Len(names) = m
  PROVE  LET t == SysVTable(names)
         IN  /\ Len(t) = 4 + m /\ t[1] = 2 /\ t[2] = m
             /\ t[3] \in 0 .. (m - 1) /\ t[4] \in 0 .. (m - 1)
             /\ \A y \in 1 .. (m - 1) : t[4 + (y + 1)] \in 0 .. (y - 1)
<1>. DEFINE C(b) == {i \in 2 .. Len(names) : ElfHash(names[i]) % 2 = b}
            Before(i) == {j \in C(ElfHash(names[i]) % 2) : j < i}
            head == <<2, Len(names), NumberOfLast(C(0)), NumberOfLast(C(1))>>
            rest == [i \in 1 .. Len(names) |-> IF i = 1 THEN 0 ELSE NumberOfLast(Before(i))]
            t == SysVTable(names)
<1>1. t = head \o rest
  BY Zenon DEF SysVTable, NumberOfLast
<1>2. C(0) \in SUBSET (2 .. m) /\ C(1) \in SUBSET (2 .. m)
  OBVIOUS
<1>3. ASSUME NEW i \in 2 .. m PROVE Before(i) \in SUBSET (2 .. (i - 1)) /\ i - 1 \in Nat \ {0}
  OBVIOUS
<1>. HIDE DEF C, Before, t
<1>4. NumberOfLast(C(0)) \in 0 .. (m - 1) /\ NumberOfLast(C(1)) \in 0 .. (m - 1)
  BY <1>2, LastBelow
<1>5. ASSUME NEW i \in 2 .. m PROVE NumberOfLast(Before(i)) \in 0 .. (i - 2)
  <2>. DEFINE k == i - 1
  <2>1. k \in Nat \ {0} /\ Before(i) \in SUBSET (2 .. k) /\ k - 1 = i - 2
    BY <1>3
  <2>. HIDE DEF k
  <2>2. NumberOfLast(Before(i)) \in 0 .. (k - 1)
    BY ONLY <2>1, LastBelow
  <2>. QED
    BY <2>1, <2>2
<1>6. rest \in Seq(Nat) /\ Len(rest) = m
  <2>1. rest \in [1 .. m -> Nat]
    <3>1. ASSUME NEW i \in 1 .. m, i # 1 PROVE NumberOfLast(Before(i)) \in Nat
      <4>1. i \in 2 .. m
        BY <3>1
      <4>. QED
        BY <1>5, <4>1
    <3>. QED
      BY <3>1
  <2>. HIDE DEF rest
  <2>. QED
    BY <2>1, FunctionIsSeq
<1>7. head \in Seq(Nat) /\ Len(head) = 4
  BY <1>4
<1>8. \A i \in 1 .. m : rest[i] = IF i = 1 THEN 0 ELSE NumberOfLast(Before(i))
  OBVIOUS
<1>9. /\ head[1] = 2 /\ head[2] = m
      /\ head[3] \in 0 .. (m - 1) /\ head[4] \in 0 .. (m - 1)
  BY <1>4
<1>. HIDE DEF head, rest
<1>10. /\ Len(t) = 4 + m
       /\ \A c \in 1 .. 4 : t[c] = head[c]
       /\ \A c \in 1 .. m : t[4 + c] = rest[c]
  <2>1. head \in Seq(Nat) /\ rest \in Seq(Nat)
    BY <1>6, <1>7
  <2>2. Joins(head \o rest, head, rest)
    BY ONLY <2>1, Joined, Zenon
  <2>3. Joins(t, head, rest)
    BY ONLY <1>1, <2>2
  <2>. QED
    BY ONLY <1>6, <1>7, <2>3 DEF Joins
<1>11. ASSUME NEW y \in 1 .. (m - 1) PROVE t[4 + (y + 1)] \in 0 .. (y - 1)
  <2>1. y + 1 \in 2 .. m /\ y + 1 \in 1 .. m /\ y + 1 # 1 /\ (y + 1) - 2 = y - 1
    OBVIOUS
  <2>2. t[4 + (y + 1)] = NumberOfLast(Before(y + 1))
    BY <1>8, <1>10, <2>1
  <2>3. NumberOfLast(Before(y + 1)) \in 0 .. ((y + 1) - 2)
    BY <1>5, <2>1
  <2>. QED
    BY <2>1, <2>2, <2>3
<1>. QED
  BY <1>9, <1>10, <1>11 DEF t

(* In the GNU table the last cell is odd, and a search begins before it.   *)
LEMMA GnuEnds ==
  ASSUME NEW m \in Nat, m > 0, NEW names, Len(names) = m,
         \A i \in 2 .. m : names[i] \in Seq(Nat)
  PROVE  LET t == GnuTable(names)
         IN  /\ Len(t) = 6 + (m - 1) /\ t[1] = 1 /\ t[2] = 1 /\ t[3] = 1
             /\ t[6] = IF m > 1 THEN 1 ELSE 0
             /\ m > 1 => t[6 + (m - 1)] \in Field /\ t[6 + (m - 1)] % 2 = 1
<1>. DEFINE hash(i) == ElfGnuHash(names[i])
            Bits == UNION {{hash(i) % FilterBits, (hash(i) \div 4) % FilterBits} : i \in 2 .. Len(names)}
            filter == Loop(LAMBDA sum, b : IF b - 1 \in Bits THEN sum + Pow2[b - 1] ELSE sum,
                           0, [b \in 1 .. FilterBits |-> b])
            rest == [i \in 1 .. (Len(names) - 1) |->
                      (hash(i + 1) \div 2) * 2 + (IF i = Len(names) - 1 THEN 1 ELSE 0)]
            t == GnuTable(names)
<1>1. \E f : t = <<1, 1, 1, 2, f, IF Len(names) > 1 THEN 1 ELSE 0>> \o rest
  <2>1. t = <<1, 1, 1, 2, filter, IF Len(names) > 1 THEN 1 ELSE 0>> \o rest
    BY Zenon DEF GnuTable
  <2>. QED
    BY <2>1, Zenon
<1>. HIDE DEF t, filter
<1>2. PICK f : t = <<1, 1, 1, 2, f, IF Len(names) > 1 THEN 1 ELSE 0>> \o rest
  BY <1>1
<1>. DEFINE head == <<1, 1, 1, 2, f, IF Len(names) > 1 THEN 1 ELSE 0>>
            S == Int \cup {f}
<1>3. \A i \in 2 .. m : hash(i) \in 0 .. (Hashes - 1)
  BY HashesAre
<1>4. Hashes \in Nat
  BY RadixAssumption DEF Hashes
<1>. HIDE DEF hash
<1>5. rest \in Seq(S) /\ Len(rest) = m - 1
  <2>1. rest \in [1 .. (m - 1) -> S]
    <3>1. ASSUME NEW i \in 1 .. (m - 1) PROVE hash(i + 1) \in Int
      <4>1. i + 1 \in 2 .. m
        OBVIOUS
      <4>. QED
        BY <1>3, <1>4, <4>1
    <3>. QED
      BY <3>1
  <2>2. m - 1 \in Nat
    OBVIOUS
  <2>. HIDE DEF rest
  <2>. QED
    BY <2>1, <2>2, FunctionIsSeq
<1>6. /\ head \in Seq(S) /\ Len(head) = 6
      /\ head[1] = 1 /\ head[2] = 1 /\ head[3] = 1 /\ head[6] = IF m > 1 THEN 1 ELSE 0
  OBVIOUS
<1>7. ASSUME m > 1 PROVE rest[m - 1] = (hash(m) \div 2) * 2 + 1
  <2>1. m - 1 \in 1 .. (Len(names) - 1) /\ (m - 1) + 1 = m /\ m - 1 = Len(names) - 1
    BY <1>7
  <2>. QED
    BY <2>1
<1>. HIDE DEF head, rest, S
<1>8. /\ Len(t) = 6 + (m - 1)
      /\ \A c \in 1 .. 6 : t[c] = head[c]
      /\ \A c \in 1 .. (m - 1) : t[6 + c] = rest[c]
  <2>1. head \in Seq(S) /\ rest \in Seq(S)
    BY <1>5, <1>6
  <2>2. Joins(head \o rest, head, rest)
    BY ONLY <2>1, Joined, Zenon
  <2>3. t = head \o rest
    BY <1>2 DEF head
  <2>4. Joins(t, head, rest)
    BY ONLY <2>2, <2>3
  <2>. QED
    BY ONLY <1>5, <1>6, <2>4 DEF Joins
<1>9. ASSUME m > 1 PROVE t[6 + (m - 1)] \in Field /\ t[6 + (m - 1)] % 2 = 1
  <2>. DEFINE h == hash(m)
  <2>1. h \in 0 .. (Hashes - 1) /\ m - 1 \in 1 .. (m - 1)
    BY <1>3, <1>9
  <2>2. t[6 + (m - 1)] = (h \div 2) * 2 + 1
    BY <1>7, <1>8, <1>9, <2>1
  <2>. HIDE DEF h
  <2>3. (h \div 2) * 2 + 1 \in Field
    BY ONLY <2>1, SmallFields
  <2>4. ((h \div 2) * 2 + 1) % 2 = 1
    BY ONLY <1>4, <2>1
  <2>. QED
    BY <2>2, <2>3, <2>4
<1>. QED
  BY <1>6, <1>8, <1>9 DEF t

(* Cells that hold a table, in the byte order of the file.                 *)
HoldsTable(sec, encoding, t) ==
  \A c \in 0 .. (Len(t) - 1) : t[c + 1] \in Field => CellIn(sec, encoding, c) = t[c + 1]

GivenTable(s, sec, type, link, encoding, t) ==
  s = SetData([sec EXCEPT !.type = type, !.link = link],
              [i \in 1 .. Len(t) |-> Convert(encoding, t[i])])

(* A section that is given a table holds it.                               *)
LEMMA DataIsSet ==
  ASSUME NEW sec, Fresh(sec), NEW type, type # SHT_NOBITS, NEW link, NEW encoding,
         NEW t, Len(t) \in Nat, NEW s, GivenTable(s, sec, type, link, encoding, t)
  PROVE  s.type = type /\ s.link = link /\ HoldsTable(s, encoding, t)
<1>. DEFINE cells == [i \in 1 .. Len(t) |-> Convert(encoding, t[i])]
<1>1. s.type = type /\ s.link = link /\ s.data = cells
  <2>. DEFINE u == [sec EXCEPT !.type = type, !.link = link]
  <2>1. Keys \subseteq DOMAIN u /\ u.type = type /\ u.link = link
    BY DEF Fresh, Keys
  <2>2. s = SetData(u, cells)
    BY DEF GivenTable
  <2>. HIDE DEF u, cells
  <2>. QED
    BY <2>1, <2>2 DEF SetData, Keys
<1>2. ASSUME NEW c \in 0 .. (Len(t) - 1), t[c + 1] \in Field
      PROVE  CellIn(s, encoding, c) = t[c + 1]
  <2>1. c + 1 \in 1 .. Len(t)
    OBVIOUS
  <2>2. s.data[c + 1] = Convert(encoding, t[c + 1])
    BY <1>1, <2>1
  <2>3. Convert(encoding, Convert(encoding, t[c + 1])) = t[c + 1]
    BY <1>2, ConvertBack
  <2>. QED
    BY ONLY <2>2, <2>3 DEF CellIn
<1>. QED
  BY <1>1, <1>2 DEF HoldsTable

(* The SysV table can be searched.                                         *)
LEMMA SysVSearchable ==
  ASSUME NEW m \in Nat, m > 0, m <= Radix, NEW names, Len(names) = m, NEW sec, NEW encoding,
         HoldsTable(sec, encoding, SysVTable(names))
  PROVE  ChainsDescend(sec, encoding, m)
<1>. DEFINE t == SysVTable(names)
            C(c) == CellIn(sec, encoding, c)
<1>1. /\ Len(t) = 4 + m /\ t[1] = 2 /\ t[2] = m
      /\ t[3] \in 0 .. (m - 1) /\ t[4] \in 0 .. (m - 1)
      /\ \A y \in 1 .. (m - 1) : t[4 + (y + 1)] \in 0 .. (y - 1)
  BY SysVDescends
<1>2. \A c \in 0 .. (Len(t) - 1) : t[c + 1] \in Field => C(c) = t[c + 1]
  BY DEF HoldsTable
<1>3. 0 .. m \subseteq Field /\ 2 \in Field
  BY SmallFields, RadixAssumption
<1>. HIDE DEF t, C
<1>4. C(0) = 2 /\ C(1) = m /\ C(2) \in 0 .. (m - 1) /\ C(3) \in 0 .. (m - 1)
  <2>1. /\ 0 \in 0 .. (Len(t) - 1) /\ 1 \in 0 .. (Len(t) - 1)
        /\ 2 \in 0 .. (Len(t) - 1) /\ 3 \in 0 .. (Len(t) - 1)
        /\ 0 + 1 = 1 /\ 1 + 1 = 2 /\ 2 + 1 = 3 /\ 3 + 1 = 4
    BY ONLY <1>1, m \in Nat
  <2>2. t[1] \in Field /\ t[2] \in Field /\ t[3] \in Field /\ t[4] \in Field
    BY ONLY <1>1, <1>3, m \in Nat
  <2>. QED
    BY ONLY <1>1, <1>2, <2>1, <2>2
<1>5. ASSUME NEW y \in 1 .. (m - 1) PROVE C(2 + 2 + y) \in 0 .. (y - 1)
  <2>. DEFINE c == 2 + 2 + y
  <2>1. c \in 0 .. (Len(t) - 1) /\ c + 1 = 4 + (y + 1)
    BY ONLY <1>1, m \in Nat, y \in 1 .. (m - 1)
  <2>2. t[c + 1] \in 0 .. (y - 1)
    BY <1>1, <2>1
  <2>3. t[c + 1] \in Field
    BY ONLY <1>3, <2>2, m \in Nat, y \in 1 .. (m - 1)
  <2>. HIDE DEF c
  <2>4. C(c) = t[c + 1]
    BY ONLY <1>2, <2>1, <2>3
  <2>. QED
    BY <2>2, <2>4 DEF c
<1>6. \A b \in 0 .. (2 - 1) : C(2 + b) \in 0 .. (m - 1)
  <2>. SUFFICES ASSUME NEW b \in 0 .. (2 - 1) PROVE C(2 + b) \in 0 .. (m - 1)
    OBVIOUS
  <2>1. 2 + b = 2 \/ 2 + b = 3
    OBVIOUS
  <2>. QED
    BY ONLY <1>4, <2>1
<1>7. 2 \in Nat \ {0} /\ m \in 0 .. m
  OBVIOUS
<1>. QED
  BY ONLY <1>4, <1>5, <1>6, <1>7 DEF ChainsDescend, C

(* So can the GNU table.                                                   *)
LEMMA GnuSearchable ==
  ASSUME NEW m \in Nat, m > 1, m <= Radix, NEW names, Len(names) = m,
         \A i \in 2 .. m : names[i] \in Seq(Nat), NEW sec, NEW encoding,
         HoldsTable(sec, encoding, GnuTable(names))
  PROVE  ChainsEnd(sec, encoding)
<1>. DEFINE t == GnuTable(names)
            C(c) == CellIn(sec, encoding, c)
            k == m - 2
            one == 1
<1>1. /\ Len(t) = 6 + (m - 1) /\ t[1] = one /\ t[2] = one /\ t[3] = one /\ t[6] = one
      /\ t[6 + (m - 1)] \in Field /\ t[6 + (m - 1)] % 2 = 1
  BY GnuEnds
<1>2. \A c \in 0 .. (Len(t) - 1) : t[c + 1] \in Field => C(c) = t[c + 1]
  BY DEF HoldsTable
<1>3. one \in Field
  BY SmallFields
<1>4. one \in Nat \ {0} /\ one = 1
  OBVIOUS
<1>. HIDE DEF t, C, one
<1>5. C(0) = one /\ C(1) = one /\ C(2) = one /\ C(5) = one
  <2>1. /\ 0 \in 0 .. (Len(t) - 1) /\ 1 \in 0 .. (Len(t) - 1)
        /\ 2 \in 0 .. (Len(t) - 1) /\ 5 \in 0 .. (Len(t) - 1)
        /\ 0 + 1 = 1 /\ 1 + 1 = 2 /\ 2 + 1 = 3 /\ 5 + 1 = 6
    BY ONLY <1>1, m \in Nat, m > 1
  <2>. QED
    BY ONLY <1>1, <1>2, <1>3, <2>1
<1>6. C(6 + k) % 2 = 1 /\ k \in Nat
  <2>. DEFINE c == 6 + k
  <2>1. c \in 0 .. (Len(t) - 1) /\ c + 1 = 6 + (m - 1) /\ k \in Nat
    BY ONLY <1>1, m \in Nat, m > 1
  <2>2. C(c) = t[c + 1]
    <3>. HIDE DEF c
    <3>. QED
      BY ONLY <1>1, <1>2, <2>1
  <2>. QED
    BY ONLY <1>1, <2>1, <2>2
<1>7. \A b \in 0 .. (C(0) - 1) :
        /\ C(4 + C(2) + b) \in Nat
        /\ C(4 + C(2) + b) >= C(1) =>
             ChainEnds(sec, encoding, 4 + C(2) + C(0), C(4 + C(2) + b) - C(1))
  <2>. SUFFICES ASSUME NEW b \in 0 .. (C(0) - 1)
                PROVE  /\ C(4 + C(2) + b) \in Nat
                       /\ ChainEnds(sec, encoding, 4 + C(2) + C(0), C(4 + C(2) + b) - C(1))
    OBVIOUS
  <2>1. 4 + C(2) + b = 5 /\ 4 + C(2) + C(0) = 6
    BY ONLY <1>4, <1>5, b \in 0 .. (C(0) - 1)
  <2>2. C(4 + C(2) + b) = one
    BY ONLY <1>5, <2>1
  <2>3. C(4 + C(2) + b) - C(1) = 0
    BY ONLY <1>4, <1>5, <2>2
  <2>4. ChainEnds(sec, encoding, 6, 0)
    <3>. HIDE DEF k
    <3>1. k >= 0
      BY ONLY <1>6
    <3>. QED
      BY <1>6, <3>1 DEF ChainEnds, C
  <2>. QED
    BY ONLY <1>4, <2>1, <2>2, <2>3, <2>4
<1>8. C(0) \in Nat \ {0} /\ C(1) \in Nat
  BY ONLY <1>4, <1>5
<1>. QED
  BY ONLY <1>7, <1>8 DEF ChainsEnd, C

(* What get_symbol returns of a row of the table.                          *)
LEMMA SymbolIsRead ==
  ASSUME Stands(elf, syms, refs), NEW i \in 1 .. Len(syms)
  PROVE  LET v == SymbolPtr(elf, Sym, i).st_value
         IN  /\ v \in 1 .. Len(syms)
             /\ GetSymbol(elf, Sym, i) = [ok |-> TRUE, name |-> syms[v].name,
                                          value |-> v, bind |-> syms[v].bind]
<1>. DEFINE N == Len(syms)
            p == SymbolPtr(elf, Sym, i)
            v == p.st_value
            str == Sec(elf, Str)
<1>1. /\ syms \in Seq(Symbols) /\ N \in Nat /\ Len(refs) \in Nat /\ Holds(elf, syms, refs)
      /\ Rows(syms) = N + 1
  BY DEF Stands, Rows
<1>2. Tables(elf, N + 1, Len(refs)) /\ Represents(elf, syms)
  BY ONLY <1>1 DEF Holds
<1>3. /\ GetSymbolsNum(Sec(elf, Sym)) = N + 1 /\ Sec(elf, Sym).has = TRUE
      /\ Sec(elf, Sym).link = Str
  <2>1. N + 1 \in Nat /\ N + 1 # 0
    BY <1>1
  <2>2. GetSymbolsNum(Sec(elf, Sym)) = N + 1 /\ Sec(elf, Sym).has = TRUE
    BY ONLY <1>1, <1>2, <2>1, TablesRead
  <2>. QED
    BY ONLY <1>2, <2>2 DEF Tables
<1>4. v \in 1 .. N /\ Named(str, p.st_name, syms[v].name) /\ Bind(p.st_info) = syms[v].bind
  BY <1>2 DEF Represents
<1>5. GetString(str, p.st_name) = syms[v].name
  <2>1. syms[v] \in Symbols
    BY <1>1, <1>4
  <2>2. syms[v].name \in String
    BY <2>1, SymbolsAre, SymbolsAssumption DEF String
  <2>3. Shaped(str)
    BY <1>2 DEF Tables
  <2>. HIDE DEF p, str
  <2>. QED
    BY ONLY <1>4, <2>2, <2>3, NamedIsRead
<1>6. HasSymbol(Sec(elf, Sym), i)
  BY <1>1, <1>3 DEF HasSymbol
<1>7. GetSymbol(elf, Sym, i) =
        [ok |-> TRUE, name |-> GetString(Sec(elf, Sec(elf, Sym).link), p.st_name),
         value |-> v, bind |-> Bind(p.st_info)]
  BY ONLY <1>6, Zenon DEF GetSymbol
<1>. HIDE DEF p
<1>. QED
  BY ONLY <1>3, <1>4, <1>5, <1>7 DEF p

(* The hash table that is built for the symbols can be searched.           *)
LEMMA TableBuilt ==
  ASSUME Stands(elf, syms, refs), Len(syms) > 0, NEW type \in {SHT_HASH, SHT_GNU_HASH},
         NEW sec, Fresh(sec),
         NEW s, s = SetData([sec EXCEPT !.type = type, !.link = Sym],
                            LET table == IF type = SHT_HASH THEN SysVTable(NamesInTable)
                                         ELSE GnuTable(NamesInTable)
                            IN  [i \in 1 .. Len(table) |-> Convert(elf.hdr.data, table[i])])
  PROVE  Searchable(s, elf.hdr.data, Rows(syms))
<1>. DEFINE N == Len(syms)
            m == N + 1
            names == NamesInTable
            enc == elf.hdr.data
            T == IF type = SHT_HASH THEN SysVTable(names) ELSE GnuTable(names)
<1>1. /\ syms \in Seq(Symbols) /\ N \in Nat /\ N <= MaxSymbols /\ Len(refs) \in Nat
      /\ Rows(syms) = m /\ m \in Nat /\ Tables(elf, m, Len(refs))
  BY DEF Stands, Holds, Rows
<1>2. m <= Radix /\ m > 1
  BY <1>1, SymbolsAssumption, RadixAssumption DEF Digit
<1>3. Len(names) = m /\ \A i \in 2 .. m : names[i] \in Seq(Nat)
  <2>1. LastSymbol(elf, Sym) + 1 = m
    <3>1. LastSymbol(elf, Sym) = m - 1
      BY ONLY <1>1, TablesRead
    <3>. QED
      BY ONLY <1>1, <3>1
  <2>2. names = [i \in 1 .. m |-> GetSymbol(elf, Sym, i - 1).name]
    BY <2>1 DEF NamesInTable
  <2>3. ASSUME NEW i \in 2 .. m PROVE names[i] \in Seq(Nat)
    <3>. DEFINE k == i - 1
                v == SymbolPtr(elf, Sym, k).st_value
    <3>1. i \in 1 .. m /\ k \in 1 .. N
      BY ONLY <1>1, i \in 2 .. m
    <3>2. v \in 1 .. N /\ GetSymbol(elf, Sym, k).name = syms[v].name
      <4>. HIDE DEF k
      <4>1. /\ v \in 1 .. N
            /\ GetSymbol(elf, Sym, k) = [ok |-> TRUE, name |-> syms[v].name,
                                         value |-> v, bind |-> syms[v].bind]
        BY <3>1, SymbolIsRead
      <4>. QED
        BY <4>1
    <3>3. syms[v].name \in String
      <4>1. syms[v] \in Symbols
        BY ONLY <1>1, <3>2
      <4>. QED
        BY <4>1, SymbolsAre, SymbolsAssumption DEF String
    <3>4. names[i] = GetSymbol(elf, Sym, k).name
      BY <2>2, <3>1
    <3>5. String \subseteq Seq(Nat)
      BY DEF String
    <3>. QED
      BY ONLY <3>2, <3>3, <3>4, <3>5
  <2>. HIDE DEF names, m
  <2>4. Len(names) = m
    BY ONLY <1>1, <2>2
  <2>. QED
    BY ONLY <2>3, <2>4
<1>. HIDE DEF names, m
<1>7. m > 0
  BY ONLY <1>1, <1>2
<1>4. type # SHT_NOBITS
  BY DEF SHT_HASH, SHT_GNU_HASH, SHT_NOBITS
<1>5. CASE type = SHT_HASH
  <2>1. Len(T) = 4 + m
    <3>1. Len(SysVTable(names)) = 4 + m
      BY ONLY <1>1, <1>3, <1>7, SysVDescends
    <3>. QED
      BY <1>5, <3>1
  <2>2. s.type = type /\ HoldsTable(s, enc, T)
    <3>1. GivenTable(s, sec, type, Sym, enc, T)
      BY DEF names, GivenTable
    <3>2. Len(T) \in Nat
      BY ONLY <1>1, <2>1
    <3>. HIDE DEF T, enc
    <3>. QED
      BY ONLY <1>4, <3>1, <3>2, Fresh(sec), DataIsSet
  <2>3. HoldsTable(s, enc, SysVTable(names))
    BY <1>5, <2>2
  <2>4. ChainsDescend(s, enc, m)
    BY ONLY <1>1, <1>2, <1>3, <2>3, SysVSearchable
  <2>. QED
    BY <1>1, <1>5, <2>2, <2>4 DEF Searchable
<1>6. CASE type # SHT_HASH
  <2>1. Len(T) = 6 + (m - 1)
    <3>1. Len(GnuTable(names)) = 6 + (m - 1)
      BY ONLY <1>1, <1>3, <1>7, GnuEnds
    <3>. QED
      BY <1>6, <3>1
  <2>2. s.type = type /\ HoldsTable(s, enc, T)
    <3>1. GivenTable(s, sec, type, Sym, enc, T)
      BY DEF names, GivenTable
    <3>2. Len(T) \in Nat
      BY ONLY <1>1, <2>1
    <3>. HIDE DEF T, enc
    <3>. QED
      BY ONLY <1>4, <3>1, <3>2, Fresh(sec), DataIsSet
  <2>3. HoldsTable(s, enc, GnuTable(names))
    BY <1>6, <2>2
  <2>4. ChainsEnd(s, enc)
    BY ONLY <1>1, <1>2, <1>3, <2>3, GnuSearchable
  <2>. QED
    BY <1>1, <1>6, <2>2, <2>4 DEF Searchable
<1>. QED
  BY <1>5, <1>6

(* A hash table is a section more.                                         *)
LEMMA BuildHashKeeps ==
  ASSUME YInv, NEW type \in {SHT_HASH, SHT_GNU_HASH}, BuildHash(type)
  PROVE  YInv'
<1>. DEFINE e == AddSection(elf, <<5>>)
            sec == SetData([Sec(e, Len(elf.secs)) EXCEPT !.type = type, !.link = Sym],
                           LET table == IF type = SHT_HASH THEN SysVTable(NamesInTable)
                                        ELSE GnuTable(NamesInTable)
                           IN  [i \in 1 .. Len(table) |-> Convert(elf.hdr.data, table[i])])
<1>1. elf' = Replace(e, Len(elf.secs), sec)
  BY Zenon DEF BuildHash
<1>2. Len(elf.secs) = 5 /\ syms' = syms /\ refs' = refs /\ sorted' = sorted /\ Len(syms) > 0
  BY DEF BuildHash, Rel
<1>. HIDE DEF e
<1>3. Stands(elf, syms, refs) /\ Holds(elf, syms, refs)
  BY DEF YInv, Stands
<1>. DEFINE m == Rows(syms)
            n == Len(refs)
            t == elf'
<1>4. Tables(elf, m, n) /\ Represents(elf, syms) /\ Refers(elf, syms, refs) /\ Object(elf)
  BY <1>3 DEF Holds, Tables
<1>5. /\ Object(e) /\ e.hdr = elf.hdr /\ Len(e.secs) = Len(elf.secs) + 1
      /\ \A k \in 0 .. (Len(elf.secs) - 1) : k # 1 => Sec(e, k) = Sec(elf, k)
      /\ Fresh(Sec(e, Len(elf.secs)))
      /\ \A kind : Typed(Sec(elf, 1), kind) => Typed(Sec(e, 1), kind)
  <2>1. Len(elf.secs) >= 1 /\ Len(elf.secs) # 1
    BY <1>2
  <2>. QED
    BY ONLY <1>4, <2>1, SectionAdded DEF e
<1>6. /\ Object(t) /\ t.hdr = e.hdr /\ Len(t.secs) = Len(e.secs)
      /\ \A k \in 0 .. (Len(e.secs) - 1) : k # Len(elf.secs) => Sec(t, k) = Sec(e, k)
      /\ Sec(t, Len(elf.secs)) = sec
  <2>1. Len(elf.secs) \in 0 .. (Len(e.secs) - 1)
    BY <1>2, <1>5
  <2>. HIDE DEF t
  <2>2. t = Replace(e, Len(elf.secs), sec)
    BY <1>1 DEF t
  <2>. QED
    BY ONLY <1>5, <2>1, <2>2, Replaced
<1>. HIDE DEF m, n, t, sec
<1>7. /\ Sec(t, Str) = Sec(elf, Str) /\ Sec(t, Sym) = Sec(elf, Sym)
      /\ Sec(t, Rel) = Sec(elf, Rel) /\ t.hdr = elf.hdr /\ Len(t.secs) > Rel
  <2>1. \A k \in {Str, Sym, Rel} :
          /\ k \in 0 .. (Len(elf.secs) - 1) /\ k # 1
          /\ k \in 0 .. (Len(e.secs) - 1) /\ k # Len(elf.secs)
    BY ONLY <1>2, <1>5 DEF Str, Sym, Rel
  <2>2. \A k \in {Str, Sym, Rel} : Sec(t, k) = Sec(elf, k)
    BY ONLY <1>5, <1>6, <2>1
  <2>. QED
    BY ONLY <1>2, <1>5, <1>6, <2>2 DEF Rel
<1>8. SameSymbols(t, elf) /\ \A i : GetEntry(t, Rel, i) = GetEntry(elf, Rel, i)
  BY ONLY <1>7, SameRows DEF SameSymbols
<1>13. Hashed(t, m)
  <2>1. Searchable(sec, elf.hdr.data, m)
    <3>. DEFINE fresh == Sec(e, Len(elf.secs))
    <3>1. Fresh(fresh)
      BY <1>5
    <3>. HIDE DEF fresh
    <3>2. sec = SetData([fresh EXCEPT !.type = type, !.link = Sym],
                        LET table == IF type = SHT_HASH THEN SysVTable(NamesInTable)
                                     ELSE GnuTable(NamesInTable)
                        IN  [i \in 1 .. Len(table) |-> Convert(elf.hdr.data, table[i])])
      BY DEF sec, fresh
    <3>. QED
      BY ONLY <1>2, <1>3, <3>1, <3>2, type \in {SHT_HASH, SHT_GNU_HASH}, TableBuilt DEF m
  <2>2. Hashed(elf, m)
    BY <1>4 DEF Tables
  <2>3. Typed(Sec(t, 1), SHT_STRTAB)
    <3>1. 1 \in 0 .. (Len(e.secs) - 1) /\ 1 # Len(elf.secs)
      BY ONLY <1>2, <1>5
    <3>2. Sec(t, 1) = Sec(e, 1)
      BY ONLY <1>6, <3>1
    <3>. QED
      BY ONLY <1>5, <2>2, <3>2 DEF Hashed
  <2>4. ASSUME NEW h \in 0 .. Rel PROVE ~IsHash(Sec(t, h))
    <3>1. CASE h = 1
      BY <2>3, <3>1 DEF Typed, IsHash, SHT_STRTAB, SHT_HASH, SHT_GNU_HASH
    <3>2. CASE h # 1
      <4>1. /\ h \in 0 .. (Len(elf.secs) - 1) /\ h # Len(elf.secs)
            /\ h \in 0 .. (Len(e.secs) - 1)
        BY ONLY <1>2, <1>5, h \in 0 .. Rel DEF Rel
      <4>2. Sec(t, h) = Sec(elf, h)
        BY ONLY <1>5, <1>6, <3>2, <4>1
      <4>. QED
        BY ONLY <2>2, <4>2, h \in 0 .. Rel DEF Hashed
    <3>. QED
      BY <3>1, <3>2
  <2>5. ASSUME NEW h \in (Rel + 1) .. (Len(t.secs) - 1)
        PROVE  Searchable(Sec(t, h), t.hdr.data, m)
    <3>1. h = Len(elf.secs)
      BY ONLY <1>2, <1>5, <1>6, h \in (Rel + 1) .. (Len(t.secs) - 1) DEF Rel
    <3>. QED
      BY ONLY <1>6, <1>7, <2>1, <3>1
  <2>. QED
    BY ONLY <2>3, <2>4, <2>5 DEF Hashed
<1>9. Tables(t, m, n)
  BY ONLY <1>4, <1>6, <1>7, <1>13 DEF Tables
<1>10. /\ Represents(t, syms)
       /\ \A entry, ref : RefersTo(elf, syms, entry, ref) => RefersTo(t, syms, entry, ref)
  BY ONLY <1>4, <1>7, <1>8, OthersStay
<1>11. Refers(t, syms, refs)
  BY ONLY <1>4, <1>8, <1>10 DEF Refers
<1>12. Stands(t, syms, refs)
  BY ONLY <1>3, <1>7, <1>9, <1>10, <1>11 DEF Stands, Holds, m, n
<1>14. IsArranged(elf, syms) => IsArranged(t, syms)
  BY ONLY <1>8, StaysArranged
<1>. QED
  BY <1>2, <1>12, <1>14 DEF YInv, t

-------------------------------------------------------------------------------
(***************************************************************************)
(* Looking a name up.                                                      *)
(***************************************************************************)
(* One step of a search: it stops, or goes on with another symbol.         *)
WalkRow(f, y, S, stop, out, next, now) ==
  [str \in S |-> IF <<y, str>> \in stop THEN out[<<y, str>>]
                 ELSE f[next[y]][now[<<y, str>>]]]

Goes(y, str, stop, next, n) ==
  <<y, str>> \in stop \/ (y < n /\ next[y] \in Nat /\ next[y] < y)

(* A row of the search depends on what is before it.                       *)
LEMMA RowsAgree ==
  ASSUME NEW S, NEW stop, NEW out, NEW next, NEW now, NEW n \in Nat, NEW y \in Nat,
         \A str \in S : Goes(y, str, stop, next, n),
         NEW f, NEW g, \A z \in Nat : z < y /\ y <= n => f[z] = g[z]
  PROVE  WalkRow(f, y, S, stop, out, next, now) = WalkRow(g, y, S, stop, out, next, now)
<1>. SUFFICES ASSUME NEW str \in S, <<y, str>> \notin stop
              PROVE  f[next[y]] = g[next[y]]
  BY Zenon DEF WalkRow
<1>1. y < n /\ next[y] \in Nat /\ next[y] < y
  BY DEF Goes
<1>. QED
  BY ONLY <1>1, n \in Nat, y \in Nat, \A z \in Nat : z < y /\ y <= n => f[z] = g[z]

IsWalk(f, S, stop, out, next, now) ==
  f = [y \in Nat |-> WalkRow(f, y, S, stop, out, next, now)]

GoesDown(S, stop, next, n) == \A y \in Nat : \A str \in S : Goes(y, str, stop, next, n)

(* A search that goes to smaller numbers is defined.                       *)
LEMMA WalkExists ==
  ASSUME NEW S, NEW stop, NEW out, NEW next, NEW now, NEW n \in Nat,
         GoesDown(S, stop, next, n)
  PROVE  \E f : IsWalk(f, S, stop, out, next, now)
<1>. DEFINE Row(f, y) == WalkRow(f, y, S, stop, out, next, now)
            T == {b \in Nat : \E f : \A y \in 0 .. (b - 1) : f[y] = Row(f, y)}
<1>1. \A y \in Nat : \A f, g : (\A z \in Nat : z < y /\ y <= n => f[z] = g[z]) => Row(f, y) = Row(g, y)
  BY RowsAgree DEF GoesDown
<1>. HIDE DEF Row
<1>2. 0 \in T
  OBVIOUS
<1>3. ASSUME NEW b \in Nat, b \in T PROVE b + 1 \in T
  <2>1. PICK f : \A y \in 0 .. (b - 1) : f[y] = Row(f, y)
    BY <1>3
  <2>. DEFINE k == [y \in 0 .. b |-> IF y = b THEN Row(f, b) ELSE f[y]]
  <2>2. ASSUME NEW y \in 0 .. b PROVE k[y] = Row(k, y)
    <3>1. \A z \in Nat : z < y => k[z] = f[z]
      OBVIOUS
    <3>2. k[y] = Row(f, y)
      BY <2>1
    <3>. HIDE DEF k
    <3>3. Row(k, y) = Row(f, y)
      BY ONLY <1>1, <3>1, b \in Nat, y \in 0 .. b
    <3>. QED
      BY <3>2, <3>3
  <2>. HIDE DEF k
  <2>3. (b + 1) - 1 = b /\ b + 1 \in Nat
    OBVIOUS
  <2>4. \A y \in 0 .. ((b + 1) - 1) : k[y] = Row(k, y)
    BY ONLY <2>2, <2>3
  <2>. QED
    BY <2>3, <2>4
<1>4. n \in T
  <2>. HIDE DEF T
  <2>. QED
    BY <1>2, <1>3, SetInduction
<1>5. PICK g : \A y \in 0 .. (n - 1) : g[y] = Row(g, y)
  BY <1>4
<1>. DEFINE f == [y \in Nat |-> IF y < n THEN g[y] ELSE Row(g, y)]
<1>6. ASSUME NEW y \in Nat PROVE f[y] = Row(f, y)
  <2>1. \A z \in Nat : z < y /\ y <= n => f[z] = g[z]
    OBVIOUS
  <2>2. f[y] = Row(g, y)
    BY <1>5
  <2>. HIDE DEF f
  <2>3. Row(f, y) = Row(g, y)
    BY ONLY <1>1, <2>1, y \in Nat
  <2>. QED
    BY <2>2, <2>3
<1>7. f = [y \in Nat |-> f[y]]
  OBVIOUS
<1>. HIDE DEF f
<1>8. f = [y \in Nat |-> Row(f, y)]
  BY <1>6, <1>7
<1>. QED
  BY <1>8 DEF Row, IsWalk

Feeds(S, out, now, A) ==
  \A y \in Nat : \A str \in S : out[<<y, str>>] \in A /\ now[<<y, str>>] \in S

(* A property of every answer, and of every answer that is passed on, is   *)
(* one of the search.                                                      *)
LEMMA WalkAnswers ==
  ASSUME NEW S, NEW stop, NEW out, NEW next, NEW now, NEW n \in Nat, NEW A,
         GoesDown(S, stop, next, n), Feeds(S, out, now, A),
         NEW f, IsWalk(f, S, stop, out, next, now), NEW x \in Nat, NEW s \in S
  PROVE  f[x][s] \in A
<1>. DEFINE T == {b \in Nat : \A y \in 0 .. b : \A str \in S : f[y][str] \in A}
<1>1. ASSUME NEW y \in Nat, NEW str \in S,
             \A z \in Nat : z < y => \A u \in S : f[z][u] \in A
      PROVE  f[y][str] \in A
  <2>1. f[y] = WalkRow(f, y, S, stop, out, next, now)
    BY DEF IsWalk
  <2>2. f[y][str] = IF <<y, str>> \in stop THEN out[<<y, str>>]
                    ELSE f[next[y]][now[<<y, str>>]]
    BY ONLY <2>1, str \in S DEF WalkRow
  <2>3. Goes(y, str, stop, next, n) /\ out[<<y, str>>] \in A /\ now[<<y, str>>] \in S
    BY DEF GoesDown, Feeds
  <2>. QED
    BY ONLY <1>1, <2>2, <2>3 DEF Goes
<1>2. 0 \in T
  <2>1. \A z \in Nat : ~(z < 0)
    OBVIOUS
  <2>2. \A str \in S : f[0][str] \in A
    BY ONLY <1>1, <2>1
  <2>. QED
    BY <2>2
<1>3. ASSUME NEW b \in Nat, b \in T PROVE b + 1 \in T
  <2>1. \A z \in Nat : z < b + 1 => \A u \in S : f[z][u] \in A
    BY <1>3
  <2>2. \A str \in S : f[b + 1][str] \in A
    BY ONLY <1>1, <2>1, b \in Nat
  <2>. QED
    BY ONLY <1>3, <2>2, b \in Nat DEF T
<1>4. x \in T
  <2>. HIDE DEF T
  <2>. QED
    BY <1>2, <1>3, SetInduction
<1>. QED
  BY <1>4

IsChain(f, hit, out) == f = [i \in Nat |-> IF i \in hit THEN out[i] ELSE f[i + 1]]

(* A search that goes to the next cell is defined.                         *)
LEMMA ChainExists ==
  ASSUME NEW hit, NEW out
  PROVE  \E f : IsChain(f, hit, out)
<1>. DEFINE From(i) == {k \in Nat : k >= i /\ k \in hit}
            least(i) == CHOOSE k \in From(i) : \A j \in From(i) : k <= j
            f == [i \in Nat |-> IF From(i) = {} THEN {} ELSE out[least(i)]]
<1>1. ASSUME NEW i \in Nat PROVE f[i] = IF i \in hit THEN out[i] ELSE f[i + 1]
  <2>1. CASE i \in hit
    <3>1. i \in From(i) /\ \A j \in From(i) : i <= j
      BY <2>1
    <3>2. least(i) \in From(i) /\ \A j \in From(i) : least(i) <= j
      <4>1. \E k \in From(i) : \A j \in From(i) : k <= j
        BY <3>1
      <4>. HIDE DEF From
      <4>. QED
        BY <4>1
    <3>3. least(i) = i
      <4>1. least(i) <= i /\ i <= least(i) /\ least(i) \in Nat
        BY <3>1, <3>2
      <4>. HIDE DEF least
      <4>. QED
        BY <4>1
    <3>4. From(i) # {}
      <4>. HIDE DEF From
      <4>. QED
        BY <3>1
    <3>. HIDE DEF least, From
    <3>. QED
      BY <2>1, <3>3, <3>4
  <2>2. CASE i \notin hit
    <3>1. From(i) = From(i + 1)
      <4>1. \A k \in Nat : k \in hit => (k >= i <=> k >= i + 1)
        BY <2>2
      <4>. QED
        BY <4>1
    <3>2. least(i) = least(i + 1)
      <4>. HIDE DEF From
      <4>. QED
        BY <3>1
    <3>. HIDE DEF least, From
    <3>. QED
      BY <2>2, <3>1, <3>2
  <2>. QED
    BY <2>1, <2>2
<1>2. f = [i \in Nat |-> f[i]]
  OBVIOUS
<1>. HIDE DEF f
<1>3. f = [i \in Nat |-> IF i \in hit THEN out[i] ELSE f[i + 1]]
  BY <1>1, <1>2
<1>. QED
  BY <1>3 DEF IsChain

(* A property of every answer is one of a search that begins before the    *)
(* end of a chain.                                                         *)
LEMMA ChainAnswers ==
  ASSUME NEW hit, NEW out, NEW A, \A i \in Nat : out[i] \in A,
         NEW f, IsChain(f, hit, out),
         NEW k \in Nat, k \in hit, NEW x \in Nat, x <= k
  PROVE  f[x] \in A
<1>. DEFINE T == {d \in Nat : d <= k => f[k - d] \in A}
<1>1. \A i \in Nat : f[i] = IF i \in hit THEN out[i] ELSE f[i + 1]
  BY DEF IsChain
<1>2. 0 \in T
  <2>1. k - 0 = k /\ f[k] \in A
    BY <1>1
  <2>. QED
    BY <2>1
<1>3. ASSUME NEW d \in Nat, d \in T PROVE d + 1 \in T
  <2>. SUFFICES ASSUME d + 1 <= k PROVE f[k - (d + 1)] \in A
    OBVIOUS
  <2>. DEFINE i == k - (d + 1)
  <2>1. i \in Nat /\ i + 1 = k - d /\ f[k - d] \in A
    BY <1>3
  <2>. HIDE DEF i
  <2>2. f[i] \in A
    BY ONLY <1>1, <2>1, \A j \in Nat : out[j] \in A
  <2>. QED
    BY <2>2 DEF i
<1>4. k - x \in T
  <2>1. Nat \subseteq T
    <3>. HIDE DEF T
    <3>. QED
      BY <1>2, <1>3, SetInduction
  <2>2. k - x \in Nat
    OBVIOUS
  <2>. HIDE DEF T
  <2>. QED
    BY <2>1, <2>2
<1>5. k - x <= k /\ k - (k - x) = x
  OBVIOUS
<1>. QED
  BY <1>4, <1>5

(* What get_symbol returns is a symbol that was added.                     *)
Genuine(sym, ss) ==
  /\ sym.value \in 1 .. Len(ss)
  /\ ss[sym.value] = [name |-> sym.name, bind |-> sym.bind]

(* A row of the table of symbols is one that was added, or the empty one,  *)
(* or there is none.                                                       *)
LEMMA RowIsRead ==
  ASSUME Stands(elf, syms, refs), NEW i \in Nat, NEW sym, sym = GetSymbol(elf, Sym, i)
  PROVE  /\ sym.name \in Seq(Nat) /\ (sym.name = NoString => ~sym.ok)
         /\ sym.ok /\ sym.name # << >> => Genuine(sym, syms)
<1>. DEFINE N == Len(syms)
            str == Sec(elf, Str)
<1>1. /\ syms \in Seq(Symbols) /\ N \in Nat /\ Len(refs) \in Nat /\ Holds(elf, syms, refs)
      /\ Rows(syms) \in Nat /\ Rows(syms) = IF syms = << >> THEN 0 ELSE N + 1
  BY DEF Stands, Rows
<1>2. Tables(elf, Rows(syms), Len(refs)) /\ Represents(elf, syms)
  BY ONLY <1>1 DEF Holds
<1>3. GetSymbolsNum(Sec(elf, Sym)) = Rows(syms)
  BY ONLY <1>1, <1>2, TablesRead
<1>4. CASE ~HasSymbol(Sec(elf, Sym), i)
  <2>1. sym = NoSymbol
    BY <1>4 DEF GetSymbol
  <2>. QED
    BY <2>1 DEF NoSymbol, NoString
<1>5. CASE HasSymbol(Sec(elf, Sym), i) /\ i = 0
  <2>1. N > 0 /\ syms # << >>
    BY <1>1, <1>3, <1>5 DEF HasSymbol
  <2>2. SymbolPtr(elf, Sym, 0) = NullSymbol
    BY <1>2, <2>1 DEF Represents
  <2>3. NullSymbol.st_name = 0
    BY DEF NullSymbol, ToSet, SymFields
  <2>4. sym.ok = TRUE /\ sym.name = GetString(Sec(elf, Sec(elf, Sym).link), 0)
    BY <1>5, <2>2, <2>3 DEF GetSymbol
  <2>5. Sec(elf, Sym).link = Str /\ Shaped(str) /\ EmptyFirst(str)
    BY <1>2 DEF Tables
  <2>6. Len(str.data) > 0
    <3>1. /\ 1 \in 1 .. N
          /\ Named(str, SymbolPtr(elf, Sym, 1).st_name,
                   syms[SymbolPtr(elf, Sym, 1).st_value].name)
          /\ SymbolPtr(elf, Sym, 1).st_value \in 1 .. N
      BY <1>1, <1>2, <2>1 DEF Represents
    <3>. DEFINE at == SymbolPtr(elf, Sym, 1).st_name
                name == syms[SymbolPtr(elf, Sym, 1).st_value].name
    <3>2. name \in String
      <4>1. syms[SymbolPtr(elf, Sym, 1).st_value] \in Symbols
        BY <1>1, <3>1
      <4>. QED
        BY <4>1, SymbolsAre, SymbolsAssumption DEF String
    <3>3. Len(name) \in Nat
      <4>. HIDE DEF name
      <4>. QED
        BY <3>2 DEF String
    <3>4. at \in Nat /\ at + Len(name) + 1 <= Len(str.data)
      BY <3>1 DEF Named
    <3>5. Len(str.data) \in Nat
      BY <2>5 DEF Shaped
    <3>. HIDE DEF at, name
    <3>. QED
      BY ONLY <3>3, <3>4, <3>5
  <2>7. Named(str, 0, << >>)
    <3>1. str.size = Len(str.data) /\ Len(str.data) \in Nat
      BY <2>5 DEF Shaped
    <3>2. str.data[1] = 0
      BY ONLY <2>5, <2>6, <3>1 DEF EmptyFirst
    <3>. HIDE DEF str
    <3>3. 0 + Len(<< >>) + 1 = 1 /\ 1 .. Len(<< >>) = {}
      OBVIOUS
    <3>4. 0 + Len(<< >>) + 1 <= Len(str.data) /\ str.data[0 + Len(<< >>) + 1] = 0
      BY ONLY <2>6, <3>1, <3>2, <3>3
    <3>. QED
      BY ONLY <3>3, <3>4 DEF Named
  <2>8. GetString(str, 0) = << >> /\ << >> # NoString
    <3>1. << >> \in String
      BY DEF String
    <3>. HIDE DEF str
    <3>. QED
      BY ONLY <2>5, <2>7, <3>1, NamedIsRead
  <2>9. sym.name = << >> /\ sym.name # NoString
    BY ONLY <2>4, <2>5, <2>8
  <2>10. << >> \in Seq(Nat)
    OBVIOUS
  <2>. QED
    BY ONLY <2>9, <2>10
<1>6. CASE HasSymbol(Sec(elf, Sym), i) /\ i # 0
  <2>1. i \in 1 .. N
    BY <1>1, <1>3, <1>6 DEF HasSymbol
  <2>. DEFINE v == SymbolPtr(elf, Sym, i).st_value
  <2>2. /\ v \in 1 .. N
        /\ sym = [ok |-> TRUE, name |-> syms[v].name, value |-> v, bind |-> syms[v].bind]
    BY <2>1, SymbolIsRead
  <2>3. syms[v] \in Symbols
    BY <1>1, <2>2
  <2>. HIDE DEF v
  <2>4. syms[v].name \in String /\ syms[v] = [name |-> syms[v].name, bind |-> syms[v].bind]
    <3>1. syms[v].name \in Names
      BY <2>3, SymbolsAre
    <3>2. syms[v] = [name |-> syms[v].name, bind |-> syms[v].bind]
      BY <2>3 DEF Symbols
    <3>. QED
      BY <3>1, <3>2, SymbolsAssumption DEF String
  <2>5. \A name \in String : name \in Seq(Nat) /\ name # NoString
    <3>. SUFFICES ASSUME NEW name \in String PROVE name \in Seq(Nat) /\ name # NoString
      OBVIOUS
    <3>1. name \in Seq(Nat) /\ \A c \in 1 .. Len(name) : name[c] # 0
      BY DEF String
    <3>2. name # NoString
      <4>1. NoString = <<0>>
        BY DEF NoString
      <4>2. Len(<<0>>) = 1 /\ <<0>>[1] = 0
        OBVIOUS
      <4>. QED
        BY ONLY <3>1, <4>1, <4>2
    <3>. QED
      BY <3>1, <3>2
  <2>6. sym.name \in Seq(Nat) /\ sym.name # NoString
    BY <2>2, <2>4, <2>5
  <2>7. Genuine(sym, syms)
    BY <2>2, <2>4 DEF Genuine
  <2>. QED
    BY <2>6, <2>7
<1>. QED
  BY <1>4, <1>5, <1>6

(* An answer to a search for a name.                                       *)
Answer(sym, ss, name) == sym.ok => sym.name = name /\ Genuine(sym, ss)

Answers(e, ss, name) ==
  {sym \in {NoSymbol} \cup {GetSymbol(e, Sym, i) : i \in Nat} : Answer(sym, ss, name)}

(* hash_lookup answers with a symbol of that name, or with none            *)
(* (elfio_symbols.hpp:290-325).                                            *)
LEMMA HashLookupAnswers ==
  ASSUME Stands(elf, syms, refs), NEW name \in String, name # << >>, NEW h, NEW m \in Nat,
         ChainsDescend(Sec(elf, h), elf.hdr.data, m)
  PROVE  Answer(HashLookup(elf, Sym, h, name), syms, name)
<1>. DEFINE S == Seq(Nat)
            W(n) == Word(elf, h, n)
            nbucket == W(0)
            nchain == W(1)
            Row(y) == GetSymbol(elf, Sym, y)
            Now(y, str) == IF Row(y).name = NoString THEN str ELSE Row(y).name
            stop == {q \in Nat \X S : Now(q[1], q[2]) = name \/ q[1] = STN_UNDEF \/ q[1] >= nchain}
            out == [q \in Nat \X S |-> IF Now(q[1], q[2]) = name THEN Row(q[1]) ELSE NoSymbol]
            next == [y \in Nat |-> W(2 + nbucket + y)]
            now == [q \in Nat \X S |-> Now(q[1], q[2])]
            A == Answers(elf, syms, name)
            Line(f, y) == [str \in S |->
                   IF Now(y, str) = name \/ y = STN_UNDEF \/ y >= nchain
                   THEN IF Now(y, str) = name THEN Row(y) ELSE NoSymbol
                   ELSE f[W(2 + nbucket + y)][Now(y, str)]]
            Body(f) == [y \in Nat |-> Line(f, y)]
            F == CHOOSE f : f = Body(f)
            start == W(2 + (ElfHash(name) % nbucket))
<1>1. HashLookup(elf, Sym, h, name) = F[start][<< >>]
  BY Zenon DEF HashLookup
<1>2. /\ nbucket \in Nat \ {0} /\ nchain \in 0 .. m
      /\ \A b \in 0 .. (nbucket - 1) : W(2 + b) \in 0 .. (nchain - 1)
      /\ \A y \in 1 .. (nchain - 1) : W(2 + nbucket + y) \in 0 .. (y - 1)
  BY Zenon DEF ChainsDescend, CellIn, Word
<1>3. ASSUME NEW y \in Nat, NEW str \in S
      PROVE  Now(y, str) \in S /\ (Now(y, str) = name => Row(y) \in A)
  <2>. DEFINE sym == Row(y)
  <2>1. /\ sym.name \in S /\ (sym.name = NoString => ~sym.ok)
        /\ sym.ok /\ sym.name # << >> => Genuine(sym, syms)
    BY RowIsRead
  <2>2. sym \in {NoSymbol} \cup {GetSymbol(elf, Sym, i) : i \in Nat}
    OBVIOUS
  <2>3. Now(y, str) = IF sym.name = NoString THEN str ELSE sym.name
    OBVIOUS
  <2>. HIDE DEF sym
  <2>4. Now(y, str) = name => Answer(sym, syms, name)
    BY ONLY <2>1, <2>3, name # << >> DEF Answer
  <2>5. Now(y, str) = name => sym \in A
    BY ONLY <2>2, <2>4 DEF Answers
  <2>. QED
    BY ONLY <2>1, <2>3, <2>5, str \in S DEF sym
<1>4. NoSymbol \in A
  BY DEF Answers, Answer, NoSymbol
<1>5. \A y \in Nat : \A str \in S : /\ <<y, str>> \in stop <=>
                                         Now(y, str) = name \/ y = STN_UNDEF \/ y >= nchain
                                    /\ out[<<y, str>>] =
                                         IF Now(y, str) = name THEN Row(y) ELSE NoSymbol
                                    /\ now[<<y, str>>] = Now(y, str)
  <2>. HIDE DEF Now, Row, S, nchain
  <2>. QED
    OBVIOUS
<1>6. \A y \in Nat : next[y] = W(2 + nbucket + y)
  BY Zenon
<1>. HIDE DEF stop, out, next, now, A, S, W, Row, Now, nbucket, nchain
<1>7. \A f : [y \in Nat |-> WalkRow(f, y, S, stop, out, next, now)] = Body(f)
  <2>. SUFFICES ASSUME NEW f, NEW y \in Nat
                PROVE  WalkRow(f, y, S, stop, out, next, now) = Line(f, y)
    <3>. HIDE DEF Line
    <3>. QED
      OBVIOUS
  <2>1. ASSUME NEW str \in S
        PROVE  (IF <<y, str>> \in stop THEN out[<<y, str>>] ELSE f[next[y]][now[<<y, str>>]]) =
               (IF Now(y, str) = name \/ y = STN_UNDEF \/ y >= nchain
                THEN IF Now(y, str) = name THEN Row(y) ELSE NoSymbol
                ELSE f[W(2 + nbucket + y)][Now(y, str)])
    BY ONLY <1>5, <1>6, y \in Nat, str \in S
  <2>. QED
    BY ONLY <2>1 DEF WalkRow
<1>8. nchain \in Nat /\ GoesDown(S, stop, next, nchain)
  <2>1. nchain \in Nat
    BY ONLY <1>2
  <2>. SUFFICES ASSUME NEW y \in Nat, NEW str \in S, <<y, str>> \notin stop
                PROVE  y < nchain /\ next[y] \in Nat /\ next[y] < y
    BY <2>1 DEF Goes, GoesDown
  <2>2. y # 0 /\ ~(y >= nchain)
    BY ONLY <1>5, y \in Nat, str \in S, <<y, str>> \notin stop DEF STN_UNDEF
  <2>3. y \in 1 .. (nchain - 1)
    BY ONLY <2>1, <2>2, y \in Nat
  <2>4. next[y] \in 0 .. (y - 1)
    BY ONLY <1>2, <1>6, <2>3, y \in Nat
  <2>. QED
    BY ONLY <2>1, <2>3, <2>4, y \in Nat
<1>. HIDE DEF Body, Line
<1>9. IsWalk(F, S, stop, out, next, now)
  <2>1. PICK f : IsWalk(f, S, stop, out, next, now)
    BY ONLY <1>8, WalkExists
  <2>2. f = Body(f)
    BY ONLY <1>7, <2>1 DEF IsWalk
  <2>3. F = Body(F)
    BY ONLY <2>2, Zenon
  <2>. HIDE DEF F
  <2>. QED
    BY ONLY <1>7, <2>3 DEF IsWalk
<1>. HIDE DEF F
<1>10. Feeds(S, out, now, A)
  BY ONLY <1>3, <1>4, <1>5 DEF Feeds
<1>11. start \in Nat /\ << >> \in S
  <2>. DEFINE b == ElfHash(name) % nbucket
  <2>1. ElfHash(name) \in Int
    <3>1. name \in Seq(Nat)
      BY DEF String
    <3>. QED
      BY <3>1, HashesAre
  <2>2. b \in 0 .. (nbucket - 1)
    BY ONLY <1>2, <2>1
  <2>. HIDE DEF b
  <2>3. W(2 + b) \in 0 .. (nchain - 1)
    BY ONLY <1>2, <2>2
  <2>. QED
    BY <1>2, <2>3 DEF b, S
<1>. HIDE DEF start
<1>12. F[start][<< >>] \in A
  BY ONLY <1>8, <1>9, <1>10, <1>11, WalkAnswers
<1>. QED
  BY <1>1, <1>12 DEF A, Answers

(* gnu_hash_lookup likewise (elfio_symbols.hpp:329-399).                   *)
LEMMA GnuHashLookupAnswers ==
  ASSUME Stands(elf, syms, refs), NEW name \in String, name # << >>, NEW h,
         ChainsEnd(Sec(elf, h), elf.hdr.data)
  PROVE  Answer(GnuHashLookup(elf, Sym, h, name), syms, name)
<1>. DEFINE W(n) == Word(elf, h, n)
            nbuckets == W(0)
            symoffset == W(1)
            bloom_size == W(2)
            hash == ElfGnuHash(name)
            filter == W(4 + ((hash \div FilterBits) % bloom_size))
            first == W(4 + bloom_size + (hash % nbuckets))
            Cell(i) == W(4 + bloom_size + nbuckets + i)
            Row(i) == GetSymbol(elf, Sym, i + symoffset)
            Match(i) == Cell(i) \div 2 = hash \div 2 /\ Row(i).ok /\ Row(i).name = name
            hit == {i \in Nat : Match(i) \/ Cell(i) % 2 = 1}
            out == [i \in Nat |-> IF Match(i) THEN Row(i) ELSE NoSymbol]
            A == Answers(elf, syms, name)
            Body(f) == [i \in Nat |->
                   IF Match(i) THEN Row(i)
                   ELSE IF Cell(i) % 2 = 1 THEN NoSymbol ELSE f[i + 1]]
            F == CHOOSE f : f = Body(f)
<1>1. GnuHashLookup(elf, Sym, h, name) =
        IF ~MayContain(filter, hash, W(3)) \/ first < symoffset THEN NoSymbol
        ELSE F[first - symoffset]
  BY Zenon DEF GnuHashLookup
<1>2. /\ nbuckets \in Nat \ {0} /\ symoffset \in Nat
      /\ \A b \in 0 .. (nbuckets - 1) :
           /\ W(4 + bloom_size + b) \in Nat
           /\ W(4 + bloom_size + b) >= symoffset =>
                \E k \in Nat : /\ k >= W(4 + bloom_size + b) - symoffset
                               /\ Cell(k) % 2 = 1
  <2>. DEFINE C(n) == CellIn(Sec(elf, h), elf.hdr.data, n)
  <2>1. \A n : W(n) = C(n)
    BY DEF CellIn, Word
  <2>2. /\ C(0) \in Nat \ {0} /\ C(1) \in Nat
        /\ \A b \in 0 .. (C(0) - 1) :
             /\ C(4 + C(2) + b) \in Nat
             /\ C(4 + C(2) + b) >= C(1) =>
                  \E k \in Nat : /\ k >= C(4 + C(2) + b) - C(1)
                                 /\ C(4 + C(2) + C(0) + k) % 2 = 1
    BY Zenon DEF ChainsEnd, ChainEnds
  <2>. HIDE DEF W, C
  <2>. QED
    BY ONLY <2>1, <2>2
<1>3. ASSUME NEW i \in Nat, Match(i) PROVE Row(i) \in A
  <2>. DEFINE k == i + symoffset
              sym == GetSymbol(elf, Sym, k)
  <2>1. k \in Nat
    <3>1. symoffset \in Nat
      BY <1>2
    <3>. HIDE DEF symoffset
    <3>. QED
      BY <3>1
  <2>. HIDE DEF k
  <2>2. sym.ok /\ sym.name # << >> => Genuine(sym, syms)
    BY <2>1, RowIsRead
  <2>3. sym \in {NoSymbol} \cup {GetSymbol(elf, Sym, j) : j \in Nat}
    BY <2>1
  <2>4. sym.ok /\ sym.name = name
    BY <1>3 DEF k
  <2>. HIDE DEF sym
  <2>5. sym \in A
    BY ONLY <2>2, <2>3, <2>4, name # << >> DEF Answers, Answer
  <2>. QED
    BY <2>5 DEF sym, k
<1>4. NoSymbol \in A
  BY DEF Answers, Answer, NoSymbol
<1>. HIDE DEF W, Match, Row, Cell, A, hash, filter, nbuckets, symoffset, bloom_size
<1>5. IsChain(F, hit, out)
  <2>1. \A f : [i \in Nat |-> IF i \in hit THEN out[i] ELSE f[i + 1]] = Body(f)
    OBVIOUS
  <2>. HIDE DEF hit, out, Body
  <2>2. PICK f : IsChain(f, hit, out)
    BY ONLY ChainExists, Zenon
  <2>3. f = Body(f)
    BY ONLY <2>1, <2>2 DEF IsChain
  <2>4. F = Body(F)
    BY ONLY <2>3, Zenon
  <2>. HIDE DEF F
  <2>. QED
    BY ONLY <2>1, <2>4 DEF IsChain
<1>6. \A i \in Nat : out[i] \in A
  BY <1>3, <1>4
<1>7. \A i \in Nat : Cell(i) % 2 = 1 => i \in hit
  OBVIOUS
<1>. HIDE DEF F, hit, out
<1>8. ASSUME ~(first < symoffset) PROVE F[first - symoffset] \in A
  <2>. DEFINE b == hash % nbuckets
  <2>1. b \in 0 .. (nbuckets - 1)
    <3>1. hash \in Nat
      <4>1. name \in Seq(Nat)
        BY DEF String
      <4>2. hash \in 0 .. (Hashes - 1)
        BY ONLY <4>1, HashesAre DEF hash
      <4>. QED
        BY ONLY <4>2, RadixAssumption DEF Hashes
    <3>. QED
      BY ONLY <1>2, <3>1
  <2>2. first = W(4 + bloom_size + b)
    OBVIOUS
  <2>. HIDE DEF b, first
  <2>3. first \in Nat /\ first >= symoffset
    BY ONLY <1>2, <1>8, <2>1, <2>2
  <2>4. PICK k \in Nat : k >= first - symoffset /\ Cell(k) % 2 = 1
    BY ONLY <1>2, <2>1, <2>2, <2>3
  <2>. DEFINE x == first - symoffset
  <2>5. x \in Nat /\ x <= k /\ k \in hit
    BY <1>2, <1>7, <2>3, <2>4
  <2>. HIDE DEF x
  <2>6. F[x] \in A
    BY ONLY <1>5, <1>6, <2>5, k \in Nat, ChainAnswers
  <2>. QED
    BY <2>6 DEF x
<1>9. GnuHashLookup(elf, Sym, h, name) \in A
  BY ONLY <1>1, <1>4, <1>8
<1>. QED
  BY <1>9 DEF A, Answers

(* The hash table, when there is one, answers as a search through all the  *)
(* symbols would, or not at all (elfio_symbols.hpp:264-279).               *)
LEMMA HashAnswers ==
  ASSUME Stands(elf, syms, refs), NEW name \in String, name # << >>,
         NEW h, h = FindHashSection(elf, Sym), h # 0
  PROVE  /\ Sec(elf, h).type = SHT_HASH => Answer(HashLookup(elf, Sym, h, name), syms, name)
         /\ Sec(elf, h).type # SHT_HASH => Answer(GnuHashLookup(elf, Sym, h, name), syms, name)
<1>. DEFINE tables == {k \in 0 .. (Len(elf.secs) - 1) : IsHash(Sec(elf, k))}
            m == Rows(syms)
<1>1. m \in Nat /\ Tables(elf, m, Len(refs))
  BY DEF Stands, Holds, Rows
<1>. HIDE DEF m
<1>2. Hashed(elf, m) /\ Len(elf.secs) > Rel
  BY <1>1 DEF Tables
<1>3. h = IF tables = {} THEN 0 ELSE CHOOSE k \in tables : \A j \in tables : k <= j
  BY Zenon DEF FindHashSection, IsHash
<1>4. h \in tables
  <2>1. tables # {} /\ tables \in SUBSET Nat
    BY <1>3
  <2>. HIDE DEF tables
  <2>2. \E k \in tables : \A j \in tables : k <= j
    BY ONLY <2>1, Smallest
  <2>. QED
    BY ONLY <1>3, <2>1, <2>2
<1>5. h \in (Rel + 1) .. (Len(elf.secs) - 1) /\ IsHash(Sec(elf, h))
  <2>1. h \in 0 .. (Len(elf.secs) - 1) /\ IsHash(Sec(elf, h))
    BY <1>4
  <2>2. Len(elf.secs) \in Nat
    BY <1>1 DEF Tables, Object, IsSeq
  <2>3. ~(h \in 0 .. Rel)
    BY <1>2, <2>1 DEF Hashed
  <2>. QED
    BY ONLY <2>1, <2>2, <2>3 DEF Rel
<1>6. Searchable(Sec(elf, h), elf.hdr.data, m)
  BY ONLY <1>2, <1>5 DEF Hashed
<1>. HIDE DEF tables
<1>7. ASSUME Sec(elf, h).type = SHT_HASH PROVE Answer(HashLookup(elf, Sym, h, name), syms, name)
  <2>1. ChainsDescend(Sec(elf, h), elf.hdr.data, m)
    BY <1>6, <1>7 DEF Searchable
  <2>. QED
    BY ONLY <1>1, <2>1, Stands(elf, syms, refs), name \in String, name # << >>,
            HashLookupAnswers
<1>8. ASSUME Sec(elf, h).type # SHT_HASH
      PROVE  Answer(GnuHashLookup(elf, Sym, h, name), syms, name)
  <2>1. ChainsEnd(Sec(elf, h), elf.hdr.data)
    BY <1>6, <1>8 DEF Searchable
  <2>. QED
    BY ONLY <2>1, Stands(elf, syms, refs), name \in String, name # << >>,
            GnuHashLookupAnswers
<1>. QED
  BY <1>7, <1>8

-------------------------------------------------------------------------------
(***************************************************************************)
(* Theorems of the program.                                                *)
(***************************************************************************)
(* The tables stand for what was added in every state the program reaches. *)
THEOREM TablesStand == YSpec => []YInv
<1>1. YInit => YInv
  <2>. SUFFICES ASSUME YInit PROVE YInv
    OBVIOUS
  <2>1. PICK enc \in Encodings, type \in {SHT_REL, SHT_RELA} : elf = NewObject(enc, type)
    BY DEF YInit
  <2>2. syms = << >> /\ refs = << >> /\ sorted = FALSE
    BY DEF YInit
  <2>3. Stands(elf, syms, refs)
    BY ONLY <2>1, <2>2, NewObjectStands
  <2>. QED
    BY <2>2, <2>3 DEF YInv
<1>2. YInv /\ [YNext]_yvars => YInv'
  <2>. SUFFICES ASSUME YInv, [YNext]_yvars PROVE YInv'
    OBVIOUS
  <2>1. ASSUME NEW name \in Names, NEW bind \in {STB_LOCAL, STB_GLOBAL}, AddOne(name, bind)
        PROVE  YInv'
    BY ONLY YInv, <2>1, AddOneKeeps DEF Bindings
  <2>2. ASSUME NEW name \in Names, NEW bind \in {STB_LOCAL, STB_GLOBAL}, NEW type \in Types,
               RelocateNew(name, bind, type)
        PROVE  YInv'
    BY ONLY YInv, <2>2, RelocateNewKeeps DEF Bindings
  <2>3. ASSUME NEW n \in 1 .. Len(syms), NEW type \in Types, NEW a \in Addends,
               Relocate(n, type, a)
        PROVE  YInv'
    BY ONLY YInv, <2>3, RelocateKeeps
  <2>4. ASSUME NEW n \in 1 .. Len(syms), NEW type \in Types, NEW i \in 1 .. Len(refs),
               Retarget(i, n, type)
        PROVE  YInv'
    BY ONLY YInv, <2>4, RetargetKeeps
  <2>5. CASE Arrange
    BY ONLY YInv, <2>5, ArrangeKeeps
  <2>6. ASSUME NEW type \in {SHT_HASH, SHT_GNU_HASH}, BuildHash(type) PROVE YInv'
    BY ONLY YInv, <2>6, BuildHashKeeps
  <2>7. CASE UNCHANGED yvars
    BY <2>7 DEF yvars, YInv, Stands, Holds, Tables, Hashed, Represents, Refers, RefersTo, IsArranged
  <2>. QED
    BY <2>1, <2>2, <2>3, <2>4, <2>5, <2>6, <2>7, Zenon DEF YNext
<1>. QED
  BY <1>1, <1>2, PTL DEF YSpec

(* arrange_local_symbols leaves sh_info at the first symbol that is not    *)
(* local, and no local symbol behind it (elfio_symbols.hpp:299-352).       *)
THEOREM ArrangeSeparates == YSpec => []LocalsFirst
<1>1. YInv => LocalsFirst
  BY DEF YInv, IsArranged, LocalsFirst
<1>. QED
  BY <1>1, TablesStand, PTL

(* Adding, sorting and building a hash table lose no symbol, and change    *)
(* neither its name nor its binding.                                       *)
THEOREM SymbolsStay == YSpec => []NothingLost
<1>1. YInv => NothingLost
  <2>. SUFFICES ASSUME YInv PROVE NothingLost
    OBVIOUS
  <2>. DEFINE N == Len(syms)
  <2>1. Stands(elf, syms, refs) /\ Holds(elf, syms, refs) /\ syms \in Seq(Symbols)
        /\ Len(refs) \in Nat /\ N \in Nat
    BY DEF YInv, Stands
  <2>2. Tables(elf, Rows(syms), Len(refs)) /\ Represents(elf, syms) /\ Rows(syms) \in Nat
    BY <2>1 DEF Holds, Rows
  <2>3. GetSymbolsNum(Sec(elf, Sym)) = IF syms = << >> THEN 0 ELSE N + 1
    <3>1. GetSymbolsNum(Sec(elf, Sym)) = Rows(syms)
      BY ONLY <2>1, <2>2, TablesRead
    <3>. QED
      BY ONLY <3>1 DEF Rows
  <2>4. syms # << >> => SymbolPtr(elf, Sym, 0) = NullSymbol
    BY <2>2 DEF Represents
  <2>5. ASSUME NEW n \in 1 .. N
        PROVE  \E i \in 1 .. N : /\ SymbolPtr(elf, Sym, i).st_value = n
                                 /\ GetSymbol(elf, Sym, i).name = syms[n].name
                                 /\ GetSymbol(elf, Sym, i).bind = syms[n].bind
    <3>1. PICK i \in 1 .. N : SymbolPtr(elf, Sym, i).st_value = n
      BY <2>2 DEF Represents
    <3>2. GetSymbol(elf, Sym, i) = [ok |-> TRUE, name |-> syms[n].name,
                                    value |-> n, bind |-> syms[n].bind]
      BY <2>1, <3>1, SymbolIsRead
    <3>. QED
      BY <3>1, <3>2
  <2>. QED
    BY <2>3, <2>4, <2>5 DEF NothingLost
<1>. QED
  BY <1>1, TablesStand, PTL

(* get_symbol by value finds every symbol, under its name.                 *)
THEOREM ValuesAreFound == YSpec => []ValueFinds
<1>1. YInv => ValueFinds
  <2>. SUFFICES ASSUME YInv, NEW n \in 1 .. Len(syms)
                PROVE  GetSymbolByValue(elf, Sym, n).name = syms[n].name
    BY DEF ValueFinds
  <2>. DEFINE N == Len(syms)
              hits == {i \in 0 .. (GetSymbolsNum(Sec(elf, Sym)) - 1) :
                         SymbolPtr(elf, Sym, i).st_value = n}
              least == CHOOSE i \in hits : \A j \in hits : i <= j
  <2>1. Stands(elf, syms, refs) /\ Holds(elf, syms, refs) /\ syms \in Seq(Symbols)
        /\ Len(refs) \in Nat /\ N \in Nat /\ Rows(syms) = N + 1 /\ syms # << >>
    BY DEF YInv, Stands, Rows
  <2>2. Tables(elf, N + 1, Len(refs)) /\ Represents(elf, syms)
    BY ONLY <2>1 DEF Holds
  <2>3. GetSymbolsNum(Sec(elf, Sym)) = N + 1 /\ Sec(elf, Sym).has = TRUE
    <3>1. N + 1 \in Nat /\ N + 1 # 0
      BY <2>1
    <3>. QED
      BY ONLY <2>1, <2>2, <3>1, TablesRead
  <2>4. hits = {i \in 0 .. N : SymbolPtr(elf, Sym, i).st_value = n}
    <3>1. (N + 1) - 1 = N
      BY ONLY <2>1
    <3>. QED
      BY ONLY <2>3, <3>1
  <2>5. \E i \in 1 .. N : SymbolPtr(elf, Sym, i).st_value = n
    BY <2>2 DEF Represents
  <2>6. SymbolPtr(elf, Sym, 0).st_value # n
    <3>1. SymbolPtr(elf, Sym, 0) = NullSymbol
      BY <2>1, <2>2 DEF Represents
    <3>. QED
      BY <2>1, <3>1, NewFits
  <2>. HIDE DEF hits
  <2>7. hits # {} /\ hits \subseteq 1 .. N /\ hits \in SUBSET Nat
    BY ONLY <2>1, <2>4, <2>5, <2>6
  <2>8. least \in hits
    <3>1. \E i \in hits : \A j \in hits : i <= j
      BY ONLY <2>7, Smallest
    <3>. QED
      BY ONLY <3>1
  <2>. HIDE DEF least
  <2>9. least \in 1 .. N /\ SymbolPtr(elf, Sym, least).st_value = n
    BY ONLY <2>4, <2>7, <2>8
  <2>10. GetSymbol(elf, Sym, least).name = syms[n].name
    <3>1. GetSymbol(elf, Sym, least) = [ok |-> TRUE, name |-> syms[n].name,
                                        value |-> n, bind |-> syms[n].bind]
      BY <2>1, <2>9, SymbolIsRead
    <3>. QED
      BY <3>1
  <2>11. GetSymbolByValue(elf, Sym, n) = GetSymbol(elf, Sym, least)
    BY ONLY <2>3, <2>7, Zenon DEF GetSymbolByValue, hits, least
  <2>. QED
    BY ONLY <2>10, <2>11
<1>. QED
  BY <1>1, TablesStand, PTL

(* However often symbols are sorted, a relocation resolves to the name and *)
(* the value of the symbol it was made for: the callback of                *)
(* arrange_local_symbols renumbers all of them.                            *)
THEOREM RelocationsStay == YSpec => []RelocationsFollow
<1>1. YInv => RelocationsFollow
  <2>. SUFFICES ASSUME YInv PROVE RelocationsFollow
    OBVIOUS
  <2>. DEFINE N == Len(syms)
  <2>1. Stands(elf, syms, refs) /\ Holds(elf, syms, refs) /\ syms \in Seq(Symbols)
        /\ Len(refs) \in Nat /\ N \in Nat
    BY DEF YInv, Stands
  <2>2. Tables(elf, Rows(syms), Len(refs)) /\ Refers(elf, syms, refs) /\ Rows(syms) \in Nat
    BY <2>1 DEF Holds, Rows
  <2>3. GetEntriesNum(Sec(elf, Rel)) = Len(refs) /\ Sec(elf, Rel).link = Sym
    <3>1. GetEntriesNum(Sec(elf, Rel)) = Len(refs)
      BY ONLY <2>1, <2>2, TablesRead
    <3>. QED
      BY ONLY <2>2, <3>1 DEF Tables
  <2>4. ASSUME NEW i \in 1 .. Len(refs)
        PROVE  LET e == ResolveEntry(elf, Rel, i - 1)
               IN  e.ok /\ e.name = syms[refs[i].sym].name /\ e.calc = Calculated(refs[i])
    <3>. DEFINE entry == GetEntry(elf, Rel, i - 1)
                ref == refs[i]
                s == entry.symbol
                sym == GetSymbol(elf, Sec(elf, Rel).link, s)
    <3>1. /\ s \in 1 .. N /\ SymbolPtr(elf, Sym, s).st_value = ref.sym
          /\ entry.offset = ref.offset /\ entry.type = ref.type
          /\ entry.addend = ref.addend
      BY <2>2 DEF Refers, RefersTo
    <3>. HIDE DEF entry, ref
    <3>2. sym = [ok |-> TRUE, name |-> syms[ref.sym].name, value |-> ref.sym,
                 bind |-> syms[ref.sym].bind]
      <4>. HIDE DEF s
      <4>1. GetSymbol(elf, Sym, s) = [ok |-> TRUE, name |-> syms[ref.sym].name,
                                      value |-> ref.sym, bind |-> syms[ref.sym].bind]
        BY <2>1, <3>1, SymbolIsRead
      <4>. QED
        BY ONLY <2>3, <4>1
    <3>3. sym.ok = TRUE /\ sym.name = syms[ref.sym].name /\ sym.value = ref.sym
      BY ONLY <3>2
    <3>. HIDE DEF sym
    <3>4. i - 1 < GetEntriesNum(Sec(elf, Rel))
      BY ONLY <2>1, <2>3, i \in 1 .. Len(refs)
    <3>. DEFINE calc ==
                  CASE entry.type = R_386_32   -> (sym.value + entry.addend) % Hashes
                    [] entry.type = R_386_PC32 ->
                         (sym.value + entry.addend - entry.offset) % Hashes
                    [] entry.type \in {R_386_GLOB_DAT, R_386_JMP_SLOT} -> sym.value
                    [] entry.type = R_386_RELATIVE -> entry.addend
                    [] OTHER -> 0
                e == ResolveEntry(elf, Rel, i - 1)
    <3>5. e = [ok |-> i - 1 < GetEntriesNum(Sec(elf, Rel)) /\ sym.ok, name |-> sym.name,
               calc |-> calc]
      BY Zenon DEF ResolveEntry, entry, sym, s
    <3>6. Calculated(ref) = calc
      BY ONLY <3>1, <3>3, Zenon DEF Calculated
    <3>. HIDE DEF calc, e
    <3>7. /\ e.ok = (i - 1 < GetEntriesNum(Sec(elf, Rel)) /\ sym.ok) /\ e.name = sym.name
          /\ e.calc = Calculated(ref)
      BY ONLY <3>5, <3>6
    <3>. QED
      BY <3>3, <3>4, <3>7 DEF e, ref
  <2>. QED
    BY ONLY <2>3, <2>4, Zenon DEF RelocationsFollow
<1>. QED
  BY <1>1, TablesStand, PTL

(* get_symbol by name finds a symbol exactly when one has the name, and    *)
(* then one that was added under it, with its value and its binding: also  *)
(* through a hash table that was built before symbols were added or        *)
(* sorted, because a search in it ends, and one that finds nothing is      *)
(* followed by one through all symbols (elfio_symbols.hpp:91-135).         *)
THEOREM NamesAreFound == YSpec => []LookupFinds
<1>1. YInv => LookupFinds
  <2>. SUFFICES ASSUME YInv, NEW name \in Names \ {<< >>}
                PROVE  LET sym == GetSymbolByName(elf, Sym, name)
                       IN  /\ sym.ok <=> \E n \in 1 .. Len(syms) : syms[n].name = name
                           /\ sym.ok => syms[sym.value] = [name |-> name, bind |-> sym.bind]
    BY Zenon DEF LookupFinds
  <2>. DEFINE N == Len(syms)
              h == FindHashSection(elf, Sym)
              hashed == IF h = 0 THEN NoSymbol
                        ELSE IF Sec(elf, h).type = SHT_HASH THEN HashLookup(elf, Sym, h, name)
                        ELSE GnuHashLookup(elf, Sym, h, name)
              hits == {i \in 0 .. (GetSymbolsNum(Sec(elf, Sym)) - 1) :
                         GetSymbol(elf, Sym, i).ok /\ GetSymbol(elf, Sym, i).name = name}
              least == CHOOSE i \in hits : \A j \in hits : i <= j
              sym == GetSymbolByName(elf, Sym, name)
  <2>1. sym = IF hashed.ok THEN hashed
              ELSE IF hits = {} THEN NoSymbol ELSE GetSymbol(elf, Sym, least)
    BY Zenon DEF GetSymbolByName
  <2>2. /\ Stands(elf, syms, refs) /\ Holds(elf, syms, refs) /\ syms \in Seq(Symbols)
        /\ Len(refs) \in Nat /\ N \in Nat /\ Rows(syms) \in Nat
        /\ Rows(syms) = IF syms = << >> THEN 0 ELSE N + 1
    BY DEF YInv, Stands, Rows
  <2>3. Tables(elf, Rows(syms), Len(refs)) /\ Represents(elf, syms)
    BY ONLY <2>2 DEF Holds
  <2>4. GetSymbolsNum(Sec(elf, Sym)) = Rows(syms)
    BY ONLY <2>2, <2>3, TablesRead
  <2>5. name \in String /\ name # << >>
    BY SymbolsAssumption DEF String
  <2>6. Answer(hashed, syms, name)
    <3>1. CASE h = 0
      BY <3>1 DEF Answer, NoSymbol
    <3>2. CASE h # 0
      <4>. HIDE DEF h
      <4>1. /\ Sec(elf, h).type = SHT_HASH =>
                 Answer(HashLookup(elf, Sym, h, name), syms, name)
            /\ Sec(elf, h).type # SHT_HASH =>
                 Answer(GnuHashLookup(elf, Sym, h, name), syms, name)
        <5>1. h = FindHashSection(elf, Sym)
          BY DEF h
        <5>. QED
          BY ONLY <2>2, <2>5, <3>2, <5>1, HashAnswers
      <4>. QED
        BY <3>2, <4>1
    <3>. QED
      BY <3>1, <3>2
  <2>. HIDE DEF hashed, h
  <2>7. hits # {} => least \in hits
    <3>1. hits \in SUBSET Nat
      BY <2>2, <2>4
    <3>. HIDE DEF hits
    <3>2. hits # {} => \E i \in hits : \A j \in hits : i <= j
      BY ONLY <3>1, Smallest
    <3>. QED
      BY <3>2
  <2>8. hits # {} => GetSymbol(elf, Sym, least).ok /\ Answer(GetSymbol(elf, Sym, least), syms, name)
    <3>. HIDE DEF least
    <3>. SUFFICES ASSUME hits # {}
                  PROVE  /\ GetSymbol(elf, Sym, least).ok
                         /\ Answer(GetSymbol(elf, Sym, least), syms, name)
      OBVIOUS
    <3>1. /\ least \in Nat /\ GetSymbol(elf, Sym, least).ok
          /\ GetSymbol(elf, Sym, least).name = name
      BY <2>2, <2>4, <2>7
    <3>2. Genuine(GetSymbol(elf, Sym, least), syms)
      BY <2>2, <2>5, <3>1, RowIsRead
    <3>. QED
      BY <3>1, <3>2 DEF Answer
  <2>9. ASSUME NEW n \in 1 .. N, syms[n].name = name PROVE hits # {}
    <3>1. PICK i \in 1 .. N : SymbolPtr(elf, Sym, i).st_value = n
      BY <2>3 DEF Represents
    <3>2. GetSymbol(elf, Sym, i) = [ok |-> TRUE, name |-> syms[n].name,
                                    value |-> n, bind |-> syms[n].bind]
      BY <2>2, <3>1, SymbolIsRead
    <3>3. i \in 0 .. (GetSymbolsNum(Sec(elf, Sym)) - 1)
      <4>1. syms # << >>
        BY ONLY <2>2, n \in 1 .. N
      <4>. QED
        BY ONLY <2>2, <2>4, <4>1, i \in 1 .. N
    <3>4. i \in hits
      BY <2>9, <3>2, <3>3
    <3>. QED
      BY <3>4
  <2>. HIDE DEF hits, least, sym, N
  <2>10. Answer(sym, syms, name)
    <3>1. Answer(NoSymbol, syms, name)
      BY DEF Answer, NoSymbol
    <3>. QED
      BY ONLY <2>1, <2>6, <2>8, <3>1
  <2>11. ASSUME NEW n \in 1 .. N, syms[n].name = name PROVE sym.ok
    <3>1. hits # {}
      BY <2>9, <2>11
    <3>. QED
      BY ONLY <2>1, <2>8, <3>1
  <2>12. ASSUME sym.ok
         PROVE  /\ sym.value \in 1 .. N /\ syms[sym.value] = [name |-> name, bind |-> sym.bind]
                /\ syms[sym.value].name = name
    BY <2>10, <2>12 DEF Answer, Genuine, N
  <2>. QED
    BY ONLY <2>11, <2>12 DEF sym, N
<1>. QED
  BY <1>1, TablesStand, PTL
==============================================================================
