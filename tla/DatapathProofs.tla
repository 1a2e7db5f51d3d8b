---------------------------- MODULE DatapathProofs ----------------------------
(***************************************************************************)
(* Proofs about CalcImmediate.v: the wiring of every format undoes what an *)
(* assembler does, for every immediate the format can carry; and about     *)
(* ALU.v: every operation does to the bits of its operands what the        *)
(* instruction set says, for every width of the registers.                 *)
(***************************************************************************)
EXTENDS Datapath, SequenceTheorems, WellFoundedInduction, TLAPS

(* s stands for n wires.                                                   *)
Wired(s, n) == s \in Seq(Nat) /\ Len(s) = n

(* n copies of one wire; n wires from high downwards.                      *)
Same(s, n, bit)  == Wired(s, n) /\ \A k \in 1 .. n : s[k] = bit
Down(s, n, high) == Wired(s, n) /\ \A k \in 1 .. n : s[k] = high + 1 - k

(* w is s with t behind it.                                                *)
Joins(w, s, m, t, n) ==
  /\ Wired(w, m + n)
  /\ \A k \in 1 .. m : w[k] = s[k]
  /\ \A k \in 1 .. (m + n) : k > m => w[k] = t[k - m]

(* A replication, a part select, a single wire and a concatenation of them.*)
LEMMA CopiesWired ==
  ASSUME NEW n \in Nat, NEW bit \in Nat
  PROVE  Same(Copies(n, bit), n, bit)
BY DEF Copies, Same, Wired

(* A part select runs downwards.                                           *)
LEMMA SliceWired ==
  ASSUME NEW high \in Nat, NEW low \in Nat, low <= high
  PROVE  Down(Slice(high, low), high - low + 1, high)
BY DEF Slice, Down, Wired

(* One wire by itself.                                                     *)
LEMMA OneWired ==
  ASSUME NEW bit \in Nat
  PROVE  Same(<<bit>>, 1, bit)
BY DEF Same, Wired

(* A concatenation is wired as its two parts are.                          *)
LEMMA Joined ==
  ASSUME NEW m \in Nat, NEW n \in Nat, NEW s, NEW t, Wired(s, m), Wired(t, n)
  PROVE  Joins(s \o t, s, m, t, n)
<1>. DEFINE w == s \o t
<1>1. s \in Seq(Nat) /\ t \in Seq(Nat) /\ Len(s) = m /\ Len(t) = n
  BY DEF Wired
<1>2. /\ w \in Seq(Nat) /\ Len(w) = Len(s) + Len(t)
      /\ \A i \in 1 .. (Len(s) + Len(t)) :
           w[i] = IF i <= Len(s) THEN s[i] ELSE t[i - Len(s)]
  BY <1>1, ConcatProperties, Zenon
<1>. HIDE DEF w
<1>3. Joins(w, s, m, t, n)
  BY <1>1, <1>2 DEF Wired, Joins
<1>. QED
  BY <1>3 DEF w

-------------------------------------------------------------------------------
(* Where each wire of an immediate comes from, the highest first.          *)
LEMMA IWires == \A k \in 1 .. 32 : i_imm_32[k] = IF k <= 20 THEN 31 ELSE 52 - k
<1>. DEFINE a == Copies(20, 31)
            b == Slice(31, 20)
            w == a \o b
<1>1. Same(a, 20, 31)
  BY CopiesWired
<1>2. Down(b, 12, 31)
  BY SliceWired
<1>. HIDE DEF a, b
<1>3. Joins(w, a, 20, b, 12)
  BY <1>1, <1>2, Joined DEF Same, Down
<1>. HIDE DEF w
<1>4. \A k \in 1 .. 32 : w[k] = IF k <= 20 THEN 31 ELSE 52 - k
  BY <1>1, <1>2, <1>3 DEF Joins, Same, Down
<1>. QED
  BY <1>4 DEF w, a, b, i_imm_32

(* Stores: CalcImmediate.v:24.                                             *)
LEMMA SWires ==
  \A k \in 1 .. 32 : s_imm_32[k] = IF k <= 20 THEN 31 ELSE IF k <= 27 THEN 52 - k ELSE 39 - k
<1>. DEFINE a == Copies(20, 31)
            b == Slice(31, 25)
            c == Slice(11, 7)
            ab == a \o b
            w == ab \o c
<1>1. Same(a, 20, 31)
  BY CopiesWired
<1>2. Down(b, 7, 31) /\ Down(c, 5, 11)
  BY SliceWired
<1>. HIDE DEF a, b, c
<1>3. Joins(ab, a, 20, b, 7)
  BY <1>1, <1>2, Joined DEF Same, Down
<1>. HIDE DEF ab
<1>4. Wired(ab, 27)
  BY <1>3 DEF Joins
<1>5. Joins(w, ab, 27, c, 5)
  BY <1>4, <1>2, Joined DEF Down
<1>. HIDE DEF w
<1>6. \A k \in 1 .. 32 : w[k] = IF k <= 20 THEN 31 ELSE IF k <= 27 THEN 52 - k ELSE 39 - k
  BY <1>1, <1>2, <1>3, <1>5 DEF Joins, Same, Down
<1>. QED
  BY <1>6 DEF w, ab, a, b, c, s_imm_32

(* Upper immediates: CalcImmediate.v:26.                                   *)
LEMMA UWires == \A k \in 1 .. 32 : u_imm_32[k] = IF k <= 20 THEN 32 - k ELSE Ground
<1>. DEFINE a == Slice(31, 12)
            b == Copies(12, Ground)
            w == a \o b
<1>1. Down(a, 20, 31)
  BY SliceWired
<1>2. Same(b, 12, Ground)
  BY CopiesWired DEF Ground
<1>. HIDE DEF a, b
<1>3. Joins(w, a, 20, b, 12)
  BY <1>1, <1>2, Joined DEF Same, Down
<1>. HIDE DEF w
<1>4. \A k \in 1 .. 32 : w[k] = IF k <= 20 THEN 32 - k ELSE Ground
  BY <1>1, <1>2, <1>3 DEF Joins, Same, Down
<1>. QED
  BY <1>4 DEF w, a, b, u_imm_32

(* Numbers of places: CalcImmediate.v:29.                                  *)
LEMMA ShamtWires == \A k \in 1 .. 32 : shamt_32[k] = IF k <= 27 THEN Ground ELSE 52 - k
<1>. DEFINE a == Copies(27, Ground)
            b == Slice(24, 20)
            w == a \o b
<1>1. Same(a, 27, Ground)
  BY CopiesWired DEF Ground
<1>2. Down(b, 5, 24)
  BY SliceWired
<1>. HIDE DEF a, b
<1>3. Joins(w, a, 27, b, 5)
  BY <1>1, <1>2, Joined DEF Same, Down
<1>. HIDE DEF w
<1>4. \A k \in 1 .. 32 : w[k] = IF k <= 27 THEN Ground ELSE 52 - k
  BY <1>1, <1>2, <1>3 DEF Joins, Same, Down
<1>. QED
  BY <1>4 DEF w, a, b, shamt_32

(* Branches: CalcImmediate.v:25.                                           *)
LEMMA BWires ==
  \A k \in 1 .. 32 :
    b_imm_32[k] = IF k <= 20 THEN 31 ELSE IF k = 21 THEN 7 ELSE IF k <= 27 THEN 52 - k
                  ELSE IF k <= 31 THEN 39 - k ELSE Ground
<1>. DEFINE a == Copies(20, 31)
            b == <<7>>
            c == Slice(30, 25)
            d == Slice(11, 8)
            e == <<Ground>>
            ab == a \o b
            ac == ab \o c
            ad == ac \o d
            w  == ad \o e
<1>1. Same(a, 20, 31) /\ Same(b, 1, 7) /\ Same(e, 1, Ground)
  BY CopiesWired, OneWired DEF Ground
<1>2. Down(c, 6, 30) /\ Down(d, 4, 11)
  BY SliceWired
<1>. HIDE DEF a, b, c, d, e
<1>3. Joins(ab, a, 20, b, 1)
  BY <1>1, Joined DEF Same
<1>. HIDE DEF ab
<1>4. Wired(ab, 21)
  BY <1>3 DEF Joins
<1>5. Joins(ac, ab, 21, c, 6)
  BY <1>4, <1>2, Joined DEF Down
<1>. HIDE DEF ac
<1>6. Wired(ac, 27)
  BY <1>5 DEF Joins
<1>7. Joins(ad, ac, 27, d, 4)
  BY <1>6, <1>2, Joined DEF Down
<1>. HIDE DEF ad
<1>8. Wired(ad, 31)
  BY <1>7 DEF Joins
<1>9. Joins(w, ad, 31, e, 1)
  BY <1>8, <1>1, Joined DEF Same
<1>. HIDE DEF w
<1>10. ASSUME NEW k \in 1 .. 32
       PROVE  w[k] = IF k <= 20 THEN 31 ELSE IF k = 21 THEN 7 ELSE IF k <= 27 THEN 52 - k
                     ELSE IF k <= 31 THEN 39 - k ELSE Ground
  <2>1. k <= 21 => w[k] = ab[k]
    BY <1>5, <1>7, <1>9 DEF Joins
  <2>2. k > 21 => w[k] = IF k <= 27 THEN c[k - 21] ELSE IF k <= 31 THEN d[k - 27] ELSE e[k - 31]
    BY <1>5, <1>7, <1>9 DEF Joins
  <2>. QED
    BY <1>1, <1>2, <1>3, <2>1, <2>2 DEF Joins, Same, Down
<1>. QED
  BY <1>10 DEF w, ad, ac, ab, a, b, c, d, e, b_imm_32

(* Jumps: CalcImmediate.v:27.                                              *)
LEMMA JWires ==
  \A k \in 1 .. 32 :
    j_imm_32[k] = IF k <= 12 THEN 31 ELSE IF k <= 20 THEN 32 - k ELSE IF k = 21 THEN 20
                  ELSE IF k <= 31 THEN 52 - k ELSE Ground
<1>. DEFINE a == Copies(12, 31)
            b == Slice(19, 12)
            c == <<20>>
            d == Slice(30, 21)
            e == <<Ground>>
            ab == a \o b
            ac == ab \o c
            ad == ac \o d
            w  == ad \o e
<1>1. Same(a, 12, 31) /\ Same(c, 1, 20) /\ Same(e, 1, Ground)
  BY CopiesWired, OneWired DEF Ground
<1>2. Down(b, 8, 19) /\ Down(d, 10, 30)
  BY SliceWired
<1>. HIDE DEF a, b, c, d, e
<1>3. Joins(ab, a, 12, b, 8)
  BY <1>1, <1>2, Joined DEF Same, Down
<1>. HIDE DEF ab
<1>4. Wired(ab, 20)
  BY <1>3 DEF Joins
<1>5. Joins(ac, ab, 20, c, 1)
  BY <1>4, <1>1, Joined DEF Same
<1>. HIDE DEF ac
<1>6. Wired(ac, 21)
  BY <1>5 DEF Joins
<1>7. Joins(ad, ac, 21, d, 10)
  BY <1>6, <1>2, Joined DEF Down
<1>. HIDE DEF ad
<1>8. Wired(ad, 31)
  BY <1>7 DEF Joins
<1>9. Joins(w, ad, 31, e, 1)
  BY <1>8, <1>1, Joined DEF Same
<1>. HIDE DEF w
<1>10. ASSUME NEW k \in 1 .. 32
       PROVE  w[k] = IF k <= 12 THEN 31 ELSE IF k <= 20 THEN 32 - k ELSE IF k = 21 THEN 20
                     ELSE IF k <= 31 THEN 52 - k ELSE Ground
  <2>1. k <= 20 => w[k] = ab[k]
    BY <1>5, <1>7, <1>9 DEF Joins
  <2>2. k > 20 => w[k] = IF k = 21 THEN c[1] ELSE IF k <= 31 THEN d[k - 21] ELSE e[k - 31]
    BY <1>5, <1>7, <1>9 DEF Joins
  <2>. QED
    BY <1>1, <1>2, <1>3, <2>1, <2>2 DEF Joins, Same, Down
<1>. QED
  BY <1>10 DEF w, ad, ac, ab, a, b, c, d, e, j_imm_32

-------------------------------------------------------------------------------
(* An assembler with an injective table of the bits low to high, and wires *)
(* that follow it, repeat the highest and ground what is below: the        *)
(* immediate comes through.                                                *)
Follows(wires, P, low, high) ==
  \A bit \in Bit31to0 :
    wires[32 - bit] = IF bit > high THEN P[high] ELSE IF bit < low THEN Ground ELSE P[bit]

(* What is scattered by a table is gathered by wires that follow it.       *)
LEMMA RoundTrip ==
  ASSUME NEW low \in Nat, NEW high \in Nat, low <= high, high <= 31,
         NEW P \in [low .. high -> Bit31to0],
         \A m, n \in low .. high : P[m] = P[n] => m = n,
         NEW wires, Follows(wires, P, low, high),
         NEW value \in SUBSET Bit31to0,
         value \cap 0 .. (low - 1) = {},
         value \cap high .. 31 \in {{}, high .. 31}
  PROVE  {bit \in Bit31to0 : wires[32 - bit] \in {P[n] : n \in value \cap low .. high}} = value
<1>. DEFINE code == {P[n] : n \in value \cap low .. high}
<1>1. ASSUME NEW bit \in Bit31to0
      PROVE  wires[32 - bit] \in code <=> bit \in value
  <2>1. CASE bit > high
    <3>1. wires[32 - bit] = P[high] /\ high \in low .. high
      BY <2>1 DEF Follows
    <3>2. P[high] \in code <=> high \in value
      BY <3>1
    <3>3. bit \in high .. 31 /\ high \in high .. 31
      BY <2>1 DEF Bit31to0
    <3>4. high \in value <=> bit \in value
      BY <3>3, Zenon
    <3>. QED
      BY <3>1, <3>2, <3>4
  <2>2. CASE bit < low
    <3>1. wires[32 - bit] = Ground
      <4>1. ~(bit > high)
        BY <2>2 DEF Bit31to0
      <4>. QED
        BY <2>2, <4>1 DEF Follows
    <3>2. Ground \notin code
      <4>1. \A x \in code : x \in Bit31to0
        OBVIOUS
      <4>2. Ground \notin Bit31to0
        BY DEF Ground, Bit31to0
      <4>. QED
        BY <4>1, <4>2
    <3>3. bit \notin value
      <4>1. bit \in 0 .. (low - 1)
        BY <2>2 DEF Bit31to0
      <4>. QED
        BY <4>1
    <3>. QED
      BY <3>1, <3>2, <3>3
  <2>3. CASE bit \in low .. high
    <3>1. wires[32 - bit] = P[bit]
      BY <2>3 DEF Follows
    <3>2. P[bit] \in code <=> bit \in value
      BY <2>3
    <3>. QED
      BY <3>1, <3>2
  <2>. QED
    BY <2>1, <2>2, <2>3 DEF Bit31to0
<1>. QED
  BY <1>1

(* Low and High are the ends of the bits of a format.                      *)
LEMMA Ends ==
  ASSUME NEW low \in Nat, NEW high \in Nat, low <= high
  PROVE  Min(low .. high) = low /\ Max(low .. high) = high
<1>1. low \in low .. high /\ high \in low .. high
  OBVIOUS
<1>2. Min(low .. high) = low
  BY <1>1 DEF Min
<1>3. Max(low .. high) = high
  BY <1>1 DEF Max
<1>. QED
  BY <1>2, <1>3
-------------------------------------------------------------------------------
(* The table of each format, and the wires that follow it.                 *)
Low(f)  == CASE f = "B" -> 1 [] f = "J" -> 1 [] f = "U" -> 12 [] OTHER -> 0
High(f) == CASE f = "B" -> 12 [] f = "J" -> 20 [] f = "U" -> 31 [] OTHER -> 11

FormatWires(f) ==
  CASE f = "I" -> i_imm_32
    [] f = "S" -> s_imm_32
    [] f = "B" -> b_imm_32
    [] f = "J" -> j_imm_32
    [] f = "U" -> u_imm_32

(* The wires of every format follow its table.                             *)
LEMMA FormatFollows ==
  ASSUME NEW f \in {"I", "S", "B", "J", "U"}
  PROVE  /\ Low(f) \in Nat /\ High(f) \in Nat /\ Low(f) <= High(f) /\ High(f) <= 31
         /\ Position[f] \in [Low(f) .. High(f) -> Bit31to0]
         /\ \A m, n \in Low(f) .. High(f) : Position[f][m] = Position[f][n] => m = n
         /\ Follows(FormatWires(f), Position[f], Low(f), High(f))
<1>1. CASE f = "I"
  <2>. DEFINE P == [n \in 0 .. 11 |-> n + 20]
  <2>1. Position[f] = P /\ Low(f) = 0 /\ High(f) = 11 /\ FormatWires(f) = i_imm_32
    BY <1>1 DEF Position, Low, High, FormatWires
  <2>2. P \in [0 .. 11 -> Bit31to0] /\ \A m, n \in 0 .. 11 : P[m] = P[n] => m = n
    BY DEF Bit31to0
  <2>3. Follows(i_imm_32, P, 0, 11)
    <3>. SUFFICES ASSUME NEW bit \in Bit31to0
                  PROVE  i_imm_32[32 - bit] = IF bit > 11 THEN P[11]
                           ELSE IF bit < 0 THEN Ground ELSE P[bit]
      BY DEF Follows
    <3>1. 32 - bit \in 1 .. 32
      BY DEF Bit31to0
    <3>. HIDE DEF i_imm_32
    <3>. QED
      BY <3>1, IWires DEF Bit31to0
  <2>. QED
    BY <2>1, <2>2, <2>3
<1>2. CASE f = "S"
  <2>. DEFINE P == [n \in 0 .. 11 |-> IF n < 5 THEN n + 7 ELSE n + 20]
  <2>1. Position[f] = P /\ Low(f) = 0 /\ High(f) = 11 /\ FormatWires(f) = s_imm_32
    BY <1>2 DEF Position, Low, High, FormatWires
  <2>2. P \in [0 .. 11 -> Bit31to0] /\ \A m, n \in 0 .. 11 : P[m] = P[n] => m = n
    BY DEF Bit31to0
  <2>3. Follows(s_imm_32, P, 0, 11)
    <3>. SUFFICES ASSUME NEW bit \in Bit31to0
                  PROVE  s_imm_32[32 - bit] = IF bit > 11 THEN P[11]
                           ELSE IF bit < 0 THEN Ground ELSE P[bit]
      BY DEF Follows
    <3>1. 32 - bit \in 1 .. 32
      BY DEF Bit31to0
    <3>. QED
      BY <3>1, SWires DEF Bit31to0
  <2>. QED
    BY <2>1, <2>2, <2>3
<1>3. CASE f = "B"
  <2>. DEFINE P == [n \in 1 .. 12 |-> CASE n = 12      -> 31
                                        [] n = 11      -> 7
                                        [] n \in 5 .. 10 -> n + 20
                                        [] OTHER       -> n + 7]
  <2>1. Position[f] = P /\ Low(f) = 1 /\ High(f) = 12 /\ FormatWires(f) = b_imm_32
    BY <1>3 DEF Position, Low, High, FormatWires
  <2>2. \A n \in 1 .. 12 : P[n] = IF n = 12 THEN 31 ELSE IF n = 11 THEN 7
                                  ELSE IF n >= 5 THEN n + 20 ELSE n + 7
    OBVIOUS
  <2>3. P \in [1 .. 12 -> Bit31to0]
    BY DEF Bit31to0
  <2>. HIDE DEF P
  <2>4. \A m, n \in 1 .. 12 : P[m] = P[n] => m = n
    BY <2>2
  <2>5. Follows(b_imm_32, P, 1, 12)
    <3>. SUFFICES ASSUME NEW bit \in Bit31to0
                  PROVE  b_imm_32[32 - bit] = IF bit > 12 THEN P[12]
                           ELSE IF bit < 1 THEN Ground ELSE P[bit]
      BY DEF Follows
    <3>1. 32 - bit \in 1 .. 32
      BY DEF Bit31to0
    <3>. QED
      BY <3>1, <2>2, BWires DEF Bit31to0
  <2>. QED
    BY <2>1, <2>3, <2>4, <2>5
<1>4. CASE f = "J"
  <2>. DEFINE P == [n \in 1 .. 20 |-> CASE n = 20        -> 31
                                        [] n = 11        -> 20
                                        [] n \in 12 .. 19 -> n
                                        [] OTHER         -> n + 20]
  <2>1. Position[f] = P /\ Low(f) = 1 /\ High(f) = 20 /\ FormatWires(f) = j_imm_32
    BY <1>4 DEF Position, Low, High, FormatWires
  <2>2. \A n \in 1 .. 20 : P[n] = IF n = 20 THEN 31 ELSE IF n = 11 THEN 20
                                  ELSE IF n >= 12 THEN n ELSE n + 20
    OBVIOUS
  <2>3. P \in [1 .. 20 -> Bit31to0]
    BY DEF Bit31to0
  <2>. HIDE DEF P
  <2>4. \A m, n \in 1 .. 20 : P[m] = P[n] => m = n
    BY <2>2
  <2>5. Follows(j_imm_32, P, 1, 20)
    <3>. SUFFICES ASSUME NEW bit \in Bit31to0
                  PROVE  j_imm_32[32 - bit] = IF bit > 20 THEN P[20]
                           ELSE IF bit < 1 THEN Ground ELSE P[bit]
      BY DEF Follows
    <3>1. 32 - bit \in 1 .. 32
      BY DEF Bit31to0
    <3>. QED
      BY <3>1, <2>2, JWires DEF Bit31to0
  <2>. QED
    BY <2>1, <2>3, <2>4, <2>5
<1>5. CASE f = "U"
  <2>. DEFINE P == [n \in 12 .. 31 |-> n]
  <2>1. Position[f] = P /\ Low(f) = 12 /\ High(f) = 31 /\ FormatWires(f) = u_imm_32
    BY <1>5 DEF Position, Low, High, FormatWires
  <2>2. P \in [12 .. 31 -> Bit31to0] /\ \A m, n \in 12 .. 31 : P[m] = P[n] => m = n
    BY DEF Bit31to0
  <2>3. Follows(u_imm_32, P, 12, 31)
    <3>. SUFFICES ASSUME NEW bit \in Bit31to0
                  PROVE  u_imm_32[32 - bit] = IF bit > 31 THEN P[31]
                           ELSE IF bit < 12 THEN Ground ELSE P[bit]
      BY DEF Follows
    <3>1. 32 - bit \in 1 .. 32
      BY DEF Bit31to0
    <3>. QED
      BY <3>1, UWires DEF Bit31to0
  <2>. QED
    BY <2>1, <2>2, <2>3
<1>. QED
  BY <1>1, <1>2, <1>3, <1>4, <1>5
(* What is assembled in one of the five formats is what is gathered.       *)
LEMMA FarSurvives ==
  ASSUME NEW op \in {"I_TYPE", "LOAD", "JALR", "STORE", "BRANCH", "JAL", "LUI", "AUIPC"},
         NEW f3, op = "I_TYPE" => f3 \notin {1, 5},
         NEW value \in SUBSET Bit31to0, Carries(op, value)
  PROVE  CalcImmediate(Assembled(op, value), op, f3) = value
<1>. DEFINE f     == Format(op)
            low   == Low(f)
            high  == High(f)
            P     == Position[f]
            wires == FormatWires(f)
<1>1. f \in {"I", "S", "B", "J", "U"} /\ imm32(op, f3) = wires
  BY DEF Format, imm32, FormatWires
<1>. HIDE DEF f
<1>2. /\ low \in Nat /\ high \in Nat /\ low <= high /\ high <= 31
      /\ P \in [low .. high -> Bit31to0]
      /\ \A m, n \in low .. high : P[m] = P[n] => m = n
      /\ Follows(wires, P, low, high)
  BY <1>1, FormatFollows
<1>. HIDE DEF low, high, wires
<1>3. DOMAIN P = low .. high
  BY <1>2
<1>4. Min(DOMAIN P) = low /\ Max(DOMAIN P) = high
  BY <1>2, <1>3, Ends
<1>5. value \cap 0 .. (low - 1) = {} /\ value \cap high .. 31 \in {{}, high .. 31}
  BY <1>4 DEF Carries, f
<1>6. Assembled(op, value) = {P[n] : n \in value \cap low .. high}
  BY <1>3 DEF Assembled, f
<1>. HIDE DEF P
<1>7. {bit \in Bit31to0 : wires[32 - bit] \in {P[n] : n \in value \cap low .. high}} = value
  BY <1>2, <1>5, RoundTrip
<1>8. CalcImmediate(Assembled(op, value), op, f3)
        = {bit \in Bit31to0 : wires[32 - bit] \in Assembled(op, value)}
  BY <1>1 DEF CalcImmediate
<1>. QED
  BY <1>6, <1>7, <1>8, Zenon

(* The number of places of a shift comes through, whatever bit 30 says.    *)
LEMMA ShiftSurvives ==
  ASSUME NEW f3 \in {1, 5}, NEW value \in SUBSET Bit31to0, CarriesShift(value),
         NEW alt \in {{}, {30}}
  PROVE  CalcImmediate(Assembled("I_TYPE", value) \cup alt, "I_TYPE", f3) = value
<1>. DEFINE code == Assembled("I_TYPE", value) \cup alt
<1>1. code = {n + 20 : n \in value} \cup alt
  <2>1. Position["I"] = [n \in 0 .. 11 |-> n + 20] /\ Format("I_TYPE") = "I"
    BY DEF Position, Format
  <2>2. value \cap 0 .. 11 = value
    <3>1. \A n \in value : n \in 0 .. 4
      BY DEF CarriesShift
    <3>2. 0 .. 4 \subseteq 0 .. 11
      OBVIOUS
    <3>. QED
      BY <3>1, <3>2, Zenon
  <2>. QED
    BY <2>1, <2>2 DEF Assembled
<1>2. imm32("I_TYPE", f3) = shamt_32
  BY DEF imm32
<1>. HIDE DEF code
<1>3. ASSUME NEW bit \in Bit31to0
      PROVE  shamt_32[32 - bit] \in code <=> bit \in value
  <2>1. 32 - bit \in 1 .. 32
    BY DEF Bit31to0
  <2>2. shamt_32[32 - bit] = IF bit >= 5 THEN Ground ELSE bit + 20
    BY <2>1, ShamtWires DEF Bit31to0
  <2>. HIDE DEF shamt_32
  <2>3. CASE bit >= 5
    <3>1. bit \notin value
      BY <2>3 DEF CarriesShift
    <3>2. \A n \in value : n \in 0 .. 4
      BY DEF CarriesShift
    <3>3. Ground \notin code
      BY <1>1, <3>2 DEF Ground
    <3>. QED
      BY <2>2, <2>3, <3>1, <3>3
  <2>4. CASE bit < 5
    <3>1. \A n \in value : n \in 0 .. 4
      BY DEF CarriesShift
    <3>2. bit + 20 # 30 /\ \A n \in value : n + 20 = bit + 20 => n = bit
      BY <2>4, <3>1 DEF Bit31to0
    <3>3. bit + 20 \in code <=> bit \in value
      BY <1>1, <3>2
    <3>. QED
      BY <2>2, <2>4, <3>3 DEF Bit31to0
  <2>. QED
    BY <2>3, <2>4 DEF Bit31to0
<1>4. CalcImmediate(code, "I_TYPE", f3) = {bit \in Bit31to0 : shamt_32[32 - bit] \in code}
  BY <1>2 DEF CalcImmediate
<1>. QED
  BY <1>3, <1>4 DEF code

(* Whatever immediate the assembler was given is what the processor        *)
(* computes with, for every width of the registers and every immediate a   *)
(* format can carry (CalcImmediate.v:21-39).                               *)
THEOREM ImmediatesSurvive == DSpec => []ImmediateSurvives
<1>1. DInit => ImmediateSurvives
  <2>. SUFFICES ASSUME DInit PROVE CalcImmediate(instr, opcode, funct3) = given
    BY DEF ImmediateSurvives
  <2>1. CASE Far
    <3>1. PICK value \in Offsets :
            Carries(opcode, value) /\ given = value /\ instr = Assembled(opcode, value)
      BY <2>1 DEF Far
    <3>2. value \in SUBSET Bit31to0
      BY DatapathAssumption
    <3>. QED
      BY <2>1, <3>1, <3>2, FarSurvives DEF Far
  <2>2. \A a \in Words : OnesOf(a) \in SUBSET Bit31to0 /\ Extended(a) \in SUBSET Bit31to0
    BY DatapathAssumption DEF OnesOf, Extended, Top, Bit31to0
  <2>3. CASE Arithmetic
    <3>1. CASE opcode = "I_TYPE" /\ funct3 \notin {1, 5}
      <4>1. given = Extended(operand) /\ Carries(opcode, given)
            /\ instr = Assembled(opcode, given) /\ operand \in Words
        BY <2>3, <3>1 DEF Arithmetic
      <4>. QED
        BY <3>1, <4>1, <2>2, FarSurvives
    <3>2. CASE opcode = "I_TYPE" /\ funct3 \in {1, 5}
      <4>1. given = OnesOf(operand) /\ CarriesShift(given) /\ operand \in Words
        BY <2>3, <3>2 DEF Arithmetic
      <4>2. PICK alt \in {{}, {30}} : instr = Assembled(opcode, given) \cup alt
        BY <2>3, <3>2 DEF Arithmetic
      <4>. QED
        BY <3>2, <4>1, <4>2, <2>2, ShiftSurvives
    <3>3. CASE opcode = "R_TYPE" /\ given = {} /\ instr \in {{}, {30}}
      <4>1. imm32(opcode, funct3) = Copies(32, Ground)
        BY <3>3 DEF imm32
      <4>2. \A bit \in Bit31to0 : Copies(32, Ground)[32 - bit] = Ground
        BY DEF Copies, Bit31to0
      <4>3. Ground \notin instr
        BY <3>3 DEF Ground
      <4>. QED
        BY <3>3, <4>1, <4>2, <4>3 DEF CalcImmediate
    <3>. QED
      BY <2>3, <3>1, <3>2, <3>3 DEF Arithmetic
  <2>. QED
    BY <2>1, <2>3 DEF DInit
<1>2. ImmediateSurvives /\ [DNext]_dvars => ImmediateSurvives'
  BY DEF ImmediateSurvives, DNext, dvars
<1>. QED
  BY <1>1, <1>2, PTL DEF DSpec
-------------------------------------------------------------------------------
(***************************************************************************)
(* Proofs about ALU.v.  Induction first, as a fact about sets.             *)
(***************************************************************************)
(* Every set of natural numbers has a smallest element.                    *)
LEMMA Smallest ==
  ASSUME NEW T \in SUBSET Nat, T # {}
  PROVE  \E x \in T : \A y \in T : x <= y
<1>. DEFINE R == {ss \in Nat \X Nat : ss[1] < ss[2]}
<1>1. R = OpToRel(<, Nat)
  BY DEF OpToRel
<1>2. IsWellFoundedOn(R, Nat)
  BY <1>1, NatLessThanWellFounded
<1>3. PICK x \in T : \A y \in T : ~(<<y, x>> \in R)
  <2>. HIDE DEF R
  <2>. QED
    BY <1>2, WFMin
<1>4. \A y \in T : <<y, x>> \in R <=> y < x
  BY <1>3
<1>. HIDE DEF R
<1>5. \A y \in T : ~(y < x)
  BY <1>3, <1>4, Zenon
<1>. QED
  BY <1>5

(* A set that holds 0 and the successor of each of its members holds all.  *)
LEMMA SetInduction ==
  ASSUME NEW S, 0 \in S, \A n \in Nat : n \in S => n + 1 \in S
  PROVE  Nat \subseteq S
<1>. SUFFICES ASSUME NEW b \in Nat, b \notin S PROVE FALSE
  OBVIOUS
<1>. DEFINE T == {n \in Nat : n \notin S}
<1>1. PICK x \in T : \A y \in T : x <= y
  BY Smallest
<1>2. x # 0 /\ x - 1 \in Nat /\ x - 1 \in S
  BY <1>1
<1>. QED
  BY <1>1, <1>2

-------------------------------------------------------------------------------
(***************************************************************************)
(* Quotients and remainders, rounded down as \div and % do.                *)
(***************************************************************************)
Positive == Nat \ {0}

(* A quotient and a remainder give the number back.                        *)
LEMMA DivSplit ==
  ASSUME NEW x \in Int, NEW d \in Positive
  PROVE  /\ x \div d \in Int /\ x % d \in Int
         /\ x = (x \div d) * d + (x % d) /\ 0 <= x % d /\ x % d < d
<1>1. x \div d \in Int
  BY DEF Positive
<1>2. x % d \in Int /\ 0 <= x % d /\ x % d < d
  BY DEF Positive
<1>3. x = d * (x \div d) + (x % d)
  BY DEF Positive
<1>. DEFINE q == x \div d
<1>4. q * d = d * q
  BY <1>1 DEF Positive
<1>. QED
  BY <1>1, <1>2, <1>3, <1>4

(* A positive multiple is no smaller.                                      *)
LEMMA Multiple ==
  ASSUME NEW m \in Int, NEW d \in Nat, m >= 1
  PROVE  m * d >= d
<1>1. m * d = (m - 1) * d + d
  OBVIOUS
<1>. DEFINE n == m - 1
<1>2. n \in Nat
  OBVIOUS
<1>. HIDE DEF n
<1>3. n * d \in Nat
  BY <1>2
<1>. QED
  BY <1>1, <1>3 DEF n

(* No other quotient and remainder do.                                     *)
LEMMA DivUnique ==
  ASSUME NEW x \in Int, NEW d \in Positive, NEW q \in Int, NEW r \in Int,
         x = q * d + r, 0 <= r, r < d
  PROVE  x \div d = q /\ x % d = r
<1>. DEFINE p == x \div d
            s == x % d
<1>1. p \in Int /\ s \in Int /\ x = p * d + s /\ 0 <= s /\ s < d /\ d \in Nat
  BY DivSplit DEF Positive
<1>. HIDE DEF p, s
<1>2. (p - q) * d = r - s /\ (q - p) * d = s - r
  BY <1>1
<1>3. ~(p - q >= 1)
  <2>. SUFFICES ASSUME p - q >= 1 PROVE FALSE
    OBVIOUS
  <2>1. (p - q) * d >= d
    BY <1>1, Multiple
  <2>. QED
    BY <1>1, <1>2, <2>1
<1>4. ~(q - p >= 1)
  <2>. SUFFICES ASSUME q - p >= 1 PROVE FALSE
    OBVIOUS
  <2>1. (q - p) * d >= d
    BY <1>1, Multiple
  <2>. QED
    BY <1>1, <1>2, <2>1
<1>5. p = q
  BY <1>1, <1>3, <1>4
<1>6. s = r
  BY <1>5, <1>1
<1>. QED
  BY <1>5, <1>6 DEF p, s

(* A multiple of the divisor only adds to the quotient.                    *)
LEMMA DivShift ==
  ASSUME NEW x \in Int, NEW d \in Positive, NEW c \in Int
  PROVE  (x + c * d) \div d = (x \div d) + c /\ (x + c * d) % d = x % d
<1>. DEFINE q == x \div d
            r == x % d
            y == x + c * d
<1>1. q \in Int /\ r \in Int /\ x = q * d + r /\ 0 <= r /\ r < d /\ d \in Nat
  BY DivSplit DEF Positive
<1>. HIDE DEF q, r
<1>2. y \in Int /\ q + c \in Int /\ y = (q + c) * d + r
  BY <1>1
<1>. HIDE DEF y
<1>3. y \div d = q + c /\ y % d = r
  BY <1>1, <1>2, DivUnique
<1>. QED
  BY <1>3 DEF y, q, r

(* Dividing twice is dividing by the product.                              *)
LEMMA DivDiv ==
  ASSUME NEW x \in Int, NEW d \in Positive, NEW e \in Positive
  PROVE  (x \div d) \div e = x \div (d * e)
<1>. DEFINE q == x \div d
            r == x % d
            p == q \div e
            s == q % e
<1>1. q \in Int /\ r \in Int /\ x = q * d + r /\ 0 <= r /\ r < d /\ d \in Nat /\ d >= 1
  BY DivSplit DEF Positive
<1>. HIDE DEF q, r
<1>2. p \in Int /\ s \in Int /\ q = p * e + s /\ 0 <= s /\ s < e /\ e \in Nat /\ e >= 1
  BY <1>1, DivSplit DEF Positive
<1>. HIDE DEF p, s
<1>3. x = p * (d * e) + (s * d + r)
  <2>1. x = (p * e + s) * d + r
    BY <1>1, <1>2
  <2>2. (p * e + s) * d = p * (d * e) + s * d
    BY <1>1, <1>2
  <2>. QED
    BY <1>1, <1>2, <2>1, <2>2
<1>4. 0 <= s * d + r /\ s * d + r \in Int
  <2>1. s \in Nat
    BY <1>2
  <2>2. s * d \in Nat
    BY <2>1, <1>1
  <2>. QED
    BY <1>1, <2>2
<1>5. s * d + r < d * e
  <2>1. (e - s) * d >= d
    BY <1>1, <1>2, Multiple
  <2>2. (e - s) * d = d * e - s * d
    BY <1>1, <1>2
  <2>. QED
    BY <1>1, <1>2, <2>1, <2>2
<1>6. d * e \in Positive
  <2>1. e * d >= d /\ e * d = d * e /\ d * e \in Nat
    BY <1>1, <1>2, Multiple
  <2>. QED
    BY <1>1, <2>1 DEF Positive
<1>. DEFINE m == d * e
            t == s * d + r
<1>7. m \in Positive /\ t \in Int /\ x = p * m + t /\ 0 <= t /\ t < m
  BY <1>3, <1>4, <1>5, <1>6
<1>. HIDE DEF m, t
<1>8. x \div m = p
  BY <1>2, <1>7, DivUnique
<1>. QED
  BY <1>8 DEF m, p, q
-------------------------------------------------------------------------------
(***************************************************************************)
(* Powers of two.                                                          *)
(***************************************************************************)
Doubles(g, b) == g[0] = 1 /\ \A i \in 1 .. b : g[i] = 2 * g[i - 1]

(* Any number of doublings can be written down, and in one way.            *)
LEMMA DoublingExists == \A b \in Nat : \E g : Doubles(g, b)
<1>. DEFINE T == {b \in Nat : \E g : Doubles(g, b)}
<1>1. 0 \in T
  <2>. DEFINE g == [i \in {0} |-> 1]
  <2>1. Doubles(g, 0)
    BY DEF Doubles
  <2>. QED
    BY <2>1
<1>2. ASSUME NEW b \in Nat, b \in T PROVE b + 1 \in T
  <2>1. PICK g : Doubles(g, b)
    BY <1>2
  <2>. DEFINE h == [i \in 0 .. (b + 1) |-> IF i = b + 1 THEN 2 * g[b] ELSE g[i]]
  <2>2. \A i \in 1 .. (b + 1) : i \in 0 .. (b + 1) /\ i - 1 \in 0 .. (b + 1) /\ i - 1 # b + 1
    OBVIOUS
  <2>3. h[0] = g[0]
    OBVIOUS
  <2>4. ASSUME NEW i \in 1 .. (b + 1) PROVE h[i] = 2 * h[i - 1]
    <3>1. h[i - 1] = g[i - 1]
      BY <2>2
    <3>2. CASE i = b + 1
      <4>1. h[i] = 2 * g[b] /\ i - 1 = b
        BY <3>2
      <4>. QED
        BY <3>1, <4>1
    <3>3. CASE i # b + 1
      <4>1. h[i] = g[i] /\ i \in 1 .. b
        BY <3>3
      <4>. HIDE DEF h
      <4>. QED
        BY <3>1, <4>1, <2>1 DEF Doubles
    <3>. QED
      BY <3>2, <3>3
  <2>. HIDE DEF h
  <2>5. Doubles(h, b + 1)
    BY <2>1, <2>3, <2>4 DEF Doubles
  <2>. QED
    BY <2>5
<1>3. Nat \subseteq T
  <2>. HIDE DEF T
  <2>. QED
    BY <1>1, <1>2, SetInduction
<1>. QED
  BY <1>3

(* Two ways to write it agree at the end.                                  *)
LEMMA DoublingAgrees ==
  \A b \in Nat : \A g, h : Doubles(g, b) /\ Doubles(h, b) => g[b] = h[b]
<1>. DEFINE T == {b \in Nat : \A g, h : Doubles(g, b) /\ Doubles(h, b) => g[b] = h[b]}
<1>1. 0 \in T
  BY DEF Doubles
<1>2. ASSUME NEW b \in Nat, b \in T PROVE b + 1 \in T
  <2>1. SUFFICES ASSUME NEW g, NEW h, Doubles(g, b + 1), Doubles(h, b + 1)
                 PROVE  g[b + 1] = h[b + 1]
    OBVIOUS
  <2>2. Doubles(g, b) /\ Doubles(h, b)
    BY <2>1 DEF Doubles
  <2>3. b + 1 \in 1 .. (b + 1) /\ (b + 1) - 1 = b
    OBVIOUS
  <2>4. g[b + 1] = 2 * g[b] /\ h[b + 1] = 2 * h[b]
    BY <2>1, <2>3 DEF Doubles
  <2>. QED
    BY <1>2, <2>2, <2>4
<1>3. Nat \subseteq T
  <2>. HIDE DEF T
  <2>. QED
    BY <1>1, <1>2, SetInduction
<1>. QED
  BY <1>3

(* What the recursion of Pow2 says of it.                                  *)
LEMMA PowStep ==
  Pow2[0] = 1 /\ \A n \in Nat : Pow2[n + 1] = 2 * Pow2[n]
<1>. DEFINE at(n) == CHOOSE v : \E g : Doubles(g, n) /\ g[n] = v
            f == [n \in Nat |-> at(n)]
<1>1. ASSUME NEW n \in Nat, NEW g, Doubles(g, n) PROVE at(n) = g[n]
  <2>1. \E h : Doubles(h, n) /\ h[n] = at(n)
    BY <1>1
  <2>. HIDE DEF at
  <2>. QED
    BY <1>1, <2>1, DoublingAgrees
<1>. HIDE DEF at
<1>2. f[0] = 1
  <2>1. PICK g : Doubles(g, 0)
    BY DoublingExists
  <2>2. at(0) = g[0]
    BY <1>1, <2>1
  <2>. QED
    BY <2>1, <2>2 DEF Doubles
<1>3. ASSUME NEW n \in Nat PROVE f[n + 1] = 2 * f[n]
  <2>1. PICK g : Doubles(g, n + 1)
    BY DoublingExists
  <2>2. Doubles(g, n)
    BY <2>1 DEF Doubles
  <2>3. at(n) = g[n] /\ at(n + 1) = g[n + 1]
    BY <1>1, <2>1, <2>2
  <2>4. n + 1 \in 1 .. (n + 1) /\ (n + 1) - 1 = n
    OBVIOUS
  <2>5. g[n + 1] = 2 * g[n]
    BY <2>1, <2>4 DEF Doubles
  <2>. QED
    BY <2>3, <2>5
<1>4. f = [n \in Nat |-> IF n = 0 THEN 1 ELSE 2 * f[n - 1]]
  <2>1. ASSUME NEW n \in Nat PROVE f[n] = IF n = 0 THEN 1 ELSE 2 * f[n - 1]
    <3>1. CASE n = 0
      BY <1>2, <3>1
    <3>2. CASE n # 0
      <4>1. n - 1 \in Nat /\ (n - 1) + 1 = n
        BY <3>2
      <4>2. f[(n - 1) + 1] = 2 * f[n - 1]
        BY <1>3, <4>1
      <4>. HIDE DEF f
      <4>. QED
        BY <3>2, <4>1, <4>2
    <3>. QED
      BY <3>1, <3>2
  <2>2. f = [n \in Nat |-> f[n]]
    OBVIOUS
  <2>. HIDE DEF f
  <2>. QED
    BY <2>1, <2>2
<1>. HIDE DEF f
<1>5. Pow2 = [n \in Nat |-> IF n = 0 THEN 1 ELSE 2 * Pow2[n - 1]]
  BY <1>4 DEF Pow2
<1>6. Pow2[0] = 1
  BY <1>5
<1>7. ASSUME NEW n \in Nat PROVE Pow2[n + 1] = 2 * Pow2[n]
  <2>1. n + 1 \in Nat /\ n + 1 # 0 /\ (n + 1) - 1 = n
    OBVIOUS
  <2>2. \A m \in Nat : Pow2[m] = IF m = 0 THEN 1 ELSE 2 * Pow2[m - 1]
    BY <1>5
  <2>. QED
    BY <2>1, <2>2
<1>. QED
  BY <1>6, <1>7

(* Powers of two are positive.                                             *)
LEMMA PowPositive == \A n \in Nat : Pow2[n] \in Positive
<1>. DEFINE T == {n \in Nat : Pow2[n] \in Positive}
<1>1. 0 \in T
  BY PowStep DEF Positive
<1>2. ASSUME NEW n \in Nat, n \in T PROVE n + 1 \in T
  BY <1>2, PowStep DEF Positive
<1>3. Nat \subseteq T
  <2>. HIDE DEF T
  <2>. QED
    BY <1>1, <1>2, SetInduction
<1>. QED
  BY <1>3

(* Exponents add.                                                          *)
LEMMA PowAdd == \A m, n \in Nat : Pow2[m + n] = Pow2[m] * Pow2[n]
<1>. DEFINE T == {n \in Nat : \A m \in Nat : Pow2[m + n] = Pow2[m] * Pow2[n]}
<1>1. 0 \in T
  BY PowStep, PowPositive DEF Positive
<1>2. ASSUME NEW n \in Nat, n \in T PROVE n + 1 \in T
  <2>. SUFFICES ASSUME NEW m \in Nat PROVE Pow2[m + (n + 1)] = Pow2[m] * Pow2[n + 1]
    OBVIOUS
  <2>1. m + n \in Nat /\ m + (n + 1) = (m + n) + 1
    OBVIOUS
  <2>2. Pow2[(m + n) + 1] = 2 * Pow2[m + n] /\ Pow2[n + 1] = 2 * Pow2[n]
    BY <2>1, PowStep
  <2>3. Pow2[m + n] = Pow2[m] * Pow2[n]
    BY <1>2
  <2>4. Pow2[m] \in Int /\ Pow2[n] \in Int
    BY PowPositive DEF Positive
  <2>5. \A x, y \in Int : 2 * (x * y) = x * (2 * y)
    OBVIOUS
  <2>. QED
    BY <2>1, <2>2, <2>3, <2>4, <2>5
<1>3. Nat \subseteq T
  <2>. HIDE DEF T
  <2>. QED
    BY <1>1, <1>2, SetInduction
<1>. QED
  BY <1>3
-------------------------------------------------------------------------------
(***************************************************************************)
(* The bits of a number, negative ones in two's complement.                *)
(***************************************************************************)
(* A bit is 0 or 1.                                                        *)
LEMMA BitType == \A x \in Int : \A k \in Nat : Bit(x, k) \in {0, 1}
<1>. SUFFICES ASSUME NEW x \in Int, NEW k \in Nat PROVE Bit(x, k) \in {0, 1}
  OBVIOUS
<1>. DEFINE q == x \div Pow2[k]
<1>1. q \in Int
  BY PowPositive, DivSplit
<1>. HIDE DEF q
<1>2. q % 2 \in {0, 1}
  BY <1>1
<1>. QED
  BY <1>2 DEF q, Bit

(* Dividing by a power of two moves the bits down.                         *)
LEMMA BitOfQuotient ==
  ASSUME NEW x \in Int, NEW s \in Nat, NEW k \in Nat
  PROVE  Bit(x \div Pow2[s], k) = Bit(x, k + s)
<1>1. Pow2[s] \in Positive /\ Pow2[k] \in Positive
  BY PowPositive
<1>2. (x \div Pow2[s]) \div Pow2[k] = x \div (Pow2[s] * Pow2[k])
  BY <1>1, DivDiv
<1>3. Pow2[k + s] = Pow2[s] * Pow2[k]
  <2>1. s + k = k + s
    OBVIOUS
  <2>2. Pow2[s + k] = Pow2[s] * Pow2[k]
    BY PowAdd
  <2>. QED
    BY <2>1, <2>2
<1>. QED
  BY <1>2, <1>3 DEF Bit

(* What is added above a bit does not change it.                           *)
LEMMA BitOfSum ==
  ASSUME NEW x \in Int, NEW c \in Int, NEW n \in Nat, NEW k \in Nat, k < n
  PROVE  Bit(x + c * Pow2[n], k) = Bit(x, k)
<1>. DEFINE d == Pow2[k]
            h == Pow2[n - k - 1]
            e == c * h
            q == x \div d
<1>1. d \in Positive /\ h \in Int /\ n - k - 1 \in Nat
  <2>1. n - k - 1 \in Nat
    OBVIOUS
  <2>. QED
    BY <2>1, PowPositive DEF Positive
<1>2. Pow2[n] = 2 * (h * d)
  <2>1. n - k \in Nat /\ (n - k - 1) + 1 = n - k /\ (n - k) + k = n
    OBVIOUS
  <2>2. Pow2[(n - k - 1) + 1] = 2 * Pow2[n - k - 1]
    BY <1>1, PowStep
  <2>3. Pow2[(n - k) + k] = Pow2[n - k] * Pow2[k]
    BY <2>1, PowAdd
  <2>4. d \in Int
    BY <1>1 DEF Positive
  <2>5. Pow2[n] = (2 * h) * d
    BY <2>1, <2>2, <2>3
  <2>. HIDE DEF h, d
  <2>. QED
    BY <1>1, <2>4, <2>5
<1>. HIDE DEF d, h
<1>3. e \in Int /\ c * Pow2[n] = (2 * e) * d
  <2>1. d \in Int
    BY <1>1 DEF Positive
  <2>2. c * (2 * (h * d)) = (2 * (c * h)) * d
    BY <1>1, <2>1
  <2>. QED
    BY <1>1, <1>2, <2>2
<1>. HIDE DEF e
<1>4. (x + (2 * e) * d) \div d = q + 2 * e
  BY <1>1, <1>3, DivShift
<1>5. q \in Int
  BY <1>1, DivSplit
<1>. HIDE DEF q
<1>6. (q + 2 * e) % 2 = q % 2
  BY <1>3, <1>5
<1>. QED
  BY <1>3, <1>4, <1>6 DEF Bit, q, d

(* Nor does leaving out what is above it.                                  *)
LEMMA BitOfRemainder ==
  ASSUME NEW x \in Int, NEW n \in Nat, NEW k \in Nat, k < n
  PROVE  Bit(x % Pow2[n], k) = Bit(x, k)
<1>. DEFINE M == Pow2[n]
            q == x \div M
            r == x % M
            c == 0 - q
<1>1. M \in Positive /\ M \in Int
  BY PowPositive DEF Positive
<1>2. q \in Int /\ r \in Int /\ x = q * M + r
  BY <1>1, DivSplit
<1>. HIDE DEF q, r
<1>3. c \in Int /\ r = x + c * M
  BY <1>1, <1>2
<1>4. Bit(x + c * M, k) = Bit(x, k)
  BY <1>3, BitOfSum
<1>. QED
  BY <1>3, <1>4 DEF r

(* Multiplying by a power of two moves the bits up, and zeros follow.      *)
LEMMA BitOfProduct ==
  ASSUME NEW x \in Int, NEW s \in Nat, NEW k \in Nat
  PROVE  Bit(x * Pow2[s], k) = IF k >= s THEN Bit(x, k - s) ELSE 0
<1>1. Pow2[s] \in Positive /\ Pow2[k] \in Positive
  BY PowPositive
<1>2. CASE k >= s
  <2>. DEFINE y == x * Pow2[s]
  <2>1. k - s \in Nat /\ (k - s) + s = k /\ y \in Int
    BY <1>1, <1>2 DEF Positive
  <2>2. y \div Pow2[s] = x
    <3>1. y = x * Pow2[s] + 0 /\ 0 < Pow2[s]
      BY <1>1 DEF Positive
    <3>. HIDE DEF y
    <3>. QED
      BY <1>1, <2>1, <3>1, DivUnique
  <2>. HIDE DEF y
  <2>3. Bit(y \div Pow2[s], k - s) = Bit(y, (k - s) + s)
    BY <2>1, BitOfQuotient
  <2>. QED
    BY <1>2, <2>1, <2>2, <2>3 DEF y
<1>3. CASE k < s
  <2>1. Bit(0 + x * Pow2[s], k) = Bit(0, k)
    BY <1>3, BitOfSum
  <2>2. 0 + x * Pow2[s] = x * Pow2[s]
    BY <1>1 DEF Positive
  <2>3. 0 \div Pow2[k] = 0
    <3>1. 0 = 0 * Pow2[k] + 0 /\ 0 < Pow2[k]
      BY <1>1 DEF Positive
    <3>. QED
      BY <1>1, <3>1, DivUnique
  <2>4. Bit(0, k) = 0
    BY <2>3 DEF Bit
  <2>. QED
    BY <1>3, <2>1, <2>2, <2>4
<1>. QED
  BY <1>2, <1>3

(* A larger exponent, a larger power.                                      *)
LEMMA PowGrows == \A m, n \in Nat : m <= n => Pow2[m] <= Pow2[n]
<1>. SUFFICES ASSUME NEW m \in Nat, NEW n \in Nat, m <= n PROVE Pow2[m] <= Pow2[n]
  OBVIOUS
<1>1. n - m \in Nat /\ (n - m) + m = n
  OBVIOUS
<1>2. Pow2[(n - m) + m] = Pow2[n - m] * Pow2[m]
  BY <1>1, PowAdd
<1>3. Pow2[n - m] \in Int /\ Pow2[n - m] >= 1 /\ Pow2[m] \in Nat
  BY <1>1, PowPositive DEF Positive
<1>4. Pow2[n - m] * Pow2[m] >= Pow2[m]
  BY <1>3, Multiple
<1>. QED
  BY <1>1, <1>2, <1>4

(* Above its highest bit a number repeats its sign.                        *)
LEMMA BitOfSign ==
  ASSUME NEW x \in Int, NEW n \in Nat, NEW k \in Nat, n <= k,
         0 - Pow2[n] <= x, x < Pow2[n]
  PROVE  Bit(x, k) = IF x < 0 THEN 1 ELSE 0
<1>1. Pow2[k] \in Positive /\ Pow2[k] \in Int /\ Pow2[n] \in Int /\ Pow2[n] <= Pow2[k]
  BY PowPositive, PowGrows DEF Positive
<1>2. CASE x < 0
  <2>. DEFINE r == x + Pow2[k]
  <2>1. x = (0 - 1) * Pow2[k] + r /\ r \in Int /\ 0 <= r /\ r < Pow2[k] /\ 0 - 1 \in Int
    BY <1>1, <1>2
  <2>. HIDE DEF r
  <2>2. x \div Pow2[k] = 0 - 1
    BY <1>1, <2>1, DivUnique
  <2>3. (0 - 1) % 2 = 1
    <3>. DEFINE y == 0 - 1
                d == 2
    <3>1. y \in Int /\ d \in Positive /\ y = y * d + 1 /\ 0 <= 1 /\ 1 < d
      BY DEF Positive
    <3>. HIDE DEF y, d
    <3>2. y % d = 1
      BY <3>1, DivUnique
    <3>. QED
      BY <3>2 DEF y, d
  <2>. QED
    BY <1>2, <2>2, <2>3 DEF Bit
<1>3. CASE ~(x < 0)
  <2>1. x = 0 * Pow2[k] + x /\ 0 <= x /\ x < Pow2[k]
    BY <1>1, <1>3
  <2>2. x \div Pow2[k] = 0
    BY <1>1, <2>1, DivUnique
  <2>3. 0 % 2 = 0
    OBVIOUS
  <2>. QED
    BY <1>3, <2>2, <2>3 DEF Bit
<1>. QED
  BY <1>2, <1>3
-------------------------------------------------------------------------------
(***************************************************************************)
(* The word with given ones.                                               *)
(***************************************************************************)
(* What position i - 1 adds to a number; the sums of the positions below.  *)
Worth(ones, i) == IF i - 1 \in ones THEN Pow2[i - 1] ELSE 0

AddsUp(f, ones, b) == f[0] = 0 /\ \A i \in 1 .. b : f[i] = f[i - 1] + Worth(ones, i)

(* The sums below any position can be written down.                        *)
LEMMA SumExists == \A ones : \A b \in Nat : \E g : AddsUp(g, ones, b)
<1>. SUFFICES ASSUME NEW ones PROVE \A b \in Nat : \E g : AddsUp(g, ones, b)
  OBVIOUS
<1>. DEFINE T == {b \in Nat : \E g : AddsUp(g, ones, b)}
<1>1. 0 \in T
  <2>. DEFINE g == [i \in {0} |-> 0]
  <2>1. AddsUp(g, ones, 0)
    BY DEF AddsUp
  <2>. QED
    BY <2>1
<1>2. ASSUME NEW b \in Nat, b \in T PROVE b + 1 \in T
  <2>1. PICK g : AddsUp(g, ones, b)
    BY <1>2
  <2>. DEFINE new == g[b] + Worth(ones, b + 1)
              h == [i \in 0 .. (b + 1) |-> IF i = b + 1 THEN new ELSE g[i]]
  <2>2. \A i \in 1 .. (b + 1) : i \in 0 .. (b + 1) /\ i - 1 \in 0 .. (b + 1) /\ i - 1 # b + 1
    OBVIOUS
  <2>3. h[0] = g[0]
    OBVIOUS
  <2>4. ASSUME NEW i \in 1 .. (b + 1) PROVE h[i] = h[i - 1] + Worth(ones, i)
    <3>. HIDE DEF new
    <3>1. h[i - 1] = g[i - 1]
      BY <2>2
    <3>2. CASE i = b + 1
      <4>1. h[i] = new /\ i - 1 = b
        BY <3>2
      <4>. HIDE DEF h
      <4>. QED
        BY <3>1, <3>2, <4>1 DEF new
    <3>3. CASE i # b + 1
      <4>1. h[i] = g[i] /\ i \in 1 .. b
        BY <3>3
      <4>. HIDE DEF h
      <4>. QED
        BY <3>1, <4>1, <2>1 DEF AddsUp
    <3>. QED
      BY <3>2, <3>3
  <2>. HIDE DEF h
  <2>5. AddsUp(h, ones, b + 1)
    BY <2>1, <2>3, <2>4 DEF AddsUp
  <2>. QED
    BY <2>5
<1>3. Nat \subseteq T
  <2>. HIDE DEF T
  <2>. QED
    BY <1>1, <1>2, SetInduction
<1>. QED
  BY <1>3

(* What the recursion of Number says of it.                                *)
LEMMA NumberIsSum ==
  ASSUME NEW ones
  PROVE  \E f : AddsUp(f, ones, Width) /\ Number(ones) = f[Width]
<1>. DEFINE F == CHOOSE f : f = [n \in 0 .. Width |->
                   IF n = 0 THEN 0
                   ELSE f[n - 1] + (IF n - 1 \in ones THEN Pow2[n - 1] ELSE 0)]
<1>1. Width \in Nat
  BY DatapathAssumption
<1>2. PICK g : AddsUp(g, ones, Width)
  BY <1>1, SumExists
<1>. DEFINE h == [n \in 0 .. Width |-> g[n]]
            H == [n \in 0 .. Width |->
                   IF n = 0 THEN 0
                   ELSE h[n - 1] + (IF n - 1 \in ones THEN Pow2[n - 1] ELSE 0)]
<1>3. ASSUME NEW n \in 0 .. Width PROVE h[n] = H[n]
  <2>1. CASE n = 0
    BY <1>2, <2>1 DEF AddsUp
  <2>2. CASE n # 0
    <3>1. n \in 1 .. Width /\ n - 1 \in 0 .. Width
      BY <1>1, <2>2
    <3>2. g[n] = g[n - 1] + Worth(ones, n)
      BY <1>2, <3>1 DEF AddsUp
    <3>. QED
      BY <2>2, <3>1, <3>2 DEF Worth
  <2>. QED
    BY <2>1, <2>2
<1>4. h = H
  <2>1. h = [n \in 0 .. Width |-> h[n]] /\ H = [n \in 0 .. Width |-> H[n]]
    OBVIOUS
  <2>. HIDE DEF h, H
  <2>. QED
    BY <1>3, <2>1
<1>5. F = [n \in 0 .. Width |->
            IF n = 0 THEN 0
            ELSE F[n - 1] + (IF n - 1 \in ones THEN Pow2[n - 1] ELSE 0)]
  <2>. HIDE DEF h
  <2>. QED
    BY <1>4
<1>6. Number(ones) = F[Width]
  BY DEF Number
<1>. HIDE DEF F
<1>7. F[0] = 0
  BY <1>1, <1>5
<1>8. ASSUME NEW i \in 1 .. Width PROVE F[i] = F[i - 1] + Worth(ones, i)
  <2>1. i \in 0 .. Width /\ i # 0
    BY <1>1
  <2>2. \A n \in 0 .. Width : F[n] = IF n = 0 THEN 0
             ELSE F[n - 1] + (IF n - 1 \in ones THEN Pow2[n - 1] ELSE 0)
    BY <1>5
  <2>. QED
    BY <2>1, <2>2 DEF Worth
<1>. QED
  BY <1>6, <1>7, <1>8 DEF AddsUp

(* x has n bits, and its ones at these positions.                          *)
Holds(x, ones, n) ==
  /\ x \in Int /\ 0 <= x /\ x < Pow2[n]
  /\ \A k \in 0 .. (n - 1) : Bit(x, k) = 1 <=> k \in ones

(* A sum has ones where it was given ones.                                 *)
LEMMA SumHolds ==
  ASSUME NEW f, NEW ones, NEW b \in Nat, AddsUp(f, ones, b)
  PROVE  \A n \in 0 .. b : Holds(f[n], ones, n)
<1>. DEFINE T == {n \in Nat : n <= b => Holds(f[n], ones, n)}
<1>1. 0 \in T
  BY PowStep DEF AddsUp, Holds
<1>2. ASSUME NEW n \in Nat, n \in T PROVE n + 1 \in T
  <2>. SUFFICES ASSUME n + 1 <= b PROVE Holds(f[n + 1], ones, n + 1)
    OBVIOUS
  <2>. DEFINE y == f[n]
              x == f[n + 1]
              c == IF n \in ones THEN 1 ELSE 0
              P == Pow2[n]
  <2>1. Holds(y, ones, n)
    BY <1>2
  <2>2. P \in Positive /\ P \in Int /\ Pow2[n + 1] = 2 * P
    BY PowPositive, PowStep DEF Positive
  <2>3. x = y + c * P
    <3>1. n + 1 \in 1 .. b /\ (n + 1) - 1 = n
      OBVIOUS
    <3>2. x = y + Worth(ones, n + 1)
      BY <3>1 DEF AddsUp
    <3>. HIDE DEF x, y
    <3>. QED
      BY <2>2, <3>1, <3>2 DEF Worth
  <2>4. c \in {0, 1}
    OBVIOUS
  <2>5. y \in Int /\ 0 <= y /\ y < P
    BY <2>1 DEF Holds
  <2>. HIDE DEF x, y, P
  <2>6. x \in Int /\ 0 <= x /\ x < Pow2[n + 1]
    BY <2>2, <2>3, <2>4, <2>5
  <2>7. Bit(x, n) = 1 <=> n \in ones
    <3>1. x = c * P + y
      BY <2>2, <2>3, <2>4, <2>5
    <3>2. c \in Int
      BY <2>4
    <3>3. x \div P = c
      BY <2>2, <2>5, <2>6, <3>1, <3>2, DivUnique
    <3>4. c % 2 = c
      BY <2>4
    <3>. QED
      BY <3>3, <3>4 DEF Bit, P
  <2>8. ASSUME NEW k \in 0 .. (n - 1) PROVE Bit(x, k) = 1 <=> k \in ones
    <3>1. k \in Nat /\ k < n /\ c \in Int
      BY <2>4
    <3>. HIDE DEF c
    <3>2. Bit(y + c * Pow2[n], k) = Bit(y, k)
      BY <2>5, <3>1, BitOfSum
    <3>3. Bit(y, k) = 1 <=> k \in ones
      BY <2>1 DEF Holds
    <3>. QED
      BY <2>3, <3>2, <3>3 DEF P
  <2>9. \A k \in 0 .. ((n + 1) - 1) : Bit(x, k) = 1 <=> k \in ones
    <3>. HIDE DEF c
    <3>1. \A k \in 0 .. ((n + 1) - 1) : k = n \/ k \in 0 .. (n - 1)
      OBVIOUS
    <3>. QED
      BY <2>7, <2>8, <3>1
  <2>10. Holds(x, ones, n + 1)
    BY <2>6, <2>9 DEF Holds
  <2>. QED
    BY <2>10 DEF x
<1>3. Nat \subseteq T
  <2>. HIDE DEF T
  <2>. QED
    BY <1>1, <1>2, SetInduction
<1>. QED
  BY <1>3

(* The word with given ones has them.                                      *)
LEMMA NumberHolds == \A S : Number(S) \in Words /\ OnesOf(Number(S)) = S \cap 0 .. Top
<1>. SUFFICES ASSUME NEW S PROVE Number(S) \in Words /\ OnesOf(Number(S)) = S \cap 0 .. Top
  OBVIOUS
<1>1. PICK f : AddsUp(f, S, Width) /\ Number(S) = f[Width]
  BY NumberIsSum
<1>2. Width \in Nat /\ Width \in 0 .. Width
  BY DatapathAssumption
<1>3. Holds(Number(S), S, Width)
  BY <1>1, <1>2, SumHolds
<1>4. Pow2[Width] \in Int
  BY <1>2, PowPositive DEF Positive
<1>5. Number(S) \in Words
  BY <1>3, <1>4 DEF Holds, Words, Modulus
<1>6. OnesOf(Number(S)) = S \cap 0 .. Top
  BY <1>3 DEF Holds, OnesOf, Top
<1>. QED
  BY <1>5, <1>6
(* The sums of the ones of a number are what lies below each position.     *)
LEMMA SumOfBits ==
  ASSUME NEW x \in Int, NEW f, NEW ones, NEW b \in Nat, AddsUp(f, ones, b),
         \A k \in 0 .. (b - 1) : k \in ones <=> Bit(x, k) = 1
  PROVE  \A n \in 0 .. b : f[n] = x % Pow2[n]
<1>. DEFINE T == {n \in Nat : n <= b => f[n] = x % Pow2[n]}
<1>1. 0 \in T
  <2>. DEFINE d == Pow2[0]
  <2>1. d = 1
    BY PowStep
  <2>. HIDE DEF d
  <2>2. d \in Positive /\ x = x * d + 0 /\ 0 < d
    BY <2>1 DEF Positive
  <2>3. x % d = 0
    BY <2>2, DivUnique
  <2>. QED
    BY <2>3 DEF d, AddsUp
<1>2. ASSUME NEW n \in Nat, n \in T PROVE n + 1 \in T
  <2>. SUFFICES ASSUME n + 1 <= b PROVE f[n + 1] = x % Pow2[n + 1]
    OBVIOUS
  <2>. DEFINE P == Pow2[n]
              R == Pow2[n + 1]
              q == x \div P
              r == x % P
              p == q \div 2
              c == q % 2
  <2>1. P \in Positive /\ P \in Int /\ R = 2 * P /\ R \in Positive
    BY PowPositive, PowStep DEF Positive
  <2>2. q \in Int /\ r \in Int /\ x = q * P + r /\ 0 <= r /\ r < P
    BY <2>1, DivSplit
  <2>3. c = Bit(x, n)
    BY DEF Bit
  <2>4. f[n] = r
    BY <1>2
  <2>5. f[n + 1] = r + c * P
    <3>1. n + 1 \in 1 .. b /\ (n + 1) - 1 = n /\ n \in 0 .. (b - 1)
      OBVIOUS
    <3>2. f[n + 1] = f[n] + Worth(ones, n + 1)
      BY <3>1 DEF AddsUp
    <3>3. n \in ones <=> c = 1
      BY <3>1, <2>3
    <3>4. c \in {0, 1}
      BY <2>3, BitType
    <3>. HIDE DEF c, r, q
    <3>. QED
      BY <2>1, <2>2, <2>4, <3>1, <3>2, <3>3, <3>4 DEF Worth
  <2>. HIDE DEF P, R, q, r
  <2>6. p \in Int /\ c \in Int /\ q = 2 * p + c /\ 0 <= c /\ c <= 1
    <3>1. 2 \in Positive
      BY DEF Positive
    <3>2. q = p * 2 + c /\ p \in Int /\ c \in Int /\ 0 <= c /\ c < 2
      BY <2>2, <3>1, DivSplit
    <3>. HIDE DEF p, c
    <3>. QED
      BY <3>2
  <2>. HIDE DEF p, c
  <2>. DEFINE s == r + c * P
  <2>7. x = p * R + s
    <3>1. (2 * p + c) * P = p * (2 * P) + c * P
      BY <2>1, <2>6
    <3>. QED
      BY <2>1, <2>2, <2>6, <3>1
  <2>8. s \in Int /\ 0 <= s /\ s < R
    <3>1. c = 0 \/ c = 1
      BY <2>6
    <3>. QED
      BY <3>1, <2>1, <2>2
  <2>. HIDE DEF s
  <2>9. x % R = s
    BY <2>1, <2>6, <2>7, <2>8, DivUnique
  <2>. QED
    BY <2>5, <2>9 DEF s, R
<1>3. Nat \subseteq T
  <2>. HIDE DEF T
  <2>. QED
    BY <1>1, <1>2, SetInduction
<1>. QED
  BY <1>3

(* The sizes of words.                                                     *)
LEMMA Sizes ==
  /\ Width \in Nat /\ Top \in Nat /\ Top + 1 = Width
  /\ Modulus = 2 * Pow2[Top] /\ Modulus = Pow2[Width]
  /\ Modulus \in Positive /\ Modulus \in Nat /\ Pow2[Top] \in Nat /\ Pow2[Top] >= 1
  /\ Modulus \div 2 = Pow2[Top]
<1>1. Width \in Nat /\ Top \in Nat /\ Top + 1 = Width
  BY DatapathAssumption DEF Top
<1>2. Modulus = 2 * Pow2[Top] /\ Modulus = Pow2[Width]
  BY <1>1, PowStep DEF Modulus
<1>3. Modulus \in Positive /\ Modulus \in Nat /\ Pow2[Top] \in Nat /\ Pow2[Top] >= 1
  BY <1>1, <1>2, PowPositive DEF Positive
<1>4. Modulus \div 2 = Pow2[Top]
  BY <1>2, <1>3
<1>. QED
  BY <1>1, <1>2, <1>3, <1>4

(* A word is the number of its ones.                                       *)
LEMMA WordIsNumber == \A a \in Words : Number(OnesOf(a)) = a
<1>. SUFFICES ASSUME NEW a \in Words PROVE Number(OnesOf(a)) = a
  OBVIOUS
<1>1. PICK f : AddsUp(f, OnesOf(a), Width) /\ Number(OnesOf(a)) = f[Width]
  BY NumberIsSum
<1>2. Width \in Nat /\ Width \in 0 .. Width /\ a \in Int /\ 0 <= a /\ a < Modulus
      /\ Modulus = Pow2[Width] /\ Modulus \in Positive /\ Width - 1 = Top
  BY Sizes DEF Words
<1>3. \A k \in 0 .. (Width - 1) : k \in OnesOf(a) <=> Bit(a, k) = 1
  BY <1>2 DEF OnesOf
<1>4. f[Width] = a % Modulus
  BY <1>1, <1>2, <1>3, SumOfBits
<1>5. a = 0 * Modulus + a
  BY <1>2 DEF Positive
<1>6. a % Modulus = a
  BY <1>2, <1>5, DivUnique
<1>. QED
  BY <1>1, <1>4, <1>6

(* The signed number of a word, from its bits and as the processor has it. *)
LEMMA ValueIsSigned ==
  ASSUME NEW a \in Words
  PROVE  /\ Value(a) = Signed(a) /\ Signed(a) \in Int
         /\ 0 - Pow2[Top] <= Signed(a) /\ Signed(a) < Pow2[Top]
         /\ Signed(a) = a \/ Signed(a) = a - Modulus
         /\ Top \in OnesOf(a) <=> Signed(a) < 0
<1>. DEFINE S == OnesOf(a) \ {Top}
            P == Pow2[Top]
            q == a \div P
            r == a % P
<1>1. PICK f : AddsUp(f, S, Width) /\ Number(S) = f[Width]
  BY NumberIsSum
<1>2. P \in Positive /\ P \in Nat /\ a \in Int /\ 0 <= a /\ a < 2 * P
  BY Sizes DEF Words, Positive
<1>3. q \in Int /\ r \in Int /\ a = q * P + r /\ 0 <= r /\ r < P
  BY <1>2, DivSplit
<1>4. f[Top] = r
  <2>1. AddsUp(f, S, Top)
    <3>1. Width \in Nat /\ Top \in Nat /\ Top + 1 = Width
      BY Sizes
    <3>2. 1 .. Top \subseteq 1 .. Width
      BY <3>1
    <3>. HIDE DEF S
    <3>. QED
      BY <1>1, <3>2, Zenon DEF AddsUp
  <2>2. \A k \in 0 .. (Top - 1) : k \in 0 .. Top /\ k # Top
    BY Sizes
  <2>3. ASSUME NEW k \in 0 .. (Top - 1) PROVE k \in S <=> Bit(a, k) = 1
    <3>1. k \in 0 .. Top /\ k # Top
      BY <2>2
    <3>. QED
      BY <3>1, Zenon DEF OnesOf
  <2>4. Top \in 0 .. Top /\ Top \in Nat
    BY Sizes
  <2>. HIDE DEF S
  <2>. QED
    BY <1>2, <2>1, <2>3, <2>4, SumOfBits
<1>5. Number(S) = r
  <2>1. Width \in 1 .. Width /\ Width - 1 = Top
    BY Sizes
  <2>2. f[Width] = f[Width - 1] + Worth(S, Width)
    BY <1>1, <2>1 DEF AddsUp
  <2>3. Worth(S, Width) = 0
    BY <2>1 DEF Worth
  <2>. QED
    BY <1>1, <1>3, <1>4, <2>1, <2>2, <2>3
<1>6. Top \in OnesOf(a) <=> q % 2 = 1
  BY Sizes DEF OnesOf, Bit
<1>. HIDE DEF q, r, P, S
<1>7. q = 0 \/ q = 1
  <2>1. ~(q >= 2)
    <3>. SUFFICES ASSUME q >= 2 PROVE FALSE
      OBVIOUS
    <3>1. (q - 1) * P >= P
      BY <1>2, <1>3, Multiple
    <3>2. (q - 1) * P = q * P - P
      BY <1>2, <1>3
    <3>3. q * P \in Int
      BY <1>2, <1>3
    <3>. QED
      BY <1>2, <1>3, <3>1, <3>2, <3>3
  <2>2. ~(q < 0)
    <3>. SUFFICES ASSUME q < 0 PROVE FALSE
      OBVIOUS
    <3>1. (0 - q) * P >= P
      BY <1>2, <1>3, Multiple
    <3>2. (0 - q) * P = 0 - q * P
      BY <1>2, <1>3
    <3>3. q * P \in Int
      BY <1>2, <1>3
    <3>. QED
      BY <1>2, <1>3, <3>1, <3>2, <3>3
  <2>. QED
    BY <1>3, <2>1, <2>2
<1>8. Modulus = 2 * P /\ Modulus \div 2 = P
  BY Sizes DEF P
<1>9. CASE q = 0
  <2>1. a = r /\ Top \notin OnesOf(a)
    BY <1>2, <1>3, <1>6, <1>9
  <2>2. Value(a) = a /\ Signed(a) = a
    BY <1>2, <1>3, <1>5, <1>8, <2>1 DEF Value, Signed, S
  <2>. QED
    BY <1>2, <1>3, <2>1, <2>2 DEF P
<1>10. CASE q = 1
  <2>1. a = P + r /\ Top \in OnesOf(a)
    BY <1>2, <1>3, <1>6, <1>10
  <2>2. Value(a) = r - P /\ Signed(a) = a - Modulus
    BY <1>2, <1>3, <1>5, <1>8, <2>1 DEF Value, Signed, S, P
  <2>. QED
    BY <1>2, <1>3, <1>8, <2>1, <2>2 DEF P
<1>. QED
  BY <1>7, <1>9, <1>10
-------------------------------------------------------------------------------
(***************************************************************************)
(* The operations of ALU.v.                                                *)
(***************************************************************************)
(* A remainder by the modulus is a word, with the low bits of the number.  *)
LEMMA Wrapped ==
  ASSUME NEW x \in Int
  PROVE  x % Modulus \in Words /\ OnesOf(x % Modulus) = {k \in 0 .. Top : Bit(x, k) = 1}
<1>1. x % Modulus \in Words
  <2>1. Modulus \in Positive /\ Modulus \in Nat
    BY Sizes
  <2>2. x % Modulus \in Int /\ 0 <= x % Modulus /\ x % Modulus < Modulus
    BY <2>1, DivSplit
  <2>. QED
    BY <2>1, <2>2 DEF Words
<1>2. ASSUME NEW k \in 0 .. Top PROVE Bit(x % Modulus, k) = Bit(x, k)
  <2>1. k \in Nat /\ k < Width
    BY Sizes
  <2>2. Bit(x % Pow2[Width], k) = Bit(x, k)
    BY <2>1, Sizes, BitOfRemainder
  <2>. QED
    BY <2>2 DEF Modulus
<1>. QED
  BY <1>1, <1>2, Zenon DEF OnesOf

(* Sums and differences of words and of the numbers they stand for agree   *)
(* in every bit of a word.                                                 *)
LEMMA SumsWrap ==
  ASSUME NEW a \in Words, NEW b \in Words
  PROVE  /\ (a + b) % Modulus = (Value(a) + Value(b)) % Modulus
         /\ (a - b) % Modulus = (Value(a) - Value(b)) % Modulus
<1>. DEFINE ca == IF Signed(a) = a THEN 0 ELSE 0 - 1
            cb == IF Signed(b) = b THEN 0 ELSE 0 - 1
<1>1. a \in Int /\ b \in Int /\ ca \in Int /\ cb \in Int /\ Modulus \in Positive /\ Modulus \in Int
  BY Sizes DEF Words
<1>2. Value(a) = a + ca * Modulus /\ Value(b) = b + cb * Modulus
  <2>1. /\ Value(a) = Signed(a) /\ (Signed(a) = a \/ Signed(a) = a - Modulus)
        /\ Value(b) = Signed(b) /\ (Signed(b) = b \/ Signed(b) = b - Modulus)
    BY ValueIsSigned
  <2>. QED
    BY <1>1, <2>1
<1>. HIDE DEF ca, cb
<1>. DEFINE x == a + b
            y == a - b
            c == ca + cb
            d == ca - cb
<1>3. /\ x \in Int /\ y \in Int /\ c \in Int /\ d \in Int
      /\ Value(a) + Value(b) = x + c * Modulus
      /\ Value(a) - Value(b) = y + d * Modulus
  BY <1>1, <1>2
<1>. HIDE DEF x, y, c, d
<1>4. (x + c * Modulus) % Modulus = x % Modulus /\ (y + d * Modulus) % Modulus = y % Modulus
  BY <1>1, <1>3, DivShift, ZenonT(30)
<1>. QED
  BY <1>3, <1>4 DEF x, y

(* A shift is by less than the width of a word.                            *)
LEMMA ShamtType == \A b \in Words : Shamt(b) \in 0 .. Top
  BY Sizes DEF Words, Shamt

(* A shift to the left moves the ones up.                                  *)
LEMMA ShiftLeft ==
  ASSUME NEW a \in Words, NEW s \in 0 .. Top
  PROVE  OnesOf((a * Pow2[s]) % Modulus) = {k + s : k \in OnesOf(a)} \cap 0 .. Top
<1>. DEFINE x == a * Pow2[s]
<1>1. a \in Int /\ s \in Nat /\ x \in Int
  BY Sizes, PowPositive DEF Words, Positive
<1>2. \A k \in Nat : Bit(x, k) = IF k >= s THEN Bit(a, k - s) ELSE 0
  BY <1>1, BitOfProduct
<1>. HIDE DEF x
<1>3. OnesOf(x % Modulus) = {k \in 0 .. Top : Bit(x, k) = 1}
  BY <1>1, Wrapped
<1>4. ASSUME NEW k \in 0 .. Top PROVE Bit(x, k) = 1 <=> \E j \in OnesOf(a) : k = j + s
  <2>1. CASE k >= s
    <3>1. k - s \in 0 .. Top /\ k = (k - s) + s /\ k \in Nat
      BY <1>1, <2>1, Sizes
    <3>2. Bit(x, k) = Bit(a, k - s)
      BY <1>2, <2>1, <3>1
    <3>3. \A j \in OnesOf(a) : k = j + s => j = k - s
      BY <1>1, Sizes DEF OnesOf
    <3>. QED
      BY <3>1, <3>2, <3>3, Zenon DEF OnesOf
  <2>2. CASE k < s
    <3>1. Bit(x, k) = 0
      BY <1>1, <1>2, <2>2
    <3>2. \A j \in OnesOf(a) : k # j + s
      BY <1>1, <2>2, Sizes DEF OnesOf
    <3>. QED
      BY <3>1, <3>2
  <2>. QED
    BY <1>1, <2>1, <2>2
<1>. QED
  BY <1>3, <1>4 DEF x

(* A shift to the right moves the bits of a signed number down, and its    *)
(* sign into the room above.                                               *)
LEMMA ShiftRight ==
  ASSUME NEW a \in Words, NEW x \in Int, NEW s \in 0 .. Top,
         x = a \/ x = a - Modulus, 0 - Pow2[Width] <= x, x < Pow2[Width]
  PROVE  {k \in 0 .. Top : Bit(x \div Pow2[s], k) = 1}
           = {k \in 0 .. Top : IF k + s <= Top THEN k + s \in OnesOf(a) ELSE x < 0}
<1>1. ASSUME NEW k \in 0 .. Top
      PROVE  Bit(x \div Pow2[s], k) = 1 <=> IF k + s <= Top THEN k + s \in OnesOf(a) ELSE x < 0
  <2>1. k \in Nat /\ s \in Nat /\ k + s \in Nat /\ a \in Int
    BY Sizes DEF Words
  <2>2. Bit(x \div Pow2[s], k) = Bit(x, k + s)
    BY <2>1, BitOfQuotient
  <2>3. CASE k + s <= Top
    <3>1. k + s < Width /\ k + s \in 0 .. Top
      BY <2>1, <2>3, Sizes
    <3>. DEFINE c == 0 - 1
                n == k + s
    <3>2. a + c * Pow2[Width] = a - Modulus /\ c \in Int /\ n \in Nat /\ n < Width
      BY <2>1, <3>1, Sizes
    <3>. HIDE DEF c, n
    <3>3. Bit(a + c * Pow2[Width], n) = Bit(a, n)
      <4>1. Width \in Nat
        BY Sizes
      <4>. QED
        BY ONLY <2>1, <3>2, <4>1, BitOfSum
    <3>4. Bit(x, k + s) = Bit(a, k + s)
      BY <3>2, <3>3 DEF n
    <3>. QED
      BY <2>2, <2>3, <3>1, <3>4 DEF OnesOf
  <2>4. CASE ~(k + s <= Top)
    <3>1. Width <= k + s
      BY <2>1, <2>4, Sizes
    <3>2. Bit(x, k + s) = IF x < 0 THEN 1 ELSE 0
      BY <2>1, <3>1, Sizes, BitOfSign
    <3>. QED
      BY <2>2, <2>4, <3>2
  <2>. QED
    BY <2>3, <2>4
<1>. QED
  BY <1>1

(* A truth value is the lowest bit of a word.                              *)
LEMMA TruthOnes == OnesOf(1) = {0} /\ OnesOf(0) = {} /\ 0 \in Words /\ 1 \in Words
<1>1. 0 \in Words /\ 1 \in Words /\ 0 \in 0 .. Top
  BY Sizes DEF Words
<1>3. ASSUME NEW k \in 0 .. Top PROVE Bit(0, k) = 0
  <2>1. k \in Nat /\ 0 \in Nat /\ 0 <= k /\ 0 < Pow2[0] /\ 0 - Pow2[0] <= 0
    BY PowStep, Sizes
  <2>2. Bit(0, k) = IF 0 < 0 THEN 1 ELSE 0
    BY <2>1, BitOfSign
  <2>. QED
    BY <2>2
<1>4. ASSUME NEW k \in 0 .. Top PROVE Bit(1, k) = 1 <=> k = 0
  <2>1. CASE k = 0
    <3>1. Pow2[0] = 1 /\ 1 \in Positive
      BY PowStep DEF Positive
    <3>2. 1 = 1 * 1 + 0 /\ 0 < 1
      OBVIOUS
    <3>3. 1 \div 1 = 1
      BY <3>1, <3>2, DivUnique
    <3>4. 1 % 2 = 1
      OBVIOUS
    <3>. QED
      BY <2>1, <3>1, <3>3, <3>4 DEF Bit
  <2>2. CASE k # 0
    <3>. DEFINE n == 0 + 1
                y == 1
    <3>1. Pow2[n] = 2 * 1
      BY PowStep
    <3>2. n \in Nat /\ n <= k /\ k \in Nat /\ y \in Int /\ ~(y < 0)
          /\ 0 - Pow2[n] <= y /\ y < Pow2[n]
      BY <2>2, <3>1, Sizes
    <3>. HIDE DEF n, y
    <3>3. Bit(y, k) = IF y < 0 THEN 1 ELSE 0
      BY <3>2, BitOfSign
    <3>. QED
      BY <2>2, <3>2, <3>3 DEF y
  <2>. QED
    BY <2>1, <2>2
<1>. QED
  BY <1>1, <1>3, <1>4 DEF OnesOf
(* The word of two whose highest different bit is 1 is the larger.         *)
LEMMA HighestDecides ==
  ASSUME NEW A, NEW B, NEW m \in 0 .. Top, m \in B, m \notin A,
         \A k \in 0 .. Top : k > m => (k \in A <=> k \in B)
  PROVE  Number(A) < Number(B)
<1>1. PICK f : AddsUp(f, A, Width) /\ Number(A) = f[Width]
  BY NumberIsSum
<1>2. PICK g : AddsUp(g, B, Width) /\ Number(B) = g[Width]
  BY NumberIsSum
<1>3. Width \in Nat /\ Top \in Nat /\ Top + 1 = Width
  BY Sizes
<1>4. \A n \in 0 .. Width : f[n] \in Int /\ g[n] \in Int
  BY <1>1, <1>2, <1>3, SumHolds DEF Holds
<1>. DEFINE T == {n \in Nat : m + 1 + n <= Width => f[m + 1 + n] < g[m + 1 + n]}
<1>5. 0 \in T
  <2>1. m + 1 \in 1 .. Width /\ (m + 1) - 1 = m /\ m \in 0 .. Width /\ m + 1 + 0 = m + 1
    BY <1>3
  <2>2. Holds(f[m], A, m) /\ Holds(g[m], B, m)
    BY <1>1, <1>2, <1>3, <2>1, SumHolds
  <2>3. f[m + 1] = f[m] + Worth(A, m + 1) /\ g[m + 1] = g[m] + Worth(B, m + 1)
    BY <1>1, <1>2, <2>1 DEF AddsUp
  <2>4. Worth(A, m + 1) = 0 /\ Worth(B, m + 1) = Pow2[m]
    BY <2>1 DEF Worth
  <2>5. Pow2[m] \in Int
    BY PowPositive DEF Positive
  <2>6. f[m + 1] < g[m + 1]
    BY <2>2, <2>3, <2>4, <2>5 DEF Holds
  <2>. QED
    BY <2>1, <2>6
<1>6. ASSUME NEW n \in Nat, n \in T PROVE n + 1 \in T
  <2>. SUFFICES ASSUME m + 1 + (n + 1) <= Width
                PROVE  f[m + 1 + (n + 1)] < g[m + 1 + (n + 1)]
    OBVIOUS
  <2>. DEFINE k == m + 1 + n
  <2>1. /\ m + 1 + (n + 1) = k + 1 /\ k + 1 \in 1 .. Width /\ (k + 1) - 1 = k
        /\ k \in 0 .. Width /\ k \in 0 .. Top /\ k > m /\ k <= Width /\ k \in Nat
    BY <1>3
  <2>2. f[k] < g[k]
    BY <1>6, <2>1
  <2>. HIDE DEF k
  <2>3. f[k + 1] = f[k] + Worth(A, k + 1) /\ g[k + 1] = g[k] + Worth(B, k + 1)
    BY <1>1, <1>2, <2>1 DEF AddsUp
  <2>4. Worth(A, k + 1) = Worth(B, k + 1) /\ Worth(A, k + 1) \in Int
    <3>1. k \in A <=> k \in B
      BY <2>1
    <3>2. Pow2[k] \in Int
      BY <2>1, PowPositive DEF Positive
    <3>. QED
      BY <2>1, <3>1, <3>2 DEF Worth
  <2>5. f[k + 1] < g[k + 1]
    BY <1>4, <2>1, <2>2, <2>3, <2>4
  <2>. QED
    BY <2>1, <2>5
<1>7. Nat \subseteq T
  <2>. HIDE DEF T
  <2>. QED
    BY <1>5, <1>6, SetInduction
<1>8. Width - m - 1 \in Nat /\ m + 1 + (Width - m - 1) = Width
  BY <1>3
<1>9. f[Width] < g[Width]
  <2>1. Width - m - 1 \in T
    BY <1>7, <1>8
  <2>. QED
    BY <1>3, <1>8, <2>1
<1>. QED
  BY <1>1, <1>2, <1>9

(* A set of positions has a highest.                                       *)
LEMMA Highest ==
  ASSUME NEW S, S \subseteq 0 .. Top, S # {}
  PROVE  Max(S) \in S /\ \A j \in S : j <= Max(S)
<1>. DEFINE T == {Top - j : j \in S}
<1>1. T \in SUBSET Nat /\ T # {}
  <2>1. Top \in Nat
    BY Sizes
  <2>2. \A j \in S : Top - j \in Nat
    BY <2>1
  <2>. QED
    BY <2>2
<1>2. PICK x \in T : \A y \in T : x <= y
  <2>. HIDE DEF T
  <2>. QED
    BY <1>1, Smallest
<1>3. PICK m \in S : x = Top - m
  BY <1>2
<1>4. ASSUME NEW j \in S PROVE m >= j
  <2>1. Top - j \in T
    OBVIOUS
  <2>2. Top - m <= Top - j
    BY <1>2, <1>3, <2>1
  <2>3. m \in Int /\ j \in Int /\ Top \in Int
    BY Sizes
  <2>. QED
    BY <2>2, <2>3
<1>5. Max(S) \in S /\ \A j \in S : Max(S) >= j
  BY <1>4 DEF Max
<1>. QED
  BY <1>5, Sizes

(* Comparing words without sign.                                           *)
LEMMA CompareUnsigned ==
  ASSUME NEW a \in Words, NEW b \in Words
  PROVE  a < b <=> /\ OnesOf(a) # OnesOf(b)
                   /\ Max((OnesOf(a) \ OnesOf(b)) \cup (OnesOf(b) \ OnesOf(a))) \in OnesOf(b)
<1>. DEFINE A == OnesOf(a)
            B == OnesOf(b)
            D == (A \ B) \cup (B \ A)
            m == Max(D)
<1>1. Number(A) = a /\ Number(B) = b /\ a \in Int /\ b \in Int
  BY WordIsNumber DEF Words
<1>2. CASE A = B
  BY <1>1, <1>2
<1>3. CASE A # B
  <2>1. A \subseteq 0 .. Top /\ B \subseteq 0 .. Top
    BY DEF OnesOf
  <2>. HIDE DEF A, B
  <2>2. D # {} /\ D \subseteq 0 .. Top
    BY <1>3, <2>1
  <2>. HIDE DEF D
  <2>3. m \in D /\ \A j \in D : j <= m
    BY <2>2, Highest
  <2>. HIDE DEF m
  <2>4. m \in 0 .. Top
    BY <2>2, <2>3
  <2>5. ASSUME NEW k \in 0 .. Top, k > m PROVE k \in A <=> k \in B
    <3>1. k \notin D
      BY <2>3, <2>4, <2>5
    <3>. QED
      BY <3>1, Zenon DEF D
  <2>6. m \in B /\ m \notin A => Number(A) < Number(B)
    BY <2>4, <2>5, HighestDecides
  <2>7. m \in A /\ m \notin B => Number(B) < Number(A)
    BY <2>4, <2>5, HighestDecides
  <2>8. (m \in A /\ m \notin B) \/ (m \in B /\ m \notin A)
    BY <2>3, Zenon DEF D
  <2>9. a < b <=> m \in B
    BY <1>1, <2>6, <2>7, <2>8
  <2>. QED
    BY <1>3, <2>9 DEF A, B, D, m
<1>. QED
  BY <1>2, <1>3

(* Bit by bit.                                                             *)
LEMMA BitByBit ==
  ASSUME NEW a \in Words, NEW b \in Words
  PROVE  /\ ALU("AND", a, b) \in Words /\ OnesOf(ALU("AND", a, b)) = OnesOf(a) \cap OnesOf(b)
         /\ ALU("OR", a, b) \in Words /\ OnesOf(ALU("OR", a, b)) = OnesOf(a) \cup OnesOf(b)
         /\ ALU("XOR", a, b) \in Words
         /\ OnesOf(ALU("XOR", a, b)) = (OnesOf(a) \ OnesOf(b)) \cup (OnesOf(b) \ OnesOf(a))
<1>. DEFINE And == {k \in 0 .. Top : Bit(a, k) * Bit(b, k) = 1}
            Or  == {k \in 0 .. Top : Bit(a, k) + Bit(b, k) - Bit(a, k) * Bit(b, k) = 1}
            Xor == {k \in 0 .. Top : (Bit(a, k) + Bit(b, k)) % 2 = 1}
<1>1. /\ ALU("AND", a, b) = Number(And) /\ ALU("OR", a, b) = Number(Or)
      /\ ALU("XOR", a, b) = Number(Xor)
  BY DEF ALU, Bits
<1>2. ASSUME NEW k \in 0 .. Top
      PROVE  /\ k \in And <=> k \in OnesOf(a) /\ k \in OnesOf(b)
             /\ k \in Or  <=> k \in OnesOf(a) \/ k \in OnesOf(b)
             /\ k \in Xor <=> ~(k \in OnesOf(a) <=> k \in OnesOf(b))
  <2>1. a \in Int /\ b \in Int /\ k \in Nat
    BY Sizes DEF Words
  <2>2. Bit(a, k) \in {0, 1} /\ Bit(b, k) \in {0, 1}
    BY <2>1, BitType
  <2>3. \A x, y \in {0, 1} : /\ x * y = 1 <=> x = 1 /\ y = 1
                             /\ x + y - x * y = 1 <=> x = 1 \/ y = 1
                             /\ (x + y) % 2 = 1 <=> ~(x = 1 <=> y = 1)
    OBVIOUS
  <2>. QED
    BY <2>2, <2>3 DEF OnesOf
<1>3. OnesOf(a) \subseteq 0 .. Top /\ OnesOf(b) \subseteq 0 .. Top
  BY DEF OnesOf
<1>4. And \subseteq 0 .. Top /\ Or \subseteq 0 .. Top /\ Xor \subseteq 0 .. Top
  OBVIOUS
<1>. HIDE DEF And, Or, Xor
<1>5. /\ And = OnesOf(a) \cap OnesOf(b) /\ Or = OnesOf(a) \cup OnesOf(b)
      /\ Xor = (OnesOf(a) \ OnesOf(b)) \cup (OnesOf(b) \ OnesOf(a))
  BY <1>2, <1>3, <1>4
<1>6. And \cap 0 .. Top = And /\ Or \cap 0 .. Top = Or /\ Xor \cap 0 .. Top = Xor
  BY <1>4
<1>. QED
  BY <1>1, <1>5, <1>6, NumberHolds
(* A shift to the right makes a word no larger.                            *)
LEMMA Smaller ==
  ASSUME NEW a \in Words, NEW d \in Positive
  PROVE  a \div d \in Words
<1>. DEFINE q == a \div d
            r == a % d
<1>1. a \in Nat /\ a < Modulus /\ Modulus \in Nat
  BY Sizes DEF Words
<1>2. q \in Int /\ r \in Int /\ a = q * d + r /\ 0 <= r /\ r < d /\ d \in Nat /\ d >= 1
  BY <1>1, DivSplit DEF Positive
<1>. HIDE DEF q, r
<1>3. ~(q < 0)
  <2>. SUFFICES ASSUME q < 0 PROVE FALSE
    OBVIOUS
  <2>1. (0 - q) * d >= d
    BY <1>2, Multiple
  <2>2. (0 - q) * d = 0 - q * d /\ q * d \in Int
    BY <1>2
  <2>. QED
    BY <1>1, <1>2, <2>1, <2>2
<1>4. d * q >= q /\ d * q = q * d /\ q * d \in Int
  BY <1>2, <1>3, Multiple
<1>5. q \in Nat /\ q <= a
  BY <1>1, <1>2, <1>3, <1>4
<1>. QED
  BY <1>1, <1>5 DEF q, Words

(* Adding, subtracting and comparing.                                      *)
LEMMA AddsAndCompares ==
  ASSUME NEW a \in Words, NEW b \in Words
  PROVE  /\ ALU("ADD", a, b) \in Words
         /\ OnesOf(ALU("ADD", a, b)) = OnesOf((Value(a) + Value(b)) % Modulus)
         /\ ALU("SUB", a, b) \in Words
         /\ OnesOf(ALU("SUB", a, b)) = OnesOf((Value(a) - Value(b)) % Modulus)
         /\ ALU("SLT", a, b) \in Words
         /\ OnesOf(ALU("SLT", a, b)) = IF Value(a) < Value(b) THEN {0} ELSE {}
         /\ ALU("SLTU", a, b) \in Words
         /\ OnesOf(ALU("SLTU", a, b))
              = IF /\ OnesOf(a) # OnesOf(b)
                   /\ Max((OnesOf(a) \ OnesOf(b)) \cup (OnesOf(b) \ OnesOf(a))) \in OnesOf(b)
                THEN {0} ELSE {}
<1>1. /\ ALU("ADD", a, b) = (a + b) % Modulus /\ ALU("SUB", a, b) = (a - b) % Modulus
      /\ ALU("SLT", a, b) = IF Signed(a) < Signed(b) THEN 1 ELSE 0
      /\ ALU("SLTU", a, b) = IF a < b THEN 1 ELSE 0
  BY DEF ALU
<1>2. a + b \in Int /\ a - b \in Int
  BY DEF Words
<1>3. (a + b) % Modulus \in Words /\ (a - b) % Modulus \in Words
  BY <1>2, Wrapped
<1>4. Value(a) = Signed(a) /\ Value(b) = Signed(b)
  BY ValueIsSigned
<1>. DEFINE less == Value(a) < Value(b)
            below == /\ OnesOf(a) # OnesOf(b)
                     /\ Max((OnesOf(a) \ OnesOf(b)) \cup (OnesOf(b) \ OnesOf(a))) \in OnesOf(b)
<1>5. a < b <=> below
  BY CompareUnsigned
<1>6. Signed(a) < Signed(b) <=> less
  BY <1>4
<1>. HIDE DEF less, below
<1>7. /\ ALU("SLT", a, b) \in Words /\ OnesOf(ALU("SLT", a, b)) = IF less THEN {0} ELSE {}
      /\ ALU("SLTU", a, b) \in Words /\ OnesOf(ALU("SLTU", a, b)) = IF below THEN {0} ELSE {}
  BY <1>1, <1>5, <1>6, TruthOnes
<1>8. /\ ALU("ADD", a, b) \in Words /\ ALU("SUB", a, b) \in Words
      /\ ALU("ADD", a, b) = (Value(a) + Value(b)) % Modulus
      /\ ALU("SUB", a, b) = (Value(a) - Value(b)) % Modulus
  BY <1>1, <1>3, SumsWrap
<1>. QED
  BY <1>7, <1>8 DEF less, below

(* Shifting.                                                               *)
LEMMA Shifts ==
  ASSUME NEW a \in Words, NEW b \in Words
  PROVE  /\ ALU("SHL", a, b) \in Words
         /\ OnesOf(ALU("SHL", a, b)) = {k + (b % Width) : k \in OnesOf(a)} \cap 0 .. Top
         /\ ALU("SHR", a, b) \in Words
         /\ OnesOf(ALU("SHR", a, b))
              = {k \in 0 .. Top : IF k + (b % Width) <= Top THEN k + (b % Width) \in OnesOf(a)
                                  ELSE FALSE}
         /\ ALU("SHA", a, b) \in Words
         /\ OnesOf(ALU("SHA", a, b))
              = {k \in 0 .. Top : IF k + (b % Width) <= Top THEN k + (b % Width) \in OnesOf(a)
                                  ELSE Top \in OnesOf(a)}
<1>. DEFINE s == b % Width
            P == Pow2[s]
            x == Signed(a)
<1>1. /\ ALU("SHL", a, b) = (a * P) % Modulus /\ ALU("SHR", a, b) = a \div P
      /\ ALU("SHA", a, b) = (x \div P) % Modulus
  BY DEF ALU, Shamt
<1>2. s \in 0 .. Top /\ s \in Nat
  BY ShamtType, Sizes DEF Shamt
<1>3. P \in Positive /\ P \in Int /\ a \in Int /\ a * P \in Int
  BY <1>2, PowPositive DEF Positive, Words
<1>4. x \in Int /\ (x = a \/ x = a - Modulus) /\ 0 - Pow2[Top] <= x /\ x < Pow2[Top]
      /\ (Top \in OnesOf(a) <=> x < 0)
  BY ValueIsSigned
<1>. HIDE DEF s, x
<1>5. a \div P \in Words /\ x \div P \in Int
  BY <1>3, <1>4, Smaller, DivSplit
<1>6. (a * P) % Modulus \in Words /\ (x \div P) % Modulus \in Words
      /\ OnesOf((x \div P) % Modulus) = {k \in 0 .. Top : Bit(x \div P, k) = 1}
  <2>. HIDE DEF P
  <2>. QED
    BY <1>3, <1>5, Wrapped
<1>7. 0 - Pow2[Width] <= x /\ x < Pow2[Width] /\ 0 - Pow2[Width] <= a /\ a < Pow2[Width] /\ ~(a < 0)
  <2>1. Pow2[Width] = 2 * Pow2[Top] /\ Pow2[Top] \in Nat /\ Modulus = Pow2[Width]
    BY Sizes
  <2>2. 0 <= a /\ a < Pow2[Width]
    BY <1>3, <2>1 DEF Words
  <2>. QED
    BY <1>3, <1>4, <2>1, <2>2
<1>8. OnesOf((a * P) % Modulus) = {k + s : k \in OnesOf(a)} \cap 0 .. Top
  BY <1>2, ShiftLeft
<1>9. {k \in 0 .. Top : Bit(a \div P, k) = 1}
        = {k \in 0 .. Top : IF k + s <= Top THEN k + s \in OnesOf(a) ELSE a < 0}
  BY <1>2, <1>3, <1>7, ShiftRight
<1>10. {k \in 0 .. Top : Bit(x \div P, k) = 1}
         = {k \in 0 .. Top : IF k + s <= Top THEN k + s \in OnesOf(a) ELSE x < 0}
  BY <1>2, <1>4, <1>7, ShiftRight
<1>11. OnesOf(a \div P)
         = {k \in 0 .. Top : IF k + s <= Top THEN k + s \in OnesOf(a) ELSE FALSE}
  <2>1. OnesOf(a \div P) = {k \in 0 .. Top : Bit(a \div P, k) = 1}
    BY DEF OnesOf
  <2>. QED
    BY <1>7, <1>9, <2>1
<1>12. OnesOf((x \div P) % Modulus)
         = {k \in 0 .. Top : IF k + s <= Top THEN k + s \in OnesOf(a) ELSE Top \in OnesOf(a)}
  BY <1>4, <1>6, <1>10
<1>. HIDE DEF P
<1>. QED
  BY <1>1, <1>5, <1>6, <1>8, <1>11, <1>12 DEF s

(* The result of every operation is a word, and the promised one.          *)
LEMMA Computes ==
  ASSUME NEW a \in Words, NEW b \in Words, NEW f3 \in 0 .. 7, NEW alt \in BOOLEAN
  PROVE  /\ ALU(ArithmeticOp(f3, alt), a, b) \in Words
         /\ OnesOf(ALU(ArithmeticOp(f3, alt), a, b)) = Promised(f3, alt, a, b)
<1>1. CASE f3 = 0
  <2>1. ArithmeticOp(f3, alt) = IF alt THEN "SUB" ELSE "ADD"
    BY <1>1 DEF ArithmeticOp
  <2>2. Promised(f3, alt, a, b)
          = OnesOf((IF alt THEN Value(a) - Value(b) ELSE Value(a) + Value(b)) % Modulus)
    <3>1. f3 # 1 /\ f3 # 2 /\ f3 # 3 /\ f3 # 4 /\ f3 # 5 /\ f3 # 6 /\ f3 # 7
      BY <1>1
    <3>. QED
      BY <1>1, <3>1, Zenon DEF Promised
  <2>3. /\ ALU("ADD", a, b) \in Words
        /\ OnesOf(ALU("ADD", a, b)) = OnesOf((Value(a) + Value(b)) % Modulus)
        /\ ALU("SUB", a, b) \in Words
        /\ OnesOf(ALU("SUB", a, b)) = OnesOf((Value(a) - Value(b)) % Modulus)
    BY AddsAndCompares
  <2>4. CASE alt
    BY <2>1, <2>2, <2>3, <2>4
  <2>5. CASE ~alt
    BY <2>1, <2>2, <2>3, <2>5
  <2>. QED
    BY <2>4, <2>5
<1>2. CASE f3 = 1
  BY <1>2, Shifts DEF ArithmeticOp, Promised
<1>3. CASE f3 = 2
  <2>1. ArithmeticOp(f3, alt) = "SLT"
    BY <1>3 DEF ArithmeticOp
  <2>2. Promised(f3, alt, a, b) = IF Value(a) < Value(b) THEN {0} ELSE {}
    <3>1. f3 # 0 /\ f3 # 1 /\ f3 # 3 /\ f3 # 4 /\ f3 # 5 /\ f3 # 6 /\ f3 # 7
      BY <1>3
    <3>. QED
      BY <1>3, <3>1, Zenon DEF Promised
  <2>. QED
    BY <2>1, <2>2, AddsAndCompares
<1>4. CASE f3 = 3
  <2>1. ArithmeticOp(f3, alt) = "SLTU"
    BY <1>4 DEF ArithmeticOp
  <2>2. Promised(f3, alt, a, b)
          = IF /\ OnesOf(a) # OnesOf(b)
               /\ Max((OnesOf(a) \ OnesOf(b)) \cup (OnesOf(b) \ OnesOf(a))) \in OnesOf(b)
            THEN {0} ELSE {}
    <3>1. f3 # 0 /\ f3 # 1 /\ f3 # 2 /\ f3 # 4 /\ f3 # 5 /\ f3 # 6 /\ f3 # 7
      BY <1>4
    <3>. QED
      BY <1>4, <3>1, Zenon DEF Promised
  <2>. QED
    BY <2>1, <2>2, AddsAndCompares
<1>5. CASE f3 = 4
  BY <1>5, BitByBit DEF ArithmeticOp, Promised
<1>6. CASE f3 = 5
  <2>1. CASE alt
    BY <1>6, <2>1, Shifts DEF ArithmeticOp, Promised
  <2>2. CASE ~alt
    BY <1>6, <2>2, Shifts DEF ArithmeticOp, Promised
  <2>. QED
    BY <2>1, <2>2
<1>7. CASE f3 = 6
  BY <1>7, BitByBit DEF ArithmeticOp, Promised
<1>8. CASE f3 = 7
  BY <1>8, BitByBit DEF ArithmeticOp, Promised
<1>9. f3 = 0 \/ f3 = 1 \/ f3 = 2 \/ f3 = 3 \/ f3 = 4 \/ f3 = 5 \/ f3 = 6 \/ f3 = 7
  OBVIOUS
<1>. QED
  BY <1>1, <1>2, <1>3, <1>4, <1>5, <1>6, <1>7, <1>8, <1>9, Zenon
-------------------------------------------------------------------------------
(* The inductive invariant: an arithmetic instruction computes with words, *)
(* its second operand comes to the ALU as it was given, and the control    *)
(* unit has chosen the operation that funct3 and bit 30 name.              *)
Standing ==
  opcode \in {"R_TYPE", "I_TYPE"} =>
    /\ funct3 \in 0 .. 7 /\ operand \in Words /\ acc \in Words
    /\ SrcB = operand
    /\ Operation = ArithmeticOp(funct3, Alt)

(* What comes to the ALU in place of an immediate is its number.           *)
LEMMA ImmediateIsOperand ==
  ASSUME NEW a \in Words, NEW S, S = OnesOf(a) \/ S = Extended(a)
  PROVE  Number(S \cap 0 .. Top) = a
<1>1. OnesOf(a) \subseteq 0 .. Top
  BY DEF OnesOf
<1>2. \A k \in Width .. 31 : k \notin 0 .. Top
  BY Sizes
<1>3. S \cap 0 .. Top = OnesOf(a)
  BY <1>1, <1>2, Zenon DEF Extended
<1>. QED
  BY <1>3, WordIsNumber

(* Bit 30 is the only one of funct7 that an arithmetic instruction sets.   *)
LEMMA FunctionBit ==
  ASSUME NEW code, NEW value, NEW alt \in {{}, {30}}, CarriesShift(value),
         code = Assembled("I_TYPE", value) \cup alt
  PROVE  code \cap 25 .. 31 # {} <=> 30 \in code
<1>1. \A bit \in Assembled("I_TYPE", value) : bit \in 20 .. 24
  <2>1. Position["I"] = [n \in 0 .. 11 |-> n + 20] /\ Format("I_TYPE") = "I"
    BY DEF Position, Format
  <2>2. \A n \in value : n \in 0 .. 4
    BY DEF CarriesShift
  <2>3. \A n \in value \cap DOMAIN Position["I"] : Position["I"][n] \in 20 .. 24
    BY <2>1, <2>2
  <2>4. Assembled("I_TYPE", value)
          = {Position["I"][n] : n \in value \cap DOMAIN Position["I"]}
    BY <2>1 DEF Assembled
  <2>. QED
    BY <2>3, <2>4
<1>2. 30 \notin 20 .. 24 /\ 30 \in 25 .. 31 /\ \A bit \in 20 .. 24 : bit \notin 25 .. 31
  OBVIOUS
<1>. QED
  BY <1>1, <1>2, Zenon

(* It holds of every instruction that is assembled.                        *)
LEMMA StandingInit == DInit /\ ImmediateSurvives => Standing
<1>. SUFFICES ASSUME DInit, ImmediateSurvives, opcode \in {"R_TYPE", "I_TYPE"}
              PROVE  /\ funct3 \in 0 .. 7 /\ operand \in Words /\ acc \in Words
                     /\ SrcB = operand
                     /\ Operation = ArithmeticOp(funct3, Alt)
  BY DEF Standing
<1>1. Arithmetic
  BY DEF DInit, Far
<1>2. funct3 \in 0 .. 7 /\ operand \in Words /\ acc \in Words
  BY <1>1 DEF Arithmetic
<1>. DEFINE flag == instr \cap 25 .. 31 # {}
<1>3. Operation = ArithmeticOp(funct3, IF opcode = "R_TYPE" THEN flag ELSE flag /\ funct3 = 5)
  BY DEF Operation, OwnALUOp
<1>4. CASE opcode = "R_TYPE"
  <2>1. instr \in {{}, {30}}
    BY <1>1, <1>4 DEF Arithmetic
  <2>2. SrcB = operand
    BY <1>4 DEF SrcB
  <2>3. flag <=> Alt
    BY <1>4, <2>1 DEF Alt
  <2>. HIDE DEF flag
  <2>4. flag \in BOOLEAN /\ Alt \in BOOLEAN
    BY DEF flag, Alt
  <2>. QED
    BY <1>2, <1>3, <1>4, <2>2, <2>3, <2>4
<1>5. CASE opcode = "I_TYPE"
  <2>1. given = OnesOf(operand) \/ given = Extended(operand)
    BY <1>1, <1>5 DEF Arithmetic
  <2>2. SrcB = Number(given \cap 0 .. Top)
    BY <1>5 DEF SrcB, ImmediateSurvives
  <2>3. SrcB = operand
    BY <1>2, <2>1, <2>2, ImmediateIsOperand
  <2>4. (flag /\ funct3 = 5) <=> Alt
    <3>1. CASE funct3 = 5
      <4>1. /\ CarriesShift(given)
            /\ \E alt \in {{}, {30}} : instr = Assembled("I_TYPE", given) \cup alt
        BY <1>1, <1>5, <3>1 DEF Arithmetic
      <4>2. flag <=> 30 \in instr
        BY <4>1, FunctionBit
      <4>. QED
        BY <1>5, <3>1, <4>2 DEF Alt
    <3>2. CASE funct3 # 5
      BY <1>5, <3>2 DEF Alt
    <3>. QED
      BY <3>1, <3>2
  <2>. DEFINE chosen == flag /\ funct3 = 5
  <2>5. chosen \in BOOLEAN /\ Alt \in BOOLEAN /\ Operation = ArithmeticOp(funct3, chosen)
    BY <1>3, <1>5 DEF Alt
  <2>6. chosen = Alt
    BY <2>4, <2>5, Zenon
  <2>. HIDE DEF chosen
  <2>. QED
    BY <1>2, <2>3, <2>5, <2>6
<1>. QED
  BY <1>4, <1>5

(* Executing the instruction again keeps it.                               *)
LEMMA StandingKept == Standing /\ [DNext]_dvars => Standing'
<1>. SUFFICES ASSUME Standing, [DNext]_dvars, opcode' \in {"R_TYPE", "I_TYPE"}
              PROVE  /\ funct3' \in 0 .. 7 /\ operand' \in Words /\ acc' \in Words
                     /\ SrcB' = operand'
                     /\ Operation' = ArithmeticOp(funct3', Alt')
  BY DEF Standing
<1>1. UNCHANGED <<opcode, funct3, instr, given, operand>>
  BY DEF DNext, dvars
<1>2. /\ funct3 \in 0 .. 7 /\ operand \in Words /\ acc \in Words
      /\ SrcB = operand /\ Operation = ArithmeticOp(funct3, Alt)
  BY <1>1 DEF Standing
<1>3. SrcB' = SrcB /\ Operation' = Operation /\ Alt' = Alt
  BY <1>1 DEF SrcB, Operation, Alt
<1>4. Alt \in BOOLEAN
  BY DEF Alt
<1>5. acc' = acc \/ acc' = ALU(ArithmeticOp(funct3, Alt), acc, operand)
  BY <1>1, <1>2 DEF DNext, dvars
<1>6. acc' \in Words
  BY <1>2, <1>4, <1>5, Computes
<1>. QED
  BY <1>1, <1>2, <1>3, <1>6

(* The result of every arithmetic instruction is the one that the          *)
(* instruction set promises, for every width of the registers, every pair  *)
(* of operands and every immediate: sums wrap, comparisons part at the     *)
(* sign bit, shifts move the bits and keep the sign where they must        *)
(* (ALU.v:10-34).                                                          *)
THEOREM ArithmeticIsPromised == DSpec => ComputesAsPromised
<1>1. Standing /\ [DNext]_dvars
        => [(opcode \in {"R_TYPE", "I_TYPE"})
              => OnesOf(acc') = Promised(funct3, Alt, acc, operand)]_dvars
  <2>. SUFFICES ASSUME Standing, DNext, opcode \in {"R_TYPE", "I_TYPE"}
                PROVE  OnesOf(acc') = Promised(funct3, Alt, acc, operand)
    OBVIOUS
  <2>1. /\ funct3 \in 0 .. 7 /\ operand \in Words /\ acc \in Words
        /\ SrcB = operand /\ Operation = ArithmeticOp(funct3, Alt)
    BY DEF Standing
  <2>2. acc' = ALU(ArithmeticOp(funct3, Alt), acc, operand)
    BY <2>1 DEF DNext
  <2>3. Alt \in BOOLEAN
    BY DEF Alt
  <2>. QED
    BY <2>1, <2>2, <2>3, Computes
<1>. QED
  BY <1>1, ImmediatesSurvive, StandingInit, StandingKept, PTL DEF DSpec, ComputesAsPromised
==============================================================================
