---------------------------- MODULE ElfFileProofs ----------------------------
(***************************************************************************)
(* Proofs about a program that builds, saves, opens and changes an ELF     *)
(* file: what layout and save leave alone, and where a section is put.     *)
(***************************************************************************)
EXTENDS ElfFile, SequenceTheorems, WellFoundedInduction, TLAPS

-------------------------------------------------------------------------------
(***************************************************************************)
(* Numbers.                                                                *)
(***************************************************************************)
(* Every set of natural numbers has a smallest element.                    *)
LEMMA Smallest ==
  ASSUME NEW T \in SUBSET Nat, T # {}
  PROVE  \E x \in T : \A y \in T : x <= y
<1>. DEFINE R == {ss \in Nat \X Nat : ss[1] < ss[2]}
<1>1. R = OpToRel(<, Nat)
  BY DEF OpToRel
<1>2. IsWellFoundedOn(R, Nat)
  BY <1>1, NatLessThanWellFounded
<1>3. PICK x \in T : \A y \in T : ~(<<y, x>> \in R)
  <2>. HIDE DEF R
  <2>. QED
    BY <1>2, WFMin
<1>4. \A y \in T : <<y, x>> \in R <=> y < x
  BY <1>3
<1>. HIDE DEF R
<1>5. \A y \in T : ~(y < x)
  BY <1>3, <1>4, Zenon
<1>. QED
  BY <1>5

(* A set that holds 0 and the successor of each of its members holds all.  *)
LEMMA SetInduction ==
  ASSUME NEW S, 0 \in S, \A n \in Nat : n \in S => n + 1 \in S
  PROVE  Nat \subseteq S
<1>. SUFFICES ASSUME NEW b \in Nat, b \notin S PROVE FALSE
  OBVIOUS
<1>. DEFINE T == {n \in Nat : n \notin S}
<1>1. PICK x \in T : \A y \in T : x <= y
  BY Smallest
<1>2. x # 0 /\ x - 1 \in Nat /\ x - 1 \in S
  BY <1>1
<1>. QED
  BY <1>1, <1>2

(* Finitely many numbers have a bound, and one of them is the largest.     *)
LEMMA Largest ==
  ASSUME NEW n \in Nat, NEW f \in [1 .. n -> Nat], n > 0
  PROVE  \E k \in 1 .. n : \A j \in 1 .. n : f[j] <= f[k]
<1>. DEFINE T == {m \in Nat : m < n => \E k \in 1 .. (m + 1) : \A j \in 1 .. (m + 1) : f[j] <= f[k]}
<1>1. 0 \in T
  OBVIOUS
<1>2. ASSUME NEW m \in Nat, m \in T PROVE m + 1 \in T
  <2>. SUFFICES ASSUME m + 1 < n
                PROVE  \E k \in 1 .. (m + 2) : \A j \in 1 .. (m + 2) : f[j] <= f[k]
    OBVIOUS
  <2>1. PICK k \in 1 .. (m + 1) : \A j \in 1 .. (m + 1) : f[j] <= f[k]
    BY <1>2
  <2>2. f[m + 2] \in Nat /\ f[k] \in Nat /\ \A j \in 1 .. (m + 2) : f[j] \in Nat
    OBVIOUS
  <2>3. CASE f[m + 2] <= f[k]
    <3>1. \A j \in 1 .. (m + 2) : f[j] <= f[k]
      <4>1. \A j \in 1 .. (m + 2) : j \in 1 .. (m + 1) \/ j = m + 2
        OBVIOUS
      <4>. QED
        BY <2>1, <2>3, <4>1
    <3>. QED
      BY <3>1
  <2>4. CASE f[m + 2] > f[k]
    <3>1. \A j \in 1 .. (m + 2) : f[j] <= f[m + 2]
      BY <2>1, <2>2, <2>4
    <3>. QED
      BY <3>1
  <2>. QED
    BY <2>2, <2>3, <2>4
<1>3. PICK p \in Nat : p + 1 = n
  <2>1. n - 1 \in Nat /\ (n - 1) + 1 = n
    OBVIOUS
  <2>. QED
    BY <2>1
<1>4. p \in T
  <2>. HIDE DEF T
  <2>. QED
    BY <1>1, <1>2, SetInduction
<1>5. \E k \in 1 .. (p + 1) : \A j \in 1 .. (p + 1) : f[j] <= f[k]
  <2>1. p < n
    BY <1>3
  <2>. QED
    BY ONLY <1>4, <2>1
<1>. QED
  BY ONLY <1>3, <1>5

Positive == Nat \ {0}

(* Division with remainder.                                                *)
LEMMA DivSplit ==
  ASSUME NEW x \in Int, NEW d \in Positive
  PROVE  /\ x \div d \in Int /\ x % d \in Int
         /\ x = (x \div d) * d + (x % d) /\ 0 <= x % d /\ x % d < d
<1>1. x \div d \in Int
  BY DEF Positive
<1>2. x % d \in Int /\ 0 <= x % d /\ x % d < d
  BY DEF Positive
<1>3. x = d * (x \div d) + (x % d)
  BY DEF Positive
<1>. DEFINE q == x \div d
<1>4. q * d = d * q
  BY <1>1 DEF Positive
<1>. QED
  BY <1>1, <1>2, <1>3, <1>4

(* A positive multiple is no smaller.                                      *)
LEMMA Multiple ==
  ASSUME NEW m \in Int, NEW d \in Nat, m >= 1
  PROVE  m * d >= d
<1>1. m * d = (m - 1) * d + d
  OBVIOUS
<1>. DEFINE n == m - 1
<1>2. n \in Nat
  OBVIOUS
<1>. HIDE DEF n
<1>3. n * d \in Nat
  BY <1>2
<1>. QED
  BY <1>1, <1>3 DEF n

(* Quotient and remainder are the only ones.                               *)
LEMMA DivUnique ==
  ASSUME NEW x \in Int, NEW d \in Positive, NEW q \in Int, NEW r \in Int,
         x = q * d + r, 0 <= r, r < d
  PROVE  x \div d = q /\ x % d = r
<1>. DEFINE p == x \div d
            s == x % d
<1>1. p \in Int /\ s \in Int /\ x = p * d + s /\ 0 <= s /\ s < d /\ d \in Nat
  BY DivSplit DEF Positive
<1>. HIDE DEF p, s
<1>2. (p - q) * d = r - s /\ (q - p) * d = s - r
  BY <1>1
<1>3. ~(p - q >= 1)
  <2>. SUFFICES ASSUME p - q >= 1 PROVE FALSE
    OBVIOUS
  <2>1. (p - q) * d >= d
    BY <1>1, Multiple
  <2>. QED
    BY <1>1, <1>2, <2>1
<1>4. ~(q - p >= 1)
  <2>. SUFFICES ASSUME q - p >= 1 PROVE FALSE
    OBVIOUS
  <2>1. (q - p) * d >= d
    BY <1>1, Multiple
  <2>. QED
    BY <1>1, <1>2, <2>1
<1>5. p = q
  BY <1>1, <1>3, <1>4
<1>6. s = r
  BY <1>5, <1>1
<1>. QED
  BY <1>5, <1>6 DEF p, s

(* How many values an Elf_Xword has.                                       *)
Span == Radix * Radix

LEMMA SpanType == Span \in Positive /\ Radix \in Positive
<1>1. Radix \in Nat /\ Radix > 1
  BY RadixAssumption
<1>2. Radix * Radix \in Nat /\ Radix * Radix >= Radix
  BY <1>1, Multiple
<1>. QED
  BY <1>1, <1>2 DEF Span, Positive

(* What fits is kept.                                                      *)
LEMMA FieldKept ==
  ASSUME NEW v \in Nat, v < Span
  PROVE  X(v) = v
<1>1. v % Span = v
  <2>. DEFINE q == 0
  <2>1. q \in Int /\ v = q * Span + v
    BY SpanType DEF Positive
  <2>. HIDE DEF q
  <2>. QED
    BY <2>1, SpanType, DivUnique
<1>. QED
  BY <1>1 DEF X, Span

(* What does not fit is off by a multiple of the number of values.         *)
LEMMA FieldWraps ==
  ASSUME NEW v \in Int
  PROVE  /\ X(v) \in Nat /\ X(v) < Span
         /\ \E q \in Int : v = q * Span + X(v)
<1>1. X(v) = v % Span
  BY DEF X, Span
<1>. DEFINE q == v \div Span
<1>2. q \in Int /\ v % Span \in Nat /\ v % Span < Span /\ v = q * Span + (v % Span)
  BY SpanType, DivSplit
<1>. HIDE DEF q
<1>. QED
  BY <1>1, <1>2

(* Numbers that are a multiple apart wrap to the same.                     *)
LEMMA SameField ==
  ASSUME NEW v \in Int, NEW u \in Int, NEW q \in Int, v = q * Span + u
  PROVE  X(v) = X(u)
<1>1. PICK p \in Int : u = p * Span + X(u)
  BY FieldWraps
<1>2. X(u) \in Nat /\ X(u) < Span
  BY FieldWraps
<1>. DEFINE s == p + q
            w == X(u)
<1>3. s \in Int /\ w \in Int /\ v = s * Span + w /\ 0 <= w /\ w < Span
  <2>. HIDE DEF w
  <2>1. w \in Nat /\ w < Span /\ u = p * Span + w /\ Span \in Nat
    BY <1>1, <1>2, SpanType DEF w, Positive
  <2>. QED
    BY <2>1
<1>. HIDE DEF s, w
<1>4. v % Span = w
  BY <1>3, SpanType, DivUnique
<1>. QED
  BY <1>4 DEF w, X, Span

(* The next multiple of align is less than align away.                     *)
LEMMA PadType ==
  ASSUME NEW pos \in Nat, NEW align \in Positive
  PROVE  Pad(pos, align) \in Nat /\ Pad(pos, align) < align
<1>1. pos % align \in Int /\ align \in Int
  BY DivSplit DEF Positive
<1>. DEFINE v == align - (pos % align)
<1>2. v \in Int
  BY <1>1
<1>. HIDE DEF v
<1>3. v % align \in Int /\ 0 <= v % align /\ v % align < align
  BY <1>2, DivSplit
<1>. QED
  BY <1>3 DEF v, Pad

-------------------------------------------------------------------------------
(***************************************************************************)
(* The order in which segments are laid out: each of them once.            *)
(***************************************************************************)
(* list has every number from 1 to n at one place.                         *)
Permutes(list, n) ==
  /\ list \in [1 .. n -> 1 .. n]
  /\ \A v \in 1 .. n : \E k \in 1 .. n : list[k] = v
  /\ \A j, k \in 1 .. n : list[j] = list[k] => j = k

LEMMA SwapPermutes ==
  ASSUME NEW n \in Nat, NEW list, Permutes(list, n), NEW i \in 1 .. n, NEW j \in 1 .. n
  PROVE  Permutes(Swap(list, i, j), n)
<1>. DEFINE s == Swap(list, i, j)
<1>1. DOMAIN list = 1 .. n /\ \A k \in 1 .. n : list[k] \in 1 .. n
  BY DEF Permutes
<1>2. s = [k \in 1 .. n |-> IF k = i THEN list[j] ELSE IF k = j THEN list[i] ELSE list[k]]
  BY <1>1 DEF Swap
<1>3. s \in [1 .. n -> 1 .. n]
  BY <1>1, <1>2
<1>4. s[i] = list[j] /\ s[j] = list[i] /\ \A k \in 1 .. n : k # i /\ k # j => s[k] = list[k]
  BY <1>2
<1>. HIDE DEF s
<1>5. ASSUME NEW v \in 1 .. n PROVE \E k \in 1 .. n : s[k] = v
  <2>1. PICK k \in 1 .. n : list[k] = v
    BY DEF Permutes
  <2>. QED
    BY <1>4, <2>1
<1>6. ASSUME NEW k \in 1 .. n, NEW l \in 1 .. n, s[k] = s[l] PROVE k = l
  <2>1. \A a, b \in 1 .. n : list[a] = list[b] => a = b
    BY DEF Permutes
  <2>2. \A a \in 1 .. n : a = i \/ a = j \/ (a # i /\ a # j)
    OBVIOUS
  <2>. QED
    BY <1>4, <1>6, <2>1, <2>2
<1>. QED
  BY <1>3, <1>5, <1>6 DEF Permutes, s

(* One round of bringing segments to the front.                            *)
LEMMA ForwardPermutes ==
  ASSUME NEW n \in Nat, NEW segs, NEW i \in 1 .. n, NEW acc,
         Permutes(acc.list, n), acc.slot \in 1 .. i
  PROVE  /\ Permutes(Forward(segs, acc, i).list, n)
         /\ Forward(segs, acc, i).slot \in 1 .. (i + 1)
<1>. DEFINE slot == IF segs[acc.list[acc.slot]].offset = 0 THEN acc.slot + 1 ELSE acc.slot
            moves == i # acc.slot /\ segs[acc.list[i]].offSet /\ segs[acc.list[i]].offset = 0
<1>1. CASE moves
  <2>1. slot \in 1 .. i
    BY <1>1
  <2>2. Forward(segs, acc, i) = [list |-> Swap(acc.list, i, slot), slot |-> slot + 1]
    BY <1>1 DEF Forward
  <2>. HIDE DEF slot
  <2>3. slot \in 1 .. n /\ slot + 1 \in 1 .. (i + 1)
    BY <2>1
  <2>. QED
    BY <2>2, <2>3, SwapPermutes
<1>2. CASE ~moves
  <2>1. Forward(segs, acc, i) = acc
    BY <1>2 DEF Forward
  <2>. QED
    BY <2>1
<1>. QED
  BY <1>1, <1>2

(* They are looked at one after the other.                                 *)
LEMMA FrontUnfolds ==
  ASSUME NEW segs, Len(segs) \in Nat
  PROVE  \E f : /\ f[0] = [list |-> [k \in 1 .. Len(segs) |-> k], slot |-> 1]
                /\ \A n \in 1 .. Len(segs) : f[n] = Forward(segs, f[n - 1], n)
                /\ FrontFirst(segs) = f[Len(segs)].list
<1>. DEFINE seq == [k \in 1 .. Len(segs) |-> k]
            base == [list |-> [k \in 1 .. Len(segs) |-> k], slot |-> 1]
            Runs(f, m) == f = [i \in 0 .. m |-> IF i = 0 THEN base
                                ELSE Forward(segs, f[i - 1], seq[i])]
            T == {m \in Nat : \E f : Runs(f, m)}
            F == CHOOSE f : Runs(f, Len(seq))
<1>1. 0 \in T
  <2>1. Runs([i \in 0 .. 0 |-> base], 0)
    OBVIOUS
  <2>. QED
    BY <2>1
<1>2. ASSUME NEW m \in Nat, m \in T PROVE m + 1 \in T
  <2>1. PICK f : Runs(f, m)
    BY <1>2
  <2>. DEFINE g == [i \in 0 .. (m + 1) |->
                      IF i = m + 1 THEN Forward(segs, f[m], seq[m + 1]) ELSE f[i]]
  <2>2. Runs(g, m + 1)
    <3>. SUFFICES ASSUME NEW i \in 0 .. (m + 1)
                  PROVE  g[i] = IF i = 0 THEN base
                                ELSE Forward(segs, g[i - 1], seq[i])
      BY Zenon
    <3>. HIDE DEF seq, base
    <3>. QED
      BY <2>1
  <2>. HIDE DEF Runs, g
  <2>. QED
    BY <2>2
<1>3. Nat \subseteq T
  <2>. HIDE DEF T
  <2>. QED
    BY <1>1, <1>2, SetInduction
<1>4. FrontFirst(segs) = F[Len(seq)].list
  BY DEF FrontFirst, Loop
<1>5. Len(seq) = Len(segs) /\ \A n \in 1 .. Len(segs) : seq[n] = n
  OBVIOUS
<1>6. Runs(F, Len(segs))
  <2>1. \E f : Runs(f, Len(segs))
    BY <1>3
  <2>. HIDE DEF Runs, seq, base
  <2>. QED
    BY <1>5, <2>1
<1>7. /\ F[0] = base
      /\ \A n \in 1 .. Len(segs) : F[n] = Forward(segs, F[n - 1], n)
  <2>. HIDE DEF F, seq, base
  <2>. QED
    BY <1>5, <1>6
<1>. QED
  BY <1>4, <1>5, <1>7

(* The work list begins with every segment.                                *)
LEMMA FrontPermutes ==
  ASSUME NEW segs, Len(segs) \in Nat
  PROVE  Permutes(FrontFirst(segs), Len(segs))
<1>. DEFINE n == Len(segs)
            all == [k \in 1 .. n |-> k]
<1>1. PICK f : /\ f[0] = [list |-> all, slot |-> 1]
               /\ \A i \in 1 .. n : f[i] = Forward(segs, f[i - 1], i)
               /\ FrontFirst(segs) = f[n].list
  BY FrontUnfolds
<1>2. Permutes(all, n)
  BY DEF Permutes
<1>. HIDE DEF all, n
<1>. DEFINE T == {i \in Nat : i <= n => Permutes(f[i].list, n) /\ f[i].slot \in 1 .. (i + 1)}
<1>3. 0 \in T
  BY <1>1, <1>2
<1>4. ASSUME NEW i \in Nat, i \in T PROVE i + 1 \in T
  <2>. SUFFICES ASSUME i + 1 <= n
                PROVE  Permutes(f[i + 1].list, n) /\ f[i + 1].slot \in 1 .. ((i + 1) + 1)
    OBVIOUS
  <2>1. n \in Nat /\ i + 1 \in 1 .. n /\ (i + 1) - 1 = i /\ i <= n
    BY DEF n
  <2>2. Permutes(f[i].list, n) /\ f[i].slot \in 1 .. (i + 1)
    BY <1>4, <2>1
  <2>3. f[i + 1] = Forward(segs, f[i], i + 1)
    BY <1>1, <2>1
  <2>. QED
    BY <2>1, <2>2, <2>3, ForwardPermutes
<1>5. n \in T
  <2>. HIDE DEF T
  <2>1. n \in Nat
    BY DEF n
  <2>. QED
    BY <1>3, <1>4, <2>1, SetInduction
<1>. QED
  <2>1. n \in Nat /\ n <= n
    BY DEF n
  <2>. QED
    BY <1>1, <1>5, <2>1 DEF n

(* A segment lies only in longer ones: the longest lies in none, and so    *)
(* there is a first that lies in none.                                     *)
LEMMA OutsideExists ==
  ASSUME NEW n \in Nat, NEW segs, \A g \in 1 .. n : Len(segs[g].secs) \in Nat,
         NEW w \in Seq(1 .. n), w # << >>
  PROVE  \E k \in 1 .. Len(w) :
           /\ ~Inside(segs, w, k)
           /\ \A j \in 1 .. (k - 1) : Inside(segs, w, j)
<1>. DEFINE l == Len(w)
            f == [k \in 1 .. l |-> Len(segs[w[k]].secs)]
            T == {k \in 1 .. l : ~Inside(segs, w, k)}
<1>1. l \in Nat /\ l > 0 /\ \A k \in 1 .. l : w[k] \in 1 .. n
  BY EmptySeq, LenProperties
<1>2. f \in [1 .. l -> Nat]
  BY <1>1
<1>3. PICK k \in 1 .. l : \A j \in 1 .. l : f[j] <= f[k]
  <2>. HIDE DEF f, l
  <2>. QED
    BY <1>1, <1>2, Largest
<1>4. ~Inside(segs, w, k)
  <2>. SUFFICES ASSUME NEW j \in 1 .. l, IsSubsequenceOf(segs[w[k]], segs[w[j]])
                PROVE  FALSE
    BY DEF Inside
  <2>1. f[k] < f[j]
    BY DEF IsSubsequenceOf
  <2>2. f[j] <= f[k] /\ f[j] \in Nat /\ f[k] \in Nat
    BY <1>2, <1>3
  <2>. HIDE DEF f, l
  <2>. QED
    BY <2>1, <2>2
<1>5. T \in SUBSET Nat /\ T # {}
  <2>1. \A x \in T : x \in Nat
    OBVIOUS
  <2>2. k \in T
    BY <1>4
  <2>. HIDE DEF T
  <2>. QED
    BY <2>1, <2>2
<1>6. PICK x \in T : \A y \in T : x <= y
  <2>. HIDE DEF T
  <2>. QED
    BY <1>5, Smallest
<1>7. \A j \in 1 .. (x - 1) : Inside(segs, w, j)
  BY <1>1, <1>6
<1>. QED
  BY <1>6, <1>7

(* After r rounds each of the n segments either waits or is done.          *)
Waiting(acc, n, r) ==
  /\ acc.wait \in Seq(1 .. n) /\ Len(acc.wait) = n - r
  /\ acc.done \in Seq(1 .. n) /\ Len(acc.done) = r
  /\ \A j, k \in 1 .. (n - r) : acc.wait[j] = acc.wait[k] => j = k
  /\ \A j, k \in 1 .. r : acc.done[j] = acc.done[k] => j = k
  /\ \A j \in 1 .. (n - r), k \in 1 .. r : acc.wait[j] # acc.done[k]
  /\ \A v \in 1 .. n :
       \/ \E j \in 1 .. (n - r) : acc.wait[j] = v
       \/ \E k \in 1 .. r : acc.done[k] = v

(* What remains of a list when its k-th element is taken and those before  *)
(* it go to the end.                                                       *)
LEMMA Rotated ==
  ASSUME NEW S, NEW w \in Seq(S), NEW k \in 1 .. Len(w)
  PROVE  LET v == SubSeq(w, k + 1, Len(w)) \o SubSeq(w, 1, k - 1)
         IN  /\ v \in Seq(S) /\ Len(v) = Len(w) - 1
             /\ \A j \in 1 .. (Len(w) - k) : v[j] = w[k + j]
             /\ \A j \in (Len(w) - k + 1) .. (Len(w) - 1) : v[j] = w[j - (Len(w) - k)]
<1>. DEFINE l == Len(w)
            a == SubSeq(w, k + 1, l)
            b == SubSeq(w, 1, k - 1)
<1>1. l \in Nat /\ k \in 1 .. l /\ \A j \in 1 .. l : w[j] \in S
  BY LenProperties, ElementOfSeq
<1>2. /\ a \in Seq(S) /\ Len(a) = l - k
      /\ \A j \in 1 .. (l - k) : a[j] = w[k + j]
  <2>1. CASE k = l
    <3>1. a = << >>
      BY <1>1, <2>1
    <3>. HIDE DEF a
    <3>. QED
      BY <3>1, <2>1, <1>1
  <2>2. CASE k # l
    BY <1>1, <2>2, SubSeqProperties
  <2>. QED
    BY <2>1, <2>2
<1>3. /\ b \in Seq(S) /\ Len(b) = k - 1
      /\ \A j \in 1 .. (k - 1) : b[j] = w[j]
  <2>1. CASE k = 1
    <3>1. b = << >>
      BY <1>1, <2>1
    <3>. HIDE DEF b
    <3>. QED
      BY <3>1, <2>1, <1>1
  <2>2. CASE k # 1
    BY <1>1, <2>2, SubSeqProperties
  <2>. QED
    BY <2>1, <2>2
<1>. HIDE DEF a, b, l
<1>4. a \o b \in Seq(S) /\ Len(a \o b) = l - 1
  <2>1. a \o b \in Seq(S) /\ Len(a \o b) = Len(a) + Len(b)
    BY <1>2, <1>3, ConcatProperties
  <2>. QED
    BY <1>1, <1>2, <1>3, <2>1
<1>5. \A j \in 1 .. (l - k) : (a \o b)[j] = w[k + j]
  BY <1>1, <1>2, <1>3, ConcatProperties
<1>6. \A j \in (l - k + 1) .. (l - 1) : (a \o b)[j] = w[j - (l - k)]
  <2>. SUFFICES ASSUME NEW j \in (l - k + 1) .. (l - 1)
                PROVE  (a \o b)[j] = w[j - (l - k)]
    OBVIOUS
  <2>1. j \in 1 .. (Len(a) + Len(b)) /\ ~(j <= Len(a)) /\ j - Len(a) \in 1 .. (k - 1)
    BY <1>1, <1>2, <1>3 DEF l
  <2>2. (a \o b)[j] = b[j - Len(a)]
    BY <1>2, <1>3, <2>1, ConcatProperties, SMTT(30)
  <2>. QED
    BY <1>2, <1>3, <2>1, <2>2
<1>. QED
  BY <1>4, <1>5, <1>6 DEF a, b, l

(* One round of the work list.                                             *)
LEMMA NextKeeps ==
  ASSUME NEW n \in Nat, NEW r \in Nat, r < n, NEW segs,
         \A g \in 1 .. n : Len(segs[g].secs) \in Nat, NEW acc, Waiting(acc, n, r)
  PROVE  Waiting(NextSegment(segs, acc), n, r + 1)
<1>. DEFINE w == acc.wait
            l == n - r
            Taken(k) == /\ ~Inside(segs, w, k)
                        /\ \A j \in 1 .. (k - 1) : Inside(segs, w, j)
            k == CHOOSE k \in 1 .. Len(w) : Taken(k)
            v == SubSeq(w, k + 1, Len(w)) \o SubSeq(w, 1, k - 1)
            d == Append(acc.done, w[k])
<1>1. w \in Seq(1 .. n) /\ Len(w) = l /\ l \in Nat /\ l > 0
  BY DEF Waiting
<1>2. k \in 1 .. l
  <2>1. \E x \in 1 .. Len(w) : Taken(x)
    <3>1. w # << >>
      BY <1>1
    <3>. HIDE DEF w
    <3>. QED
      BY <1>1, <3>1, OutsideExists
  <2>. HIDE DEF Taken, w
  <2>. QED
    BY <1>1, <2>1
<1>3. NextSegment(segs, acc) = [wait |-> v, done |-> d]
  BY DEF NextSegment
<1>. HIDE DEF k
<1>4. /\ v \in Seq(1 .. n) /\ Len(v) = l - 1
      /\ \A j \in 1 .. (l - k) : v[j] = w[k + j]
      /\ \A j \in (l - k + 1) .. (l - 1) : v[j] = w[j - (l - k)]
  <2>1. k \in 1 .. Len(w)
    BY <1>1, <1>2
  <2>2. /\ v \in Seq(1 .. n) /\ Len(v) = Len(w) - 1
        /\ \A j \in 1 .. (Len(w) - k) : v[j] = w[k + j]
        /\ \A j \in (Len(w) - k + 1) .. (Len(w) - 1) : v[j] = w[j - (Len(w) - k)]
    <3>. HIDE DEF w, l
    <3>. QED
      BY <1>1, <2>1, Rotated
  <2>. HIDE DEF v, w, l
  <2>. QED
    BY <1>1, <2>2
<1>5. /\ d \in Seq(1 .. n) /\ Len(d) = r + 1
      /\ d[r + 1] = w[k] /\ \A j \in 1 .. r : d[j] = acc.done[j]
  <2>1. acc.done \in Seq(1 .. n) /\ Len(acc.done) = r /\ w[k] \in 1 .. n
    BY <1>1, <1>2, ElementOfSeq DEF Waiting
  <2>. HIDE DEF w
  <2>. QED
    BY <2>1, AppendProperties
<1>6. /\ \A j, i \in 1 .. l : w[j] = w[i] => j = i
      /\ \A j, i \in 1 .. r : acc.done[j] = acc.done[i] => j = i
      /\ \A j \in 1 .. l, i \in 1 .. r : w[j] # acc.done[i]
      /\ \A x \in 1 .. n :
           \/ \E j \in 1 .. l : w[j] = x
           \/ \E i \in 1 .. r : acc.done[i] = x
  BY DEF Waiting
<1>. DEFINE from == [j \in 1 .. (l - 1) |-> IF j <= l - k THEN k + j ELSE j - (l - k)]
<1>7. /\ \A j \in 1 .. (l - 1) : from[j] \in 1 .. l /\ from[j] # k /\ v[j] = w[from[j]]
      /\ \A j, i \in 1 .. (l - 1) : from[j] = from[i] => j = i
  <2>. HIDE DEF v, w, l
  <2>1. \A j \in 1 .. (l - 1) : from[j] \in 1 .. l /\ from[j] # k
    BY <1>1, <1>2
  <2>2. \A j \in 1 .. (l - 1) : v[j] = w[from[j]]
    BY <1>1, <1>2, <1>4
  <2>3. \A j, i \in 1 .. (l - 1) : from[j] = from[i] => j = i
    BY <1>1, <1>2
  <2>. QED
    BY <2>1, <2>2, <2>3
<1>8. \A i \in 1 .. l : i # k => \E j \in 1 .. (l - 1) : from[j] = i
  <2>. SUFFICES ASSUME NEW i \in 1 .. l, i # k
                PROVE  \E j \in 1 .. (l - 1) : from[j] = i
    OBVIOUS
  <2>. HIDE DEF l
  <2>1. CASE i > k
    <3>1. i - k \in 1 .. (l - 1) /\ from[i - k] = i
      BY <1>1, <1>2, <2>1
    <3>. QED
      BY <3>1
  <2>2. CASE i < k
    <3>1. i + (l - k) \in 1 .. (l - 1) /\ from[i + (l - k)] = i
      BY <1>1, <1>2, <2>2
    <3>. QED
      BY <3>1
  <2>. QED
    BY <1>1, <1>2, <2>1, <2>2
<1>13. l - 1 = n - (r + 1)
  OBVIOUS
<1>. HIDE DEF from, v, d, w, l
<1>9. \A j, i \in 1 .. (l - 1) : v[j] = v[i] => j = i
  BY <1>6, <1>7
<1>10. \A j, i \in 1 .. (r + 1) : d[j] = d[i] => j = i
  <2>1. /\ \A j \in 1 .. (r + 1) : j \in 1 .. r \/ j = r + 1
        /\ \A j \in 1 .. r : d[j] = acc.done[j] /\ d[j] # d[r + 1]
    BY <1>2, <1>5, <1>6
  <2>2. \A j, i \in 1 .. r : d[j] = d[i] => j = i
    BY <1>6, <2>1
  <2>. QED
    BY ONLY <2>1, <2>2, Zenon
<1>11. \A j \in 1 .. (l - 1), i \in 1 .. (r + 1) : v[j] # d[i]
  <2>. SUFFICES ASSUME NEW j \in 1 .. (l - 1), NEW i \in 1 .. (r + 1), v[j] = d[i]
                PROVE  FALSE
    OBVIOUS
  <2>1. v[j] = w[from[j]] /\ from[j] \in 1 .. l /\ from[j] # k
    BY <1>7
  <2>2. CASE i \in 1 .. r
    <3>1. d[i] = acc.done[i]
      BY <1>5, <2>2
    <3>2. w[from[j]] # acc.done[i]
      BY ONLY <1>6, <2>1, <2>2
    <3>. QED
      BY <2>1, <3>1, <3>2
  <2>3. CASE i = r + 1
    <3>1. d[i] = w[k]
      BY <1>5, <2>3
    <3>2. w[from[j]] = w[k] => from[j] = k
      BY ONLY <1>2, <1>6, <2>1
    <3>. QED
      BY <2>1, <3>1, <3>2
  <2>4. i \in 1 .. r \/ i = r + 1
    OBVIOUS
  <2>. QED
    BY <2>2, <2>3, <2>4
<1>12. \A x \in 1 .. n :
         \/ \E j \in 1 .. (l - 1) : v[j] = x
         \/ \E i \in 1 .. (r + 1) : d[i] = x
  <2>. SUFFICES ASSUME NEW x \in 1 .. n, ~\E i \in 1 .. (r + 1) : d[i] = x
                PROVE  \E j \in 1 .. (l - 1) : v[j] = x
    OBVIOUS
  <2>1. \A i \in 1 .. r : i \in 1 .. (r + 1)
    OBVIOUS
  <2>2. r + 1 \in 1 .. (r + 1)
    OBVIOUS
  <2>3. PICK i \in 1 .. l : w[i] = x
    BY <1>5, <1>6, <2>1
  <2>4. i # k
    BY <1>5, <2>2, <2>3
  <2>. QED
    BY <1>7, <1>8, <2>3, <2>4
<1>. DEFINE t == NextSegment(segs, acc)
<1>14. t.wait = v /\ t.done = d
  BY <1>3
<1>. HIDE DEF t
<1>15. Waiting(t, n, r + 1)
  <2>1. /\ v \in Seq(1 .. n) /\ Len(v) = l - 1
        /\ d \in Seq(1 .. n) /\ Len(d) = r + 1
    BY <1>4, <1>5
  <2>. QED
    BY ONLY <2>1, <1>14, <1>9, <1>10, <1>11, <1>12, <1>13, Zenon DEF Waiting
<1>. QED
  BY <1>15 DEF t

(* The work list is emptied one round after the other.                     *)
LEMMA OrderUnfolds ==
  ASSUME NEW segs, Len(segs) \in Nat
  PROVE  \E f : /\ f[0] = [wait |-> FrontFirst(segs), done |-> << >>]
                /\ \A n \in 1 .. Len(segs) : f[n] = NextSegment(segs, f[n - 1])
                /\ GetOrderedSegments(segs) = f[Len(segs)].done
<1>. DEFINE seq == segs
            base == [wait |-> FrontFirst(segs), done |-> << >>]
            Runs(f, m) == f = [i \in 0 .. m |-> IF i = 0 THEN base
                                ELSE NextSegment(segs, f[i - 1])]
            T == {m \in Nat : \E f : Runs(f, m)}
            F == CHOOSE f : Runs(f, Len(seq))
<1>1. 0 \in T
  <2>1. Runs([i \in 0 .. 0 |-> base], 0)
    OBVIOUS
  <2>. QED
    BY <2>1
<1>2. ASSUME NEW m \in Nat, m \in T PROVE m + 1 \in T
  <2>1. PICK f : Runs(f, m)
    BY <1>2
  <2>. DEFINE g == [i \in 0 .. (m + 1) |->
                      IF i = m + 1 THEN NextSegment(segs, f[m]) ELSE f[i]]
  <2>2. Runs(g, m + 1)
    <3>. SUFFICES ASSUME NEW i \in 0 .. (m + 1)
                  PROVE  g[i] = IF i = 0 THEN base
                                ELSE NextSegment(segs, g[i - 1])
      BY Zenon
    <3>. HIDE DEF seq, base
    <3>. QED
      BY <2>1
  <2>. HIDE DEF Runs, g
  <2>. QED
    BY <2>2
<1>3. Nat \subseteq T
  <2>. HIDE DEF T
  <2>. QED
    BY <1>1, <1>2, SetInduction
<1>4. GetOrderedSegments(segs) = F[Len(seq)].done
  BY DEF GetOrderedSegments, Loop
<1>5. Len(seq) = Len(segs)
  OBVIOUS
<1>6. Runs(F, Len(segs))
  <2>1. \E f : Runs(f, Len(segs))
    BY <1>3
  <2>. HIDE DEF Runs, seq, base
  <2>. QED
    BY <1>5, <2>1
<1>7. /\ F[0] = base
      /\ \A n \in 1 .. Len(segs) : F[n] = NextSegment(segs, F[n - 1])
  <2>. HIDE DEF F, seq, base
  <2>. QED
    BY <1>5, <1>6
<1>. QED
  BY <1>4, <1>5, <1>7

(* Every segment is laid out, and none twice.                              *)
LEMMA OrderPermutes ==
  ASSUME NEW segs, Len(segs) \in Nat, \A g \in 1 .. Len(segs) : Len(segs[g].secs) \in Nat
  PROVE  /\ GetOrderedSegments(segs) \in Seq(1 .. Len(segs))
         /\ Len(GetOrderedSegments(segs)) = Len(segs)
         /\ Permutes(GetOrderedSegments(segs), Len(segs))
<1>. DEFINE n == Len(segs)
            front == [wait |-> FrontFirst(segs), done |-> << >>]
<1>1. PICK f : /\ f[0] = front
               /\ \A r \in 1 .. n : f[r] = NextSegment(segs, f[r - 1])
               /\ GetOrderedSegments(segs) = f[n].done
  BY OrderUnfolds
<1>2. n \in Nat /\ \A g \in 1 .. n : Len(segs[g].secs) \in Nat
  OBVIOUS
<1>3. Waiting(front, n, 0)
  <2>1. Permutes(FrontFirst(segs), n)
    BY FrontPermutes
  <2>. HIDE DEF n
  <2>2. FrontFirst(segs) \in Seq(1 .. n) /\ Len(FrontFirst(segs)) = n
    BY <1>2, <2>1, SMTT(30) DEF Permutes
  <2>. QED
    BY <1>2, <2>1, <2>2 DEF Waiting, Permutes
<1>. HIDE DEF n, front
<1>. DEFINE T == {r \in Nat : r <= n => Waiting(f[r], n, r)}
<1>4. 0 \in T
  BY <1>1, <1>3
<1>5. ASSUME NEW r \in Nat, r \in T PROVE r + 1 \in T
  <2>. SUFFICES ASSUME r + 1 <= n PROVE Waiting(f[r + 1], n, r + 1)
    OBVIOUS
  <2>1. r < n /\ r <= n /\ r + 1 \in 1 .. n /\ (r + 1) - 1 = r
    BY <1>2
  <2>2. Waiting(f[r], n, r)
    BY <1>5, <2>1
  <2>3. f[r + 1] = NextSegment(segs, f[r])
    BY <1>1, <2>1
  <2>. QED
    BY <1>2, <2>1, <2>2, <2>3, NextKeeps
<1>6. Waiting(f[n], n, n)
  <2>1. n \in T
    <3>. HIDE DEF T
    <3>. QED
      BY <1>2, <1>4, <1>5, SetInduction
  <2>2. n <= n
    BY <1>2
  <2>. QED
    BY <2>1, <2>2
<1>. DEFINE d == f[n].done
<1>7. /\ d \in Seq(1 .. n) /\ Len(d) = n
      /\ \A j, k \in 1 .. n : d[j] = d[k] => j = k
      /\ \A v \in 1 .. n : \E k \in 1 .. n : d[k] = v
  <2>1. ~(\E j : j \in 1 .. (n - n))
    BY <1>2
  <2>. QED
    BY <1>6, <2>1 DEF Waiting
<1>. HIDE DEF d
<1>8. d \in [1 .. n -> 1 .. n]
  BY <1>2, <1>7, LenProperties
<1>. QED
  BY <1>1, <1>7, <1>8 DEF d, n, Permutes

-------------------------------------------------------------------------------
(***************************************************************************)
(* Objects.                                                                *)
(***************************************************************************)
IsSeq(q) == \E S : q \in Seq(S)

LEMMA SeqIs ==
  ASSUME NEW q, IsSeq(q)
  PROVE  Len(q) \in Nat /\ DOMAIN q = 1 .. Len(q) /\ q = [i \in 1 .. Len(q) |-> q[i]]
BY DEF IsSeq

(* One element replaced.                                                   *)
LEMMA SeqPut ==
  ASSUME NEW q, IsSeq(q), NEW i \in 1 .. Len(q), NEW x
  PROVE  LET r == [q EXCEPT ![i] = x]
         IN  /\ IsSeq(r) /\ Len(r) = Len(q) /\ r[i] = x
             /\ \A j \in 1 .. Len(q) : j # i => r[j] = q[j]
<1>. DEFINE r == [q EXCEPT ![i] = x]
<1>1. PICK S : q \in Seq(S)
  BY DEF IsSeq
<1>2. q \in Seq(S \cup {x})
  BY <1>1
<1>3. r \in Seq(S \cup {x}) /\ Len(r) = Len(q)
  BY <1>2, ExceptSeq
<1>4. r[i] = x /\ \A j \in 1 .. Len(q) : j # i => r[j] = q[j]
  BY <1>1, LenProperties
<1>. QED
  BY <1>3, <1>4 DEF IsSeq

(* One element added.                                                      *)
LEMMA SeqAppend ==
  ASSUME NEW q, IsSeq(q), NEW x
  PROVE  /\ IsSeq(Append(q, x)) /\ Len(Append(q, x)) = Len(q) + 1
         /\ Append(q, x)[Len(q) + 1] = x
         /\ \A j \in 1 .. Len(q) : Append(q, x)[j] = q[j]
<1>1. PICK S : q \in Seq(S)
  BY DEF IsSeq
<1>2. q \in Seq(S \cup {x}) /\ x \in S \cup {x}
  BY <1>1
<1>. QED
  BY <1>2, AppendProperties DEF IsSeq

(* A sequence is one whatever is known of its elements.                    *)
LEMMA SeqOver ==
  ASSUME NEW q, IsSeq(q), NEW S, \A i \in 1 .. Len(q) : q[i] \in S
  PROVE  q \in Seq(S)
<1>1. Len(q) \in Nat /\ q = [i \in 1 .. Len(q) |-> q[i]]
  BY SeqIs
<1>2. \E n \in Nat : q \in [1 .. n -> S]
  BY <1>1
<1>3. q \in UNION {[1 .. m -> S] : m \in Nat}
  BY ONLY <1>2
<1>4. QED
  BY ONLY <1>3, SeqDef, Zenon

(* The fields in F are there and hold numbers.                             *)
Numbers(r, F) == F \subseteq DOMAIN r /\ \A f \in F : r[f] \in Nat

SecNumbers == {"name", "type", "flags", "addr", "offset", "size", "link", "info",
               "align", "entsize"}
SegNumbers == {"type", "offset", "vaddr", "paddr", "filesz", "memsz", "flags", "align"}
HdrNumbers == {"magic", "class", "data", "type", "machine", "version", "entry",
               "phoff", "shoff", "flags", "ehsize", "phentsize", "phnum",
               "shentsize", "shnum", "shstrndx"}

(* Section i of an object, and a segment of one that has n sections.       *)
IsSection(s, i) ==
  /\ Numbers(s, SecNumbers) /\ {"label", "data", "has", "cap", "index", "addrSet", "stream"} \subseteq DOMAIN s
  /\ s.index = i /\ s.data \in Seq(Nat) /\ s.addrSet \in BOOLEAN

IsSegment(seg, n) ==
  /\ Numbers(seg, SegNumbers) /\ {"data", "has", "index", "secs", "offSet"} \subseteq DOMAIN seg
  /\ seg.secs \in Seq(0 .. (n - 1)) /\ seg.offSet \in BOOLEAN /\ seg.index \in Nat

IsObject(e) ==
  /\ {"hdr", "secs", "segs"} \subseteq DOMAIN e
  /\ Numbers(e.hdr, HdrNumbers)
  /\ IsSeq(e.secs) /\ \A i \in 1 .. Len(e.secs) : IsSection(e.secs[i], i - 1)
  /\ IsSeq(e.segs)
  /\ \A g \in 1 .. Len(e.segs) : IsSegment(e.segs[g], Len(e.secs)) /\ e.segs[g].index = g - 1

LEMMA SectionHas ==
  ASSUME NEW s, NEW i, IsSection(s, i)
  PROVE  /\ s.type \in Nat /\ s.flags \in Nat /\ s.addr \in Nat /\ s.offset \in Nat
         /\ s.size \in Nat /\ s.align \in Nat /\ s.index = i /\ s.addrSet \in BOOLEAN
         /\ s.data \in Seq(Nat)
         /\ {"type", "flags", "addr", "offset", "size", "align", "index", "addrSet", "data",
             "label"} \subseteq DOMAIN s
BY DEF IsSection, Numbers, SecNumbers

LEMMA SegmentHas ==
  ASSUME NEW seg, NEW n, IsSegment(seg, n)
  PROVE  /\ seg.type \in Nat /\ seg.offset \in Nat /\ seg.vaddr \in Nat /\ seg.filesz \in Nat
         /\ seg.memsz \in Nat /\ seg.align \in Nat /\ seg.secs \in Seq(0 .. (n - 1))
         /\ seg.offSet \in BOOLEAN
         /\ {"type", "offset", "vaddr", "filesz", "memsz", "align", "secs", "offSet"}
              \subseteq DOMAIN seg
BY DEF IsSegment, Numbers, SegNumbers

LEMMA HeaderHas ==
  ASSUME NEW e, IsObject(e)
  PROVE  /\ e.hdr.ehsize \in Nat /\ e.hdr.phentsize \in Nat /\ e.hdr.phnum \in Nat
         /\ e.hdr.phoff \in Nat /\ e.hdr.shoff \in Nat /\ e.hdr.shentsize \in Nat
         /\ {"phnum", "phoff", "shnum", "shoff", "ehsize", "phentsize", "shentsize"}
              \subseteq DOMAIN e.hdr
BY DEF IsObject, Numbers, HdrNumbers

(* What layout leaves of a section, of a segment and of an object.         *)
SameSection(t, s) ==
  /\ DOMAIN t = DOMAIN s
  /\ \A f \in DOMAIN s \ {"addr", "addrSet", "offset"} : t[f] = s[f]

SameSegment(t, s) ==
  /\ DOMAIN t = DOMAIN s
  /\ \A f \in DOMAIN s \ {"offset", "offSet", "filesz", "memsz"} : t[f] = s[f]

Laid(e, b) ==
  /\ IsObject(e) /\ e.hdr = b.hdr
  /\ Len(e.secs) = Len(b.secs) /\ Len(e.segs) = Len(b.segs)
  /\ \A i \in 1 .. Len(b.secs) : SameSection(e.secs[i], b.secs[i])
  /\ \A g \in 1 .. Len(b.segs) : SameSegment(e.segs[g], b.segs[g])

(* A section is replaced by one that differs in its place only.            *)
LEMMA SectionPut ==
  ASSUME NEW b, NEW e, Laid(e, b), NEW i \in 0 .. (Len(b.secs) - 1),
         NEW s, IsSection(s, i), SameSection(s, Sec(b, i))
  PROVE  LET t == Replace(e, i, s)
         IN  /\ Laid(t, b) /\ t.segs = e.segs /\ Sec(t, i) = s
             /\ \A j \in 0 .. (Len(b.secs) - 1) : j # i => Sec(t, j) = Sec(e, j)
<1>. DEFINE q == e.secs
            r == [q EXCEPT ![i + 1] = s]
            t == Replace(e, i, s)
<1>1. {"hdr", "secs", "segs"} \subseteq DOMAIN e /\ IsSeq(q) /\ Len(q) = Len(b.secs) /\ Len(q) \in Nat
  BY SeqIs DEF Laid, IsObject
<1>2. i + 1 \in 1 .. Len(q)
  BY <1>1
<1>3. /\ IsSeq(r) /\ Len(r) = Len(q) /\ r[i + 1] = s
      /\ \A j \in 1 .. Len(q) : j # i + 1 => r[j] = q[j]
  <2>. HIDE DEF q
  <2>. QED
    BY <1>1, <1>2, SeqPut
<1>4. DOMAIN t = DOMAIN e /\ t.hdr = e.hdr /\ t.segs = e.segs /\ t.secs = r
  BY <1>1 DEF Replace
<1>. HIDE DEF t, r
<1>5. (i + 1) - 1 = i
  OBVIOUS
<1>6. \A j \in 1 .. Len(q) : IsSection(r[j], j - 1) /\ SameSection(r[j], b.secs[j])
  <2>. SUFFICES ASSUME NEW j \in 1 .. Len(q)
                PROVE  IsSection(r[j], j - 1) /\ SameSection(r[j], b.secs[j])
    OBVIOUS
  <2>1. CASE j = i + 1
    BY <1>3, <1>5, <2>1 DEF Sec
  <2>2. CASE j # i + 1
    BY <1>1, <1>3, <2>2 DEF Laid, IsObject
  <2>. QED
    BY <2>1, <2>2
<1>7. Laid(t, b)
  <2>1. IsObject(t)
    BY <1>1, <1>3, <1>4, <1>6 DEF Laid, IsObject
  <2>2. \A g \in 1 .. Len(b.segs) : SameSegment(t.segs[g], b.segs[g])
    BY <1>4 DEF Laid
  <2>3. t.hdr = b.hdr /\ Len(t.secs) = Len(b.secs) /\ Len(t.segs) = Len(b.segs)
    BY <1>1, <1>3, <1>4 DEF Laid
  <2>4. \A j \in 1 .. Len(b.secs) : SameSection(t.secs[j], b.secs[j])
    BY <1>1, <1>4, <1>6
  <2>. QED
    BY <2>1, <2>2, <2>3, <2>4 DEF Laid
<1>8. \A j \in 0 .. (Len(b.secs) - 1) : j # i => Sec(t, j) = Sec(e, j)
  <2>1. \A j \in 0 .. (Len(b.secs) - 1) : j + 1 \in 1 .. Len(q) /\ (j # i => j + 1 # i + 1)
    BY <1>1
  <2>. QED
    BY <1>3, <1>4, <2>1 DEF Sec
<1>. QED
  BY <1>3, <1>4, <1>7, <1>8 DEF Sec, t

(* A segment is replaced by one that differs in its place and sizes.       *)
LEMMA SegmentPut ==
  ASSUME NEW b, NEW e, Laid(e, b), NEW g \in 1 .. Len(b.segs), NEW s,
         IsSegment(s, Len(b.secs)), SameSegment(s, b.segs[g]), NEW t,
         t = ReplaceSegment(e, g, s)
  PROVE  /\ Laid(t, b) /\ t.secs = e.secs /\ t.segs[g] = s
         /\ \A h \in 1 .. Len(b.segs) : h # g => t.segs[h] = e.segs[h]
<1>. DEFINE q == e.segs
            r == [q EXCEPT ![g] = s]
<1>1. {"hdr", "secs", "segs"} \subseteq DOMAIN e /\ IsSeq(q) /\ Len(q) = Len(b.segs) /\ g \in 1 .. Len(q)
  BY SeqIs DEF Laid, IsObject
<1>2. /\ IsSeq(r) /\ Len(r) = Len(q) /\ r[g] = s
      /\ \A j \in 1 .. Len(q) : j # g => r[j] = q[j]
  <2>. HIDE DEF q
  <2>. QED
    BY ONLY <1>1, SeqPut
<1>3. DOMAIN t = DOMAIN e /\ t.hdr = e.hdr /\ t.secs = e.secs /\ t.segs = r
  BY <1>1 DEF ReplaceSegment
<1>. HIDE DEF r
<1>4. \A j \in 1 .. Len(q) : IsSegment(r[j], Len(b.secs)) /\ SameSegment(r[j], b.segs[j])
  BY <1>1, <1>2 DEF Laid, IsObject
<1>6. \A j \in 1 .. Len(q) : r[j].index = j - 1
  <2>1. \A j \in 1 .. Len(q) :
          q[j].index = j - 1 /\ "index" \in DOMAIN q[j] /\ SameSegment(q[j], b.segs[j])
    BY <1>1 DEF Laid, IsObject, IsSegment
  <2>2. \A j \in 1 .. Len(q) : r[j].index = b.segs[j].index /\ q[j].index = b.segs[j].index
    BY <1>4, <2>1 DEF SameSegment
  <2>. QED
    BY <2>1, <2>2
<1>5. Laid(t, b)
  <2>1. IsObject(t)
    BY <1>1, <1>2, <1>3, <1>4, <1>6 DEF Laid, IsObject
  <2>. QED
    BY <2>1, <1>1, <1>2, <1>3, <1>4 DEF Laid
<1>. QED
  BY <1>1, <1>2, <1>3, <1>5

-------------------------------------------------------------------------------
(***************************************************************************)
(* One round of write_segment_data.  Layout so far, of an object that was  *)
(* b at first.                                                             *)
(***************************************************************************)
Acc(acc, b) ==
  /\ DOMAIN acc = {"elf", "pos", "gen", "mem", "file", "ok"}
  /\ Laid(acc.elf, b)
  /\ acc.pos \in Nat /\ acc.mem \in Nat /\ acc.file \in Nat /\ acc.ok \in BOOLEAN

LEMMA FieldType ==
  ASSUME NEW v \in Int
  PROVE  X(v) \in Nat
BY FieldWraps

(* A section of the object.                                                *)
LEMMA SectionLaid ==
  ASSUME NEW b, NEW e, Laid(e, b), NEW i \in 0 .. (Len(b.secs) - 1)
  PROVE  LET s == Sec(e, i)
         IN  /\ IsSection(s, i) /\ SameSection(s, Sec(b, i))
             /\ s.type \in Nat /\ s.addr \in Nat /\ s.offset \in Nat /\ s.size \in Nat
             /\ s.align \in Nat /\ s.index = i /\ s.addrSet \in BOOLEAN
<1>1. IsSeq(e.secs) /\ Len(e.secs) = Len(b.secs)
  BY DEF Laid, IsObject
<1>2. Len(e.secs) \in Nat
  BY <1>1, SeqIs
<1>3. i + 1 \in 1 .. Len(b.secs) /\ (i + 1) - 1 = i
  BY <1>1, <1>2
<1>4. IsSection(Sec(e, i), i) /\ SameSection(Sec(e, i), Sec(b, i))
  BY <1>1, <1>3 DEF Laid, IsObject, Sec
<1>. QED
  BY <1>4, SectionHas

(* The gap is a number.                                                    *)
LEMMA AlignType ==
  ASSUME NEW b, NEW acc, Acc(acc, b), NEW i \in 0 .. (Len(b.secs) - 1),
         NEW seg, seg.vaddr \in Nat, NEW start \in Nat
  PROVE  SectionAlign(acc, seg, start, i) \in Nat
<1>. DEFINE sec == Sec(acc.elf, i)
            align == IF sec.align = 0 THEN 1 ELSE sec.align
            far == sec.offset - start - acc.file
            here == acc.pos - start
            ahead == sec.addr - seg.vaddr - X(here)
<1>1. sec.align \in Nat /\ sec.offset \in Nat /\ sec.addr \in Nat
  BY SectionLaid DEF Acc
<1>2. acc.pos \in Nat /\ acc.file \in Nat
  BY DEF Acc
<1>3. align \in Positive /\ far \in Int /\ here \in Int
  <2>. HIDE DEF sec
  <2>. QED
    BY <1>1, <1>2, SMTT(30) DEF Positive
<1>4. X(here) \in Nat
  <2>. HIDE DEF here
  <2>. QED
    BY <1>3, FieldType
<1>5. ahead \in Int
  <2>. HIDE DEF sec, here
  <2>. QED
    BY <1>1, <1>4
<1>6. X(far) \in Nat /\ X(ahead) \in Nat /\ Pad(acc.pos, align) \in Nat
  <2>. HIDE DEF far, ahead, align
  <2>. QED
    BY <1>2, <1>3, <1>5, FieldType, PadType
<1>7. SectionAlign(acc, seg, start, i) =
        IF i \in acc.gen THEN X(far)
        ELSE IF ~sec.addrSet THEN Pad(acc.pos, align)
        ELSE IF sec.type = SHT_NOBITS \/ sec.size = 0 THEN 0
        ELSE X(ahead)
  BY DEF SectionAlign
<1>. HIDE DEF far, ahead, align, sec
<1>. QED
  BY <1>6, <1>7

(* What a section adds to the sizes.                                       *)
LEMMA SizedKeeps ==
  ASSUME NEW b, NEW acc, Acc(acc, b), NEW seg, NEW sec, sec.size \in Nat, NEW gap \in Nat
  PROVE  LET r == Sized(acc, seg, sec, gap)
         IN  /\ Acc(r, b) /\ r.elf = acc.elf /\ r.pos = acc.pos /\ r.gen = acc.gen /\ r.ok = acc.ok
<1>. DEFINE r == Sized(acc, seg, sec, gap)
            m == acc.mem + sec.size + gap
            f == acc.file + sec.size + gap
<1>1. m \in Int /\ f \in Int
  BY DEF Acc
<1>2. X(m) \in Nat /\ X(f) \in Nat
  <2>. HIDE DEF m, f
  <2>. QED
    BY <1>1, FieldType
<1>. DEFINE c == HasFlag(sec.flags, SHF_ALLOC)
                 /\ ~(sec.type = SHT_NOBITS /\ HasFlag(sec.flags, SHF_TLS) /\ seg.type # PT_TLS)
            d == sec.type # SHT_NOBITS
            xm == X(m)
            xf == X(f)
<1>3. r = [acc EXCEPT !.mem = IF c THEN xm ELSE @, !.file = IF d THEN xf ELSE @]
  BY DEF Sized
<1>. HIDE DEF r, xm, xf, c, d
<1>4. xm \in Nat /\ xf \in Nat
  BY <1>2 DEF xm, xf
<1>5. DOMAIN acc = {"elf", "pos", "gen", "mem", "file", "ok"}
  BY DEF Acc
<1>6. /\ r.elf = acc.elf /\ r.pos = acc.pos /\ r.gen = acc.gen /\ r.ok = acc.ok
      /\ DOMAIN r = DOMAIN acc /\ r.mem = (IF c THEN xm ELSE acc.mem)
      /\ r.file = (IF d THEN xf ELSE acc.file)
  BY <1>3, <1>5
<1>7. Acc(r, b)
  BY <1>4, <1>6 DEF Acc
<1>. QED
  BY <1>6, <1>7 DEF r

LEMMA SameTwice ==
  ASSUME NEW r, NEW s, NEW t, SameSection(r, s), SameSection(s, t)
  PROVE  SameSection(r, t)
BY DEF SameSection

(* The section at its place.                                               *)
Moved(p, s, i, vaddr, start, at) ==
  /\ p.addrSet = TRUE
  /\ s.addrSet => p.addr = s.addr
  /\ ~s.addrSet => p.addr = X(vaddr + at - start)
  /\ i # 0 => p.offset = at

LEMMA PlacedKeeps ==
  ASSUME NEW s, NEW i, IsSection(s, i), NEW seg, seg.vaddr \in Nat, NEW start \in Nat,
         NEW at \in Nat, NEW p, p = Placed(s, seg, start, at)
  PROVE  IsSection(p, i) /\ SameSection(p, s) /\ Moved(p, s, i, seg.vaddr, start, at)
<1>. DEFINE far == seg.vaddr + at - start
            a == X(far)
            D == DOMAIN s
<1>1. a \in Nat
  <2>1. far \in Int
    OBVIOUS
  <2>. HIDE DEF far
  <2>. QED
    BY <2>1, FieldType
<1>2. /\ {"addr", "addrSet", "offset"} \subseteq D /\ s.addr \in Nat /\ s.offset \in Nat
      /\ s.index = i /\ s.addrSet \in BOOLEAN
  BY SectionHas
<1>3. p = [s EXCEPT !.addr = IF s.addrSet THEN s.addr ELSE a, !.addrSet = TRUE,
                    !.offset = IF s.index # 0 THEN at ELSE s.offset]
  BY DEF Placed
<1>. HIDE DEF a, D
<1>4. /\ DOMAIN p = DOMAIN s /\ p.addrSet = TRUE
      /\ p.addr = (IF s.addrSet THEN s.addr ELSE a)
      /\ p.offset = (IF s.index # 0 THEN at ELSE s.offset)
      /\ \A f \in DOMAIN s \ {"addr", "addrSet", "offset"} : p[f] = s[f]
  BY <1>2, <1>3 DEF D
<1>5. SameSection(p, s)
  BY <1>4 DEF SameSection
<1>6. p.addr \in Nat /\ p.offset \in Nat
  BY <1>1, <1>2, <1>4
<1>7. IsSection(p, i)
  <2>1. Numbers(p, SecNumbers)
    <3>1. SecNumbers \subseteq DOMAIN p /\ \A f \in SecNumbers : s[f] \in Nat
      BY <1>4 DEF IsSection, Numbers
    <3>2. \A f \in SecNumbers : f \in DOMAIN s \ {"addr", "addrSet", "offset"} \/ f = "addr" \/ f = "offset"
      BY <1>4, <3>1 DEF SecNumbers
    <3>3. ASSUME NEW f \in SecNumbers PROVE p[f] \in Nat
      <4>1. CASE f \in DOMAIN s \ {"addr", "addrSet", "offset"}
        BY <1>4, <3>1, <4>1
      <4>2. CASE f = "addr" \/ f = "offset"
        BY <1>6, <4>2
      <4>. QED
        BY <3>2, <4>1, <4>2
    <3>. QED
      BY <3>1, <3>3 DEF Numbers
  <2>. QED
    BY <1>4, <2>1 DEF IsSection
<1>8. Moved(p, s, i, seg.vaddr, start, at)
  BY <1>2, <1>4 DEF a, Moved
<1>. QED
  BY <1>5, <1>7, <1>8

(* The section lies somewhere already, or needs no place.                  *)
Passed(r, acc, i) ==
  /\ i \in acc.gen \/ Sec(acc.elf, i).type = SHT_NULL
  /\ r.elf = acc.elf /\ r.pos = acc.pos /\ r.gen = acc.gen \cup {i}

(* The section is put behind the gap.                                      *)
At(acc, seg, start, i) == X(acc.pos + SectionAlign(acc, seg, start, i))

Put(r, acc, n, seg, start, i) ==
  LET sec == Sec(acc.elf, i)
      at  == At(acc, seg, start, i)
  IN  /\ i \notin acc.gen /\ sec.type # SHT_NULL /\ ~SeeksBackwards(acc, seg, start, i)
      /\ r.gen = acc.gen \cup {i}
      /\ r.pos = (IF sec.type # SHT_NOBITS THEN X(at + sec.size) ELSE at)
      /\ Sec(r.elf, i) = Placed(sec, seg, start, at)
      /\ \A j \in 0 .. (n - 1) : j # i => Sec(r.elf, j) = Sec(acc.elf, j)

LEMMA PlaceCases ==
  ASSUME NEW b, NEW acc, Acc(acc, b), NEW i \in 0 .. (Len(b.secs) - 1),
         NEW seg, seg.vaddr \in Nat, NEW start \in Nat
  PROVE  LET r == PlaceSection(acc, seg, start, i)
         IN  /\ Acc(r, b) /\ r.elf.segs = acc.elf.segs
             /\ r.ok => acc.ok /\ (Passed(r, acc, i) \/ Put(r, acc, Len(b.secs), seg, start, i))
<1>. DEFINE r == PlaceSection(acc, seg, start, i)
            sec == Sec(acc.elf, i)
            gap == SectionAlign(acc, seg, start, i)
            at == X(acc.pos + gap)
            sized == Sized(acc, seg, sec, gap)
            p == Placed(sec, seg, start, at)
            end == X(at + sec.size)
            back == SeeksBackwards(acc, seg, start, i)
<1>1. /\ IsSection(sec, i) /\ SameSection(sec, Sec(b, i)) /\ sec.size \in Nat
  BY SectionLaid DEF Acc
<1>2. gap \in Nat
  BY AlignType
<1>3. at \in Nat /\ end \in Nat
  <2>1. acc.pos + gap \in Int
    <3>. HIDE DEF gap
    <3>. QED
      BY <1>2 DEF Acc
  <2>2. at \in Nat
    BY <2>1, FieldType
  <2>3. at + sec.size \in Int
    <3>. HIDE DEF at, sec
    <3>. QED
      BY <1>1, <2>2
  <2>. QED
    BY <2>2, <2>3, FieldType
<1>4. Acc(sized, b) /\ sized.elf = acc.elf /\ sized.pos = acc.pos /\ sized.gen = acc.gen /\ sized.ok = acc.ok
  <2>. HIDE DEF gap, sec
  <2>. QED
    BY <1>1, <1>2, SizedKeeps
<1>5. IsSection(p, i) /\ SameSection(p, Sec(b, i))
  <2>1. p = Placed(sec, seg, start, at)
    OBVIOUS
  <2>. HIDE DEF at, sec, p
  <2>. QED
    BY <1>1, <1>3, <2>1, PlacedKeeps, SameTwice
<1>6. r = IF ~acc.ok THEN acc
          ELSE IF sec.type = SHT_NULL THEN [acc EXCEPT !.gen = @ \cup {i}]
          ELSE IF back THEN [acc EXCEPT !.ok = FALSE]
          ELSE IF i \in acc.gen THEN sized
          ELSE [sized EXCEPT
                 !.pos = IF sec.type # SHT_NOBITS THEN end ELSE at,
                 !.gen = @ \cup {i}, !.elf = Replace(@, i, p)]
  BY DEF PlaceSection
<1>. HIDE DEF r, sized, p, end, back, at, gap, sec
<1>a. DOMAIN acc = {"elf", "pos", "gen", "mem", "file", "ok"} /\ Laid(acc.elf, b)
  BY DEF Acc
<1>7. CASE ~acc.ok
  <2>1. r = acc
    BY <1>6, <1>7
  <2>. QED
    BY <1>7, <2>1 DEF r
<1>8. CASE acc.ok /\ sec.type = SHT_NULL
  <2>1. r = [acc EXCEPT !.gen = @ \cup {i}]
    BY <1>6, <1>8
  <2>2. /\ DOMAIN r = DOMAIN acc /\ r.elf = acc.elf /\ r.pos = acc.pos /\ r.gen = acc.gen \cup {i}
        /\ r.mem = acc.mem /\ r.file = acc.file /\ r.ok = acc.ok
    BY <1>a, <2>1
  <2>3. Acc(r, b) /\ r.elf.segs = acc.elf.segs
    BY <2>2 DEF Acc
  <2>4. Passed(r, acc, i)
    BY <1>8, <2>2 DEF Passed, sec
  <2>. QED
    BY <1>8, <2>3, <2>4 DEF r
<1>9. CASE acc.ok /\ sec.type # SHT_NULL /\ back
  <2>1. r = [acc EXCEPT !.ok = FALSE]
    BY <1>6, <1>9
  <2>2. /\ DOMAIN r = DOMAIN acc /\ r.elf = acc.elf /\ r.pos = acc.pos
        /\ r.mem = acc.mem /\ r.file = acc.file /\ r.ok = FALSE
    BY <1>a, <2>1
  <2>. QED
    BY <2>2 DEF Acc, r
<1>10. CASE acc.ok /\ sec.type # SHT_NULL /\ ~back /\ i \in acc.gen
  <2>1. r = sized
    BY <1>6, <1>10
  <2>2. acc.gen = acc.gen \cup {i}
    BY <1>10
  <2>. QED
    BY <1>4, <1>10, <2>1, <2>2 DEF Passed, r
<1>11. CASE acc.ok /\ sec.type # SHT_NULL /\ ~back /\ i \notin acc.gen
  <2>1. r = [sized EXCEPT
               !.pos = IF sec.type # SHT_NOBITS THEN end ELSE at,
               !.gen = @ \cup {i}, !.elf = Replace(@, i, p)]
    BY <1>6, <1>11
  <2>. DEFINE e == Replace(acc.elf, i, p)
  <2>2. DOMAIN sized = {"elf", "pos", "gen", "mem", "file", "ok"}
    BY <1>4 DEF Acc
  <2>3. /\ DOMAIN r = DOMAIN sized /\ r.elf = e /\ r.gen = acc.gen \cup {i}
        /\ r.pos = (IF sec.type # SHT_NOBITS THEN end ELSE at)
        /\ r.mem = sized.mem /\ r.file = sized.file /\ r.ok = acc.ok
    <3>. HIDE DEF e
    <3>1. e = Replace(sized.elf, i, p)
      BY <1>4 DEF e
    <3>. QED
      BY <1>4, <2>1, <2>2, <3>1
  <2>4. /\ Laid(e, b) /\ e.segs = acc.elf.segs /\ Sec(e, i) = p
        /\ \A j \in 0 .. (Len(b.secs) - 1) : j # i => Sec(e, j) = Sec(acc.elf, j)
    BY <1>a, <1>5, SectionPut
  <2>. HIDE DEF e
  <2>5. r.pos \in Nat
    BY <1>3, <2>3
  <2>6. Acc(r, b)
    BY <1>4, <2>2, <2>3, <2>4, <2>5 DEF Acc
  <2>7. Put(r, acc, Len(b.secs), seg, start, i)
    BY <1>11, <2>3, <2>4 DEF Put, At, sec, at, gap, end, p, back
  <2>. QED
    BY <1>11, <2>3, <2>4, <2>6, <2>7 DEF r
<1>. QED
  BY <1>7, <1>8, <1>9, <1>10, <1>11 DEF Acc

-------------------------------------------------------------------------------
(***************************************************************************)
(* A segment and its sections.                                             *)
(***************************************************************************)
(* Its sections are placed one after the other.                            *)
LEMMA WriteUnfolds ==
  ASSUME NEW acc, NEW seg, NEW start, Len(seg.secs) \in Nat
  PROVE  \E f : /\ f[0] = acc
                /\ \A n \in 1 .. Len(seg.secs) : f[n] = PlaceSection(f[n - 1], seg, start, seg.secs[n])
                /\ WriteSegmentData(acc, seg, start) = f[Len(seg.secs)]
<1>. DEFINE seq == seg.secs
            base == acc
            Runs(f, m) == f = [i \in 0 .. m |-> IF i = 0 THEN base
                                ELSE PlaceSection(f[i - 1], seg, start, seq[i])]
            T == {m \in Nat : \E f : Runs(f, m)}
            F == CHOOSE f : Runs(f, Len(seq))
<1>1. 0 \in T
  <2>1. Runs([i \in 0 .. 0 |-> base], 0)
    OBVIOUS
  <2>. QED
    BY <2>1
<1>2. ASSUME NEW m \in Nat, m \in T PROVE m + 1 \in T
  <2>1. PICK f : Runs(f, m)
    BY <1>2
  <2>. DEFINE g == [i \in 0 .. (m + 1) |->
                      IF i = m + 1 THEN PlaceSection(f[m], seg, start, seq[m + 1]) ELSE f[i]]
  <2>2. Runs(g, m + 1)
    <3>. SUFFICES ASSUME NEW i \in 0 .. (m + 1)
                  PROVE  g[i] = IF i = 0 THEN base
                                ELSE PlaceSection(g[i - 1], seg, start, seq[i])
      BY Zenon
    <3>. HIDE DEF seq, base
    <3>. QED
      BY <2>1
  <2>. HIDE DEF Runs, g
  <2>. QED
    BY <2>2
<1>3. Nat \subseteq T
  <2>. HIDE DEF T
  <2>. QED
    BY <1>1, <1>2, SetInduction
<1>4. WriteSegmentData(acc, seg, start) = F[Len(seq)]
  BY DEF WriteSegmentData, Loop
<1>5. Len(seq) = Len(seg.secs)
  OBVIOUS
<1>6. Runs(F, Len(seg.secs))
  <2>1. \E f : Runs(f, Len(seg.secs))
    BY <1>3
  <2>. HIDE DEF Runs, seq, base
  <2>. QED
    BY <1>5, <2>1
<1>7. /\ F[0] = base
      /\ \A n \in 1 .. Len(seg.secs) : F[n] = PlaceSection(F[n - 1], seg, start, seq[n])
  <2>. HIDE DEF F, seq, base
  <2>. QED
    BY <1>5, <1>6
<1>. QED
  BY <1>4, <1>5, <1>7

(* The section lies as far behind the start of the segment in the file as  *)
(* in memory.                                                              *)
Linked(s, vaddr, start) ==
  s.type \notin {SHT_NULL, SHT_NOBITS} /\ s.size > 0 => X(s.offset - start) = X(s.addr - vaddr)

LEMMA PutLinks ==
  ASSUME NEW b, NEW acc, Acc(acc, b), NEW i \in 1 .. (Len(b.secs) - 1),
         NEW seg, seg.vaddr \in Nat, NEW start \in Nat, NEW r,
         Put(r, acc, Len(b.secs), seg, start, i)
  PROVE  Linked(Sec(r.elf, i), seg.vaddr, start)
<1>. DEFINE s == Sec(acc.elf, i)
            pos == acc.pos
            vaddr == seg.vaddr
            gap == SectionAlign(acc, seg, start, i)
            at == X(pos + gap)
            p == Placed(s, seg, start, at)
<1>1. i \in 0 .. (Len(b.secs) - 1) /\ i # 0
  OBVIOUS
<1>2. /\ IsSection(s, i) /\ s.addr \in Nat /\ s.size \in Nat /\ s.addrSet \in BOOLEAN
      /\ {"type", "size"} \subseteq DOMAIN s
  BY <1>1, SectionLaid, SectionHas DEF Acc
<1>3. gap \in Nat /\ pos \in Nat
  BY <1>1, AlignType DEF Acc
<1>4. at \in Nat /\ \E q \in Int : pos + gap = q * Span + at
  <2>. HIDE DEF gap, pos
  <2>1. pos + gap \in Int
    BY <1>3
  <2>. QED
    BY <2>1, FieldWraps
<1>5. /\ SameSection(p, s) /\ p.offset = at
      /\ s.addrSet => p.addr = s.addr
      /\ ~s.addrSet => p.addr = X(vaddr + at - start)
  <2>1. IsSection(s, i) /\ seg.vaddr \in Nat /\ start \in Nat /\ at \in Nat
    BY <1>2, <1>4
  <2>2. p = Placed(s, seg, start, at)
    OBVIOUS
  <2>. HIDE DEF s, at, p
  <2>3. SameSection(p, s) /\ Moved(p, s, i, seg.vaddr, start, at)
    BY ONLY <2>1, <2>2, PlacedKeeps
  <2>. QED
    BY ONLY <1>1, <2>3 DEF Moved
<1>6. p.type = s.type /\ p.size = s.size
  BY <1>2, <1>5 DEF SameSection
<1>7. Sec(r.elf, i) = p /\ i \notin acc.gen
  BY DEF Put, At
<1>8. SUFFICES ASSUME s.type # SHT_NOBITS, s.size > 0
               PROVE  X(at - start) = X(p.addr - vaddr)
  BY <1>5, <1>6, <1>7 DEF Linked
<1>. DEFINE here == pos - start
            h == X(here)
            ahead == s.addr - vaddr - h
<1>9. h \in Nat /\ \E q \in Int : here = q * Span + h
  <2>1. here \in Int
    BY <1>3
  <2>. HIDE DEF here
  <2>. QED
    BY <2>1, FieldWraps
<1>10. X(ahead) \in Nat /\ \E q \in Int : ahead = q * Span + X(ahead)
  <2>1. ahead \in Int
    <3>. HIDE DEF h, s
    <3>. QED
      BY <1>2, <1>9
  <2>. HIDE DEF ahead
  <2>. QED
    BY <2>1, FieldWraps
<1>11. CASE s.addrSet
  <2>1. gap = X(ahead)
    BY <1>2, <1>7, <1>8, <1>11 DEF SectionAlign
  <2>2. PICK q1 \in Int, q2 \in Int, q3 \in Int :
          pos + gap = q1 * Span + at /\ here = q2 * Span + h /\ ahead = q3 * Span + gap
    BY <1>4, <1>9, <1>10, <2>1
  <2>. DEFINE q == q2 - q1 - q3
  <2>3. q \in Int /\ at - start = q * Span + (s.addr - vaddr)
    <3>. DEFINE a1 == q1 * Span
                a2 == q2 * Span
                a3 == q3 * Span
                sa == s.addr
    <3>1. a1 \in Int /\ a2 \in Int /\ a3 \in Int /\ q * Span = a2 - a1 - a3 /\ sa \in Nat
      BY <1>2, SpanType DEF Positive
    <3>2. pos + gap = a1 + at /\ pos - start = a2 + h /\ sa - vaddr - h = a3 + gap
      BY <2>2
    <3>. HIDE DEF a1, a2, a3, q, gap, at, pos, h, sa, vaddr
    <3>3. vaddr \in Nat
      BY DEF vaddr
    <3>4. at - start = a2 - a1 - a3 + (sa - vaddr)
      BY <1>3, <1>4, <1>9, <3>1, <3>2, <3>3
    <3>. QED
      BY <3>1, <3>4 DEF q, sa
  <2>4. at - start \in Int /\ s.addr - vaddr \in Int
    <3>. HIDE DEF at, s
    <3>. QED
      BY <1>2, <1>4
  <2>5. X(at - start) = X(s.addr - vaddr)
    <3>. DEFINE v == at - start
                u == s.addr - vaddr
    <3>. HIDE DEF v, u, q
    <3>1. v \in Int /\ u \in Int /\ q \in Int /\ v = q * Span + u
      BY <2>3, <2>4 DEF v, u
    <3>2. X(v) = X(u)
      BY <3>1, SameField
    <3>. QED
      BY <3>2 DEF v, u
  <2>. QED
    BY <1>5, <1>11, <2>5
<1>12. CASE ~s.addrSet
  <2>. DEFINE far == vaddr + at - start
              a == X(far)
  <2>1. far \in Int
    <3>. HIDE DEF at
    <3>. QED
      BY <1>4
  <2>2. a \in Nat /\ \E q \in Int : far = q * Span + a
    <3>. HIDE DEF far
    <3>. QED
      BY <2>1, FieldWraps
  <2>3. PICK q \in Int : far = q * Span + a
    BY <2>2
  <2>. DEFINE v == at - start
              u == a - vaddr
  <2>4. v \in Int /\ u \in Int /\ v = q * Span + u
    <3>. DEFINE k == q * Span
    <3>1. k \in Int /\ far = k + a
      BY <2>3, SpanType DEF Positive
    <3>2. a \in Int /\ vaddr + at - start = k + a /\ vaddr \in Int /\ at \in Int /\ start \in Int
      BY <1>4, <2>2, <3>1
    <3>. HIDE DEF k, at, a, vaddr
    <3>3. v \in Int /\ u \in Int /\ v = k + u
      BY ONLY <3>1, <3>2
    <3>. QED
      BY <3>3 DEF k
  <2>. HIDE DEF v, u
  <2>5. X(v) = X(u)
    BY <2>4, SameField
  <2>6. p.addr = a
    BY <1>5, <1>12
  <2>. QED
    BY <2>5, <2>6 DEF v, u
<1>. QED
  BY <1>2, <1>11, <1>12

(* What has become of the sections in M when they are placed from start.   *)
Placing(r, acc, n, vaddr, start, M) ==
  /\ r.gen = acc.gen \cup M
  /\ \A j \in 0 .. (n - 1) : j \in acc.gen \/ j \notin M => Sec(r.elf, j) = Sec(acc.elf, j)
  /\ \A j \in M \ acc.gen : j # 0 => Linked(Sec(r.elf, j), vaddr, start)

LEMMA PlacingStep ==
  ASSUME NEW b, NEW acc, NEW M \in SUBSET (0 .. (Len(b.secs) - 1)), NEW seg, seg.vaddr \in Nat,
         NEW start \in Nat, NEW i \in 0 .. (Len(b.secs) - 1),
         NEW q, Acc(q, b), Placing(q, acc, Len(b.secs), seg.vaddr, start, M),
         PlaceSection(q, seg, start, i).ok
  PROVE  Placing(PlaceSection(q, seg, start, i), acc, Len(b.secs), seg.vaddr, start, M \cup {i})
<1>. DEFINE r == PlaceSection(q, seg, start, i)
            n == Len(b.secs)
            vaddr == seg.vaddr
<1>1. Passed(r, q, i) \/ Put(r, q, n, seg, start, i)
  BY PlaceCases
<1>2. \A s : s.type = SHT_NULL => Linked(s, vaddr, start)
  BY DEF Linked
<1>. HIDE DEF r, n, vaddr
<1>3. CASE Passed(r, q, i)
  <2>1. r.gen = acc.gen \cup (M \cup {i}) /\ r.elf = q.elf
    BY <1>3 DEF Passed, Placing
  <2>2. i \in acc.gen \cup M \/ Sec(q.elf, i).type = SHT_NULL
    BY <1>3 DEF Passed, Placing
  <2>3. \A j \in M \ acc.gen : j # 0 => Linked(Sec(q.elf, j), vaddr, start)
    BY DEF Placing, vaddr
  <2>4. \A j \in 0 .. (n - 1) : j \in acc.gen \/ j \notin M => Sec(q.elf, j) = Sec(acc.elf, j)
    BY DEF Placing, n
  <2>5. \A j \in (M \cup {i}) \ acc.gen : j # 0 => Linked(Sec(q.elf, j), vaddr, start)
    <3>1. \A j \in (M \cup {i}) \ acc.gen : j \in M \ acc.gen \/ (j = i /\ i \notin acc.gen \cup M)
      OBVIOUS
    <3>. QED
      BY <1>2, <2>2, <2>3, <3>1
  <2>6. \A j \in 0 .. (n - 1) : j \in acc.gen \/ j \notin M \cup {i} => Sec(q.elf, j) = Sec(acc.elf, j)
    BY <2>4
  <2>. QED
    BY <2>1, <2>5, <2>6 DEF Placing, r, n, vaddr
<1>4. CASE Put(r, q, n, seg, start, i)
  <2>1. /\ r.gen = acc.gen \cup (M \cup {i}) /\ i \notin acc.gen \cup M
        /\ \A j \in 0 .. (n - 1) : j # i => Sec(r.elf, j) = Sec(q.elf, j)
    <3>1. i \notin q.gen /\ r.gen = q.gen \cup {i} /\ \A j \in 0 .. (n - 1) : j # i => Sec(r.elf, j) = Sec(q.elf, j)
      BY <1>4 DEF Put
    <3>2. q.gen = acc.gen \cup M
      BY DEF Placing
    <3>. QED
      BY <3>1, <3>2
  <2>2. i # 0 => Linked(Sec(r.elf, i), vaddr, start)
    <3>1. i # 0 => i \in 1 .. (n - 1)
      BY DEF n
    <3>. QED
      BY <1>4, <3>1, PutLinks DEF n, vaddr
  <2>3. \A j \in M \ acc.gen : j # 0 => Linked(Sec(q.elf, j), vaddr, start)
    BY DEF Placing, vaddr
  <2>4. \A j \in 0 .. (n - 1) : j \in acc.gen \/ j \notin M => Sec(q.elf, j) = Sec(acc.elf, j)
    BY DEF Placing, n
  <2>5. \A j \in (M \cup {i}) \ acc.gen : j # 0 => Linked(Sec(r.elf, j), vaddr, start)
    <3>1. \A j \in (M \cup {i}) \ acc.gen : (j \in M \ acc.gen /\ j # i) \/ j = i
      OBVIOUS
    <3>2. \A j \in M : j \in 0 .. (n - 1)
      BY DEF n
    <3>. QED
      BY <2>1, <2>2, <2>3, <3>1, <3>2
  <2>6. \A j \in 0 .. (n - 1) : j \in acc.gen \/ j \notin M \cup {i} => Sec(r.elf, j) = Sec(acc.elf, j)
    BY <2>1, <2>4
  <2>. QED
    BY <2>1, <2>5, <2>6 DEF Placing, r, n, vaddr
<1>. QED
  BY <1>1, <1>3, <1>4

(* All sections of the segment.                                            *)
LEMMA WriteKeeps ==
  ASSUME NEW b, NEW acc, Acc(acc, b), NEW seg, seg.vaddr \in Nat, NEW start \in Nat,
         seg.secs \in Seq(0 .. (Len(b.secs) - 1))
  PROVE  LET w == WriteSegmentData(acc, seg, start)
         IN  /\ Acc(w, b) /\ w.elf.segs = acc.elf.segs
             /\ w.ok => acc.ok /\ Placing(w, acc, Len(b.secs), seg.vaddr, start, ToSet(seg.secs))
<1>. DEFINE q == seg.secs
            m == Len(q)
            n == Len(b.secs)
            M(k) == {q[j] : j \in 1 .. k}
            Fine(r, k) == /\ Acc(r, b) /\ r.elf.segs = acc.elf.segs
                          /\ r.ok => acc.ok /\ Placing(r, acc, n, seg.vaddr, start, M(k))
<1>1. m \in Nat /\ q \in [1 .. m -> 0 .. (n - 1)]
  BY LenProperties
<1>2. PICK f : /\ f[0] = acc
               /\ \A k \in 1 .. m : f[k] = PlaceSection(f[k - 1], seg, start, q[k])
               /\ WriteSegmentData(acc, seg, start) = f[m]
  BY <1>1, WriteUnfolds
<1>3. ToSet(q) = M(m) /\ M(0) = {} /\ \A k \in 1 .. m : M(k) = M(k - 1) \cup {q[k]}
  <2>1. ToSet(q) = M(m) /\ M(0) = {}
    BY <1>1, LenProperties DEF ToSet
  <2>2. ASSUME NEW k \in 1 .. m PROVE M(k) = M(k - 1) \cup {q[k]}
    <3>1. \A j : j \in 1 .. k <=> j \in 1 .. (k - 1) \/ j = k
      BY <1>1
    <3>. HIDE DEF q
    <3>. QED
      BY <3>1
  <2>. QED
    BY <2>1, <2>2
<1>4. \A k \in 1 .. m : q[k] \in 0 .. (n - 1) /\ M(k - 1) \subseteq 0 .. (n - 1)
  <2>. SUFFICES ASSUME NEW k \in 1 .. m
                PROVE  q[k] \in 0 .. (n - 1) /\ M(k - 1) \subseteq 0 .. (n - 1)
    OBVIOUS
  <2>1. \A j \in 1 .. m : q[j] \in 0 .. (n - 1)
    <3>. HIDE DEF q, m, n
    <3>. QED
      BY <1>1
  <2>2. \A j \in 1 .. (k - 1) : j \in 1 .. m
    <3>. HIDE DEF m
    <3>. QED
      BY <1>1
  <2>. HIDE DEF q, m, n
  <2>. QED
    BY <2>1, <2>2
<1>. DEFINE T == {k \in Nat : k <= m => Fine(f[k], k)}
<1>. HIDE DEF q, m, n, M
<1>5. 0 \in T
  <2>1. Placing(acc, acc, n, seg.vaddr, start, {})
    BY DEF Placing
  <2>. QED
    BY <1>2, <1>3, <2>1
<1>6. ASSUME NEW k \in Nat, k \in T PROVE k + 1 \in T
  <2>. SUFFICES ASSUME k + 1 <= m PROVE Fine(f[k + 1], k + 1)
    OBVIOUS
  <2>. DEFINE i == q[k + 1]
              r == f[k]
              s == PlaceSection(r, seg, start, i)
  <2>1. k + 1 \in 1 .. m /\ (k + 1) - 1 = k /\ k <= m
    BY <1>1
  <2>2. f[k + 1] = s /\ M(k + 1) = M(k) \cup {i} /\ i \in 0 .. (n - 1) /\ M(k) \subseteq 0 .. (n - 1)
    BY <1>2, <1>3, <1>4, <2>1
  <2>3. Acc(r, b) /\ r.elf.segs = acc.elf.segs
    BY <1>6, <2>1
  <2>4. r.ok => acc.ok /\ Placing(r, acc, n, seg.vaddr, start, M(k))
    BY <1>6, <2>1
  <2>5. Acc(s, b) /\ s.elf.segs = r.elf.segs /\ (s.ok => r.ok)
    <3>. HIDE DEF i, r
    <3>. QED
      BY <2>2, <2>3, PlaceCases DEF n
  <2>6. s.ok => Placing(s, acc, n, seg.vaddr, start, M(k) \cup {i})
    <3>. HIDE DEF i, r
    <3>. SUFFICES ASSUME s.ok PROVE Placing(s, acc, n, seg.vaddr, start, M(k) \cup {i})
      OBVIOUS
    <3>1. Placing(r, acc, n, seg.vaddr, start, M(k))
      BY <2>4, <2>5
    <3>. QED
      BY <2>2, <2>3, <3>1, PlacingStep DEF n
  <2>. HIDE DEF s, r, i
  <2>. QED
    BY <2>2, <2>3, <2>4, <2>5, <2>6
<1>7. Fine(f[m], m)
  <2>. HIDE DEF T, Fine
  <2>1. Nat \subseteq T
    BY <1>5, <1>6, SetInduction
  <2>. QED
    BY <1>1, <2>1 DEF T
<1>. QED
  BY <1>2, <1>3, <1>7 DEF q, n

(* Where a segment starts.                                                 *)
LEMMA StartType ==
  ASSUME NEW b, NEW acc, Acc(acc, b), NEW g \in 1 .. Len(b.segs)
  PROVE  LET s == SegmentStart(acc, acc.elf.segs[g])
         IN  s.start \in Nat /\ s.pos \in Nat /\ s.size \in Nat
<1>. DEFINE seg == acc.elf.segs[g]
            hdr == acc.elf.hdr
            align == IF seg.align > 0 THEN seg.align ELSE 1
            away == (seg.align + (seg.vaddr % align) - (acc.pos % align)) % align
            far == acc.pos + away
            fit == X(far)
            n == Len(b.secs)
            size == hdr.phentsize * hdr.phnum
            first == Sec(acc.elf, seg.secs[1]).offset
            begin == [start |-> acc.pos, pos |-> acc.pos, size |-> 0]
<1>1. /\ IsSegment(seg, n) /\ hdr.phoff \in Nat /\ hdr.phentsize \in Nat /\ hdr.phnum \in Nat
      /\ acc.pos \in Nat
  BY HeaderHas DEF Acc, Laid, IsObject
<1>2. seg.align \in Nat /\ seg.vaddr \in Nat /\ seg.secs \in Seq(0 .. (n - 1))
  <2>. HIDE DEF n, seg
  <2>. QED
    BY <1>1, SegmentHas
<1>3. fit \in Nat
  <2>1. align \in Positive
    BY <1>2 DEF Positive
  <2>. DEFINE av == seg.vaddr % align
              ap == acc.pos % align
  <2>2. av \in Int /\ ap \in Int
    <3>. HIDE DEF align, seg
    <3>. QED
      BY <1>1, <1>2, <2>1, DivSplit
  <2>. DEFINE d == seg.align + av - ap
  <2>3. d \in Int
    <3>. HIDE DEF av, ap, seg
    <3>. QED
      BY <1>2, <2>2
  <2>4. d % align \in Int
    <3>. HIDE DEF d, align
    <3>. QED
      BY <2>1, <2>3, DivSplit
  <2>5. away = d % align
    OBVIOUS
  <2>6. far \in Int
    <3>. HIDE DEF away, d, align
    <3>. QED
      BY <1>1, <2>4, <2>5
  <2>. HIDE DEF far
  <2>. QED
    BY <2>6, FieldType
<1>4. size \in Nat
  <2>. HIDE DEF hdr
  <2>. QED
    BY <1>1
<1>5. seg.secs # << >> => first \in Nat
  <2>1. seg.secs # << >> => seg.secs[1] \in 0 .. (n - 1)
    <3>. DEFINE q == seg.secs
                S == 0 .. (n - 1)
    <3>1. q \in Seq(S)
      BY <1>2
    <3>. HIDE DEF q, S
    <3>2. q # << >> => 1 \in 1 .. Len(q)
      BY <3>1, EmptySeq
    <3>3. q # << >> => q[1] \in S
      BY <3>1, <3>2, ElementOfSeq
    <3>. QED
      BY <3>3 DEF q, S
  <2>. QED
    BY <2>1, SectionLaid DEF Acc
<1>6. SegmentStart(acc, seg) =
        IF seg.type = PT_PHDR /\ seg.secs = << >>
        THEN [begin EXCEPT !.start = hdr.phoff, !.size = size]
        ELSE IF seg.offSet /\ seg.offset = 0
        THEN [begin EXCEPT !.start = 0, !.size = IF seg.secs # << >> THEN acc.pos ELSE 0]
        ELSE IF seg.secs = << >> THEN begin
        ELSE IF seg.secs[1] \notin acc.gen THEN [begin EXCEPT !.start = fit, !.pos = fit]
        ELSE [begin EXCEPT !.start = first]
  BY DEF SegmentStart
<1>. HIDE DEF seg, hdr, fit, size, first
<1>7. SegmentStart(acc, seg).start \in Nat
  BY <1>1, <1>3, <1>5, <1>6
<1>8. SegmentStart(acc, seg).pos \in Nat
  BY <1>1, <1>3, <1>6
<1>9. SegmentStart(acc, seg).size \in Nat
  BY <1>1, <1>4, <1>6
<1>. QED
  BY <1>7, <1>8, <1>9 DEF seg

(* One segment: where its own sections are, what it keeps of its size in   *)
(* memory and what it leaves alone.                                        *)
Begun(r, acc, b, g) ==
  LET seg == b.segs[g]
  IN  /\ r.elf.segs[g].memsz >= acc.elf.segs[g].memsz
      /\ \A h \in 1 .. Len(b.segs) : h # g => r.elf.segs[h] = acc.elf.segs[h]
      /\ Placing(r, acc, Len(b.secs), seg.vaddr, r.elf.segs[g].offset, ToSet(seg.secs))

LEMMA SegmentKeeps ==
  ASSUME NEW b, NEW acc, Acc(acc, b), NEW g \in 1 .. Len(b.segs)
  PROVE  LET r == LayoutSegment(acc, g)
         IN  Acc(r, b) /\ (r.ok => acc.ok /\ Begun(r, acc, b, g))
<1>. DEFINE seg == acc.elf.segs[g]
            s == SegmentStart(acc, seg)
            a == [acc EXCEPT !.pos = s.pos, !.mem = s.size, !.file = s.size]
            w == WriteSegmentData(a, seg, s.start)
            n == Len(b.secs)
            put == [SetOffset(seg, s.start) EXCEPT
                      !.filesz = w.file, !.memsz = IF @ < w.mem THEN w.mem ELSE @]
            e == ReplaceSegment(w.elf, g, put)
            r == LayoutSegment(acc, g)
<1>1. IsSegment(seg, n) /\ SameSegment(seg, b.segs[g])
  BY DEF Acc, Laid, IsObject
<1>2. /\ seg.vaddr \in Nat /\ seg.secs \in Seq(0 .. (n - 1)) /\ seg.memsz \in Nat
      /\ {"type", "offset", "vaddr", "filesz", "memsz", "align", "secs", "offSet"} \subseteq DOMAIN seg
  <2>. HIDE DEF seg, n
  <2>. QED
    BY <1>1, SegmentHas
<1>3. seg.vaddr = b.segs[g].vaddr /\ seg.secs = b.segs[g].secs
  <2>. HIDE DEF seg
  <2>. QED
    BY <1>1, <1>2 DEF SameSegment
<1>4. s.start \in Nat /\ s.pos \in Nat /\ s.size \in Nat
  BY StartType
<1>5. Acc(a, b) /\ a.elf = acc.elf /\ a.gen = acc.gen /\ a.ok = acc.ok
  <2>. HIDE DEF s
  <2>. QED
    BY <1>4 DEF Acc
<1>6. r = IF ~acc.ok THEN acc ELSE IF ~w.ok THEN w ELSE [w EXCEPT !.elf = e]
  BY DEF LayoutSegment
<1>7. /\ Acc(w, b) /\ w.elf.segs = acc.elf.segs
      /\ w.ok => acc.ok /\ Placing(w, a, n, seg.vaddr, s.start, ToSet(seg.secs))
  <2>. HIDE DEF a, seg, s, n
  <2>1. /\ Acc(w, b) /\ w.elf.segs = a.elf.segs
        /\ w.ok => a.ok /\ Placing(w, a, n, seg.vaddr, s.start, ToSet(seg.secs))
    BY <1>2, <1>4, <1>5, WriteKeeps DEF n
  <2>. QED
    BY <1>5, <2>1
<1>8. Placing(w, a, n, seg.vaddr, s.start, ToSet(seg.secs)) =>
        Placing(w, acc, n, b.segs[g].vaddr, s.start, ToSet(b.segs[g].secs))
  <2>. HIDE DEF a, seg, s, n, w
  <2>. QED
    BY <1>3, <1>5 DEF Placing
<1>. HIDE DEF w, a, s, r
<1>9. w.mem \in Nat /\ w.file \in Nat
  BY <1>7 DEF Acc
<1>10. /\ DOMAIN put = DOMAIN seg /\ put.offset = s.start /\ put.offSet = TRUE /\ put.filesz = w.file
       /\ put.memsz = (IF seg.memsz < w.mem THEN w.mem ELSE seg.memsz)
       /\ \A f \in DOMAIN seg \ {"offset", "offSet", "filesz", "memsz"} : put[f] = seg[f]
  <2>. HIDE DEF seg
  <2>. QED
    BY <1>2 DEF SetOffset
<1>11. put.memsz >= seg.memsz /\ put.memsz \in Nat
  <2>. HIDE DEF put, seg
  <2>. QED
    BY <1>2, <1>9, <1>10
<1>. HIDE DEF put
<1>12. SameSegment(put, b.segs[g])
  <2>. HIDE DEF seg
  <2>. QED
    BY <1>1, <1>10 DEF SameSegment
<1>13. IsSegment(put, n)
  <2>. HIDE DEF seg
  <2>1. SegNumbers \subseteq DOMAIN put /\ \A f \in SegNumbers : seg[f] \in Nat
    BY <1>1, <1>10 DEF IsSegment, Numbers
  <2>2. ASSUME NEW f \in SegNumbers PROVE put[f] \in Nat
    <3>1. CASE f \in {"offset", "filesz", "memsz"}
      BY <1>4, <1>9, <1>10, <1>11, <3>1
    <3>2. CASE f \notin {"offset", "filesz", "memsz"}
      <4>1. f # "offSet"
        BY DEF SegNumbers
      <4>. QED
        BY <1>10, <2>1, <3>2, <4>1
    <3>. QED
      BY <3>1, <3>2
  <2>3. Numbers(put, SegNumbers)
    BY <2>1, <2>2 DEF Numbers
  <2>4. {"data", "has", "index", "secs", "offSet"} \subseteq DOMAIN put
    BY <1>1, <1>10 DEF IsSegment
  <2>5. put.secs \in Seq(0 .. (n - 1)) /\ put.offSet \in BOOLEAN /\ put.index \in Nat
    <3>1. {"secs", "index"} \subseteq DOMAIN seg
      BY <1>1 DEF IsSegment
    <3>2. put.secs = seg.secs /\ put.index = seg.index
      BY <1>10, <3>1
    <3>. QED
      BY <1>1, <1>10, <3>2 DEF IsSegment
  <2>. QED
    BY <2>3, <2>4, <2>5 DEF IsSegment
<1>14. /\ Laid(e, b) /\ e.segs[g] = put /\ e.secs = w.elf.secs
       /\ \A h \in 1 .. Len(b.segs) : h # g => e.segs[h] = w.elf.segs[h]
  <2>. DEFINE o == w.elf
  <2>1. Laid(o, b) /\ IsSegment(put, Len(b.secs)) /\ e = ReplaceSegment(o, g, put)
    BY <1>7, <1>13 DEF Acc
  <2>. HIDE DEF e, o
  <2>. QED
    BY ONLY <1>12, <2>1, SegmentPut DEF o
<1>. HIDE DEF e
<1>15. CASE ~acc.ok
  <2>1. r = acc
    BY <1>6, <1>15
  <2>. QED
    BY <1>15, <2>1 DEF r
<1>16. CASE acc.ok /\ ~w.ok
  <2>1. r = w
    BY <1>6, <1>16
  <2>. QED
    BY <1>7, <1>16, <2>1 DEF r
<1>17. CASE acc.ok /\ w.ok
  <2>1. r = [w EXCEPT !.elf = e] /\ DOMAIN w = {"elf", "pos", "gen", "mem", "file", "ok"}
    BY <1>6, <1>7, <1>17 DEF Acc
  <2>2. /\ DOMAIN r = DOMAIN w /\ r.elf = e /\ r.pos = w.pos /\ r.gen = w.gen /\ r.mem = w.mem
        /\ r.file = w.file /\ r.ok = w.ok
    BY <2>1
  <2>3. Acc(r, b)
    BY <1>7, <1>14, <2>2 DEF Acc
  <2>4. \A j : Sec(r.elf, j) = Sec(w.elf, j)
    BY <1>14, <2>2 DEF Sec
  <2>5. Placing(r, acc, n, b.segs[g].vaddr, r.elf.segs[g].offset, ToSet(b.segs[g].secs))
    <3>1. Placing(w, acc, n, b.segs[g].vaddr, s.start, ToSet(b.segs[g].secs))
      BY <1>7, <1>8, <1>17
    <3>2. r.elf.segs[g].offset = s.start
      BY <1>10, <1>14, <2>2
    <3>. HIDE DEF n
    <3>. QED
      BY <2>2, <2>4, <3>1, <3>2 DEF Placing
  <2>6. r.elf.segs[g].memsz >= acc.elf.segs[g].memsz
    BY <1>11, <1>14, <2>2 DEF seg
  <2>7. \A h \in 1 .. Len(b.segs) : h # g => r.elf.segs[h] = acc.elf.segs[h]
    BY <1>7, <1>14, <2>2
  <2>. QED
    BY <1>17, <2>3, <2>5, <2>6, <2>7 DEF Begun, r, n
<1>. QED
  BY <1>15, <1>16, <1>17

-------------------------------------------------------------------------------
(***************************************************************************)
(* All segments.                                                           *)
(***************************************************************************)
(* They are laid out one after the other.                                  *)
LEMMA SegmentsUnfold ==
  ASSUME NEW acc, NEW order, order = GetOrderedSegments(acc.elf.segs), Len(order) \in Nat
  PROVE  \E f : /\ f[0] = acc
                /\ \A n \in 1 .. Len(order) : f[n] = LayoutSegment(f[n - 1], order[n])
                /\ LayoutSegments(acc) = f[Len(order)]
<1>. DEFINE seq == order
            base == acc
            Runs(f, m) == f = [i \in 0 .. m |-> IF i = 0 THEN base
                                ELSE LayoutSegment(f[i - 1], seq[i])]
            T == {m \in Nat : \E f : Runs(f, m)}
            F == CHOOSE f : Runs(f, Len(seq))
<1>1. 0 \in T
  <2>1. Runs([i \in 0 .. 0 |-> base], 0)
    OBVIOUS
  <2>. QED
    BY <2>1
<1>2. ASSUME NEW m \in Nat, m \in T PROVE m + 1 \in T
  <2>1. PICK f : Runs(f, m)
    BY <1>2
  <2>. DEFINE g == [i \in 0 .. (m + 1) |->
                      IF i = m + 1 THEN LayoutSegment(f[m], seq[m + 1]) ELSE f[i]]
  <2>2. Runs(g, m + 1)
    <3>. SUFFICES ASSUME NEW i \in 0 .. (m + 1)
                  PROVE  g[i] = IF i = 0 THEN base
                                ELSE LayoutSegment(g[i - 1], seq[i])
      BY Zenon
    <3>. HIDE DEF seq, base
    <3>. QED
      BY <2>1
  <2>. HIDE DEF Runs, g
  <2>. QED
    BY <2>2
<1>3. Nat \subseteq T
  <2>. HIDE DEF T
  <2>. QED
    BY <1>1, <1>2, SetInduction
<1>4. LayoutSegments(acc) = F[Len(seq)]
  BY DEF LayoutSegments, Loop
<1>5. Len(seq) = Len(order)
  OBVIOUS
<1>6. Runs(F, Len(order))
  <2>1. \E f : Runs(f, Len(order))
    BY <1>3
  <2>. HIDE DEF Runs, seq, base
  <2>. QED
    BY <1>5, <2>1
<1>7. /\ F[0] = base
      /\ \A n \in 1 .. Len(order) : F[n] = LayoutSegment(F[n - 1], seq[n])
  <2>. HIDE DEF F, seq, base
  <2>. QED
    BY <1>5, <1>6
<1>. QED
  BY <1>4, <1>5, <1>7

(* Layout starts from an object that has no section generated.             *)
Fresh(acc, b) == Acc(acc, b) /\ acc.elf = b /\ acc.gen = {}

(* The segments in D are laid out.                                         *)
Done(r, b, D) ==
  /\ \A g \in 1 .. Len(b.segs) : r.elf.segs[g].memsz >= b.segs[g].memsz
  /\ r.gen = UNION {ToSet(b.segs[g].secs) : g \in D}
  /\ \A g \in D : \A i \in Own(b, g) :
       i # 0 => Linked(Sec(r.elf, i), b.segs[g].vaddr, r.elf.segs[g].offset)

LEMMA MembersAre ==
  ASSUME NEW b, IsObject(b), NEW g \in 1 .. Len(b.segs)
  PROVE  /\ ToSet(b.segs[g].secs) \subseteq 0 .. (Len(b.secs) - 1)
         /\ Own(b, g) \subseteq ToSet(b.segs[g].secs)
         /\ b.segs[g].memsz \in Nat /\ b.segs[g].vaddr \in Nat
<1>. DEFINE seg == b.segs[g]
            S == 0 .. (Len(b.secs) - 1)
            q == seg.secs
<1>1. IsSegment(seg, Len(b.secs))
  BY DEF IsObject
<1>2. q \in Seq(S) /\ seg.memsz \in Nat /\ seg.vaddr \in Nat
  <2>. HIDE DEF seg
  <2>. QED
    BY <1>1, SegmentHas
<1>3. ToSet(q) \subseteq S
  <2>. HIDE DEF S, q
  <2>. QED
    BY <1>2, LenProperties DEF ToSet
<1>. QED
  BY <1>2, <1>3 DEF Own

LEMMA DoneStep ==
  ASSUME NEW b, IsObject(b), NEW r, Acc(r, b), NEW D \in SUBSET (1 .. Len(b.segs)), Done(r, b, D),
         NEW g \in 1 .. Len(b.segs), g \notin D, NEW s, Acc(s, b), Begun(s, r, b, g)
  PROVE  Done(s, b, D \cup {g})
<1>. DEFINE n == Len(b.secs)
            G == 1 .. Len(b.segs)
            V(h) == ToSet(b.segs[h].secs)
            vaddr == b.segs[g].vaddr
<1>1. \A h \in G : V(h) \subseteq 0 .. (n - 1) /\ Own(b, h) \subseteq V(h) /\ b.segs[h].memsz \in Nat
  BY MembersAre
<1>2. /\ s.elf.segs[g].memsz >= r.elf.segs[g].memsz
      /\ \A h \in G : h # g => s.elf.segs[h] = r.elf.segs[h]
      /\ Placing(s, r, n, vaddr, s.elf.segs[g].offset, V(g))
  BY DEF Begun
<1>3. /\ \A h \in G : r.elf.segs[h].memsz >= b.segs[h].memsz
      /\ r.gen = UNION {V(h) : h \in D}
      /\ \A h \in D : \A i \in Own(b, h) :
           i # 0 => Linked(Sec(r.elf, i), b.segs[h].vaddr, r.elf.segs[h].offset)
  BY DEF Done
<1>4. \A h \in G : r.elf.segs[h].memsz \in Nat /\ s.elf.segs[h].memsz \in Nat
  <2>. SUFFICES ASSUME NEW h \in G PROVE r.elf.segs[h].memsz \in Nat /\ s.elf.segs[h].memsz \in Nat
    OBVIOUS
  <2>1. h \in 1 .. Len(r.elf.segs) /\ h \in 1 .. Len(s.elf.segs) /\ IsObject(r.elf) /\ IsObject(s.elf)
    BY DEF Acc, Laid
  <2>. QED
    BY <2>1, MembersAre
<1>5. /\ s.gen = r.gen \cup V(g)
      /\ \A j \in 0 .. (n - 1) : j \in r.gen => Sec(s.elf, j) = Sec(r.elf, j)
      /\ \A j \in V(g) \ r.gen : j # 0 => Linked(Sec(s.elf, j), vaddr, s.elf.segs[g].offset)
  <2>. HIDE DEF n, vaddr, V
  <2>. QED
    BY <1>2 DEF Placing
<1>6. \A h \in G : s.elf.segs[h].memsz >= b.segs[h].memsz
  <2>. SUFFICES ASSUME NEW h \in G PROVE s.elf.segs[h].memsz >= b.segs[h].memsz
    OBVIOUS
  <2>1. s.elf.segs[h].memsz >= r.elf.segs[h].memsz
    <3>1. CASE h = g
      BY <1>2, <3>1
    <3>2. CASE h # g
      BY <1>2, <1>4, <3>2
    <3>. QED
      BY <3>1, <3>2
  <2>2. b.segs[h].memsz \in Nat
    BY <1>1
  <2>. QED
    BY <1>3, <1>4, <2>1, <2>2
<1>7. s.gen = UNION {V(h) : h \in D \cup {g}}
  <2>. HIDE DEF V
  <2>. QED
    BY <1>3, <1>5
<1>8. ASSUME NEW h \in D \cup {g}, NEW i \in Own(b, h), i # 0
      PROVE  Linked(Sec(s.elf, i), b.segs[h].vaddr, s.elf.segs[h].offset)
  <2>1. h \in G /\ i \in V(h) /\ i \in 0 .. (n - 1)
    BY <1>1, <1>8
  <2>2. CASE h \in D
    <3>1. i \in r.gen
      <4>. HIDE DEF V
      <4>. QED
        BY <1>3, <2>1, <2>2
    <3>2. Sec(s.elf, i) = Sec(r.elf, i) /\ s.elf.segs[h] = r.elf.segs[h]
      BY <1>2, <1>5, <2>1, <2>2, <3>1
    <3>. QED
      BY <1>3, <1>8, <2>2, <3>2
  <2>3. CASE h = g
    <3>1. i \notin r.gen
      <4>. SUFFICES ASSUME NEW k \in D, i \in V(k) PROVE FALSE
        <5>. HIDE DEF V
        <5>. QED
          BY <1>3
      <4>1. k \in G
        OBVIOUS
      <4>2. k = h
        BY <1>8, <4>1 DEF Own
      <4>. QED
        BY <2>3, <4>2
    <3>. QED
      BY <1>5, <1>8, <2>1, <2>3, <3>1
  <2>. QED
    BY <2>2, <2>3
<1>. QED
  BY <1>6, <1>7, <1>8 DEF Done

LEMMA SegmentsKeep ==
  ASSUME NEW b, IsObject(b), NEW acc, Fresh(acc, b)
  PROVE  LET r == LayoutSegments(acc)
         IN  Acc(r, b) /\ (r.ok => Done(r, b, 1 .. Len(b.segs)))
<1>. DEFINE order == GetOrderedSegments(acc.elf.segs)
            n == Len(b.segs)
            D(k) == {order[j] : j \in 1 .. k}
            Fine(r, k) == Acc(r, b) /\ (r.ok => Done(r, b, D(k)))
<1>1. n \in Nat /\ acc.elf.segs = b.segs /\ \A g \in 1 .. n : Len(b.segs[g].secs) \in Nat
  <2>1. IsSeq(b.segs) /\ acc.elf = b /\ \A g \in 1 .. n : IsSegment(b.segs[g], Len(b.secs))
    BY DEF IsObject, Fresh
  <2>2. n \in Nat
    BY <2>1, SeqIs
  <2>3. ASSUME NEW g \in 1 .. n PROVE Len(b.segs[g].secs) \in Nat
    <3>. DEFINE seg == b.segs[g]
    <3>1. IsSegment(seg, Len(b.secs))
      BY <2>1
    <3>2. seg.secs \in Seq(0 .. (Len(b.secs) - 1))
      BY <3>1 DEF IsSegment
    <3>. QED
      BY <3>2, LenProperties
  <2>. QED
    BY <2>1, <2>2, <2>3
<1>2. Len(order) = n /\ Permutes(order, n)
  BY <1>1, OrderPermutes
<1>3. PICK f : /\ f[0] = acc
               /\ \A k \in 1 .. Len(order) : f[k] = LayoutSegment(f[k - 1], order[k])
               /\ LayoutSegments(acc) = f[Len(order)]
  <2>1. Len(order) \in Nat
    BY <1>1, <1>2
  <2>. QED
    BY <2>1, SegmentsUnfold
<1>. HIDE DEF order, n
<1>4. /\ \A k \in 1 .. n : order[k] \in 1 .. n
      /\ \A v \in 1 .. n : \E k \in 1 .. n : order[k] = v
      /\ \A j, k \in 1 .. n : order[j] = order[k] => j = k
  BY <1>2 DEF Permutes
<1>5. D(0) = {} /\ D(n) = 1 .. n
  <2>1. D(n) \subseteq 1 .. n
    BY <1>4
  <2>2. \A v \in 1 .. n : v \in D(n)
    BY <1>4
  <2>3. 1 .. 0 = {}
    OBVIOUS
  <2>. QED
    BY <2>1, <2>2, <2>3
<1>6. ASSUME NEW k \in Nat, k + 1 <= n
      PROVE  D(k + 1) = D(k) \cup {order[k + 1]} /\ order[k + 1] \in 1 .. n /\ order[k + 1] \notin D(k) /\ D(k) \subseteq 1 .. n
  <2>1. \A j : j \in 1 .. (k + 1) <=> j \in 1 .. k \/ j = k + 1
    OBVIOUS
  <2>2. \A j \in 1 .. k : j \in 1 .. n /\ k + 1 \in 1 .. n /\ j # k + 1
    BY <1>1, <1>6
  <2>3. k + 1 \in 1 .. n
    BY <1>1, <1>6
  <2>. QED
    BY <1>4, <2>1, <2>2, <2>3
<1>. HIDE DEF D
<1>. DEFINE T == {k \in Nat : k <= n => Fine(f[k], k)}
<1>7. 0 \in T
  <2>1. Done(acc, b, {})
    <3>1. \A g \in 1 .. Len(b.segs) : b.segs[g].memsz \in Nat
      BY MembersAre
    <3>2. acc.elf = b /\ acc.gen = {}
      BY DEF Fresh
    <3>. QED
      BY <3>1, <3>2 DEF Done
  <2>. QED
    BY <1>3, <1>5, <2>1 DEF Fresh
<1>8. ASSUME NEW k \in Nat, k \in T PROVE k + 1 \in T
  <2>. SUFFICES ASSUME k + 1 <= n PROVE Fine(f[k + 1], k + 1)
    OBVIOUS
  <2>. DEFINE g == order[k + 1]
              r == f[k]
              s == LayoutSegment(r, g)
  <2>1. k + 1 \in 1 .. n /\ (k + 1) - 1 = k /\ k <= n
    BY <1>1
  <2>2. f[k + 1] = s
    BY <1>2, <1>3, <2>1
  <2>3. Acc(r, b) /\ (r.ok => Done(r, b, D(k)))
    BY <1>8, <2>1
  <2>4. D(k + 1) = D(k) \cup {g} /\ g \in 1 .. n /\ g \notin D(k) /\ D(k) \subseteq 1 .. n
    BY <1>6
  <2>5. Acc(s, b) /\ (s.ok => r.ok /\ Begun(s, r, b, g))
    <3>. HIDE DEF r, g
    <3>. QED
      BY <2>3, <2>4, SegmentKeeps DEF n
  <2>. HIDE DEF s, r, g
  <2>6. s.ok => Done(s, b, D(k + 1))
    <3>. SUFFICES ASSUME s.ok PROVE Done(s, b, D(k) \cup {g})
      BY <2>4
    <3>. QED
      BY <2>3, <2>4, <2>5, DoneStep DEF n
  <2>. QED
    BY <2>2, <2>5, <2>6
<1>9. Fine(f[n], n)
  <2>. HIDE DEF T, Fine
  <2>1. Nat \subseteq T
    BY <1>7, <1>8, SetInduction
  <2>. QED
    BY <1>1, <2>1 DEF T
<1>. QED
  BY <1>2, <1>3, <1>5, <1>9 DEF n

-------------------------------------------------------------------------------
(***************************************************************************)
(* The sections outside of the segments.                                   *)
(***************************************************************************)
(* They are looked at one after the other.                                 *)
LEMMA AloneUnfolds ==
  ASSUME NEW acc, Len(acc.elf.secs) \in Nat
  PROVE  \E f : /\ f[0] = acc
                /\ \A n \in 1 .. Len(acc.elf.secs) : f[n] = PlaceAlone(f[n - 1], n - 1)
                /\ LayoutSectionsWithoutSegments(acc) = f[Len(acc.elf.secs)]
<1>. DEFINE seq == [i \in 1 .. Len(acc.elf.secs) |-> i - 1]
            base == acc
            Runs(f, m) == f = [i \in 0 .. m |-> IF i = 0 THEN base
                                ELSE PlaceAlone(f[i - 1], seq[i])]
            T == {m \in Nat : \E f : Runs(f, m)}
            F == CHOOSE f : Runs(f, Len(seq))
<1>1. 0 \in T
  <2>1. Runs([i \in 0 .. 0 |-> base], 0)
    OBVIOUS
  <2>. QED
    BY <2>1
<1>2. ASSUME NEW m \in Nat, m \in T PROVE m + 1 \in T
  <2>1. PICK f : Runs(f, m)
    BY <1>2
  <2>. DEFINE g == [i \in 0 .. (m + 1) |->
                      IF i = m + 1 THEN PlaceAlone(f[m], seq[m + 1]) ELSE f[i]]
  <2>2. Runs(g, m + 1)
    <3>. SUFFICES ASSUME NEW i \in 0 .. (m + 1)
                  PROVE  g[i] = IF i = 0 THEN base
                                ELSE PlaceAlone(g[i - 1], seq[i])
      BY Zenon
    <3>. HIDE DEF seq, base
    <3>. QED
      BY <2>1
  <2>. HIDE DEF Runs, g
  <2>. QED
    BY <2>2
<1>3. Nat \subseteq T
  <2>. HIDE DEF T
  <2>. QED
    BY <1>1, <1>2, SetInduction
<1>4. LayoutSectionsWithoutSegments(acc) = F[Len(seq)]
  BY DEF LayoutSectionsWithoutSegments, Loop
<1>5. Len(seq) = Len(acc.elf.secs) /\ \A n \in 1 .. Len(acc.elf.secs) : seq[n] = n - 1
  OBVIOUS
<1>6. Runs(F, Len(acc.elf.secs))
  <2>1. \E f : Runs(f, Len(acc.elf.secs))
    BY <1>3
  <2>. HIDE DEF Runs, seq, base
  <2>. QED
    BY <1>5, <2>1
<1>7. /\ F[0] = base
      /\ \A n \in 1 .. Len(acc.elf.secs) : F[n] = PlaceAlone(F[n - 1], n - 1)
  <2>. HIDE DEF F, seq, base
  <2>. QED
    BY <1>5, <1>6
<1>. QED
  BY <1>4, <1>5, <1>7

(* A section of a segment stays where it is.                               *)
Beside(r, acc, b) ==
  /\ r.elf.segs = acc.elf.segs /\ r.gen = acc.gen /\ r.ok = acc.ok
  /\ \A j \in 0 .. (Len(b.secs) - 1) : ~IsSectionWithoutSegment(b, j) => Sec(r.elf, j) = Sec(acc.elf, j)

LEMMA AloneStep ==
  ASSUME NEW b, NEW acc, Acc(acc, b), NEW i \in 0 .. (Len(b.secs) - 1)
  PROVE  LET r == PlaceAlone(acc, i)
         IN  Acc(r, b) /\ Beside(r, acc, b)
<1>. DEFINE sec == Sec(acc.elf, i)
            pad == Pad(acc.pos, sec.align)
            fit == X(acc.pos + pad)
            at == IF sec.align > 1 THEN fit ELSE acc.pos
            end == X(at + sec.size)
            s == [sec EXCEPT !.offset = IF i # 0 THEN at ELSE @]
            e == Replace(acc.elf, i, s)
            r == PlaceAlone(acc, i)
            n == Len(b.secs)
<1>1. /\ IsSection(sec, i) /\ SameSection(sec, Sec(b, i)) /\ sec.size \in Nat /\ sec.align \in Nat
      /\ sec.offset \in Nat /\ Laid(acc.elf, b) /\ acc.pos \in Nat
  BY SectionLaid DEF Acc
<1>2. sec.align > 1 => fit \in Nat
  <2>. SUFFICES ASSUME sec.align > 1 PROVE fit \in Nat
    OBVIOUS
  <2>1. sec.align \in Positive
    <3>. HIDE DEF sec
    <3>. QED
      BY <1>1 DEF Positive
  <2>2. pad \in Nat
    <3>. HIDE DEF sec
    <3>. QED
      BY <1>1, <2>1, PadType
  <2>3. acc.pos + pad \in Int
    <3>. HIDE DEF pad
    <3>. QED
      BY <1>1, <2>2
  <2>. QED
    BY <2>3, FieldType
<1>3. at \in Nat /\ end \in Nat
  <2>1. at \in Nat
    <3>. HIDE DEF sec, fit
    <3>. QED
      BY <1>1, <1>2
  <2>2. at + sec.size \in Int
    <3>. HIDE DEF at, sec
    <3>. QED
      BY <1>1, <2>1
  <2>. QED
    BY <2>1, <2>2, FieldType
<1>4. IsSection(s, i) /\ SameSection(s, Sec(b, i))
  <2>. HIDE DEF at, sec
  <2>1. "offset" \in DOMAIN sec
    BY <1>1, SectionHas
  <2>2. /\ DOMAIN s = DOMAIN sec /\ s.offset = (IF i # 0 THEN at ELSE sec.offset)
        /\ \A f \in DOMAIN sec \ {"offset"} : s[f] = sec[f]
    BY <2>1
  <2>. HIDE DEF s
  <2>3. s.offset \in Nat
    BY <1>1, <1>3, <2>2
  <2>4. SameSection(s, sec)
    BY <2>2 DEF SameSection
  <2>5. IsSection(s, i)
    <3>1. Numbers(s, SecNumbers)
      <4>1. SecNumbers \subseteq DOMAIN s /\ \A f \in SecNumbers : sec[f] \in Nat
        BY <1>1, <2>2 DEF IsSection, Numbers
      <4>2. \A f \in SecNumbers : s[f] \in Nat
        BY <2>2, <2>3, <4>1
      <4>. QED
        BY <4>1, <4>2 DEF Numbers
    <3>. QED
      BY <1>1, <2>2, <3>1 DEF IsSection
  <2>. QED
    BY <1>1, <2>4, <2>5, SameTwice
<1>5. /\ Laid(e, b) /\ e.segs = acc.elf.segs
      /\ \A j \in 0 .. (n - 1) : j # i => Sec(e, j) = Sec(acc.elf, j)
  <2>. HIDE DEF s
  <2>. QED
    BY <1>1, <1>4, SectionPut
<1>6. IsSectionWithoutSegment(acc.elf, i) <=> IsSectionWithoutSegment(b, i)
  <2>1. Len(acc.elf.segs) = Len(b.segs)
    BY <1>1 DEF Laid
  <2>2. \A g \in 1 .. Len(b.segs) : acc.elf.segs[g].secs = b.segs[g].secs
    <3>. SUFFICES ASSUME NEW g \in 1 .. Len(b.segs) PROVE acc.elf.segs[g].secs = b.segs[g].secs
      OBVIOUS
    <3>1. SameSegment(acc.elf.segs[g], b.segs[g]) /\ IsSegment(acc.elf.segs[g], Len(acc.elf.secs))
      BY <1>1, <2>1 DEF Laid, IsObject
    <3>. QED
      BY <3>1 DEF SameSegment, IsSegment
  <2>. QED
    BY <2>1, <2>2 DEF IsSectionWithoutSegment
<1>7. r = IF ~IsSectionWithoutSegment(acc.elf, i) THEN acc
          ELSE [acc EXCEPT !.elf = e, !.pos = IF sec.type \in {SHT_NOBITS, SHT_NULL} THEN at ELSE end]
  BY DEF PlaceAlone
<1>. HIDE DEF r, e, at, end, sec
<1>8. CASE ~IsSectionWithoutSegment(acc.elf, i)
  <2>1. r = acc
    BY <1>7, <1>8
  <2>. QED
    BY <2>1 DEF Beside, r
<1>9. CASE IsSectionWithoutSegment(acc.elf, i)
  <2>1. /\ r = [acc EXCEPT !.elf = e, !.pos = IF sec.type \in {SHT_NOBITS, SHT_NULL} THEN at ELSE end]
        /\ DOMAIN acc = {"elf", "pos", "gen", "mem", "file", "ok"}
    BY <1>7, <1>9 DEF Acc
  <2>2. /\ DOMAIN r = DOMAIN acc /\ r.elf = e /\ r.gen = acc.gen /\ r.mem = acc.mem
        /\ r.file = acc.file /\ r.ok = acc.ok /\ (r.pos = at \/ r.pos = end)
    BY <2>1
  <2>3. Acc(r, b)
    BY <1>3, <1>5, <2>2 DEF Acc
  <2>4. Beside(r, acc, b)
    BY <1>5, <1>6, <1>9, <2>2 DEF Beside
  <2>. QED
    BY <2>3, <2>4 DEF r
<1>. QED
  BY <1>8, <1>9

LEMMA AloneKeeps ==
  ASSUME NEW b, NEW acc, Acc(acc, b)
  PROVE  LET r == LayoutSectionsWithoutSegments(acc)
         IN  Acc(r, b) /\ Beside(r, acc, b)
<1>. DEFINE n == Len(b.secs)
            Fine(r) == Acc(r, b) /\ Beside(r, acc, b)
<1>1. Len(acc.elf.secs) = n /\ n \in Nat
  BY SeqIs DEF Acc, Laid, IsObject
<1>2. PICK f : /\ f[0] = acc
               /\ \A k \in 1 .. n : f[k] = PlaceAlone(f[k - 1], k - 1)
               /\ LayoutSectionsWithoutSegments(acc) = f[n]
  BY <1>1, AloneUnfolds
<1>. DEFINE T == {k \in Nat : k <= n => Fine(f[k])}
<1>3. 0 \in T
  BY <1>2 DEF Beside
<1>. HIDE DEF n
<1>4. ASSUME NEW k \in Nat, k \in T PROVE k + 1 \in T
  <2>. SUFFICES ASSUME k + 1 <= n PROVE Fine(f[k + 1])
    OBVIOUS
  <2>. DEFINE r == f[k]
              s == PlaceAlone(r, k)
  <2>1. k + 1 \in 1 .. n /\ (k + 1) - 1 = k /\ k <= n /\ k \in 0 .. (n - 1)
    BY <1>1
  <2>2. f[k + 1] = s /\ Fine(r)
    BY <1>2, <1>4, <2>1
  <2>. HIDE DEF r
  <2>3. Acc(s, b) /\ Beside(s, r, b)
    BY <2>1, <2>2, AloneStep DEF n
  <2>. HIDE DEF s
  <2>4. Beside(s, acc, b)
    BY <2>2, <2>3 DEF Beside
  <2>. QED
    BY <2>2, <2>3, <2>4
<1>5. Fine(f[n])
  <2>. HIDE DEF T, Fine
  <2>1. Nat \subseteq T
    BY <1>3, <1>4, SetInduction
  <2>. QED
    BY <1>1, <2>1 DEF T
<1>. QED
  BY <1>2, <1>5

-------------------------------------------------------------------------------
(***************************************************************************)
(* The whole layout.                                                       *)
(***************************************************************************)
(* The alignment is compared with that of one section after the other.     *)
LEMMA RaisedUnfolds ==
  ASSUME NEW elf0, NEW seg, Len(seg.secs) \in Nat
  PROVE  \E f : /\ f[0] = seg.align
                /\ \A n \in 1 .. Len(seg.secs) : f[n] = (IF Sec(elf0, seg.secs[n]).align > f[n - 1] THEN Sec(elf0, seg.secs[n]).align ELSE f[n - 1])
                /\ Raised(elf0, seg) = [seg EXCEPT !.align = f[Len(seg.secs)]]
<1>. DEFINE seq == seg.secs
            base == seg.align
            Runs(f, m) == f = [i \in 0 .. m |-> IF i = 0 THEN base
                                ELSE (IF Sec(elf0, seq[i]).align > f[i - 1] THEN Sec(elf0, seq[i]).align ELSE f[i - 1])]
            T == {m \in Nat : \E f : Runs(f, m)}
            F == CHOOSE f : Runs(f, Len(seq))
<1>1. 0 \in T
  <2>1. Runs([i \in 0 .. 0 |-> base], 0)
    OBVIOUS
  <2>. QED
    BY <2>1
<1>2. ASSUME NEW m \in Nat, m \in T PROVE m + 1 \in T
  <2>1. PICK f : Runs(f, m)
    BY <1>2
  <2>. DEFINE g == [i \in 0 .. (m + 1) |->
                      IF i = m + 1 THEN (IF Sec(elf0, seq[m + 1]).align > f[m] THEN Sec(elf0, seq[m + 1]).align ELSE f[m]) ELSE f[i]]
  <2>2. Runs(g, m + 1)
    <3>. SUFFICES ASSUME NEW i \in 0 .. (m + 1)
                  PROVE  g[i] = IF i = 0 THEN base
                                ELSE (IF Sec(elf0, seq[i]).align > g[i - 1] THEN Sec(elf0, seq[i]).align ELSE g[i - 1])
      BY Zenon
    <3>. HIDE DEF seq, base
    <3>. QED
      BY <2>1
  <2>. HIDE DEF Runs, g
  <2>. QED
    BY <2>2
<1>3. Nat \subseteq T
  <2>. HIDE DEF T
  <2>. QED
    BY <1>1, <1>2, SetInduction
<1>4. Raised(elf0, seg) = [seg EXCEPT !.align = F[Len(seq)]]
  BY DEF Raised, Loop
<1>5. Len(seq) = Len(seg.secs)
  OBVIOUS
<1>6. Runs(F, Len(seg.secs))
  <2>1. \E f : Runs(f, Len(seg.secs))
    BY <1>3
  <2>. HIDE DEF Runs, seq, base
  <2>. QED
    BY <1>5, <2>1
<1>7. /\ F[0] = base
      /\ \A n \in 1 .. Len(seg.secs) : F[n] = (IF Sec(elf0, seq[n]).align > F[n - 1] THEN Sec(elf0, seq[n]).align ELSE F[n - 1])
  <2>. HIDE DEF F, seq, base
  <2>. QED
    BY <1>5, <1>6
<1>. QED
  BY <1>4, <1>5, <1>7

(* One segment after the other gets its alignment.                          *)
LEMMA AlignmentUnfolds ==
  ASSUME NEW e, Len(e.segs) \in Nat
  PROVE  \E f : /\ f[0] = << >>
                /\ \A n \in 1 .. Len(e.segs) : f[n] = Append(f[n - 1], Raised(e, e.segs[n]))
                /\ CalcSegmentAlignment(e) = [e EXCEPT !.segs = f[Len(e.segs)]]
<1>. DEFINE op(a, x) == Append(a, Raised(e, x))
            seq == e.segs
            base == << >>
            Runs(f, m) == f = [i \in 0 .. m |-> IF i = 0 THEN base
                                ELSE op(f[i - 1], seq[i])]
            T == {m \in Nat : \E f : Runs(f, m)}
            F == CHOOSE f : Runs(f, Len(seq))
<1>1. 0 \in T
  <2>1. Runs([i \in 0 .. 0 |-> base], 0)
    OBVIOUS
  <2>. QED
    BY <2>1
<1>2. ASSUME NEW m \in Nat, m \in T PROVE m + 1 \in T
  <2>1. PICK f : Runs(f, m)
    BY <1>2
  <2>. DEFINE g == [i \in 0 .. (m + 1) |->
                      IF i = m + 1 THEN op(f[m], seq[m + 1]) ELSE f[i]]
  <2>2. Runs(g, m + 1)
    <3>. SUFFICES ASSUME NEW i \in 0 .. (m + 1)
                  PROVE  g[i] = IF i = 0 THEN base
                                ELSE op(g[i - 1], seq[i])
      BY Zenon
    <3>. HIDE DEF seq, base, op
    <3>. QED
      BY <2>1
  <2>. HIDE DEF Runs, g
  <2>. QED
    BY <2>2
<1>3. Nat \subseteq T
  <2>. HIDE DEF T
  <2>. QED
    BY <1>1, <1>2, SetInduction
<1>4. CalcSegmentAlignment(e) = [e EXCEPT !.segs = F[Len(seq)]]
  BY DEF CalcSegmentAlignment, Loop
<1>5. Len(seq) = Len(e.segs)
  OBVIOUS
<1>6. Runs(F, Len(e.segs))
  <2>1. \E f : Runs(f, Len(e.segs))
    BY <1>3
  <2>. HIDE DEF Runs, seq, base, op
  <2>. QED
    BY <1>5, <2>1
<1>7. /\ F[0] = base
      /\ \A n \in 1 .. Len(e.segs) : F[n] = op(F[n - 1], seq[n])
  <2>. HIDE DEF F, seq, base, op
  <2>. QED
    BY <1>5, <1>6
<1>. QED
  BY <1>4, <1>5, <1>7

LEMMA RaisedKeeps ==
  ASSUME NEW e, IsObject(e), NEW seg, IsSegment(seg, Len(e.secs))
  PROVE  LET r == Raised(e, seg)
         IN  /\ IsSegment(r, Len(e.secs)) /\ DOMAIN r = DOMAIN seg
             /\ \A f \in DOMAIN seg \ {"align"} : r[f] = seg[f]
<1>. DEFINE q == seg.secs
            m == Len(q)
            n == Len(e.secs)
            r == Raised(e, seg)
<1>1. m \in Nat /\ seg.align \in Nat /\ \A k \in 1 .. m : q[k] \in 0 .. (n - 1)
  <2>1. q \in Seq(0 .. (n - 1)) /\ seg.align \in Nat
    BY SegmentHas
  <2>. HIDE DEF q, n
  <2>. QED
    BY <2>1, LenProperties, ElementOfSeq
<1>2. PICK f : /\ f[0] = seg.align
               /\ \A k \in 1 .. m : f[k] = (IF Sec(e, q[k]).align > f[k - 1] THEN Sec(e, q[k]).align
                                            ELSE f[k - 1])
               /\ r = [seg EXCEPT !.align = f[m]]
  BY <1>1, RaisedUnfolds
<1>3. \A k \in 1 .. m : Sec(e, q[k]).align \in Nat
  <2>. SUFFICES ASSUME NEW k \in 1 .. m PROVE Sec(e, q[k]).align \in Nat
    OBVIOUS
  <2>. DEFINE i == q[k]
              s == Sec(e, i)
  <2>1. i \in 0 .. (n - 1) /\ n \in Nat
    BY <1>1, SeqIs DEF IsObject
  <2>2. i + 1 \in 1 .. n /\ (i + 1) - 1 = i
    <3>. HIDE DEF i, n
    <3>. QED
      BY <2>1
  <2>3. IsSection(s, i)
    BY <2>2 DEF IsObject, Sec
  <2>. HIDE DEF s
  <2>4. s.align \in Nat
    BY <2>3, SectionHas
  <2>. QED
    BY <2>4 DEF s
<1>. DEFINE T == {k \in Nat : k <= m => f[k] \in Nat}
<1>. HIDE DEF q, m, r
<1>4. 0 \in T
  BY <1>1, <1>2
<1>5. ASSUME NEW k \in Nat, k \in T PROVE k + 1 \in T
  <2>. SUFFICES ASSUME k + 1 <= m PROVE f[k + 1] \in Nat
    OBVIOUS
  <2>1. k + 1 \in 1 .. m /\ (k + 1) - 1 = k /\ f[k] \in Nat
    BY <1>1, <1>5
  <2>. QED
    BY <1>2, <1>3, <2>1
<1>6. f[m] \in Nat
  <2>. HIDE DEF T
  <2>1. Nat \subseteq T
    BY <1>4, <1>5, SetInduction
  <2>. QED
    BY <1>1, <2>1 DEF T
<1>. DEFINE a == f[m]
<1>7. /\ DOMAIN r = DOMAIN seg /\ r.align = a
      /\ \A x \in DOMAIN seg \ {"align"} : r[x] = seg[x]
  <2>1. "align" \in DOMAIN seg
    BY SegmentHas
  <2>. HIDE DEF a
  <2>2. r = [seg EXCEPT !.align = a]
    BY <1>2 DEF a
  <2>. QED
    BY <2>1, <2>2
<1>. HIDE DEF a
<1>8. IsSegment(r, n)
  <2>1. SegNumbers \subseteq DOMAIN r /\ \A x \in SegNumbers : seg[x] \in Nat
    BY <1>7 DEF IsSegment, Numbers
  <2>2. \A x \in SegNumbers : r[x] \in Nat
    BY <1>6, <1>7, <2>1 DEF a
  <2>3. Numbers(r, SegNumbers)
    BY <2>1, <2>2 DEF Numbers
  <2>4. {"data", "has", "index", "secs", "offSet"} \subseteq DOMAIN seg
    BY DEF IsSegment
  <2>5. r.secs = seg.secs /\ r.offSet = seg.offSet /\ r.index = seg.index
    BY <1>7, <2>4
  <2>. QED
    BY <1>7, <2>3, <2>4, <2>5 DEF IsSegment
<1>. QED
  BY <1>7, <1>8 DEF r

(* Only alignments of segments change.                                     *)
LEMMA AlignmentKeeps ==
  ASSUME NEW e, IsObject(e)
  PROVE  LET c == CalcSegmentAlignment(e)
         IN  /\ IsObject(c) /\ DOMAIN c = DOMAIN e /\ c.hdr = e.hdr /\ c.secs = e.secs
             /\ Len(c.segs) = Len(e.segs)
             /\ \A g \in 1 .. Len(e.segs) : c.segs[g] = Raised(e, e.segs[g])
<1>. DEFINE c == CalcSegmentAlignment(e)
            n == Len(e.segs)
<1>1. n \in Nat /\ {"hdr", "secs", "segs"} \subseteq DOMAIN e
  BY SeqIs DEF IsObject
<1>2. PICK f : /\ f[0] = << >>
               /\ \A k \in 1 .. n : f[k] = Append(f[k - 1], Raised(e, e.segs[k]))
               /\ c = [e EXCEPT !.segs = f[n]]
  BY <1>1, AlignmentUnfolds
<1>. DEFINE Fine(q, k) == /\ IsSeq(q) /\ Len(q) = k
                          /\ \A g \in 1 .. k : q[g] = Raised(e, e.segs[g])
            T == {k \in Nat : k <= n => Fine(f[k], k)}
<1>. HIDE DEF n, c
<1>3. 0 \in T
  <2>1. IsSeq(<< >>) /\ Len(<< >>) = 0
    BY EmptySeq DEF IsSeq
  <2>. QED
    BY <1>2, <2>1
<1>4. ASSUME NEW k \in Nat, k \in T PROVE k + 1 \in T
  <2>. SUFFICES ASSUME k + 1 <= n PROVE Fine(f[k + 1], k + 1)
    OBVIOUS
  <2>. DEFINE q == f[k]
              x == Raised(e, e.segs[k + 1])
  <2>1. k + 1 \in 1 .. n /\ (k + 1) - 1 = k /\ k <= n
    BY <1>1
  <2>2. IsSeq(q) /\ Len(q) = k /\ \A g \in 1 .. k : q[g] = Raised(e, e.segs[g])
    BY <1>4, <2>1
  <2>3. f[k + 1] = Append(q, x)
    BY <1>2, <2>1
  <2>4. /\ IsSeq(Append(q, x)) /\ Len(Append(q, x)) = k + 1 /\ Append(q, x)[k + 1] = x
        /\ \A j \in 1 .. k : Append(q, x)[j] = q[j]
    <3>. HIDE DEF q, x
    <3>. QED
      BY <2>2, SeqAppend
  <2>5. \A g \in 1 .. (k + 1) : g \in 1 .. k \/ g = k + 1
    OBVIOUS
  <2>6. \A g \in 1 .. (k + 1) : f[k + 1][g] = Raised(e, e.segs[g])
    <3>. HIDE DEF q
    <3>. QED
      BY <2>2, <2>3, <2>4, <2>5
  <2>. QED
    BY <2>3, <2>4, <2>6
<1>5. Fine(f[n], n)
  <2>. HIDE DEF T, Fine
  <2>1. Nat \subseteq T
    BY <1>3, <1>4, SetInduction
  <2>. QED
    BY <1>1, <2>1 DEF T
<1>6. DOMAIN c = DOMAIN e /\ c.hdr = e.hdr /\ c.secs = e.secs /\ c.segs = f[n]
  BY <1>1, <1>2
<1>7. \A g \in 1 .. n : IsSegment(c.segs[g], Len(c.secs)) /\ c.segs[g].index = g - 1
  <2>. SUFFICES ASSUME NEW g \in 1 .. n
                PROVE  IsSegment(c.segs[g], Len(c.secs)) /\ c.segs[g].index = g - 1
    OBVIOUS
  <2>. DEFINE seg == e.segs[g]
  <2>1. IsSegment(seg, Len(e.secs)) /\ seg.index = g - 1 /\ "index" \in DOMAIN seg \ {"align"}
    BY DEF IsObject, IsSegment, n
  <2>2. c.segs[g] = Raised(e, seg) /\ Len(c.secs) = Len(e.secs)
    BY <1>5, <1>6
  <2>. HIDE DEF seg
  <2>. QED
    BY <2>1, <2>2, RaisedKeeps
<1>8. IsObject(c)
  BY <1>1, <1>5, <1>6, <1>7 DEF IsObject
<1>. QED
  BY <1>5, <1>6, <1>8 DEF n, c

(* What layout leaves of an object.                                        *)
Kept(f, e) ==
  /\ IsObject(f) /\ Len(f.secs) = Len(e.secs) /\ Len(f.segs) = Len(e.segs)
  /\ \A i \in 1 .. Len(e.secs) : SameSection(f.secs[i], e.secs[i])
  /\ \A g \in 1 .. Len(e.segs) :
       /\ f.segs[g].secs = e.segs[g].secs /\ f.segs[g].type = e.segs[g].type
       /\ f.segs[g].vaddr = e.segs[g].vaddr

LEMMA HeaderPut ==
  ASSUME NEW e, IsObject(e), NEW f, DOMAIN f = DOMAIN e, f.secs = e.secs, f.segs = e.segs,
         Numbers(f.hdr, HdrNumbers)
  PROVE  IsObject(f)
BY DEF IsObject

LEMMA HeaderKeeps ==
  ASSUME NEW e, IsObject(e)
  PROVE  LET f == LayoutHeader(e)
         IN  IsObject(f) /\ f.secs = e.secs /\ f.segs = e.segs
<1>. DEFINE f == LayoutHeader(e)
            h == e.hdr
            n == Len(e.segs)
            m == Len(e.secs)
            off == IF e.segs # << >> THEN e.hdr.ehsize ELSE 0
            k == [h EXCEPT !.phnum = n, !.phoff = off, !.shnum = m, !.shoff = 0]
<1>1. /\ n \in Nat /\ m \in Nat /\ {"hdr", "secs", "segs"} \subseteq DOMAIN e
      /\ Numbers(h, HdrNumbers) /\ off \in Nat
  BY SeqIs, HeaderHas DEF IsObject
<1>2. /\ DOMAIN k = DOMAIN h /\ \A x \in DOMAIN h : k[x] = h[x] \/ k[x] \in {n, off, m, 0}
  <2>. HIDE DEF h, n, m, off
  <2>. QED
    OBVIOUS
<1>3. Numbers(k, HdrNumbers)
  <2>. HIDE DEF k, h, n, m, off
  <2>. QED
    BY <1>1, <1>2 DEF Numbers
<1>4. DOMAIN f = DOMAIN e /\ f.hdr = k /\ f.secs = e.secs /\ f.segs = e.segs
  BY <1>1 DEF LayoutHeader
<1>. HIDE DEF f, k
<1>5. IsObject(f)
  BY <1>3, <1>4, HeaderPut
<1>. QED
  BY <1>4, <1>5 DEF f

LEMMA TableKeeps ==
  ASSUME NEW acc, DOMAIN acc = {"elf", "pos", "gen", "mem", "file", "ok"}, acc.pos \in Nat,
         IsObject(acc.elf)
  PROVE  LET t == LayoutSectionTable(acc)
         IN  /\ IsObject(t.elf) /\ t.elf.secs = acc.elf.secs /\ t.elf.segs = acc.elf.segs
             /\ t.ok = acc.ok
             /\ t.elf.hdr.shoff = X(acc.pos + Pad(acc.pos, 4))
             /\ \A x \in DOMAIN acc.elf.hdr \ {"shoff"} : t.elf.hdr[x] = acc.elf.hdr[x]
<1>. DEFINE t == LayoutSectionTable(acc)
            e == acc.elf
            h == e.hdr
            far == acc.pos + Pad(acc.pos, 4)
            at == X(far)
            k == [h EXCEPT !.shoff = at]
            f == [e EXCEPT !.hdr = k]
<1>1. at \in Nat
  <2>1. far \in Int
    <3>1. 4 \in Positive
      BY DEF Positive
    <3>. DEFINE p == Pad(acc.pos, 4)
    <3>2. p \in Nat
      BY <3>1, PadType
    <3>3. far = acc.pos + p
      OBVIOUS
    <3>. HIDE DEF p, far
    <3>. QED
      BY <3>2, <3>3
  <2>. HIDE DEF far
  <2>. QED
    BY <2>1, FieldType
<1>. HIDE DEF at
<1>2. {"hdr", "secs", "segs"} \subseteq DOMAIN e /\ Numbers(h, HdrNumbers) /\ "shoff" \in DOMAIN h
  BY HeaderHas DEF IsObject
<1>3. t.elf = [e EXCEPT !.hdr = [@ EXCEPT !.shoff = at]] /\ t.ok = acc.ok
  BY DEF LayoutSectionTable, at
<1>4. /\ DOMAIN k = DOMAIN h /\ k.shoff = at /\ \A x \in DOMAIN h \ {"shoff"} : k[x] = h[x]
  <2>. HIDE DEF h
  <2>. QED
    BY <1>2
<1>5. Numbers(k, HdrNumbers)
  <2>. HIDE DEF k, h
  <2>1. \A x \in HdrNumbers : x = "shoff" \/ x \in DOMAIN h \ {"shoff"}
    BY <1>2 DEF Numbers
  <2>. QED
    BY <1>1, <1>2, <1>4, <2>1 DEF Numbers
<1>6. t.elf = f /\ DOMAIN f = DOMAIN e /\ f.hdr = k /\ f.secs = e.secs /\ f.segs = e.segs
  <2>. HIDE DEF k
  <2>1. DOMAIN f = DOMAIN e /\ f.hdr = k /\ f.secs = e.secs /\ f.segs = e.segs
    BY <1>2
  <2>2. t.elf = f
    BY <1>2, <1>3 DEF k
  <2>. QED
    BY <2>1, <2>2
<1>. HIDE DEF t, f, k
<1>7. IsObject(f)
  BY <1>5, <1>6, HeaderPut
<1>. QED
  BY <1>3, <1>4, <1>6, <1>7 DEF t, at, h

(* The object, its sections and its segments as layout begins.             *)
Base(e) == CalcSegmentAlignment(LayoutHeader(e))

FirstAcc(e) ==
  LET h == LayoutHeader(e)
  IN  [elf |-> Base(e), pos |-> X(h.hdr.ehsize + h.hdr.phentsize * h.hdr.phnum),
       gen |-> {}, mem |-> 0, file |-> 0, ok |-> TRUE]

LEMMA BaseKeeps ==
  ASSUME NEW e, IsObject(e)
  PROVE  LET b == Base(e)
         IN  /\ IsObject(b) /\ b.hdr = LayoutHeader(e).hdr /\ b.secs = e.secs
             /\ Len(b.segs) = Len(e.segs)
             /\ \A g \in 1 .. Len(e.segs) :
                  /\ b.segs[g].secs = e.segs[g].secs /\ b.segs[g].type = e.segs[g].type
                  /\ b.segs[g].vaddr = e.segs[g].vaddr /\ b.segs[g].memsz = e.segs[g].memsz
             /\ Fresh(FirstAcc(e), b)
<1>. DEFINE h == LayoutHeader(e)
            b == Base(e)
            first == h.hdr.ehsize + h.hdr.phentsize * h.hdr.phnum
            pos == X(first)
<1>1. IsObject(h) /\ h.secs = e.secs /\ h.segs = e.segs
  BY HeaderKeeps
<1>2. /\ IsObject(b) /\ b.hdr = h.hdr /\ b.secs = h.secs /\ Len(b.segs) = Len(h.segs)
      /\ \A g \in 1 .. Len(h.segs) : b.segs[g] = Raised(h, h.segs[g])
  <2>. HIDE DEF h
  <2>. QED
    BY <1>1, AlignmentKeeps DEF Base, h
<1>3. ASSUME NEW g \in 1 .. Len(e.segs)
      PROVE  /\ b.segs[g].secs = e.segs[g].secs /\ b.segs[g].type = e.segs[g].type
             /\ b.segs[g].vaddr = e.segs[g].vaddr /\ b.segs[g].memsz = e.segs[g].memsz
  <2>. DEFINE seg == e.segs[g]
              r == Raised(h, seg)
  <2>. HIDE DEF h
  <2>1. b.segs[g] = r /\ IsSegment(seg, Len(h.secs))
    BY <1>1, <1>2 DEF IsObject
  <2>. HIDE DEF seg, b
  <2>2. \A f \in DOMAIN seg \ {"align"} : r[f] = seg[f]
    BY <1>1, <2>1, RaisedKeeps
  <2>3. {"type", "vaddr", "memsz", "secs"} \subseteq DOMAIN seg
    BY <2>1, SegmentHas
  <2>. HIDE DEF r
  <2>. QED
    BY <2>1, <2>2, <2>3 DEF seg
<1>4. pos \in Nat
  <2>1. first \in Int
    <3>1. h.hdr.ehsize \in Nat /\ h.hdr.phentsize \in Nat /\ h.hdr.phnum \in Nat
      <4>. HIDE DEF h
      <4>. QED
        BY <1>1, HeaderHas
    <3>. HIDE DEF h
    <3>. QED
      BY <3>1
  <2>. HIDE DEF first
  <2>. QED
    BY <2>1, FieldType
<1>5. Laid(b, b)
  <2>. HIDE DEF b
  <2>. QED
    BY <1>2 DEF Laid, SameSection, SameSegment
<1>6. Fresh(FirstAcc(e), b)
  <2>1. FirstAcc(e) = [elf |-> b, pos |-> pos, gen |-> {}, mem |-> 0, file |-> 0, ok |-> TRUE]
    BY DEF FirstAcc
  <2>. HIDE DEF b, pos
  <2>. QED
    BY <1>4, <1>5, <2>1 DEF Fresh, Acc
<1>. QED
  BY <1>1, <1>2, <1>3, <1>6

(* What save finds after the layout.                                       *)
LEMMA LayoutKeeps ==
  ASSUME NEW e, IsObject(e)
  PROVE  LET l == Layout(e)
         IN  /\ Kept(l.elf, e)
             /\ l.ok => /\ \A g \in 1 .. Len(e.segs) : l.elf.segs[g].memsz >= e.segs[g].memsz
                        /\ \A g \in 1 .. Len(e.segs) : \A i \in Own(e, g) :
                             i # 0 => Linked(Sec(l.elf, i), e.segs[g].vaddr, l.elf.segs[g].offset)
<1>. DEFINE b == Base(e)
            first == FirstAcc(e)
            r == LayoutSegments(first)
            a == LayoutSectionsWithoutSegments(r)
            t == LayoutSectionTable(a)
            l == Layout(e)
            n == Len(e.secs)
            G == 1 .. Len(e.segs)
<1>1. /\ IsObject(b) /\ b.secs = e.secs /\ Len(b.segs) = Len(e.segs)
      /\ \A g \in G :
           /\ b.segs[g].secs = e.segs[g].secs /\ b.segs[g].type = e.segs[g].type
           /\ b.segs[g].vaddr = e.segs[g].vaddr /\ b.segs[g].memsz = e.segs[g].memsz
      /\ Fresh(first, b)
  BY BaseKeeps
<1>2. l = IF r.ok THEN t ELSE r
  BY DEF Layout, LayoutRest, FirstAcc, Base
<1>. HIDE DEF b, first
<1>3. Acc(r, b) /\ (r.ok => Done(r, b, 1 .. Len(b.segs)))
  BY <1>1, SegmentsKeep
<1>. HIDE DEF r
<1>4. Acc(a, b) /\ Beside(a, r, b)
  BY <1>3, AloneKeeps
<1>. HIDE DEF a
<1>5. IsObject(t.elf) /\ t.elf.secs = a.elf.secs /\ t.elf.segs = a.elf.segs /\ t.ok = a.ok
  BY <1>4, TableKeeps DEF Acc, Laid
<1>. HIDE DEF t, l
<1>6. ASSUME NEW f, Laid(f, b) PROVE Kept(f, e)
  <2>1. ASSUME NEW g \in G
        PROVE  /\ f.segs[g].secs = e.segs[g].secs /\ f.segs[g].type = e.segs[g].type
               /\ f.segs[g].vaddr = e.segs[g].vaddr
    <3>1. SameSegment(f.segs[g], b.segs[g]) /\ IsSegment(f.segs[g], Len(f.secs))
      BY <1>1, <1>6 DEF Laid, IsObject
    <3>. DEFINE seg == f.segs[g]
                old == b.segs[g]
    <3>. HIDE DEF seg, old
    <3>2. seg.secs = old.secs /\ seg.type = old.type /\ seg.vaddr = old.vaddr
      <4>1. SameSegment(seg, old) /\ {"type", "vaddr", "secs"} \subseteq DOMAIN seg
        BY <3>1, SegmentHas DEF seg, old
      <4>. QED
        BY <4>1 DEF SameSegment
    <3>. QED
      BY <1>1, <3>2 DEF seg, old
  <2>. QED
    BY <1>1, <1>6, <2>1 DEF Kept, Laid
<1>7. Kept(r.elf, e) /\ Kept(a.elf, e)
  BY <1>3, <1>4, <1>6 DEF Acc
<1>8. CASE ~r.ok
  <2>1. l = r
    BY <1>2, <1>8
  <2>. QED
    BY <1>7, <1>8, <2>1 DEF l
<1>9. CASE r.ok
  <2>1. l = t
    BY <1>2, <1>9
  <2>2. Kept(l.elf, e)
    BY <1>5, <1>7, <2>1 DEF Kept
  <2>3. l.elf.segs = r.elf.segs /\ \A j : Sec(l.elf, j) = Sec(a.elf, j)
    BY <1>4, <1>5, <2>1 DEF Beside, Sec
  <2>4. Done(r, b, G)
    BY <1>1, <1>3, <1>9
  <2>5. \A g \in G : l.elf.segs[g].memsz >= e.segs[g].memsz
    BY <1>1, <2>3, <2>4 DEF Done
  <2>6. ASSUME NEW g \in G, NEW i \in Own(e, g), i # 0
        PROVE  Linked(Sec(l.elf, i), e.segs[g].vaddr, l.elf.segs[g].offset)
    <3>1. i \in Own(b, g) /\ i \in ToSet(b.segs[g].secs) /\ i \in 0 .. (Len(b.secs) - 1)
      <4>1. i \in Own(b, g)
        BY <1>1, <2>6 DEF Own
      <4>. QED
        BY <1>1, <4>1, MembersAre
    <3>2. ~IsSectionWithoutSegment(b, i)
      BY <1>1, <3>1 DEF IsSectionWithoutSegment
    <3>3. Sec(l.elf, i) = Sec(r.elf, i)
      BY <1>4, <2>3, <3>1, <3>2 DEF Beside
    <3>4. Linked(Sec(r.elf, i), b.segs[g].vaddr, r.elf.segs[g].offset)
      BY <2>4, <2>6, <3>1 DEF Done
    <3>. QED
      BY <1>1, <2>3, <3>3, <3>4
  <2>. QED
    BY <1>9, <2>2, <2>5, <2>6 DEF l
<1>. QED
  BY <1>8, <1>9

-------------------------------------------------------------------------------
(***************************************************************************)
(* What a program does to an object.                                       *)
(***************************************************************************)
LEMMA FieldSets ==
  /\ ToSet(ShdrFields) = SecNumbers /\ ToSet(PhdrFields) = SegNumbers
  /\ ToSet(EhdrFields) = HdrNumbers
BY DEF ToSet, ShdrFields, PhdrFields, EhdrFields, SecNumbers, SegNumbers, HdrNumbers

LEMMA SectionChange ==
  ASSUME NEW s, NEW i, IsSection(s, i), NEW t, DOMAIN t = DOMAIN s, t.index = s.index,
         t.data \in Seq(Nat), t.addrSet \in BOOLEAN, \A f \in SecNumbers : t[f] \in Nat
  PROVE  IsSection(t, i)
BY DEF IsSection, Numbers

LEMMA SegmentChange ==
  ASSUME NEW s, NEW n, IsSegment(s, n), NEW m \in Nat, NEW t, DOMAIN t = DOMAIN s,
         t.index \in Nat, t.secs \in Seq(0 .. (m - 1)), t.offSet \in BOOLEAN,
         \A f \in SegNumbers : t[f] \in Nat
  PROVE  IsSegment(t, m)
BY DEF IsSegment, Numbers

LEMMA ObjectPut ==
  ASSUME NEW e, IsObject(e), NEW i \in 0 .. (Len(e.secs) - 1), NEW s, IsSection(s, i), NEW t,
         t = Replace(e, i, s)
  PROVE  /\ IsObject(t) /\ Len(t.secs) = Len(e.secs) /\ t.segs = e.segs /\ t.hdr = e.hdr
         /\ Sec(t, i) = s
         /\ \A j \in 0 .. (Len(e.secs) - 1) : j # i => Sec(t, j) = Sec(e, j)
<1>. DEFINE q == e.secs
            r == [q EXCEPT ![i + 1] = s]
<1>1. {"hdr", "secs", "segs"} \subseteq DOMAIN e /\ IsSeq(q) /\ Len(q) \in Nat
  BY SeqIs DEF IsObject
<1>2. i + 1 \in 1 .. Len(q)
  BY <1>1
<1>3. /\ IsSeq(r) /\ Len(r) = Len(q) /\ r[i + 1] = s
      /\ \A j \in 1 .. Len(q) : j # i + 1 => r[j] = q[j]
  <2>. HIDE DEF q
  <2>. QED
    BY <1>1, <1>2, SeqPut
<1>4. DOMAIN t = DOMAIN e /\ t.hdr = e.hdr /\ t.segs = e.segs /\ t.secs = r
  BY <1>1 DEF Replace
<1>. HIDE DEF r
<1>5. (i + 1) - 1 = i
  OBVIOUS
<1>6. \A j \in 1 .. Len(q) : IsSection(r[j], j - 1)
  <2>. SUFFICES ASSUME NEW j \in 1 .. Len(q) PROVE IsSection(r[j], j - 1)
    OBVIOUS
  <2>1. CASE j = i + 1
    BY <1>3, <1>5, <2>1
  <2>2. CASE j # i + 1
    BY <1>1, <1>3, <2>2 DEF IsObject
  <2>. QED
    BY <2>1, <2>2
<1>7. IsObject(t)
  BY <1>1, <1>3, <1>4, <1>6 DEF IsObject
<1>8. \A j \in 0 .. (Len(e.secs) - 1) : j # i => Sec(t, j) = Sec(e, j)
  <2>1. \A j \in 0 .. (Len(e.secs) - 1) : j + 1 \in 1 .. Len(q) /\ (j # i => j + 1 # i + 1)
    BY <1>1
  <2>. QED
    BY <1>3, <1>4, <2>1 DEF Sec
<1>. QED
  BY <1>3, <1>4, <1>7, <1>8 DEF Sec

LEMMA ObjectSegment ==
  ASSUME NEW e, IsObject(e), NEW g \in 1 .. Len(e.segs), NEW s, IsSegment(s, Len(e.secs)),
         s.index = e.segs[g].index, NEW t, t = ReplaceSegment(e, g, s)
  PROVE  IsObject(t)
<1>. DEFINE q == e.segs
            r == [q EXCEPT ![g] = s]
<1>1. {"hdr", "secs", "segs"} \subseteq DOMAIN e /\ IsSeq(q) /\ g \in 1 .. Len(q)
  BY DEF IsObject
<1>2. /\ IsSeq(r) /\ Len(r) = Len(q) /\ r[g] = s
      /\ \A j \in 1 .. Len(q) : j # g => r[j] = q[j]
  <2>. HIDE DEF q
  <2>. QED
    BY ONLY <1>1, SeqPut
<1>3. DOMAIN t = DOMAIN e /\ t.hdr = e.hdr /\ t.secs = e.secs /\ t.segs = r
  BY <1>1 DEF ReplaceSegment
<1>. HIDE DEF r
<1>4. \A j \in 1 .. Len(q) : IsSegment(r[j], Len(e.secs)) /\ r[j].index = j - 1
  BY <1>1, <1>2 DEF IsObject
<1>. QED
  BY <1>1, <1>2, <1>3, <1>4 DEF IsObject

LEMMA SectionAt ==
  ASSUME NEW e, IsObject(e), NEW i \in 0 .. (Len(e.secs) - 1)
  PROVE  IsSection(Sec(e, i), i)
<1>1. Len(e.secs) \in Nat
  BY SeqIs DEF IsObject
<1>2. i + 1 \in 1 .. Len(e.secs) /\ (i + 1) - 1 = i
  BY <1>1
<1>. QED
  BY <1>2 DEF IsObject, Sec

(* One section or segment more.                                            *)
LEMMA SectionAdded ==
  ASSUME NEW e, IsObject(e), NEW s, IsSection(s, Len(e.secs)), NEW t,
         DOMAIN t = DOMAIN e, t.hdr = e.hdr, t.secs = Append(e.secs, s), t.segs = e.segs
  PROVE  IsObject(t) /\ Len(t.secs) = Len(e.secs) + 1
<1>. DEFINE q == e.secs
            r == Append(q, s)
            n == Len(q)
<1>1. {"hdr", "secs", "segs"} \subseteq DOMAIN e /\ IsSeq(q) /\ n \in Nat
  BY SeqIs DEF IsObject
<1>2. /\ IsSeq(r) /\ Len(r) = n + 1 /\ r[n + 1] = s
      /\ \A j \in 1 .. n : r[j] = q[j]
  <2>. HIDE DEF q
  <2>. QED
    BY <1>1, SeqAppend
<1>3. t.secs = r
  OBVIOUS
<1>. HIDE DEF r
<1>4. \A j \in 1 .. (n + 1) : IsSection(r[j], j - 1)
  <2>. SUFFICES ASSUME NEW j \in 1 .. (n + 1) PROVE IsSection(r[j], j - 1)
    OBVIOUS
  <2>1. CASE j = n + 1
    <3>1. (n + 1) - 1 = n
      BY <1>1
    <3>. QED
      BY <1>2, <2>1, <3>1
  <2>2. CASE j # n + 1
    <3>1. j \in 1 .. n
      BY <1>1, <2>2
    <3>. QED
      BY <1>2, <3>1 DEF IsObject
  <2>. QED
    BY <2>1, <2>2
<1>5. \A g \in 1 .. Len(e.segs) : IsSegment(e.segs[g], n + 1)
  <2>. SUFFICES ASSUME NEW g \in 1 .. Len(e.segs) PROVE IsSegment(e.segs[g], n + 1)
    OBVIOUS
  <2>. DEFINE seg == e.segs[g]
  <2>1. IsSegment(seg, n)
    BY DEF IsObject
  <2>. HIDE DEF seg
  <2>2. seg.secs \in Seq(0 .. ((n + 1) - 1))
    <3>. DEFINE S == 0 .. (n - 1)
                U == 0 .. ((n + 1) - 1)
                list == seg.secs
    <3>1. list \in Seq(S) /\ S \subseteq U
      BY <1>1, <2>1 DEF IsSegment
    <3>. HIDE DEF S, U, list
    <3>2. list \in Seq(U)
      BY <3>1, SeqMonotonic
    <3>. QED
      BY <3>2 DEF U, list
  <2>3. IsSegment(seg, n + 1)
    BY <2>1, <2>2 DEF IsSegment
  <2>. QED
    BY <2>3 DEF seg
<1>6. Len(t.secs) = n + 1
  BY <1>2, <1>3
<1>. HIDE DEF n, q
<1>7. IsSeq(t.secs) /\ (\A i \in 1 .. Len(t.secs) : IsSection(t.secs[i], i - 1))
  BY <1>2, <1>3, <1>4, <1>6
<1>8. IsObject(t)
  BY <1>1, <1>5, <1>6, <1>7 DEF IsObject
<1>. QED
  BY <1>6, <1>8 DEF n, q

LEMMA SegmentAdded ==
  ASSUME NEW e, IsObject(e), NEW s, IsSegment(s, Len(e.secs)), s.index = Len(e.segs), NEW t,
         DOMAIN t = DOMAIN e, t.hdr = e.hdr, t.secs = e.secs, t.segs = Append(e.segs, s)
  PROVE  IsObject(t) /\ Len(t.segs) = Len(e.segs) + 1
<1>. DEFINE q == e.segs
            r == Append(q, s)
            n == Len(q)
<1>1. {"hdr", "secs", "segs"} \subseteq DOMAIN e /\ IsSeq(q) /\ n \in Nat
  BY SeqIs DEF IsObject
<1>2. /\ IsSeq(r) /\ Len(r) = n + 1 /\ r[n + 1] = s
      /\ \A j \in 1 .. n : r[j] = q[j]
  <2>. HIDE DEF q
  <2>. QED
    BY <1>1, SeqAppend
<1>3. t.segs = r
  OBVIOUS
<1>. HIDE DEF r
<1>4. \A j \in 1 .. (n + 1) : IsSegment(r[j], Len(e.secs)) /\ r[j].index = j - 1
  <2>1. \A j \in 1 .. (n + 1) : (j = n + 1 /\ n = j - 1) \/ j \in 1 .. n
    BY <1>1
  <2>. QED
    BY <1>2, <2>1 DEF IsObject
<1>. QED
  BY <1>1, <1>2, <1>3, <1>4 DEF IsObject

(* What set_data, append_data and add_string leave is a section.           *)
LEMMA SetDataKeeps ==
  ASSUME NEW s, NEW i, IsSection(s, i), s.type # SHT_NOBITS, NEW raw \in Seq(Nat)
  PROVE  IsSection(SetData(s, raw), i)
<1>. DEFINE n == Len(raw)
            u == [s EXCEPT !.data = raw, !.has = TRUE, !.cap = n]
            t == [u EXCEPT !.size = u.cap, !.stream = u.cap]
<1>1. n \in Nat
  OBVIOUS
<1>2. {"data", "has", "cap", "size", "stream"} \subseteq DOMAIN s
  BY DEF IsSection, Numbers, SecNumbers
<1>3. /\ DOMAIN u = DOMAIN s /\ u.data = raw /\ u.cap = n
      /\ \A f \in DOMAIN s \ {"data", "has", "cap"} : u[f] = s[f]
  BY <1>2
<1>. HIDE DEF u, n
<1>4. /\ DOMAIN t = DOMAIN s /\ t.data = raw /\ t.size = n
      /\ \A f \in DOMAIN s \ {"data", "has", "cap", "size", "stream"} : t[f] = s[f]
  BY <1>2, <1>3
<1>5. SetData(s, raw) = t
  BY DEF SetData, u, n
<1>. HIDE DEF t
<1>6. IsSection(t, i)
  <2>1. SecNumbers \subseteq DOMAIN s /\ {"index", "addrSet"} \subseteq DOMAIN s
    BY DEF IsSection, Numbers
  <2>2. \A f \in SecNumbers : f = "size" \/ t[f] = s[f]
    BY <1>4, <2>1 DEF SecNumbers
  <2>3. \A f \in SecNumbers : t[f] \in Nat
    BY <1>1, <1>4, <2>2 DEF IsSection, Numbers
  <2>4. t.index = s.index /\ t.addrSet \in BOOLEAN
    BY <1>4, <2>1 DEF IsSection
  <2>. QED
    BY <1>4, <2>3, <2>4, SectionChange
<1>. QED
  BY <1>5, <1>6

LEMMA AppendDataKeeps ==
  ASSUME NEW s, NEW i, IsSection(s, i), s.size <= Len(s.data), NEW raw \in Seq(Nat),
         NEW t, t = AppendData(s, raw)
  PROVE  IsSection(t, i) /\ t.size <= Len(t.data)
<1>1. CASE s.type = SHT_NOBITS
  BY <1>1 DEF AppendData
<1>2. CASE s.type # SHT_NOBITS
  <2>. DEFINE n   == s.size + Len(raw)
              all == SubSeq(s.data, 1, s.size) \o raw
              cap == IF n < s.cap THEN s.cap ELSE 2 * (s.cap + Len(raw))
              str == s.stream + Len(raw)
  <2>1. s.size \in Nat /\ s.data \in Seq(Nat) /\ Len(raw) \in Nat /\ n \in Nat
    BY SectionHas
  <2>2. SubSeq(s.data, 1, s.size) \in Seq(Nat) /\ Len(SubSeq(s.data, 1, s.size)) = s.size
    BY <2>1
  <2>3. all \in Seq(Nat) /\ Len(all) = n
    BY <2>1, <2>2
  <2>4. {"data", "has", "cap", "size", "stream"} \subseteq DOMAIN s
    BY DEF IsSection, Numbers, SecNumbers
  <2>5. t = [s EXCEPT !.cap = cap, !.data = all, !.has = TRUE, !.size = n, !.stream = str]
    BY <1>2 DEF AppendData
  <2>. HIDE DEF cap, all, n, str
  <2>6. /\ DOMAIN t = DOMAIN s /\ t.data = all /\ t.size = n
        /\ \A f \in DOMAIN s \ {"data", "has", "cap", "size", "stream"} : t[f] = s[f]
    BY <2>4, <2>5
  <2>7. SecNumbers \subseteq DOMAIN s /\ {"index", "addrSet"} \subseteq DOMAIN s
    BY DEF IsSection, Numbers
  <2>8. \A f \in SecNumbers : f = "size" \/ t[f] = s[f]
    BY <2>6, <2>7 DEF SecNumbers
  <2>9. \A f \in SecNumbers : t[f] \in Nat
    BY <2>1, <2>6, <2>8 DEF IsSection, Numbers
  <2>10. t.index = s.index /\ t.addrSet \in BOOLEAN
    BY <2>6, <2>7 DEF IsSection
  <2>11. IsSection(t, i)
    BY <2>3, <2>6, <2>9, <2>10, SectionChange
  <2>. QED
    BY <2>1, <2>3, <2>6, <2>11
<1>. QED
  BY <1>1, <1>2

LEMMA AddStringKeeps ==
  ASSUME NEW s, NEW i, IsSection(s, i), s.size <= Len(s.data), NEW str \in Seq(Nat),
         NEW t, t = AddString(s, str)
  PROVE  IsSection(t, i) /\ t.size <= Len(t.data)
<1>. DEFINE u == IF s.size = 0 THEN AppendData(s, <<0>>) ELSE s
            raw == Append(str, 0)
<1>1. <<0>> \in Seq(Nat) /\ raw \in Seq(Nat)
  OBVIOUS
<1>2. IsSection(u, i) /\ u.size <= Len(u.data)
  <2>1. CASE s.size = 0
    <3>1. u = AppendData(s, <<0>>)
      BY <2>1
    <3>. HIDE DEF u
    <3>. QED
      BY <1>1, <3>1, AppendDataKeeps
  <2>2. CASE s.size # 0
    BY <2>2
  <2>. QED
    BY <2>1, <2>2
<1>3. t = AppendData(u, raw)
  BY DEF AddString
<1>. HIDE DEF u, raw
<1>. QED
  BY <1>1, <1>2, <1>3, AppendDataKeeps

(* A new section and a new segment.                                        *)
LEMMA NewKeeps ==
  ASSUME NEW n \in Nat
  PROVE  /\ IsSection([NewSection EXCEPT !.index = n], n)
         /\ NewSection.size = 0 /\ NewSection.data = << >>
         /\ \A m \in Nat : IsSegment([NewSegment EXCEPT !.index = n], m)
<1>1. /\ DOMAIN NewSection = SecNumbers \cup DOMAIN Buffer
      /\ DOMAIN Buffer = {"index", "label", "data", "has", "cap", "addrSet", "stream"}
      /\ DOMAIN NewSegment = SegNumbers \cup DOMAIN Bare
      /\ DOMAIN Bare = {"index", "data", "has", "secs", "offSet"}
  BY FieldSets DEF NewSection, NewSegment, Buffer, Bare
<1>2. /\ \A f \in SecNumbers : NewSection[f] = 0
      /\ NewSection.data = << >> /\ NewSection.addrSet = FALSE
  BY <1>1, FieldSets DEF NewSection, Buffer, SecNumbers
<1>3. /\ \A f \in SegNumbers : NewSegment[f] = 0
      /\ NewSegment.secs = << >> /\ NewSegment.offSet = FALSE
  BY <1>1, FieldSets DEF NewSegment, Bare, SegNumbers
<1>4. IsSection([NewSection EXCEPT !.index = n], n)
  <2>. DEFINE s == NewSection
              t == [s EXCEPT !.index = n]
  <2>1. DOMAIN t = DOMAIN s /\ t.index = n /\ \A f \in DOMAIN s \ {"index"} : t[f] = s[f]
    <3>. HIDE DEF s
    <3>. QED
      BY <1>1 DEF s
  <2>2. SecNumbers \subseteq DOMAIN s \ {"index"} /\ {"data", "addrSet"} \subseteq DOMAIN s \ {"index"}
    BY <1>1 DEF SecNumbers
  <2>. HIDE DEF t, s
  <2>3. << >> \in Seq(Nat) /\ FALSE \in BOOLEAN /\ 0 \in Nat
    OBVIOUS
  <2>4. s = NewSection
    BY DEF s
  <2>5. Numbers(t, SecNumbers)
    BY <1>2, <2>1, <2>2, <2>3, <2>4 DEF Numbers
  <2>6. t.data = << >> /\ t.addrSet = FALSE
    BY <1>2, <2>1, <2>2, <2>4
  <2>7. {"label", "data", "has", "cap", "index", "addrSet", "stream"} \subseteq DOMAIN t
    BY <1>1, <2>1, <2>4
  <2>8. IsSection(t, n)
    BY <2>1, <2>3, <2>5, <2>6, <2>7 DEF IsSection
  <2>. QED
    BY <2>8 DEF t, s
<1>5. ASSUME NEW m \in Nat PROVE IsSegment([NewSegment EXCEPT !.index = n], m)
  <2>. DEFINE s == NewSegment
              t == [s EXCEPT !.index = n]
  <2>1. DOMAIN t = DOMAIN s /\ t.index = n /\ \A f \in DOMAIN s \ {"index"} : t[f] = s[f]
    <3>. HIDE DEF s
    <3>. QED
      BY <1>1 DEF s
  <2>2. SegNumbers \subseteq DOMAIN s \ {"index"} /\ {"secs", "offSet"} \subseteq DOMAIN s \ {"index"}
    BY <1>1 DEF SegNumbers
  <2>. HIDE DEF t, s
  <2>3. << >> \in Seq(0 .. (m - 1)) /\ FALSE \in BOOLEAN /\ 0 \in Nat
    BY EmptySeq
  <2>4. s = NewSegment
    BY DEF s
  <2>5. Numbers(t, SegNumbers)
    BY <1>3, <2>1, <2>2, <2>3, <2>4 DEF Numbers
  <2>6. t.secs = << >> /\ t.offSet = FALSE
    BY <1>3, <2>1, <2>2, <2>4
  <2>7. {"data", "has", "index", "secs", "offSet"} \subseteq DOMAIN t
    BY <1>1, <2>1, <2>4
  <2>8. IsSegment(t, m)
    BY <2>1, <2>3, <2>5, <2>6, <2>7 DEF IsSegment
  <2>. QED
    BY <2>8 DEF t, s
<1>. QED
  BY <1>2, <1>4, <1>5 DEF SecNumbers

(* Sections::add, for an object whose table of names is in memory or is    *)
(* the new section itself.                                                 *)
NamesInMemory(e) ==
  LET k == e.hdr.shstrndx
  IN  \/ k = Len(e.secs)
      \/ k < Len(e.secs) /\ Sec(e, k).size <= Len(Sec(e, k).data)

LEMMA CreateSectionKeeps ==
  ASSUME NEW e, IsObject(e), NEW t, t = CreateSection(e)
  PROVE  /\ IsObject(t) /\ Len(t.secs) = Len(e.secs) + 1 /\ t.hdr = e.hdr /\ t.segs = e.segs
         /\ Sec(t, Len(e.secs)).size = 0 /\ Sec(t, Len(e.secs)).data = << >>
         /\ \A i \in 0 .. (Len(e.secs) - 1) : Sec(t, i) = Sec(e, i)
<1>. DEFINE n == Len(e.secs)
            q == e.secs
            s == [NewSection EXCEPT !.index = n]
<1>1. n \in Nat /\ IsSeq(q) /\ Len(q) = n /\ {"hdr", "secs", "segs"} \subseteq DOMAIN e
  BY SeqIs DEF IsObject
<1>2. IsSection(s, n) /\ s.size = 0 /\ s.data = << >>
  <2>1. IsSection(s, n)
    BY <1>1, NewKeeps
  <2>2. s.size = NewSection.size /\ s.data = NewSection.data
    <3>. DEFINE u == NewSection
    <3>. HIDE DEF u
    <3>. QED
      OBVIOUS
  <2>. QED
    BY <1>1, <2>1, <2>2, NewKeeps
<1>. HIDE DEF s, q
<1>3. DOMAIN t = DOMAIN e /\ t.hdr = e.hdr /\ t.secs = Append(q, s) /\ t.segs = e.segs
  BY <1>1 DEF CreateSection, q, s
<1>4. IsObject(t) /\ Len(t.secs) = n + 1
  BY <1>2, <1>3, SectionAdded DEF q
<1>5. Append(q, s)[n + 1] = s /\ \A j \in 1 .. n : Append(q, s)[j] = q[j]
  BY <1>1, SeqAppend
<1>6. \A i \in 0 .. (n - 1) : i + 1 \in 1 .. n
  BY <1>1
<1>. HIDE DEF n
<1>. QED
  BY <1>2, <1>3, <1>4, <1>5, <1>6 DEF Sec, n, q

LEMMA AddSectionKeeps ==
  ASSUME NEW e, IsObject(e), NamesInMemory(e), NEW name \in Seq(Nat),
         NEW t, t = AddSection(e, name)
  PROVE  IsObject(t) /\ Len(t.secs) = Len(e.secs) + 1 /\ t.segs = e.segs /\ t.hdr = e.hdr
<1>. DEFINE c     == CreateSection(e)
            n     == Len(e.secs)
            k     == e.hdr.shstrndx
            next  == NextString(Sec(c, k))
            new   == Sec(c, n)
            given == [new EXCEPT !.label = name, !.name = next]
            named == Replace(c, n, given)
            str   == AddString(Sec(named, k), name)
<1>1. /\ IsObject(c) /\ Len(c.secs) = n + 1 /\ c.hdr = e.hdr /\ c.segs = e.segs
      /\ Sec(c, n).size = 0 /\ Sec(c, n).data = << >>
      /\ \A i \in 0 .. (n - 1) : Sec(c, i) = Sec(e, i)
  BY CreateSectionKeeps
<1>2. n \in Nat /\ k \in Nat
  BY SeqIs DEF IsObject, Numbers, HdrNumbers
<1>3. t = Replace(named, k, str)
  BY <1>1 DEF AddSection
<1>. HIDE DEF c, str, named
<1>4. k \in 0 .. n /\ Sec(c, k).size <= Len(Sec(c, k).data)
  <2>1. CASE k = n
    <3>1. Len(<< >>) = 0 /\ k \in 0 .. n
      BY <1>2, <2>1
    <3>. QED
      BY <1>1, <2>1, <3>1
  <2>2. CASE k < n
    <3>1. k \in 0 .. (n - 1) /\ k \in 0 .. n
      BY <1>2, <2>2
    <3>. QED
      <4>. HIDE DEF n, k
      <4>1. Sec(e, k).size <= Len(Sec(e, k).data)
        BY <1>2, <2>2 DEF NamesInMemory, n, k
      <4>2. Sec(c, k) = Sec(e, k)
        BY <1>1, <3>1
      <4>. QED
        BY <3>1, <4>1, <4>2
  <2>. QED
    BY <2>1, <2>2 DEF NamesInMemory
<1>5. IsSection(Sec(c, k), k) /\ IsSection(new, n)
  <2>1. k \in 0 .. (Len(c.secs) - 1) /\ n \in 0 .. (Len(c.secs) - 1)
    BY <1>1, <1>2, <1>4
  <2>. QED
    BY <1>1, <2>1, SectionAt
<1>6. next \in Nat
  BY <1>5, SectionHas DEF NextString
<1>. HIDE DEF next, new
<1>7. IsSection(given, n) /\ given.size = new.size /\ given.data = new.data
  <2>1. {"label", "name", "index", "addrSet", "data"} \subseteq DOMAIN new /\ SecNumbers \subseteq DOMAIN new
    BY <1>5 DEF IsSection, Numbers, SecNumbers
  <2>2. /\ DOMAIN given = DOMAIN new /\ given.name = next
        /\ \A f \in DOMAIN new \ {"label", "name"} : given[f] = new[f]
    BY <2>1
  <2>. HIDE DEF given
  <2>3. \A f \in SecNumbers : f = "name" \/ f \in DOMAIN new \ {"label", "name"}
    BY <2>1 DEF SecNumbers
  <2>4. \A f \in SecNumbers : given[f] \in Nat
    BY <1>5, <1>6, <2>2, <2>3 DEF IsSection, Numbers
  <2>5. given.index = new.index /\ given.data = new.data /\ given.addrSet = new.addrSet
    BY <2>1, <2>2
  <2>6. IsSection(given, n)
    BY <1>5, <2>2, <2>4, <2>5, SectionChange DEF IsSection
  <2>7. "size" \in DOMAIN new \ {"label", "name"}
    BY <2>1 DEF SecNumbers
  <2>. QED
    BY <2>2, <2>5, <2>6, <2>7
<1>. HIDE DEF given
<1>8. /\ IsObject(named) /\ Len(named.secs) = Len(c.secs) /\ named.segs = c.segs
      /\ named.hdr = c.hdr /\ Sec(named, n) = given
      /\ \A j \in 0 .. (Len(c.secs) - 1) : j # n => Sec(named, j) = Sec(c, j)
  <2>1. n \in 0 .. (Len(c.secs) - 1)
    BY <1>1, <1>2
  <2>2. named = Replace(c, n, given)
    BY DEF named
  <2>. HIDE DEF n
  <2>. QED
    BY <1>1, <1>7, <2>1, <2>2, ObjectPut
<1>9. IsSection(Sec(named, k), k) /\ Sec(named, k).size <= Len(Sec(named, k).data)
  <2>1. k \in 0 .. (Len(c.secs) - 1)
    BY <1>1, <1>2, <1>4
  <2>2. CASE k = n
    BY <1>4, <1>7, <1>8, <2>2 DEF new
  <2>3. CASE k # n
    BY <1>4, <1>5, <1>8, <2>1, <2>3
  <2>. QED
    BY <2>2, <2>3
<1>10. IsSection(str, k)
  <2>. DEFINE u == Sec(named, k)
  <2>1. str = AddString(u, name)
    BY DEF str
  <2>2. IsSection(u, k) /\ u.size <= Len(u.data)
    BY <1>9
  <2>. HIDE DEF u
  <2>. QED
    BY <2>1, <2>2, AddStringKeeps
<1>11. k \in 0 .. (Len(named.secs) - 1)
  BY <1>1, <1>2, <1>4, <1>8
<1>12. IsObject(t) /\ Len(t.secs) = Len(named.secs) /\ t.segs = named.segs /\ t.hdr = named.hdr
  <2>. HIDE DEF k
  <2>. QED
    BY <1>3, <1>8, <1>10, <1>11, ObjectPut
<1>. QED
  BY <1>1, <1>8, <1>12

(* An object that create or the constructor makes.                         *)
LEMMA CreateIsObject ==
  ASSUME NEW class \in Nat, NEW encoding \in Nat, NEW t, t = Create(class, encoding)
  PROVE  IsObject(t)
<1>. DEFINE h == CreateHeader(class, encoding)
            a == [hdr |-> h, secs |-> << >>, segs |-> << >>]
            b == CreateSection(a)
            e == AddSection(b, SHSTRTAB)
            s == Sec(e, 1)
            u == [s EXCEPT !.type = SHT_STRTAB, !.align = 1]
<1>1. Numbers(h, HdrNumbers) /\ h.shstrndx = 1
  <2>. DEFINE z == [f \in HdrNumbers |-> 0]
  <2>1. h = [z EXCEPT !.magic = MAGIC, !.class = class, !.data = encoding, !.version = 1,
               !.ehsize = EhdrSize, !.shstrndx = 1, !.phentsize = PhdrSize,
               !.shentsize = ShdrSize]
    BY FieldSets DEF CreateHeader
  <2>2. EhdrSize = 16 /\ PhdrSize = 8 /\ ShdrSize = 10
    BY DEF EhdrSize, PhdrSize, ShdrSize, EhdrFields, PhdrFields, ShdrFields
  <2>. HIDE DEF h
  <2>3. DOMAIN h = HdrNumbers
    BY <2>1
  <2>4. \A f \in HdrNumbers : h[f] \in {0, MAGIC, class, encoding, 1, 16, 8, 10}
    BY <2>1, <2>2
  <2>5. h.shstrndx = 1
    BY <2>1 DEF HdrNumbers
  <2>. QED
    BY <2>3, <2>4, <2>5 DEF Numbers, MAGIC
<1>. HIDE DEF h
<1>2. IsObject(a) /\ Len(a.secs) = 0 /\ a.hdr = h
  <2>1. IsSeq(<< >>) /\ Len(<< >>) = 0
    BY EmptySeq DEF IsSeq
  <2>. QED
    BY <1>1, <2>1 DEF IsObject
<1>. HIDE DEF a
<1>3. IsObject(b) /\ Len(b.secs) = 1 /\ b.hdr = h
  <2>1. b = CreateSection(a)
    BY DEF b
  <2>. HIDE DEF b
  <2>2. IsObject(b) /\ Len(b.secs) = Len(a.secs) + 1 /\ b.hdr = a.hdr
    BY <1>2, <2>1, CreateSectionKeeps
  <2>. QED
    BY <1>2, <2>2
<1>. HIDE DEF b
<1>4. NamesInMemory(b)
  BY <1>1, <1>3 DEF NamesInMemory
<1>5. SHSTRTAB \in Seq(Nat)
  BY DEF SHSTRTAB
<1>6. IsObject(e) /\ Len(e.secs) = 2
  <2>1. e = AddSection(b, SHSTRTAB)
    BY DEF e
  <2>. HIDE DEF e
  <2>2. IsObject(e) /\ Len(e.secs) = Len(b.secs) + 1
    BY <1>3, <1>4, <1>5, <2>1, AddSectionKeeps
  <2>. QED
    BY <1>3, <2>2
<1>. HIDE DEF e
<1>7. IsSection(s, 1)
  <2>1. 1 \in 0 .. (Len(e.secs) - 1)
    BY <1>6
  <2>. QED
    BY <1>6, <2>1, SectionAt
<1>. HIDE DEF s
<1>8. IsSection(u, 1)
  <2>1. {"type", "align", "index", "addrSet", "data"} \subseteq DOMAIN s /\ SecNumbers \subseteq DOMAIN s
    BY <1>7 DEF IsSection, Numbers, SecNumbers
  <2>2. /\ DOMAIN u = DOMAIN s /\ u.type = SHT_STRTAB /\ u.align = 1
        /\ \A f \in DOMAIN s \ {"type", "align"} : u[f] = s[f]
    BY <2>1
  <2>. HIDE DEF u
  <2>3. \A f \in SecNumbers : f \in {"type", "align"} \/ f \in DOMAIN s \ {"type", "align"}
    BY <2>1
  <2>4. \A f \in SecNumbers : u[f] \in Nat
    BY <1>7, <2>2, <2>3 DEF IsSection, Numbers, SHT_STRTAB
  <2>5. u.index = s.index /\ u.data = s.data /\ u.addrSet = s.addrSet
    BY <2>1, <2>2
  <2>. QED
    BY <1>7, <2>2, <2>4, <2>5, SectionChange DEF IsSection
<1>9. t = Replace(e, 1, u)
  BY DEF Create, CreateMandatorySections, e, s, u, b, a, h
<1>. HIDE DEF u
<1>10. 1 \in 0 .. (Len(e.secs) - 1)
  BY <1>6
<1>. QED
  <2>1. IsObject(e)
    BY <1>6
  <2>. QED
    BY ONLY <2>1, <1>8, <1>9, <1>10, ObjectPut

(* Each call that changes the object.                                      *)
LEMMA CellsType ==
  ASSUME NEW i \in Nat, NEW n \in Nat
  PROVE  Cells(i, n) \in Seq(Nat)
<1>. DEFINE q == [c \in 1 .. n |-> i]
<1>1. q \in [1 .. n -> Nat]
  OBVIOUS
<1>2. q \in UNION {[1 .. m -> Nat] : m \in Nat}
  BY ONLY <1>1
<1>3. q \in Seq(Nat)
  BY ONLY <1>2, SeqDef, Zenon
<1>. QED
  BY <1>3 DEF Cells

LEMMA JoinKeeps ==
  ASSUME NEW e, IsObject(e), NEW g \in 1 .. Len(e.segs), NEW i \in 1 .. Len(e.secs),
         NEW t, t = Join(e, g, i)
  PROVE  IsObject(t)
<1>. DEFINE seg == e.segs[g]
            sec == e.secs[i]
            n   == Len(e.secs)
            al  == IF sec.align > seg.align THEN sec.align ELSE seg.align
            s   == AddSectionIndex(seg, sec.index, sec.align)
<1>1. n \in Nat /\ IsSegment(seg, n) /\ IsSection(sec, i - 1) /\ i - 1 \in 0 .. (n - 1)
  BY SeqIs DEF IsObject
<1>2. t = ReplaceSegment(e, g, s)
  BY DEF Join
<1>. HIDE DEF seg, sec, n
<1>3. /\ seg.secs \in Seq(0 .. (n - 1)) /\ {"secs", "align"} \subseteq DOMAIN seg
      /\ sec.index \in 0 .. (n - 1) /\ sec.align \in Nat /\ seg.align \in Nat
  BY <1>1, SegmentHas, SectionHas
<1>. DEFINE l == Append(seg.secs, sec.index)
<1>4. l \in Seq(0 .. (n - 1)) /\ al \in Nat
  <2>. DEFINE S == 0 .. (n - 1)
              q == seg.secs
              x == sec.index
  <2>1. q \in Seq(S) /\ x \in S
    BY <1>3
  <2>. HIDE DEF S, q, x
  <2>2. Append(q, x) \in Seq(S)
    BY <2>1, AppendProperties
  <2>. QED
    BY <1>3, <2>2 DEF S, q, x
<1>5. s = [seg EXCEPT !.secs = l, !.align = al]
  BY <1>3 DEF AddSectionIndex
<1>. HIDE DEF s, l, al
<1>6. DOMAIN s = DOMAIN seg /\ s.secs = l /\ s.align = al
      /\ \A f \in DOMAIN seg \ {"secs", "align"} : s[f] = seg[f]
  BY <1>3, <1>5
<1>7. IsSegment(s, n)
  <2>1. SegNumbers \subseteq DOMAIN seg /\ {"index", "offSet"} \subseteq DOMAIN seg \ {"secs", "align"}
    BY <1>1 DEF IsSegment, Numbers
  <2>2. \A f \in SegNumbers : f = "align" \/ f \in DOMAIN seg \ {"secs", "align"}
    BY <2>1 DEF SegNumbers
  <2>3. \A f \in SegNumbers : s[f] \in Nat
    BY <1>1, <1>4, <1>6, <2>2 DEF IsSegment, Numbers
  <2>4. s.index = seg.index /\ s.offSet = seg.offSet
    BY <1>6, <2>1
  <2>5. s.index \in Nat /\ s.offSet \in BOOLEAN
    BY <1>1, <2>4 DEF IsSegment
  <2>. QED
    BY <1>1, <1>4, <1>6, <2>3, <2>5, SegmentChange
<1>. QED
  <2>1. s.index = seg.index
    BY <1>1, <1>6 DEF IsSegment
  <2>. QED
    BY <1>2, <1>7, <2>1, ObjectSegment DEF n, seg

LEMMA NewSecKeeps ==
  ASSUME IsObject(elf), NEW k \in Kinds, NEW n \in Sizes, NEW g \in {0} \cup Holders,
         NewSec(k, n, g)
  PROVE  IsObject(elf')
<1>. DEFINE e == AddSection(elf, k.label)
            i == Len(e.secs)
            s == e.secs[i]
            described == [s EXCEPT !.type = k.type, !.flags = k.flags, !.align = k.align]
            filled == IF k.type = SHT_NOBITS THEN [described EXCEPT !.size = n]
                      ELSE SetData(described, Cells(i, n))
            t == Replace(e, i - 1, filled)
<1>1. k.label \in Seq(Nat) /\ {k.type, k.flags, k.align} \subseteq Nat /\ n \in Nat
  BY ElfFileAssumption
<1>2. InMemory(elf.hdr.shstrndx) /\ elf' = (IF g = 0 THEN t ELSE Join(t, g, i))
  BY DEF NewSec, Edited
<1>3. NamesInMemory(elf)
  BY <1>2 DEF InMemory, NamesInMemory
<1>4. IsObject(e) /\ i = Len(elf.secs) + 1 /\ e.segs = elf.segs
  BY <1>1, <1>3, AddSectionKeeps
<1>. HIDE DEF e
<1>5. i \in Nat /\ i > 0 /\ IsSection(s, i - 1)
  <2>1. Len(elf.secs) \in Nat
    BY SeqIs DEF IsObject
  <2>. QED
    BY <1>4, <2>1 DEF IsObject
<1>. HIDE DEF s
<1>. DEFINE j == i - 1
<1>6. /\ IsSection(described, j) /\ described.type = k.type
      /\ DOMAIN described = DOMAIN s
  <2>1. SecNumbers \subseteq DOMAIN s /\ {"index", "data", "addrSet"} \subseteq DOMAIN s \ SecNumbers
    BY <1>5 DEF IsSection, Numbers, SecNumbers
  <2>2. /\ DOMAIN described = DOMAIN s
        /\ described.type = k.type /\ described.flags = k.flags /\ described.align = k.align
        /\ \A f \in DOMAIN s \ {"type", "flags", "align"} : described[f] = s[f]
    BY <2>1 DEF SecNumbers
  <2>. HIDE DEF described
  <2>3. \A f \in SecNumbers : f \in {"type", "flags", "align"} \/ described[f] = s[f]
    BY <2>1, <2>2
  <2>4. \A f \in SecNumbers : described[f] \in Nat
    BY <1>1, <1>5, <2>2, <2>3 DEF IsSection, Numbers
  <2>5. \A f \in {"index", "data", "addrSet"} : f \in DOMAIN s \ {"type", "flags", "align"}
    BY <2>1 DEF SecNumbers
  <2>6. described.index = s.index /\ described.data = s.data /\ described.addrSet = s.addrSet
    BY <2>2, <2>5
  <2>. QED
    BY <1>5, <2>2, <2>4, <2>6, SectionChange DEF IsSection
<1>. HIDE DEF described
<1>7. IsSection(filled, j)
  <2>1. CASE k.type = SHT_NOBITS
    <3>. DEFINE u == [described EXCEPT !.size = n]
    <3>1. SecNumbers \subseteq DOMAIN described /\ {"index", "data", "addrSet"} \subseteq DOMAIN described
      BY <1>6 DEF IsSection, Numbers
    <3>2. /\ DOMAIN u = DOMAIN described /\ u.size = n
          /\ \A f \in DOMAIN described \ {"size"} : u[f] = described[f]
      BY <3>1 DEF SecNumbers
    <3>. HIDE DEF u
    <3>3. \A f \in SecNumbers : f = "size" \/ u[f] = described[f]
      BY <3>1, <3>2
    <3>4. \A f \in SecNumbers : u[f] \in Nat
      BY <1>1, <1>6, <3>2, <3>3 DEF IsSection, Numbers
    <3>5. u.index = described.index /\ u.data = described.data /\ u.addrSet = described.addrSet
      BY <3>1, <3>2
    <3>6. IsSection(u, j)
      BY <1>6, <3>2, <3>4, <3>5, SectionChange DEF IsSection
    <3>7. filled = u
      BY <2>1 DEF u
    <3>. QED
      BY <3>6, <3>7
  <2>2. CASE k.type # SHT_NOBITS
    <3>. DEFINE raw == Cells(i, n)
    <3>1. raw \in Seq(Nat)
      BY <1>1, <1>5, CellsType
    <3>. HIDE DEF raw, j
    <3>2. IsSection(SetData(described, raw), j)
      BY <1>6, <2>2, <3>1, SetDataKeeps
    <3>. QED
      BY <2>2, <3>2 DEF raw
  <2>. QED
    BY <2>1, <2>2
<1>. HIDE DEF filled
<1>8. IsObject(t) /\ Len(t.secs) = i /\ t.segs = elf.segs
  <2>1. t = Replace(e, j, filled) /\ j \in 0 .. (Len(e.secs) - 1)
    BY <1>5
  <2>. HIDE DEF t, j
  <2>. QED
    BY <1>4, <1>7, <2>1, ObjectPut
<1>. HIDE DEF t
<1>9. CASE g = 0
  BY <1>2, <1>8, <1>9
<1>10. CASE g # 0
  <2>1. g \in 1 .. Len(t.segs)
    BY <1>8, <1>10 DEF Holders
  <2>2. i \in 1 .. Len(t.secs)
    BY <1>5, <1>8
  <2>3. elf' = Join(t, g, i)
    BY <1>2, <1>10
  <2>. HIDE DEF i
  <2>. QED
    BY <1>8, <2>1, <2>2, <2>3, JoinKeeps
<1>. QED
  BY <1>9, <1>10

LEMMA SectionEditKeeps ==
  ASSUME IsObject(elf), NEW i \in UserSections, NEW s, IsSection(s, i - 1),
         Edited(Replace(elf, i - 1, s))
  PROVE  IsObject(elf')
<1>1. elf' = Replace(elf, i - 1, s)
  BY DEF Edited
<1>. DEFINE j == i - 1
<1>2. j \in 0 .. (Len(elf.secs) - 1)
  <2>1. Len(elf.secs) \in Nat
    BY SeqIs DEF IsObject
  <2>. QED
    BY <2>1 DEF UserSections
<1>. HIDE DEF j
<1>. QED
  BY <1>1, <1>2, ObjectPut DEF j

LEMMA CellEditsKeep ==
  ASSUME IsObject(elf), NEW i \in UserSections, NEW n \in {0} \cup Sizes,
         Write(i, n) \/ Extend(i, n) \/ Resize(i, n)
  PROVE  IsObject(elf')
<1>. DEFINE s == elf.secs[i]
            j == i - 1
<1>1. n \in Nat
  BY ElfFileAssumption
<1>2. i \in Nat /\ IsSection(s, j)
  <2>1. Len(elf.secs) \in Nat /\ i \in 1 .. Len(elf.secs)
    BY SeqIs DEF IsObject, UserSections
  <2>. QED
    BY <2>1 DEF IsObject
<1>3. {"size", "addr", "addrSet", "data", "index"} \subseteq DOMAIN s /\ SecNumbers \subseteq DOMAIN s
  BY <1>2 DEF IsSection, Numbers, SecNumbers
<1>4. Cells(i, n) \in Seq(Nat)
  BY <1>1, <1>2, CellsType
<1>5. CASE Write(i, n)
  <2>. DEFINE t == SetData(s, Cells(i, n))
  <2>1. Edited(Replace(elf, j, t)) /\ s.type # SHT_NOBITS
    BY <1>5 DEF Write, HasBits
  <2>. HIDE DEF s, j
  <2>2. IsSection(t, j)
    BY <1>2, <1>4, <2>1, SetDataKeeps
  <2>. HIDE DEF t
  <2>. QED
    BY <2>1, <2>2, SectionEditKeeps DEF j
<1>6. CASE Extend(i, n)
  <2>. DEFINE t == AppendData(s, Cells(i, n))
  <2>1. Edited(Replace(elf, j, t)) /\ InMemory(j)
    BY <1>6 DEF Extend
  <2>2. s.size <= Len(s.data)
    <3>1. (i - 1) + 1 = i
      BY <1>2
    <3>. QED
      BY <2>1, <3>1 DEF InMemory, Sec
  <2>. HIDE DEF s, j
  <2>3. IsSection(t, j)
    BY <1>2, <1>4, <2>2, AppendDataKeeps
  <2>. HIDE DEF t
  <2>. QED
    BY <2>1, <2>3, SectionEditKeeps DEF j
<1>7. CASE Resize(i, n)
  <2>. DEFINE t == [s EXCEPT !.size = n]
  <2>1. Edited(Replace(elf, j, t))
    BY <1>7 DEF Resize
  <2>. HIDE DEF s, j
  <2>2. DOMAIN t = DOMAIN s /\ t.size = n /\ \A f \in DOMAIN s \ {"size"} : t[f] = s[f]
    BY <1>3
  <2>. HIDE DEF t
  <2>3. \A f \in SecNumbers : f = "size" \/ t[f] = s[f]
    BY <1>3, <2>2
  <2>4. \A f \in SecNumbers : t[f] \in Nat
    BY <1>1, <1>2, <2>2, <2>3 DEF IsSection, Numbers
  <2>5. t.index = s.index /\ t.data = s.data /\ t.addrSet = s.addrSet
    BY <1>3, <2>2
  <2>6. IsSection(t, j)
    BY <1>2, <2>2, <2>4, <2>5, SectionChange DEF IsSection
  <2>. QED
    BY <2>1, <2>6, SectionEditKeeps DEF j
<1>. QED
  BY <1>5, <1>6, <1>7

LEMMA PlaceKeeps ==
  ASSUME IsObject(elf), NEW i \in UserSections, NEW a \in Addresses, Place(i, a)
  PROVE  IsObject(elf')
<1>. DEFINE s == elf.secs[i]
            j == i - 1
            t == SetAddress(s, a)
<1>1. a \in Nat
  BY ElfFileAssumption
<1>2. IsSection(s, j)
  <2>1. Len(elf.secs) \in Nat /\ i \in 1 .. Len(elf.secs)
    BY SeqIs DEF IsObject, UserSections
  <2>. QED
    BY <2>1 DEF IsObject
<1>3. {"addr", "addrSet", "data", "index"} \subseteq DOMAIN s /\ SecNumbers \subseteq DOMAIN s
  BY <1>2 DEF IsSection, Numbers, SecNumbers
<1>4. Edited(Replace(elf, j, t))
  BY DEF Place
<1>. HIDE DEF s, j
<1>5. /\ DOMAIN t = DOMAIN s /\ t.addr = a /\ t.addrSet = TRUE
      /\ \A f \in DOMAIN s \ {"addr", "addrSet"} : t[f] = s[f]
  BY <1>3 DEF SetAddress
<1>. HIDE DEF t
<1>6. \A f \in SecNumbers : f = "addr" \/ t[f] = s[f]
  BY <1>3, <1>5 DEF SecNumbers
<1>7. \A f \in SecNumbers : t[f] \in Nat
  BY <1>1, <1>2, <1>5, <1>6 DEF IsSection, Numbers
<1>8. t.index = s.index /\ t.data = s.data
  BY <1>3, <1>5
<1>9. IsSection(t, j)
  BY <1>2, <1>5, <1>7, <1>8, SectionChange DEF IsSection
<1>. QED
  BY <1>4, <1>9, SectionEditKeeps DEF j

LEMMA SegmentsGrow ==
  ASSUME IsObject(elf)
  PROVE  /\ \A k \in Ranges : NewSeg(k) => IsObject(elf')
         /\ \A g \in Holders, i \in UserSections : Attach(g, i) => IsObject(elf')
<1>1. ASSUME NEW k \in Ranges, NewSeg(k) PROVE IsObject(elf')
  <2>. DEFINE e == CreateSegment(elf)
              n == Len(e.segs)
              s == e.segs[n]
              m == Len(elf.segs)
              new == [NewSegment EXCEPT !.index = m]
              t == [s EXCEPT !.type = k.type, !.vaddr = k.vaddr, !.align = k.align]
  <2>1. {k.type, k.vaddr, k.align} \subseteq Nat
    BY ElfFileAssumption
  <2>2. elf' = ReplaceSegment(e, n, t)
    BY <1>1 DEF NewSeg, Edited
  <2>3. m \in Nat /\ Len(elf.secs) \in Nat /\ {"hdr", "secs", "segs"} \subseteq DOMAIN elf
        /\ IsSeq(elf.segs)
    BY SeqIs DEF IsObject
  <2>4. IsSegment(new, Len(elf.secs)) /\ new.index = m
    <3>1. "index" \in DOMAIN NewSegment
      BY DEF NewSegment, Bare
    <3>. QED
      BY <2>3, <3>1, NewKeeps
  <2>. HIDE DEF new
  <2>5. DOMAIN e = DOMAIN elf /\ e.hdr = elf.hdr /\ e.secs = elf.secs /\ e.segs = Append(elf.segs, new)
    BY <2>3 DEF CreateSegment, new
  <2>. HIDE DEF e
  <2>6. IsObject(e) /\ n = m + 1
    BY <2>4, <2>5, SegmentAdded
  <2>7. IsSegment(s, Len(e.secs)) /\ n \in 1 .. Len(e.segs)
    BY <2>3, <2>6 DEF IsObject
  <2>. HIDE DEF s, n
  <2>8. {"type", "vaddr", "align"} \subseteq DOMAIN s /\ SegNumbers \subseteq DOMAIN s
        /\ {"index", "secs", "offSet"} \subseteq DOMAIN s
    BY <2>7 DEF IsSegment, Numbers, SegNumbers
  <2>9. /\ DOMAIN t = DOMAIN s /\ t.type = k.type /\ t.vaddr = k.vaddr /\ t.align = k.align
        /\ \A f \in DOMAIN s \ {"type", "vaddr", "align"} : t[f] = s[f]
    BY <2>8
  <2>. HIDE DEF t
  <2>10. \A f \in SegNumbers : f \in {"type", "vaddr", "align"} \/ t[f] = s[f]
    BY <2>8, <2>9
  <2>11. \A f \in SegNumbers : t[f] \in Nat
    BY <2>1, <2>7, <2>9, <2>10 DEF IsSegment, Numbers
  <2>12. t.index = s.index /\ t.secs = s.secs /\ t.offSet = s.offSet
    BY <2>8, <2>9
  <2>13. IsSegment(t, Len(e.secs))
    <3>1. Len(e.secs) \in Nat
      BY <2>3, <2>5
    <3>. QED
      BY <2>7, <2>9, <2>11, <2>12, <3>1, SegmentChange DEF IsSegment
  <2>. QED
    BY <2>2, <2>6, <2>7, <2>12, <2>13, ObjectSegment DEF s
<1>2. ASSUME NEW g \in Holders, NEW i \in UserSections, Attach(g, i) PROVE IsObject(elf')
  <2>1. elf' = Join(elf, g, i) /\ g \in 1 .. Len(elf.segs)
    BY <1>2 DEF Attach, Edited, Holders
  <2>2. i \in 1 .. Len(elf.secs)
    <3>1. Len(elf.secs) \in Nat
      BY SeqIs DEF IsObject
    <3>. QED
      BY <3>1 DEF UserSections
  <2>. QED
    BY <2>1, <2>2, JoinKeeps
<1>. QED
  BY <1>1, <1>2

-------------------------------------------------------------------------------
(***************************************************************************)
(* What is written to a file is numbers.                                   *)
(***************************************************************************)
LEMMA ConvertType ==
  ASSUME NEW encoding, NEW v \in Nat
  PROVE  Convert(encoding, v) \in Nat
<1>. DEFINE q == v \div Radix
            r == v % Radix
<1>1. q \in Int /\ r \in Int /\ v = q * Radix + r /\ 0 <= r /\ r < Radix /\ Radix \in Nat
  BY DivSplit, SpanType DEF Positive
<1>. HIDE DEF q, r
<1>2. q \in Nat
  <2>. SUFFICES ASSUME -q >= 1 PROVE FALSE
    BY <1>1
  <2>1. (-q) * Radix >= Radix
    BY <1>1, Multiple
  <2>2. (-q) * Radix = -(q * Radix)
    BY <1>1
  <2>. QED
    BY <1>1, <2>1, <2>2
<1>3. r * Radix \in Nat
  BY <1>1
<1>4. r * Radix + q \in Nat
  BY <1>2, <1>3
<1>. QED
  BY <1>4 DEF Convert, q, r

LEMMA PackType ==
  ASSUME NEW fields, NEW entry, NEW encoding, Len(fields) \in Nat,
         \A i \in 1 .. Len(fields) : entry[fields[i]] \in Nat
  PROVE  Pack(fields, entry, encoding) \in Seq(Nat)
<1>. DEFINE n == Len(fields)
            q == Pack(fields, entry, encoding)
            c(i) == IF fields[i] \in Ident THEN entry[fields[i]]
                    ELSE Convert(encoding, entry[fields[i]])
<1>1. q = [i \in 1 .. n |-> c(i)]
  BY DEF Pack
<1>2. \A i \in 1 .. n : c(i) \in Nat
  <2>. SUFFICES ASSUME NEW i \in 1 .. n PROVE c(i) \in Nat
    BY Zenon
  <2>. DEFINE v == entry[fields[i]]
  <2>1. v \in Nat
    OBVIOUS
  <2>. HIDE DEF v
  <2>2. Convert(encoding, v) \in Nat
    BY <2>1, ConvertType
  <2>. QED
    BY <2>1, <2>2 DEF v
<1>. HIDE DEF c, n
<1>3. q \in [1 .. n -> Nat]
  BY <1>1, <1>2
<1>4. n \in Nat
  BY DEF n
<1>. HIDE DEF q
<1>5. q \in UNION {[1 .. m -> Nat] : m \in Nat}
  BY ONLY <1>3, <1>4
<1>6. q \in Seq(Nat)
  BY ONLY <1>5, SeqDef, Zenon
<1>. QED
  BY <1>6 DEF q

(* The parts of a sequence of sequences put behind each other.             *)
LEMMA FlattenUnfolds ==
  ASSUME NEW S, NEW q \in Seq(Seq(S))
  PROVE  \E f : /\ f[0] = << >>
                /\ \A i \in 1 .. Len(q) : f[i] = f[i - 1] \o q[i] /\ f[i] \in Seq(S)
                /\ FlattenSeq(q) = f[Len(q)]
<1>. DEFINE n == Len(q)
            Runs(f, m) == f = [i \in 1 .. m |-> IF i = 1 THEN q[i] ELSE f[i - 1] \o q[i]]
            F == CHOOSE f : Runs(f, n)
            T == {m \in Nat : \E f : Runs(f, m)}
<1>1. n \in Nat /\ \A i \in 1 .. n : q[i] \in Seq(S)
  OBVIOUS
<1>2. CASE n = 0
  <2>. DEFINE g == [i \in 0 .. n |-> << >>]
  <2>1. FlattenSeq(q) = q /\ q = << >>
    BY <1>2 DEF FlattenSeq
  <2>2. g[0] = << >> /\ g[n] = << >> /\ 1 .. n = {}
    BY <1>2
  <2>. HIDE DEF g, n
  <2>. QED
    BY <2>1, <2>2 DEF n
<1>3. CASE n # 0
  <2>1. 0 \in T
    <3>1. Runs([i \in 1 .. 0 |-> q], 0)
      OBVIOUS
    <3>. QED
      BY <3>1
  <2>2. ASSUME NEW m \in Nat, m \in T PROVE m + 1 \in T
    <3>1. PICK f : Runs(f, m)
      BY <2>2
    <3>. DEFINE g == [i \in 1 .. (m + 1) |->
                        IF i = m + 1 THEN IF i = 1 THEN q[i] ELSE f[m] \o q[i] ELSE f[i]]
    <3>2. Runs(g, m + 1)
      <4>. SUFFICES ASSUME NEW i \in 1 .. (m + 1)
                    PROVE  g[i] = IF i = 1 THEN q[i] ELSE g[i - 1] \o q[i]
        BY Zenon
      <4>1. CASE i = m + 1
        <5>1. i # 1 => i - 1 \in 1 .. (m + 1) /\ i - 1 # m + 1 /\ i - 1 = m
          BY <4>1
        <5>. QED
          BY <4>1, <5>1
      <4>2. CASE i # m + 1
        <5>1. i \in 1 .. m /\ (i # 1 => i - 1 \in 1 .. (m + 1) /\ i - 1 # m + 1)
          BY <4>2
        <5>2. f[i] = IF i = 1 THEN q[i] ELSE f[i - 1] \o q[i]
          BY <3>1, <5>1
        <5>. QED
          BY <4>2, <5>1, <5>2
      <4>. QED
        BY <4>1, <4>2
    <3>. HIDE DEF Runs, g
    <3>. QED
      BY <3>2
  <2>3. Runs(F, n)
    <3>. HIDE DEF T
    <3>1. Nat \subseteq T
      BY <2>1, <2>2, SetInduction
    <3>2. \E f : Runs(f, n)
      BY <1>1, <3>1 DEF T
    <3>. HIDE DEF Runs
    <3>. QED
      BY <3>2
  <2>4. FlattenSeq(q) = F[n]
    BY <1>3 DEF FlattenSeq
  <2>. HIDE DEF F, n
  <2>. DEFINE U == {m \in Nat : m < n => F[m + 1] \in Seq(S)}
  <2>5. 0 \in U /\ F[1] = q[1]
    <3>1. 1 \in 1 .. n
      BY <1>1, <1>3
    <3>2. F[1] = q[1]
      BY <2>3, <3>1
    <3>. QED
      BY <1>1, <3>1, <3>2
  <2>6. ASSUME NEW m \in Nat, m + 1 < n
        PROVE  m + 2 \in 1 .. n /\ F[m + 2] = F[m + 1] \o q[m + 2]
    <3>1. m + 2 \in 1 .. n /\ m + 2 # 1 /\ (m + 2) - 1 = m + 1
      BY <1>1, <2>6
    <3>. QED
      BY <2>3, <3>1
  <2>7. ASSUME NEW m \in Nat, m \in U PROVE m + 1 \in U
    <3>. SUFFICES ASSUME m + 1 < n PROVE F[m + 2] \in Seq(S)
      OBVIOUS
    <3>1. m + 2 \in 1 .. n /\ F[m + 2] = F[m + 1] \o q[m + 2]
      BY <2>6
    <3>2. F[m + 1] \in Seq(S) /\ q[m + 2] \in Seq(S)
      BY <1>1, <2>7, <3>1
    <3>. QED
      BY <3>1, <3>2, ConcatProperties
  <2>8. \A i \in 1 .. n : F[i] \in Seq(S)
    <3>. HIDE DEF U
    <3>1. Nat \subseteq U
      BY <2>5, <2>7, SetInduction
    <3>2. \A i \in 1 .. n : i - 1 \in Nat /\ i - 1 < n /\ (i - 1) + 1 = i
      BY <1>1, <1>3
    <3>3. \A i \in 1 .. n : i - 1 \in U
      BY <3>1, <3>2
    <3>. QED
      BY <3>2, <3>3 DEF U
  <2>. DEFINE g == [i \in 0 .. n |-> IF i = 0 THEN << >> ELSE F[i]]
  <2>9. g[0] = << >> /\ \A i \in 1 .. n : g[i] = F[i]
    BY <1>1
  <2>. HIDE DEF g, U
  <2>10. ASSUME NEW i \in 1 .. n PROVE g[i] = g[i - 1] \o q[i]
    <3>1. CASE i = 1
      <4>1. g[i - 1] = << >> /\ q[i] \in Seq(S)
        BY <1>1, <2>9, <3>1
      <4>. QED
        BY <2>5, <2>9, <3>1, <4>1, ConcatEmptySeq
    <3>2. CASE i # 1
      <4>1. i - 2 \in Nat /\ (i - 2) + 1 < n /\ (i - 2) + 2 = i /\ (i - 2) + 1 = i - 1 /\ i - 1 \in 1 .. n
        BY <1>1, <3>2
      <4>2. F[i] = F[i - 1] \o q[i]
        <5>1. F[(i - 2) + 2] = F[(i - 2) + 1] \o q[(i - 2) + 2]
          BY <2>6, <4>1
        <5>. QED
          BY <4>1, <5>1
      <4>. QED
        BY <2>9, <4>1, <4>2
    <3>. QED
      BY <3>1, <3>2
  <2>11. FlattenSeq(q) = g[n]
    <3>1. n \in 1 .. n
      BY <1>1, <1>3
    <3>. QED
      BY <2>4, <2>9, <3>1
  <2>. QED
    BY <2>8, <2>9, <2>10, <2>11 DEF n
<1>. QED
  BY <1>2, <1>3

LEMMA FlattenType ==
  ASSUME NEW S, NEW q \in Seq(Seq(S))
  PROVE  FlattenSeq(q) \in Seq(S)
<1>. DEFINE n == Len(q)
<1>1. n \in Nat
  OBVIOUS
<1>2. PICK f : /\ f[0] = << >>
               /\ \A i \in 1 .. n : f[i] = f[i - 1] \o q[i] /\ f[i] \in Seq(S)
               /\ FlattenSeq(q) = f[n]
  BY FlattenUnfolds
<1>3. CASE n = 0
  BY <1>2, <1>3, EmptySeq
<1>4. CASE n # 0
  <2>1. n \in 1 .. n
    BY <1>1, <1>4
  <2>. QED
    BY <1>2, <2>1
<1>. QED
  BY <1>3, <1>4

WriteSet == [at : Nat, cells : Seq(Nat)]

LEMMA OneWrite ==
  ASSUME NEW at \in Nat, NEW cells \in Seq(Nat)
  PROVE  << [at |-> at, cells |-> cells] >> \in Seq(WriteSet)
BY DEF WriteSet

LEMMA SectionWritesType ==
  ASSUME NEW s, NEW i, IsSection(s, i), NEW at \in Nat, NEW encoding
  PROVE  SectionWrites(s, at, encoding) \in Seq(WriteSet)
<1>. DEFINE c == Pack(ShdrFields, s, encoding)
            a == << [at |-> at, cells |-> c] >>
            d == << [at |-> s.offset, cells |-> s.data] >>
            b == IF s.type \in {SHT_NOBITS, SHT_NULL} \/ s.size = 0 \/ ~s.has THEN << >> ELSE d
<1>1. Len(ShdrFields) = 10 /\ \A k \in 1 .. 10 : ShdrFields[k] \in SecNumbers
  BY DEF ShdrFields, SecNumbers
<1>2. c \in Seq(Nat)
  <2>1. Len(ShdrFields) \in Nat /\ \A k \in 1 .. Len(ShdrFields) : s[ShdrFields[k]] \in Nat
    BY <1>1 DEF IsSection, Numbers
  <2>. QED
    BY <2>1, PackType
<1>. HIDE DEF c
<1>3. a \in Seq(WriteSet)
  BY <1>2, OneWrite
<1>4. d \in Seq(WriteSet)
  <2>1. s.offset \in Nat /\ s.data \in Seq(Nat)
    BY SectionHas
  <2>. QED
    BY <2>1, OneWrite
<1>. HIDE DEF d
<1>5. b \in Seq(WriteSet)
  <2>1. << >> \in Seq(WriteSet)
    BY EmptySeq
  <2>. QED
    BY <1>4, <2>1
<1>6. SectionWrites(s, at, encoding) = a \o b
  BY DEF SectionWrites, a, b, c, d
<1>. HIDE DEF a, b
<1>. QED
  BY <1>3, <1>5, <1>6, ConcatProperties

LEMMA SegmentWritesType ==
  ASSUME NEW s, NEW n, IsSegment(s, n), NEW at \in Nat, NEW encoding
  PROVE  SegmentWrites(s, at, encoding) \in Seq(WriteSet)
<1>. DEFINE c == Pack(PhdrFields, s, encoding)
<1>1. Len(PhdrFields) = 8 /\ \A k \in 1 .. 8 : PhdrFields[k] \in SegNumbers
  BY DEF PhdrFields, SegNumbers
<1>2. c \in Seq(Nat)
  <2>1. Len(PhdrFields) \in Nat /\ \A k \in 1 .. Len(PhdrFields) : s[PhdrFields[k]] \in Nat
    BY <1>1 DEF IsSegment, Numbers
  <2>. QED
    BY <2>1, PackType
<1>3. SegmentWrites(s, at, encoding) = << [at |-> at, cells |-> c] >>
  BY DEF SegmentWrites
<1>. HIDE DEF c
<1>. QED
  BY <1>2, <1>3, OneWrite

(* A sequence given element by element.                                    *)
LEMMA SeqMade ==
  ASSUME NEW n \in Nat, NEW S, NEW q, q \in [1 .. n -> S]
  PROVE  q \in Seq(S)
<1>1. q \in UNION {[1 .. m -> S] : m \in Nat}
  OBVIOUS
<1>. QED
  BY ONLY <1>1, SeqDef, Zenon

LEMMA SaveWritesParts ==
  ASSUME NEW e, IsObject(e)
  PROVE  LET h == e.hdr
             W == Seq(WriteSet)
             n == Len(e.secs)
             m == Len(e.segs)
         IN  /\ n \in Nat /\ m \in Nat
             /\ << [at |-> 0, cells |-> Pack(EhdrFields, h, h.data)] >> \in W
             /\ [i \in 1 .. n |-> SectionWrites(e.secs[i], h.shoff + h.shentsize * e.secs[i].index,
                                                h.data)] \in [1 .. n -> W]
             /\ [g \in 1 .. m |-> SegmentWrites(e.segs[g], h.phoff + h.phentsize * e.segs[g].index,
                                                h.data)] \in [1 .. m -> W]
<1>. DEFINE h == e.hdr
            c == Pack(EhdrFields, h, h.data)
            a == << [at |-> 0, cells |-> c] >>
            sat(i) == h.shoff + h.shentsize * e.secs[i].index
            gat(g) == h.phoff + h.phentsize * e.segs[g].index
            sw(i) == SectionWrites(e.secs[i], sat(i), h.data)
            gw(g) == SegmentWrites(e.segs[g], gat(g), h.data)
            n == Len(e.secs)
            m == Len(e.segs)
            ss == [i \in 1 .. n |-> sw(i)]
            gs == [g \in 1 .. m |-> gw(g)]
<1>1. /\ n \in Nat /\ m \in Nat /\ h.shoff \in Nat /\ h.shentsize \in Nat
      /\ h.phoff \in Nat /\ h.phentsize \in Nat
  BY SeqIs, HeaderHas DEF IsObject
<1>2. a \in Seq(WriteSet)
  <2>1. Len(EhdrFields) = 16 /\ \A k \in 1 .. 16 : EhdrFields[k] \in HdrNumbers
    BY DEF EhdrFields, HdrNumbers
  <2>2. Len(EhdrFields) \in Nat /\ \A k \in 1 .. Len(EhdrFields) : h[EhdrFields[k]] \in Nat
    BY <2>1 DEF IsObject, Numbers
  <2>. HIDE DEF h
  <2>3. c \in Seq(Nat)
    BY <2>2, PackType
  <2>. HIDE DEF c
  <2>. QED
    BY <2>3, OneWrite
<1>3. \A i \in 1 .. n : sw(i) \in Seq(WriteSet)
  <2>. SUFFICES ASSUME NEW i \in 1 .. n PROVE sw(i) \in Seq(WriteSet)
    BY Zenon
  <2>. DEFINE s == e.secs[i]
              at == sat(i)
              j == i - 1
  <2>1. IsSection(s, j) /\ s.index = j /\ j \in Nat
    BY <1>1, SectionHas DEF IsObject
  <2>2. at \in Nat
    <3>. DEFINE o == h.shoff
                z == h.shentsize
    <3>1. o \in Nat /\ z \in Nat /\ at = o + z * j
      BY <1>1, <2>1
    <3>. HIDE DEF o, z, at, j
    <3>2. z * j \in Nat
      BY <2>1, <3>1
    <3>. QED
      BY <3>1, <3>2
  <2>. DEFINE enc == h.data
  <2>3. sw(i) = SectionWrites(s, at, enc)
    OBVIOUS
  <2>. HIDE DEF s, at, j, enc, sw
  <2>. QED
    BY <2>1, <2>2, <2>3, SectionWritesType
<1>4. \A g \in 1 .. m : gw(g) \in Seq(WriteSet)
  <2>. SUFFICES ASSUME NEW g \in 1 .. m PROVE gw(g) \in Seq(WriteSet)
    BY Zenon
  <2>. DEFINE s == e.segs[g]
              at == gat(g)
              j == s.index
  <2>1. IsSegment(s, n) /\ j \in Nat
    BY <1>1 DEF IsObject, IsSegment
  <2>2. at \in Nat
    <3>. DEFINE o == h.phoff
                z == h.phentsize
    <3>1. o \in Nat /\ z \in Nat /\ at = o + z * j
      BY <1>1, <2>1
    <3>. HIDE DEF o, z, at, j
    <3>2. z * j \in Nat
      BY <2>1, <3>1
    <3>. QED
      BY <3>1, <3>2
  <2>. DEFINE enc == h.data
  <2>3. gw(g) = SegmentWrites(s, at, enc)
    OBVIOUS
  <2>. HIDE DEF s, at, j, enc, gw, n
  <2>. QED
    BY <2>1, <2>2, <2>3, SegmentWritesType
<1>. HIDE DEF sw, gw, n, m
<1>6. ss \in [1 .. n -> Seq(WriteSet)] /\ gs \in [1 .. m -> Seq(WriteSet)]
  BY <1>3, <1>4
<1>. QED
  BY <1>1, <1>2, <1>6 DEF sw, gw, n, m, sat, gat

LEMMA SaveWritesType ==
  ASSUME NEW e, IsObject(e)
  PROVE  SaveWrites(e) \in Seq(WriteSet)
<1>. DEFINE h == e.hdr
            a == << [at |-> 0, cells |-> Pack(EhdrFields, h, h.data)] >>
            n == Len(e.secs)
            m == Len(e.segs)
            ss == [i \in 1 .. n |-> SectionWrites(e.secs[i], h.shoff + h.shentsize * e.secs[i].index,
                                                  h.data)]
            gs == [g \in 1 .. m |-> SegmentWrites(e.segs[g], h.phoff + h.phentsize * e.segs[g].index,
                                                  h.data)]
            W == Seq(WriteSet)
<1>1. a \in W /\ ss \in [1 .. n -> W] /\ gs \in [1 .. m -> W] /\ n \in Nat /\ m \in Nat
  BY SaveWritesParts
<1>5. SaveWrites(e) = (a \o FlattenSeq(ss)) \o FlattenSeq(gs)
  BY DEF SaveWrites
<1>. HIDE DEF ss, gs, a
<1>2. a \in Seq(WriteSet)
  BY <1>1
<1>7. ss \in Seq(W) /\ gs \in Seq(W)
  <2>. HIDE DEF W, n, m
  <2>. QED
    BY <1>1, SeqMade
<1>8. FlattenSeq(ss) \in Seq(WriteSet) /\ FlattenSeq(gs) \in Seq(WriteSet)
  BY <1>7, FlattenType
<1>. DEFINE u == FlattenSeq(ss)
            w == FlattenSeq(gs)
<1>. HIDE DEF u, w
<1>9. a \o u \in Seq(WriteSet)
  BY <1>2, <1>8, ConcatProperties DEF u
<1>10. (a \o u) \o w \in Seq(WriteSet)
  BY <1>8, <1>9, ConcatProperties DEF w
<1>. QED
  BY <1>5, <1>10 DEF u, w

(* A stream that holds numbers, and one write to it.                       *)
IsOut(st) ==
  DOMAIN st = {"bytes", "fail", "room"} /\ st.bytes \in Seq(Nat) /\ st.room \in Nat

LEMMA WriteType ==
  ASSUME NEW st, IsOut(st), NEW at \in Nat, NEW cells \in Seq(Nat)
  PROVE  IsOut(WriteAt(st, at, cells))
<1>. DEFINE b      == st.bytes
            gap    == at - Len(b)
            zeros  == [i \in 1 .. gap |-> 0]
            padded == b \o zeros
            front  == SubSeq(padded, 1, at)
            back   == SubSeq(padded, at + Len(cells) + 1, Len(padded))
            all    == (front \o cells) \o back
            u      == [st EXCEPT !.bytes = all]
            w      == [st EXCEPT !.bytes = SubSeq(all, 1, st.room), !.fail = TRUE]
<1>1. b \in Seq(Nat) /\ Len(b) \in Nat /\ gap \in Int /\ gap <= at /\ Len(cells) \in Nat
  BY DEF IsOut
<1>2. zeros \in Seq(Nat) /\ Len(zeros) >= gap
  <2>1. CASE gap \in Nat
    <3>1. zeros \in [1 .. gap -> Nat]
      OBVIOUS
    <3>. HIDE DEF gap, zeros
    <3>2. zeros \in Seq(Nat)
      BY <2>1, <3>1, SeqMade
    <3>3. Len(zeros) = gap
      BY <2>1 DEF zeros
    <3>. QED
      BY <2>1, <3>2, <3>3
  <2>2. CASE gap \notin Nat
    <3>. HIDE DEF gap
    <3>1. 1 .. gap = {} /\ gap < 0
      BY <1>1, <2>2
    <3>2. zeros = << >>
      BY <3>1
    <3>. HIDE DEF zeros
    <3>. QED
      BY <1>1, <3>1, <3>2
  <2>. QED
    BY <2>1, <2>2
<1>3. padded \in Seq(Nat) /\ Len(padded) >= at
  <2>. HIDE DEF zeros
  <2>. QED
    BY <1>1, <1>2
<1>. HIDE DEF padded
<1>4. front \in Seq(Nat) /\ back \in Seq(Nat)
  <2>1. Len(padded) \in Nat
    BY <1>3
  <2>2. \A i \in 1 .. Len(padded) : padded[i] \in Nat
    BY <1>3
  <2>3. /\ \A i \in 1 .. at : padded[i] \in Nat
        /\ \A i \in (at + Len(cells) + 1) .. Len(padded) : padded[i] \in Nat
    BY <1>1, <1>3, <2>1, <2>2
  <2>4. 1 \in Int /\ at \in Int /\ at + Len(cells) + 1 \in Int /\ Len(padded) \in Int
    BY <1>1, <2>1
  <2>. QED
    BY <2>3, <2>4, SubSeqProperties
<1>. HIDE DEF front, back
<1>5. all \in Seq(Nat)
  <2>1. front \o cells \in Seq(Nat)
    BY <1>4
  <2>. QED
    BY <1>4, <2>1
<1>. HIDE DEF all
<1>6. IsOut(u)
  BY <1>5 DEF IsOut
<1>7. CASE Len(all) > st.room
  <2>. DEFINE cut == SubSeq(all, 1, st.room)
  <2>1. cut \in Seq(Nat)
    <3>. DEFINE r == st.room
    <3>1. r \in Nat /\ Len(all) \in Nat /\ Len(all) > r
      BY <1>5, <1>7 DEF IsOut
    <3>. HIDE DEF r
    <3>2. r \in Int /\ 1 \in Int /\ \A i \in 1 .. r : all[i] \in Nat
      BY <1>5, <3>1
    <3>3. SubSeq(all, 1, r) \in Seq(Nat)
      BY <3>2, SubSeqProperties
    <3>. QED
      BY <3>3 DEF r
  <2>. HIDE DEF cut
  <2>2. w = [st EXCEPT !.bytes = cut, !.fail = TRUE]
    BY DEF cut
  <2>3. IsOut(w)
    BY <2>1, <2>2 DEF IsOut
  <2>4. WriteAt(st, at, cells) = st \/ WriteAt(st, at, cells) = w
    <3>1. ~(Len(all) <= st.room)
      BY <1>5, <1>7 DEF IsOut
    <3>. QED
      BY <3>1 DEF WriteAt, all, front, back, padded
  <2>. QED
    BY <2>3, <2>4
<1>8. CASE ~(Len(all) > st.room)
  <2>1. Len(all) <= st.room
    BY <1>5, <1>8 DEF IsOut
  <2>2. WriteAt(st, at, cells) = st \/ WriteAt(st, at, cells) = u
    BY <2>1 DEF WriteAt, all, front, back, padded
  <2>. QED
    BY <1>6, <2>2
<1>. QED
  BY <1>7, <1>8

Written1(st, w) == WriteAt(st, w.at, w.cells)

(* The streams f of c writes, one after the other: q are these writes.     *)
Unfolded(writes, c, room, q) ==
  \E f : /\ f[0] = OutStream(room)
         /\ \A n \in 1 .. Len(q) : f[n] = Written1(f[n - 1], q[n])
         /\ Written(writes, c, room) = f[Len(q)]

(* One write after the other.                                              *)
LEMMA WrittenUnfolds ==
  ASSUME NEW writes, NEW c, NEW room, NEW q, q = SubSeq(writes, 1, c), Len(q) \in Nat
  PROVE  Unfolded(writes, c, room, q)
<1>. DEFINE seq == q
            base == OutStream(room)
            Runs(f, m) == f = [i \in 0 .. m |-> IF i = 0 THEN base
                                ELSE Written1(f[i - 1], seq[i])]
            T == {m \in Nat : \E f : Runs(f, m)}
            F == CHOOSE f : Runs(f, Len(seq))
<1>1. 0 \in T
  <2>1. Runs([i \in 0 .. 0 |-> base], 0)
    OBVIOUS
  <2>. QED
    BY <2>1
<1>2. ASSUME NEW m \in Nat, m \in T PROVE m + 1 \in T
  <2>1. PICK f : Runs(f, m)
    BY <1>2
  <2>. DEFINE g == [i \in 0 .. (m + 1) |->
                      IF i = m + 1 THEN Written1(f[m], seq[m + 1]) ELSE f[i]]
  <2>2. Runs(g, m + 1)
    <3>. SUFFICES ASSUME NEW i \in 0 .. (m + 1)
                  PROVE  g[i] = IF i = 0 THEN base
                                ELSE Written1(g[i - 1], seq[i])
      BY Zenon
    <3>. HIDE DEF seq, base
    <3>. QED
      BY <2>1
  <2>. HIDE DEF Runs, g
  <2>. QED
    BY <2>2
<1>3. Nat \subseteq T
  <2>. HIDE DEF T
  <2>. QED
    BY <1>1, <1>2, SetInduction
<1>4. Written(writes, c, room) = F[Len(seq)]
  BY DEF Written, Loop, Written1
<1>5. Len(seq) = Len(q) /\ Len(q) \in Nat
  OBVIOUS
<1>6. Runs(F, Len(q))
  <2>1. \E f : Runs(f, Len(q))
    BY <1>3
  <2>. HIDE DEF Runs, seq, base
  <2>. QED
    BY <1>5, <2>1
<1>7. /\ F[0] = base
      /\ \A n \in 1 .. Len(q) : F[n] = Written1(F[n - 1], seq[n])
  <2>. HIDE DEF F, seq, base
  <2>. QED
    BY ONLY <1>5, <1>6
<1>. HIDE DEF F, seq
<1>8. seq = q
  BY DEF seq
<1>. QED
  BY <1>4, <1>7, <1>8 DEF Unfolded

LEMMA WrittenType ==
  ASSUME NEW writes \in Seq(WriteSet), NEW n \in 0 .. Len(writes)
  PROVE  Written(writes, n, Room).bytes \in Seq(Nat)
<1>. DEFINE q == SubSeq(writes, 1, n)
            m == Len(q)
<1>1. n \in Nat /\ Len(writes) \in Nat /\ n <= Len(writes) /\ Room \in Nat
  BY ElfFileAssumption
<1>2. q \in Seq(WriteSet)
  <2>1. 1 \in Int /\ n \in Int /\ \A i \in 1 .. n : writes[i] \in WriteSet
    BY <1>1
  <2>. QED
    BY <2>1, SubSeqProperties
<1>3. m \in Nat /\ \A k \in 1 .. m : q[k] \in WriteSet
  BY <1>2
<1>4. PICK f : /\ f[0] = OutStream(Room)
               /\ \A k \in 1 .. m : f[k] = Written1(f[k - 1], q[k])
               /\ Written(writes, n, Room) = f[m]
  <2>1. q = SubSeq(writes, 1, n) /\ Len(q) \in Nat
    BY <1>3
  <2>. HIDE DEF q
  <2>2. Unfolded(writes, n, Room, q)
    BY ONLY <2>1, WrittenUnfolds
  <2>. QED
    BY <2>2 DEF Unfolded
<1>. DEFINE T == {k \in Nat : k <= m => IsOut(f[k])}
<1>. HIDE DEF q, m
<1>5. 0 \in T
  <2>1. << >> \in Seq(Nat) /\ IsOut(OutStream(Room))
    BY <1>1 DEF OutStream, IsOut
  <2>. QED
    BY <1>4, <2>1
<1>6. ASSUME NEW k \in Nat, k \in T PROVE k + 1 \in T
  <2>. SUFFICES ASSUME k + 1 <= m PROVE IsOut(f[k + 1])
    OBVIOUS
  <2>. DEFINE st == f[k]
              at == q[k + 1].at
              c  == q[k + 1].cells
  <2>1. k + 1 \in 1 .. m /\ (k + 1) - 1 = k /\ k <= m
    BY <1>3
  <2>2. IsOut(st)
    BY <1>6, <2>1
  <2>3. at \in Nat /\ c \in Seq(Nat)
    BY <1>3, <2>1 DEF WriteSet
  <2>4. f[k + 1] = WriteAt(st, at, c)
    BY <1>4, <2>1 DEF Written1
  <2>. HIDE DEF st, at, c
  <2>. QED
    BY <2>2, <2>3, <2>4, WriteType
<1>7. IsOut(f[m])
  <2>. HIDE DEF T
  <2>1. Nat \subseteq T
    BY <1>5, <1>6, SetInduction
  <2>. QED
    BY <1>3, <2>1 DEF T
<1>. QED
  BY <1>4, <1>7 DEF IsOut

-------------------------------------------------------------------------------
(***************************************************************************)
(* What is read from a file of numbers is an object.                       *)
(***************************************************************************)
LEMMA UnpackType ==
  ASSUME NEW at, NEW cells \in Seq(Nat), NEW encoding,
         \A f \in DOMAIN at : at[f] \in 1 .. Len(cells)
  PROVE  LET r == Unpack(at, cells, encoding)
         IN  DOMAIN r = DOMAIN at /\ \A f \in DOMAIN at : r[f] \in Nat
<1>. DEFINE c(f) == IF f \in Ident THEN cells[at[f]] ELSE Convert(encoding, cells[at[f]])
            r == Unpack(at, cells, encoding)
<1>1. r = [f \in DOMAIN at |-> c(f)]
  BY DEF Unpack
<1>2. \A f \in DOMAIN at : c(f) \in Nat
  <2>. SUFFICES ASSUME NEW f \in DOMAIN at PROVE c(f) \in Nat
    BY Zenon
  <2>. DEFINE v == cells[at[f]]
  <2>1. v \in Nat
    OBVIOUS
  <2>. HIDE DEF v
  <2>2. Convert(encoding, v) \in Nat
    BY <2>1, ConvertType
  <2>. QED
    BY <2>1, <2>2 DEF v
<1>. HIDE DEF c
<1>. QED
  BY <1>1, <1>2

LEMMA CellsOf ==
  /\ DOMAIN EhdrCells = HdrNumbers /\ DOMAIN ShdrCells = SecNumbers
  /\ DOMAIN PhdrCells = SegNumbers
  /\ \A f \in HdrNumbers : EhdrCells[f] \in 1 .. 16
  /\ \A f \in SecNumbers : ShdrCells[f] \in 1 .. 10
  /\ \A f \in SegNumbers : PhdrCells[f] \in 1 .. 8
  /\ EhdrSize = 16 /\ ShdrSize = 10 /\ PhdrSize = 8
<1>1. /\ DOMAIN EhdrFields = 1 .. 16 /\ DOMAIN ShdrFields = 1 .. 10
      /\ DOMAIN PhdrFields = 1 .. 8
      /\ EhdrSize = 16 /\ ShdrSize = 10 /\ PhdrSize = 8
  BY DEF EhdrFields, ShdrFields, PhdrFields, EhdrSize, ShdrSize, PhdrSize
<1>2. ASSUME NEW fields, NEW f \in ToSet(fields)
      PROVE  CellOf(fields)[f] \in DOMAIN fields
  <2>1. \E i \in DOMAIN fields : fields[i] = f
    BY DEF ToSet
  <2>. QED
    BY <2>1 DEF CellOf
<1>3. \A fields : DOMAIN CellOf(fields) = ToSet(fields)
  BY DEF CellOf
<1>. QED
  BY <1>1, <1>2, <1>3, FieldSets DEF EhdrCells, ShdrCells, PhdrCells

(* A stream of numbers and what it delivers.                               *)
IsIn(st) == DOMAIN st = {"bytes", "fail"} /\ st.bytes \in Seq(Nat)

LEMMA ReadType ==
  ASSUME NEW st, IsIn(st), NEW at \in Nat, NEW n \in Nat
  PROVE  ReadAt(st, at, n) \in Seq(Nat) /\ IsIn(AfterRead(st, at, n))
<1>. DEFINE b == st.bytes
            to == IF at + n <= Len(b) THEN at + n ELSE Len(b)
            q == SubSeq(b, at + 1, to)
<1>1. b \in Seq(Nat) /\ Len(b) \in Nat
  BY DEF IsIn
<1>2. q \in Seq(Nat)
  <2>1. to \in Nat /\ to <= Len(b) /\ at + 1 \in Int
    BY <1>1
  <2>. HIDE DEF to, b
  <2>2. \A i \in (at + 1) .. to : b[i] \in Nat
    <3>1. \A i \in (at + 1) .. to : i \in 1 .. Len(b)
      BY <1>1, <2>1
    <3>. QED
      BY <1>1, <3>1
  <2>3. to \in Int
    BY <2>1
  <2>. QED
    BY <2>1, <2>2, <2>3, SubSeqProperties
<1>. HIDE DEF q
<1>3. ReadAt(st, at, n) = << >> \/ ReadAt(st, at, n) = q
  BY DEF ReadAt, q
<1>4. IsIn(AfterRead(st, at, n))
  BY DEF IsIn, AfterRead
<1>. QED
  BY <1>2, <1>3, <1>4, EmptySeq

LEMMA NoTranslation == \A v : Translate(<< >>, v) = v
<1>. SUFFICES ASSUME NEW v PROVE Translate(<< >>, v) = v
  OBVIOUS
<1>. DEFINE r == << >>
            hits == {i \in 1 .. Len(r) : r[i].start <= v /\ v - r[i].start < r[i].size}
<1>1. hits = {}
  <2>1. 1 .. Len(r) = {}
    OBVIOUS
  <2>. QED
    BY <2>1
<1>. QED
  BY <1>1 DEF Translate

LEMMA PaddedType ==
  ASSUME NEW cells \in Seq(Nat), NEW n \in Nat
  PROVE  ZeroPadded(cells, n) \in Seq(Nat) /\ Len(ZeroPadded(cells, n)) = n
<1>. DEFINE q == ZeroPadded(cells, n)
<1>1. q = [i \in 1 .. n |-> IF i <= Len(cells) THEN cells[i] ELSE 0]
  BY DEF ZeroPadded
<1>. HIDE DEF q
<1>2. q \in [1 .. n -> Nat]
  <2>1. \A i \in 1 .. n : i <= Len(cells) => cells[i] \in Nat
    OBVIOUS
  <2>. QED
    BY <1>1, <2>1
<1>3. q \in Seq(Nat)
  BY <1>2, SeqMade
<1>4. Len(q) = n
  BY <1>2, <1>3
<1>. QED
  BY <1>3, <1>4 DEF q

(* A header of a section, and one of a segment.                            *)
LEMMA SectionHeaderType ==
  ASSUME NEW cells \in Seq(Nat), NEW limit, NEW encoding, NEW n
  PROVE  LET s == SectionHeader(cells, limit, encoding)
         IN  /\ Numbers(s, SecNumbers) /\ s.data = << >> /\ s.addrSet = FALSE
             /\ {"label", "data", "has", "cap", "index", "addrSet", "stream"} \subseteq DOMAIN s
<1>. DEFINE pad == ZeroPadded(cells, ShdrSize)
            h == Unpack(ShdrCells, pad, encoding)
            s == SectionHeader(cells, limit, encoding)
<1>1. pad \in Seq(Nat) /\ Len(pad) = 10
  <2>1. ShdrSize = 10 /\ 10 \in Nat
    BY CellsOf
  <2>. HIDE DEF pad
  <2>. QED
    BY <2>1, PaddedType DEF pad
<1>. HIDE DEF pad
<1>2. DOMAIN h = SecNumbers /\ \A f \in SecNumbers : h[f] \in Nat
  BY <1>1, CellsOf, UnpackType
<1>3. /\ DOMAIN NewSection = SecNumbers \cup DOMAIN Buffer
      /\ DOMAIN Buffer = {"index", "label", "data", "has", "cap", "addrSet", "stream"}
  BY FieldSets DEF NewSection, Buffer
<1>4. NewSection.data = << >> /\ NewSection.addrSet = FALSE
  BY <1>3, FieldSets DEF NewSection, Buffer, SecNumbers
<1>5. s = [f \in DOMAIN NewSection |-> IF f \in SecNumbers THEN h[f]
                                      ELSE IF f = "stream" THEN limit ELSE NewSection[f]]
  BY FieldSets DEF SectionHeader, h, pad
<1>. HIDE DEF h, s
<1>6. DOMAIN s = SecNumbers \cup {"index", "label", "data", "has", "cap", "addrSet", "stream"}
  BY <1>3, <1>5
<1>7. \A f \in SecNumbers : s[f] \in Nat
  BY <1>2, <1>3, <1>5
<1>8. s.data = << >> /\ s.addrSet = FALSE
  <2>1. "data" \notin SecNumbers /\ "addrSet" \notin SecNumbers
    BY DEF SecNumbers
  <2>2. "data" \in DOMAIN NewSection /\ "addrSet" \in DOMAIN NewSection
    BY <1>3
  <2>. QED
    BY <1>4, <1>5, <2>1, <2>2
<1>. QED
  BY <1>6, <1>7, <1>8 DEF Numbers, s

LEMMA SegmentHeaderType ==
  ASSUME NEW cells \in Seq(Nat), NEW encoding
  PROVE  LET s == SegmentHeader(cells, encoding)
         IN  /\ Numbers(s, SegNumbers) /\ s.offSet = TRUE
             /\ {"data", "has", "index", "secs", "offSet"} \subseteq DOMAIN s
<1>. DEFINE pad == ZeroPadded(cells, PhdrSize)
            h == Unpack(PhdrCells, pad, encoding)
            s == SegmentHeader(cells, encoding)
<1>1. pad \in Seq(Nat) /\ Len(pad) = 8
  <2>1. PhdrSize = 8 /\ 8 \in Nat
    BY CellsOf
  <2>. HIDE DEF pad
  <2>. QED
    BY <2>1, PaddedType DEF pad
<1>. HIDE DEF pad
<1>2. DOMAIN h = SegNumbers /\ \A f \in SegNumbers : h[f] \in Nat
  BY <1>1, CellsOf, UnpackType
<1>3. DOMAIN NewSegment = SegNumbers \cup {"data", "has", "index", "secs", "offSet"}
  BY FieldSets DEF NewSegment, Bare
<1>4. s = [f \in DOMAIN NewSegment |-> IF f \in SegNumbers THEN h[f]
                                      ELSE IF f = "offSet" THEN TRUE ELSE NewSegment[f]]
  BY FieldSets DEF SegmentHeader, h, pad
<1>. HIDE DEF h, s
<1>5. DOMAIN s = SegNumbers \cup {"data", "has", "index", "secs", "offSet"}
  BY <1>3, <1>4
<1>6. \A f \in SegNumbers : s[f] \in Nat
  BY <1>2, <1>3, <1>4
<1>7. s.offSet = TRUE
  <2>1. "offSet" \notin SegNumbers /\ "offSet" \in DOMAIN NewSegment
    BY <1>3 DEF SegNumbers
  <2>. QED
    BY <1>4, <2>1
<1>. QED
  BY <1>5, <1>6, <1>7 DEF Numbers, s

(* A section as it is loaded, but for its index.                           *)
LoadedSection(s) ==
  /\ Numbers(s, SecNumbers) /\ s.data \in Seq(Nat) /\ s.addrSet \in BOOLEAN
  /\ {"label", "data", "has", "cap", "index", "addrSet", "stream"} \subseteq DOMAIN s

LEMMA LoadSectionType ==
  ASSUME NEW st, IsIn(st), NEW at \in Nat, NEW encoding, NEW r,
         r = LoadSection(st, at, << >>, encoding)
  PROVE  LoadedSection(r.sec) /\ IsIn(r.st)
<1>. DEFINE limit == StreamSize(st)
            cells == ReadAt(st, at, ShdrSize)
            h     == SectionHeader(cells, limit, encoding)
            st2   == AfterRead(st, at, ShdrSize)
            bytes == ReadAt(st2, h.offset, h.size)
            st3   == AfterRead(st2, h.offset, h.size)
            bare  == [h EXCEPT !.has = TRUE]
            full  == [h EXCEPT !.has = TRUE, !.data = bytes, !.cap = h.size]
<1>1. ShdrSize \in Nat
  BY CellsOf
<1>2. cells \in Seq(Nat) /\ IsIn(st2)
  BY <1>1, ReadType
<1>3. r = LoadSectionData(h, st2, << >>)
  BY NoTranslation DEF LoadSection
<1>. HIDE DEF cells, limit, st2
<1>4. LoadedSection(h)
  <2>1. /\ Numbers(h, SecNumbers) /\ h.data = << >> /\ h.addrSet = FALSE
        /\ {"label", "data", "has", "cap", "index", "addrSet", "stream"} \subseteq DOMAIN h
    BY <1>2, SectionHeaderType
  <2>. HIDE DEF h
  <2>2. << >> \in Seq(Nat)
    BY EmptySeq
  <2>. QED
    BY <2>1, <2>2 DEF LoadedSection
<1>. HIDE DEF h
<1>5. h.offset \in Nat /\ h.size \in Nat
  BY <1>4 DEF LoadedSection, Numbers, SecNumbers
<1>6. bytes \in Seq(Nat) /\ IsIn(st3)
  BY <1>2, <1>5, ReadType
<1>7. \/ r = [sec |-> h, st |-> st2] \/ r = [sec |-> bare, st |-> st2]
      \/ r = [sec |-> WithBytes(h, bytes), st |-> st3]
  BY <1>3, NoTranslation DEF LoadSectionData
<1>8. WithBytes(h, bytes) = h \/ WithBytes(h, bytes) = full
  BY DEF WithBytes
<1>. HIDE DEF bytes, st3
<1>9. LoadedSection(bare) /\ LoadedSection(full)
  <2>1. {"has", "data", "cap"} \subseteq DOMAIN h /\ SecNumbers \subseteq DOMAIN h
    BY <1>4 DEF LoadedSection, Numbers
  <2>2. /\ DOMAIN bare = DOMAIN h /\ \A f \in DOMAIN h \ {"has"} : bare[f] = h[f]
        /\ DOMAIN full = DOMAIN h /\ full.data = bytes
        /\ \A f \in DOMAIN h \ {"has", "data", "cap"} : full[f] = h[f]
    BY <2>1
  <2>. HIDE DEF bare, full
  <2>3. \A f \in SecNumbers : f \in DOMAIN h \ {"has", "data", "cap"}
    BY <2>1 DEF SecNumbers
  <2>4. \A f \in SecNumbers : bare[f] \in Nat /\ full[f] \in Nat
    BY <1>4, <2>2, <2>3 DEF LoadedSection, Numbers
  <2>5. {"data", "addrSet"} \subseteq DOMAIN h \ {"has"} /\ "addrSet" \in DOMAIN h \ {"has", "data", "cap"}
    BY <1>4 DEF LoadedSection
  <2>6. bare.data = h.data /\ bare.addrSet = h.addrSet /\ full.addrSet = h.addrSet
    BY <2>2, <2>5
  <2>. QED
    BY <1>4, <1>6, <2>1, <2>2, <2>4, <2>6 DEF LoadedSection, Numbers
<1>. HIDE DEF bare, full
<1>10. CASE r = [sec |-> h, st |-> st2]
  BY <1>2, <1>4, <1>10
<1>11. CASE r = [sec |-> bare, st |-> st2]
  BY <1>2, <1>9, <1>11
<1>12. CASE r = [sec |-> WithBytes(h, bytes), st |-> st3]
  BY <1>4, <1>6, <1>8, <1>9, <1>12
<1>. QED
  BY <1>7, <1>10, <1>11, <1>12

(* The sections read so far.                                               *)
AreSections(q) == IsSeq(q) /\ \A i \in 1 .. Len(q) : IsSection(q[i], i - 1)

LEMMA OneSectionMore ==
  ASSUME NEW q, AreSections(q), NEW s, IsSection(s, Len(q))
  PROVE  AreSections(Append(q, s)) /\ Len(Append(q, s)) = Len(q) + 1
<1>. DEFINE n == Len(q)
            r == Append(q, s)
<1>1. n \in Nat /\ IsSeq(q)
  BY SeqIs DEF AreSections
<1>2. IsSeq(r) /\ Len(r) = n + 1 /\ r[n + 1] = s /\ \A j \in 1 .. n : r[j] = q[j]
  BY <1>1, SeqAppend
<1>. HIDE DEF r
<1>3. \A j \in 1 .. (n + 1) : IsSection(r[j], j - 1)
  <2>. SUFFICES ASSUME NEW j \in 1 .. (n + 1) PROVE IsSection(r[j], j - 1)
    OBVIOUS
  <2>1. CASE j = n + 1
    <3>1. (n + 1) - 1 = n
      BY <1>1
    <3>. QED
      BY <1>2, <2>1, <3>1
  <2>2. CASE j # n + 1
    <3>1. j \in 1 .. n
      BY <1>1, <2>2
    <3>. QED
      BY <1>2, <3>1 DEF AreSections
  <2>. QED
    BY <2>1, <2>2
<1>4. AreSections(r)
  BY <1>2, <1>3 DEF AreSections
<1>. QED
  BY <1>2, <1>4 DEF r

SectionsSoFar(read) == AreSections(read.secs) /\ IsIn(read.st)

LEMMA AddLoadedType ==
  ASSUME NEW read, SectionsSoFar(read), NEW r, LoadedSection(r.sec), IsIn(r.st)
  PROVE  SectionsSoFar(AddLoaded(read, r))
<1>. DEFINE n == Len(read.secs)
            s == r.sec
            a == s.addr
            i == [s EXCEPT !.index = n]
            t == [i EXCEPT !.addr = a, !.addrSet = TRUE]
            q == read.secs
<1>1. AddLoaded(read, r) = [secs |-> Append(q, t), st |-> r.st]
  BY DEF AddLoaded, SetAddress
<1>2. SecNumbers \subseteq DOMAIN s /\ {"index", "data", "addrSet"} \subseteq DOMAIN s
      /\ "addr" \in DOMAIN s /\ a \in Nat
  BY DEF LoadedSection, Numbers, SecNumbers
<1>. HIDE DEF n, s, a
<1>3. DOMAIN i = DOMAIN s /\ i.index = n /\ \A f \in DOMAIN s \ {"index"} : i[f] = s[f]
  BY <1>2
<1>. HIDE DEF i
<1>4. /\ DOMAIN t = DOMAIN s /\ t.index = n /\ t.addr = a /\ t.addrSet = TRUE
      /\ \A f \in DOMAIN s \ {"index", "addr", "addrSet"} : t[f] = s[f]
  BY <1>2, <1>3
<1>. HIDE DEF t
<1>5. \A f \in SecNumbers : f = "addr" \/ f \in DOMAIN s \ {"index", "addr", "addrSet"}
  BY <1>2 DEF SecNumbers
<1>6. \A f \in SecNumbers : t[f] \in Nat
  BY <1>2, <1>4, <1>5 DEF LoadedSection, Numbers, s
<1>7. t.data = s.data /\ TRUE \in BOOLEAN
  BY <1>2, <1>4
<1>8. IsSection(t, n)
  BY <1>2, <1>4, <1>6, <1>7 DEF LoadedSection, Numbers, IsSection, s
<1>9. AreSections(Append(q, t))
  <2>1. AreSections(q)
    BY DEF SectionsSoFar
  <2>. HIDE DEF q
  <2>. QED
    BY <1>8, <2>1, OneSectionMore DEF n, q
<1>. DEFINE p == Append(q, t)
<1>. HIDE DEF p
<1>10. AddLoaded(read, r).secs = p /\ AddLoaded(read, r).st = r.st
  BY <1>1 DEF p
<1>. QED
  BY <1>9, <1>10 DEF SectionsSoFar, p

ReadMore(hdr, read, i) ==
  AddLoaded(read, LoadSection(read.st, hdr.shoff + i * hdr.shentsize, << >>, hdr.data))

(* One section after the other is read.                                    *)
LEMMA SectionsUnfold ==
  ASSUME NEW e, NEW st, ~(e.hdr.shnum # 0 /\ e.hdr.shentsize < ShdrSize), e.hdr.shnum \in Nat
  PROVE  \E f : /\ f[0] = [secs |-> << >>, st |-> st]
                /\ \A n \in 1 .. e.hdr.shnum : f[n] = ReadMore(e.hdr, f[n - 1], n - 1)
                /\ LoadSections(e, st, << >>) = SectionsRead(e, f[e.hdr.shnum])
<1>. DEFINE seq == [i \in 1 .. e.hdr.shnum |-> i - 1]
            base == [secs |-> << >>, st |-> st]
            Runs(f, m) == f = [i \in 0 .. m |-> IF i = 0 THEN base
                                ELSE ReadMore(e.hdr, f[i - 1], seq[i])]
            T == {m \in Nat : \E f : Runs(f, m)}
            F == CHOOSE f : Runs(f, Len(seq))
<1>1. 0 \in T
  <2>1. Runs([i \in 0 .. 0 |-> base], 0)
    OBVIOUS
  <2>. QED
    BY <2>1
<1>2. ASSUME NEW m \in Nat, m \in T PROVE m + 1 \in T
  <2>1. PICK f : Runs(f, m)
    BY <1>2
  <2>. DEFINE g == [i \in 0 .. (m + 1) |->
                      IF i = m + 1 THEN ReadMore(e.hdr, f[m], seq[m + 1]) ELSE f[i]]
  <2>2. Runs(g, m + 1)
    <3>. SUFFICES ASSUME NEW i \in 0 .. (m + 1)
                  PROVE  g[i] = IF i = 0 THEN base
                                ELSE ReadMore(e.hdr, g[i - 1], seq[i])
      BY Zenon
    <3>. HIDE DEF seq, base
    <3>. QED
      BY <2>1
  <2>. HIDE DEF Runs, g
  <2>. QED
    BY <2>2
<1>3. Nat \subseteq T
  <2>. HIDE DEF T
  <2>. QED
    BY <1>1, <1>2, SetInduction
<1>4. LoadSections(e, st, << >>) = SectionsRead(e, F[Len(seq)])
  BY DEF LoadSections, Loop, ReadMore
<1>5. Len(seq) = e.hdr.shnum /\ \A n \in 1 .. e.hdr.shnum : seq[n] = n - 1
  OBVIOUS
<1>6. Runs(F, e.hdr.shnum)
  <2>1. \E f : Runs(f, e.hdr.shnum)
    BY <1>3
  <2>. HIDE DEF Runs, seq, base
  <2>. QED
    BY <1>5, <2>1
<1>7. /\ F[0] = base
      /\ \A n \in 1 .. e.hdr.shnum : F[n] = ReadMore(e.hdr, F[n - 1], n - 1)
  <2>. HIDE DEF F, seq, base
  <2>. QED
    BY <1>5, <1>6
<1>. QED
  BY <1>4, <1>5, <1>7

(* The names of the sections.                                              *)
NamedOne(secs, k, sec) ==
  LET str == GetString(secs[k + 1], sec.name)
  IN  IF str = NoString THEN sec ELSE [sec EXCEPT !.label = str]

NameMore(secs, k, done, sec) == Append(done, NamedOne(secs, k, sec))

(* One section after the other gets its name.                              *)
LEMMA NamesUnfold ==
  ASSUME NEW secs, NEW k, ~(k = 0 \/ k >= Len(secs)), Len(secs) \in Nat
  PROVE  \E f : /\ f[0] = << >>
                /\ \A n \in 1 .. Len(secs) : f[n] = NameMore(secs, k, f[n - 1], secs[n])
                /\ NameSections(secs, k) = f[Len(secs)]
<1>. DEFINE seq == secs
            base == << >>
            Runs(f, m) == f = [i \in 0 .. m |-> IF i = 0 THEN base
                                ELSE NameMore(secs, k, f[i - 1], seq[i])]
            T == {m \in Nat : \E f : Runs(f, m)}
            F == CHOOSE f : Runs(f, Len(seq))
<1>1. 0 \in T
  <2>1. Runs([i \in 0 .. 0 |-> base], 0)
    OBVIOUS
  <2>. QED
    BY <2>1
<1>2. ASSUME NEW m \in Nat, m \in T PROVE m + 1 \in T
  <2>1. PICK f : Runs(f, m)
    BY <1>2
  <2>. DEFINE g == [i \in 0 .. (m + 1) |->
                      IF i = m + 1 THEN NameMore(secs, k, f[m], seq[m + 1]) ELSE f[i]]
  <2>2. Runs(g, m + 1)
    <3>. SUFFICES ASSUME NEW i \in 0 .. (m + 1)
                  PROVE  g[i] = IF i = 0 THEN base
                                ELSE NameMore(secs, k, g[i - 1], seq[i])
      BY Zenon
    <3>. HIDE DEF seq, base
    <3>. QED
      BY <2>1
  <2>. HIDE DEF Runs, g
  <2>. QED
    BY <2>2
<1>3. Nat \subseteq T
  <2>. HIDE DEF T
  <2>. QED
    BY <1>1, <1>2, SetInduction
<1>4. NameSections(secs, k) = F[Len(seq)]
  BY DEF NameSections, Loop, NameMore, NamedOne
<1>5. Len(seq) = Len(secs)
  OBVIOUS
<1>6. Runs(F, Len(secs))
  <2>1. \E f : Runs(f, Len(secs))
    BY <1>3
  <2>. HIDE DEF Runs, seq, base
  <2>. QED
    BY <1>5, <2>1
<1>7. /\ F[0] = base
      /\ \A n \in 1 .. Len(secs) : F[n] = NameMore(secs, k, F[n - 1], seq[n])
  <2>. HIDE DEF F, seq, base
  <2>. QED
    BY <1>5, <1>6
<1>. QED
  BY <1>4, <1>5, <1>7


LEMMA NamesKeep ==
  ASSUME NEW q, AreSections(q), NEW k \in Nat
  PROVE  AreSections(NameSections(q, k)) /\ Len(NameSections(q, k)) = Len(q)
<1>. DEFINE n == Len(q)
            r == NameSections(q, k)
<1>1. n \in Nat /\ IsSeq(q) /\ \A i \in 1 .. n : IsSection(q[i], i - 1)
  BY SeqIs DEF AreSections
<1>2. CASE k = 0 \/ k >= n
  BY <1>2 DEF NameSections
<1>3. CASE ~(k = 0 \/ k >= n)
  <2>1. PICK f : /\ f[0] = << >>
                 /\ \A i \in 1 .. n : f[i] = NameMore(q, k, f[i - 1], q[i])
                 /\ r = f[n]
    BY <1>1, <1>3, NamesUnfold
  <2>. HIDE DEF n, r
  <2>. DEFINE T == {i \in Nat : i <= n => AreSections(f[i]) /\ Len(f[i]) = i}
  <2>2. 0 \in T
    <3>1. IsSeq(<< >>) /\ Len(<< >>) = 0
      BY EmptySeq DEF IsSeq
    <3>2. AreSections(<< >>)
      BY <3>1 DEF AreSections
    <3>. QED
      BY <2>1, <3>1, <3>2
  <2>3. ASSUME NEW i \in Nat, i \in T PROVE i + 1 \in T
    <3>. SUFFICES ASSUME i + 1 <= n PROVE AreSections(f[i + 1]) /\ Len(f[i + 1]) = i + 1
      OBVIOUS
    <3>. DEFINE d == f[i]
                s == q[i + 1]
                str == GetString(q[k + 1], s.name)
                u == [s EXCEPT !.label = str]
                x == NamedOne(q, k, s)
    <3>1. i + 1 \in 1 .. n /\ (i + 1) - 1 = i /\ i <= n
      BY <1>1
    <3>2. AreSections(d) /\ Len(d) = i
      BY <2>3, <3>1
    <3>3. IsSection(s, i)
      BY <1>1, <3>1
    <3>4. f[i + 1] = Append(d, x)
      BY <2>1, <3>1 DEF NameMore
    <3>5. x = s \/ x = u
      BY DEF NamedOne
    <3>. HIDE DEF d, s, x, str
    <3>6. IsSection(u, i)
      <4>1. SecNumbers \subseteq DOMAIN s \ {"label"} /\ {"index", "data", "addrSet"} \subseteq DOMAIN s \ {"label"}
        BY <3>3 DEF IsSection, Numbers, SecNumbers
      <4>2. DOMAIN u = DOMAIN s /\ \A y \in DOMAIN s \ {"label"} : u[y] = s[y]
        BY <4>1
      <4>. HIDE DEF u
      <4>3. \A y \in SecNumbers : u[y] \in Nat
        BY <3>3, <4>1, <4>2 DEF IsSection, Numbers
      <4>4. u.index = s.index /\ u.data = s.data /\ u.addrSet = s.addrSet
        BY <4>1, <4>2
      <4>. QED
        BY <3>3, <4>2, <4>3, <4>4, SectionChange DEF IsSection
    <3>. HIDE DEF u
    <3>7. IsSection(x, Len(d))
      BY <3>2, <3>3, <3>5, <3>6
    <3>. QED
      BY <3>2, <3>4, <3>7, OneSectionMore
  <2>4. AreSections(f[n]) /\ Len(f[n]) = n
    <3>. HIDE DEF T
    <3>1. Nat \subseteq T
      BY <2>2, <2>3, SetInduction
    <3>. QED
      BY <1>1, <3>1 DEF T, n
  <2>. QED
    BY <2>1, <2>4 DEF n, r
<1>. QED
  BY <1>2, <1>3

(* The object, the stream and the result of a load so far.                 *)
ReadSoFar(s) ==
  /\ DOMAIN s = {"elf", "st", "ok"}
  /\ IsObject(s.elf) /\ IsIn(s.st) /\ s.ok \in BOOLEAN

LEMMA LoadSectionsType ==
  ASSUME NEW e, IsObject(e), e.secs = << >>, e.segs = << >>, NEW st, IsIn(st)
  PROVE  ReadSoFar(LoadSections(e, st, << >>))
<1>. DEFINE h == e.hdr
            n == h.shnum
            r == LoadSections(e, st, << >>)
<1>1. /\ n \in Nat /\ h.shoff \in Nat /\ h.shentsize \in Nat /\ h.shstrndx \in Nat
      /\ {"hdr", "secs", "segs"} \subseteq DOMAIN e
  BY DEF IsObject, Numbers, HdrNumbers
<1>2. CASE n # 0 /\ h.shentsize < ShdrSize
  <2>1. r = [elf |-> e, st |-> st, ok |-> FALSE]
    BY <1>2 DEF LoadSections
  <2>. HIDE DEF r
  <2>2. ReadSoFar(r)
    BY <2>1 DEF ReadSoFar
  <2>. QED
    BY <2>2 DEF r
<1>3. CASE ~(n # 0 /\ h.shentsize < ShdrSize)
  <2>1. PICK f : /\ f[0] = [secs |-> << >>, st |-> st]
                 /\ \A k \in 1 .. n : f[k] = ReadMore(h, f[k - 1], k - 1)
                 /\ r = SectionsRead(e, f[n])
    BY <1>1, <1>3, SectionsUnfold
  <2>. HIDE DEF n, h, r
  <2>. DEFINE T == {k \in Nat : k <= n => SectionsSoFar(f[k])}
  <2>2. 0 \in T
    <3>1. IsSeq(<< >>) /\ Len(<< >>) = 0
      BY EmptySeq DEF IsSeq
    <3>2. AreSections(<< >>)
      BY <3>1 DEF AreSections
    <3>. QED
      BY <2>1, <3>2 DEF SectionsSoFar
  <2>3. ASSUME NEW k \in Nat, k \in T PROVE k + 1 \in T
    <3>. SUFFICES ASSUME k + 1 <= n PROVE SectionsSoFar(f[k + 1])
      OBVIOUS
    <3>. DEFINE read == f[k]
                at == h.shoff + k * h.shentsize
                enc == h.data
                l == LoadSection(read.st, at, << >>, enc)
    <3>1. k + 1 \in 1 .. n /\ (k + 1) - 1 = k /\ k <= n
      BY <1>1
    <3>2. SectionsSoFar(read)
      BY <2>3, <3>1
    <3>3. f[k + 1] = AddLoaded(read, l)
      BY <2>1, <3>1 DEF ReadMore
    <3>4. at \in Nat
      <4>. DEFINE o == h.shoff
                  z == h.shentsize
      <4>1. o \in Nat /\ z \in Nat /\ at = o + k * z
        BY <1>1
      <4>. HIDE DEF o, z, at
      <4>2. k * z \in Nat
        BY <4>1
      <4>. QED
        BY <4>1, <4>2
    <3>. HIDE DEF read, at, enc, l
    <3>5. LoadedSection(l.sec) /\ IsIn(l.st)
      <4>1. IsIn(read.st)
        BY <3>2 DEF SectionsSoFar
      <4>. QED
        BY <3>4, <4>1, LoadSectionType DEF l
    <3>. QED
      BY <3>2, <3>3, <3>5, AddLoadedType
  <2>4. SectionsSoFar(f[n])
    <3>. HIDE DEF T
    <3>1. Nat \subseteq T
      BY <2>2, <2>3, SetInduction
    <3>. QED
      BY <1>1, <3>1 DEF T, n
  <2>. DEFINE q == NameSections(f[n].secs, h.shstrndx)
              u == [e EXCEPT !.secs = q]
  <2>5. AreSections(q)
    <3>. DEFINE p == f[n].secs
    <3>1. AreSections(p)
      BY <2>4 DEF SectionsSoFar
    <3>. HIDE DEF p
    <3>. QED
      BY <1>1, <3>1, NamesKeep DEF p, h
  <2>6. r = [elf |-> u, st |-> f[n].st, ok |-> TRUE]
    BY <2>1 DEF SectionsRead, h
  <2>. HIDE DEF q
  <2>7. DOMAIN u = DOMAIN e /\ u.secs = q /\ u.hdr = e.hdr /\ u.segs = << >>
    BY <1>1
  <2>. HIDE DEF u
  <2>8. IsObject(u)
    <3>1. IsSeq(<< >>) /\ Len(<< >>) = 0
      BY EmptySeq DEF IsSeq
    <3>. QED
      BY <1>1, <2>5, <2>7, <3>1 DEF IsObject, AreSections
  <2>. DEFINE p == f[n].st
  <2>9. IsIn(p)
    BY <2>4 DEF SectionsSoFar
  <2>. HIDE DEF p
  <2>10. r = [elf |-> u, st |-> p, ok |-> TRUE]
    BY <2>6 DEF p
  <2>11. ReadSoFar(r)
    BY <2>8, <2>9, <2>10 DEF ReadSoFar
  <2>. QED
    BY <2>11 DEF r
<1>. QED
  BY <1>2, <1>3

(* The sections of a segment.                                              *)
Member(seg, s) ==
  IF HasFlag(s.flags, SHF_ALLOC)
  THEN IsSectInSeg(s.addr, s.size, seg.vaddr, seg.vaddr + seg.memsz)
  ELSE IsSectInSeg(s.offset, s.size, seg.offset, seg.offset + seg.filesz)

MoreMembers(seg, list, s) == IF Member(seg, s) THEN Append(list, s.index) ELSE list

(* One section after the other is looked at.                               *)
LEMMA MembersUnfold ==
  ASSUME NEW e, NEW seg, Len(e.secs) \in Nat
  PROVE  \E f : /\ f[0] = << >>
                /\ \A n \in 1 .. Len(e.secs) : f[n] = MoreMembers(seg, f[n - 1], e.secs[n])
                /\ SectionsOf(e, seg) = f[Len(e.secs)]
<1>. DEFINE seq == e.secs
            base == << >>
            Runs(f, m) == f = [i \in 0 .. m |-> IF i = 0 THEN base
                                ELSE MoreMembers(seg, f[i - 1], seq[i])]
            T == {m \in Nat : \E f : Runs(f, m)}
            F == CHOOSE f : Runs(f, Len(seq))
<1>1. 0 \in T
  <2>1. Runs([i \in 0 .. 0 |-> base], 0)
    OBVIOUS
  <2>. QED
    BY <2>1
<1>2. ASSUME NEW m \in Nat, m \in T PROVE m + 1 \in T
  <2>1. PICK f : Runs(f, m)
    BY <1>2
  <2>. DEFINE g == [i \in 0 .. (m + 1) |->
                      IF i = m + 1 THEN MoreMembers(seg, f[m], seq[m + 1]) ELSE f[i]]
  <2>2. Runs(g, m + 1)
    <3>. SUFFICES ASSUME NEW i \in 0 .. (m + 1)
                  PROVE  g[i] = IF i = 0 THEN base
                                ELSE MoreMembers(seg, g[i - 1], seq[i])
      BY Zenon
    <3>. HIDE DEF seq, base
    <3>. QED
      BY <2>1
  <2>. HIDE DEF Runs, g
  <2>. QED
    BY <2>2
<1>3. Nat \subseteq T
  <2>. HIDE DEF T
  <2>. QED
    BY <1>1, <1>2, SetInduction
<1>4. SectionsOf(e, seg) = F[Len(seq)]
  BY DEF SectionsOf, Loop, MoreMembers, Member
<1>5. Len(seq) = Len(e.secs)
  OBVIOUS
<1>6. Runs(F, Len(e.secs))
  <2>1. \E f : Runs(f, Len(e.secs))
    BY <1>3
  <2>. HIDE DEF Runs, seq, base
  <2>. QED
    BY <1>5, <2>1
<1>7. /\ F[0] = base
      /\ \A n \in 1 .. Len(e.secs) : F[n] = MoreMembers(seg, F[n - 1], seq[n])
  <2>. HIDE DEF F, seq, base
  <2>. QED
    BY <1>5, <1>6
<1>. QED
  BY <1>4, <1>5, <1>7


LEMMA MembersType ==
  ASSUME NEW e, IsObject(e), NEW seg
  PROVE  SectionsOf(e, seg) \in Seq(0 .. (Len(e.secs) - 1))
<1>. DEFINE q == e.secs
            n == Len(q)
            S == 0 .. (n - 1)
<1>1. n \in Nat /\ \A i \in 1 .. n : IsSection(q[i], i - 1)
  BY SeqIs DEF IsObject
<1>2. PICK f : /\ f[0] = << >>
               /\ \A i \in 1 .. n : f[i] = MoreMembers(seg, f[i - 1], q[i])
               /\ SectionsOf(e, seg) = f[n]
  BY <1>1, MembersUnfold
<1>. HIDE DEF q, n
<1>. DEFINE T == {i \in Nat : i <= n => f[i] \in Seq(S)}
<1>. HIDE DEF S
<1>3. 0 \in T
  BY <1>2, EmptySeq
<1>4. ASSUME NEW i \in Nat, i \in T PROVE i + 1 \in T
  <2>. SUFFICES ASSUME i + 1 <= n PROVE f[i + 1] \in Seq(S)
    OBVIOUS
  <2>. DEFINE l == f[i]
              s == q[i + 1]
              x == s.index
  <2>1. i + 1 \in 1 .. n /\ (i + 1) - 1 = i /\ i <= n
    BY <1>1
  <2>2. l \in Seq(S)
    BY <1>4, <2>1
  <2>3. IsSection(s, i)
    BY <1>1, <2>1
  <2>4. x \in S
    BY <1>1, <2>1, <2>3 DEF IsSection, S
  <2>5. f[i + 1] = l \/ f[i + 1] = Append(l, x)
    BY <1>2, <2>1 DEF MoreMembers
  <2>. HIDE DEF l, x
  <2>6. Append(l, x) \in Seq(S)
    BY <2>2, <2>4, AppendProperties
  <2>. QED
    BY <2>2, <2>5, <2>6
<1>5. f[n] \in Seq(S)
  <2>. HIDE DEF T
  <2>1. Nat \subseteq T
    BY <1>3, <1>4, SetInduction
  <2>. QED
    BY <1>1, <2>1 DEF T
<1>. QED
  BY <1>2, <1>5 DEF S, n, q

(* A segment as it is loaded, but for its index and its sections.          *)
LoadedSegment(s) ==
  /\ Numbers(s, SegNumbers) /\ s.offSet \in BOOLEAN
  /\ {"data", "has", "index", "secs", "offSet"} \subseteq DOMAIN s

LEMMA LoadSegmentType ==
  ASSUME NEW st, IsIn(st), NEW at \in Nat, NEW encoding, NEW r,
         r = LoadSegment(st, at, << >>, encoding)
  PROVE  LoadedSegment(r.seg) /\ IsIn(r.st) /\ r.ok \in BOOLEAN
<1>. DEFINE limit == StreamSize(st)
            cells == ReadAt(st, at, PhdrSize)
            h     == SegmentHeader(cells, encoding)
            st2   == AfterRead(st, at, PhdrSize)
            bytes == ReadAt(st2, h.offset, h.filesz)
            st3   == AfterRead(st2, h.offset, h.filesz)
            full  == [h EXCEPT !.has = TRUE, !.data = bytes]
<1>1. PhdrSize \in Nat
  BY CellsOf
<1>2. cells \in Seq(Nat) /\ IsIn(st2)
  BY <1>1, ReadType
<1>3. r = LoadSegmentData(h, st2, limit, << >>)
  BY NoTranslation DEF LoadSegment
<1>. HIDE DEF cells, limit, st2
<1>4. LoadedSegment(h)
  <2>1. /\ Numbers(h, SegNumbers) /\ h.offSet = TRUE
        /\ {"data", "has", "index", "secs", "offSet"} \subseteq DOMAIN h
    BY <1>2, SegmentHeaderType
  <2>. HIDE DEF h
  <2>. QED
    BY <2>1 DEF LoadedSegment
<1>. HIDE DEF h
<1>5. h.offset \in Nat /\ h.filesz \in Nat
  BY <1>4 DEF LoadedSegment, Numbers, SegNumbers
<1>6. IsIn(st3)
  BY <1>2, <1>5, ReadType
<1>7. \/ r = [seg |-> h, st |-> st2, ok |-> TRUE]
      \/ r = SegmentWithBytes(h, bytes, st3)
  BY <1>3, NoTranslation DEF LoadSegmentData
<1>8. \/ SegmentWithBytes(h, bytes, st3) = [seg |-> h, st |-> st3, ok |-> FALSE]
      \/ SegmentWithBytes(h, bytes, st3) = [seg |-> full, st |-> st3, ok |-> TRUE]
  BY DEF SegmentWithBytes
<1>. HIDE DEF bytes, st3
<1>9. LoadedSegment(full)
  <2>1. {"has", "data"} \subseteq DOMAIN h /\ SegNumbers \subseteq DOMAIN h
    BY <1>4 DEF LoadedSegment, Numbers
  <2>2. /\ DOMAIN full = DOMAIN h
        /\ \A f \in DOMAIN h \ {"has", "data"} : full[f] = h[f]
    BY <2>1
  <2>. HIDE DEF full
  <2>3. \A f \in SegNumbers : f \in DOMAIN h \ {"has", "data"}
    BY <2>1 DEF SegNumbers
  <2>4. \A f \in SegNumbers : full[f] \in Nat
    BY <1>4, <2>2, <2>3 DEF LoadedSegment, Numbers
  <2>5. "offSet" \in DOMAIN h \ {"has", "data"}
    BY <1>4 DEF LoadedSegment
  <2>6. full.offSet = h.offSet
    BY <2>2, <2>5
  <2>. QED
    BY <1>4, <2>1, <2>2, <2>4, <2>6 DEF LoadedSegment, Numbers
<1>. HIDE DEF full
<1>10. CASE r = [seg |-> h, st |-> st2, ok |-> TRUE]
  <2>1. r.seg = h /\ r.st = st2
    BY <1>10
  <2>2. r.ok = TRUE
    BY <1>10
  <2>. QED
    BY <1>2, <1>4, <2>1, <2>2, Zenon
<1>11. CASE r = [seg |-> h, st |-> st3, ok |-> FALSE]
  <2>1. r.seg = h /\ r.st = st3
    BY <1>11
  <2>2. r.ok = FALSE
    BY <1>11
  <2>. QED
    BY <1>4, <1>6, <2>1, <2>2, Zenon
<1>12. CASE r = [seg |-> full, st |-> st3, ok |-> TRUE]
  <2>1. r.seg = full /\ r.st = st3
    BY <1>12
  <2>2. r.ok = TRUE
    BY <1>12
  <2>. QED
    BY <1>6, <1>9, <2>1, <2>2, Zenon
<1>. QED
  BY <1>7, <1>8, <1>10, <1>11, <1>12

LEMMA AddSegmentType ==
  ASSUME NEW acc, ReadSoFar(acc), NEW r, LoadedSegment(r.seg), IsIn(r.st), r.ok \in BOOLEAN
  PROVE  ReadSoFar(AddSegment(acc, r))
<1>. DEFINE e == acc.elf
            s == r.seg
            n == Len(e.segs)
            l == SectionsOf(e, s)
            x == [s EXCEPT !.index = n, !.secs = l]
            q == Append(e.segs, x)
            u == [e EXCEPT !.segs = q]
            st == r.st
            a == [acc EXCEPT !.st = st, !.ok = FALSE]
            b == [acc EXCEPT !.elf = u, !.st = st]
<1>1. /\ DOMAIN acc = {"elf", "st", "ok"} /\ IsObject(e) /\ acc.ok \in BOOLEAN
      /\ {"hdr", "secs", "segs"} \subseteq DOMAIN e
  BY DEF ReadSoFar, IsObject
<1>2. l \in Seq(0 .. (Len(e.secs) - 1)) /\ n \in Nat
  BY <1>1, MembersType, SeqIs DEF IsObject
<1>3. AddSegment(acc, r) = a \/ AddSegment(acc, r) = b
  <2>1. CASE ~r.ok \/ r.st.fail
    BY <2>1 DEF AddSegment
  <2>2. CASE ~(~r.ok \/ r.st.fail)
    <3>1. r.ok /\ ~r.st.fail
      BY <2>2
    <3>. QED
      BY <3>1 DEF AddSegment
  <2>. QED
    BY <2>1, <2>2
<1>. HIDE DEF l, n, s
<1>4. IsSegment(x, Len(e.secs)) /\ x.index = n
  <2>1. {"index", "secs", "offSet"} \subseteq DOMAIN s /\ SegNumbers \subseteq DOMAIN s
    BY DEF LoadedSegment, Numbers, s
  <2>2. /\ DOMAIN x = DOMAIN s /\ x.index = n /\ x.secs = l
        /\ \A f \in DOMAIN s \ {"index", "secs"} : x[f] = s[f]
    BY <2>1
  <2>. HIDE DEF x
  <2>3. \A f \in SegNumbers : f \in DOMAIN s \ {"index", "secs"}
    BY <2>1 DEF SegNumbers
  <2>4. \A f \in SegNumbers : x[f] \in Nat
    BY <2>2, <2>3 DEF LoadedSegment, Numbers, s
  <2>5. x.offSet \in BOOLEAN
    BY <2>1, <2>2 DEF LoadedSegment, s
  <2>. QED
    BY <1>2, <2>1, <2>2, <2>4, <2>5 DEF LoadedSegment, IsSegment, Numbers, s
<1>. HIDE DEF x, e
<1>5. DOMAIN u = DOMAIN e /\ u.hdr = e.hdr /\ u.secs = e.secs /\ u.segs = q
  BY <1>1
<1>. HIDE DEF u
<1>6. IsObject(u)
  BY <1>1, <1>4, <1>5, SegmentAdded DEF n
<1>. HIDE DEF st
<1>7. ReadSoFar(a)
  <2>1. /\ DOMAIN a = DOMAIN acc /\ a.elf = e /\ a.st = st /\ a.ok = FALSE
    BY <1>1 DEF e
  <2>. HIDE DEF a
  <2>. QED
    BY <1>1, <2>1 DEF ReadSoFar, st
<1>8. ReadSoFar(b)
  <2>1. /\ DOMAIN b = DOMAIN acc /\ b.elf = u /\ b.st = st /\ b.ok = acc.ok
    BY <1>1
  <2>. HIDE DEF b
  <2>. QED
    BY <1>1, <1>6, <2>1 DEF ReadSoFar, st
<1>. HIDE DEF a, b
<1>. QED
  BY <1>3, <1>7, <1>8

ReadSegment(hdr, acc, i) ==
  IF ~acc.ok THEN acc
  ELSE AddSegment(acc, LoadSegment(acc.st, hdr.phoff + i * hdr.phentsize, << >>, hdr.data))

(* One segment after the other is read.                                    *)
LEMMA LoadUnfolds ==
  ASSUME NEW s, s.ok, ~(s.elf.hdr.phnum # 0 /\ s.elf.hdr.phentsize < PhdrSize), s.elf.hdr.phnum \in Nat
  PROVE  \E f : /\ f[0] = s
                /\ \A n \in 1 .. s.elf.hdr.phnum : f[n] = ReadSegment(s.elf.hdr, f[n - 1], n - 1)
                /\ LoadSegments(s, << >>) = f[s.elf.hdr.phnum]
<1>. DEFINE seq == [i \in 1 .. s.elf.hdr.phnum |-> i - 1]
            base == s
            Runs(f, m) == f = [i \in 0 .. m |-> IF i = 0 THEN base
                                ELSE ReadSegment(s.elf.hdr, f[i - 1], seq[i])]
            T == {m \in Nat : \E f : Runs(f, m)}
            F == CHOOSE f : Runs(f, Len(seq))
<1>1. 0 \in T
  <2>1. Runs([i \in 0 .. 0 |-> base], 0)
    OBVIOUS
  <2>. QED
    BY <2>1
<1>2. ASSUME NEW m \in Nat, m \in T PROVE m + 1 \in T
  <2>1. PICK f : Runs(f, m)
    BY <1>2
  <2>. DEFINE g == [i \in 0 .. (m + 1) |->
                      IF i = m + 1 THEN ReadSegment(s.elf.hdr, f[m], seq[m + 1]) ELSE f[i]]
  <2>2. Runs(g, m + 1)
    <3>. SUFFICES ASSUME NEW i \in 0 .. (m + 1)
                  PROVE  g[i] = IF i = 0 THEN base
                                ELSE ReadSegment(s.elf.hdr, g[i - 1], seq[i])
      BY Zenon
    <3>. HIDE DEF seq, base
    <3>. QED
      BY <2>1
  <2>. HIDE DEF Runs, g
  <2>. QED
    BY <2>2
<1>3. Nat \subseteq T
  <2>. HIDE DEF T
  <2>. QED
    BY <1>1, <1>2, SetInduction
<1>4. LoadSegments(s, << >>) = F[Len(seq)]
  BY DEF LoadSegments, Loop, ReadSegment
<1>5. Len(seq) = s.elf.hdr.phnum /\ \A n \in 1 .. s.elf.hdr.phnum : seq[n] = n - 1
  OBVIOUS
<1>6. Runs(F, s.elf.hdr.phnum)
  <2>1. \E f : Runs(f, s.elf.hdr.phnum)
    BY <1>3
  <2>. HIDE DEF Runs, seq, base
  <2>. QED
    BY <1>5, <2>1
<1>7. /\ F[0] = base
      /\ \A n \in 1 .. s.elf.hdr.phnum : F[n] = ReadSegment(s.elf.hdr, F[n - 1], n - 1)
  <2>. HIDE DEF F, seq, base
  <2>. QED
    BY <1>5, <1>6
<1>. QED
  BY <1>4, <1>5, <1>7


LEMMA LoadSegmentsType ==
  ASSUME NEW s, ReadSoFar(s)
  PROVE  ReadSoFar(LoadSegments(s, << >>))
<1>. DEFINE h == s.elf.hdr
            n == h.phnum
            r == LoadSegments(s, << >>)
<1>1. /\ n \in Nat /\ h.phoff \in Nat /\ h.phentsize \in Nat
      /\ DOMAIN s = {"elf", "st", "ok"} /\ s.ok \in BOOLEAN
  BY DEF ReadSoFar, IsObject, Numbers, HdrNumbers
<1>2. CASE ~s.ok
  BY <1>2 DEF LoadSegments
<1>3. CASE s.ok /\ n # 0 /\ h.phentsize < PhdrSize
  <2>. DEFINE a == [s EXCEPT !.ok = FALSE]
  <2>1. r = a
    BY <1>3 DEF LoadSegments
  <2>2. DOMAIN a = DOMAIN s /\ a.elf = s.elf /\ a.st = s.st /\ a.ok = FALSE
    BY <1>1
  <2>. HIDE DEF a
  <2>3. ReadSoFar(a)
    BY <2>2 DEF ReadSoFar
  <2>. QED
    BY <2>1, <2>3
<1>4. CASE s.ok /\ ~(n # 0 /\ h.phentsize < PhdrSize)
  <2>1. PICK f : /\ f[0] = s
                 /\ \A k \in 1 .. n : f[k] = ReadSegment(h, f[k - 1], k - 1)
                 /\ r = f[n]
    BY <1>1, <1>4, LoadUnfolds
  <2>. HIDE DEF n, h, r
  <2>. DEFINE T == {k \in Nat : k <= n => ReadSoFar(f[k])}
  <2>2. 0 \in T
    BY <2>1
  <2>3. ASSUME NEW k \in Nat, k \in T PROVE k + 1 \in T
    <3>. SUFFICES ASSUME k + 1 <= n PROVE ReadSoFar(f[k + 1])
      OBVIOUS
    <3>. DEFINE acc == f[k]
                at == h.phoff + k * h.phentsize
                enc == h.data
                l == LoadSegment(acc.st, at, << >>, enc)
    <3>1. k + 1 \in 1 .. n /\ (k + 1) - 1 = k /\ k <= n
      BY <1>1
    <3>2. ReadSoFar(acc)
      BY <2>3, <3>1
    <3>3. f[k + 1] = acc \/ f[k + 1] = AddSegment(acc, l)
      BY <2>1, <3>1 DEF ReadSegment
    <3>4. at \in Nat
      <4>. DEFINE o == h.phoff
                  z == h.phentsize
      <4>1. o \in Nat /\ z \in Nat /\ at = o + k * z
        BY <1>1
      <4>. HIDE DEF o, z, at
      <4>2. k * z \in Nat
        BY <4>1
      <4>. QED
        BY <4>1, <4>2
    <3>. HIDE DEF acc, at, enc, l
    <3>5. LoadedSegment(l.seg) /\ IsIn(l.st) /\ l.ok \in BOOLEAN
      <4>1. IsIn(acc.st)
        BY <3>2 DEF ReadSoFar
      <4>. QED
        BY <3>4, <4>1, LoadSegmentType DEF l
    <3>6. ReadSoFar(AddSegment(acc, l))
      BY <3>2, <3>5, AddSegmentType
    <3>. QED
      BY <3>2, <3>3, <3>6
  <2>4. ReadSoFar(f[n])
    <3>. HIDE DEF T
    <3>1. Nat \subseteq T
      BY <2>2, <2>3, SetInduction
    <3>. QED
      BY <1>1, <3>1 DEF T, n
  <2>. QED
    BY <2>1, <2>4 DEF r
<1>. QED
  BY <1>1, <1>2, <1>3, <1>4

(* A load that succeeds makes an object.                                   *)
LEMMA LoadIsObject ==
  ASSUME NEW bytes \in Seq(Nat), NEW r, r = Load(NewElfio, bytes, << >>), r.ok
  PROVE  IsObject(r.elf)
<1>. DEFINE e     == NewElfio
            d     == [e EXCEPT !.secs = << >>, !.segs = << >>]
            st    == InStream(bytes)
            ident == ReadAt(st, 0, 3)
            cells == ReadAt(st, 0, EhdrSize)
            h     == Unpack(EhdrCells, cells, ident[3])
            f     == [d EXCEPT !.hdr = h]
            s     == LoadSections(f, st, << >>)
<1>1. IsObject(e)
  <2>1. CLASS32 \in Nat /\ LSB \in Nat
    BY DEF CLASS32, LSB
  <2>. QED
    BY <2>1, CreateIsObject DEF NewElfio
<1>2. IsIn(st)
  BY DEF IsIn, InStream
<1>3. r = LoadParts(d, st, ident, cells, << >>)
  BY NoTranslation DEF Load
<1>. HIDE DEF e, st
<1>4. /\ DOMAIN d = DOMAIN e /\ d.secs = << >> /\ d.segs = << >> /\ d.hdr = e.hdr
      /\ {"hdr", "secs", "segs"} \subseteq DOMAIN d
  BY <1>1 DEF IsObject
<1>. HIDE DEF d, ident, cells
<1>5. Len(cells) \in Nat /\ cells \in Seq(Nat) /\ EhdrSize = 16
  <2>1. EhdrSize = 16 /\ 16 \in Nat /\ 0 \in Nat
    BY CellsOf
  <2>2. cells \in Seq(Nat)
    BY <1>2, <2>1, ReadType DEF cells
  <2>. QED
    BY <2>1, <2>2
<1>6. ~(Len(cells) < EhdrSize) /\ r = LoadSegments(s, << >>)
  <2>. DEFINE no1 == [elf |-> d, st |-> st, ok |-> FALSE]
              no2 == [elf |-> [d EXCEPT !.hdr = CreateHeader(ident[2], ident[3])], st |-> st,
                      ok |-> FALSE]
  <2>1. no1.ok = FALSE /\ no2.ok = FALSE
    OBVIOUS
  <2>2. \/ r = no1 \/ r = no2
        \/ ~(Len(cells) < EhdrSize) /\ r = LoadSegments(s, << >>)
    BY <1>3 DEF LoadParts
  <2>. HIDE DEF no1, no2, s
  <2>. QED
    BY <2>1, <2>2
<1>7. Numbers(h, HdrNumbers)
  <2>1. \A x \in DOMAIN EhdrCells : EhdrCells[x] \in 1 .. Len(cells)
    <3>. DEFINE n == Len(cells)
    <3>1. n \in Nat /\ 16 <= n
      BY <1>5, <1>6
    <3>. HIDE DEF n
    <3>2. \A y \in 1 .. 16 : y \in 1 .. n
      BY <3>1
    <3>3. DOMAIN EhdrCells = HdrNumbers /\ \A x \in HdrNumbers : EhdrCells[x] \in 1 .. 16
      BY CellsOf
    <3>4. \A x \in DOMAIN EhdrCells : EhdrCells[x] \in 1 .. n
      BY ONLY <3>2, <3>3
    <3>. QED
      BY <3>4 DEF n
  <2>. DEFINE enc == ident[3]
  <2>2. h = Unpack(EhdrCells, cells, enc)
    OBVIOUS
  <2>. HIDE DEF enc, h
  <2>3. DOMAIN h = DOMAIN EhdrCells /\ \A x \in DOMAIN EhdrCells : h[x] \in Nat
    BY <1>5, <2>1, <2>2, UnpackType
  <2>. QED
    BY <2>3, CellsOf DEF Numbers
<1>. HIDE DEF h
<1>8. /\ {"hdr", "secs", "segs"} \subseteq DOMAIN f /\ f.hdr = h
      /\ f.secs = << >> /\ f.segs = << >>
  BY <1>4
<1>. HIDE DEF f
<1>9. IsObject(f)
  <2>1. IsSeq(<< >>) /\ Len(<< >>) = 0
    BY EmptySeq DEF IsSeq
  <2>. QED
    BY <1>7, <1>8, <2>1 DEF IsObject
<1>10. ReadSoFar(s)
  BY <1>2, <1>8, <1>9, LoadSectionsType
<1>. HIDE DEF s
<1>11. ReadSoFar(r)
  BY <1>6, <1>10, LoadSegmentsType
<1>. QED
  BY <1>11 DEF ReadSoFar

-------------------------------------------------------------------------------
(***************************************************************************)
(* The program.                                                            *)
(***************************************************************************)
(* A program that goes on holds an object; its file holds numbers, and     *)
(* what a reader finds in it is known.                                     *)
FInv ==
  /\ Running => IsObject(elf)
  /\ file \in Seq(Nat)
  /\ seen = Stored(file)

(* The calls that change the object.                                       *)
Edits ==
  \/ \E k \in Kinds, n \in Sizes, g \in {0} \cup Holders : NewSec(k, n, g)
  \/ \E i \in UserSections :
       \/ \E n \in Sizes : Extend(i, n)
       \/ \E n \in {0} \cup Sizes : Write(i, n) \/ Resize(i, n)
       \/ \E a \in Addresses : Place(i, a)
       \/ \E g \in Holders : Attach(g, i)
  \/ \E k \in Ranges : NewSeg(k)

LEMMA EditsKeep ==
  ASSUME FInv, Running, Edits
  PROVE  IsObject(elf')
<1>1. IsObject(elf)
  BY DEF FInv
<1>2. CASE \E k \in Kinds, n \in Sizes, g \in {0} \cup Holders : NewSec(k, n, g)
  BY <1>1, <1>2, NewSecKeeps
<1>3. ASSUME NEW i \in UserSections, NEW n \in {0} \cup Sizes,
             Write(i, n) \/ Extend(i, n) \/ Resize(i, n)
      PROVE  IsObject(elf')
  BY <1>1, <1>3, CellEditsKeep
<1>4. ASSUME NEW i \in UserSections, NEW a \in Addresses, Place(i, a) PROVE IsObject(elf')
  BY <1>1, <1>4, PlaceKeeps
<1>5. ASSUME NEW i \in UserSections, NEW g \in Holders, Attach(g, i) PROVE IsObject(elf')
  BY <1>1, <1>5, SegmentsGrow
<1>6. ASSUME NEW k \in Ranges, NewSeg(k) PROVE IsObject(elf')
  BY <1>1, <1>6, SegmentsGrow
<1>. QED
  BY <1>2, <1>3, <1>4, <1>5, <1>6 DEF Edits

LEMMA NewSecEdits ==
  ASSUME NEW k, NEW n, NEW g, NewSec(k, n, g)
  PROVE  \E e : Edited(e)
<1>. DEFINE e == AddSection(elf, k.label)
            i == Len(e.secs)
            described == [e.secs[i] EXCEPT !.type = k.type, !.flags = k.flags,
                                           !.align = k.align]
            filled == Replace(e, i - 1,
                        IF k.type = SHT_NOBITS THEN [described EXCEPT !.size = n]
                        ELSE SetData(described, Cells(i, n)))
            made == IF g = 0 THEN filled ELSE Join(filled, g, i)
<1>1. Edited(made)
  BY Zenon DEF NewSec
<1>. HIDE DEF made
<1>. QED
  BY <1>1

LEMMA EditsEdit == Edits => Running /\ reply' = "none" /\ UNCHANGED <<file, seen>>
<1>. SUFFICES ASSUME Edits PROVE \E e : Edited(e)
  BY DEF Edited
<1>1. ASSUME NEW k, NEW n, NEW g, NewSec(k, n, g) PROVE \E e : Edited(e)
  BY <1>1, NewSecEdits
<1>2. ASSUME NEW i, NEW n, Extend(i, n) PROVE \E e : Edited(e)
  BY <1>2, Zenon DEF Extend
<1>3. ASSUME NEW i, NEW n, Write(i, n) PROVE \E e : Edited(e)
  BY <1>3, Zenon DEF Write
<1>4. ASSUME NEW i, NEW n, Resize(i, n) PROVE \E e : Edited(e)
  BY <1>4, Zenon DEF Resize
<1>5. ASSUME NEW i, NEW a, Place(i, a) PROVE \E e : Edited(e)
  BY <1>5, Zenon DEF Place
<1>6. ASSUME NEW i, NEW g, Attach(g, i) PROVE \E e : Edited(e)
  BY <1>6, Zenon DEF Attach
<1>7. ASSUME NEW k, NewSeg(k) PROVE \E e : Edited(e)
  BY <1>7, Zenon DEF NewSeg
<1>. QED
  BY <1>1, <1>2, <1>3, <1>4, <1>5, <1>6, <1>7 DEF Edits

(* What save leaves of the object.                                         *)
LEMMA SaveKeeps ==
  ASSUME IsObject(elf), SaveFile
  PROVE  /\ Kept(elf', elf) /\ file' \in Seq(Nat) /\ seen' = Stored(file')
         /\ reply' = "saved" =>
              /\ \A g \in 1 .. Len(elf.segs) : elf'.segs[g].memsz >= elf.segs[g].memsz
              /\ \A g \in 1 .. Len(elf.segs) : \A i \in Own(elf, g) :
                   i # 0 => Linked(Sec(elf', i), elf.segs[g].vaddr, elf'.segs[g].offset)
<1>. DEFINE l == Layout(elf)
            w == SaveWrites(l.elf)
            n == IF l.ok THEN Len(w) ELSE 0
            out == Written(w, n, Room)
<1>1. /\ elf' = l.elf /\ file' = out.bytes /\ seen' = Stored(out.bytes)
      /\ reply' = IF ~SaveOk(l, Room) THEN "refused"
                  ELSE IF out.fail THEN "cut" ELSE "saved"
  BY DEF SaveFile
<1>2. /\ Kept(l.elf, elf)
      /\ l.ok => /\ \A g \in 1 .. Len(elf.segs) : l.elf.segs[g].memsz >= elf.segs[g].memsz
                 /\ \A g \in 1 .. Len(elf.segs) : \A i \in Own(elf, g) :
                      i # 0 => Linked(Sec(l.elf, i), elf.segs[g].vaddr, l.elf.segs[g].offset)
  BY LayoutKeeps
<1>. HIDE DEF l
<1>3. w \in Seq(WriteSet)
  BY <1>2, SaveWritesType DEF Kept
<1>. HIDE DEF w
<1>4. n \in 0 .. Len(w)
  BY <1>3
<1>. HIDE DEF n
<1>5. out.bytes \in Seq(Nat)
  BY <1>3, <1>4, WrittenType
<1>. HIDE DEF out
<1>6. reply' = "saved" => l.ok
  BY <1>1 DEF SaveOk
<1>. QED
  BY <1>1, <1>2, <1>5, <1>6

LEMMA FInvInit == FInit => FInv
<1>. SUFFICES ASSUME FInit PROVE FInv
  OBVIOUS
<1>1. PICK encoding \in Encodings : elf = NewFile(encoding)
  BY DEF FInit
<1>2. encoding \in Nat /\ CLASS32 \in Nat
  BY ElfFileAssumption DEF LSB, MSB, CLASS32
<1>3. IsObject(elf)
  BY <1>1, <1>2, CreateIsObject DEF NewFile
<1>. QED
  BY <1>3, ElfFileAssumption DEF FInit, FInv

LEMMA FInvNext == FInv /\ [FNext]_fvars => FInv'
<1>. SUFFICES ASSUME FInv, [FNext]_fvars PROVE FInv'
  OBVIOUS
<1>1. CASE Edits
  <2>1. IsObject(elf')
    BY <1>1, EditsKeep, EditsEdit
  <2>. QED
    BY <1>1, <2>1, EditsEdit DEF FInv
<1>2. CASE SaveFile
  <2>1. IsObject(elf)
    BY <1>2 DEF FInv, SaveFile
  <2>2. IsObject(elf') /\ file' \in Seq(Nat) /\ seen' = Stored(file')
    BY <1>2, <2>1, SaveKeeps DEF Kept
  <2>. QED
    BY <2>2 DEF FInv
<1>3. CASE Crash
  <2>. DEFINE l == Layout(elf)
              w == SaveWrites(l.elf)
  <2>1. IsObject(elf) /\ l.ok
    BY <1>3 DEF FInv, Crash
  <2>2. PICK n \in 0 .. (Len(w) - 1) :
          file' = Written(w, n, Room).bytes /\ seen' = Stored(Written(w, n, Room).bytes)
    BY <1>3 DEF Crash
  <2>3. reply' = "crashed"
    BY <1>3 DEF Crash
  <2>4. w \in Seq(WriteSet)
    <3>1. Kept(l.elf, elf)
      BY <2>1, LayoutKeeps
    <3>. HIDE DEF l
    <3>. QED
      BY <3>1, SaveWritesType DEF Kept
  <2>. HIDE DEF w
  <2>5. n \in 0 .. Len(w)
    BY <2>4
  <2>6. Written(w, n, Room).bytes \in Seq(Nat)
    BY <2>4, <2>5, WrittenType
  <2>. QED
    BY <2>2, <2>3, <2>6 DEF FInv, Running
<1>4. CASE OpenFile
  <2>. DEFINE r == Load(NewElfio, file, << >>)
  <2>1. r.ok => IsObject(r.elf)
    <3>1. file \in Seq(Nat)
      BY DEF FInv
    <3>. QED
      BY <3>1, LoadIsObject
  <2>2. /\ elf' = IF r.ok THEN r.elf ELSE NewElfio
        /\ reply' = IF r.ok THEN "opened" ELSE "unreadable"
        /\ file' = file /\ seen' = seen
    BY <1>4 DEF OpenFile
  <2>. HIDE DEF r
  <2>3. Running' => IsObject(elf')
    BY <2>1, <2>2 DEF Running
  <2>. QED
    BY <2>2, <2>3 DEF FInv
<1>5. CASE OpenMapped
  BY <1>5 DEF OpenMapped, FInv, Running
<1>6. CASE UNCHANGED fvars
  BY <1>6 DEF fvars, FInv, Running
<1>. QED
  BY <1>1, <1>2, <1>3, <1>4, <1>5, <1>6 DEF FNext, Edits

LEMMA FInvHolds == FSpec => []FInv
<1>. QED
  BY FInvInit, FInvNext, PTL DEF FSpec

(* Only a save that worked answers "saved".                                *)
LEMMA SavedBySave ==
  ASSUME FInv, [FNext]_fvars, reply' = "saved"
  PROVE  SaveFile \/ UNCHANGED fvars
<1>1. ~Edits
  BY EditsEdit
<1>2. ~Crash
  BY DEF Crash
<1>3. ~OpenFile
  BY DEF OpenFile
<1>4. ~OpenMapped
  BY DEF OpenMapped
<1>. QED
  BY <1>1, <1>2, <1>3, <1>4 DEF FNext, Edits

(* The memory size of a segment never shrinks when its file is saved.      *)
THEOREM MemoryIsKept == FSpec => MemoryNeverShrinks
<1>1. ASSUME FInv, [FNext]_fvars
      PROVE  [\A g \in 1 .. Len(elf.segs) :
                (g <= Len(elf'.segs) /\ reply' = "saved")
                  => elf'.segs[g].memsz >= elf.segs[g].memsz]_fvars
  <2>. SUFFICES ASSUME fvars' # fvars, reply' = "saved"
                PROVE  \A g \in 1 .. Len(elf.segs) : elf'.segs[g].memsz >= elf.segs[g].memsz
    OBVIOUS
  <2>1. SaveFile
    BY <1>1, SavedBySave
  <2>2. IsObject(elf)
    BY <1>1, <2>1 DEF FInv, SaveFile
  <2>. QED
    BY <2>1, <2>2, SaveKeeps
<1>. QED
  BY <1>1, FInvHolds, PTL DEF FSpec, MemoryNeverShrinks

(* Each section a segment does not share lies in the file as far behind    *)
(* the start of the segment as it lies in memory.                          *)
THEOREM SectionsLieWhereLinked == FSpec => []WhereLinked
<1>1. FInit => WhereLinked
  BY DEF FInit, WhereLinked
<1>2. ASSUME FInv, WhereLinked, [FNext]_fvars PROVE WhereLinked'
  <2>. SUFFICES ASSUME reply' = "saved" PROVE WhereLinked'
    BY DEF WhereLinked
  <2>1. CASE UNCHANGED fvars
    BY <1>2, <2>1 DEF WhereLinked, fvars, HasBits
  <2>2. CASE SaveFile
    <3>1. IsObject(elf)
      BY <1>2, <2>2 DEF FInv, SaveFile
    <3>2. /\ Kept(elf', elf)
          /\ \A g \in 1 .. Len(elf.segs) : \A i \in Own(elf, g) :
               i # 0 => Linked(Sec(elf', i), elf.segs[g].vaddr, elf'.segs[g].offset)
      BY <2>2, <3>1, SaveKeeps
    <3>3. /\ Len(elf'.segs) = Len(elf.segs)
          /\ \A g \in 1 .. Len(elf.segs) :
               elf'.segs[g].secs = elf.segs[g].secs /\ elf'.segs[g].vaddr = elf.segs[g].vaddr
      BY <3>2 DEF Kept
    <3>4. \A g \in 1 .. Len(elf.segs) : Own(elf', g) = Own(elf, g)
      BY <3>3 DEF Own
    <3>5. ASSUME NEW g \in 1 .. Len(elf'.segs), NEW i \in Own(elf', g) \ {0},
                 (HasBits(i + 1))', Sec(elf', i).size > 0
          PROVE  X(Sec(elf', i).offset - elf'.segs[g].offset)
                   = X(Sec(elf', i).addr - elf'.segs[g].vaddr)
      <4>1. Linked(Sec(elf', i), elf'.segs[g].vaddr, elf'.segs[g].offset)
        BY <3>2, <3>3, <3>4, <3>5
      <4>2. Sec(elf', i).type \notin {SHT_NULL, SHT_NOBITS}
        BY <3>5 DEF HasBits, Sec
      <4>. QED
        BY <3>5, <4>1, <4>2 DEF Linked
    <3>. QED
      BY <3>5 DEF WhereLinked
  <2>. QED
    BY <1>2, <2>1, <2>2, SavedBySave
<1>. QED
  BY <1>1, <1>2, FInvHolds, PTL DEF FSpec

(* Whatever becomes of it, a save changes no section and no segment that   *)
(* the program made: only where they lie.                                  *)
SavingKeepsContent == [][SaveFile => Content(elf)' = Content(elf)]_fvars

LEMMA KeptContent ==
  ASSUME NEW e, IsObject(e), NEW f, Kept(f, e)
  PROVE  Content(f) = Content(e)
<1>. DEFINE n == Len(e.secs)
            m == Len(e.segs)
<1>1. n \in Nat /\ m \in Nat /\ Len(f.secs) = n /\ Len(f.segs) = m
  BY SeqIs DEF IsObject, Kept
<1>2. ASSUME NEW i \in 1 .. n PROVE BlobOf(f.secs[i]) = BlobOf(e.secs[i])
  <2>. DEFINE s == e.secs[i]
              t == f.secs[i]
  <2>1. IsSection(s, i - 1) /\ SameSection(t, s)
    BY DEF IsObject, Kept
  <2>. HIDE DEF s, t
  <2>2. {"label", "type", "flags", "align", "size", "data"} \subseteq DOMAIN s
    BY <2>1, SectionHas
  <2>3. /\ t.label = s.label /\ t.type = s.type /\ t.flags = s.flags
        /\ t.align = s.align /\ t.size = s.size /\ t.data = s.data
    BY <2>1, <2>2 DEF SameSection
  <2>. QED
    BY <2>3 DEF BlobOf, s, t
<1>3. \A i \in 1 .. (n - 2) : BlobOf(f.secs[i + 2]) = BlobOf(e.secs[i + 2])
  <2>1. \A i \in 1 .. (n - 2) : i + 2 \in 1 .. n
    BY <1>1
  <2>. QED
    BY <1>2, <2>1
<1>4. \A g \in 1 .. m : f.segs[g].type = e.segs[g].type /\ f.segs[g].vaddr = e.segs[g].vaddr
  BY DEF Kept
<1>5. Content(e) = [blobs |-> [i \in 1 .. (n - 2) |-> BlobOf(e.secs[i + 2])],
                    groups |-> [g \in 1 .. m |-> [type |-> e.segs[g].type,
                                                  vaddr |-> e.segs[g].vaddr]]]
  BY DEF Content
<1>6. Content(f) = [blobs |-> [i \in 1 .. (n - 2) |-> BlobOf(f.secs[i + 2])],
                    groups |-> [g \in 1 .. m |-> [type |-> f.segs[g].type,
                                                  vaddr |-> f.segs[g].vaddr]]]
  BY <1>1 DEF Content
<1>. HIDE DEF n, m
<1>7. [i \in 1 .. (n - 2) |-> BlobOf(e.secs[i + 2])] = [i \in 1 .. (n - 2) |-> BlobOf(f.secs[i + 2])]
  BY <1>3
<1>8. [g \in 1 .. m |-> [type |-> e.segs[g].type, vaddr |-> e.segs[g].vaddr]]
        = [g \in 1 .. m |-> [type |-> f.segs[g].type, vaddr |-> f.segs[g].vaddr]]
  BY <1>4
<1>. QED
  BY <1>5, <1>6, <1>7, <1>8

(* What a program made stays as it is when it is saved (elfio.hpp:181-222  *)
(* and the layout below it change places, addresses and alignments only).  *)
THEOREM SavesKeepContent == FSpec => SavingKeepsContent
<1>1. ASSUME FInv, [FNext]_fvars
      PROVE  [SaveFile => Content(elf)' = Content(elf)]_fvars
  <2>. SUFFICES ASSUME SaveFile PROVE Content(elf') = Content(elf)
    OBVIOUS
  <2>1. IsObject(elf)
    BY <1>1 DEF FInv, SaveFile
  <2>2. Kept(elf', elf)
    BY <2>1, SaveKeeps
  <2>. QED
    BY <2>1, <2>2, KeptContent
<1>. QED
  BY <1>1, FInvHolds, PTL DEF FSpec, SavingKeepsContent
==============================================================================
