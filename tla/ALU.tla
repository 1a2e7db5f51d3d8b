---------------------------------- MODULE ALU ----------------------------------
(***************************************************************************)
(* ALU.v, for words of Width bits (32 in the source).                      *)
(***************************************************************************)
EXTENDS Integers

CONSTANT Width

Pow2[n \in Nat] == IF n = 0 THEN 1 ELSE 2 * Pow2[n - 1]

Modulus == Pow2[Width]

Top == Width - 1

Bit(a, k) == (a \div Pow2[k]) % 2

(* The word with ones at these positions and nowhere else.                 *)
Number(ones) ==
  LET below[n \in 0 .. Width] ==
        IF n = 0 THEN 0 ELSE below[n - 1] + (IF n - 1 \in ones THEN Pow2[n - 1] ELSE 0)
  IN  below[Width]

(* The word whose bit k is op of the bits k of a and b.                    *)
Bits(op(_, _), a, b) == Number({k \in 0 .. Top : op(Bit(a, k), Bit(b, k)) = 1})

\* Mutant: a negative number stands for itself.
NeverNegative(a) == a

Signed(a) == IF a >= Modulus \div 2 THEN a - Modulus ELSE a

(* SrcB[4:0]: a shift is by at most the width of a word less one.          *)
Shamt(b) == b % Width

ALU(ALUControl, SrcA, SrcB) ==
  CASE ALUControl = "ADD"  -> (SrcA + SrcB) % Modulus
    [] ALUControl = "SUB"  -> (SrcA - SrcB) % Modulus
    [] ALUControl = "AND"  -> Bits(LAMBDA x, y : x * y, SrcA, SrcB)
    [] ALUControl = "OR"   -> Bits(LAMBDA x, y : x + y - x * y, SrcA, SrcB)
    [] ALUControl = "XOR"  -> Bits(LAMBDA x, y : (x + y) % 2, SrcA, SrcB)
    [] ALUControl = "SHL"  -> (SrcA * Pow2[Shamt(SrcB)]) % Modulus
    [] ALUControl = "SHR"  -> SrcA \div Pow2[Shamt(SrcB)]
    [] ALUControl = "SHA"  -> (Signed(SrcA) \div Pow2[Shamt(SrcB)]) % Modulus
    [] ALUControl = "SLT"  -> IF Signed(SrcA) < Signed(SrcB) THEN 1 ELSE 0
    [] ALUControl = "SLTU" -> IF SrcA < SrcB THEN 1 ELSE 0
    [] ALUControl = "B"    -> SrcB
==============================================================================
