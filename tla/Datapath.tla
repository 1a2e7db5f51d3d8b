------------------------------- MODULE Datapath -------------------------------
(***************************************************************************)
(* From the bits of an instruction to its result: CalcImmediate.v gathers  *)
(* the immediate an assembler scattered, ControlUnit.v chooses the         *)
(* operation and ALU.v applies it.  The instruction stands in a loop.      *)
(***************************************************************************)
EXTENDS ControlUnit, Immediates, ALU, FiniteSetsExt

CONSTANTS Offsets       \* what an assembler may be given for a far immediate,
                        \*   as the set of the positions of its ones

ASSUME DatapathAssumption == Width \in 1 .. 32 /\ Offsets \subseteq SUBSET Bit31to0

VARIABLES opcode, funct3,
          instr,        \* the bits of the instruction
          given,        \* the immediate the assembler was given, the same way
          operand,      \* the number it stands for, or the second register
          acc           \* the first register, and the result

dvars == <<opcode, funct3, instr, given, operand, acc>>

Words == 0 .. (Modulus - 1)

OnesOf(a) == {k \in 0 .. Top : Bit(a, k) = 1}

-----------------------------------------------------------------------------
(* The assembler, which follows the encodings of RISC-V: bit n of an       *)
(* immediate goes to bit Position[format][n] of the instruction.           *)
Position ==
  [I |-> [n \in 0 .. 11 |-> n + 20],
   S |-> [n \in 0 .. 11 |-> IF n < 5 THEN n + 7 ELSE n + 20],
   B |-> [n \in 1 .. 12 |-> CASE n = 12      -> 31
                              [] n = 11      -> 7
                              [] n \in 5 .. 10 -> n + 20
                              [] OTHER       -> n + 7],
   U |-> [n \in 12 .. 31 |-> n],
   J |-> [n \in 1 .. 20 |-> CASE n = 20        -> 31
                              [] n = 11        -> 20
                              [] n \in 12 .. 19 -> n
                              [] OTHER         -> n + 20]]

Format(op) ==
  CASE op \in {"I_TYPE", "LOAD", "JALR"} -> "I"
    [] op = "STORE"                      -> "S"
    [] op = "BRANCH"                     -> "B"
    [] op = "JAL"                        -> "J"
    [] op \in {"LUI", "AUIPC"}           -> "U"

(* The immediates a format can carry: the bits above its highest are       *)
(* copies of the highest, the bits below its lowest are 0.                 *)
Carries(op, value) ==
  LET bits == DOMAIN Position[Format(op)]
      high == Max(bits)
  IN  /\ value \cap 0 .. (Min(bits) - 1) = {}
      /\ value \cap high .. 31 \in {{}, high .. 31}

(* The number of places a shift is by has a field of five bits.            *)
CarriesShift(value) == value \subseteq 0 .. 4

Assembled(op, value) ==
  {Position[Format(op)][n] : n \in value \cap DOMAIN Position[Format(op)]}

(* A number as a 32-bit immediate.                                         *)
Extended(a) == OnesOf(a) \cup (IF Top \in OnesOf(a) THEN Width .. 31 ELSE {})

-----------------------------------------------------------------------------
(* An instruction with a far immediate.                                    *)
Far ==
  /\ opcode \in {"LOAD", "JALR", "STORE", "BRANCH", "JAL", "LUI", "AUIPC"}
  /\ funct3 = 0
  /\ \E value \in Offsets :
       Carries(opcode, value) /\ given = value /\ instr = Assembled(opcode, value)
  /\ operand = 0 /\ acc = 0

(* addi and its like; slli, srli and srai, where bit 30 tells the last two *)
(* apart; and the instructions on two registers.                           *)
Arithmetic ==
  /\ funct3 \in 0 .. 7 /\ operand \in Words /\ acc \in Words
  /\ \/ /\ opcode = "I_TYPE" /\ funct3 \notin {1, 5}
        /\ given = Extended(operand) /\ Carries(opcode, given)
        /\ instr = Assembled(opcode, given)
     \/ /\ opcode = "I_TYPE" /\ funct3 \in {1, 5} /\ operand < Width
        /\ given = OnesOf(operand) /\ CarriesShift(given)
        /\ \E alt \in IF funct3 = 5 THEN {{}, {30}} ELSE {{}} :
             instr = Assembled(opcode, given) \cup alt
     \/ /\ opcode = "R_TYPE" /\ given = {}
        /\ instr \in IF funct3 \in {0, 5} THEN {{}, {30}} ELSE {{}}

DInit == Far \/ Arithmetic

SrcB ==
  IF opcode = "R_TYPE" THEN operand
  ELSE Number(CalcImmediate(instr, opcode, funct3) \cap 0 .. Top)

Operation ==
  OwnALUOp([opcode |-> opcode, funct3 |-> funct3, funct7 |-> instr \cap 25 .. 31 # {}])

(* The instruction is executed on its own result.  Instructions with a far *)
(* immediate do not come to the register.                                  *)
DNext ==
  /\ acc' = IF opcode \in {"R_TYPE", "I_TYPE"} THEN ALU(Operation, acc, SrcB) ELSE acc
  /\ UNCHANGED <<opcode, funct3, instr, given, operand>>

DSpec == DInit /\ [][DNext]_dvars

-----------------------------------------------------------------------------
(* Whatever immediate the assembler was given is what the processor        *)
(* computes with, in every format, near or far, negative or not            *)
(* (CalcImmediate.v:21-39).                                                *)
ImmediateSurvives == CalcImmediate(instr, opcode, funct3) = given

(* What the instruction set says of each operation, on the bits of its     *)
(* operands and on the numbers they stand for.                             *)
Value(a) == Number(OnesOf(a) \ {Top}) - (IF Top \in OnesOf(a) THEN Pow2[Top] ELSE 0)

Promised(f3, alt, a, b) ==
  LET A == OnesOf(a)
      B == OnesOf(b)
      s == b % Width
      truth(p) == IF p THEN {0} ELSE {}
  IN  CASE f3 = 0 -> OnesOf((IF alt THEN Value(a) - Value(b) ELSE Value(a) + Value(b)) % Modulus)
        [] f3 = 1 -> {k + s : k \in A} \cap 0 .. Top
        [] f3 = 2 -> truth(Value(a) < Value(b))
        [] f3 = 3 -> truth(A # B /\ Max((A \ B) \cup (B \ A)) \in B)
        [] f3 = 4 -> (A \ B) \cup (B \ A)
        [] f3 = 5 -> {k \in 0 .. Top : IF k + s <= Top THEN k + s \in A ELSE alt /\ Top \in A}
        [] f3 = 6 -> A \cup B
        [] f3 = 7 -> A \cap B

Alt == 30 \in instr /\ (opcode = "R_TYPE" \/ funct3 = 5)

(* The result of every arithmetic instruction is the promised one: signed  *)
(* and unsigned comparisons part at the sign bit, an arithmetic shift      *)
(* keeps it, sums and differences wrap (ALU.v:10-34).                      *)
ComputesAsPromised ==
  [][(opcode \in {"R_TYPE", "I_TYPE"})
       => OnesOf(acc') = Promised(funct3, Alt, acc, operand)]_dvars
==============================================================================
