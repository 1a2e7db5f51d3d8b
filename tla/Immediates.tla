------------------------------ MODULE Immediates ------------------------------
(***************************************************************************)
(* CalcImmediate.v: how the bits of an immediate are gathered from the 32  *)
(* bits of an instruction.  A word is the set of the positions of its ones *)
(* and a concatenation is the sequence of the positions it is wired to,    *)
(* the highest bit first.                                                  *)
(***************************************************************************)
EXTENDS Integers, Sequences

Bit31to0 == 0 .. 31

Ground == 32                \* a constant zero

Slice(high, low) == [k \in 1 .. (high - low + 1) |-> high + 1 - k]

Copies(n, bit) == [k \in 1 .. n |-> bit]

i_imm_32 == Copies(20, 31) \o Slice(31, 20)
s_imm_32 == Copies(20, 31) \o Slice(31, 25) \o Slice(11, 7)
b_imm_32 == Copies(20, 31) \o <<7>> \o Slice(30, 25) \o Slice(11, 8) \o <<Ground>>
u_imm_32 == Slice(31, 12) \o Copies(12, Ground)

\* Mutant: bit 11 of a jump's offset is taken where the others end.
j_imm_in_order == Copies(12, 31) \o Slice(19, 12) \o Slice(30, 20) \o <<Ground>>

j_imm_32 == Copies(12, 31) \o Slice(19, 12) \o <<20>> \o Slice(30, 21) \o <<Ground>>
shamt_32 == Copies(27, Ground) \o Slice(24, 20)

imm32(opcode, funct3) ==
  CASE opcode = "I_TYPE" /\ funct3 \in {1, 5}          -> shamt_32
    [] opcode = "I_TYPE" /\ funct3 \notin {1, 5}       -> i_imm_32
    [] opcode \in {"LOAD", "JALR"}                     -> i_imm_32
    [] opcode = "STORE"                                -> s_imm_32
    [] opcode = "BRANCH"                               -> b_imm_32
    [] opcode = "JAL"                                  -> j_imm_32
    [] opcode \in {"AUIPC", "LUI"}                     -> u_imm_32
    [] OTHER                                           -> Copies(32, Ground)

CalcImmediate(instr, opcode, funct3) ==
  LET wires == imm32(opcode, funct3)
  IN  {bit \in Bit31to0 : wires[32 - bit] \in instr}
==============================================================================
