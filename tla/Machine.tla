------------------------------- MODULE Machine -------------------------------
(***************************************************************************)
(* The data the processor works on: machine words, register numbers, the   *)
(* decoded fields of an instruction and the index each memory derives from *)
(* a byte address.  Sizes are parameters, so that a model checker takes    *)
(* small ones and a proof covers the 32-bit processor of the source.       *)
(***************************************************************************)
EXTENDS Integers

CONSTANTS
  WordMod,    \* 2^32 in the source: number of values of a register or an address
  HalfMod,    \* 2^16: number of values of the low half of a word
  ByteMod,    \* 2^8: number of values of the low byte of a word
  NumRegs,    \* 32 registers
  ImemWords,  \* 2^17 words of instruction memory
  DmemWords   \* 2^17 words of data memory

ASSUME SizesAssumption ==
  /\ WordMod \in Nat /\ WordMod > 4
  /\ HalfMod \in 2 .. WordMod
  /\ ByteMod \in 2 .. HalfMod
  /\ WordMod % HalfMod = 0 /\ WordMod % ByteMod = 0
  /\ NumRegs \in Nat \ {0}
  /\ ImemWords \in Nat \ {0}
  /\ DmemWords \in Nat \ {0}

Word == 0 .. (WordMod - 1)
Reg  == 0 .. (NumRegs - 1)

(* Adders keep the low bits of their result.                               *)
Wrap(x) == x % WordMod

(***************************************************************************)
(* Ops.v.  The opcodes the control unit distinguishes; "DEFAULT" is every  *)
(* opcode that falls through its case statement (SYSTEM, FENCE, anything   *)
(* undefined).                                                             *)
(***************************************************************************)
Opcodes == {"R_TYPE", "I_TYPE", "STORE", "LOAD", "BRANCH", "JALR", "JAL",
            "AUIPC", "LUI", "ZERO", "DEFAULT"}

ALUOps == {"ADD", "SUB", "AND", "OR", "XOR", "SHL", "SHR", "SHA",
           "SLT", "SLTU", "B"}

(***************************************************************************)
(* An instruction word as the fields cut out of it.  rd, rs1 and rs2 are   *)
(* the raw bit fields and exist in every format, even where the format     *)
(* gives those bits another meaning: the hazard unit compares them anyway. *)
(* funct7 is TRUE iff the field is not zero, all the decoder asks of it.   *)
(* imm is the immediate of the instruction's format.                       *)
(***************************************************************************)
Instr == [opcode : Opcodes, funct3 : 0 .. 7, funct7 : BOOLEAN,
          rd : Reg, rs1 : Reg, rs2 : Reg, imm : Word]

ZeroInstr == [opcode |-> "ZERO", funct3 |-> 0, funct7 |-> FALSE,
              rd |-> 0, rs1 |-> 0, rs2 |-> 0, imm |-> 0]

(* The formats without an immediate give 0.                                *)
Imm32(i) == IF i.opcode \in {"R_TYPE", "ZERO", "DEFAULT"} THEN 0 ELSE i.imm

(***************************************************************************)
(* Both memories are arrays of words read at address >> 2, and an array    *)
(* whose depth is a power of two takes the low bits of its index.          *)
(***************************************************************************)
Imem == [0 .. (ImemWords - 1) -> Instr]
Dmem == [0 .. (DmemWords - 1) -> Word]

InstrIndex(a) == (a \div 4) % ImemWords
DataIndex(a)  == (a \div 4) % DmemWords
==============================================================================
