----------------------------- MODULE MCTestbench -----------------------------
(* The processor in its harness, with its trace, on 4-bit words and three  *)
(* registers, over the conforming images of four words made from two       *)
(* alphabets: one for what data dependences do, one for what jumps and     *)
(* branches do.                                                            *)
EXTENDS Trace, Contract, Asm

A == INSTANCE ALU WITH Width <- 4

ALUTable == [op \in ALUOps, a \in Word, b \in Word |-> A!ALU(op, a, b)]

MCALUResult(op, a, b) == ALUTable[op, a, b]

DataInstructions ==
  {Addi(1, 1, 3), Add(2, 1, 2), Sub(1, 2, 1), Lui(2, 9), Lw(1, 0, 1),
   Lb(2, 4, 0), Sw(1, 4, 2), Sh(2, 0, 0), Ecall}

DataPrograms == {p \in ImagesOf(DataInstructions) : Conforming(p)}

JumpInstructions ==
  {Addi(1, 1, 4), Addi(2, 2, 4), Lw(1, 0, 0), Sw(2, 0, 0), Beq(1, 2, 12),
   Bltu(1, 2, 8), Jal(2, 8), Jalr(1, 0, 2), Jalr(0, 4, 1), Ecall}

JumpPrograms == {p \in ImagesOf(JumpInstructions) : Conforming(p)}

AllPrograms == DataPrograms \cup JumpPrograms
==============================================================================
