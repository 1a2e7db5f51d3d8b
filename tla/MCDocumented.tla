----------------------------- MODULE MCDocumented -----------------------------
(* Every image of four words over a few instructions, conforming or not.   *)
EXTENDS Documented, Asm

A == INSTANCE ALU WITH Width <- 4

ALUTable == [op \in ALUOps, a \in Word, b \in Word |-> A!ALU(op, a, b)]

MCALUResult(op, a, b) == ALUTable[op, a, b]

MCInstructions ==
  {Addi(1, 1, 4), Sub(2, 0, 1), Jal(1, 8), Jalr(0, 4, 1), Ecall}

MCPrograms == ImagesOf(MCInstructions)
==============================================================================
