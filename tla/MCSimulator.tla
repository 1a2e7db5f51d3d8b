----------------------------- MODULE MCSimulator -----------------------------
(* The open-clock processor on 4-bit words, three registers, and every     *)
(* image of four words over an alphabet of instructions.                   *)
EXTENDS Simulator, Asm

A == INSTANCE ALU WITH Width <- 4

ALUTable == [op \in ALUOps, a \in Word, b \in Word |-> A!ALU(op, a, b)]

MCALUResult(op, a, b) == ALUTable[op, a, b]

(* Not an exit to the program, but an opcode the decoder has no case for.  *)
Csrr(rd) == Fields("DEFAULT", 2, FALSE, rd, 0, 2, 0)

MCInstructions ==
  {Addi(1, 1, 1), Add(2, 1, 2), Lw(1, 0, 1), Sw(1, 4, 2),
   Bne(1, 2, 8), Jalr(1, 4, 1), Ecall, Csrr(2), ZeroInstr}

MCPrograms == ImagesOf(MCInstructions)
==============================================================================
