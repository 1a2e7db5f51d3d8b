---------------------------------- MODULE Asm ----------------------------------
(***************************************************************************)
(* Instructions by their mnemonics, and the images instruction memory may  *)
(* hold, for the modules that choose programs to check.                    *)
(***************************************************************************)
EXTENDS Machine

Fields(opcode, funct3, funct7, rd, rs1, rs2, imm) ==
  [opcode |-> opcode, funct3 |-> funct3, funct7 |-> funct7,
   rd |-> rd, rs1 |-> rs1, rs2 |-> rs2, imm |-> Wrap(imm)]

Addi(rd, rs1, imm)  == Fields("I_TYPE", 0, FALSE, rd, rs1, 0, imm)
Add(rd, rs1, rs2)   == Fields("R_TYPE", 0, FALSE, rd, rs1, rs2, 0)
Sub(rd, rs1, rs2)   == Fields("R_TYPE", 0, TRUE, rd, rs1, rs2, 0)
Lw(rd, imm, rs1)    == Fields("LOAD", 2, FALSE, rd, rs1, 0, imm)
Lb(rd, imm, rs1)    == Fields("LOAD", 0, FALSE, rd, rs1, 0, imm)
Lhu(rd, imm, rs1)   == Fields("LOAD", 5, FALSE, rd, rs1, 0, imm)
Sw(rs2, imm, rs1)   == Fields("STORE", 2, FALSE, 0, rs1, rs2, imm)
Sb(rs2, imm, rs1)   == Fields("STORE", 0, FALSE, 0, rs1, rs2, imm)
Sh(rs2, imm, rs1)   == Fields("STORE", 1, FALSE, 0, rs1, rs2, imm)
Beq(rs1, rs2, imm)  == Fields("BRANCH", 0, FALSE, 0, rs1, rs2, imm)
Bne(rs1, rs2, imm)  == Fields("BRANCH", 1, FALSE, 0, rs1, rs2, imm)
Bltu(rs1, rs2, imm) == Fields("BRANCH", 6, FALSE, 0, rs1, rs2, imm)
Jal(rd, imm)        == Fields("JAL", 0, FALSE, rd, 0, 0, imm)
Jalr(rd, imm, rs1)  == Fields("JALR", 0, FALSE, rd, rs1, 0, imm)
Auipc(rd, imm)      == Fields("AUIPC", 0, FALSE, rd, 0, 0, imm)
Lui(rd, imm)        == Fields("LUI", 0, FALSE, rd, 0, 0, imm)
Ecall               == Fields("DEFAULT", 0, FALSE, 0, 0, 0, 0)

(* Every image made of the given instructions.                             *)
ImagesOf(instructions) == [0 .. (ImemWords - 1) -> instructions]
==============================================================================
