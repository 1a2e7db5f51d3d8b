----------------------------- MODULE ControlUnit -----------------------------
(***************************************************************************)
(* Decoder.v and ControlUnit.v.  The control unit is an always @( * )      *)
(* block that leaves some outputs unassigned in some cases, so those       *)
(* outputs are latches: they keep the value the previously decoded         *)
(* instruction gave them.  `held` is the outputs as they stand before the  *)
(* instruction in ID changes.                                              *)
(***************************************************************************)
EXTENDS Machine

CONSTANTS
  XALUSrc1,  \* what the build makes of ALUSrc1 = 1'bx for an all-zero opcode
  XALUSrc2   \* what the build makes of ALUSrc2 = 2'bxx

ALUSrc1s == {"rs1", "pc"}
ALUSrc2s == {"rs2", "imm", "four"}

ASSUME XAssumption == XALUSrc1 \in ALUSrc1s /\ XALUSrc2 \in ALUSrc2s

(* What PCCounter.v does next: pc + 4, pc_exec + imm, or imm + rs1.        *)
NextPCs == {"pc4", "pcImm", "rs1Imm"}

Control == [ALU_op : ALUOps, MemToReg : BOOLEAN, MemWrite : BOOLEAN,
            ALUSrc1 : ALUSrc1s, ALUSrc2 : ALUSrc2s, RegWrite : BOOLEAN,
            Branch : BOOLEAN, InvertBranchTriger : BOOLEAN, Jump : BOOLEAN,
            NextPC : NextPCs, bit_exit : BOOLEAN, valid : BOOLEAN]

(* All bits zero: what a pipeline register holds after a reset.            *)
ZeroControl ==
  [ALU_op |-> "ADD", MemToReg |-> FALSE, MemWrite |-> FALSE,
   ALUSrc1 |-> "rs1", ALUSrc2 |-> "rs2", RegWrite |-> FALSE,
   Branch |-> FALSE, InvertBranchTriger |-> FALSE, Jump |-> FALSE,
   NextPC |-> "pc4", bit_exit |-> FALSE, valid |-> FALSE]

(* R-type and I-type arithmetic share funct3; `alt` is the other of the    *)
(* two operations that 000 and 101 name.                                   *)
ArithmeticOp(funct3, alt) ==
  CASE funct3 = 0 -> IF alt THEN "SUB" ELSE "ADD"
    [] funct3 = 1 -> "SHL"
    [] funct3 = 2 -> "SLT"
    [] funct3 = 3 -> "SLTU"
    [] funct3 = 4 -> "XOR"
    [] funct3 = 5 -> IF alt THEN "SHA" ELSE "SHR"
    [] funct3 = 6 -> "OR"
    [] OTHER      -> "AND"

CompareOp(funct3) ==
  CASE funct3 \in {0, 1} -> "SUB"
    [] funct3 \in {4, 5} -> "SLT"
    [] OTHER             -> "SLTU"

IsCompare(i) == i.opcode = "BRANCH" /\ i.funct3 \notin {2, 3}

(* The instructions whose case assigns ALU_op, and what it assigns.        *)
SetsALUOp(i) ==
  \/ i.opcode \in {"R_TYPE", "I_TYPE", "STORE", "LOAD", "AUIPC", "LUI"}
  \/ IsCompare(i)

OwnALUOp(i) ==
  CASE i.opcode = "R_TYPE" -> ArithmeticOp(i.funct3, i.funct7)
    [] i.opcode = "I_TYPE" -> ArithmeticOp(i.funct3, i.funct7 /\ i.funct3 = 5)
    [] i.opcode = "BRANCH" -> CompareOp(i.funct3)
    [] i.opcode = "LUI"    -> "B"
    [] OTHER               -> "ADD"

(* beq, bge and bgeu are taken when the comparison gives zero.             *)
OwnInvert(i) == i.funct3 \in {0, 5, 7}

OwnALUSrc1(i) ==
  CASE i.opcode \in {"JALR", "JAL", "AUIPC"} -> "pc"
    [] i.opcode = "ZERO"                     -> XALUSrc1
    [] OTHER                                 -> "rs1"

OwnALUSrc2(i) ==
  CASE i.opcode \in {"R_TYPE", "BRANCH"} -> "rs2"
    [] i.opcode \in {"JALR", "JAL"}      -> "four"
    [] i.opcode = "ZERO"                 -> XALUSrc2
    [] OTHER                             -> "imm"

OwnNextPC(i) ==
  CASE i.opcode = "JALR"              -> "rs1Imm"
    [] i.opcode \in {"BRANCH", "JAL"} -> "pcImm"
    [] OTHER                          -> "pc4"

WritesRegister(i) == i.opcode \notin {"STORE", "BRANCH", "ZERO", "DEFAULT"}

(* An opcode of the case statement: all outputs but ALU_op and             *)
(* InvertBranchTriger are assigned.                                        *)
Decoded(held, i) ==
  [ALU_op    |-> IF SetsALUOp(i) THEN OwnALUOp(i) ELSE held.ALU_op,
   MemToReg  |-> i.opcode = "LOAD",
   MemWrite  |-> i.opcode = "STORE",
   ALUSrc1   |-> OwnALUSrc1(i),
   ALUSrc2   |-> OwnALUSrc2(i),
   RegWrite  |-> WritesRegister(i),
   Branch    |-> i.opcode = "BRANCH",
   InvertBranchTriger |->
     IF IsCompare(i) THEN OwnInvert(i) ELSE held.InvertBranchTriger,
   Jump      |-> i.opcode \in {"JAL", "JALR"},
   NextPC    |-> OwnNextPC(i),
   bit_exit  |-> FALSE,
   valid     |-> i.opcode # "ZERO"]

(* Mutants: a case that forgets one assignment, so that one more output is *)
(* a latch there.                                                          *)
BranchHeldByLoad(held, i) ==
  IF i.opcode = "DEFAULT" THEN [held EXCEPT !.bit_exit = TRUE, !.valid = TRUE]
  ELSE [Decoded(held, i) EXCEPT
          !.Branch = IF i.opcode = "LOAD" THEN held.Branch ELSE @]

MemWriteHeldByZero(held, i) ==
  IF i.opcode = "DEFAULT" THEN [held EXCEPT !.bit_exit = TRUE, !.valid = TRUE]
  ELSE [Decoded(held, i) EXCEPT
          !.MemWrite = IF i.opcode = "ZERO" THEN held.MemWrite ELSE @]

(* Any other opcode assigns only these two.                                *)
ControlUnit(held, i) ==
  IF i.opcode = "DEFAULT" THEN [held EXCEPT !.bit_exit = TRUE, !.valid = TRUE]
  ELSE Decoded(held, i)
==============================================================================
