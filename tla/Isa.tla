---------------------------------- MODULE Isa ----------------------------------
(***************************************************************************)
(* What the processor promises the program: one instruction at a time, in  *)
(* program order, each seeing everything the earlier ones wrote.  There is *)
(* no pipeline here, no latch and no clock.  What an instruction computes  *)
(* is the decoder's table (Decoder.v, ControlUnit.v) read as intended: the *)
(* link of a jump is pc + 4, the target of a jump through a register uses  *)
(* the register's value, and an instruction that ends the run changes      *)
(* nothing else.                                                           *)
(***************************************************************************)
EXTENDS MemoryData, ControlUnit

CONSTANTS ALUResult(_, _, _), Programs, Entries

VARIABLES imem, pc, registers, dmem, halted

archVars == <<imem, pc, registers, dmem, halted>>

Init ==
  /\ imem \in Programs
  /\ pc \in Entries
  /\ registers = [r \in Reg |-> 0]
  /\ dmem = [a \in 0 .. (DmemWords - 1) |-> 0]
  /\ halted = FALSE

Current == imem[InstrIndex(pc)]

Value(n) == IF n = 0 THEN 0 ELSE registers[n]

Write(rd, v) ==
  registers' = IF rd = 0 THEN registers ELSE [registers EXCEPT ![rd] = v]

Address(i) == ALUResult("ADD", Value(i.rs1), i.imm)

Operate(i) ==
  /\ i.opcode \in {"R_TYPE", "I_TYPE", "LUI", "AUIPC"}
  /\ Write(i.rd, ALUResult(OwnALUOp(i),
                           IF i.opcode = "AUIPC" THEN pc ELSE Value(i.rs1),
                           IF i.opcode = "R_TYPE" THEN Value(i.rs2) ELSE i.imm))
  /\ pc' = Wrap(pc + 4)
  /\ UNCHANGED <<dmem, halted>>

Load(i) ==
  /\ i.opcode = "LOAD"
  /\ Write(i.rd, ReadLanes(i.funct3, dmem[DataIndex(Address(i))]))
  /\ pc' = Wrap(pc + 4)
  /\ UNCHANGED <<dmem, halted>>

Store(i) ==
  /\ i.opcode = "STORE"
  /\ dmem' = [dmem EXCEPT ![DataIndex(Address(i))] =
                WriteLanes(i.funct3, @, Value(i.rs2))]
  /\ pc' = Wrap(pc + 4)
  /\ UNCHANGED <<registers, halted>>

ConditionalBranch(i) ==
  LET compared == ALUResult(CompareOp(i.funct3), Value(i.rs1), Value(i.rs2))
      taken    == OwnInvert(i) # (compared # 0)
  IN  /\ IsCompare(i)
      /\ pc' = IF taken THEN Wrap(pc + i.imm) ELSE Wrap(pc + 4)
      /\ UNCHANGED <<registers, dmem, halted>>

JumpAndLink(i) ==
  /\ i.opcode \in {"JAL", "JALR"}
  /\ Write(i.rd, Wrap(pc + 4))
  /\ pc' = IF i.opcode = "JAL" THEN Wrap(pc + i.imm)
           ELSE Wrap(i.imm + Value(i.rs1))
  /\ UNCHANGED <<dmem, halted>>

Exit(i) ==
  /\ i.opcode = "DEFAULT"
  /\ halted' = TRUE
  /\ UNCHANGED <<pc, registers, dmem>>

Step ==
  /\ ~halted
  /\ \/ Operate(Current)
     \/ Load(Current)
     \/ Store(Current)
     \/ ConditionalBranch(Current)
     \/ JumpAndLink(Current)
     \/ Exit(Current)
  /\ UNCHANGED imem

Spec == Init /\ [][Step]_archVars

(* The machine does not stop before an instruction that ends the run.      *)
FairSpec == Spec /\ WF_archVars(Step)
==============================================================================
