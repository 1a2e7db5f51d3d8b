------------------------------ MODULE Simulator ------------------------------
(***************************************************************************)
(* Simulator.v with PCCounter.v, Pipeline.v, RegisterFile.v,               *)
(* MemoryInstruction.v and the write port of MemoryData.v: five stages     *)
(* (IF, ID, EX, MEM, WB) that advance together at the rising clock edge;   *)
(* the register file is written at the falling edge.  The clock alternates *)
(* for ever: what stops it is the harness (module Testbench).  rst is 0:   *)
(* the harness never drives it.                                            *)
(***************************************************************************)
EXTENDS Hazard, MemoryData, ControlUnit

CONSTANTS
  ALUResult(_, _, _),  \* ALU.v: the result of an operation on two words
  Programs,            \* the images the loader may leave in instruction memory
  Entries              \* the entry points it may leave in pc

ASSUME ALUAssumption ==
  \A op \in ALUOps, a, b \in Word : ALUResult(op, a, b) \in Word

ASSUME ImageAssumption == Programs \subseteq Imem /\ Entries \subseteq Word

VARIABLES
  clk,          \* level of the clock
  pc,           \* PCCounter.pc
  imem,         \* MemoryInstruction.mem_buff, written by no clock edge
  instrDecode,  \* pipeReg_instrDecode: pc and instruction in ID
  control,      \* outputs of the control unit for the instruction in ID
  exec,         \* pipeReg_ex_vals and pipeReg_ex_flags
  mem,          \* pipeReg_mem_values and pipeReg_mem_flags
  wb,           \* pipeReg_wb_vals and pipeReg_wb_flags, and pc_WB
  registers,    \* RegisterFile.registers
  dmem          \* MemoryData.mem_buff

vars == <<clk, pc, imem, instrDecode, control, exec, mem, wb, registers, dmem>>

-------------------------------------------------------------------------------
(* Pipeline registers, and their value after a reset.                      *)

DecodeSlot == [pc : Word, instr : Instr]

ExecSlot == [pc : Word, rs1_val : Word, rs2_val : Word, imm32 : Word,
             rs1n : Reg, rs2n : Reg, rdn : Reg, mem_width : 0 .. 7,
             control : Control]

MemSlot == [pc : Word, ALUOut : Word, MemWriteData : Word, rdn : Reg,
            mem_width : 0 .. 7, MemToReg : BOOLEAN, MemWrite : BOOLEAN,
            RegWrite : BOOLEAN, bit_exit : BOOLEAN, valid : BOOLEAN]

WbSlot == [pc : Word, ReadData : Word, ALUOut : Word, rdn : Reg,
           RegWrite : BOOLEAN, MemToReg : BOOLEAN, bit_exit : BOOLEAN,
           valid : BOOLEAN]

EmptyDecode == [pc |-> 0, instr |-> ZeroInstr]

EmptyExec == [pc |-> 0, rs1_val |-> 0, rs2_val |-> 0, imm32 |-> 0,
              rs1n |-> 0, rs2n |-> 0, rdn |-> 0, mem_width |-> 0,
              control |-> ZeroControl]

EmptyMem == [pc |-> 0, ALUOut |-> 0, MemWriteData |-> 0, rdn |-> 0,
             mem_width |-> 0, MemToReg |-> FALSE, MemWrite |-> FALSE,
             RegWrite |-> FALSE, bit_exit |-> FALSE, valid |-> FALSE]

EmptyWb == [pc |-> 0, ReadData |-> 0, ALUOut |-> 0, rdn |-> 0,
            RegWrite |-> FALSE, MemToReg |-> FALSE, bit_exit |-> FALSE,
            valid |-> FALSE]

(* Pipeline.v: reset wins over enable, and neither keeps the data.         *)
Latched(old, rst, en, data, zero) ==
  CASE rst        -> zero
    [] ~rst /\ en -> data
    [] OTHER      -> old

-------------------------------------------------------------------------------
(* Combinational signals.                                                  *)

Result_WB == IF wb.MemToReg THEN wb.ReadData ELSE wb.ALUOut

Forwarded(rn, val) ==
  LET src == ForwardSrc(rn, mem.RegWrite, mem.rdn, wb.RegWrite, wb.rdn)
  IN  CASE src = "MEM" -> mem.ALUOut
        [] src = "WB"  -> Result_WB
        [] OTHER       -> val

rs1_val_forwarded == Forwarded(exec.rs1n, exec.rs1_val)
rs2_val_forwarded == Forwarded(exec.rs2n, exec.rs2_val)

ALUSrc1_val ==
  IF exec.control.ALUSrc1 = "pc" THEN exec.pc ELSE rs1_val_forwarded

ALUSrc2_val ==
  CASE exec.control.ALUSrc2 = "rs2" -> rs2_val_forwarded
    [] exec.control.ALUSrc2 = "imm" -> exec.imm32
    [] OTHER                        -> 4

ALUOut_exec == ALUResult(exec.control.ALU_op, ALUSrc1_val, ALUSrc2_val)

load_stall == LoadStall(exec.control.MemToReg, exec.rdn,
                        instrDecode.instr.rs1, instrDecode.instr.rs2)

BranchIsTaken == BranchTaken(exec.control.Jump, exec.control.Branch,
                             exec.control.InvertBranchTriger, ALUOut_exec)

ReadRegister(n) == IF n = 0 THEN 0 ELSE registers[n]

Fetched == imem[InstrIndex(pc)]

-------------------------------------------------------------------------------
(* What the rising edge does to each register.  The base of a jump through *)
(* a register is exec.rs1_val, the value read in ID.                       *)

PCTarget ==
  CASE exec.control.NextPC = "pc4"   -> Wrap(pc + 4)
    [] exec.control.NextPC = "pcImm" -> Wrap(exec.pc + exec.imm32)
    [] OTHER                         -> Wrap(exec.imm32 + exec.rs1_val)

(* Mutants: the counter moves on during a stall; pc + 4 does not wrap.     *)
CounterIgnoresStall ==
  pc' = CASE wb.bit_exit   -> pc
          [] BranchIsTaken -> PCTarget
          [] OTHER         -> Wrap(pc + 4)

CounterGrows ==
  pc' = CASE load_stall \/ wb.bit_exit -> pc
          [] BranchIsTaken             -> PCTarget
          [] OTHER                     -> pc + 4

PCCounter ==
  pc' = CASE load_stall \/ wb.bit_exit -> pc
          [] BranchIsTaken /\ ~(load_stall \/ wb.bit_exit) -> PCTarget
          [] OTHER                     -> Wrap(pc + 4)

PipeReg_instrDecode ==
  instrDecode' = Latched(instrDecode, BranchIsTaken,
                         ~load_stall /\ ~wb.bit_exit,
                         [pc |-> pc, instr |-> Fetched], EmptyDecode)

DecodedForExec ==
  LET i == instrDecode.instr
  IN  [pc |-> instrDecode.pc, rs1_val |-> ReadRegister(i.rs1),
       rs2_val |-> ReadRegister(i.rs2), imm32 |-> Imm32(i), rs1n |-> i.rs1,
       rs2n |-> i.rs2, rdn |-> i.rd, mem_width |-> i.funct3,
       control |-> control]

(* Mutant: the stalled instruction is also let into EX.                    *)
ExecFlushedByBranchOnly ==
  exec' = Latched(exec, BranchIsTaken, ~wb.bit_exit, DecodedForExec, EmptyExec)

PipeReg_ex ==
  exec' = Latched(exec, load_stall \/ BranchIsTaken, ~wb.bit_exit,
                  DecodedForExec, EmptyExec)

ExecutedForMem ==
  [pc |-> exec.pc, ALUOut |-> ALUOut_exec,
   MemWriteData |-> rs2_val_forwarded, rdn |-> exec.rdn,
   mem_width |-> exec.mem_width, MemToReg |-> exec.control.MemToReg,
   MemWrite |-> exec.control.MemWrite, RegWrite |-> exec.control.RegWrite,
   bit_exit |-> exec.control.bit_exit, valid |-> exec.control.valid]

(* Mutant: a redirect empties MEM as well, the redirecting instruction     *)
(* included.                                                               *)
MemFlushedByBranch ==
  mem' = Latched(mem, BranchIsTaken, ~wb.bit_exit, ExecutedForMem,
                 EmptyMem)

PipeReg_mem ==
  mem' = Latched(mem, FALSE, ~wb.bit_exit, ExecutedForMem,
                 EmptyMem)

PipeReg_wb ==
  wb' = Latched(wb, FALSE, ~wb.bit_exit,
    [pc |-> mem.pc, ReadData |-> ReadLanes(mem.mem_width, dmem[DataIndex(mem.ALUOut)]),
     ALUOut |-> mem.ALUOut, rdn |-> mem.rdn, RegWrite |-> mem.RegWrite,
     MemToReg |-> mem.MemToReg, bit_exit |-> mem.bit_exit,
     valid |-> mem.valid],
    EmptyWb)

(* The memory's write port is the one register bit_exit does not freeze.   *)
WriteMemory ==
  dmem' = IF mem.MemWrite
          THEN [dmem EXCEPT ![DataIndex(mem.ALUOut)] =
                  WriteLanes(mem.mem_width, @, mem.MemWriteData)]
          ELSE dmem

-------------------------------------------------------------------------------
(* The two clock edges.                                                    *)

Init ==
  /\ clk = 0
  /\ pc \in Entries
  /\ imem \in Programs
  /\ instrDecode = EmptyDecode
  /\ control = ControlUnit(ZeroControl, ZeroInstr)
  /\ exec = EmptyExec
  /\ mem = EmptyMem
  /\ wb = EmptyWb
  /\ registers = [r \in Reg |-> 0]
  /\ dmem = [a \in 0 .. (DmemWords - 1) |-> 0]

PosEdge ==
  /\ clk = 0
  /\ clk' = 1
  /\ PCCounter
  /\ PipeReg_instrDecode
  /\ control' = ControlUnit(control, instrDecode'.instr)
  /\ PipeReg_ex
  /\ PipeReg_mem
  /\ PipeReg_wb
  /\ WriteMemory
  /\ UNCHANGED <<imem, registers>>

(* Mutant: a load is written back with its address.                        *)
WriteBackOfALU ==
  registers' = IF wb.RegWrite /\ wb.rdn # 0
               THEN [registers EXCEPT ![wb.rdn] = wb.ALUOut]
               ELSE registers

WriteBack ==
  registers' = IF wb.RegWrite /\ wb.rdn # 0
               THEN [registers EXCEPT ![wb.rdn] = Result_WB]
               ELSE registers

NegEdge ==
  /\ clk = 1
  /\ clk' = 0
  /\ WriteBack
  /\ UNCHANGED <<pc, imem, instrDecode, control, exec, mem, wb, dmem>>

Next == PosEdge \/ NegEdge

Spec == Init /\ [][Next]_vars

-------------------------------------------------------------------------------
(* Properties.                                                             *)

TypeOK ==
  /\ clk \in {0, 1}
  /\ pc \in Word
  /\ imem \in Imem
  /\ instrDecode \in DecodeSlot
  /\ control \in Control
  /\ exec \in ExecSlot
  /\ mem \in MemSlot
  /\ wb \in WbSlot
  /\ registers \in [Reg -> Word]
  /\ dmem \in Dmem

(* An operand is never taken from MEM while MEM holds a load: what MEM     *)
(* forwards is the ALU's output, for a load its address (Simulator.v:123,  *)
(* relying on the stall of Hazard.v:34 a cycle earlier).                   *)
NoForwardFromLoad ==
  mem.MemToReg =>
    \A rn \in {exec.rs1n, exec.rs2n} :
      ForwardSrc(rn, mem.RegWrite, mem.rdn, wb.RegWrite, wb.rdn) # "MEM"

(* A stall never meets a redirect: PCCounter.v would hold the pc and lose  *)
(* the target, while the branch leaves EX for good (Simulator.v:81-89).    *)
StallExcludesRedirect == ~(load_stall /\ BranchIsTaken)

(* A slot that does not hold an instruction changes nothing on its way     *)
(* through: latched control bits never make a bubble write, jump, stall or *)
(* end the run (Simulator.v:109, ControlUnit.v:200-211).                   *)
BubblesInert ==
  /\ \A c \in {control, exec.control} : ~c.valid =>
       ~(c.MemToReg \/ c.MemWrite \/ c.RegWrite \/ c.Branch \/ c.Jump \/ c.bit_exit)
  /\ ~mem.valid => ~(mem.MemToReg \/ mem.MemWrite \/ mem.RegWrite \/ mem.bit_exit)
  /\ ~wb.valid  => ~(wb.MemToReg \/ wb.RegWrite \/ wb.bit_exit)

(* Neighbouring stages hold neighbouring instructions: a stall drops or    *)
(* repeats none, and what follows a taken branch in memory never follows   *)
(* it down the pipeline (Simulator.v:82-118).                              *)
InOrder ==
  /\ control.valid => pc = Wrap(instrDecode.pc + 4)
  /\ exec.control.valid /\ control.valid => instrDecode.pc = Wrap(exec.pc + 4)
  /\ mem.valid /\ exec.control.valid => exec.pc = Wrap(mem.pc + 4)
  /\ wb.valid /\ mem.valid => mem.pc = Wrap(wb.pc + 4)

(* The cycle after a stall is not one: the load has left EX behind a       *)
(* bubble (Hazard.v:35, Simulator.v:109).                                  *)
StallLastsOneCycle == [][PosEdge /\ load_stall => ~load_stall']_vars
==============================================================================
