---------------------------- MODULE SimulatorProofs ----------------------------
(***************************************************************************)
(* Proofs about the pipeline for every word size, register count, memory   *)
(* size, ALU, image and entry point.                                       *)
(***************************************************************************)
EXTENDS Simulator, TLAPS

-------------------------------------------------------------------------------
(***************************************************************************)
(* What the operators on words, lanes and control bits return.             *)
(***************************************************************************)
(* An adder's result is a word.                                            *)
LEMMA WrapType ==
  \A x \in Int : Wrap(x) \in Word
BY SizesAssumption DEF Wrap, Word

(* A remainder is the only one that leaves a whole number of moduli.       *)
LEMMA ModUnique ==
  ASSUME NEW m \in Nat, m > 0, NEW x \in Int, NEW y \in Int,
         NEW r \in 0 .. (m - 1), x = m * y + r
  PROVE  x % m = r
<1>. DEFINE d == x \div m
            s == x % m
            t == d - y
<1>1. d \in Int /\ s \in 0 .. (m - 1) /\ x = m * d + s /\ t \in Int
  OBVIOUS
<1>2. m * t = r - s
  BY <1>1
<1>3. ~(t >= 1)
  <2>1. t >= 1 => m * t >= m
    BY <1>1
  <2>. QED
    BY <1>1, <1>2, <2>1
<1>4. ~(t <= -1)
  <2>1. t <= -1 => m * t <= -m
    BY <1>1
  <2>. QED
    BY <1>1, <1>2, <2>1
<1>5. t = 0
  BY <1>1, <1>3, <1>4
<1>. QED
  BY <1>1, <1>2, <1>5

(* Whole turns do not change a remainder.                                  *)
LEMMA ModShift ==
  ASSUME NEW m \in Nat, m > 0, NEW x \in Int, NEW y \in Int
  PROVE  (x + m * y) % m = x % m
<1>. DEFINE d == x \div m
            r == x % m
<1>1. d + y \in Int /\ r \in 0 .. (m - 1) /\ x + m * y \in Int
      /\ x + m * y = m * (d + y) + r
  OBVIOUS
<1>. HIDE DEF d
<1>. QED
  BY <1>1, ModUnique

(* Whatever the address, both memories are read and written within their   *)
(* bounds (Simulator.v:85 and 153: the index keeps its low bits).          *)
LEMMA IndexType ==
  ASSUME NEW a \in Word
  PROVE  /\ InstrIndex(a) \in 0 .. (ImemWords - 1)
         /\ DataIndex(a) \in 0 .. (DmemWords - 1)
<1>1. a \div 4 \in Int
  BY SizesAssumption DEF Word
<1>. QED
  BY <1>1, SizesAssumption DEF InstrIndex, DataIndex

(* What is read from a lane is a word.                                     *)
LEMMA ExtendType ==
  ASSUME NEW w \in Word, NEW m \in 2 .. WordMod, NEW signed \in BOOLEAN
  PROVE  Extend(w, m, signed) \in Word
<1>1. w % m \in 0 .. (m - 1)
  BY SizesAssumption DEF Word
<1>. QED
  BY <1>1, SizesAssumption DEF Extend, Word

(* Replacing the low part of a word leaves a word: the part that stays is a*)
(* whole number of the part replaced.                                      *)
LEMMA MergeType ==
  ASSUME NEW old \in Word, NEW WD \in Word, NEW m \in 2 .. WordMod,
         WordMod % m = 0
  PROVE  Merge(old, WD, m) \in Word
<1>. DEFINE q == old \div m
            k == WordMod \div m
<1>1. old % m \in 0 .. (m - 1) /\ WD % m \in 0 .. (m - 1)
  BY SizesAssumption DEF Word
<1>2. old = m * q + (old % m) /\ q \in Int
  BY SizesAssumption DEF Word
<1>3. WordMod = m * k /\ k \in Int
  BY SizesAssumption
<1>4. q < k
  BY <1>1, <1>2, <1>3, SizesAssumption DEF Word
<1>. QED
  BY <1>1, <1>2, <1>3, <1>4, SizesAssumption DEF Merge, Word

(* Lanes are read from and written to words.                               *)
LEMMA LanesType ==
  ASSUME NEW w \in Word, NEW WD \in Word, NEW width \in 0 .. 7
  PROVE  /\ ReadLanes(width, w) \in Word
         /\ WriteLanes(width, w, WD) \in Word
<1>1. ToExtend(width) \in BOOLEAN
  BY DEF ToExtend
<1>2. HalfMod \in 2 .. WordMod /\ ByteMod \in 2 .. WordMod
  BY SizesAssumption
<1>3. ReadLanes(width, w) \in Word
  BY <1>1, <1>2, ExtendType DEF ReadLanes
<1>4. Merge(w, WD, HalfMod) \in Word /\ Merge(w, WD, ByteMod) \in Word
  BY <1>2, MergeType, SizesAssumption
<1>5. WriteLanes(width, w, WD) \in Word
  BY <1>4 DEF WriteLanes
<1>. QED
  BY <1>3, <1>5

-------------------------------------------------------------------------------
(* What an instruction asks of the control unit is a control output.       *)
LEMMA OwnFieldsType ==
  ASSUME NEW i \in Instr
  PROVE  /\ OwnALUOp(i) \in ALUOps
         /\ OwnInvert(i) \in BOOLEAN
         /\ OwnALUSrc1(i) \in ALUSrc1s
         /\ OwnALUSrc2(i) \in ALUSrc2s
         /\ OwnNextPC(i) \in NextPCs
         /\ WritesRegister(i) \in BOOLEAN
<1>1. \A alt \in BOOLEAN : ArithmeticOp(i.funct3, alt) \in ALUOps
  BY DEF ArithmeticOp, ALUOps
<1>2. i.funct7 \in BOOLEAN /\ (i.funct7 /\ i.funct3 = 5) \in BOOLEAN
  BY DEF Instr
<1>3. CompareOp(i.funct3) \in ALUOps
  BY DEF CompareOp, ALUOps
<1>4. OwnALUOp(i) \in ALUOps
  <2>1. /\ ArithmeticOp(i.funct3, i.funct7) \in ALUOps
        /\ ArithmeticOp(i.funct3, i.funct7 /\ i.funct3 = 5) \in ALUOps
    BY <1>1, <1>2
  <2>2. "B" \in ALUOps /\ "ADD" \in ALUOps
    BY DEF ALUOps
  <2>. QED
    BY ONLY <2>1, <2>2, <1>3, Zenon DEF OwnALUOp
<1>5. OwnALUSrc1(i) \in ALUSrc1s /\ OwnALUSrc2(i) \in ALUSrc2s
  BY XAssumption DEF OwnALUSrc1, OwnALUSrc2, ALUSrc1s, ALUSrc2s
<1>6. OwnNextPC(i) \in NextPCs
  BY DEF OwnNextPC, NextPCs
<1>. QED
  BY <1>4, <1>5, <1>6 DEF OwnInvert, WritesRegister

(* The control unit, latches included, produces control bits.              *)
LEMMA ControlUnitType ==
  ASSUME NEW held \in Control, NEW i \in Instr
  PROVE  ControlUnit(held, i) \in Control
<1>1. Decoded(held, i) \in Control
  BY OwnFieldsType DEF Decoded, Control
<1>2. [held EXCEPT !.bit_exit = TRUE, !.valid = TRUE] \in Control
  BY DEF Control
<1>. QED
  BY <1>1, <1>2 DEF ControlUnit

(* What decoding leaves of the latches: a slot is empty exactly for an     *)
(* all-zero opcode, an empty slot asks for nothing, and a load neither     *)
(* branches, jumps nor stores.                                             *)
Coherent(c) ==
  /\ ~c.valid =>
       ~(c.MemToReg \/ c.MemWrite \/ c.RegWrite \/ c.Branch \/ c.Jump \/ c.bit_exit)
  /\ c.MemToReg => ~(c.Branch \/ c.Jump \/ c.MemWrite)

(* Decoding through the latches keeps the outputs coherent.                *)
LEMMA ControlUnitCoherent ==
  ASSUME NEW held \in Control, Coherent(held), NEW i \in Instr
  PROVE  /\ Coherent(ControlUnit(held, i))
         /\ ControlUnit(held, i).valid <=> i.opcode # "ZERO"
<1>1. CASE i.opcode = "DEFAULT"
  BY <1>1 DEF ControlUnit, Coherent, Control
<1>2. CASE i.opcode # "DEFAULT"
  <2>1. ControlUnit(held, i) = Decoded(held, i)
    BY <1>2 DEF ControlUnit
  <2>. DEFINE d == Decoded(held, i)
  <2>2. /\ d.MemToReg <=> i.opcode = "LOAD"
        /\ d.MemWrite <=> i.opcode = "STORE"
        /\ d.RegWrite <=> i.opcode \notin {"STORE", "BRANCH", "ZERO", "DEFAULT"}
        /\ d.Branch <=> i.opcode = "BRANCH"
        /\ d.Jump <=> i.opcode \in {"JAL", "JALR"}
        /\ d.bit_exit <=> FALSE
        /\ d.valid <=> i.opcode # "ZERO"
    BY DEF Decoded, WritesRegister
  <2>. QED
    BY <2>1, <2>2 DEF Coherent
<1>. QED
  BY <1>1, <1>2

(* Decoding a word again changes nothing: a latch keeps what it has.       *)
LEMMA ControlUnitSettles ==
  ASSUME NEW held \in Control, NEW i \in Instr
  PROVE  ControlUnit(ControlUnit(held, i), i) = ControlUnit(held, i)
<1>1. CASE i.opcode = "DEFAULT"
  BY <1>1 DEF ControlUnit, Control
<1>2. CASE i.opcode # "DEFAULT"
  <2>1. \A c : ControlUnit(c, i) = Decoded(c, i)
    BY <1>2 DEF ControlUnit
  <2>2. Decoded(Decoded(held, i), i) = Decoded(held, i)
    BY DEF Decoded
  <2>. QED
    BY <2>1, <2>2
<1>. QED
  BY <1>1, <1>2

(* What the control bits are once they are those of instruction i.         *)
LEMMA SettledBits ==
  ASSUME NEW c \in Control, NEW i \in Instr, c = ControlUnit(c, i)
  PROVE  /\ c.bit_exit <=> i.opcode = "DEFAULT"
         /\ i.opcode # "DEFAULT" =>
              /\ c.MemToReg <=> i.opcode = "LOAD"
              /\ c.MemWrite <=> i.opcode = "STORE"
              /\ c.RegWrite <=> WritesRegister(i)
              /\ c.Branch <=> i.opcode = "BRANCH"
              /\ c.Jump <=> i.opcode \in {"JAL", "JALR"}
              /\ c.ALUSrc1 = OwnALUSrc1(i)
              /\ c.ALUSrc2 = OwnALUSrc2(i)
              /\ c.NextPC = OwnNextPC(i)
              /\ SetsALUOp(i) => c.ALU_op = OwnALUOp(i)
              /\ IsCompare(i) => (c.InvertBranchTriger <=> OwnInvert(i))
<1>1. CASE i.opcode = "DEFAULT"
  BY <1>1 DEF ControlUnit, Control
<1>2. CASE i.opcode # "DEFAULT"
  <2>. DEFINE d == Decoded(c, i)
  <2>1. c = d
    BY <1>2 DEF ControlUnit
  <2>2. /\ d.MemToReg <=> i.opcode = "LOAD"
        /\ d.MemWrite <=> i.opcode = "STORE"
        /\ d.RegWrite <=> WritesRegister(i)
        /\ d.Branch <=> i.opcode = "BRANCH"
        /\ d.Jump <=> i.opcode \in {"JAL", "JALR"}
        /\ d.bit_exit <=> FALSE
    BY DEF Decoded
  <2>3. /\ d.ALUSrc1 = OwnALUSrc1(i)
        /\ d.ALUSrc2 = OwnALUSrc2(i)
        /\ d.NextPC = OwnNextPC(i)
    BY DEF Decoded
  <2>4. /\ SetsALUOp(i) => d.ALU_op = OwnALUOp(i)
        /\ IsCompare(i) => (d.InvertBranchTriger <=> OwnInvert(i))
    BY DEF Decoded
  <2>. HIDE DEF d
  <2>. QED
    BY <1>2, <2>1, <2>2, <2>3, <2>4
<1>. QED
  BY <1>1, <1>2

-------------------------------------------------------------------------------
(***************************************************************************)
(* The pipeline.                                                           *)
(***************************************************************************)
(* What travels on the wires between two clock edges has its type.         *)
LEMMA SignalTypes ==
  ASSUME TypeOK
  PROVE  /\ Result_WB \in Word
         /\ rs1_val_forwarded \in Word
         /\ rs2_val_forwarded \in Word
         /\ ALUOut_exec \in Word
         /\ load_stall \in BOOLEAN
         /\ BranchIsTaken \in BOOLEAN
         /\ Fetched \in Instr
         /\ DecodedForExec \in ExecSlot
         /\ PCTarget \in Word
         /\ Wrap(pc + 4) \in Word
<1>. USE DEF TypeOK
<1>1. Result_WB \in Word
  BY DEF Result_WB, WbSlot
<1>2. \A rn \in Reg, val \in Word : Forwarded(rn, val) \in Word
  <2>. SUFFICES ASSUME NEW rn \in Reg, NEW val \in Word
                PROVE  Forwarded(rn, val) \in Word
    OBVIOUS
  <2>1. mem.ALUOut \in Word
    BY DEF MemSlot
  <2>. QED
    BY <1>1, <2>1 DEF Forwarded
<1>3. /\ exec.rs1n \in Reg /\ exec.rs2n \in Reg /\ exec.rdn \in Reg
      /\ exec.rs1_val \in Word /\ exec.rs2_val \in Word
      /\ exec.imm32 \in Word /\ exec.pc \in Word
      /\ exec.control \in Control
  BY DEF ExecSlot
<1>4. rs1_val_forwarded \in Word /\ rs2_val_forwarded \in Word
  BY <1>2, <1>3 DEF rs1_val_forwarded, rs2_val_forwarded
<1>5. ALUSrc1_val \in Word
  BY <1>3, <1>4 DEF ALUSrc1_val
<1>6. ALUSrc2_val \in Word
  <2>1. 4 \in Word
    BY SizesAssumption DEF Word
  <2>. QED
    BY <1>3, <1>4, <2>1 DEF ALUSrc2_val
<1>7. ALUOut_exec \in Word
  BY <1>3, <1>5, <1>6, ALUAssumption DEF ALUOut_exec, Control
<1>8. load_stall \in BOOLEAN
  BY <1>3 DEF load_stall, LoadStall, Control
<1>9. BranchIsTaken \in BOOLEAN
  BY <1>3 DEF BranchIsTaken, BranchTaken, Control
<1>10. Fetched \in Instr
  BY IndexType DEF Fetched, Imem
<1>11. DecodedForExec \in ExecSlot
  <2>1. /\ instrDecode.pc \in Word /\ instrDecode.instr \in Instr
    BY DEF DecodeSlot
  <2>2. /\ instrDecode.instr.rs1 \in Reg /\ instrDecode.instr.rs2 \in Reg
        /\ instrDecode.instr.rd \in Reg /\ instrDecode.instr.funct3 \in 0 .. 7
        /\ instrDecode.instr.imm \in Word
    BY <2>1 DEF Instr
  <2>3. 0 \in Word
    BY SizesAssumption DEF Word
  <2>4. \A n \in Reg : ReadRegister(n) \in Word
    BY <2>3 DEF ReadRegister
  <2>5. Imm32(instrDecode.instr) \in Word
    BY <2>2, <2>3 DEF Imm32
  <2>. QED
    BY <2>1, <2>2, <2>4, <2>5 DEF DecodedForExec, ExecSlot
<1>12. Wrap(pc + 4) \in Word /\ PCTarget \in Word
  <2>1. /\ pc + 4 \in Int /\ exec.pc + exec.imm32 \in Int
        /\ exec.imm32 + exec.rs1_val \in Int
    BY <1>3, SizesAssumption DEF Word
  <2>2. /\ Wrap(pc + 4) \in Word /\ Wrap(exec.pc + exec.imm32) \in Word
        /\ Wrap(exec.imm32 + exec.rs1_val) \in Word
    BY <2>1, WrapType
  <2>. QED
    BY <2>2 DEF PCTarget
<1>. QED
  BY <1>1, <1>4, <1>7, <1>8, <1>9, <1>10, <1>11, <1>12

(* Empty slots are slots.                                                  *)
LEMMA EmptyTypes ==
  /\ ZeroInstr \in Instr /\ ZeroControl \in Control
  /\ EmptyDecode \in DecodeSlot /\ EmptyExec \in ExecSlot
  /\ EmptyMem \in MemSlot /\ EmptyWb \in WbSlot
<1>1. 0 \in Word /\ 0 \in Reg /\ 0 \in 0 .. 7
  BY SizesAssumption DEF Word, Reg
<1>2. ZeroInstr \in Instr
  BY <1>1 DEF ZeroInstr, Instr, Opcodes
<1>3. ZeroControl \in Control
  BY DEF ZeroControl, Control, ALUOps, ALUSrc1s, ALUSrc2s, NextPCs
<1>4. EmptyDecode \in DecodeSlot
  BY <1>1, <1>2 DEF EmptyDecode, DecodeSlot
<1>5. EmptyExec \in ExecSlot
  BY <1>1, <1>3 DEF EmptyExec, ExecSlot
<1>6. EmptyMem \in MemSlot /\ EmptyWb \in WbSlot
  BY <1>1 DEF EmptyMem, MemSlot, EmptyWb, WbSlot
<1>. QED
  BY <1>2, <1>3, <1>4, <1>5, <1>6

(* The state after the load is typed.                                      *)
LEMMA InitType == Init => TypeOK
<1>. SUFFICES ASSUME Init PROVE TypeOK
  OBVIOUS
<1>1. control \in Control
  BY EmptyTypes, ControlUnitType DEF Init
<1>2. registers \in [Reg -> Word] /\ dmem \in Dmem
  BY SizesAssumption DEF Init, Word, Dmem
<1>. QED
  BY <1>1, <1>2, EmptyTypes, ImageAssumption DEF Init, TypeOK

-------------------------------------------------------------------------------

(* A rising edge keeps the types.                                          *)
LEMMA PosEdgeType == TypeOK /\ PosEdge => TypeOK'
<1>. SUFFICES ASSUME TypeOK, PosEdge PROVE TypeOK'
  OBVIOUS
<1>1. pc' \in Word
  BY SignalTypes DEF PosEdge, PCCounter, TypeOK
<1>2. instrDecode' \in DecodeSlot
  <2>1. [pc |-> pc, instr |-> Fetched] \in DecodeSlot
    BY SignalTypes DEF DecodeSlot, TypeOK
  <2>. QED
    BY <2>1, EmptyTypes DEF PosEdge, PipeReg_instrDecode, Latched, TypeOK
<1>3. control' \in Control
  <2>1. instrDecode'.instr \in Instr
    BY <1>2 DEF DecodeSlot
  <2>. QED
    BY <2>1, ControlUnitType DEF PosEdge, TypeOK
<1>4. exec' \in ExecSlot
  BY SignalTypes, EmptyTypes DEF PosEdge, PipeReg_ex, Latched, TypeOK
<1>5. mem' \in MemSlot
  <2>1. /\ exec.pc \in Word /\ exec.rdn \in Reg /\ exec.mem_width \in 0 .. 7
        /\ exec.control.MemToReg \in BOOLEAN /\ exec.control.MemWrite \in BOOLEAN
        /\ exec.control.RegWrite \in BOOLEAN /\ exec.control.bit_exit \in BOOLEAN
        /\ exec.control.valid \in BOOLEAN
    BY DEF TypeOK, ExecSlot, Control
  <2>. QED
    BY <2>1, SignalTypes DEF PosEdge, PipeReg_mem, ExecutedForMem, Latched, MemSlot, TypeOK
<1>6. mem.ALUOut \in Word /\ mem.MemWriteData \in Word /\ mem.mem_width \in 0 .. 7
  BY DEF TypeOK, MemSlot
<1>7. DataIndex(mem.ALUOut) \in 0 .. (DmemWords - 1)
  BY <1>6, IndexType
<1>8. dmem[DataIndex(mem.ALUOut)] \in Word
  BY <1>7 DEF TypeOK, Dmem
<1>9. wb' \in WbSlot
  <2>1. ReadLanes(mem.mem_width, dmem[DataIndex(mem.ALUOut)]) \in Word
    BY <1>6, <1>8, LanesType
  <2>2. /\ mem.pc \in Word /\ mem.rdn \in Reg /\ mem.RegWrite \in BOOLEAN
        /\ mem.MemToReg \in BOOLEAN /\ mem.bit_exit \in BOOLEAN
        /\ mem.valid \in BOOLEAN
    BY DEF TypeOK, MemSlot
  <2>. QED
    BY <1>6, <2>1, <2>2 DEF PosEdge, PipeReg_wb, Latched, WbSlot, TypeOK
<1>10. dmem' \in Dmem
  <2>1. WriteLanes(mem.mem_width, dmem[DataIndex(mem.ALUOut)],
                   mem.MemWriteData) \in Word
    BY <1>6, <1>8, LanesType
  <2>. QED
    BY <1>7, <2>1 DEF PosEdge, WriteMemory, TypeOK, Dmem
<1>. QED
  BY <1>1, <1>2, <1>3, <1>4, <1>5, <1>9, <1>10 DEF PosEdge, TypeOK

(* So does a falling edge.                                                 *)
LEMMA NegEdgeType == TypeOK /\ NegEdge => TypeOK'
<1>. SUFFICES ASSUME TypeOK, NegEdge PROVE TypeOK'
  OBVIOUS
<1>1. registers' \in [Reg -> Word]
  BY SignalTypes DEF NegEdge, WriteBack, TypeOK
<1>. QED
  BY <1>1 DEF NegEdge, TypeOK

(* Every register, latch and memory cell keeps its type: no adder, lane    *)
(* merge, sign extension or index leaves its range at any size             *)
(* (Simulator.v:67-183).                                                   *)
THEOREM TypeCorrect == Spec => []TypeOK
<1>1. TypeOK /\ UNCHANGED vars => TypeOK'
  BY DEF TypeOK, vars
<1>2. TypeOK /\ [Next]_vars => TypeOK'
  BY <1>1, PosEdgeType, NegEdgeType DEF Next
<1>. QED
  BY <1>2, InitType, PTL DEF Spec

-------------------------------------------------------------------------------
(***************************************************************************)
(* The pipeline invariant.  InOrder and NoForwardFromLoad are inductive    *)
(* only together with what the latches may hold: that an empty slot asks   *)
(* for nothing, that a load does not also redirect, and that the latched   *)
(* valid bit still tells whether the slot in ID is empty.                  *)
(***************************************************************************)
EmptySlotsInert ==
  /\ ~mem.valid => ~(mem.MemToReg \/ mem.MemWrite \/ mem.RegWrite \/ mem.bit_exit)
  /\ ~wb.valid  => ~(wb.MemToReg \/ wb.RegWrite \/ wb.bit_exit)

ValidMatchesOpcode == control.valid <=> instrDecode.instr.opcode # "ZERO"

LoadNotRead ==
  mem.MemToReg => \A rn \in {exec.rs1n, exec.rs2n} : rn # 0 => rn # mem.rdn

PipelineInv ==
  /\ TypeOK
  /\ Coherent(control)
  /\ Coherent(exec.control)
  /\ EmptySlotsInert
  /\ ValidMatchesOpcode
  /\ LoadNotRead
  /\ InOrder

(* Outputs that are all zero are coherent.                                 *)
LEMMA ZeroControlCoherent ==
  /\ Coherent(ZeroControl)
  /\ Coherent(ControlUnit(ZeroControl, ZeroInstr))
  /\ ~ControlUnit(ZeroControl, ZeroInstr).valid
<1>1. Coherent(ZeroControl)
  BY DEF Coherent, ZeroControl
<1>. QED
  BY <1>1, EmptyTypes, ControlUnitCoherent DEF ZeroInstr

(* An empty pipeline satisfies the invariant.                              *)
LEMMA InitPipeline == Init => PipelineInv
<1>. SUFFICES ASSUME Init PROVE PipelineInv
  OBVIOUS
<1>1. /\ ~control.valid /\ ~exec.control.valid /\ ~mem.valid /\ ~wb.valid
      /\ Coherent(control) /\ Coherent(exec.control)
  BY ZeroControlCoherent
  DEF Init, EmptyExec, EmptyMem, EmptyWb, ZeroControl
<1>2. EmptySlotsInert /\ LoadNotRead
  BY DEF Init, EmptySlotsInert, LoadNotRead, EmptyMem, EmptyWb
<1>3. ValidMatchesOpcode
  BY <1>1 DEF Init, ValidMatchesOpcode, EmptyDecode, ZeroInstr
<1>4. InOrder
  BY <1>1 DEF InOrder
<1>. QED
  BY <1>1, <1>2, <1>3, <1>4, InitType DEF PipelineInv

(* A load and a redirect exclude each other in EX.                         *)
LEMMA CoherentExcludes ==
  TypeOK /\ Coherent(exec.control) => StallExcludesRedirect
BY DEF Coherent, StallExcludesRedirect, load_stall, LoadStall, BranchIsTaken,
       BranchTaken

(* A rising edge keeps the invariant.                                      *)
LEMMA PosEdgePipeline == PipelineInv /\ PosEdge => PipelineInv'
<1>. SUFFICES ASSUME PipelineInv, PosEdge PROVE PipelineInv'
  OBVIOUS
<1>1. TypeOK /\ TypeOK'
  BY PosEdgeType DEF PipelineInv
<1>2. load_stall \in BOOLEAN /\ BranchIsTaken \in BOOLEAN /\ wb.bit_exit \in BOOLEAN
  BY <1>1, SignalTypes DEF TypeOK, WbSlot
<1>3. ~(load_stall /\ BranchIsTaken)
  BY CoherentExcludes DEF PipelineInv, StallExcludesRedirect
<1>4. Coherent(control') /\ ValidMatchesOpcode'
  <2>1. instrDecode'.instr \in Instr /\ control \in Control
    BY <1>1 DEF TypeOK, DecodeSlot
  <2>. QED
    BY <2>1, ControlUnitCoherent DEF PipelineInv, PosEdge, ValidMatchesOpcode
<1>5. /\ exec' \in {exec, EmptyExec, DecodedForExec}
      /\ load_stall \/ BranchIsTaken => exec' = EmptyExec
      /\ ~(load_stall \/ BranchIsTaken) /\ wb.bit_exit => exec' = exec
      /\ ~(load_stall \/ BranchIsTaken) /\ ~wb.bit_exit => exec' = DecodedForExec
  BY <1>2 DEF PosEdge, PipeReg_ex, Latched
<1>6. /\ EmptyExec.control = ZeroControl /\ ~EmptyExec.control.valid
      /\ EmptyExec.rs1n = 0 /\ EmptyExec.rs2n = 0
  BY DEF EmptyExec, ZeroControl
<1>7. /\ DecodedForExec.control = control
      /\ DecodedForExec.pc = instrDecode.pc
      /\ DecodedForExec.rs1n = instrDecode.instr.rs1
      /\ DecodedForExec.rs2n = instrDecode.instr.rs2
  BY DEF DecodedForExec
<1>8. Coherent(exec'.control)
  BY <1>5, <1>6, <1>7, ZeroControlCoherent DEF PipelineInv
<1>9. /\ wb.bit_exit => mem' = mem /\ wb' = wb
      /\ ~wb.bit_exit =>
           /\ mem'.pc = exec.pc /\ mem'.rdn = exec.rdn
           /\ mem'.MemToReg = exec.control.MemToReg
           /\ mem'.MemWrite = exec.control.MemWrite
           /\ mem'.RegWrite = exec.control.RegWrite
           /\ mem'.bit_exit = exec.control.bit_exit
           /\ mem'.valid = exec.control.valid
           /\ wb'.pc = mem.pc /\ wb'.MemToReg = mem.MemToReg
           /\ wb'.RegWrite = mem.RegWrite /\ wb'.bit_exit = mem.bit_exit
           /\ wb'.valid = mem.valid
  BY <1>2 DEF PosEdge, PipeReg_mem, ExecutedForMem, PipeReg_wb, Latched
<1>10. EmptySlotsInert'
  BY <1>9 DEF PipelineInv, EmptySlotsInert, Coherent
<1>11. LoadNotRead'
  <2>1. CASE wb.bit_exit
    BY <2>1, <1>3, <1>5, <1>6, <1>9 DEF PipelineInv, LoadNotRead
  <2>2. CASE ~wb.bit_exit
    <3>1. CASE load_stall \/ BranchIsTaken
      BY <3>1, <1>5, <1>6 DEF LoadNotRead
    <3>2. CASE ~(load_stall \/ BranchIsTaken)
      BY <3>2, <2>2, <1>5, <1>7, <1>9 DEF LoadNotRead, load_stall, LoadStall
    <3>. QED
      BY <3>1, <3>2
  <2>. QED
    BY <2>1, <2>2
<1>12. InOrder'
  <2>1. CASE wb.bit_exit
    <3>1. pc' = pc /\ mem' = mem /\ wb' = wb
      BY <2>1, <1>9 DEF PosEdge, PCCounter
    <3>2. exec' = exec \/ ~exec'.control.valid
      BY <2>1, <1>5, <1>6
    <3>3. instrDecode' = instrDecode \/ instrDecode' = EmptyDecode
      BY <2>1, <1>2 DEF PosEdge, PipeReg_instrDecode, Latched
    <3>4. control'.valid => instrDecode' = instrDecode /\ control.valid
      BY <3>3, <1>4 DEF PipelineInv, ValidMatchesOpcode, EmptyDecode, ZeroInstr
    <3>. QED
      BY <3>1, <3>2, <3>4 DEF PipelineInv, InOrder
  <2>2. CASE ~wb.bit_exit /\ BranchIsTaken
    <3>1. ~exec'.control.valid
      BY <2>2, <1>5, <1>6
    <3>2. ~control'.valid
      BY <2>2, <1>4
      DEF PosEdge, PipeReg_instrDecode, Latched, ValidMatchesOpcode,
          EmptyDecode, ZeroInstr
    <3>. QED
      BY <2>2, <3>1, <3>2, <1>9 DEF PipelineInv, InOrder
  <2>3. CASE ~wb.bit_exit /\ load_stall
    <3>1. ~exec'.control.valid
      BY <2>3, <1>5, <1>6
    <3>2. pc' = pc /\ instrDecode' = instrDecode
      BY <2>3, <1>2, <1>3
      DEF PosEdge, PCCounter, PipeReg_instrDecode, Latched
    <3>3. control'.valid <=> control.valid
      BY <3>2, <1>4 DEF PipelineInv, ValidMatchesOpcode
    <3>. QED
      BY <2>3, <3>1, <3>2, <3>3, <1>9 DEF PipelineInv, InOrder
  <2>4. CASE ~wb.bit_exit /\ ~BranchIsTaken /\ ~load_stall
    <3>1. pc' = Wrap(pc + 4) /\ instrDecode'.pc = pc
      BY <2>4, <1>2 DEF PosEdge, PCCounter, PipeReg_instrDecode, Latched
    <3>2. exec' = DecodedForExec
      BY <2>4, <1>5
    <3>. QED
      BY <2>4, <3>1, <3>2, <1>7, <1>9 DEF PipelineInv, InOrder
  <2>. QED
    BY <1>2, <2>1, <2>2, <2>3, <2>4
<1>. QED
  BY <1>1, <1>4, <1>8, <1>10, <1>11, <1>12 DEF PipelineInv

(* Every step keeps it.                                                    *)
LEMMA StepPipeline == PipelineInv /\ [Next]_vars => PipelineInv'
<1>. USE DEF PipelineInv, Coherent, EmptySlotsInert, ValidMatchesOpcode,
            LoadNotRead, InOrder
<1>1. PipelineInv /\ NegEdge => PipelineInv'
  BY NegEdgeType DEF NegEdge
<1>2. PipelineInv /\ UNCHANGED vars => PipelineInv'
  BY DEF vars, TypeOK
<1>. QED
  BY <1>1, <1>2, PosEdgePipeline DEF Next

(* The inductive invariant of the pipeline (Simulator.v:81-171).           *)
THEOREM PipelineInvariant == Spec => []PipelineInv
  BY InitPipeline, StepPipeline, PTL DEF Spec

(* No operand is ever the address of a load still in MEM (Hazard.v:27-35). *)
THEOREM NeverForwardsFromLoad == Spec => []NoForwardFromLoad
<1>1. PipelineInv => NoForwardFromLoad
  BY DEF PipelineInv, LoadNotRead, NoForwardFromLoad, ForwardSrc
<1>. QED
  BY <1>1, PipelineInvariant, PTL

(* The counter never has to choose between holding and jumping             *)
(* (Simulator.v:81-82, Hazard.v:34-39).                                    *)
THEOREM NeverStallsAndRedirects == Spec => []StallExcludesRedirect
<1>1. PipelineInv => StallExcludesRedirect
  BY CoherentExcludes DEF PipelineInv
<1>. QED
  BY <1>1, PipelineInvariant, PTL

(* A slot without an instruction changes nothing, whatever the latches of  *)
(* the control unit held before it (ControlUnit.v:19-217).                 *)
THEOREM BubblesStayInert == Spec => []BubblesInert
<1>1. PipelineInv => BubblesInert
  BY DEF PipelineInv, Coherent, EmptySlotsInert, BubblesInert
<1>. QED
  BY <1>1, PipelineInvariant, PTL

(* Stalls and flushes neither drop, repeat nor reorder an instruction      *)
(* (Simulator.v:82-118).                                                   *)
THEOREM StaysInOrder == Spec => []InOrder
<1>1. PipelineInv => InOrder
  BY DEF PipelineInv
<1>. QED
  BY <1>1, PipelineInvariant, PTL

(* A load costs the instruction behind it one cycle, never two             *)
(* (Hazard.v:34-35, Simulator.v:109).                                      *)
THEOREM StallsOneCycle == Spec => StallLastsOneCycle
<1>1. TypeOK /\ PosEdge /\ load_stall => ~load_stall'
  <2>. SUFFICES ASSUME TypeOK, PosEdge, load_stall PROVE ~load_stall'
    OBVIOUS
  <2>1. exec' = EmptyExec
    BY DEF PosEdge, PipeReg_ex, Latched
  <2>. QED
    BY <2>1 DEF load_stall, LoadStall, EmptyExec, ZeroControl
<1>. QED
  BY <1>1, TypeCorrect, PTL DEF StallLastsOneCycle
==============================================================================
