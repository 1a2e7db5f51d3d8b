--------------------------- MODULE RefinementProofs ---------------------------
(***************************************************************************)
(* Proofs about the processor in its clock loop: bubbles never pile up,    *)
(* and the pipeline implements the machine that executes one instruction   *)
(* at a time (module Isa), for every conforming image.                     *)
(***************************************************************************)
EXTENDS Testbench, Contract, SimulatorProofs

(* The loop only ever does what the open clock may do.                     *)
LEMMA LoopIsClock == TBSpec => Spec
<1>1. TBInit => Init
  BY DEF TBInit
<1>2. [TBNext]_tbVars => [Next]_vars
  BY DEF TBNext, Toggle, Finish, Next, tbVars
<1>. QED
  BY <1>1, <1>2, PTL DEF TBSpec, Spec

(***************************************************************************)
(* When WB holds the only instruction of the last three stages, the next   *)
(* one is already in ID: had a redirect emptied ID together with EX, the   *)
(* redirecting instruction would still be in MEM.                          *)
(***************************************************************************)
NextInDecode ==
  wb.valid /\ ~mem.valid /\ ~exec.control.valid => control.valid

(* A word that is not all zero decodes to a valid instruction.             *)
LEMMA FetchedDecodes ==
  ASSUME \A p \in Programs : Decodable(p),
         TypeOK, imem \in Programs
  PROVE  Fetched.opcode # "ZERO"
<1>1. InstrIndex(pc) \in DOMAIN imem
  BY IndexType DEF TypeOK, Imem
<1>. QED
  BY <1>1 DEF Decodable, Fetched

(* One pass of the loop with the clock low, while no exit is in WB.        *)
LEMMA EdgeMovesSlots ==
  ASSUME PipelineInv, PosEdge, ~wb.bit_exit
  PROVE  /\ mem'.valid = exec.control.valid
         /\ wb'.valid = mem.valid
         /\ ~exec.control.valid =>
              /\ exec'.control = control
              /\ instrDecode'.instr = Fetched
<1>1. load_stall \in BOOLEAN /\ BranchIsTaken \in BOOLEAN
  BY SignalTypes DEF PipelineInv
<1>2. mem'.valid = exec.control.valid /\ wb'.valid = mem.valid
  BY DEF PosEdge, PipeReg_mem, ExecutedForMem, PipeReg_wb, Latched
<1>3. ASSUME ~exec.control.valid
      PROVE  exec'.control = control /\ instrDecode'.instr = Fetched
  <2>1. ~load_stall /\ ~BranchIsTaken
    BY <1>3 DEF PipelineInv, Coherent, load_stall, LoadStall, BranchIsTaken,
                BranchTaken
  <2>2. exec' = DecodedForExec
    BY <2>1 DEF PosEdge, PipeReg_ex, Latched
  <2>3. instrDecode' = [pc |-> pc, instr |-> Fetched]
    BY <2>1 DEF PosEdge, PipeReg_instrDecode, Latched
  <2>. QED
    BY <2>2, <2>3 DEF DecodedForExec
<1>. QED
  BY <1>2, <1>3

(* If no word of the image is all zeros, then from the first instruction   *)
(* that reaches EX on, EX, MEM or WB holds one: the bubbles of a stall and *)
(* of a redirect never add up to three in a row (Hazard.v:34-39,           *)
(* Simulator.v:88-118).                                                    *)
THEOREM BubblesNeverPileUp ==
  ASSUME \A p \in Programs : Decodable(p)
  PROVE  TBSpec => BubblesBounded
<1>. DEFINE Inv == PipelineInv /\ imem \in Programs /\ NextInDecode
<1>1. TBInit => Inv
  BY InitPipeline DEF TBInit, Init, NextInDecode, EmptyWb
<1>2. ASSUME Inv, [TBNext]_tbVars
      PROVE  Inv' /\ (Busy => Busy')
  <2>1. PipelineInv'
    BY <1>2, StepPipeline DEF TBNext, Toggle, Finish, Next, tbVars
  <2>2. imem' \in Programs
    BY <1>2 DEF TBNext, Toggle, Finish, PosEdge, NegEdge, tbVars, vars
  <2>3. CASE PosEdge /\ ~MustEnd
    <3>1. ~wb.bit_exit
      BY <2>3 DEF MustEnd, PosEdge
    <3>2. /\ mem'.valid = exec.control.valid /\ wb'.valid = mem.valid
          /\ ~exec.control.valid =>
               exec'.control = control /\ instrDecode'.instr = Fetched
      BY <1>2, <2>3, <3>1, EdgeMovesSlots
    <3>3. ~exec.control.valid => control'.valid
      <4>1. Fetched.opcode # "ZERO"
        BY <1>2, FetchedDecodes DEF PipelineInv
      <4>. QED
        BY <2>1, <3>2, <4>1 DEF PipelineInv, ValidMatchesOpcode
    <3>4. NextInDecode'
      BY <3>2, <3>3 DEF NextInDecode
    <3>5. Busy => Busy'
      BY <1>2, <3>2 DEF Busy, NextInDecode
    <3>. QED
      BY <2>1, <2>2, <3>4, <3>5
  <2>4. CASE NegEdge \/ UNCHANGED vars
    <3>1. UNCHANGED <<exec, mem, wb, control>>
      BY <2>4 DEF NegEdge, vars
    <3>. QED
      BY <1>2, <2>1, <2>2, <3>1 DEF NextInDecode, Busy
  <2>. QED
    BY <1>2, <2>3, <2>4 DEF TBNext, Toggle, Finish, tbVars
<1>. QED
  BY <1>1, <1>2, PTL DEF TBSpec, BubblesBounded

-------------------------------------------------------------------------------

(* The word behind an instruction is the one at the next address, also     *)
(* where the program counter or the memory wraps.                          *)
LEMMA NextWord ==
  ASSUME NEW a \in Word
  PROVE  InstrIndex(Wrap(a + 4)) = (InstrIndex(a) + 1) % ImemWords
<1>. DEFINE m == ImemWords
            k == WordMod \div (4 * m)
            q == a \div 4
<1>1. m \in Nat /\ m > 0 /\ k \in Int /\ WordMod = 4 * (m * k) /\ q \in Int
  BY SizesAssumption, WrapAssumption DEF Word
<1>2. ((q % m) + 1) % m = (q + 1) % m
  <2>. DEFINE d == q \div m
              r == q % m
  <2>1. d \in Int /\ r + 1 \in Int /\ q + 1 = (r + 1) + m * d
    BY <1>1
  <2>. HIDE DEF d, r, q, m
  <2>2. ((r + 1) + m * d) % m = (r + 1) % m
    BY <1>1, <2>1, ModShift
  <2>. QED
    BY <2>1, <2>2 DEF r
<1>3. (Wrap(a + 4) \div 4) % m = (q + 1) % m
  <2>1. CASE a + 4 < WordMod
    <3>1. Wrap(a + 4) = a + 4
      BY <2>1, SizesAssumption DEF Word, Wrap
    <3>2. (a + 4) \div 4 = q + 1
      BY SizesAssumption DEF Word
    <3>. QED
      BY <3>1, <3>2
  <2>2. CASE ~(a + 4 < WordMod)
    <3>1. Wrap(a + 4) = a + 4 - WordMod
      <4>1. a + 4 = WordMod * 1 + (a + 4 - WordMod)
            /\ a + 4 - WordMod \in 0 .. (WordMod - 1)
        BY <2>2, SizesAssumption DEF Word
      <4>. QED
        BY <4>1, SizesAssumption, ModUnique DEF Word, Wrap
    <3>2. (a + 4 - WordMod) \div 4 = (q + 1) + m * (-k)
      <4>. DEFINE n == m * k
      <4>1. n \in Int /\ m * (-k) = -n /\ WordMod = 4 * n
        BY <1>1
      <4>. HIDE DEF n
      <4>. QED
        BY <4>1, SizesAssumption DEF Word
    <3>3. ((q + 1) + m * (-k)) % m = (q + 1) % m
      <4>1. q + 1 \in Int /\ -k \in Int
        BY <1>1
      <4>. HIDE DEF q, k, m
      <4>. QED
        BY <1>1, <4>1, ModShift
    <3>. QED
      BY <3>1, <3>2, <3>3
  <2>. QED
    BY <2>1, <2>2
<1>. QED
  BY <1>2, <1>3 DEF InstrIndex

(* And the words before an instruction are those at the addresses before   *)
(* its own.                                                                *)
LEMMA EarlierWords ==
  ASSUME NEW a \in Word, NEW p
  PROVE  /\ Before(p, InstrIndex(Wrap(a + 4)), 1) = p[InstrIndex(a)]
         /\ Before(p, InstrIndex(Wrap(Wrap(a + 4) + 4)), 2) = p[InstrIndex(a)]
         /\ After(p, InstrIndex(a)) = p[InstrIndex(Wrap(a + 4))]
<1>. DEFINE m == ImemWords
            x == InstrIndex(a)
<1>1. m \in Nat /\ m > 0 /\ x \in 0 .. (m - 1)
  BY SizesAssumption, IndexType
<1>2. \A z \in Int, k \in Int : ((z % m) - k) % m = (z - k) % m
  <2>. SUFFICES ASSUME NEW z \in Int, NEW k \in Int
                PROVE  ((z % m) - k) % m = (z - k) % m
    OBVIOUS
  <2>. DEFINE d == z \div m
              r == (z % m) - k
  <2>1. d \in Int /\ r \in Int /\ z - k = r + m * d
    BY <1>1
  <2>. HIDE DEF d, r, m
  <2>2. (r + m * d) % m = r % m
    BY <1>1, <2>1, ModShift
  <2>. QED
    BY <2>1, <2>2 DEF r
<1>3. Wrap(a + 4) \in Word
  BY WrapType, SizesAssumption DEF Word
<1>4. /\ InstrIndex(Wrap(a + 4)) = (x + 1) % m
      /\ InstrIndex(Wrap(Wrap(a + 4) + 4)) = (((x + 1) % m) + 1) % m
  BY <1>3, NextWord
<1>. HIDE DEF x, m
<1>5. (((x + 1) % m) - 1) % m = x
  <2>. DEFINE z == x + 1
  <2>1. ((z % m) - 1) % m = (z - 1) % m
    <3>1. z \in Int /\ 1 \in Int
      BY <1>1
    <3>. HIDE DEF z
    <3>. QED
      BY <1>2, <3>1
  <2>2. (x + 1) - 1 = x /\ x % m = x
    BY <1>1
  <2>. QED
    BY <2>1, <2>2
<1>6. (((((x + 1) % m) + 1) % m) - 2) % m = x
  <2>. DEFINE y == (x + 1) % m
  <2>1. y \in Int
    BY <1>1
  <2>2. (((y + 1) % m) - 2) % m = ((y + 1) - 2) % m
    <3>. DEFINE z == y + 1
    <3>1. z \in Int /\ 2 \in Int
      BY <2>1
    <3>. HIDE DEF z
    <3>2. ((z % m) - 2) % m = (z - 2) % m
      BY <1>2, <3>1
    <3>. QED
      BY <3>2 DEF z
  <2>3. (y + 1) - 2 = y - 1
    BY <2>1
  <2>. QED
    BY <1>5, <2>2, <2>3
<1>. QED
  BY <1>4, <1>5, <1>6 DEF Before, After, x, m

-------------------------------------------------------------------------------
(* The word of the image that the program has at address a.                *)
At(a) == imem[InstrIndex(a)]

(* An exit has left EX: what is behind it never commits, and the latches   *)
(* it passed on no longer matter.                                          *)
Over == mem.bit_exit \/ wb.bit_exit

(* The control bits c are those of instruction i, and what is still        *)
(* latched in them does no harm.                                           *)
DecodedAs(c, i) ==
  /\ c = ControlUnit(c, i)
  /\ Links(i) => c.ALU_op = "ADD"
  /\ i.opcode = "DEFAULT" => ~c.MemWrite

HasLinks(p) == \E a \in DOMAIN p : Links(p[a])

DecodeMatches ==
  /\ control.valid => /\ instrDecode.instr = At(instrDecode.pc)
                      /\ DecodedAs(control, At(instrDecode.pc))
  /\ ~control.valid /\ HasLinks(imem)
       => control.ALU_op = "ADD"

ExecMatches ==
  exec.control.valid =>
    LET i == At(exec.pc)
    IN  /\ exec.rs1n = i.rs1 /\ exec.rs2n = i.rs2 /\ exec.rdn = i.rd
        /\ exec.mem_width = i.funct3 /\ exec.imm32 = Imm32(i)
        /\ DecodedAs(exec.control, i)

MemMatches ==
  mem.valid =>
    LET i == At(mem.pc)
    IN  /\ mem.rdn = i.rd /\ mem.mem_width = i.funct3
        /\ mem.bit_exit <=> i.opcode = "DEFAULT"
        /\ mem.MemWrite <=> i.opcode = "STORE"
        /\ i.opcode # "DEFAULT" =>
             /\ mem.MemToReg <=> i.opcode = "LOAD"
             /\ mem.RegWrite <=> WritesRegister(i)

WbMatches ==
  wb.valid => /\ wb.rdn = At(wb.pc).rd
              /\ wb.RegWrite <=> WritesRegister(At(wb.pc))

(* What neighbours are when there is a bubble between them: only a stall   *)
(* leaves one, and behind a redirect there are two.                        *)
InOrderAcrossBubble ==
  /\ exec.control.valid => control.valid
  /\ mem.valid /\ ~exec.control.valid /\ control.valid
       => instrDecode.pc = Wrap(mem.pc + 4)
  /\ wb.valid /\ ~mem.valid /\ exec.control.valid
       => exec.pc = Wrap(wb.pc + 4)

(* An operand read in ID is what the register holds, unless WB has just    *)
(* replaced it.                                                            *)
ReadInDecode(rn, val) ==
  /\ rn = 0 => val = 0
  /\ rn # 0 /\ ~(wb.RegWrite /\ wb.rdn = rn) => val = registers[rn]

OperandsRead ==
  /\ ReadInDecode(exec.rs1n, exec.rs1_val)
  /\ ReadInDecode(exec.rs2n, exec.rs2_val)

(* The value of register n in a register file.                             *)
ValueIn(regs, n) == IF n = 0 THEN 0 ELSE regs[n]

(* What instruction i at address a computes from a register file, as far   *)
(* as it shows in MEM.                                                     *)
Computes(i, a, regs) ==
  /\ i.opcode \in {"R_TYPE", "I_TYPE", "LUI", "AUIPC"} =>
       mem.ALUOut = ALUResult(OwnALUOp(i),
         IF i.opcode = "AUIPC" THEN a ELSE ValueIn(regs, i.rs1),
         IF i.opcode = "R_TYPE" THEN ValueIn(regs, i.rs2) ELSE i.imm)
  /\ i.opcode \in {"LOAD", "STORE"} =>
       mem.ALUOut = ALUResult("ADD", ValueIn(regs, i.rs1), i.imm)
  /\ i.opcode = "STORE" => mem.MemWriteData = ValueIn(regs, i.rs2)
  /\ Links(i) => mem.ALUOut = Wrap(a + 4)

(* The instruction in MEM has computed it from the registers that the      *)
(* instructions before it leave.                                           *)
MemComputed == mem.valid => Computes(At(mem.pc), mem.pc, ArchRegisters)

(* Where the program goes on after instruction i at address a.             *)
NextAddress(i, a, regs) ==
  LET compared == ALUResult(CompareOp(i.funct3), ValueIn(regs, i.rs1),
                            ValueIn(regs, i.rs2))
  IN  CASE i.opcode = "BRANCH" ->
             IF OwnInvert(i) # (compared # 0) THEN Wrap(a + i.imm) ELSE Wrap(a + 4)
        [] i.opcode = "JAL"  -> Wrap(a + i.imm)
        [] i.opcode = "JALR" -> Wrap(i.imm + ValueIn(regs, i.rs1))
        [] OTHER             -> Wrap(a + 4)

(* The oldest instruction behind MEM.                                      *)
BehindMem ==
  CASE exec.control.valid                   -> exec.pc
    [] ~exec.control.valid /\ control.valid -> instrDecode.pc
    [] OTHER                                -> pc

MemFollowed ==
  mem.valid => BehindMem = NextAddress(At(mem.pc), mem.pc, ArchRegisters)

RefinementInv ==
  /\ PipelineInv
  /\ imem \in Programs
  /\ RegistersSettled
  /\ OperandsRead
  /\ InOrderAcrossBubble
  /\ ~wb.bit_exit => MemMatches /\ MemComputed
  /\ ~Over => DecodeMatches /\ ExecMatches /\ WbMatches /\ MemFollowed

-------------------------------------------------------------------------------
(***************************************************************************)
(* What the contract makes of the latches of the control unit.             *)
(***************************************************************************)
(* Words that follow each other are decoded one after the other: the latch *)
(* of ALU_op holds an addition for a link, and an exit finds no store.     *)
LEMMA DecodedInOrder ==
  ASSUME NEW p \in Imem, Conforming(p), NEW b \in DOMAIN p,
         NEW held \in Control, DecodedAs(held, Before(p, b, 1))
  PROVE  DecodedAs(ControlUnit(held, p[b]), p[b])
<1>. DEFINE i == p[b]
            j == Before(p, b, 1)
            c == ControlUnit(held, i)
<1>1. i \in Instr /\ j \in Instr
  BY SizesAssumption DEF Imem, Before
<1>2. c = ControlUnit(c, i)
  BY <1>1, ControlUnitSettles
<1>3. Links(i) => c.ALU_op = "ADD"
  <2>. SUFFICES ASSUME Links(i) PROVE c.ALU_op = "ADD"
    OBVIOUS
  <2>1. SetsALUOp(j) /\ OwnALUOp(j) = "ADD"
    BY DEF Conforming, LinkAdds, Adds
  <2>2. j.opcode # "DEFAULT"
    BY <2>1 DEF SetsALUOp, IsCompare
  <2>3. held.ALU_op = "ADD"
    BY <1>1, <2>1, <2>2, SettledBits DEF DecodedAs
  <2>4. ~SetsALUOp(i) /\ i.opcode # "DEFAULT"
    BY DEF Links, SetsALUOp, IsCompare
  <2>. QED
    BY <2>3, <2>4 DEF ControlUnit, Decoded
<1>4. i.opcode = "DEFAULT" => ~c.MemWrite
  <2>. SUFFICES ASSUME i.opcode = "DEFAULT" PROVE ~c.MemWrite
    OBVIOUS
  <2>1. j.opcode # "STORE"
    BY DEF Conforming, ExitQuiet
  <2>2. ~held.MemWrite
    BY <1>1, <2>1, SettledBits DEF DecodedAs
  <2>. QED
    BY <2>2 DEF ControlUnit, Control
<1>. QED
  BY <1>2, <1>3, <1>4 DEF DecodedAs

(* So they do behind an empty slot.                                        *)
LEMMA DecodedAfterBubble ==
  ASSUME NEW p \in Imem, NEW b \in DOMAIN p, NEW held \in Control,
         Coherent(held), ~held.valid, HasLinks(p) => held.ALU_op = "ADD"
  PROVE  DecodedAs(ControlUnit(held, p[b]), p[b])
<1>. DEFINE i == p[b]
            c == ControlUnit(held, i)
<1>1. i \in Instr
  BY DEF Imem
<1>2. c = ControlUnit(c, i)
  BY <1>1, ControlUnitSettles
<1>3. Links(i) => c.ALU_op = "ADD"
  <2>. SUFFICES ASSUME Links(i) PROVE c.ALU_op = "ADD"
    OBVIOUS
  <2>1. held.ALU_op = "ADD"
    BY DEF HasLinks
  <2>2. ~SetsALUOp(i) /\ i.opcode # "DEFAULT"
    BY DEF Links, SetsALUOp, IsCompare
  <2>. QED
    BY <2>1, <2>2 DEF ControlUnit, Decoded
<1>4. i.opcode = "DEFAULT" => ~c.MemWrite
  BY DEF ControlUnit, Control, Coherent
<1>. QED
  BY <1>2, <1>3, <1>4 DEF DecodedAs

(* A redirect empties ID, but the word behind it has been decoded by then, *)
(* and what is left of it in the latches is an addition.                   *)
LEMMA FlushLeavesAddition ==
  ASSUME NEW p \in Imem, Conforming(p), HasLinks(p), NEW a \in DOMAIN p,
         Redirects(p[a]), NEW held \in Control, DecodedAs(held, After(p, a))
  PROVE  ControlUnit(held, ZeroInstr).ALU_op = "ADD"
<1>. DEFINE j == After(p, a)
<1>1. j \in Instr
  BY SizesAssumption DEF Imem, After
<1>2. SetsALUOp(j) /\ OwnALUOp(j) = "ADD"
  BY DEF Conforming, LinkAdds, Adds, HasLinks
<1>3. j.opcode # "DEFAULT"
  BY <1>2 DEF SetsALUOp, IsCompare
<1>4. held.ALU_op = "ADD"
  BY <1>1, <1>2, <1>3, SettledBits DEF DecodedAs
<1>. QED
  BY <1>4 DEF ControlUnit, Decoded, ZeroInstr, SetsALUOp, IsCompare

-------------------------------------------------------------------------------
(***************************************************************************)
(* One rising edge.                                                        *)
(***************************************************************************)

(* What the edge does to each stage, by what the hazard unit decided.      *)
LEMMA Edge ==
  ASSUME PipelineInv, PosEdge, ~wb.bit_exit
  PROVE  /\ ~(load_stall /\ BranchIsTaken)
         /\ load_stall => /\ exec.control.valid /\ exec.control.MemToReg
                          /\ exec' = EmptyExec
                          /\ instrDecode' = instrDecode /\ pc' = pc
         /\ BranchIsTaken => /\ exec.control.valid
                             /\ exec.control.Branch \/ exec.control.Jump
                             /\ exec' = EmptyExec
                             /\ instrDecode' = EmptyDecode /\ pc' = PCTarget
         /\ ~load_stall /\ ~BranchIsTaken =>
              /\ exec' = DecodedForExec
              /\ instrDecode' = [pc |-> pc, instr |-> Fetched]
              /\ pc' = Wrap(pc + 4)
         /\ control' = ControlUnit(control, instrDecode'.instr)
         /\ mem' = ExecutedForMem
         /\ wb'.pc = mem.pc /\ wb'.rdn = mem.rdn /\ wb'.ALUOut = mem.ALUOut
         /\ wb'.RegWrite = mem.RegWrite /\ wb'.MemToReg = mem.MemToReg
         /\ wb'.bit_exit = mem.bit_exit /\ wb'.valid = mem.valid
         /\ wb'.ReadData = ReadLanes(mem.mem_width, dmem[DataIndex(mem.ALUOut)])
         /\ registers' = registers /\ imem' = imem
<1>1. load_stall \in BOOLEAN /\ BranchIsTaken \in BOOLEAN /\ wb.bit_exit \in BOOLEAN
  BY SignalTypes DEF PipelineInv, TypeOK, WbSlot
<1>2. ~(load_stall /\ BranchIsTaken)
  BY CoherentExcludes DEF PipelineInv, StallExcludesRedirect
<1>3. load_stall => exec.control.valid /\ exec.control.MemToReg
  BY DEF PipelineInv, Coherent, load_stall, LoadStall
<1>4. BranchIsTaken => /\ exec.control.valid
                       /\ exec.control.Branch \/ exec.control.Jump
  BY DEF PipelineInv, Coherent, BranchIsTaken, BranchTaken
<1>5. /\ load_stall \/ BranchIsTaken => exec' = EmptyExec
      /\ ~load_stall /\ ~BranchIsTaken => exec' = DecodedForExec
  BY <1>1 DEF PosEdge, PipeReg_ex, Latched
<1>6. /\ load_stall => instrDecode' = instrDecode
      /\ BranchIsTaken => instrDecode' = EmptyDecode
      /\ ~load_stall /\ ~BranchIsTaken =>
           instrDecode' = [pc |-> pc, instr |-> Fetched]
  BY <1>1, <1>2 DEF PosEdge, PipeReg_instrDecode, Latched
<1>7. /\ load_stall => pc' = pc
      /\ BranchIsTaken => pc' = PCTarget
      /\ ~load_stall /\ ~BranchIsTaken => pc' = Wrap(pc + 4)
  BY <1>1, <1>2 DEF PosEdge, PCCounter
<1>8. mem' = ExecutedForMem
  BY <1>1 DEF PosEdge, PipeReg_mem, Latched
<1>9. /\ wb'.pc = mem.pc /\ wb'.rdn = mem.rdn /\ wb'.ALUOut = mem.ALUOut
      /\ wb'.RegWrite = mem.RegWrite /\ wb'.MemToReg = mem.MemToReg
      /\ wb'.bit_exit = mem.bit_exit /\ wb'.valid = mem.valid
      /\ wb'.ReadData = ReadLanes(mem.mem_width, dmem[DataIndex(mem.ALUOut)])
  BY <1>1 DEF PosEdge, PipeReg_wb, Latched
<1>. QED
  BY <1>2, <1>3, <1>4, <1>5, <1>6, <1>7, <1>8, <1>9 DEF PosEdge

(* While no exit is past EX, the instruction in EX and the one behind it   *)
(* are words of the image, decoded.                                        *)
LEMMA ExecWord ==
  ASSUME TypeOK, ExecMatches, exec.control.valid
  PROVE  LET i == At(exec.pc)
             c == exec.control
         IN  /\ i \in Instr /\ InstrIndex(exec.pc) \in DOMAIN imem
             /\ c \in Control /\ c = ControlUnit(c, i)
<1>1. exec.pc \in Word /\ exec.control \in Control
  BY DEF TypeOK, ExecSlot
<1>. QED
  BY <1>1, IndexType DEF TypeOK, Imem, At, ExecMatches, DecodedAs

(* Of the instructions in EX only branches and jumps redirect, and every   *)
(* jump does.                                                              *)
LEMMA RedirectingInstruction ==
  ASSUME TypeOK, ExecMatches, exec.control.valid, ~exec.control.bit_exit
  PROVE  /\ At(exec.pc).opcode # "DEFAULT"
         /\ BranchIsTaken => Redirects(At(exec.pc))
         /\ At(exec.pc).opcode \in {"JAL", "JALR"} => BranchIsTaken
         /\ At(exec.pc).opcode = "LOAD" <=> exec.control.MemToReg
<1>1. At(exec.pc).opcode # "DEFAULT"
  BY ExecWord, SettledBits
<1>2. /\ exec.control.Branch <=> At(exec.pc).opcode = "BRANCH"
      /\ exec.control.Jump <=> At(exec.pc).opcode \in {"JAL", "JALR"}
      /\ exec.control.MemToReg <=> At(exec.pc).opcode = "LOAD"
  BY <1>1, ExecWord, SettledBits
<1>. QED
  BY <1>1, <1>2 DEF BranchIsTaken, BranchTaken, Redirects

(* What ID fetches from a conforming image is an instruction.              *)
LEMMA FetchedIsInstruction ==
  ASSUME PipelineInv, PosEdge, ~wb.bit_exit, imem \in Programs, Conforming(imem),
         ~load_stall, ~BranchIsTaken
  PROVE  control'.valid
<1>1. InstrIndex(pc) \in DOMAIN imem
  BY IndexType DEF PipelineInv, TypeOK, Imem
<1>2. Fetched.opcode # "ZERO"
  BY <1>1 DEF Conforming, Decodable, Fetched
<1>3. instrDecode'.instr = Fetched
  BY Edge
<1>. QED
  BY <1>2, <1>3, PosEdgePipeline DEF PipelineInv, ValidMatchesOpcode

(* The words behind EX stay decoded: through a stall, behind a redirect    *)
(* and as the next one is fetched (ControlUnit.v:147-216).                 *)
LEMMA EdgeDecodes ==
  ASSUME PipelineInv, PosEdge, ~Over, imem \in Programs, Conforming(imem),
         DecodeMatches, ExecMatches, InOrderAcrossBubble,
         ~exec.control.bit_exit
  PROVE  DecodeMatches'
<1>1. PipelineInv' /\ TypeOK /\ TypeOK'
  BY PosEdgePipeline DEF PipelineInv
<1>2. /\ imem \in Imem /\ imem' = imem /\ control \in Control
      /\ instrDecode.pc \in Word /\ pc \in Word /\ exec.pc \in Word
  BY <1>1, Edge DEF TypeOK, DecodeSlot, ExecSlot, Over
<1>3. control' = ControlUnit(control, instrDecode'.instr)
  BY Edge DEF Over
<1>5. CASE load_stall
  <2>1. instrDecode' = instrDecode /\ exec.control.valid
    BY <1>5, Edge DEF Over
  <2>2. control.valid
    BY <2>1 DEF InOrderAcrossBubble
  <2>3. control' = control
    BY <1>3, <2>1, <2>2 DEF DecodeMatches, DecodedAs
  <2>. QED
    BY <1>2, <2>1, <2>3 DEF DecodeMatches, At
<1>6. CASE BranchIsTaken
  <2>1. instrDecode' = EmptyDecode /\ exec.control.valid
    BY <1>6, Edge DEF Over
  <2>2. ~control'.valid
    BY <1>1, <2>1 DEF PipelineInv, ValidMatchesOpcode, EmptyDecode, ZeroInstr
  <2>3. control.valid /\ instrDecode.pc = Wrap(exec.pc + 4)
    BY <2>1 DEF InOrderAcrossBubble, PipelineInv, InOrder
  <2>4. HasLinks(imem) => control'.ALU_op = "ADD"
    <3>1. DecodedAs(control, After(imem, InstrIndex(exec.pc)))
      BY <1>2, <2>3, EarlierWords DEF DecodeMatches, At
    <3>2. Redirects(imem[InstrIndex(exec.pc)]) /\ InstrIndex(exec.pc) \in DOMAIN imem
      BY <1>1, <1>6, <2>1, RedirectingInstruction, ExecWord DEF At
    <3>3. control' = ControlUnit(control, ZeroInstr)
      BY <1>3, <2>1 DEF EmptyDecode
    <3>. QED
      BY <1>2, <3>1, <3>2, <3>3, FlushLeavesAddition
  <2>. QED
    BY <1>2, <2>2, <2>4 DEF DecodeMatches
<1>7. CASE ~load_stall /\ ~BranchIsTaken
  <2>1. instrDecode' = [pc |-> pc, instr |-> Fetched]
    BY <1>7, Edge DEF Over
  <2>2. InstrIndex(pc) \in DOMAIN imem /\ Fetched = imem[InstrIndex(pc)]
    BY <1>2, IndexType DEF Imem, Fetched
  <2>3. control'.valid
    BY <1>7, FetchedIsInstruction DEF Over
  <2>4. DecodedAs(control', imem[InstrIndex(pc)])
    <3>1. control' = ControlUnit(control, imem[InstrIndex(pc)])
      BY <1>3, <2>1, <2>2
    <3>2. CASE control.valid
      <4>1. pc = Wrap(instrDecode.pc + 4)
        BY <3>2 DEF PipelineInv, InOrder
      <4>2. Before(imem, InstrIndex(pc), 1) = imem[InstrIndex(instrDecode.pc)]
        BY <1>2, <4>1, EarlierWords
      <4>3. DecodedAs(control, Before(imem, InstrIndex(pc), 1))
        BY <3>2, <4>2 DEF DecodeMatches, At
      <4>. QED
        BY <1>2, <2>2, <3>1, <4>3, DecodedInOrder
    <3>3. CASE ~control.valid
      <4>1. Coherent(control) /\ (HasLinks(imem) => control.ALU_op = "ADD")
        BY <3>3 DEF PipelineInv, DecodeMatches
      <4>. QED
        BY <1>2, <2>2, <3>1, <3>3, <4>1, DecodedAfterBubble
    <3>. QED
      BY <3>2, <3>3
  <2>. QED
    BY <1>2, <2>1, <2>2, <2>3, <2>4 DEF DecodeMatches, At
<1>. QED
  BY <1>5, <1>6, <1>7

(* A stall leaves one bubble between neighbours, and no other bubble comes *)
(* alone (Hazard.v:34-39, Simulator.v:88-118).                             *)
LEMMA EdgeAcrossBubble ==
  ASSUME PipelineInv, PosEdge, ~wb.bit_exit, imem \in Programs, Conforming(imem),
         InOrderAcrossBubble
  PROVE  InOrderAcrossBubble'
<1>1. /\ mem'.valid = exec.control.valid /\ mem'.pc = exec.pc
      /\ wb'.valid = mem.valid /\ wb'.pc = mem.pc
  BY Edge DEF ExecutedForMem
<1>2. CASE load_stall
  <2>1. /\ ~exec'.control.valid /\ instrDecode' = instrDecode
        /\ exec.control.valid /\ control.valid
    BY <1>2, Edge DEF EmptyExec, ZeroControl, InOrderAcrossBubble
  <2>2. instrDecode.pc = Wrap(exec.pc + 4)
    BY <2>1 DEF PipelineInv, InOrder
  <2>. QED
    BY <1>1, <2>1, <2>2 DEF InOrderAcrossBubble
<1>3. CASE BranchIsTaken
  <2>1. ~exec'.control.valid /\ instrDecode' = EmptyDecode
    BY <1>3, Edge DEF EmptyExec, ZeroControl
  <2>2. ~control'.valid
    BY <2>1, PosEdgePipeline
    DEF PipelineInv, ValidMatchesOpcode, EmptyDecode, ZeroInstr
  <2>. QED
    BY <2>1, <2>2 DEF InOrderAcrossBubble
<1>4. CASE ~load_stall /\ ~BranchIsTaken
  <2>1. exec'.control = control /\ exec'.pc = instrDecode.pc
    BY <1>4, Edge DEF DecodedForExec
  <2>2. control'.valid
    BY <1>4, FetchedIsInstruction
  <2>. QED
    BY <1>1, <2>1, <2>2 DEF InOrderAcrossBubble
<1>. QED
  BY <1>2, <1>3, <1>4

(* An operand is read from the register file of the moment.                *)
LEMMA EdgeReadsOperands ==
  ASSUME PipelineInv, PosEdge, ~wb.bit_exit
  PROVE  OperandsRead'
<1>1. exec' \in {EmptyExec, DecodedForExec} /\ registers' = registers
  BY Edge
<1>2. CASE exec' = EmptyExec
  BY <1>2 DEF EmptyExec, OperandsRead, ReadInDecode
<1>3. CASE exec' = DecodedForExec
  BY <1>1, <1>3 DEF DecodedForExec, OperandsRead, ReadInDecode, ReadRegister
<1>. QED
  BY <1>1, <1>2, <1>3

(* Each slot hands its instruction on (Simulator.v:94-150).                *)
LEMMA EdgeMovesMatches ==
  ASSUME PipelineInv, PosEdge, ~wb.bit_exit, imem \in Programs, Conforming(imem)
  PROVE  /\ DecodeMatches => ExecMatches'
         /\ ExecMatches => MemMatches'
         /\ MemMatches /\ ~mem.bit_exit => WbMatches'
<1>1. TypeOK /\ imem' = imem
  BY Edge DEF PipelineInv
<1>2. DecodeMatches => ExecMatches'
  <2>1. exec' \in {EmptyExec, DecodedForExec}
    BY Edge
  <2>2. exec' = EmptyExec => ~exec'.control.valid
    BY DEF EmptyExec, ZeroControl
  <2>. QED
    BY <1>1, <2>1, <2>2 DEF DecodeMatches, ExecMatches, DecodedForExec, At
<1>3. ASSUME ExecMatches
      PROVE  MemMatches'
  <2>. DEFINE i == At(exec.pc)
  <2>1. mem' = ExecutedForMem
    BY Edge
  <2>2. At(mem.pc)' = i
    BY <1>1, <2>1 DEF At, ExecutedForMem
  <2>. SUFFICES ASSUME exec.control.valid
                PROVE  MemMatches'
    BY <2>1 DEF MemMatches, ExecutedForMem
  <2>3. exec.rdn = i.rd /\ exec.mem_width = i.funct3
    BY <1>3 DEF ExecMatches
  <2>4. /\ exec.control.bit_exit <=> i.opcode = "DEFAULT"
        /\ i.opcode # "DEFAULT" =>
             /\ exec.control.MemToReg <=> i.opcode = "LOAD"
             /\ exec.control.MemWrite <=> i.opcode = "STORE"
             /\ exec.control.RegWrite <=> WritesRegister(i)
    BY <1>1, <1>3, ExecWord, SettledBits
  <2>5. i.opcode = "DEFAULT" => ~exec.control.MemWrite
    BY <1>3 DEF ExecMatches, DecodedAs
  <2>. QED
    BY <2>1, <2>2, <2>3, <2>4, <2>5 DEF MemMatches, ExecutedForMem
<1>4. MemMatches /\ ~mem.bit_exit => WbMatches'
  <2>1. wb'.pc = mem.pc /\ wb'.rdn = mem.rdn /\ wb'.RegWrite = mem.RegWrite
        /\ wb'.valid = mem.valid
    BY Edge
  <2>. QED
    BY <1>1, <2>1 DEF MemMatches, WbMatches, At
<1>. QED
  BY <1>2, <1>3, <1>4

-------------------------------------------------------------------------------
(***************************************************************************)
(* Operands.                                                               *)
(***************************************************************************)

(* What forwarding gives EX is the register as the instruction in MEM will *)
(* leave it (Simulator.v:121-131).                                         *)
LEMMA Forwarding ==
  ASSUME PipelineInv, PosEdge, ~wb.bit_exit, RegistersSettled,
         NEW rn \in Reg, NEW val \in Word, ReadInDecode(rn, val),
         mem.MemToReg => (rn # 0 => rn # mem.rdn)
  PROVE  Forwarded(rn, val) = ValueIn(ArchRegisters', rn)
<1>1. /\ wb'.rdn = mem.rdn /\ wb'.ALUOut = mem.ALUOut
      /\ wb'.RegWrite = mem.RegWrite /\ wb'.MemToReg = mem.MemToReg
      /\ registers' = registers
  BY Edge
<1>2. registers = ArchRegisters
  BY DEF RegistersSettled, PosEdge
<1>3. registers \in [Reg -> Word] /\ wb.rdn \in Reg /\ mem.rdn \in Reg
      /\ mem.RegWrite \in BOOLEAN /\ wb.RegWrite \in BOOLEAN
  BY DEF PipelineInv, TypeOK, WbSlot, MemSlot
<1>4. ValueIn(ArchRegisters', rn) = IF rn = 0 THEN 0 ELSE ArchRegisters'[rn]
  BY DEF ValueIn
<1>5. CASE rn = 0
  BY <1>4, <1>5 DEF Forwarded, ForwardSrc, ReadInDecode
<1>6. CASE rn # 0 /\ mem.RegWrite /\ mem.rdn = rn
  <2>1. Forwarded(rn, val) = mem.ALUOut
    BY <1>6 DEF Forwarded, ForwardSrc
  <2>2. Result_WB' = mem.ALUOut
    BY <1>1, <1>6 DEF Result_WB
  <2>3. ArchRegisters' = [registers EXCEPT ![rn] = mem.ALUOut]
    BY <1>1, <1>6, <2>2 DEF ArchRegisters
  <2>. QED
    BY <1>3, <1>4, <1>6, <2>1, <2>3
<1>7. CASE rn # 0 /\ ~(mem.RegWrite /\ mem.rdn = rn)
  <2>1. ArchRegisters'[rn] = registers[rn]
    BY <1>1, <1>3, <1>7 DEF ArchRegisters
  <2>2. CASE wb.RegWrite /\ wb.rdn = rn
    <3>1. Forwarded(rn, val) = Result_WB
      BY <1>7, <2>2 DEF Forwarded, ForwardSrc
    <3>2. ArchRegisters[rn] = Result_WB
      BY <1>3, <1>7, <2>2 DEF ArchRegisters
    <3>. QED
      BY <1>2, <1>4, <1>7, <2>1, <3>1, <3>2
  <2>3. CASE ~(wb.RegWrite /\ wb.rdn = rn)
    <3>1. Forwarded(rn, val) = val
      BY <1>7, <2>3 DEF Forwarded, ForwardSrc
    <3>. QED
      BY <1>4, <1>7, <2>1, <2>3, <3>1 DEF ReadInDecode
  <2>. QED
    BY <2>2, <2>3
<1>. QED
  BY <1>3, <1>5, <1>6, <1>7

(* Both operands at once.                                                  *)
LEMMA ForwardedOperands ==
  ASSUME PipelineInv, PosEdge, ~wb.bit_exit, RegistersSettled, OperandsRead
  PROVE  /\ rs1_val_forwarded = ValueIn(ArchRegisters', exec.rs1n)
         /\ rs2_val_forwarded = ValueIn(ArchRegisters', exec.rs2n)
<1>1. /\ exec.rs1n \in Reg /\ exec.rs1_val \in Word
      /\ exec.rs2n \in Reg /\ exec.rs2_val \in Word
  BY DEF PipelineInv, TypeOK, ExecSlot
<1>2. ReadInDecode(exec.rs1n, exec.rs1_val) /\ ReadInDecode(exec.rs2n, exec.rs2_val)
  BY DEF OperandsRead
<1>3. mem.MemToReg => /\ exec.rs1n # 0 => exec.rs1n # mem.rdn
                      /\ exec.rs2n # 0 => exec.rs2n # mem.rdn
  BY DEF PipelineInv, LoadNotRead
<1>. QED
  BY <1>1, <1>2, <1>3, Forwarding DEF rs1_val_forwarded, rs2_val_forwarded

(* What the instruction in EX hands to MEM is what the instruction set     *)
(* says of it, for the registers as the one before it leaves them          *)
(* (Simulator.v:133-150).                                                  *)
LEMMA EdgeComputes ==
  ASSUME PipelineInv, PosEdge, ~wb.bit_exit, RegistersSettled, OperandsRead,
         ExecMatches
  PROVE  MemComputed'
<1>. DEFINE i == At(exec.pc)
            c == exec.control
<1>1. mem' = ExecutedForMem /\ imem' = imem /\ TypeOK
  BY Edge DEF PipelineInv
<1>2. mem'.valid = c.valid /\ mem'.pc = exec.pc /\ mem'.ALUOut = ALUOut_exec
      /\ mem'.MemWriteData = rs2_val_forwarded
  BY <1>1 DEF ExecutedForMem
<1>3. At(mem.pc)' = i
  BY <1>1, <1>2 DEF At
<1>. SUFFICES ASSUME c.valid
              PROVE  MemComputed'
  BY <1>2 DEF MemComputed
<1>4. /\ i \in Instr /\ c \in Control /\ c = ControlUnit(c, i)
      /\ i.rs1 \in Reg /\ i.rs2 \in Reg /\ exec.pc \in Word
  BY <1>1, ExecWord DEF Instr, TypeOK, ExecSlot
<1>5. /\ rs1_val_forwarded = ValueIn(ArchRegisters', i.rs1)
      /\ rs2_val_forwarded = ValueIn(ArchRegisters', i.rs2)
  BY <1>4, ForwardedOperands DEF ExecMatches
<1>6. exec.imm32 = Imm32(i)
  BY DEF ExecMatches
<1>7. i.opcode # "DEFAULT" => /\ c.ALUSrc1 = OwnALUSrc1(i)
                              /\ c.ALUSrc2 = OwnALUSrc2(i)
                              /\ SetsALUOp(i) => c.ALU_op = OwnALUOp(i)
  BY <1>4, SettledBits
<1>. HIDE DEF i, c
<1>8. ASSUME i.opcode \in {"R_TYPE", "I_TYPE", "LUI", "AUIPC"}
      PROVE  ALUOut_exec =
               ALUResult(OwnALUOp(i),
                 IF i.opcode = "AUIPC" THEN exec.pc ELSE ValueIn(ArchRegisters', i.rs1),
                 IF i.opcode = "R_TYPE" THEN ValueIn(ArchRegisters', i.rs2) ELSE i.imm)
  <2>1. /\ c.ALU_op = OwnALUOp(i)
        /\ c.ALUSrc1 = IF i.opcode = "AUIPC" THEN "pc" ELSE "rs1"
        /\ c.ALUSrc2 = IF i.opcode = "R_TYPE" THEN "rs2" ELSE "imm"
        /\ i.opcode # "R_TYPE" => exec.imm32 = i.imm
    BY <1>6, <1>7, <1>8 DEF SetsALUOp, OwnALUSrc1, OwnALUSrc2, Imm32
  <2>2. ALUSrc1_val = IF i.opcode = "AUIPC" THEN exec.pc ELSE ValueIn(ArchRegisters', i.rs1)
    BY <1>5, <2>1 DEF ALUSrc1_val, c
  <2>3. ALUSrc2_val = IF i.opcode = "R_TYPE" THEN ValueIn(ArchRegisters', i.rs2) ELSE i.imm
    BY <1>5, <2>1 DEF ALUSrc2_val, c
  <2>. QED
    BY <2>1, <2>2, <2>3 DEF ALUOut_exec, c
<1>9. ASSUME i.opcode \in {"LOAD", "STORE"}
      PROVE  ALUOut_exec = ALUResult("ADD", ValueIn(ArchRegisters', i.rs1), i.imm)
  <2>1. /\ c.ALU_op = "ADD" /\ c.ALUSrc1 = "rs1" /\ c.ALUSrc2 = "imm"
        /\ exec.imm32 = i.imm
    BY <1>6, <1>7, <1>9 DEF SetsALUOp, OwnALUOp, OwnALUSrc1, OwnALUSrc2, Imm32
  <2>. QED
    BY <1>5, <2>1 DEF ALUOut_exec, ALUSrc1_val, ALUSrc2_val, c
<1>10. ASSUME Links(i)
       PROVE  ALUOut_exec = Wrap(exec.pc + 4)
  <2>1. c.ALUSrc1 = "pc" /\ c.ALUSrc2 = "four"
    BY <1>7, <1>10 DEF OwnALUSrc1, OwnALUSrc2, Links
  <2>2. c.ALU_op = "ADD"
    BY <1>10 DEF ExecMatches, DecodedAs, i, c
  <2>3. ALUOut_exec = ALUResult("ADD", exec.pc, 4)
    BY <2>1, <2>2 DEF ALUOut_exec, ALUSrc1_val, ALUSrc2_val, c
  <2>4. 4 \in Word
    BY SizesAssumption DEF Word
  <2>. QED
    BY <1>4, <2>3, <2>4, AdderAssumption
<1>. QED
  BY <1>2, <1>3, <1>5, <1>8, <1>9, <1>10 DEF MemComputed, Computes

-------------------------------------------------------------------------------
(***************************************************************************)
(* Control flow.                                                           *)
(***************************************************************************)

(* The base of a jump through a register, which is not forwarded, is the   *)
(* register's value all the same: neither of the two words before the jump *)
(* writes it, and what MEM and WB hold is one of them or nothing           *)
(* (Simulator.v:83).                                                       *)
LEMMA BaseIsCurrent ==
  ASSUME PipelineInv, PosEdge, ~Over, imem \in Programs, Conforming(imem),
         RegistersSettled, OperandsRead, InOrderAcrossBubble,
         ExecMatches, MemMatches, WbMatches,
         exec.control.valid, At(exec.pc).opcode = "JALR"
  PROVE  exec.rs1_val = ValueIn(ArchRegisters', exec.rs1n)
<1>. DEFINE rn == exec.rs1n
            x == InstrIndex(exec.pc)
<1>1. /\ TypeOK /\ exec.pc \in Word /\ mem.pc \in Word /\ wb.pc \in Word
      /\ rn \in Reg /\ ReadInDecode(rn, exec.rs1_val)
  BY DEF PipelineInv, TypeOK, ExecSlot, MemSlot, WbSlot, OperandsRead
<1>2. rn = imem[x].rs1 /\ x \in DOMAIN imem
  BY <1>1, ExecWord DEF ExecMatches, At
<1>3. rn # 0 => ~Writes(Before(imem, x, 1), rn) /\ ~Writes(Before(imem, x, 2), rn)
  BY <1>2 DEF Conforming, BaseSettled, At
<1>4. CASE rn = 0
  BY <1>1, <1>4 DEF ReadInDecode, ValueIn
<1>5. CASE rn # 0
  <2>1. ~(mem.RegWrite /\ mem.rdn = rn)
    <3>1. CASE mem.valid
      <4>1. exec.pc = Wrap(mem.pc + 4)
        BY <3>1 DEF PipelineInv, InOrder
      <4>2. Before(imem, x, 1) = At(mem.pc)
        BY <1>1, <4>1, EarlierWords DEF At
      <4>3. mem.rdn = At(mem.pc).rd /\ (mem.RegWrite <=> WritesRegister(At(mem.pc)))
        BY <3>1 DEF MemMatches, Over
      <4>. QED
        BY <1>3, <1>5, <4>2, <4>3 DEF Writes
    <3>2. CASE ~mem.valid
      BY <3>2 DEF PipelineInv, EmptySlotsInert
    <3>. QED
      BY <3>1, <3>2
  <2>2. ~(wb.RegWrite /\ wb.rdn = rn)
    <3>1. CASE wb.valid
      <4>1. \E k \in 1 .. 2 : Before(imem, x, k) = At(wb.pc)
        <5>1. CASE mem.valid
          <6>1. exec.pc = Wrap(Wrap(wb.pc + 4) + 4)
            BY <3>1, <5>1 DEF PipelineInv, InOrder
          <6>. QED
            BY <1>1, <6>1, EarlierWords DEF At
        <5>2. CASE ~mem.valid
          <6>1. exec.pc = Wrap(wb.pc + 4)
            BY <3>1, <5>2 DEF InOrderAcrossBubble
          <6>. QED
            BY <1>1, <6>1, EarlierWords DEF At
        <5>. QED
          BY <5>1, <5>2
      <4>2. wb.rdn = At(wb.pc).rd /\ (wb.RegWrite <=> WritesRegister(At(wb.pc)))
        BY <3>1 DEF WbMatches
      <4>3. ~Writes(At(wb.pc), rn)
        BY <1>3, <1>5, <4>1
      <4>. QED
        BY <4>2, <4>3 DEF Writes
    <3>2. CASE ~wb.valid
      BY <3>2 DEF PipelineInv, EmptySlotsInert
    <3>. QED
      BY <3>1, <3>2
  <2>3. rs1_val_forwarded = exec.rs1_val
    BY <2>1, <2>2 DEF rs1_val_forwarded, Forwarded, ForwardSrc
  <2>. QED
    BY <2>3, ForwardedOperands DEF Over
<1>. QED
  BY <1>4, <1>5

(* A redirect goes where the program goes on, and what is not redirected   *)
(* goes on with the next word (PCCounter.v:14-24, Hazard.v:36).            *)
LEMMA TargetIsNext ==
  ASSUME PipelineInv, PosEdge, ~Over, imem \in Programs, Conforming(imem),
         RegistersSettled, OperandsRead, InOrderAcrossBubble,
         ExecMatches, MemMatches, WbMatches,
         exec.control.valid, ~exec.control.bit_exit
  PROVE  NextAddress(At(exec.pc), exec.pc, ArchRegisters') =
           IF BranchIsTaken THEN PCTarget ELSE Wrap(exec.pc + 4)
<1>. DEFINE i == At(exec.pc)
            c == exec.control
<1>1. TypeOK
  BY DEF PipelineInv
<1>2. /\ i \in Instr /\ c \in Control /\ c = ControlUnit(c, i)
      /\ i.opcode # "DEFAULT" /\ InstrIndex(exec.pc) \in DOMAIN imem
  BY <1>1, ExecWord, RedirectingInstruction
<1>3. /\ c.Branch <=> i.opcode = "BRANCH"
      /\ c.Jump <=> i.opcode \in {"JAL", "JALR"}
      /\ c.NextPC = OwnNextPC(i)
      /\ c.ALUSrc1 = OwnALUSrc1(i) /\ c.ALUSrc2 = OwnALUSrc2(i)
      /\ SetsALUOp(i) => c.ALU_op = OwnALUOp(i)
      /\ IsCompare(i) => (c.InvertBranchTriger <=> OwnInvert(i))
  BY <1>2, SettledBits
<1>4. /\ exec.imm32 = Imm32(i)
      /\ rs1_val_forwarded = ValueIn(ArchRegisters', i.rs1)
      /\ rs2_val_forwarded = ValueIn(ArchRegisters', i.rs2)
  BY ForwardedOperands DEF ExecMatches, Over
<1>5. i.opcode = "JALR" => exec.rs1_val = ValueIn(ArchRegisters', i.rs1)
  BY BaseIsCurrent DEF ExecMatches
<1>6. i.opcode = "BRANCH" => IsCompare(i)
  BY <1>2 DEF Conforming, Decodable, At
<1>. HIDE DEF i, c
<1>7. CASE i.opcode = "BRANCH"
  <2>1. /\ c.ALU_op = CompareOp(i.funct3) /\ c.ALUSrc1 = "rs1" /\ c.ALUSrc2 = "rs2"
        /\ c.NextPC = "pcImm" /\ exec.imm32 = i.imm
    BY <1>3, <1>4, <1>6, <1>7
    DEF SetsALUOp, OwnALUOp, OwnALUSrc1, OwnALUSrc2, OwnNextPC, Imm32
  <2>2. ALUOut_exec = ALUResult(CompareOp(i.funct3), ValueIn(ArchRegisters', i.rs1),
                                ValueIn(ArchRegisters', i.rs2))
    BY <1>4, <2>1 DEF ALUOut_exec, ALUSrc1_val, ALUSrc2_val, c
  <2>3. BranchIsTaken <=> (OwnInvert(i) # (ALUOut_exec # 0))
    <3>1. c.InvertBranchTriger \in BOOLEAN /\ OwnInvert(i) \in BOOLEAN
      BY <1>2 DEF Control, OwnInvert
    <3>2. c.InvertBranchTriger = OwnInvert(i)
      BY <1>3, <1>6, <1>7, <3>1
    <3>3. c.Branch /\ ~c.Jump
      BY <1>3, <1>7
    <3>. QED
      BY <3>2, <3>3 DEF BranchIsTaken, BranchTaken, c
  <2>4. PCTarget = Wrap(exec.pc + i.imm)
    BY <2>1 DEF PCTarget, c
  <2>. QED
    BY <1>7, <2>2, <2>3, <2>4 DEF NextAddress, i
<1>8. CASE i.opcode \in {"JAL", "JALR"}
  <2>1. BranchIsTaken
    BY <1>3, <1>8 DEF BranchIsTaken, BranchTaken, c
  <2>2. /\ exec.imm32 = i.imm
        /\ c.NextPC = IF i.opcode = "JAL" THEN "pcImm" ELSE "rs1Imm"
    BY <1>3, <1>4, <1>8 DEF OwnNextPC, Imm32
  <2>3. PCTarget = IF i.opcode = "JAL" THEN Wrap(exec.pc + i.imm)
                   ELSE Wrap(i.imm + exec.rs1_val)
    BY <2>2 DEF PCTarget, c
  <2>. QED
    BY <1>5, <1>8, <2>1, <2>3 DEF NextAddress, i
<1>9. CASE i.opcode \notin {"BRANCH", "JAL", "JALR"}
  <2>1. ~BranchIsTaken
    BY <1>3, <1>9 DEF BranchIsTaken, BranchTaken, c
  <2>. QED
    BY <1>9, <2>1 DEF NextAddress, i
<1>. QED
  BY <1>7, <1>8, <1>9

(* Where the pipeline goes on is where the program does.                   *)
LEMMA EdgeFollows ==
  ASSUME PipelineInv, PosEdge, ~Over, imem \in Programs, Conforming(imem),
         RegistersSettled, OperandsRead, InOrderAcrossBubble,
         ExecMatches, MemMatches, WbMatches, ~exec.control.bit_exit
  PROVE  MemFollowed'
<1>1. mem'.valid = exec.control.valid /\ mem'.pc = exec.pc /\ imem' = imem
  BY Edge DEF Over, ExecutedForMem
<1>2. At(mem.pc)' = At(exec.pc)
  BY <1>1 DEF At
<1>. SUFFICES ASSUME exec.control.valid
              PROVE  BehindMem' = IF BranchIsTaken THEN PCTarget
                                  ELSE Wrap(exec.pc + 4)
  BY <1>1, <1>2, TargetIsNext DEF MemFollowed
<1>3. control.valid /\ instrDecode.pc = Wrap(exec.pc + 4)
  BY DEF InOrderAcrossBubble, PipelineInv, InOrder
<1>4. CASE load_stall
  <2>1. ~exec'.control.valid /\ instrDecode' = instrDecode /\ ~BranchIsTaken
    BY <1>4, Edge DEF Over, EmptyExec, ZeroControl
  <2>2. control'.valid
    BY <1>3, <2>1, PosEdgePipeline DEF PipelineInv, ValidMatchesOpcode
  <2>. QED
    BY <1>3, <2>1, <2>2 DEF BehindMem
<1>5. CASE BranchIsTaken
  <2>1. ~exec'.control.valid /\ instrDecode' = EmptyDecode /\ pc' = PCTarget
    BY <1>5, Edge DEF Over, EmptyExec, ZeroControl
  <2>2. ~control'.valid
    BY <2>1, PosEdgePipeline
    DEF PipelineInv, ValidMatchesOpcode, EmptyDecode, ZeroInstr
  <2>. QED
    BY <1>5, <2>1, <2>2 DEF BehindMem
<1>6. CASE ~load_stall /\ ~BranchIsTaken
  <2>1. exec' = DecodedForExec
    BY <1>6, Edge DEF Over
  <2>. QED
    BY <1>3, <1>6, <2>1 DEF BehindMem, DecodedForExec
<1>. QED
  BY <1>4, <1>5, <1>6

-------------------------------------------------------------------------------
(***************************************************************************)
(* Commitment: the edge that moves an instruction from MEM to WB is its    *)
(* step of the abstract machine, and no other edge is one.                 *)
(***************************************************************************)

(* The definitions that Isa shares with the pipeline.                      *)
LEMMA SameTables ==
  ASSUME NEW i
  PROVE  /\ Arch!OwnALUOp(i) = OwnALUOp(i)
         /\ Arch!CompareOp(i.funct3) = CompareOp(i.funct3)
         /\ Arch!OwnInvert(i) = OwnInvert(i)
         /\ Arch!IsCompare(i) = IsCompare(i)
         /\ \A w, o, d : /\ Arch!ReadLanes(w, o) = ReadLanes(w, o)
                         /\ Arch!WriteLanes(w, o, d) = WriteLanes(w, o, d)
         /\ \A a : /\ Arch!InstrIndex(a) = InstrIndex(a)
                   /\ Arch!DataIndex(a) = DataIndex(a)
                   /\ Arch!Wrap(a) = Wrap(a)
         /\ \A n : Arch!Value(n) = ValueIn(ArchRegisters, n)
<1>1. /\ Arch!CompareOp(i.funct3) = CompareOp(i.funct3)
      /\ Arch!OwnInvert(i) = OwnInvert(i)
      /\ Arch!IsCompare(i) = IsCompare(i)
  BY DEF Arch!CompareOp, CompareOp, Arch!OwnInvert, OwnInvert, Arch!IsCompare,
         IsCompare
<1>2. \A f, alt : Arch!ArithmeticOp(f, alt) = ArithmeticOp(f, alt)
  BY DEF Arch!ArithmeticOp, ArithmeticOp
<1>3. Arch!OwnALUOp(i) = OwnALUOp(i)
  BY <1>1, <1>2 DEF Arch!OwnALUOp, OwnALUOp
<1>4. /\ \A w : /\ Arch!IsHalf(w) = IsHalf(w) /\ Arch!IsWord(w) = IsWord(w)
                /\ Arch!ToExtend(w) = ToExtend(w)
      /\ \A w, m, s : Arch!Extend(w, m, s) = Extend(w, m, s)
      /\ \A o, d, m : Arch!Merge(o, d, m) = Merge(o, d, m)
  BY DEF Arch!IsHalf, IsHalf, Arch!IsWord, IsWord, Arch!ToExtend, ToExtend,
         Arch!Extend, Extend, Arch!Merge, Merge
<1>5. \A w, o, d : /\ Arch!ReadLanes(w, o) = ReadLanes(w, o)
                   /\ Arch!WriteLanes(w, o, d) = WriteLanes(w, o, d)
  BY <1>4 DEF Arch!ReadLanes, ReadLanes, Arch!WriteLanes, WriteLanes
<1>6. \A a : /\ Arch!InstrIndex(a) = InstrIndex(a)
             /\ Arch!DataIndex(a) = DataIndex(a)
             /\ Arch!Wrap(a) = Wrap(a)
  BY DEF Arch!InstrIndex, InstrIndex, Arch!DataIndex, DataIndex, Arch!Wrap, Wrap
<1>7. \A n : Arch!Value(n) = ValueIn(ArchRegisters, n)
  BY DEF Arch!Value, ValueIn
<1>. QED
  BY <1>1, <1>3, <1>5, <1>6, <1>7

(* The oldest instruction that has not committed, before and after.        *)
LEMMA EdgeMovesArchPC ==
  ASSUME PipelineInv, PosEdge, ~wb.bit_exit, imem \in Programs, Conforming(imem)
  PROVE  /\ ArchPC  = IF mem.valid THEN mem.pc ELSE BehindMem
         /\ ArchPC' = IF mem.bit_exit THEN mem.pc ELSE BehindMem
<1>1. /\ mem'.valid = exec.control.valid /\ mem'.pc = exec.pc
      /\ wb'.bit_exit = mem.bit_exit /\ wb'.pc = mem.pc
  BY Edge DEF ExecutedForMem
<1>2. /\ mem.valid \in BOOLEAN /\ exec.control.valid \in BOOLEAN
      /\ control.valid \in BOOLEAN /\ mem.bit_exit \in BOOLEAN
  BY DEF PipelineInv, TypeOK, MemSlot, ExecSlot, Control
<1>3. ArchPC = IF mem.valid THEN mem.pc ELSE BehindMem
  BY <1>2 DEF ArchPC, BehindMem
<1>4. CASE mem.bit_exit
  BY <1>1, <1>4 DEF ArchPC, BehindMem
<1>5. CASE ~mem.bit_exit /\ exec.control.valid
  BY <1>1, <1>5 DEF ArchPC, BehindMem
<1>6. CASE ~mem.bit_exit /\ ~exec.control.valid
  <2>1. ~load_stall /\ ~BranchIsTaken
    BY <1>6, Edge
  <2>2. exec'.control = control /\ exec'.pc = instrDecode.pc /\ instrDecode'.pc = pc
    BY <2>1, Edge DEF DecodedForExec
  <2>3. control'.valid
    BY <2>1, FetchedIsInstruction
  <2>. QED
    BY <1>1, <1>2, <1>6, <2>2, <2>3 DEF ArchPC, BehindMem
<1>7. ArchPC' = IF mem.bit_exit THEN mem.pc ELSE BehindMem
  BY <1>2, <1>4, <1>5, <1>6
<1>. QED
  BY <1>3, <1>7

(* What MEM writes to a register counts as written once it is in WB.       *)
LEMMA EdgeCommitsRegister ==
  ASSUME PipelineInv, PosEdge, ~wb.bit_exit, RegistersSettled
  PROVE  ArchRegisters' =
           IF mem.RegWrite /\ mem.rdn # 0
           THEN [ArchRegisters EXCEPT ![mem.rdn] =
                   IF mem.MemToReg
                   THEN ReadLanes(mem.mem_width, dmem[DataIndex(mem.ALUOut)])
                   ELSE mem.ALUOut]
           ELSE ArchRegisters
<1>1. registers' = registers /\ registers = ArchRegisters
  BY DEF PosEdge, RegistersSettled
<1>2. /\ wb'.RegWrite = mem.RegWrite /\ wb'.rdn = mem.rdn
      /\ wb'.MemToReg = mem.MemToReg /\ wb'.ALUOut = mem.ALUOut
      /\ wb'.ReadData = ReadLanes(mem.mem_width, dmem[DataIndex(mem.ALUOut)])
  BY Edge
<1>3. Result_WB' = IF mem.MemToReg
                   THEN ReadLanes(mem.mem_width, dmem[DataIndex(mem.ALUOut)])
                   ELSE mem.ALUOut
  BY <1>2 DEF Result_WB
<1>4. ArchRegisters' = IF wb'.RegWrite /\ wb'.rdn # 0
                       THEN [registers' EXCEPT ![wb'.rdn] = Result_WB']
                       ELSE registers'
  BY DEF ArchRegisters
<1>. QED
  BY <1>1, <1>2, <1>3, <1>4

(* What leaves MEM is a step of the abstract machine.                      *)
LEMMA EdgeCommits ==
  ASSUME PipelineInv, PosEdge, ~wb.bit_exit, imem \in Programs, Conforming(imem),
         RegistersSettled, MemMatches, MemComputed, ~mem.bit_exit => MemFollowed
  PROVE  /\ mem.valid => Arch!Step
         /\ ~mem.valid => UNCHANGED Arch!archVars
<1>. DEFINE i == At(mem.pc)
<1>1. imem' = imem /\ wb'.bit_exit = mem.bit_exit
  BY Edge
<1>2. /\ ArchPC  = IF mem.valid THEN mem.pc ELSE BehindMem
      /\ ArchPC' = IF mem.bit_exit THEN mem.pc ELSE BehindMem
  BY EdgeMovesArchPC
<1>3. dmem' = IF mem.MemWrite
              THEN [dmem EXCEPT ![DataIndex(mem.ALUOut)] =
                      WriteLanes(mem.mem_width, @, mem.MemWriteData)]
              ELSE dmem
  BY DEF PosEdge, WriteMemory
<1>4. ASSUME ~mem.valid
      PROVE  UNCHANGED Arch!archVars
  <2>1. ~mem.MemWrite /\ ~mem.RegWrite /\ ~mem.bit_exit
    BY <1>4 DEF PipelineInv, EmptySlotsInert
  <2>2. mem.bit_exit = FALSE /\ wb.bit_exit = FALSE
    BY <2>1 DEF PipelineInv, TypeOK, MemSlot, WbSlot
  <2>3. ArchRegisters' = ArchRegisters /\ dmem' = dmem /\ ArchPC' = ArchPC
    BY <1>2, <1>3, <1>4, <2>1, EdgeCommitsRegister
  <2>. QED
    BY <1>1, <2>2, <2>3 DEF Arch!archVars
<1>5. ASSUME mem.valid
      PROVE  Arch!Step
  <2>1. /\ i \in Instr /\ InstrIndex(mem.pc) \in DOMAIN imem
    BY IndexType DEF PipelineInv, TypeOK, MemSlot, Imem, At
  <2>2. /\ Arch!Current = i /\ ArchPC = mem.pc
    BY <1>2, <1>5, SameTables DEF Arch!Current, At
  <2>3. /\ mem.rdn = i.rd /\ mem.mem_width = i.funct3
        /\ mem.bit_exit <=> i.opcode = "DEFAULT"
        /\ mem.MemWrite <=> i.opcode = "STORE"
        /\ i.opcode # "DEFAULT" =>
             /\ mem.MemToReg <=> i.opcode = "LOAD"
             /\ mem.RegWrite <=> WritesRegister(i)
    BY <1>5 DEF MemMatches
  <2>4. Computes(i, mem.pc, ArchRegisters)
    BY <1>5 DEF MemComputed
  <2>5. i.opcode # "DEFAULT" => ArchPC' = NextAddress(i, mem.pc, ArchRegisters)
    BY <1>2, <1>5, <2>3 DEF MemFollowed
  <2>6. /\ i.opcode # "ZERO" /\ (i.opcode = "BRANCH" => IsCompare(i))
        /\ i.opcode = "DEFAULT" => i.rd = 0
    BY <2>1 DEF Conforming, Decodable, ExitQuiet, At
  <2>7. i.opcode # "DEFAULT" => wb'.bit_exit = wb.bit_exit
    BY <1>1, <2>3 DEF PipelineInv, TypeOK, MemSlot, WbSlot
  <2>8. ArchRegisters' =
          IF mem.RegWrite /\ mem.rdn # 0
          THEN [ArchRegisters EXCEPT ![mem.rdn] =
                  IF mem.MemToReg
                  THEN ReadLanes(mem.mem_width, dmem[DataIndex(mem.ALUOut)])
                  ELSE mem.ALUOut]
          ELSE ArchRegisters
    BY EdgeCommitsRegister
  <2>. HIDE DEF i
  <2>9. CASE i.opcode \in {"R_TYPE", "I_TYPE", "LUI", "AUIPC"}
    <3>1. ArchRegisters' = IF i.rd = 0 THEN ArchRegisters
                           ELSE [ArchRegisters EXCEPT ![i.rd] = mem.ALUOut]
      BY <2>3, <2>8, <2>9 DEF WritesRegister
    <3>2. mem.ALUOut = ALUResult(OwnALUOp(i),
            IF i.opcode = "AUIPC" THEN mem.pc ELSE ValueIn(ArchRegisters, i.rs1),
            IF i.opcode = "R_TYPE" THEN ValueIn(ArchRegisters, i.rs2) ELSE i.imm)
      BY <2>4, <2>9 DEF Computes
    <3>3. ArchPC' = Wrap(mem.pc + 4) /\ dmem' = dmem
      BY <1>3, <2>3, <2>5, <2>9 DEF NextAddress
    <3>4. Arch!Operate(i)
      BY <2>2, <2>7, <2>9, <3>1, <3>2, <3>3, SameTables DEF Arch!Operate, Arch!Write
    <3>. QED
      BY <1>1, <2>2, <3>4 DEF Arch!Step
  <2>10. CASE i.opcode = "LOAD"
    <3>1. ArchRegisters' = IF i.rd = 0 THEN ArchRegisters
                           ELSE [ArchRegisters EXCEPT ![i.rd] =
                                   ReadLanes(i.funct3, dmem[DataIndex(mem.ALUOut)])]
      BY <2>3, <2>8, <2>10 DEF WritesRegister
    <3>2. mem.ALUOut = Arch!Address(i)
      BY <2>4, <2>10, SameTables DEF Computes, Arch!Address
    <3>3. ArchPC' = Wrap(mem.pc + 4) /\ dmem' = dmem
      BY <1>3, <2>3, <2>5, <2>10 DEF NextAddress
    <3>4. Arch!Load(i)
      BY <2>2, <2>7, <2>10, <3>1, <3>2, <3>3, SameTables DEF Arch!Load, Arch!Write
    <3>. QED
      BY <1>1, <2>2, <3>4 DEF Arch!Step
  <2>11. CASE i.opcode = "STORE"
    <3>1. ArchRegisters' = ArchRegisters
      BY <2>3, <2>8, <2>11 DEF WritesRegister
    <3>2. mem.ALUOut = Arch!Address(i) /\ mem.MemWriteData = Arch!Value(i.rs2)
      BY <2>4, <2>11, SameTables DEF Computes, Arch!Address
    <3>3. ArchPC' = Wrap(mem.pc + 4)
      BY <2>5, <2>11 DEF NextAddress
    <3>4. dmem' = [dmem EXCEPT ![DataIndex(Arch!Address(i))] =
                     WriteLanes(i.funct3, @, Arch!Value(i.rs2))]
      BY <1>3, <2>3, <2>11, <3>2
    <3>5. Arch!Store(i)
      BY <2>2, <2>7, <2>11, <3>1, <3>3, <3>4, SameTables DEF Arch!Store
    <3>. QED
      BY <1>1, <2>2, <3>5 DEF Arch!Step
  <2>12. CASE i.opcode = "BRANCH"
    <3>1. ArchRegisters' = ArchRegisters /\ dmem' = dmem
      BY <1>3, <2>3, <2>8, <2>12 DEF WritesRegister
    <3>2. ArchPC' =
            IF OwnInvert(i) # (ALUResult(CompareOp(i.funct3),
                                         ValueIn(ArchRegisters, i.rs1),
                                         ValueIn(ArchRegisters, i.rs2)) # 0)
            THEN Wrap(mem.pc + i.imm) ELSE Wrap(mem.pc + 4)
      BY <2>5, <2>12 DEF NextAddress
    <3>3. Arch!ConditionalBranch(i)
      BY <2>2, <2>6, <2>7, <2>12, <3>1, <3>2, SameTables DEF Arch!ConditionalBranch
    <3>. QED
      BY <1>1, <2>2, <3>3 DEF Arch!Step
  <2>13. CASE i.opcode \in {"JAL", "JALR"}
    <3>1. ArchRegisters' = IF i.rd = 0 THEN ArchRegisters
                           ELSE [ArchRegisters EXCEPT ![i.rd] = Wrap(mem.pc + 4)]
      BY <2>3, <2>4, <2>8, <2>13 DEF WritesRegister, Computes, Links
    <3>2. ArchPC' = IF i.opcode = "JAL" THEN Wrap(mem.pc + i.imm)
                    ELSE Wrap(i.imm + ValueIn(ArchRegisters, i.rs1))
      BY <2>5, <2>13 DEF NextAddress
    <3>3. dmem' = dmem
      BY <1>3, <2>3, <2>13
    <3>4. Arch!JumpAndLink(i)
      BY <2>2, <2>7, <2>13, <3>1, <3>2, <3>3, SameTables DEF Arch!JumpAndLink, Arch!Write
    <3>. QED
      BY <1>1, <2>2, <3>4 DEF Arch!Step
  <2>14. CASE i.opcode = "DEFAULT"
    <3>1. ArchRegisters' = ArchRegisters /\ dmem' = dmem
      BY <1>3, <2>3, <2>6, <2>8, <2>14
    <3>2. ArchPC' = ArchPC /\ wb'.bit_exit = TRUE
      BY <1>1, <1>2, <2>2, <2>3, <2>14 DEF PipelineInv, TypeOK, MemSlot
    <3>3. Arch!Exit(i)
      BY <2>14, <3>1, <3>2 DEF Arch!Exit
    <3>. QED
      BY <1>1, <2>2, <3>3 DEF Arch!Step
  <2>15. i.opcode \in Opcodes
    BY <2>1 DEF Instr
  <2>. QED
    BY <2>6, <2>9, <2>10, <2>11, <2>12, <2>13, <2>14, <2>15 DEF Opcodes
<1>. QED
  BY <1>4, <1>5

-------------------------------------------------------------------------------
(***************************************************************************)
(* The invariant and the refinement.                                       *)
(***************************************************************************)

(* An empty pipeline relates to nothing.                                   *)
LEMMA InitRefinement == TBInit => RefinementInv
<1>. SUFFICES ASSUME TBInit PROVE RefinementInv
  OBVIOUS
<1>1. PipelineInv /\ imem \in Programs
  BY InitPipeline DEF TBInit, Init
<1>2. /\ ~control.valid /\ ~exec.control.valid /\ ~mem.valid /\ ~wb.valid
      /\ control.ALU_op = "ADD" /\ ~wb.RegWrite
      /\ exec.rs1n = 0 /\ exec.rs1_val = 0 /\ exec.rs2n = 0 /\ exec.rs2_val = 0
  BY ZeroControlCoherent
  DEF TBInit, Init, EmptyExec, EmptyMem, EmptyWb, ControlUnit, Decoded, ZeroControl,
      ZeroInstr, SetsALUOp, IsCompare
<1>3. RegistersSettled /\ OperandsRead
  BY <1>2 DEF RegistersSettled, ArchRegisters, OperandsRead, ReadInDecode
<1>. QED
  BY <1>1, <1>2, <1>3
  DEF RefinementInv, InOrderAcrossBubble, MemMatches, MemComputed, DecodeMatches,
      ExecMatches, WbMatches, MemFollowed

(* The falling edge writes what already counts as written.                 *)
LEMMA FallingEdgeSettles ==
  ASSUME TypeOK, NegEdge
  PROVE  registers' = ArchRegisters /\ ArchRegisters' = ArchRegisters
<1>1. wb' = wb /\ Result_WB' = Result_WB
  BY DEF NegEdge, Result_WB
<1>2. registers' = ArchRegisters
  BY DEF NegEdge, WriteBack, ArchRegisters
<1>3. ArchRegisters' = IF wb.RegWrite /\ wb.rdn # 0
                       THEN [registers' EXCEPT ![wb.rdn] = Result_WB] ELSE registers'
  BY <1>1 DEF ArchRegisters
<1>4. CASE wb.RegWrite /\ wb.rdn # 0
  <2>1. registers' = [registers EXCEPT ![wb.rdn] = Result_WB]
    BY <1>4 DEF NegEdge, WriteBack
  <2>2. registers \in [Reg -> Word] /\ wb.rdn \in Reg
    BY DEF TypeOK, WbSlot
  <2>3. [registers' EXCEPT ![wb.rdn] = Result_WB] = registers'
    BY <2>1, <2>2
  <2>. QED
    BY <1>2, <1>3, <1>4, <2>3
<1>5. CASE ~(wb.RegWrite /\ wb.rdn # 0)
  BY <1>2, <1>3, <1>5
<1>. QED
  BY <1>2, <1>4, <1>5

(* A falling edge changes nothing the abstract machine sees.               *)
LEMMA FallingEdgeRefines ==
  ASSUME RefinementInv, NegEdge
  PROVE  RefinementInv' /\ UNCHANGED Arch!archVars
<1>1. /\ TypeOK /\ PipelineInv'
      /\ UNCHANGED <<pc, imem, instrDecode, control, exec, mem, wb, dmem>>
  BY StepPipeline DEF RefinementInv, PipelineInv, NegEdge, Next
<1>2. registers' = ArchRegisters /\ ArchRegisters' = ArchRegisters
  BY <1>1, FallingEdgeSettles
<1>3. ArchPC' = ArchPC
  BY <1>1 DEF ArchPC
<1>4. RegistersSettled'
  BY <1>2 DEF RegistersSettled
<1>5. OperandsRead'
  <2>1. \A rn : ~(wb.RegWrite /\ wb.rdn = rn) => registers'[rn] = registers[rn]
    BY <1>1 DEF NegEdge, WriteBack, TypeOK, WbSlot
  <2>. QED
    BY <1>1, <2>1 DEF RefinementInv, OperandsRead, ReadInDecode
<1>6. /\ MemMatches' = MemMatches /\ MemComputed' = MemComputed
      /\ DecodeMatches' = DecodeMatches /\ ExecMatches' = ExecMatches
      /\ WbMatches' = WbMatches /\ MemFollowed' = MemFollowed
      /\ InOrderAcrossBubble' = InOrderAcrossBubble
      /\ Over' = Over
  BY <1>1, <1>2
  DEF MemMatches, MemComputed, Computes, DecodeMatches, ExecMatches, WbMatches,
      MemFollowed, BehindMem, InOrderAcrossBubble, Over, At
<1>. QED
  BY <1>1, <1>2, <1>3, <1>4, <1>5, <1>6 DEF RefinementInv, Arch!archVars

(* A rising edge is a step of the abstract machine or none.                *)
LEMMA RisingEdgeRefines ==
  ASSUME \A p \in Programs : Conforming(p), RefinementInv, PosEdge, ~wb.bit_exit
  PROVE  RefinementInv' /\ [Arch!Step]_(Arch!archVars)
<1>1. /\ PipelineInv /\ imem \in Programs /\ Conforming(imem)
      /\ RegistersSettled /\ OperandsRead /\ InOrderAcrossBubble
      /\ MemMatches /\ MemComputed
  BY DEF RefinementInv
<1>2. ~Over <=> ~mem.bit_exit
  BY DEF Over
<1>3. ~mem.bit_exit => DecodeMatches /\ ExecMatches /\ WbMatches /\ MemFollowed
  BY <1>2 DEF RefinementInv
<1>4. PipelineInv' /\ imem' \in Programs
  BY <1>1, PosEdgePipeline, Edge
<1>5. RegistersSettled'
  BY DEF PosEdge, RegistersSettled
<1>6. OperandsRead' /\ InOrderAcrossBubble'
  BY <1>1, EdgeReadsOperands, EdgeAcrossBubble
<1>7. /\ wb'.bit_exit = mem.bit_exit
      /\ mem'.bit_exit = exec.control.bit_exit
  BY <1>1, Edge DEF ExecutedForMem
<1>8. ~wb'.bit_exit => MemMatches' /\ MemComputed'
  BY <1>1, <1>3, <1>7, EdgeMovesMatches, EdgeComputes
<1>9. ~mem'.bit_exit /\ ~wb'.bit_exit =>
        DecodeMatches' /\ ExecMatches' /\ WbMatches' /\ MemFollowed'
  <2>. SUFFICES ASSUME ~exec.control.bit_exit, ~mem.bit_exit
                PROVE  DecodeMatches' /\ ExecMatches' /\ WbMatches' /\ MemFollowed'
    BY <1>7
  <2>1. DecodeMatches'
    BY <1>1, <1>2, <1>3, EdgeDecodes
  <2>2. ExecMatches' /\ WbMatches'
    BY <1>1, <1>3, EdgeMovesMatches
  <2>3. MemFollowed'
    BY <1>1, <1>2, <1>3, EdgeFollows
  <2>. QED
    BY <2>1, <2>2, <2>3
<1>10. [Arch!Step]_(Arch!archVars)
  BY <1>1, <1>3, EdgeCommits
<1>. QED
  BY <1>4, <1>5, <1>6, <1>8, <1>9, <1>10 DEF RefinementInv, Over

(* The inductive invariant of the refinement: every slot holds the word of *)
(* the image at its address, decoded; every operand is the architectural   *)
(* one or will be forwarded; what MEM has computed and where the pipeline  *)
(* goes on behind it is what the instruction set says (Simulator.v:81-153).*)
THEOREM SlotsAreProgram ==
  ASSUME \A p \in Programs : Conforming(p)
  PROVE  TBSpec => []RefinementInv
<1>1. RefinementInv /\ [TBNext]_tbVars => RefinementInv'
  <2>. SUFFICES ASSUME RefinementInv, [TBNext]_tbVars PROVE RefinementInv'
    OBVIOUS
  <2>1. CASE PosEdge /\ ~MustEnd
    BY <2>1, RisingEdgeRefines DEF MustEnd, PosEdge
  <2>2. CASE NegEdge
    BY <2>2, FallingEdgeRefines
  <2>3. CASE UNCHANGED vars
    <3>1. PipelineInv'
      BY <2>3, StepPipeline DEF RefinementInv
    <3>. QED
      BY <2>3, <3>1
      DEF vars, RefinementInv, RegistersSettled, ArchRegisters, Result_WB, OperandsRead,
          ReadInDecode, MemMatches, MemComputed, Computes, DecodeMatches, ExecMatches,
          WbMatches, MemFollowed, BehindMem, InOrderAcrossBubble, Over, At
  <2>. QED
    BY <2>1, <2>2, <2>3 DEF TBNext, Toggle, Finish, tbVars
<1>. QED
  BY <1>1, InitRefinement, PTL DEF TBSpec

(* The state the loader leaves is an initial state of the abstract machine.*)
LEMMA InitImplements == TBInit => Arch!Init
<1>. SUFFICES ASSUME TBInit PROVE Arch!Init
  OBVIOUS
<1>1. /\ ~control.valid /\ ~exec.control.valid /\ ~mem.valid
      /\ wb.bit_exit = FALSE /\ ~wb.RegWrite
  BY ZeroControlCoherent
  DEF TBInit, Init, EmptyExec, EmptyMem, EmptyWb, ZeroControl
<1>2. ArchPC = pc /\ ArchRegisters = registers
  BY <1>1 DEF ArchPC, ArchRegisters
<1>. QED
  BY <1>1, <1>2 DEF TBInit, Init, Arch!Init, Arch!Reg, Reg

(* The pipeline in its clock loop does what the machine does that executes *)
(* one instruction at a time, for every conforming image, every ALU that   *)
(* adds, and every size of words, register file and memories               *)
(* (Simulator.v:67-183, main.cpp:104-136).                                 *)
THEOREM PipelineImplementsIsa ==
  ASSUME \A p \in Programs : Conforming(p)
  PROVE  TBSpec => ImplementsIsa
<1>1. RefinementInv /\ [TBNext]_tbVars => [Arch!Step]_(Arch!archVars)
  <2>. SUFFICES ASSUME RefinementInv, [TBNext]_tbVars
                PROVE  [Arch!Step]_(Arch!archVars)
    OBVIOUS
  <2>1. CASE PosEdge /\ ~MustEnd
    BY <2>1, RisingEdgeRefines DEF MustEnd, PosEdge
  <2>2. CASE NegEdge
    BY <2>2, FallingEdgeRefines
  <2>3. CASE UNCHANGED vars
    BY <2>3 DEF vars, Arch!archVars, ArchPC, ArchRegisters, Result_WB
  <2>. QED
    BY <2>1, <2>2, <2>3 DEF TBNext, Toggle, Finish, tbVars
<1>. QED
  BY <1>1, InitImplements, SlotsAreProgram, PTL DEF TBSpec, ImplementsIsa, Arch!Spec
==============================================================================
