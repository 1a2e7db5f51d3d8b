------------------------------ MODULE TraceProofs ------------------------------
(***************************************************************************)
(* Proofs about the clock loop that prints a trace.                        *)
(***************************************************************************)
EXTENDS Trace, RefinementProofs

(* Printing does not touch the processor: what the loop that prints does   *)
(* to it, the loop that does not print may do as well (main.cpp:104-136).  *)
THEOREM TraceOnlyObserves == TraceSpec => TBSpec
<1>1. TraceInit => TBInit
  BY DEF TraceInit
<1>2. [TraceNext]_traceVars => [TBNext]_tbVars
  BY DEF TraceNext, PrintLine, Pass, traceVars
<1>. QED
  BY <1>1, <1>2, PTL DEF TraceSpec, TBSpec

(* Hence what holds of the clock loop holds of it with its trace: bubbles  *)
(* never pile up (Hazard.v:34-39).                                         *)
THEOREM TracedBubblesNeverPileUp ==
  ASSUME \A p \in Programs : Decodable(p)
  PROVE  TraceSpec => BubblesBounded
BY TraceOnlyObserves, BubblesNeverPileUp, PTL

-------------------------------------------------------------------------------
(* The register file is the architectural one whenever the loop prints     *)
(* (RegisterFile.v:19, main.cpp:132).                                      *)
THEOREM PrintsSettledRegisters == TraceSpec => []RegistersSettled
<1>1. TBInit => RegistersSettled
  BY DEF TBInit, Init, EmptyWb, RegistersSettled, ArchRegisters
<1>2. ASSUME TypeOK, RegistersSettled, [TBNext]_tbVars
      PROVE  RegistersSettled'
  <2>1. CASE PosEdge
    BY <2>1 DEF PosEdge, RegistersSettled
  <2>2. CASE NegEdge
    BY <1>2, <2>2, FallingEdgeSettles DEF RegistersSettled
  <2>3. CASE UNCHANGED vars
    BY <1>2, <2>3 DEF vars, RegistersSettled, ArchRegisters, Result_WB
  <2>. QED
    BY <1>2, <2>1, <2>2, <2>3 DEF TBNext, Toggle, Finish, tbVars
<1>. QED
  BY <1>1, <1>2, TraceOnlyObserves, LoopIsClock, TypeCorrect, PTL DEF TBSpec

-------------------------------------------------------------------------------
(***************************************************************************)
(* The trace as an observer of the abstract machine.                       *)
(***************************************************************************)

(* The record of the instruction in WB, with the value on the wires.       *)
Committed ==
  [pc  |-> wb.pc,
   reg |-> IF wb.RegWrite /\ wb.rdn # 0 THEN <<wb.rdn, Result_WB>> ELSE NoRegister]

(* A pass that has printed is one with the clock low, and what it printed  *)
(* is the record of the instruction in WB.                                 *)
PrintedIsCommitted ==
  /\ clk = 1 => ~printed
  /\ printed /\ wb.valid => line = Committed
  /\ printed \in BOOLEAN /\ finished \in BOOLEAN

(* The machine the observer watches is the one the pipeline implements.    *)
LEMMA SameMachine ==
  /\ Observed!Init = Arch!Init
  /\ Observed!Step = Arch!Step
  /\ Observed!Current = Arch!Current
  /\ Observed!archVars = Arch!archVars
  /\ \A i : Observed!WritesRegister(i) = WritesRegister(i)
<1>1. Observed!archVars = Arch!archVars
  BY DEF Observed!archVars, Arch!archVars
<1>2. Observed!Init = Arch!Init
  BY DEF Observed!Init, Arch!Init, Observed!Reg, Arch!Reg
<1>3. Observed!Current = Arch!Current
  BY DEF Observed!Current, Arch!Current, Observed!InstrIndex, Arch!InstrIndex
<1>4. \A i : Observed!WritesRegister(i) = WritesRegister(i)
  BY DEF Observed!WritesRegister, WritesRegister
<1>5. \A i : /\ Observed!OwnALUOp(i) = Arch!OwnALUOp(i)
             /\ Observed!CompareOp(i.funct3) = Arch!CompareOp(i.funct3)
             /\ Observed!OwnInvert(i) = Arch!OwnInvert(i)
             /\ Observed!IsCompare(i) = Arch!IsCompare(i)
  <2>1. \A f, alt : Observed!ArithmeticOp(f, alt) = Arch!ArithmeticOp(f, alt)
    BY DEF Observed!ArithmeticOp, Arch!ArithmeticOp
  <2>2. \A f : Observed!CompareOp(f) = Arch!CompareOp(f)
    BY DEF Observed!CompareOp, Arch!CompareOp
  <2>. QED
    BY <2>1, <2>2
    DEF Observed!OwnALUOp, Arch!OwnALUOp, Observed!OwnInvert, Arch!OwnInvert,
        Observed!IsCompare, Arch!IsCompare
<1>6. \A w, o, d : /\ Observed!ReadLanes(w, o) = Arch!ReadLanes(w, o)
                   /\ Observed!WriteLanes(w, o, d) = Arch!WriteLanes(w, o, d)
  BY DEF Observed!ReadLanes, Arch!ReadLanes, Observed!WriteLanes, Arch!WriteLanes,
         Observed!IsHalf, Arch!IsHalf, Observed!IsWord, Arch!IsWord,
         Observed!ToExtend, Arch!ToExtend, Observed!Extend, Arch!Extend,
         Observed!Merge, Arch!Merge
<1>7. /\ \A a : /\ Observed!DataIndex(a) = Arch!DataIndex(a)
                /\ Observed!Wrap(a) = Arch!Wrap(a)
      /\ \A n : Observed!Value(n) = Arch!Value(n)
  BY DEF Observed!DataIndex, Arch!DataIndex, Observed!Wrap, Arch!Wrap,
         Observed!Value, Arch!Value
<1>8. /\ \A rd, v : Observed!Write(rd, v) = Arch!Write(rd, v)
      /\ \A i : Observed!Address(i) = Arch!Address(i)
  BY <1>7 DEF Observed!Write, Arch!Write, Observed!Address, Arch!Address
<1>9. \A i : /\ Observed!Operate(i) = Arch!Operate(i)
             /\ Observed!Load(i) = Arch!Load(i)
             /\ Observed!Store(i) = Arch!Store(i)
             /\ Observed!ConditionalBranch(i) = Arch!ConditionalBranch(i)
             /\ Observed!JumpAndLink(i) = Arch!JumpAndLink(i)
             /\ Observed!Exit(i) = Arch!Exit(i)
  BY <1>5, <1>6, <1>7, <1>8
  DEF Observed!Operate, Arch!Operate, Observed!Load, Arch!Load, Observed!Store,
      Arch!Store, Observed!ConditionalBranch, Arch!ConditionalBranch,
      Observed!JumpAndLink, Arch!JumpAndLink, Observed!Exit, Arch!Exit
<1>10. Observed!Step = Arch!Step
  BY <1>3, <1>9 DEF Observed!Step, Arch!Step
<1>. QED
  BY <1>1, <1>2, <1>3, <1>4, <1>10

(* Nothing is printed at the start.                                        *)
LEMMA InitTrace == TraceInit => PrintedIsCommitted
BY DEF TraceInit, TBInit, Init, PrintedIsCommitted

(* Printing writes down the record of the instruction in WB: by then the   *)
(* register file holds what is on the wires (main.cpp:114-136).            *)
LEMMA PrintingObserves ==
  ASSUME RegistersSettled, PipelineInv, PrintedIsCommitted, PrintLine
  PROVE  /\ PrintedIsCommitted'
         /\ [Observed!Execute \/ Observed!WriteDown]_(Observed!observedVars)
<1>1. /\ clk = 0 /\ ~printed /\ printed' = TRUE
      /\ line' = IF wb.valid THEN Record ELSE line
      /\ UNCHANGED <<clk, pc, imem, instrDecode, control, exec, mem, wb,
                     registers, dmem, finished>>
  BY DEF PrintLine, tbVars, vars
<1>2. /\ ArchPC' = ArchPC /\ ArchRegisters' = ArchRegisters /\ Committed' = Committed
  BY <1>1 DEF ArchPC, ArchRegisters, Committed, Result_WB
<1>3. wb.valid => Record = Committed
  <2>1. wb.RegWrite /\ wb.rdn # 0 => registers[wb.rdn] = Result_WB
    <3>1. registers = ArchRegisters /\ registers \in [Reg -> Word] /\ wb.rdn \in Reg
      BY <1>1 DEF RegistersSettled, PipelineInv, TypeOK, WbSlot
    <3>2. wb.RegWrite /\ wb.rdn # 0 =>
            ArchRegisters = [registers EXCEPT ![wb.rdn] = Result_WB]
      BY DEF ArchRegisters
    <3>. QED
      BY <3>1, <3>2
  <2>. QED
    BY <2>1 DEF Record, Committed
<1>4. PrintedIsCommitted'
  BY <1>1, <1>2, <1>3 DEF PrintedIsCommitted
<1>5. UNCHANGED Observed!archVars
  BY <1>1, <1>2 DEF Observed!archVars
<1>6. wb.valid \in BOOLEAN
  BY DEF PipelineInv, TypeOK, WbSlot
<1>7. CASE wb.valid
  <2>1. Observed!WriteDown
    BY <1>1, <1>2, <1>3, <1>5, <1>7 DEF Observed!WriteDown, Committed
  <2>. QED
    BY <1>4, <2>1
<1>8. CASE ~wb.valid
  <2>1. UNCHANGED Observed!observedVars
    BY <1>1, <1>5, <1>6, <1>8 DEF Observed!observedVars
  <2>. QED
    BY <1>4, <2>1
<1>. QED
  BY <1>7, <1>8

(* The rising edge executes the next instruction after the last one has    *)
(* been printed.                                                           *)
LEMMA RisingEdgeObserved ==
  ASSUME \A p \in Programs : Conforming(p), RefinementInv, PrintedIsCommitted,
         PosEdge, ~MustEnd, Pass, finished' = FALSE
  PROVE  /\ PrintedIsCommitted'
         /\ [Observed!Execute \/ Observed!WriteDown]_(Observed!observedVars)
<1>1. /\ printed = TRUE /\ printed' = FALSE /\ line' = line /\ clk' = 1
  BY DEF Pass, PosEdge, PrintedIsCommitted
<1>2. PrintedIsCommitted'
  BY <1>1 DEF PrintedIsCommitted
<1>3. /\ PipelineInv /\ ~wb.bit_exit /\ imem \in Programs /\ Conforming(imem)
      /\ MemMatches /\ RegistersSettled
      /\ mem.valid => Arch!Step
      /\ ~mem.valid => UNCHANGED Arch!archVars
  <2>1. ~wb.bit_exit
    BY DEF MustEnd, PosEdge
  <2>. QED
    BY <2>1, EdgeCommits DEF RefinementInv, Over
<1>4. /\ wb'.valid = mem.valid /\ wb'.pc = mem.pc /\ wb'.RegWrite = mem.RegWrite
      /\ wb'.rdn = mem.rdn
  BY <1>3, Edge
<1>5. mem.valid \in BOOLEAN /\ wb.valid \in BOOLEAN
  BY <1>3 DEF PipelineInv, TypeOK, MemSlot, WbSlot
<1>6. CASE mem.valid
  <2>. DEFINE i == At(mem.pc)
  <2>1. ArchPC = mem.pc /\ Observed!Current = i
    BY <1>3, <1>6, EdgeMovesArchPC, SameMachine, SameTables DEF Arch!Current, At
  <2>2. /\ mem.rdn = i.rd
        /\ mem.RegWrite /\ mem.rdn # 0 <=> WritesRegister(i) /\ i.rd # 0
    <3>1. i.opcode = "DEFAULT" => i.rd = 0
      BY <1>3, IndexType
      DEF PipelineInv, TypeOK, MemSlot, Imem, At, Conforming, ExitQuiet
    <3>. QED
      BY <1>3, <1>6, <3>1 DEF MemMatches
  <2>3. mem.RegWrite /\ mem.rdn # 0 => Result_WB' = ArchRegisters'[mem.rdn]
    <3>1. ArchRegisters' = IF wb'.RegWrite /\ wb'.rdn # 0
                           THEN [registers' EXCEPT ![wb'.rdn] = Result_WB']
                           ELSE registers'
      BY DEF ArchRegisters
    <3>2. registers' \in [Reg -> Word] /\ mem.rdn \in Reg
      BY <1>3, PosEdgeType DEF PipelineInv, TypeOK, MemSlot
    <3>. QED
      BY <1>4, <3>1, <3>2
  <2>4. Committed' = [pc  |-> ArchPC,
                      reg |-> IF WritesRegister(i) /\ i.rd # 0
                              THEN <<i.rd, ArchRegisters'[i.rd]>> ELSE NoRegister]
    BY <1>4, <2>1, <2>2, <2>3 DEF Committed
  <2>5. Observed!Execute
    <3>1. Observed!Step
      BY <1>3, <1>6, SameMachine
    <3>. HIDE DEF i
    <3>. QED
      BY <1>1, <1>4, <1>6, <2>1, <2>4, <3>1, SameMachine
      DEF Observed!Execute, Observed!NoRegister, NoRegister, Committed
  <2>. QED
    BY <1>2, <2>5
<1>7. CASE ~mem.valid
  <2>1. UNCHANGED Observed!archVars
    BY <1>3, <1>7 DEF Observed!archVars, Arch!archVars
  <2>2. UNCHANGED Observed!observedVars
    BY <1>1, <1>4, <1>5, <1>7, <2>1
    DEF Observed!observedVars, PrintedIsCommitted, Committed
  <2>. QED
    BY <1>2, <2>2
<1>. QED
  BY <1>6, <1>7

(* A pass of the loop is a step of the observed machine or none.           *)
LEMMA PassObserved ==
  ASSUME \A p \in Programs : Conforming(p), RefinementInv, PrintedIsCommitted, Pass
  PROVE  /\ PrintedIsCommitted'
         /\ [Observed!Execute \/ Observed!WriteDown]_(Observed!observedVars)
<1>1. CASE Toggle /\ PosEdge
  BY <1>1, RisingEdgeObserved DEF Toggle, PrintedIsCommitted
<1>2. CASE Toggle /\ NegEdge
  <2>1. clk = 1 /\ printed = FALSE /\ printed' = FALSE /\ line' = line /\ clk' = 0
        /\ finished' = finished
    BY <1>2 DEF Pass, NegEdge, PrintedIsCommitted, Toggle
  <2>2. UNCHANGED Observed!archVars
    BY <1>2, FallingEdgeRefines DEF Observed!archVars, Arch!archVars
  <2>3. wb' = wb /\ Committed' = Committed
    BY <1>2 DEF NegEdge, Committed, Result_WB
  <2>. QED
    BY <2>1, <2>2, <2>3 DEF PrintedIsCommitted, Observed!observedVars, Committed
<1>3. CASE Finish
  <2>1. /\ UNCHANGED <<vars, line>> /\ finished' = TRUE
        /\ printed' = printed
    BY <1>3 DEF Finish, Pass, PrintedIsCommitted
  <2>2. UNCHANGED Observed!archVars /\ Committed' = Committed
    BY <2>1 DEF vars, Observed!archVars, ArchPC, ArchRegisters, Committed, Result_WB
  <2>. QED
    BY <2>1, <2>2 DEF vars, PrintedIsCommitted, Observed!observedVars, Committed
<1>. QED
  BY <1>1, <1>2, <1>3 DEF Pass, TBNext, Toggle

(* The trace of a conforming image is its execution: each instruction is   *)
(* printed once, in order, with its address and the value it wrote, before *)
(* the next one commits (main.cpp:104-136).                                *)
THEOREM TraceIsTheExecution ==
  ASSUME \A p \in Programs : Conforming(p)
  PROVE  TraceSpec => TraceIsExecution
<1>1. TraceInit => Observed!ObservedInit
  <2>. SUFFICES ASSUME TraceInit PROVE Observed!ObservedInit
    OBVIOUS
  <2>1. Observed!Init
    BY InitImplements, SameMachine DEF TraceInit
  <2>2. wb.valid = FALSE /\ line = [pc |-> 0, reg |-> NoRegister]
    BY DEF TraceInit, TBInit, Init, EmptyWb
  <2>. QED
    BY <2>1, <2>2
    DEF Observed!ObservedInit, Observed!NoRecord, Observed!NoRegister, NoRegister
<1>2. RefinementInv /\ PrintedIsCommitted /\ [TraceNext]_traceVars =>
        PrintedIsCommitted'
        /\ [Observed!Execute \/ Observed!WriteDown]_(Observed!observedVars)
  <2>. SUFFICES ASSUME RefinementInv, PrintedIsCommitted, [TraceNext]_traceVars
                PROVE  PrintedIsCommitted'
                       /\ [Observed!Execute \/ Observed!WriteDown]_(Observed!observedVars)
    OBVIOUS
  <2>1. CASE PrintLine
    BY <2>1, PrintingObserves DEF RefinementInv
  <2>2. CASE Pass
    BY <2>2, PassObserved
  <2>3. CASE UNCHANGED traceVars
    <3>1. UNCHANGED <<clk, pc, imem, instrDecode, control, exec, mem, wb,
                      registers, dmem, finished, line, printed>>
      BY <2>3 DEF traceVars, tbVars, vars
    <3>2. UNCHANGED Observed!archVars /\ Committed' = Committed
      BY <3>1 DEF Observed!archVars, ArchPC, ArchRegisters, Committed, Result_WB
    <3>. QED
      BY <3>1, <3>2 DEF PrintedIsCommitted, Observed!observedVars, Committed
  <2>. QED
    BY <2>1, <2>2, <2>3 DEF TraceNext
<1>3. TraceSpec => []RefinementInv
  BY TraceOnlyObserves, SlotsAreProgram, PTL
<1>. QED
  BY <1>1, <1>2, <1>3, InitTrace, PTL
  DEF TraceSpec, TraceIsExecution, Observed!ObservedSpec

(* What the run of the loop that prints shows of the refinement without    *)
(* its trace (main.cpp:104-136).                                           *)
THEOREM TracedPipelineImplementsIsa ==
  ASSUME \A p \in Programs : Conforming(p)
  PROVE  TraceSpec => ImplementsIsa
BY TraceOnlyObserves, PipelineImplementsIsa, PTL
==============================================================================
