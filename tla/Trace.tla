--------------------------------- MODULE Trace ---------------------------------
(***************************************************************************)
(* The clock loop with the trace it prints (main.cpp:104-136, the option   *)
(* --traceInstr): while the clock is low, a pass first prints the          *)
(* instruction in WB, if there is one, and only then looks for an exit and *)
(* toggles the clock.                                                      *)
(***************************************************************************)
EXTENDS Testbench

VARIABLES line,       \* the record printed last: PC, and the register with its value
          printed     \* this pass has printed what it had to

traceVars == <<tbVars, line, printed>>

NoRegister == << >>

TraceInit ==
  TBInit /\ line = [pc |-> 0, reg |-> NoRegister] /\ printed = FALSE

\* Mutant: the value is taken from the ALU's output in WB.
RecordOfALU ==
  [pc  |-> wb.pc,
   reg |-> IF wb.RegWrite /\ wb.rdn # 0 THEN <<wb.rdn, wb.ALUOut>>
           ELSE NoRegister]

(* The value is taken from the register file, not from WB.                 *)
Record ==
  [pc  |-> wb.pc,
   reg |-> IF wb.RegWrite /\ wb.rdn # 0 THEN <<wb.rdn, registers[wb.rdn]>>
           ELSE NoRegister]

PrintLine ==
  /\ ~finished /\ clk = 0 /\ ~printed /\ printed' = TRUE
  /\ line' = IF wb.valid THEN Record ELSE line
  /\ UNCHANGED tbVars

Pass ==
  /\ clk = 0 => printed
  /\ TBNext
  /\ printed' = (printed /\ finished') /\ UNCHANGED line

TraceNext == PrintLine \/ Pass

TraceSpec == TraceInit /\ [][TraceNext]_traceVars /\ WF_traceVars(TraceNext)

-------------------------------------------------------------------------------
Observed == INSTANCE TracedIsa WITH
  pc <- ArchPC, registers <- ArchRegisters, halted <- wb.bit_exit,
  pending <- wb.valid /\ ~printed,
  last <- IF wb.valid
          THEN [pc  |-> wb.pc,
                reg |-> IF wb.RegWrite /\ wb.rdn # 0 THEN <<wb.rdn, Result_WB>>
                        ELSE NoRegister]
          ELSE line

(* The trace is the execution: every instruction of the program, an exit   *)
(* included, is printed once, before the next one commits, in order, with  *)
(* its own address and the value it wrote; nothing else is printed.        *)
TraceIsExecution == Observed!ObservedSpec
==============================================================================
