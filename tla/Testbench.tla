------------------------------ MODULE Testbench ------------------------------
(***************************************************************************)
(* The clock loop of main.cpp around the processor.  Every eighth pass the *)
(* loop looks at the outputs, ends the run if the clock is low and an      *)
(* exit instruction has reached WB, and otherwise toggles the clock; the   *)
(* seven passes between evaluate a circuit whose inputs did not change.    *)
(***************************************************************************)
EXTENDS Simulator

(* ALU.v:12: the link of a jump is what this addition makes of pc and 4.   *)
ASSUME AdderAssumption ==
  \A a, b \in Word : ALUResult("ADD", a, b) = Wrap(a + b)

VARIABLE finished   \* the loop was left, with "Success!"

tbVars == <<vars, finished>>

TBInit == Init /\ finished = FALSE

MustEnd == clk = 0 /\ wb.bit_exit

Finish ==
  /\ ~finished
  /\ MustEnd
  /\ finished' = TRUE
  /\ UNCHANGED vars

Toggle ==
  /\ ~finished
  /\ ~MustEnd
  /\ PosEdge \/ NegEdge
  /\ UNCHANGED finished

TBNext == Toggle \/ Finish

TBSpec == TBInit /\ [][TBNext]_tbVars

(* The loop is one thread that never waits: it always takes its next pass. *)
TBFairSpec == TBSpec /\ WF_tbVars(TBNext)

-------------------------------------------------------------------------------
(***************************************************************************)
(* The architectural state a pipeline state stands for.  An instruction    *)
(* commits as it enters WB: its store is written by the same edge, and its *)
(* register a half-cycle later, so a result still in WB counts as written. *)
(* The architectural pc is the oldest instruction not committed.           *)
(***************************************************************************)
ArchPC ==
  CASE wb.bit_exit -> wb.pc
    [] ~wb.bit_exit /\ mem.valid -> mem.pc
    [] ~wb.bit_exit /\ ~mem.valid /\ exec.control.valid -> exec.pc
    [] ~wb.bit_exit /\ ~mem.valid /\ ~exec.control.valid /\ control.valid
         -> instrDecode.pc
    [] OTHER -> pc

ArchRegisters ==
  IF wb.RegWrite /\ wb.rdn # 0
  THEN [registers EXCEPT ![wb.rdn] = Result_WB]
  ELSE registers

Arch == INSTANCE Isa WITH pc <- ArchPC, registers <- ArchRegisters,
                          halted <- wb.bit_exit

(* Every step of the pipeline is a step of the one-instruction-at-a-time   *)
(* machine or leaves the architectural state alone.                        *)
ImplementsIsa == Arch!Spec

(* While the clock is low, which is when the loop prints, the register     *)
(* file is the architectural one: the instruction in WB has been written,  *)
(* and no younger one has.  Half a cycle earlier it is not                 *)
(* (RegisterFile.v:19, main.cpp:120, main.cpp:132).                        *)
RegistersSettled == clk = 0 => registers = ArchRegisters

(* Of the stages EX, MEM and WB one holds an instruction from the first    *)
(* one on: a load costs at most one bubble, a redirect two, and their      *)
(* costs never add up to a third bubble in a row (Hazard.v:34-39).         *)
Busy == exec.control.valid \/ mem.valid \/ wb.valid

BubblesBounded == [][Busy => Busy']_tbVars

(* Instructions go on leaving the pipeline for as long as the clock runs:  *)
(* no chain of stalls and flushes feeds itself.                            *)
KeepsCommitting == []<>wb.valid
==============================================================================
