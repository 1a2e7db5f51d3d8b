------------------------------ MODULE Documented ------------------------------
(***************************************************************************)
(* What comments and recorded runs of the source say the processor does,   *)
(* for every program.  The code does something else in some programs, and  *)
(* the runs of this module show one of each.                               *)
(***************************************************************************)
EXTENDS Testbench

(* A jump through a register goes to the value of its register plus its    *)
(* immediate ("next pc is rs1 + imm", ControlUnit.v:156); Simulator.v:83   *)
(* takes the value read in ID, which an instruction still in MEM or WB may *)
(* have replaced.                                                          *)
JumpsToRegisterPlusImm ==
  [][PosEdge /\ exec.control.Jump /\ exec.control.NextPC = "rs1Imm"
       => pc' = Wrap(exec.imm32 + rs1_val_forwarded)]_tbVars

(* The value a jump writes to its register is the address after it         *)
(* (trace_result/traceInstr:69-70); no case of ControlUnit.v:148-173     *)
(* selects the addition.                                                   *)
LinkIsNextAddress ==
  exec.control.Jump /\ exec.rdn # 0 => ALUOut_exec = Wrap(exec.pc + 4)
==============================================================================
