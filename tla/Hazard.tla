-------------------------------- MODULE Hazard --------------------------------
(***************************************************************************)
(* Hazard.v: combinational, no state.  It decides where an operand of the  *)
(* instruction in EX comes from, whether the instruction in ID must wait   *)
(* for a load, and whether the instruction in EX redirects the fetch.      *)
(***************************************************************************)
EXTENDS Machine

(* The youngest older instruction that writes register rn provides it; 0   *)
(* is never forwarded.  The mutant prefers the older producer.             *)
OlderProducerFirst(rn, RegWrite_MEM, rdn_MEM, RegWrite_WB, rdn_WB) ==
  CASE rn # 0 /\ RegWrite_WB /\ rdn_WB = rn   -> "WB"
    [] rn # 0 /\ RegWrite_MEM /\ rdn_MEM = rn
       /\ ~(RegWrite_WB /\ rdn_WB = rn)       -> "MEM"
    [] OTHER                                  -> "none"

ForwardSrc(rn, RegWrite_MEM, rdn_MEM, RegWrite_WB, rdn_WB) ==
  CASE rn # 0 /\ RegWrite_MEM /\ rdn_MEM = rn -> "MEM"
    [] rn # 0 /\ RegWrite_WB /\ rdn_WB = rn
       /\ ~(RegWrite_MEM /\ rdn_MEM = rn)     -> "WB"
    [] OTHER                                  -> "none"

(* A load in EX and its register in either source field of ID.  The mutant *)
(* forgets the second field.                                               *)
StallOnRs1Only(MemToReg_exec, rdn_exec, rs1n, rs2n) ==
  MemToReg_exec /\ rs1n = rdn_exec

LoadStall(MemToReg_exec, rdn_exec, rs1n, rs2n) ==
  MemToReg_exec /\ (rs1n = rdn_exec \/ rs2n = rdn_exec)

BranchTaken(Jump, Branch, InvertBranchTriger, ALUOut) ==
  Jump \/ (Branch /\ (InvertBranchTriger # (ALUOut # 0)))
==============================================================================
