------------------------------- MODULE Contract -------------------------------
(***************************************************************************)
(* What a program must avoid for the processor to run it as module Isa     *)
(* says.  Each condition is on the text of the image alone, and each one   *)
(* answers to something the source does:                                   *)
(*   Decodable    the decoder has a case for every word but the exit;      *)
(*   BaseSettled  the base of a jump through a register is read in ID and  *)
(*                never forwarded (Simulator.v:83);                        *)
(*   LinkAdds     a jump leaves ALU_op as it was (ControlUnit.v:148-173);  *)
(*   ExitQuiet    an exit leaves every output but two as it was            *)
(*                (ControlUnit.v:212-215).                                 *)
(***************************************************************************)
EXTENDS ControlUnit

(* The instruction memory repeats a whole number of times in the address   *)
(* space, so that neighbouring addresses hold neighbouring words even where*)
(* the program counter wraps: 2^32 bytes of 2^17 words in the source.      *)
ASSUME WrapAssumption == WordMod % (4 * ImemWords) = 0

(* The instruction k words before word a, and the one after it.            *)
Before(p, a, k) == p[(a - k) % ImemWords]
After(p, a)     == p[(a + 1) % ImemWords]

Writes(i, r) == WritesRegister(i) /\ i.rd = r

Adds(i) == SetsALUOp(i) /\ OwnALUOp(i) = "ADD"

Links(i) == i.opcode \in {"JAL", "JALR"} /\ i.rd # 0

Redirects(i) == i.opcode \in {"BRANCH", "JAL", "JALR"}

Decodable(p) ==
  \A a \in DOMAIN p :
    /\ p[a].opcode # "ZERO"
    /\ p[a].opcode = "BRANCH" => IsCompare(p[a])

BaseSettled(p) ==
  \A a \in DOMAIN p : p[a].opcode = "JALR" /\ p[a].rs1 # 0 =>
    \A k \in 1 .. 2 : ~Writes(Before(p, a, k), p[a].rs1)

LinkAdds(p) ==
  (\E a \in DOMAIN p : Links(p[a])) =>
    \A a \in DOMAIN p :
      /\ Links(p[a]) => Adds(Before(p, a, 1))
      /\ Redirects(p[a]) => Adds(After(p, a))

ExitQuiet(p) ==
  \A a \in DOMAIN p : p[a].opcode = "DEFAULT" =>
    /\ p[a].rd = 0
    /\ Before(p, a, 1).opcode # "STORE"

Conforming(p) == Decodable(p) /\ BaseSettled(p) /\ LinkAdds(p) /\ ExitQuiet(p)
==============================================================================
