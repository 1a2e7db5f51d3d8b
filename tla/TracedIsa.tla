------------------------------- MODULE TracedIsa -------------------------------
(***************************************************************************)
(* The one-instruction-at-a-time machine with an observer that writes down *)
(* every instruction before the next one is executed: its address and the  *)
(* register it wrote with the value it wrote.                              *)
(***************************************************************************)
EXTENDS Isa

VARIABLES last,       \* the record of the last instruction
          pending,    \* it has not been written down
          line        \* the record written last

observedVars == <<archVars, last, pending, line>>

NoRegister == << >>

NoRecord == [pc |-> 0, reg |-> NoRegister]

ObservedInit == Init /\ last = NoRecord /\ pending = FALSE /\ line = NoRecord

Execute ==
  /\ ~pending /\ pending' = TRUE
  /\ Step
  /\ last' = [pc  |-> pc,
              reg |-> IF WritesRegister(Current) /\ Current.rd # 0
                      THEN <<Current.rd, registers'[Current.rd]>> ELSE NoRegister]
  /\ UNCHANGED line

WriteDown ==
  /\ pending /\ pending' = FALSE
  /\ line' = last
  /\ UNCHANGED <<archVars, last>>

ObservedSpec == ObservedInit /\ [][Execute \/ WriteDown]_observedVars
==============================================================================
