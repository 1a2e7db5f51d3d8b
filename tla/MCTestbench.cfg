SPECIFICATION TraceSpec
CONSTANTS
  WordMod = 16
  HalfMod = 4
  ByteMod = 2
  NumRegs = 3
  ImemWords = 4
  DmemWords = 2
  XALUSrc1 = "rs1"
  XALUSrc2 = "rs2"
  ALUResult <- MCALUResult
  Entries = {0}
  Programs <- AllPrograms
INVARIANT RegistersSettled
PROPERTIES
  ImplementsIsa
  TraceIsExecution
  BubblesBounded
  KeepsCommitting
CHECK_DEADLOCK FALSE
