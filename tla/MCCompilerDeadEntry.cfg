CONSTANTS
  MaxDepth = 6
  Inputs <- MCFlag
  MinEntries = 0
  MaxEntries = 1
  MinStates = 1
  MaxStates = 1
  MaxFieldSize = 2
  MaxP4States = 2
  PacketBits = 1
SPECIFICATION Spec
INVARIANTS ParsesLikeProgram
CHECK_DEADLOCK FALSE
