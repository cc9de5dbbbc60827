CONSTANTS
  MaxDepth = 6
  Inputs <- MCEitherOrder
  MinEntries = 0
  MaxEntries = 1
  MinStates = 1
  MaxStates = 4
  MaxFieldSize = 3
  MaxP4States = 5
  PacketBits = 3
SPECIFICATION Spec
INVARIANTS ParsesLikeProgram
CHECK_DEADLOCK FALSE
