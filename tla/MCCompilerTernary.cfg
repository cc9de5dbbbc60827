CONSTANTS
  MaxDepth = 6
  Inputs <- MCTernary
  MinEntries = 0
  MaxEntries = 2
  MinStates = 1
  MaxStates = 2
  MaxFieldSize = 4
  MaxP4States = 3
  PacketBits = 4
SPECIFICATION Spec
INVARIANTS ParsesLikeProgram
CHECK_DEADLOCK FALSE
