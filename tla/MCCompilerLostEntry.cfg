CONSTANTS
  MaxDepth = 6
  Inputs <- MCLostEntry
  MinEntries = 0
  MaxEntries = 2
  MinStates = 1
  MaxStates = 2
  MaxFieldSize = 4
  MaxP4States = 6
  PacketBits = 4
SPECIFICATION Spec
INVARIANTS ParsesLikeProgram
CHECK_DEADLOCK FALSE
