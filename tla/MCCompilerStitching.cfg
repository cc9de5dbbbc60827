CONSTANTS
  MaxDepth = 6
  Inputs <- MCStitching
  MinEntries = 0
  MaxEntries = 2
  MinStates = 1
  MaxStates = 3
  MaxFieldSize = 4
  MaxP4States = 12
  PacketBits = 6
SPECIFICATION Spec
INVARIANTS ParsesLikeProgram
CHECK_DEADLOCK FALSE
