CONSTANTS
  MinEntries = 0
  MaxEntries = 1
  MinStates = 1
  MaxStates = 2
  Candidates <- MCCandidates
  Packets <- Packet
  ZeroPacket <- MCZeroPacket
  Correct <- MCAgrees
  NoFields = 1
  FieldSize <- MCMinimised0
  MaxPacketSize = 4
  MaxFieldSize = 3
  NotAlwaysExtract = FALSE
  TernaryMatch = FALSE
  MatchValues <- MCOne
  MatchMasks <- MCFullMasks
  AttrSize <- MCMinimised3
  Compared <- MCCompares0
  DropUncompared = TRUE
  Program <- MCTwoLeading
  NoMachine = NoMachine
SPECIFICATION Spec
INVARIANT ExtractsLikeProgram
CHECK_DEADLOCK FALSE
