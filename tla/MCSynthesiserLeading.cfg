CONSTANTS
  MinEntries = 0
  MaxEntries = 1
  MinStates = 1
  MaxStates = 2
  Candidates <- MCCandidates
  Packets <- Packet
  ZeroPacket <- MCZeroPacket
  Correct <- MCAgrees
  NoFields = 1
  FieldSize <- MCMinimised0
  MaxPacketSize = 3
  MaxFieldSize = 3
  NotAlwaysExtract = FALSE
  TernaryMatch = FALSE
  MatchValues <- MCOne
  MatchMasks <- MCFullMasks
  AttrSize <- MCMinimised
  Compared <- MCCompares0
  DropUncompared = TRUE
  Program <- MCLeading
  NoMachine = NoMachine
SPECIFICATION Spec
PROPERTIES Terminates
CHECK_DEADLOCK FALSE
