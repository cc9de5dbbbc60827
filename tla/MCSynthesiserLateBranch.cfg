CONSTANTS
  MinEntries = 0
  MaxEntries = 1
  MinStates = 1
  MaxStates = 3
  Candidates <- MCCandidates
  Packets <- Packet
  ZeroPacket <- MCZeroPacket
  Correct <- MCAgrees
  NoFields = 2
  FieldSize <- MCBits
  MaxPacketSize = 2
  MaxFieldSize = 2
  NotAlwaysExtract = TRUE
  TernaryMatch = FALSE
  MatchValues <- MCOne
  MatchMasks <- MCFullMasks
  AttrSize <- MCTwoAttrs
  Compared <- MCCompares0
  DropUncompared = FALSE
  Program <- MCLateBranch
  NoMachine = NoMachine
SPECIFICATION Spec
INVARIANTS ExtractsLikeProgram ReturnsParser NoSmallerParser VerifierQueryNeedsPacket
PROPERTIES ImplementsSynthesis Advances
CHECK_DEADLOCK FALSE
