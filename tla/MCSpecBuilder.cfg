CONSTANTS
  NoFields = 2
  FieldSize <- MCComparedSizes
  MaxPacketSize = 4
  MaxFieldSize = 3
  NotAlwaysExtract = FALSE
  TernaryMatch = FALSE
  MatchValues <- MCValues
  MatchMasks <- MCMasks
  AttrSize <- MCAttrSize
  Compared <- MCCompared
  DropUncompared = TRUE
  Graphs <- MCGraphs
SPECIFICATION Spec
INVARIANTS SpecIsMeaning RejectsIllegalPaths
CHECK_DEADLOCK FALSE
