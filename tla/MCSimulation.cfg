CONSTANTS
  NoFields = 3
  FieldSize <- MCFieldSize
  MaxPacketSize = 3
  MaxFieldSize = 3
  NotAlwaysExtract = TRUE
  TernaryMatch = FALSE
  MatchValues <- MCValues
  MatchMasks <- MCExactMasks
  NoStates = 3
  TableSize = 1
SPECIFICATION Spec
INVARIANTS TypeOK HaltsWithinNoStates SentinelMeansAbsent ContiguousReads ReadOnce
PROPERTIES DecidesOnExtractedField DesignsAgree
CHECK_DEADLOCK FALSE
