CONSTANTS
  NoFields = 2
  FieldSize <- MCBits
  MaxPacketSize = 2
  MaxFieldSize = 2
  NotAlwaysExtract = TRUE
  TernaryMatch = FALSE
  MatchValues <- MCValues
  MatchMasks <- MCMasks
  NoStates = 3
  TableSize = 1
  InputMachines <- MCMachines
  HeaderOf <- MCHeaderOf
  HeaderSize <- MCBits
  Offset <- MCNoOffset
  OldConstant <- MCOldConstant
SPECIFICATION Spec
INVARIANTS EveryReachedStateDecided SelectsOnValidHeader
PROPERTIES ImplementsMachine
CHECK_DEADLOCK FALSE
