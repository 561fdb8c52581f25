CONSTANTS
  Texts <- MCTexts
  Sizes <- MCSizes
  OUTPUT_BUFF_SIZE = 10
  MAX_LOG_BUF_SIZE = 8
  DataSize = 5
  CodeLen = 4
  ColorNames <- Names
  Levels = {0, 9}
SPECIFICATION Spec
INVARIANTS
  OnlyTheEndIsLost
  RoomyTextWhole
PROPERTY CallReturns
CHECK_DEADLOCK FALSE
