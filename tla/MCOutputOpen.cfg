CONSTANTS
  Texts <- MCTexts
  Sizes <- MCSizes
  OUTPUT_BUFF_SIZE = 10
  MAX_LOG_BUF_SIZE = 8
  DataSize = 5
  CodeLen = 4
  ColorNames <- Names
  Levels = {0, 9}
SPECIFICATION Spec
\* one at a time
INVARIANT FittingTextWhole
\* INVARIANT WritesInBuffer
\* INVARIANT BracketsKept
CHECK_DEADLOCK FALSE
