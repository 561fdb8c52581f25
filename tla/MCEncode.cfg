CONSTANTS
  Texts <- MCTexts
  MAX_LAYERS = 10
  BLOCK_SIZE = 1024
  TextLen <- TwoPieces
  FGEN_EXTRA_SPACE = 5
  FGEN_MAX_FSTR_LEN = 40
  MaxFail = 0
  MaxFrames = 2
SPECIFICATION RoundSpec
INVARIANTS
  LengthsReachEnd
  ChecksumsFinal
  HeadersIntact
  FailsIffMalformed
  RoundTripKeepsLayers
CHECK_DEADLOCK FALSE
