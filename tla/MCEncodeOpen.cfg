CONSTANTS
  Texts <- OpenTexts
  MAX_LAYERS = 10
  BLOCK_SIZE = 1024
  TextLen <- TwoPieces
  FGEN_EXTRA_SPACE = 5
  FGEN_MAX_FSTR_LEN = 40
  MaxFail = 0
  MaxFrames = 2
SPECIFICATION RoundSpec
\* one at a time
INVARIANT HeadersApart
\* INVARIANT TimestampSurvives
\* INVARIANT TotalLengthInFrame
\* INVARIANT ExampleEncodes
\* INVARIANT AdjustedFrameEncodes
\* INVARIANT FramesFitBlock
\* INVARIANT FillsPayloadOnly
\* INVARIANT StampIsOwn
\* INVARIANT EncodedFrameDecodes
CHECK_DEADLOCK FALSE
