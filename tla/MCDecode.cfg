CONSTANTS
  Frames <- MCFrames
  TextLen <- SmallText
  FGEN_EXTRA_SPACE = 5
  FGEN_MAX_FSTR_LEN = 40
  MaxFail = 1
SPECIFICATION FairSpec
INVARIANTS
  TextInBuffer
  OneBuffer
  TextOfThisFrame
PROPERTY DecodeReturns
CHECK_DEADLOCK FALSE
