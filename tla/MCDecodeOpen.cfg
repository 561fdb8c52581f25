CONSTANTS
  Frames <- FewFrames
  TextLen <- SmallText
  FGEN_EXTRA_SPACE = 20
  FGEN_MAX_FSTR_LEN = 100
  MaxFail = 1
SPECIFICATION Spec
\* one at a time
INVARIANT TagNamedByType
\* INVARIANT ReturnsTextLength
\* INVARIANT LostTextReported
CHECK_DEADLOCK FALSE
