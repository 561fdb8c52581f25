SPECIFICATION FairSpec
CONSTANTS
  Char <- MCChar
  Digit <- MCDigit
  AnyFrame <- MCAnyFrame
  AnyFileFrame <- MCAnyFileFrame
  Names <- MCNames
  StringArrays <- MCStringArrays
  FileArrays <- MCFileArrays
  NAME_LENGTH = 5
  MaxFrames = 3
\* one at a time
INVARIANT BrokenTextReported
\* INVARIANT RefusedNameExists
\* INVARIANT ZeroLengthLoadsArray
\* INVARIANT EveryFileLoaded
\* INVARIANT FilesReturnCountsLoaded
\* INVARIANT EveryFrameKeepsItsBytes
\* PROPERTY FilesReturns
