SPECIFICATION FairSpec
CONSTANTS
  Char <- MCChar
  Digit <- MCDigit
  AnyFrame <- MCAnyFrame
  AnyFileFrame <- MCAnyFileFrame
  Names <- MCNames
  StringArrays <- MCStringArrays
  FileArrays <- MCFileArrays
  NAME_LENGTH = 5
  MaxFrames = 3
INVARIANTS CountMatchesList FoundByOwnName StringsLoadedInOrder OneFileLoaded
PROPERTIES ListOnlyGrows LoadsReturn
