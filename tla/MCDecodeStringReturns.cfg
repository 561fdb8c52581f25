CONSTANTS
  Texts <- AllTexts
  Lengths = {0, 1, 3}
SPECIFICATION FairSpec
PROPERTY DecodeStringReturns
\* fails too: INVARIANT DumpDecoded
