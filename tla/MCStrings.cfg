SPECIFICATION Spec
CONSTANTS
  Calls <- MCCalls
  Delim = {","}
  MaxLayers = 2
  FGEN_MAX_PARAMS = 3
  FGEN_MAX_KVP_TOKENS = 4
  MaxTokens = 3
INVARIANTS
  TokensAreFields
  EachCharOnce
CHECK_DEADLOCK FALSE
