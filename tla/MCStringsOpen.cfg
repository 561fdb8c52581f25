SPECIFICATION Spec
CONSTANTS
  Calls <- OpenCalls
  Delim = {","}
  MaxLayers = 2
  FGEN_MAX_PARAMS = 3
  FGEN_MAX_KVP_TOKENS = 4
  MaxTokens = 3
\* one at a time
INVARIANT QuotedKept
\* INVARIANT StopsAtNul
\* INVARIANT BadParamsReported
CHECK_DEADLOCK FALSE
