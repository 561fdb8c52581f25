SPECIFICATION SallocSpec
CONSTANTS
  Sizes = {0, 1, 2, 3, 5}
  DEFAULT_SALLOC_BLOCK_SIZE = 4
  MaxUsed = 12
INVARIANT AllocsApart
PROPERTY ImplementsArena
\* fails: INVARIANT AllocsInsideBlock
