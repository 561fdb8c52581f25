SPECIFICATION Spec
CONSTANTS
  Terminals = {0, 5}
  Sockets = {7}
  Sizes <- MCSizes
  Threads = {t1}
  FirstActions = {"dfl"}
  OtherColorThread = FALSE
INVARIANTS
  StdinRestored
  ResizeNotMissed
PROPERTY
  ResizeReaches
CHECK_DEADLOCK FALSE
