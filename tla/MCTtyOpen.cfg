SPECIFICATION Spec
CONSTANTS
  Terminals = {0, 5}
  Sockets = {7}
  Sizes <- MCSizes
  Threads = {t1, t2}
  FirstActions = {"dfl", "ign"}
  OtherColorThread = TRUE
\* one at a time; StdinRestored is about OtherColorThread, ResizeReaches about t2
INVARIANT SizeIsWindow
\* INVARIANT ActionRestored
\* INVARIANT StdinRestored
\* PROPERTY ResizeReaches
CHECK_DEADLOCK FALSE
