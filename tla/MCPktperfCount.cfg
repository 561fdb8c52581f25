CONSTANTS
  m1 = m1
  m2 = m2
  Lcores = {1, 2, 3}
  NumPorts = 2
  RTE_MAX_ETHPORTS = 3
  CommandLines <- SingleLine
  Qids = {0, 1}
  Followed <- SingleThread
  Mbufs = {m1, m2}
  BurstCount = 2
  Rates = {100}
  MaxRx <- NoRx
  MaxCount = 2
SPECIFICATION FairSpec
\* one at a time
INVARIANT TxPacketsCounted
\* INVARIANT RatesAddUp
\* PROPERTY AnySignalEndsProgram
CHECK_DEADLOCK FALSE
