CONSTANTS
  m1 = m1
  m2 = m2
  Lcores = {1, 2, 3}
  NumPorts = 2
  RTE_MAX_ETHPORTS = 3
  CommandLines <- AnyLine
  Qids = {0, 1}
  Followed <- Threads
  Mbufs = {m1, m2}
  BurstCount = 2
  Rates = {100}
  MaxRx <- RxOnOne
  MaxCount = 1
SPECIFICATION FairSpec
INVARIANTS
  QueuesNotShared
  StartedPortsReceive
  MbufsConserved
  OnlyBuiltPacketsSent
  ClosedPortsUnused
PROPERTY SignalEndsProgram
CHECK_DEADLOCK FALSE
