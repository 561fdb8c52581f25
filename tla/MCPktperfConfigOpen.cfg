CONSTANTS
  m1 = m1
  m2 = m2
  Lcores = {1, 2, 3}
  NumPorts = 2
  RTE_MAX_ETHPORTS = 3
  CommandLines <- OpenLines
  Qids = {0, 1}
  Followed <- SingleThread
  Mbufs = {m1}
  BurstCount = 1
  Rates = {100}
  MaxRx <- NoRx
  MaxCount = 1
SPECIFICATION Spec
\* one at a time
INVARIANT StartedPortsTransmit
\* INVARIANT FailedSetupStops
\* INVARIANT QueuesPolled
\* INVARIANT FgenOptionAccepted
CHECK_DEADLOCK FALSE
