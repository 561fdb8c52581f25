CONSTANTS
  m1 = m1
  m2 = m2
  Lcores = {1, 2, 3}
  NumPorts = 2
  RTE_MAX_ETHPORTS = 3
  CommandLines <- ApartLine
  Qids = {0, 1}
  Followed <- ApartThreads
  Mbufs = {m1}
  BurstCount = 1
  Rates = {100}
  MaxRx <- NoRx
  MaxCount = 0
SPECIFICATION LinkSpec
PROPERTY EachPortPrinted
CHECK_DEADLOCK FALSE
