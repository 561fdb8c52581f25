SPECIFICATION Spec
CONSTANTS
  Packets <- MCPackets
  Noise = {0, 255, 65535}
  Addrs = {0, 37775, 57342, 59134, 65535}
  Bytes = {0, 1, 255}
INVARIANTS
  ZeroMeansNone
  VerdictTells
CHECK_DEADLOCK FALSE
