CONSTANTS
  Threads = {1, 2}
  Calls <- MCCalls
  Interfaces = {"eth0"}
  Counts = {1, 2}
  Errnos = {1, 95}
SPECIFICATION Spec
INVARIANTS
  NoSocketLeft
  ChangedAsAsked
  FailureReported
