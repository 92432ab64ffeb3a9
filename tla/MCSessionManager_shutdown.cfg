CONSTANTS
  a1 = a1
  a2 = a2
  Addrs <- One
  Sids = {7, 8}
  PendingCap = 1
  Lossy = FALSE
  Duplication = TRUE
  Reuse = FALSE
  Resyn = FALSE
  Calls = {"Close"}
  MaxSessions = 2
  MaxNet = 0
SPECIFICATION FairSpec
PROPERTIES
  CloseReturns
  ShutdownIsTold
CHECK_DEADLOCK FALSE
