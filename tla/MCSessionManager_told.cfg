CONSTANTS
  a1 = a1
  a2 = a2
  Addrs <- One
  Sids = {7, 8}
  PendingCap = 1
  Lossy = TRUE
  Duplication = FALSE
  Reuse = FALSE
  Resyn = FALSE
  Calls = {"Close", "CloseSession", "DisconnectSession"}
  MaxSessions = 1
  MaxNet = 1
SPECIFICATION FairSpec
PROPERTIES
  DisconnectedIsTold
CHECK_DEADLOCK FALSE
