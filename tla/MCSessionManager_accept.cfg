CONSTANTS
  a1 = a1
  a2 = a2
  Addrs <- Two
  Sids = {7, 8}
  PendingCap = 2
  Lossy = FALSE
  Duplication = FALSE
  Reuse = FALSE
  Resyn = FALSE
  Calls = {"CloseSession"}
  MaxSessions = 2
  MaxNet = 0
SPECIFICATION FairSpec
INVARIANT
  DialedIsUpdated
PROPERTIES
  EveryAccepted
  DialReturned
CHECK_DEADLOCK FALSE
