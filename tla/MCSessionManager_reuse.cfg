CONSTANTS
  a1 = a1
  a2 = a2
  Addrs <- Two
  Sids = {7, 8}
  PendingCap = 1
  Lossy = FALSE
  Duplication = FALSE
  Reuse = TRUE
  Resyn = TRUE
  Calls = {"Close"}
  MaxSessions = 2
  MaxNet = 1
SPECIFICATION Spec
INVARIANTS
  TypeOK
  NoForeignInput
  OneSessionHears
  OpenIsKnown
SYMMETRY Symmetry
CHECK_DEADLOCK FALSE
