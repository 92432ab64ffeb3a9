CONSTANTS
  SndWnd = 2
  RcvWnd = 2
  InitRmtWnd = 1
  MaxFrags = 1
  PayloadCap = 1
  MtuSegs = 1
  MaxSent <- Three
  MaxNet <- TwoEach
  MaxAcks = 1
  Duplication = FALSE
SPECIFICATION Spec
INVARIANT
  WindowIsLatest
CHECK_DEADLOCK FALSE
