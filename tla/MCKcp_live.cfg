CONSTANTS
  SndWnd = 1
  RcvWnd = 2
  InitRmtWnd = 1
  MaxFrags = 2
  PayloadCap = 1
  MtuSegs = 8
  MaxSent <- Three
  MaxNet <- One
  MaxAcks = 2
  Duplication = FALSE
SPECIFICATION FairSpec
INVARIANT
  WindowIsLatest
PROPERTIES
  PipeFairSpec
  EverySentIsReleased
CHECK_DEADLOCK FALSE
