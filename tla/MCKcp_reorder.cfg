CONSTANTS
  SndWnd = 2
  RcvWnd = 2
  InitRmtWnd = 1
  MaxFrags = 2
  PayloadCap = 1
  MtuSegs = 1
  MaxSent <- Three
  MaxNet <- TwoToListener
  MaxAcks = 1
  Duplication = TRUE
SPECIFICATION Spec
INVARIANTS
  InOrder
  AckedIsReceived
  NoneBeyondWindow
  WholeMessages
  DeliveredInOrder
  IInv
PROPERTY
  PipeSpec
CHECK_DEADLOCK FALSE
