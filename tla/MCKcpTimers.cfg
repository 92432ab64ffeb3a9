CONSTANTS
  HalfRange = 24
  Interval = 2
  MinRto = 2
  DefRto = 3
  MaxRto = 5
  ProbeInit = 2
  ProbeLimit = 4
  Slap = 4
  FastResend = 2
  DeadLink = 1
  SndWnd = 2
  InitRmtWnd = 1
  Wnds = {0, 2}
  Starts <- BeforeWrap
  MaxAge = 4
  MaxAcks = 2
  MaxInputs = 2
  MaxSegs = 2
  Lifetime = 8
SPECIFICATION Spec
INVARIANTS
  TypeOK
  RtoInRange
  ResentOnTime
  WindowIsProbed
PROPERTY
  NoneTooEarly
CHECK_DEADLOCK FALSE
