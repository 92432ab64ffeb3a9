\* Packets of both sides around the login, and transports that may be closed
\* at any time.
CONSTANTS
  Patient = FALSE
  Talks = {"PingReq", "ClientSetGameTimeReq", "PrivateChatReq"}
  Leaves = {"endpoint", "upstream"}
  MaxSends = 3
  MaxPushes = 1
SPECIFICATION Spec
INVARIANTS
  ClientUnderstands
  ServerUnderstands
  PingsPass
  NoNegativeCounter
\* A closed transport, and nobody who has anything to say, is the end.
CHECK_DEADLOCK FALSE
