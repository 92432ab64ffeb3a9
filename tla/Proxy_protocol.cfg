CONSTANTS
  Patient = TRUE
  Talks = {"PrivateChatReq"}
  Leaves = {}
  MaxSends = 1
  MaxPushes = 0
SPECIFICATION Spec
INVARIANT
  ClientProtocol
CHECK_DEADLOCK FALSE
