CONSTANTS
  Patient = TRUE
  Talks = {"ClientSetGameTimeReq", "ChangeGameTimeReq", "PullRecentChatReq", "MarkMapReq",
           "PullPrivateChatReq", "GetPlayerFriendListReq"}
  Leaves = {}
  MaxSends = 4
  MaxPushes = 0
SPECIFICATION FairSpec
INVARIANTS
  TypeOK
  AnsweredWithOwn
  WelcomedOnce
PROPERTIES
  LoggedIn
  TimeAnswered
CHECK_DEADLOCK FALSE
