\* Two chats of three rounds, one fallback, agents one deep, one shortage and one
\* row the database refuses.
SPECIFICATION FairSpec
CONSTANTS
  Rounds = 3
  Fallbacks = 1
  ExtraRoom = 6
  Window = 2
  CompactFrom = 2
  MaxChats = 2
  MaxDepth = 2
  MaxShortages = 1
  MaxRefusals = 1
INVARIANTS
  ResultsFollowCalls
  ToolsAudited
  FailoverComplete
  LogIsTurns
PROPERTY ChatsEnd
CHECK_DEADLOCK FALSE
