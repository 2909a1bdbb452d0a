\* One chat: a question, a tool call and the next request.
SPECIFICATION Spec
CONSTANTS
  Rounds = 2
  Fallbacks = 1
  ExtraRoom = 4
  Window = 2
  CompactFrom = 4
  MaxChats = 1
  MaxDepth = 2
  MaxShortages = 1
  MaxRefusals = 0
INVARIANT QuestionStays
CHECK_DEADLOCK FALSE
