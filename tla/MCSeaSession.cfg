\* Three keys in a table of two, windows of one to three, four messages.
SPECIFICATION Spec
CONSTANTS
  Keys = {k1, k2, k3}
  MaxSessions = 2
  HistoryRoom = 3
  MaxHistory = 2
  KeepRecent = 1
  PromptRoom = 1
  MaxMessages = 4
  MaxNow = 1
  MaxLives = 2
SYMMETRY KeySymmetry
INVARIANTS
  HistoryIsLatest
  NothingForgotten
  Isolated
PROPERTY ClearedIsGone
CHECK_DEADLOCK FALSE
