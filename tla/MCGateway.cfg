\* Three updates, responses of two, an inbound and an outbound queue of one
\* message, an arena too small or large enough, one restart or one failed write.
SPECIFICATION FairSpec
CONSTANTS
  Updates <- TwoTexts
  Limit = 2
  Capacity = 1
  Rooms = {3, 8}
  MaxMishaps = 1
INVARIANTS
  HandledInOrder
  AnswersFollow
  HistoryPaired
PROPERTIES
  AcceptedIsAnswered
  SignalEndsProcess
CHECK_DEADLOCK FALSE
