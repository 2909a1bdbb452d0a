\* Three updates of one or two units, two in a response, in an arena of eight
\* units; commands need nothing or five units; one reply of the dispatch thread.
SPECIFICATION Spec
CONSTANTS
  Room = 8
  Sizes = {1, 2}
  Costs = {0, 5}
  Limit = 2
  MaxUpdates = 3
  MaxSends = 1
INVARIANTS
  PollArenaHolds
PROPERTIES
  EveryUpdateHandled
CHECK_DEADLOCK FALSE
