\* Ctrl+C while the agent thread works on a message; the process is not killed.
SPECIFICATION Spec
CONSTANTS
  Updates <- TwoTexts
  Limit = 2
  Capacity = 1
  Rooms = {8}
  MaxMishaps = 0
INVARIANT
  GracefulShutdown
CHECK_DEADLOCK FALSE
