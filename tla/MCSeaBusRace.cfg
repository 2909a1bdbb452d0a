\* A poll thread and the agent thread publish at the same time.
SPECIFICATION Spec
CONSTANTS
  NULL = NULL
  poller = poller
  agent = agent
  telegram = telegram
  QueueSize = 2
  InPublishers = {poller}
  OutPublishers = {agent}
  Consumers = {}
  Channels = {telegram}
  ForChannels = {}
  Sizes <- StringSizes
  ArenaSize = 8
  ResetsAnyTime = FALSE
  MaxSent = 2
  MaxResets = 1
INVARIANT
  DataValidUntilReset
CHECK_DEADLOCK FALSE
