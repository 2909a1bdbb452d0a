\* Two threads publish replies for two channels; dispatchers take the head
\* or the first message of one channel.
SPECIFICATION Spec
CONSTANTS
  NULL = NULL
  agent = agent
  tool = tool
  telegram = telegram
  discord = discord
  QueueSize = 3
  InPublishers = {}
  OutPublishers = {agent, tool}
  Consumers = {}
  Channels = {telegram, discord}
  ForChannels = {telegram, discord}
  Sizes <- StringSizes
  ArenaSize = 8
  ResetsAnyTime = FALSE
  MaxSent = 2
  MaxResets = 1
INVARIANTS
  RingsWellFormed
PROPERTIES
  OutboundIsFifo
CHECK_DEADLOCK FALSE
