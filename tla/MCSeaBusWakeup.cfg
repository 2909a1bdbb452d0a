\* A poll thread and the agent thread publish, two consumers wait; sea_bus_destroy.
SPECIFICATION FairSpec
CONSTANTS
  NULL = NULL
  poller = poller
  agent = agent
  loop1 = loop1
  loop2 = loop2
  telegram = telegram
  QueueSize = 2
  InPublishers = {poller}
  OutPublishers = {agent}
  Consumers = {loop1, loop2}
  Channels = {telegram}
  ForChannels = {}
  Sizes <- ContentOnly
  ArenaSize = 2
  ResetsAnyTime = FALSE
  MaxSent = 3
  MaxResets = 0
INVARIANTS
  LockDiscipline
  IntactUnlessRaced
  NoLostWakeup
PROPERTIES
  InboundIsFifo
  InboundServed
  StopReleasesConsumers
CHECK_DEADLOCK FALSE
