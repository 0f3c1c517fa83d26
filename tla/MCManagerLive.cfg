SPECIFICATION FairManagerSpec
CONSTANTS
  p1 = p1
  p2 = p2
  k1 = k1
  k2 = k2
  None = None
  Producers = {p1}
  Calls = {k1}
  Consumers <- MCConsumers
  NilErrCh = {}
  QueueCap = 1
  MaxPackets = 0
  Faults = {"demuxFactory"}
  Removers = {}
  Cancellable = {k1}
  IdOf <- MCOwnId
  CanPause = FALSE
  ProducerIds = {"cam"}
  PidOf <- MCOneProducer
  CanStop = TRUE
PROPERTY StopCompletes
PROPERTY IdleIsSwept
PROPERTY AddReturnsOrClosed
CHECK_DEADLOCK FALSE
