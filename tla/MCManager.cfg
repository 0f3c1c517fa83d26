SPECIFICATION ManagerSpec
CONSTANTS
  p1 = p1
  p2 = p2
  k1 = k1
  k2 = k2
  None = None
  Producers = {p1, p2}
  Calls = {k1}
  Consumers <- MCConsumers
  NilErrCh = {}
  QueueCap = 1
  MaxPackets = 0
  Faults = {"demuxFactory"}
  Removers = {"r1"}
  Cancellable = {}
  IdOf <- MCOwnId
  CanPause = FALSE
  ProducerIds = {"cam"}
  PidOf <- MCOneProducer
  CanStop = TRUE
INVARIANT ManagerTypeOK
INVARIANT RunningProducerIsMapped
INVARIANT StoppedIsQuiet
PROPERTY SourcesAreManaged
SYMMETRY MCSymmetry
CHECK_DEADLOCK FALSE
