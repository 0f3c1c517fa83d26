SPECIFICATION FairProducerSpec
CONSTANTS
  k1 = k1
  k2 = k2
  None = None
  Producers = {"p1"}
  Calls = {k1}
  Consumers <- MCConsumers
  NilErrCh = {}
  QueueCap = 1
  MaxPackets = 2
  Faults = {"getCodecs", "noStreams", "read", "muxFactory", "muxHeader", "muxPacket", "demuxFactory"}
  Removers = {}
  Cancellable = {k1}
  IdOf <- MCOwnId
  CanPause = TRUE
INVARIANT NilMeansHeaderTaken
PROPERTY CancelledProducerStops
PROPERTY CallReturns
PROPERTY LiveTargetTakesPacket
PROPERTY InactiveIsSwept
CHECK_DEADLOCK FALSE
