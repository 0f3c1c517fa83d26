SPECIFICATION ProducerSpec
CONSTANTS
  k1 = k1
  k2 = k2
  None = None
  Producers = {"p1"}
  Calls = {k1, k2}
  Consumers <- MCConsumers
  NilErrCh = {}
  QueueCap = 1
  MaxPackets = 2
  Faults = {"muxPacket"}
  Removers = {}
  Cancellable = {}
  IdOf <- MCOwnId
  CanPause = FALSE
INVARIANT ProducerTypeOK
INVARIANT InOrder
PROPERTY FansOut
SYMMETRY MCSymmetry
CHECK_DEADLOCK FALSE
