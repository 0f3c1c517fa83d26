SPECIFICATION ProducerSpec
CONSTANTS
  k1 = k1
  k2 = k2
  None = None
  Producers = {"p1"}
  Calls = {k1}
  Consumers <- MCConsumers
  NilErrCh = {}
  QueueCap = 1
  MaxPackets = 0
  Faults = {}
  Removers = {}
  Cancellable = {}
  IdOf <- MCOwnId
  CanPause = FALSE
INVARIANT RemoverAfterClose
CHECK_DEADLOCK FALSE
