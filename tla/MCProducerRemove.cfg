SPECIFICATION ProducerSpec
CONSTANTS
  k1 = k1
  k2 = k2
  None = None
  Producers = {"p1"}
  Calls = {k1, k2}
  Consumers <- MCConsumers
  NilErrCh <- MCSecondNil
  QueueCap = 1
  MaxPackets = 0
  Faults = {"getCodecs"}
  Removers = {"r1"}
  Cancellable = {k1}
  IdOf <- MCSameId
  CanPause = FALSE
INVARIANT RunningIsMember
INVARIANT OneMuxerPerId
INVARIANT MembershipInv
INVARIANT RemoverIsHeard
INVARIANT FailedAddIsInactive
CHECK_DEADLOCK FALSE
