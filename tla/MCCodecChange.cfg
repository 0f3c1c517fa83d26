SPECIFICATION CopySpec
CONSTANTS
  Changer = TRUE
  MaxPackets = 2
  MaxCopies = 1
  MaxTrailers = 1
  Outcomes = {"ok", "eof", "err"}
INVARIANT ChangesForwarded
CHECK_DEADLOCK FALSE
