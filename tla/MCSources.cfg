SPECIFICATION AvutilSpec
CONSTANTS
  Uris <- MCUris
  NoExt = ""
  Registered <- MCRegistered
  MaxHandlers = 3
  MaxCalls = 3
  Changer = TRUE
  MaxPackets = 2
  MaxCopies = 2
  MaxTrailers = 1
  Outcomes = {"ok", "eof", "err"}
INVARIANT SourcesAreHeld
CHECK_DEADLOCK FALSE
