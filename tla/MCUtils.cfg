SPECIFICATION UtilsSpec
CONSTANTS
  Uris <- MCUris
  NoExt = ""
  Registered <- MCRegistered
  MaxHandlers = 3
  MaxCalls = 3
  Changer = TRUE
  MaxPackets = 2
  MaxCopies = 2
  MaxTrailers = 1
  Outcomes = {"ok", "eof", "err"}
  WordBits = 6
  ByteBits = 3
  MaxBits = 10
  MaxBytes = 4
  ShortReads = TRUE
  UintBits = 6
  MaxZeros = 4
  MaxCodeBits = 12
  MaxPieces = 5
  MaxLength = 3
INVARIANT SinksAreHeld
PROPERTY FirstRegisteredWins
INVARIANT CopiesInOrder
INVARIANT NilMeansCopied
INVARIANT OutputIsExact
INVARIANT ReadIsExact
PROPERTY OnlyWideReadsCrowd
INVARIANT GolombIsRead
INVARIANT SliceIsExact
CHECK_DEADLOCK FALSE
