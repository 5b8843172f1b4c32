\* A machine that hangs holds the call, and with it the volume.
CHECK_DEADLOCK FALSE
CONSTANTS
  Hosts = {"h1", "h2", "h3"}
  Chars <- MCChars
  Instance <- MCInstance
  Files <- MCFiles
  Matches <- MCMatches
  Quota = 3
  Decimal <- MCDecimal
  MaxCrashes = 1
  MaxHandles = 2
  MaxMoves = 1
SPECIFICATION Spec
INVARIANTS ReadsTheOpenedFile AggregateIsExact OneKeyPerName
