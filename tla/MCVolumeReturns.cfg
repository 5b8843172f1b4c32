CHECK_DEADLOCK FALSE
CONSTANTS
  Hosts = {"h1"}
  Chars <- MCChars
  Instance <- MCInstance
  Files <- MCFiles
  Matches <- MCMatches
  Quota = 3
  Decimal <- MCDecimal
  MaxCrashes = 1
  MaxHandles = 0
  MaxMoves = 0
SPECIFICATION Spec
PROPERTIES VolumeReconnects
