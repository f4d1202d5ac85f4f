CONSTANTS
  MaxProtocols = 4
  Files <- MCFiles
  Second = 2
  Granularity = 2
  KeyframeSeek = TRUE
  Biggest = 2
  ClientBuffer = 2
  SeekTimes = {0, 3, 5, 10, 12, 20}
  MaxElapsed = 9
  MaxCommands = 4
SPECIFICATION ProgressSpec
CHECK_DEADLOCK FALSE
INVARIANTS SeekTableIsRight PlayerHasCodecs FeedsInTime
PROPERTIES DoomedAreFreed FileCompletes
