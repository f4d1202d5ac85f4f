CONSTANTS
  Ids = {1, 2, 3}
  Periods = {2, 3, 4}
  UintSize = 64
  MaxTicks = 14
  MaxDelta = 2
  MinChunkSize = 2
  MaxRequest = 3
  MaxBytes = 9
  PageSize = 3
  FileSize = 14
  WindowSize = 4
  MaxRead = 7
  Players = {p1, p2}
  RenameBadFiles = TRUE
  MessagePieces = 2
  MaxRecordings = 3
  MaxFrames = 2
  MaxSeconds = 4
  AmfMessages <- Messages
  Films <- MuxedFilms
INIT LibraryInit
NEXT LibraryNext
CHECK_DEADLOCK FALSE
INVARIANTS UnreadKept ReadsExact TablesDescribeFiles RelayedAsMeant TableAsMuxed
PROPERTY ImplementsService
