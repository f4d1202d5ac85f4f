CONSTANTS
  MaxProtocols = 5
  Clis = {"c1", "c2"}
  RtmpPeers = {p1}
  Rooms = {"r"}
  Uids = {"u"}
  UserTokens = {"s", "t"}
  StreamNames = {"a"}
  EncreCommands <- MCCommands
  MaxCommandLength = 3
  MaxAsked = 2
  MaxEvents = 2
INIT StackInit
NEXT StackNext
INVARIANTS NoUseAfterFree  ReadableHasReader  QueuedOutputIsWatched ShutdownComplete EventsPaired
PROPERTIES  ServesTheConnector
CHECK_DEADLOCK FALSE
