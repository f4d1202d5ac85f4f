CONSTANTS
  MaxProtocols = 1
  Clis = {"c1", "c2"}
  RtmpPeers = {p1}
  Rooms = {"r"}
  Uids = {"u"}
  UserTokens = {"s", "t"}
  StreamNames = {"a"}
  EncreCommands <- MCCommands
  MaxCommandLength = 3
  MaxAsked = 2
  MaxEvents = 2
INIT StackInit
NEXT StackNext
INVARIANT StoppedIsAnnounced
CHECK_DEADLOCK FALSE
