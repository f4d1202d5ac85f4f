CONSTANTS
  Sizes = {1, 2}
  Lengths = {2}
  InvokeLength = 2
  MaxPlays = 2
  MaxTs = 0
  TsRange = 4
  Extended = 1
  AbortedChannels = {}
  FedKinds = {"audio", "video"}
  SetupKinds = {"video"}
  CommandIds = {}
  Offsets = {0}
  StreamIds = {1}
INIT ChunksInit
NEXT ChunksNext
CONSTRAINT NotCut
INVARIANTS InStep AllOrNothing LaterFramesOnTime
