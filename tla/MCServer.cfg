CONSTANTS
  Slots = {1, 2, 3}
  Descriptors = {2, 3, 4}
  MaxTimers = 2
  MaxTokens = 5
  SoClients = {c1, c2}
  SoNames = {"a", "b"}
  SoLasting = {"b"}
  SoKeys = {"x"}
  MaxRequested = 3
  Targets = {t1, t2}
  Unnamed = {t2}
  Pull = pull
  KeepAlive = {t1, pull}
  RtmpIds = {1}
  MaxSources = 2
  MaxLinks = 3
  MaxInvokes = 3
  Masters <- MCMasters
  Keyed = {1}
  FirstSequence = 0
  LastSequence = 2
  WindowSize = 2
  Pieces = 2
  MaxBuffer = 0
  MaxContexts = 2
INIT ServerInit
NEXT ServerNext
CHECK_DEADLOCK FALSE
INVARIANTS TokensPaired Watched DescriptorsOwned   StreamIsFetched
