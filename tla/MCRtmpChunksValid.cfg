SPECIFICATION Spec
CONSTANTS
  Sizes = {1, 2}
  Lengths = {1, 3}
  InvokeLength = 1
  MaxPlays = 1
  MaxTs = 0
  TsRange = 4
  Extended = 2
  AbortedChannels = {}
  FedKinds = {"audio"}
  SetupKinds = {}
  CommandIds = {}
  Offsets = {0}
  StreamIds = {1}
INVARIANT ValidData
