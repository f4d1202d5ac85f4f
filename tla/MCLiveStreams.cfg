SPECIFICATION LiveSpec
CONSTANTS
  Conns = {c1, c2}
  MaxSlots = 2
  MaxOuts = 1
  Stems = {"a"}
  Endings = {"", "?x"}
  NoSuffix = ""
  Roles = {"inbound", "pull", "push", "rtsp"}
  AllowDuplicates = FALSE
  CanOverride = FALSE
  None = None
  File = File
  SeqRange = 8
  TsRange = 8
  ReportPeriod = 2
  MaxMessages = 4
  MaxWire = 4
  MaxFaults = 1
SYMMETRY Symmetry
CHECK_DEADLOCK FALSE
INVARIANTS LinksAgree RegistryExact PlaybackAgrees CountersExact
PROPERTIES NewStreamsMeet NalsIntact
