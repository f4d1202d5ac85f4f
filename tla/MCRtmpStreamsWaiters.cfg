SPECIFICATION Spec
CONSTANTS
  Conns = {c1, c2}
  MaxSlots = 2
  MaxOuts = 1
  Stems = {"a"}
  Endings = {"", "?x"}
  NoSuffix = ""
  Roles = {"inbound", "pull", "push", "rtsp"}
  AllowDuplicates = FALSE
  CanOverride = FALSE
  None = None
  File = File
PROPERTY WaitersArePickedUp
