SPECIFICATION Spec
CONSTANTS
  Conns = {c1, c2, c3}
  MaxSlots = 2
  MaxOuts = 1
  Stems = {"a"}
  Endings = {""}
  NoSuffix = ""
  Roles = {"inbound", "pull", "push", "rtsp"}
  AllowDuplicates = TRUE
  CanOverride = TRUE
  None = None
  File = File
SYMMETRY Symmetry
INVARIANT PublishedNamesUnique
