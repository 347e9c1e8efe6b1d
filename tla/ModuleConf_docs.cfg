SPECIFICATION Spec
CONSTANTS
  Blocks = {"server", "location"}
  Parent <- Tree
  ModeWords = {"on", "off", "shadow", "enforce"}
  Durations <- LimitValues
  OnOffs <- FlagValues
  MethodLists <- SomeMethods
  CredentialLines <- Lines
  FileSecret <- Files
  DefaultSkew = 1
  MaxExpires = 7
  AmbiguousHosts = {"a host"}
  None = None
  Malformed = Malformed
CHECK_DEADLOCK FALSE
INVARIANTS
  BadDefaultNeverLoads
