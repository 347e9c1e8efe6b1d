SPECIFICATION FairDeploySpec
CONSTANTS
  Blocks = {"location"}
  Parent <- Tree
  ModeWords = {"on"}
  Durations = {}
  OnOffs = {}
  MethodLists = {}
  CredentialLines <- Lines
  FileSecret <- Files
  DefaultSkew = 1
  MaxExpires = 7
  AmbiguousHosts = {}
  None = None
  Malformed = Malformed
  Requests = {"q", "s"}
  SignedWith <- Keys
  Workers = {1, 2}
  WorkerProcesses = 1
  MaxCycles = 2
  MaxRedirects = 1
  Redirected = {"q"}
CHECK_DEADLOCK FALSE
INVARIANTS
  NeverUnconfigured
  TheFileDecides
PROPERTIES
  OldConfigurationsEnd
