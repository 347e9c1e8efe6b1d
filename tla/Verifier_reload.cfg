SPECIFICATION Spec
CONSTANTS
  t1 = t1
  t2 = t2
  h1 = h1
  h2 = h2
  Threads = {t1, t2}
  Handles = {h1, h2}
  Configs <- ReloadConfigs
  Calls <- FewCalls
  Alterations <- FewAlterations
  Times = {7}
  Capacity = 1
  MaxStates = 2
  DayLength = 4
  MaxExpires = 28
  MaxInt = 1000
  AmbiguousHosts = {"a host"}
  None = None
  Missing = Missing
  Repeated = Repeated
  Malformed = Malformed
CHECK_DEADLOCK FALSE
INVARIANTS
  KeysAreOfTheSecretInForce
PROPERTIES
  KeepsPromise
