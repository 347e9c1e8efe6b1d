SPECIFICATION Spec
CONSTANTS
  t1 = t1
  t2 = t2
  h1 = h1
  h2 = h2
  Threads = {t1}
  Handles = {h1}
  Configs <- AllConfigs
  Calls <- ManyCalls
  Alterations <- ManyAlterations
  Times = {3, 4, 7, 8, 9}
  Capacity = 1
  MaxStates = 1
  DayLength = 4
  MaxExpires = 28
  MaxInt = 1000
  AmbiguousHosts = {"a host"}
  None = None
  Missing = Missing
  Repeated = Repeated
  Malformed = Malformed
CHECK_DEADLOCK FALSE
PROPERTIES
  KeepsPromise
  OnlyPlausibleRequestsTouchKeys
