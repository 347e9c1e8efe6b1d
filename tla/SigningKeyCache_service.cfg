SPECIFICATION FairSpec
CONSTANTS
  t1 = t1
  t2 = t2
  d1 = d1
  d2 = d2
  r1 = r1
  r2 = r2
  Threads = {t1, t2}
  Dates = {d1, d2}
  Regions = {r1, r2}
  Seed = Seed
  Capacity = 1
  None = None
PROPERTIES
  KeepsPromise
  Drains
