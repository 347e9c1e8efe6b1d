SPECIFICATION HSpec
CONSTANTS
  t1 = t1
  t2 = t2
  t3 = t3
  d1 = d1
  d2 = d2
  d3 = d3
  d4 = d4
  r1 = r1
  r2 = r2
  Threads = {t1, t2}
  Dates = {d1, d2, d3, d4}
  Regions = {r1}
  Seed = Seed
  Capacity = 2
  None = None
SYMMETRY Symmetry
INVARIANTS
  RetainsRecentlyUsed
