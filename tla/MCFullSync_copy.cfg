SPECIFICATION FairSpec
CONSTANTS
  sA = sA
  sB = sB
  sC = sC
  eA = eA
  eB = eB
  o1 = o1
  o2 = o2
  x = x
  y = y
  Ids = {1, 2}
  Contents = {x}
  Absent = Absent
  Syncs = {sA, sB}
  Ensures = {}
  Old = {o1}
  Alias = Alias
  StartID <- Mixed
  BatchSize = 1
  CustomCursor = TRUE
  MaxWrites = 2
  MaxFaults = 0
  MaxBulkFaults = 0
INVARIANTS
  TypeOK
  OnlyWindowDrift
PROPERTIES
  RebuildEnds
CHECK_DEADLOCK FALSE
