SPECIFICATION Spec
CONSTANTS
  sA = sA
  sB = sB
  sC = sC
  eA = eA
  eB = eB
  o1 = o1
  o2 = o2
  x = x
  y = y
  Ids = {1}
  Contents = {x}
  Absent = Absent
  Syncs = {sA, sB}
  Ensures = {}
  Old = {o1}
  Alias = Alias
  StartID <- Whole
  BatchSize = 2
  CustomCursor = FALSE
  MaxWrites = 0
  MaxFaults = 0
  MaxBulkFaults = 0
INVARIANTS
  CleanFailure
CHECK_DEADLOCK FALSE
