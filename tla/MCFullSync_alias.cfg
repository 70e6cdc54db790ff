SPECIFICATION Spec
CONSTANTS
  sA = sA
  sB = sB
  sC = sC
  eA = eA
  eB = eB
  o1 = o1
  o2 = o2
  x = x
  y = y
  Ids = {1}
  Contents = {x}
  Absent = Absent
  Syncs = {sA, sB, sC}
  Ensures = {eA}
  Old = {o1, o2}
  Alias = Alias
  StartID <- Whole
  BatchSize = 2
  CustomCursor = FALSE
  MaxWrites = 1
  MaxFaults = 1
  MaxBulkFaults = 1
SYMMETRY Symmetry
INVARIANTS
  AliasSound
  NothingLeft
PROPERTIES
  NoGap
CHECK_DEADLOCK FALSE
