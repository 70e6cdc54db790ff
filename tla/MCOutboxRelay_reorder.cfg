SPECIFICATION Spec
CONSTANTS
  w1 = w1
  w2 = w2
  d1 = d1
  d2 = d2
  RowIds <- TwoRows
  Docs = {d1}
  DocOf <- SameDoc
  ActionOf <- AllIndex
  Workers = {w1}
  BatchSize = 2
  Lease = 1
  PollInterval = 1
  MaxAttempts = 2
  CleanupStatuses = {"dead"}
  WithLimit = FALSE
  MaxTime = 4
  Horizon = 40
  MaxClaims = 2
  MaxFaults = 1
  MaxAdmin = 0
INVARIANTS
  ConvergedWhenSent
CHECK_DEADLOCK FALSE
