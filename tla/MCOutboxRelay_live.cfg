SPECIFICATION FairSpec
CONSTANTS
  w1 = w1
  w2 = w2
  d1 = d1
  d2 = d2
  RowIds <- TwoRows
  Docs = {d1}
  DocOf <- SameDoc
  ActionOf <- IndexThenDelete
  Workers = {w1}
  BatchSize = 2
  Lease = 2
  PollInterval = 1
  MaxAttempts = 1
  CleanupStatuses = {"dead"}
  WithLimit = FALSE
  MaxTime = 4
  Horizon = 4
  MaxClaims = 6
  MaxFaults = 2
  MaxAdmin = 1
INVARIANTS
  InOrderUnlessDisturbed
PROPERTIES
  EventuallySettled
CHECK_DEADLOCK FALSE
