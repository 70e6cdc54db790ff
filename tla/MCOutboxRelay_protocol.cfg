SPECIFICATION Spec
CONSTANTS
  w1 = w1
  w2 = w2
  d1 = d1
  d2 = d2
  RowIds <- TwoRows
  Docs = {d1, d2}
  DocOf <- OwnDocs
  ActionOf <- IndexThenOther
  Workers = {w1, w2}
  BatchSize = 2
  Lease = 1
  PollInterval = 1
  MaxAttempts = 1
  CleanupStatuses = {"dead", "sent"}
  WithLimit = TRUE
  MaxTime = 3
  Horizon = 40
  MaxClaims = 2
  MaxFaults = 2
  MaxAdmin = 1
SYMMETRY WorkerSymmetry
INVARIANTS
  TypeOK
  LeaseExclusive
  
PROPERTIES
  SentMeansAccepted
  LeaseRespected
  BackoffRespected
  DeadMeansBudgetSpent
  ImplementsQueue
CHECK_DEADLOCK FALSE
