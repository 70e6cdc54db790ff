SPECIFICATION Spec
CONSTANTS
  w1 = w1
  w2 = w2
  d1 = d1
  d2 = d2
  RowIds <- OneRow
  Docs = {d1}
  DocOf <- OwnDoc1
  ActionOf <- AllIndex1
  Workers = {w1}
  BatchSize = 2
  Lease = 1
  PollInterval = 1
  MaxAttempts = 1
  CleanupStatuses = {"dead"}
  WithLimit = FALSE
  MaxTime = 4
  Horizon = 40
  MaxClaims = 3
  MaxFaults = 2
  MaxAdmin = 0
PROPERTIES
  TransportFailuresAreFree
CHECK_DEADLOCK FALSE
