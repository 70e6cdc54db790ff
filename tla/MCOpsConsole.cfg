SPECIFICATION ConsoleSpec
CONSTANTS
  m1 = m1
  m2 = m2
  m3 = m3
  relay = relay
  q1 = q1
  q2 = q2
  t1 = t1
  t2 = t2
  Models = {m1, m2, m3}
  MaxRows <- Tables
  Registries <- Registered
  Unscannable = {m3}
  SyncWorkers = 2
  Others = {relay, m2}
  MaxElsewhere = 1
  MaxLosses = 1
  Events = {m1, m2, m3, relay}
  NoEvent = NoEvent
  BufferSize = 0
  DefaultSize = 2
  Callers = {c1, c2}
  Queries = {q1, q2}
  Types = {t1, t2}
  TypeName <- PrintedAlike
  Searches <- SearchSet
  IndexOf <- QueryIndex
  Unmarshalable = {q2}
  None = None
  MaxSearches = 2
  Commands <- CommandSet
  SearchBeside <- OneTable
  WatchBeside <- Twice
  LoseBeside <- FewStates
INVARIANTS
  TypeOK
  RecentAreNewest
  OneRebuildPerModel
  Answered
  SuccessMeansRebuilt
  CountedIsRetained
  OneRequestPerKey
  OwnAnswer
  RepairRepairs
CHECK_DEADLOCK FALSE
PROPERTIES
  ImplementsLog
  NoReuse
  FullSyncReturns
  SearchesReturn
