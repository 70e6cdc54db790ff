SPECIFICATION FairSpec
CONSTANTS
  s1 = s1
  s2 = s2
  r1 = r1
  r2 = r2
  k1 = k1
  k2 = k2
  Starts = {s1, s2}
  Runs = {r1}
  Stops = {k1}
  NoCall = NoCall
INVARIANTS
  TypeOK
  OneLoop
  FlagsMatchOwner
  ShutdownDrainsStarted
PROPERTIES
  PanicReported
  StartReturns
  ShutdownReturns
  LoopEnds
CHECK_DEADLOCK FALSE
