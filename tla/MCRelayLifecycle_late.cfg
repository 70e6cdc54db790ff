SPECIFICATION Spec
CONSTANTS
  s1 = s1
  s2 = s2
  r1 = r1
  r2 = r2
  k1 = k1
  k2 = k2
  Starts = {s1}
  Runs = {r1}
  Stops = {k1}
  NoCall = NoCall
INVARIANTS
  ShutdownDrains
CHECK_DEADLOCK FALSE
