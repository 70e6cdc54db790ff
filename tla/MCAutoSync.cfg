SPECIFICATION Spec
CONSTANTS
  s1 = s1
  s2 = s2
  title = title
  body = body
  deleted_at = deleted_at
  Sessions = {s1, s2}
  Columns = {title, body, deleted_at}
  SoftColumn = deleted_at
  Absent = Absent
  Committed = Committed
  MaxStatements = 2
  MaxEvents = 1
  Registrations <- Three
SYMMETRY Symmetry
INVARIANTS
  TypeOK
  NoUnexplainedDrift
CHECK_DEADLOCK FALSE
