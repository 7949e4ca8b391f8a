SPECIFICATION Spec
CONSTANTS
  u1 = u1
  u2 = u2
  a1 = a1
  a2 = a2
  t1 = t1
  Users = {u1}
  Agents = {a1, a2}
  Tasks = {t1}
  Names = {}
  MaxTurns = 2
  MaxRows = 1
  MaxAge = 1
  DayHours = 2
  MaxHour = 4
  Backends = {"cli", "sdk"}
  Env = {"legacy", "delegate", "spawn", "beat", "peek", "crash"}
SYMMETRY AgentsSymmetric
INVARIANTS OneOpenThread PointersStayUnique SnapshotWithinTotal
PROPERTIES ExpiryInWindow
CHECK_DEADLOCK FALSE
