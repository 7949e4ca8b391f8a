SPECIFICATION Spec
CONSTANTS
  t1 = t1
  t2 = t2
  t3 = t3
  b1 = b1
  b2 = b2
  a1 = a1
  Tasks = {t1, t2}
  Budgets = {b1}
  Agents = {a1}
  AgentOf <- OneAgent
  Scope <- ScopeOf
  MinReservation = 1
  Limits = {1, 2}
  Costs = {0, 2}
  Env = {"admin", "rollover", "late_cancel", "crash"}
SYMMETRY EveryTaskSymmetric
INVARIANTS NeverOverCharged ApprovalMirrorsTask
CHECK_DEADLOCK FALSE
