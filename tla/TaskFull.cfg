SPECIFICATION Spec
CONSTANTS
  t1 = t1
  t2 = t2
  t3 = t3
  b1 = b1
  b2 = b2
  a1 = a1
  Tasks = {t1, t2}
  Budgets = {b1}
  Agents = {a1}
  AgentOf <- OneAgent
  Scope <- ScopeOf
  MinReservation = 1
  Limits = {1}
  Costs = {2}
  Env = {"rollover", "late_cancel", "crash", "torn", "faults", "churn"}
SYMMETRY EveryTaskSymmetric
INVARIANTS TypeOK GateRespected ApprovalMirrorsTask
PROPERTIES CancelSticks DispatchedOnce KeepsPromise
CHECK_DEADLOCK FALSE
