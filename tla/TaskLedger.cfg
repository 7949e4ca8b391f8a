SPECIFICATION FairSpec
CONSTANTS
  t1 = t1
  t2 = t2
  t3 = t3
  b1 = b1
  b2 = b2
  a1 = a1
  Tasks = {t1, t2}
  Budgets = {b1, b2}
  Agents = {a1}
  AgentOf <- OneAgent
  Scope <- ScopeOf
  MinReservation = 1
  Limits = {2}
  Costs = {0, 2}
  Env = {"crash"}
INVARIANTS LedgerExact
PROPERTIES AdmissionWithinCap TerminalSticks DispatchSettles
CHECK_DEADLOCK FALSE
