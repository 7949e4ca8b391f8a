SPECIFICATION Spec
CONSTANTS
  m1 = m1
  m2 = m2
  a1 = a1
  a2 = a2
  none = none
  Messages = {m1, m2}
  Entrances = {"outside", "heartbeat"}
  Agents = {a1, a2}
  Tags <- Meetings
  KindOf <- KindOfTag
  TargetOf <- TargetOfTag
  MaxTurns = 1
  MaxCost = 1
  DailyBudget = 1
  NoTag = none
SYMMETRY MessagesSymmetric
INVARIANTS
  DailyBudgetHolds
  CouncilsDoNotNest
  DelegatedOnce
CHECK_DEADLOCK FALSE
