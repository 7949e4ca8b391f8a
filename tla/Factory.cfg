SPECIFICATION FairSpec
CONSTANTS
  r1 = r1
  r2 = r2
  albert = albert
  luna = luna
  max_ = max_
  johnny = johnny
  None = None
  AutoName = AutoName
  Runs = {r1, r2}
  Agents = {albert, luna, max_, johnny}
  Caps = {3}
  Costs = {0, 2}
  MaxIterations = 2
  HasTests = TRUE
  Loaded <- SortedNames
  Orchestrator = johnny
  BuildAgents <- AlbertAndLuna
  BuildReviewer = max_
  PlannerName = johnny
  ExecutorNames <- DefaultExecutors
  ReviewerName = AutoName
  Presets <- Panel
  RequireApproval = TRUE
  Churn = {max_, luna}
INVARIANTS CostBounded
PROPERTIES EveryRunEnds
CHECK_DEADLOCK FALSE
