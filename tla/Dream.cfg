SPECIFICATION Spec
CONSTANTS
  a1 = a1
  a2 = a2
  Agents <- AllAgents
  First <- FirstAgents
  Sizes <- TwoSizes
  MaxVersions = 2
  MaxNotes = 1
  MaxDays = 2
  MaxChanges = 1
  Env = {"cli", "crash"}
INVARIANTS MemoryRecoverable PlansKept
PROPERTY MemoryNeverCollapses
CHECK_DEADLOCK FALSE
