SPECIFICATION LoopSpec
CONSTANTS
  a1 = a1
  a2 = a2
  h1 = h1
  h2 = h2
  h3 = h3
  w1 = w1
  x1 = x1
  Agents = {a1}
  Jobs = {h1, h2, w1, x1}
  AgentOf <- OfAgent
  KindOf <- Kind
  MaxFailures = 1
  Env = {"kill", "torn", "stop", "update", "midnight", "faults"}
INVARIANTS
  OneAtATime
  RunningRowsRun
PROPERTIES
  CrashVerdict
  WaitersAreServed
CHECK_DEADLOCK FALSE
