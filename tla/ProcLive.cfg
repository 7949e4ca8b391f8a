SPECIFICATION FairSpec
CONSTANTS
  c1 = c1
  c2 = c2
  c3 = c3
  m1 = m1
  m2 = m2
  s1 = s1
  s2 = s2
  s3 = s3
  fresh = fresh
  NoSession = fresh
  Sends = {c1, c2}
  Streams = {m1}
  Sessions = {s1}
  MaxConcurrent = 1
  MaxSessionLocks = 1
  ChainLength = 2
  MaxAttempts = 1
  Cancels = {c1}
  Drains = {"done", "updating"}
PROPERTIES EverySendReturns DrainEnds
CHECK_DEADLOCK FALSE
