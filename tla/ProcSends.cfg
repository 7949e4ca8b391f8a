SPECIFICATION Spec
CONSTANTS
  c1 = c1
  c2 = c2
  c3 = c3
  m1 = m1
  m2 = m2
  s1 = s1
  s2 = s2
  s3 = s3
  fresh = fresh
  NoSession = fresh
  Sends = {c1, c2, c3}
  Streams = {}
  Sessions = {s1, s2, s3}
  MaxConcurrent = 2
  MaxSessionLocks = 2
  ChainLength = 2
  MaxAttempts = 2
  Cancels = {c1, c2, c3}
  Drains = {}
SYMMETRY CallsSymmetric
INVARIANTS PermitsConserved SendsDoNotCollide ActiveIsAwaited
PROPERTIES KeepsPromise
CHECK_DEADLOCK FALSE
