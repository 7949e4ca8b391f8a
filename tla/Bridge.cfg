SPECIFICATION FairSpec
CONSTANTS
  c1 = c1
  c2 = c2
  Sends = {c1}
  Streams = {c2}
  MaxNodes = 1
  Timeouts = {"send", "resend", "close"}
  Faults = {"death", "drain", "start", "cancel"}
  MaxAhead = 2
INVARIANTS
  PromptFirst
  PendingIsOwed
PROPERTY
  EveryTurnReturns
CHECK_DEADLOCK FALSE
