SPECIFICATION FairWorkSpec
CONSTANTS
  a1 = a1
  a2 = a2
  identityHeading = identityHeading
  style = style
  sub = sub
  Agents = {a1}
  Staff = {a1}
  Headings = {identityHeading, style}
  Protected = {identityHeading}
  Sub = sub
  Templates <- TwoReleases
  MaxEdits = 2
  MaxCycles = 2
  Env = {"wet", "chat", "crash"}
INVARIANTS EditsSurvive
PROPERTIES LoadedCatchesUp
CHECK_DEADLOCK FALSE
