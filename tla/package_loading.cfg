SPECIFICATION FairSpec
CONSTANTS
  a = a
  b = b
  c = c
  Task = {a, b, c}
  Editions = 2
  Sources <- MCSources
  Foreign <- MCForeign
  Platform = "so"
  Strict = FALSE
  Elsewhere = {c}
  Pipelines = {p1}
  MaxRestarts = 1
  None = None
INVARIANTS
  AcceptedLoads
PROPERTIES
  PlanIsWholeOrEmpty
  EditionIsLoaded
CHECK_DEADLOCK FALSE
