SPECIFICATION FairSpec
CONSTANTS
  good = good
  bad = bad
  r1 = r1
  c1 = c1
  c2 = c2
  Names = {good, bad}
  WorkflowOf <- OwnWorkflow
  Broken = {bad}
  Processes = {r1}
  Clients = {c1, c2}
  Home <- OneHome
  MaxIds = 2
  MaxRemovals = 1
  MaxFaults = 1
  MaxStops = 1
  None = None
INVARIANTS
  RowHasBinary
PROPERTIES
  LoadedConverges
  PackagedPipelineRuns
CHECK_DEADLOCK FALSE
