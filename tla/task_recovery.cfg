SPECIFICATION FairSpec
CONSTANTS
  known = known
  gone = gone
  a = a
  u = u
  r1 = r1
  r2 = r2
  Pipelines = {known, gone}
  Tasks = {a, u}
  PipelineOf <- MCPipelineOf
  Processes = {r1, r2}
  Known <- MCKnown
  MaxRecovery = 1
  MaxAttempts <- TwoAttempts
  Batch = 2
  MaxTroubles = 2
  None = None
INVARIANTS
  RecoveriesAreBounded
  WorkIsBounded
  AbandonedFailsPipeline
PROPERTIES
  OrphanIsTakenUp
CHECK_DEADLOCK FALSE
