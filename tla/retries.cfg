SPECIFICATION FairSpec
CONSTANTS
  main = main
  side = side
  a = a
  b = b
  c = c
  d = d
  e = e
  f = f
  Pipelines = {side}
  Tasks = {e, f}
  PipelineOf <- MCPipelineOf
  Deps <- MCDeps
  Rule <- MCRule
  MaxAttempts <- TwoAttempts
  Letter <- Letters
  NameOf <- MCNameOf
  Routing <- OneExecutor
  Executors = {"default"}
  MaxFaults = 0
  MaxStops = 0
  None = None
PROPERTIES
  RetriedIsStartedAgain
CHECK_DEADLOCK FALSE
