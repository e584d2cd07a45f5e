SPECIFICATION RunnersSpec
CONSTANTS
  flow = flow
  a = a
  b = b
  Pipelines = {flow}
  Tasks = {a, b}
  PipelineOf <- MCPipelineOf
  Deps <- MCDeps
  Rule <- MCRule
  MaxAttempts <- OneAttempt
  Letter = {a, b}
  NameOf <- MCNameOf
  Routing <- OneExecutor
  Executors = {"default"}
  MaxFaults = 0
  MaxStops = 0
  None = None
INVARIANTS
  OneExecutorPerTask
CHECK_DEADLOCK FALSE
