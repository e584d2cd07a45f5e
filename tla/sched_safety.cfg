SPECIFICATION Spec
CONSTANTS
  main = main
  side = side
  a = a
  b = b
  c = c
  d = d
  e = e
  f = f
  Pipelines = {main}
  Tasks = {a, b, c, d}
  PipelineOf <- MCPipelineOf
  Deps <- MCDeps
  Rule <- MCRule
  MaxAttempts <- TwoAttempts
  Letter <- Letters
  NameOf <- MCNameOf
  Routing <- OneExecutor
  Executors = {"default"}
  MaxFaults = 2
  MaxStops = 1
  None = None
INVARIANTS
  DependenciesSettled
  
  NothingIsLost
PROPERTIES
  TerminalIsFinal
CHECK_DEADLOCK FALSE
