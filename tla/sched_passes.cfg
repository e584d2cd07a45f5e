SPECIFICATION FairSpec
CONSTANTS
  main = main
  side = side
  a = a
  b = b
  c = c
  d = d
  e = e
  f = f
  Pipelines = {main, side}
  Tasks = {a, b, c, e}
  PipelineOf <- MCPipelineOf
  Deps <- MCDeps
  Rule <- MCRule
  MaxAttempts <- TwoAttempts
  Letter <- Letters
  NameOf <- MCNameOf
  Routing <- MCRouting
  Executors = {"default"}
  MaxFaults = 1
  MaxStops = 1
  None = None
INVARIANTS
  RoutedAsDocumented
PROPERTIES
  EndedPipelineIsLeftAlone
  ImplementsLifecycle
  PipelineEndsOrIsStranded
CHECK_DEADLOCK FALSE
