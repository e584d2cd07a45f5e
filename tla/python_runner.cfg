\* A Python program that executes, asks, cancels and stops.
CONSTANTS
    outer = outer
    inner = inner
    Calls = {outer, inner}
    Nested <- MCNested
    Stoppers = {s1, s2}
    Constructors <- MCConstructors
    PipelineTimeout = TRUE
    MaxFaults = 1
    MaxCancels = 1
SPECIFICATION FairSpec
CHECK_DEADLOCK FALSE
INVARIANTS
    StoppedIsQuiet
PROPERTIES
    EveryoneReturns
